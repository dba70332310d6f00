------------------------- MODULE XSDContent_proofs -------------------------
(***************************************************************************)
(* Proofs about XSDContent, for every set of schemas and documents: the    *)
(* state is well-typed; what is accepted keeps to the bounds of its schema *)
(* in every element that the declarations reach, if BoundsAreKept; what    *)
(* conforms is not rejected, if NamesDecide.                               *)
(*                                                                         *)
(* The types of a document are a recursive function, from the root down.   *)
(* What they are is proved by the least counterexample (Least): the first  *)
(* element that has no type, or that was skipped, has a parent before it.  *)
(***************************************************************************)
EXTENDS XSDContent, FiniteSetTheorems, WellFoundedInduction, TLAPS

(* Once the schema is read the types are those of its text, and those of   *)
(* the top-level elements are known.                                       *)
SchemaRead ==
  /\ schema \in Schemas /\ doc \in Documents
  /\ complexTypes = IF phase = "schema" THEN <<>>
                    ELSE [t \in DOMAIN schema.types |-> ParseComplexType(schema.types[t])]
  /\ phase \notin {"schema", "unresolvable"} =>
       \A i \in DOMAIN schema.elements : Resolvable(schema.elements[i].type)

(* The parent of an element still to check comes before all of these.      *)
ParentsPassed ==
  \A e \in todo : e.node = 1 \/ \A f \in todo : doc[e.node].parent < f.node

(* The root of the document is declared, and an element still to check has *)
(* the type that the declarations from the root down give it.              *)
RootChosen ==
  phase = "elements" =>
    /\ RootDeclaration # {}
    /\ \A root \in RootDeclaration :
         RootValid(root) /\ \A e \in todo : e.type = Types(root)[e.node]

(* Elements are checked in document order.                                 *)
Passed(n) == \A e \in todo : n < e.node

(* An element with a type is checked and holds, is still to check, or is   *)
(* below one that is.                                                      *)
NothingSkipped ==
  phase = "elements" =>
    \A root \in RootDeclaration, n \in DOMAIN doc :
      Types(root)[n] # NoType =>
        \/ Passed(n) /\ NodeValid(Types(root)[n], n, CountsValid)
        \/ \E e \in todo : e.node = n
        \/ n # 1 /\ ~Passed(doc[n].parent)

TypeInv == TypeOK /\ SchemaRead /\ ParentsPassed

-----------------------------------------------------------------------------
(* The least of some numbers; induction over documents rests on it.        *)
LEMMA Least ==
  ASSUME NEW T, T \subseteq Nat, T # {}
  PROVE  \E m \in T : \A n \in T : m <= n
  <1>1. PICK m \in T : \A n \in T : ~(<<n, m>> \in OpToRel(<, Nat))
    BY WFMin, NatLessThanWellFounded
  <1>2. \A n \in T : ~(n < m)
    BY <1>1 DEF OpToRel
  <1>3. QED
    BY <1>2

(* What a document is.                                                     *)
LEMMA DocumentShape ==
  ASSUME doc \in Documents
  PROVE  /\ DOMAIN doc = 1..Len(doc) /\ Len(doc) \in Nat /\ 1 \in DOMAIN doc
         /\ \A n \in DOMAIN doc :
              /\ n \in Nat /\ doc[n] \in ElementNode /\ doc[n].parent \in Nat
              /\ n # 1 => doc[n].parent \in DOMAIN doc /\ doc[n].parent < n
  <1>1. doc \in Seq(ElementNode) /\ Len(doc) > 0
    BY TreesAreOrdered
  <1>2. \A n \in DOMAIN doc : doc[n].parent < n /\ (doc[n].parent = 0 <=> n = 1)
    BY TreesAreOrdered
  <1>3. DOMAIN doc = 1..Len(doc) /\ Len(doc) \in Nat
    BY <1>1
  <1>4. \A n \in DOMAIN doc : n \in Nat /\ doc[n] \in ElementNode /\ doc[n].parent \in Nat
    <2>1. \A n \in DOMAIN doc : n \in Nat /\ doc[n] \in ElementNode
      BY <1>1, <1>3
    <2>2. \A e \in ElementNode : e.parent \in Nat
      BY DEF ElementNode
    <2>3. QED
      BY <2>1, <2>2
  <1>5. ASSUME NEW n \in DOMAIN doc, n # 1 PROVE doc[n].parent \in DOMAIN doc
    <2>1. doc[n].parent \in Nat /\ doc[n].parent # 0 /\ doc[n].parent < n /\ n \in 1..Len(doc)
      BY <1>2, <1>3, <1>4, <1>5
    <2>2. QED
      BY <1>3, <2>1
  <1>6. QED
    BY <1>1, <1>2, <1>3, <1>4, <1>5

(* The type of every element is defined by that of its parent: a function  *)
(* for the first elements extends to the next one.                         *)
LEMMA TypesAreDefined ==
  ASSUME doc \in Documents, NEW root
  PROVE  /\ DOMAIN Types(root) = DOMAIN doc
         /\ Types(root)[1] = root.type
         /\ \A n \in DOMAIN doc : n # 1 => Types(root)[n] = TypeIn(Types(root)[doc[n].parent], n)
  <1> DEFINE Step(f, n) == IF n = 1 THEN root.type ELSE TypeIn(f[doc[n].parent], n)
             Upto(k) == \E f : f = [n \in 1..k |-> Step(f, n)]
             T == {k \in 0..Len(doc) : ~Upto(k)}
  <1>1. T = {}
    <2> SUFFICES ASSUME T # {} PROVE FALSE
      OBVIOUS
    <2>1. T \subseteq Nat
      BY DocumentShape
    <2>2. PICK k \in T : \A j \in T : k <= j
      BY <2>1, Least
    <2>3. k # 0
      <3>1. 1..0 = {}
        OBVIOUS
      <3>2. \E f : f = [n \in 1..0 |-> Step(f, n)]
        <4>1. [n \in {} |-> 0] = [n \in 1..0 |-> Step([m \in {} |-> 0], n)]
          BY <3>1
        <4>2. QED
          BY <4>1
      <3>3. QED
        BY <3>2
    <2>4. k - 1 \in 0..Len(doc) /\ k \in 1..Len(doc) /\ k - 1 \notin T
      BY <2>1, <2>2, <2>3, DocumentShape
    <2>5. PICK f : f = [n \in 1..(k - 1) |-> Step(f, n)]
      BY <2>4
    <2> DEFINE g == [n \in 1..k |-> IF n = k THEN Step(f, k) ELSE f[n]]
    <2>6. ASSUME NEW n \in 1..k PROVE g[n] = Step(g, n)
      <3>1. CASE n = 1 /\ k = 1
        BY <3>1
      <3>2. CASE n = 1 /\ k # 1
        BY <2>4, <2>5, <3>2
      <3>3. CASE n # 1
        <4>1. n \in DOMAIN doc /\ doc[n].parent \in 1..(k - 1)
          BY <2>4, <3>3, DocumentShape
        <4>2. g[doc[n].parent] = f[doc[n].parent]
          BY <2>4, <4>1
        <4>3. Step(g, n) = Step(f, n)
          BY <3>3, <4>2
        <4>4. n # k => f[n] = Step(f, n)
          <5> HIDE DEF Step
          <5>1. n # k => n \in 1..(k - 1)
            BY <2>4
          <5>2. QED
            BY <2>5, <5>1
        <4>5. QED
          BY <4>3, <4>4
      <3>4. QED
        BY <3>1, <3>2, <3>3
    <2>7. g = [n \in 1..k |-> Step(g, n)]
      <3> HIDE DEF Step
      <3>1. QED
        BY <2>6
    <2>8. QED
      BY <2>7
  <1>2. \E f : f = [n \in DOMAIN doc |-> Step(f, n)]
    <2>1. Len(doc) \in 0..Len(doc) /\ DOMAIN doc = 1..Len(doc)
      BY DocumentShape
    <2>2. Upto(Len(doc))
      BY <1>1, <2>1
    <2> HIDE DEF Step
    <2>3. QED
      BY <2>1, <2>2
  <1>3. Types(root) = [n \in DOMAIN doc |-> Step(Types(root), n)]
    BY <1>2 DEF Types
  <1>4. QED
    BY <1>3, DocumentShape

(* The particle that findDeclaredParticle finds.                           *)
LEMMA ParticleFound ==
  ASSUME NEW t, NEW length \in Nat, DOMAIN t.particles = 1..length, NEW name \in ParticleNames(t)
  PROVE  \E i \in DOMAIN t.particles :
           /\ t.particles[i].name = name /\ \A j \in 1..(i - 1) : t.particles[j].name # name
           /\ ParticleType(t, name) = t.particles[i].type
  <1> DEFINE First(i) == t.particles[i].name = name /\ \A j \in 1..(i - 1) : t.particles[j].name # name
             T == {i \in DOMAIN t.particles : t.particles[i].name = name}
  <1>1. T # {} /\ T \subseteq Nat
    BY DEF ParticleNames
  <1>2. PICK i \in T : \A j \in T : i <= j
    BY <1>1, Least
  <1>3. First(i) /\ i \in DOMAIN t.particles
    BY <1>2
  <1>4. \E j \in DOMAIN t.particles : First(j)
    BY <1>3
  <1> DEFINE c == CHOOSE j \in DOMAIN t.particles : First(j)
  <1>5. c \in DOMAIN t.particles /\ First(c)
    BY <1>4
  <1>6. ParticleType(t, name) = t.particles[c].type
    BY DEF ParticleType
  <1>7. QED
    BY <1>5, <1>6

-----------------------------------------------------------------------------
(* What a schema is.                                                       *)
LEMMA TypeShape ==
  ASSUME schema \in Schemas, NEW t \in DOMAIN schema.types
  PROVE  LET type == schema.types[t]
         IN /\ t \in TypeNames /\ t \notin Builtins /\ type.compositor \in Compositors
            /\ DOMAIN type.particles = 1..Len(type.particles) /\ Len(type.particles) \in Nat
            /\ type.compositor = "none" => type.particles = <<>>
            /\ \A i \in DOMAIN type.particles :
                 /\ type.particles[i].name \in Names
                 /\ type.particles[i].min \in Nat \cup {Omitted}
                 /\ type.particles[i].max \in Nat \cup {Omitted, Unbounded}
                 /\ type.particles[i].type \in TypeNames \cup {NoType}
  <1> DEFINE type == schema.types[t]
             Particle == [name : Names, min : Nat \cup {Omitted},
                          max : Nat \cup {Omitted, Unbounded}, type : TypeNames \cup {NoType}]
  <1>1. /\ t \in TypeNames /\ t \notin Builtins /\ type.compositor \in Compositors
        /\ type.compositor = "none" => type.particles = <<>>
        /\ type.particles \in Seq(Particle)
    BY SchemasAreTexts DEF SchemaText
  <1>2. \A p \in Particle : /\ p.name \in Names /\ p.min \in Nat \cup {Omitted}
                            /\ p.max \in Nat \cup {Omitted, Unbounded}
                            /\ p.type \in TypeNames \cup {NoType}
    OBVIOUS
  <1>3. /\ DOMAIN type.particles = 1..Len(type.particles) /\ Len(type.particles) \in Nat
        /\ \A i \in DOMAIN type.particles : type.particles[i] \in Particle
    <2> HIDE DEF type, Particle
    <2>1. QED
      BY <1>1
  <1>4. QED
    BY <1>1, <1>2, <1>3

(* What the schema's parser makes of a type.                               *)
LEMMA ParsedShape ==
  ASSUME schema \in Schemas, NEW t \in DOMAIN schema.types
  PROVE  LET type == schema.types[t]
             parsed == ParseComplexType(type)
         IN /\ parsed.compositor = type.compositor
            /\ parsed.attributes = type.attributes /\ parsed.anyAttribute = type.anyAttribute
            /\ DOMAIN parsed.particles = DOMAIN type.particles
            /\ \A i \in DOMAIN type.particles :
                 /\ parsed.particles[i].name = type.particles[i].name
                 /\ parsed.particles[i].type = type.particles[i].type
                 /\ parsed.particles[i].minOccurs = ParseUint(type.particles[i].min)
                 /\ parsed.particles[i].maxOccurs = MaxOccurs(type.particles[i].max)
            /\ ParticleNames(parsed) = ParticleNames(type)
            /\ parsed.particles = <<>> <=> type.particles = <<>>
  <1> DEFINE type == schema.types[t]
             parsed == ParseComplexType(type)
  <1>1. /\ parsed.compositor = type.compositor
        /\ parsed.attributes = type.attributes /\ parsed.anyAttribute = type.anyAttribute
        /\ parsed.particles = [i \in DOMAIN type.particles |-> ParseParticle(type.particles[i])]
    BY DEF ParseComplexType
  <1>2. DOMAIN parsed.particles = DOMAIN type.particles
    BY <1>1
  <1>3. ASSUME NEW i \in DOMAIN type.particles
        PROVE  /\ parsed.particles[i].name = type.particles[i].name
               /\ parsed.particles[i].type = type.particles[i].type
               /\ parsed.particles[i].minOccurs = ParseUint(type.particles[i].min)
               /\ parsed.particles[i].maxOccurs = MaxOccurs(type.particles[i].max)
    <2>1. parsed.particles[i] = ParseParticle(type.particles[i])
      BY <1>1
    <2>2. QED
      BY <2>1 DEF ParseParticle
  <1>4. ParticleNames(parsed) = ParticleNames(type)
    <2> HIDE DEF type, parsed
    <2>1. QED
      BY <1>2, <1>3 DEF ParticleNames
  <1>5. parsed.particles = <<>> <=> type.particles = <<>>
    <2>1. DOMAIN type.particles = 1..Len(type.particles) /\ type.particles \in Seq(Range(type.particles))
      BY TypeShape, SchemasAreTexts DEF SchemaText, Range
    <2> HIDE DEF type, parsed
    <2>2. QED
      BY <1>1, <1>2, <2>1
  <1>6. QED
    BY <1>1, <1>2, <1>3, <1>4, <1>5

(* The types of children are the same in the text and in XSD_Impl.         *)
LEMMA SameParticleType ==
  ASSUME schema \in Schemas, NEW t \in DOMAIN schema.types,
         NEW name \in ParticleNames(schema.types[t])
  PROVE  /\ ParticleType(ParseComplexType(schema.types[t]), name) = ParticleType(schema.types[t], name)
         /\ ParticleType(schema.types[t], name) \in TypeNames \cup {NoType}
  <1> DEFINE type == schema.types[t]
             parsed == ParseComplexType(type)
             length == Len(type.particles)
  <1>1. length \in Nat /\ DOMAIN type.particles = 1..length
    BY TypeShape
  <1>2. DOMAIN parsed.particles = 1..length /\ name \in ParticleNames(parsed)
    BY <1>1, ParsedShape
  <1>3. PICK i \in DOMAIN type.particles :
          /\ type.particles[i].name = name /\ \A j \in 1..(i - 1) : type.particles[j].name # name
          /\ ParticleType(type, name) = type.particles[i].type
    BY <1>1, ParticleFound
  <1>4. PICK k \in DOMAIN parsed.particles :
          /\ parsed.particles[k].name = name /\ \A j \in 1..(k - 1) : parsed.particles[j].name # name
          /\ ParticleType(parsed, name) = parsed.particles[k].type
    BY <1>1, <1>2, ParticleFound
  <1>5. type.particles[k].name = name /\ parsed.particles[i].name = name
        /\ parsed.particles[k].type = type.particles[k].type /\ k \in 1..length /\ i \in 1..length
    BY <1>1, <1>2, <1>3, <1>4, ParsedShape
  <1>6. ~(k < i) /\ ~(i < k)
    BY <1>1, <1>3, <1>4, <1>5
  <1>7. i = k
    BY <1>1, <1>5, <1>6
  <1>8. type.particles[i].type \in TypeNames \cup {NoType}
    BY TypeShape
  <1>9. QED
    BY <1>3, <1>4, <1>5, <1>7, <1>8

-----------------------------------------------------------------------------
(* What a simple type is.                                                  *)
LEMMA SimpleTypeShape ==
  ASSUME schema \in Schemas, NEW type \in DOMAIN schema.simpleTypes
  PROVE  LET t == schema.simpleTypes[type]
         IN /\ type \in TypeNames /\ type \notin Builtins
            /\ \A r \in ToSet(t.restrictions) :
                 \/ r.facet = "enumeration" /\ r.value \in Texts
                 \/ r.facet = "pattern" /\ r.value \subseteq Texts
                 \/ r.facet \in LengthFacets /\ r.value \in Nat
                 \/ r.facet \in NumericFacets /\ r.value \in Int
  <1> DEFINE t == schema.simpleTypes[type]
             Restriction == [facet : {"enumeration"}, value : Texts]
                            \cup [facet : {"pattern"}, value : SUBSET Texts]
                            \cup [facet : LengthFacets, value : Nat]
                            \cup [facet : NumericFacets, value : Int]
  <1>1. type \in TypeNames /\ type \notin Builtins /\ t \in SimpleType
    BY SchemasAreTexts DEF SchemaText
  <1>2. t.restrictions \in Seq(Restriction)
    BY <1>1 DEF SimpleType
  <1>3. \A r \in ToSet(t.restrictions) : r \in Restriction
    <2> HIDE DEF t, Restriction
    <2>1. QED
      BY <1>2 DEF ToSet
  <1>4. \A r \in Restriction :
          \/ r.facet = "enumeration" /\ r.value \in Texts
          \/ r.facet = "pattern" /\ r.value \subseteq Texts
          \/ r.facet \in LengthFacets /\ r.value \in Nat
          \/ r.facet \in NumericFacets /\ r.value \in Int
    OBVIOUS
  <1>5. QED
    BY <1>1, <1>3, <1>4

(* A facet that is not an enumeration excludes what does not meet it.      *)
LEMMA FacetExcludes ==
  ASSUME NEW text \in Texts, NEW r,
         \/ r.facet = "pattern" /\ r.value \subseteq Texts
         \/ r.facet \in LengthFacets /\ r.value \in Nat
         \/ r.facet \in NumericFacets /\ r.value \in Int
  PROVE  MeetsFacet(r, text) <=> text \notin Excluded(r)
  <1>1. Length[text] \in Nat /\ Number[text] \in Int \cup {NaN} /\ NaN \notin Int
    BY NamesAndTypes
  <1>2. CASE r.facet = "pattern"
    BY <1>2 DEF MeetsFacet, Excluded, NumericFacets
  <1>3. CASE r.facet \in LengthFacets /\ r.value \in Nat
    <2>1. CASE r.facet = "minLength"
      BY <1>1, <1>3, <2>1 DEF MeetsFacet, Excluded, NumericFacets
    <2>2. CASE r.facet = "maxLength"
      BY <1>1, <1>3, <2>2 DEF MeetsFacet, Excluded, NumericFacets
    <2>3. CASE r.facet = "length"
      BY <1>1, <1>3, <2>3 DEF MeetsFacet, Excluded, NumericFacets
    <2>4. QED
      BY <1>3, <2>1, <2>2, <2>3 DEF LengthFacets
  <1>4. CASE r.facet \in NumericFacets /\ r.value \in Int
    <2>1. CASE r.facet = "minInclusive"
      BY <1>1, <1>4, <2>1 DEF MeetsFacet, Excluded, NumericFacets
    <2>2. CASE r.facet = "maxInclusive"
      BY <1>1, <1>4, <2>2 DEF MeetsFacet, Excluded, NumericFacets
    <2>3. CASE r.facet = "minExclusive"
      BY <1>1, <1>4, <2>3 DEF MeetsFacet, Excluded, NumericFacets
    <2>4. CASE r.facet = "maxExclusive"
      BY <1>1, <1>4, <2>4 DEF MeetsFacet, Excluded, NumericFacets
    <2>5. QED
      BY <1>4, <2>1, <2>2, <2>3, <2>4 DEF NumericFacets
  <1>5. QED
    BY <1>2, <1>3, <1>4

(* The facets of a simple type are met by the texts it does not exclude.   *)
LEMMA TypeExcludes ==
  ASSUME schema \in Schemas, NEW type \in DOMAIN schema.simpleTypes, NEW text \in Texts
  PROVE  LET t == schema.simpleTypes[type]
         IN MeetsRestrictions(t, text) <=>
              /\ t.base \in Builtins => text \in Accepts[t.base]
              /\ text \notin ExcludedByType(t)
  <1> DEFINE t == schema.simpleTypes[type]
             R == ToSet(t.restrictions)
             Enumerations == {r \in R : r.facet = "enumeration"}
             Others == {r \in R : r.facet # "enumeration"}
             Of(enumerations) == {Excluded(r) : r \in {q \in R : (q.facet = "enumeration") = enumerations}}
             allowed == {r.value : r \in Enumerations}
  <1>1. Of(FALSE) = {Excluded(r) : r \in Others} /\ Of(TRUE) = {Excluded(r) : r \in Enumerations}
    OBVIOUS
  <1>2. \A r \in Enumerations : Excluded(r) = Texts \ {r.value} /\ MeetsFacet(r, text)
    BY DEF Excluded, MeetsFacet, NumericFacets
  <1>3. \A r \in Others : MeetsFacet(r, text) <=> text \notin Excluded(r)
    <2> SUFFICES ASSUME NEW r \in Others PROVE MeetsFacet(r, text) <=> text \notin Excluded(r)
      OBVIOUS
    <2>1. \/ r.facet = "pattern" /\ r.value \subseteq Texts
          \/ r.facet \in LengthFacets /\ r.value \in Nat
          \/ r.facet \in NumericFacets /\ r.value \in Int
      BY SimpleTypeShape
    <2>2. QED
      BY <2>1, FacetExcludes
  <1>4. text \in ExcludedByType(t) <=>
          \/ \E r \in Others : text \in Excluded(r)
          \/ Enumerations # {} /\ \A r \in Enumerations : text \in Excluded(r)
    <2> DEFINE excluded == IF Of(TRUE) = {} THEN {} ELSE {x \in Texts : \A E \in Of(TRUE) : x \in E}
    <2>1. ExcludedByType(t) = (UNION Of(FALSE)) \cup excluded
      BY DEF ExcludedByType
    <2> HIDE DEF Of, Others, Enumerations
    <2>2. text \in (UNION Of(FALSE)) <=> \E r \in Others : text \in Excluded(r)
      BY <1>1
    <2>3. (\E E \in Of(TRUE) : TRUE) <=> (\E r \in Enumerations : TRUE)
      BY <1>1
    <2>4. (\A E \in Of(TRUE) : text \in E) <=> \A r \in Enumerations : text \in Excluded(r)
      BY <1>1
    <2>5. text \in excluded <=> Of(TRUE) # {} /\ \A E \in Of(TRUE) : text \in E
      OBVIOUS
    <2>6. Of(TRUE) # {} <=> Enumerations # {}
      BY <2>3
    <2> HIDE DEF excluded, t, R
    <2>7. text \in ExcludedByType(t) <=> text \in (UNION Of(FALSE)) \/ text \in excluded
      BY <2>1
    <2>8. QED
      BY <2>2, <2>4, <2>5, <2>6, <2>7
  <1>5. (allowed # {} => text \in allowed) <=>
          ~(Enumerations # {} /\ \A r \in Enumerations : text \in Excluded(r))
    <2> HIDE DEF Enumerations
    <2>1. QED
      BY <1>2
  <1>6. MeetsRestrictions(t, text) <=>
          /\ t.base \in Builtins => text \in Accepts[t.base]
          /\ \A r \in R : MeetsFacet(r, text)
          /\ allowed # {} => text \in allowed
    BY DEF MeetsRestrictions, BuiltinAccepts
  <1> HIDE DEF t, allowed
  <1>7. QED
    BY <1>2, <1>3, <1>4, <1>5, <1>6 DEF t

(* The types that a type restricts, at least one step and at most one where *)
(* every simple type restricts a builtin one.                              *)
LEMMA Bases ==
  ASSUME NEW type
  PROVE  /\ type \in TypeAndBases(type)
         /\ type \in DOMAIN schema.simpleTypes => schema.simpleTypes[type].base \in TypeAndBases(type)
         /\ schema \in Schemas /\ BoundsAreKept =>
              \A t \in TypeAndBases(type) :
                t = type \/ (type \in DOMAIN schema.simpleTypes /\ t = schema.simpleTypes[type].base)
  <1> DEFINE simple == DOMAIN schema.simpleTypes
             all == {type} \cup {schema.simpleTypes[t].base : t \in simple}
             Closed(S) == type \in S /\ \A t \in S \cap simple : schema.simpleTypes[t].base \in S
             near == {t \in all : t = type \/ (type \in simple /\ t = schema.simpleTypes[type].base)}
  <1>1. TypeAndBases(type) = {t \in all : \A S \in SUBSET all : Closed(S) => t \in S}
    BY DEF TypeAndBases
  <1>2. \A S \in SUBSET all : Closed(S) => type \in S
    OBVIOUS
  <1>3. type \in simple => \A S \in SUBSET all : Closed(S) => schema.simpleTypes[type].base \in S
    OBVIOUS
  <1>4. schema \in Schemas /\ BoundsAreKept => Closed(near)
    <2> SUFFICES ASSUME schema \in Schemas, BoundsAreKept PROVE Closed(near)
      OBVIOUS
    <2>1. type \in simple => schema.simpleTypes[type].base \notin simple
      BY DEF BoundsAreKept
    <2>2. type \in near /\ (type \in simple => schema.simpleTypes[type].base \in near)
      <3>1. type \in all /\ (type \in simple => schema.simpleTypes[type].base \in all)
        OBVIOUS
      <3> HIDE DEF all
      <3>2. QED
        BY <3>1
    <2>3. \A t \in near : t = type \/ (type \in simple /\ t = schema.simpleTypes[type].base)
      OBVIOUS
    <2> HIDE DEF near, simple
    <2>4. QED
      BY <2>1, <2>2, <2>3
  <1>5. type \in all /\ (type \in simple => schema.simpleTypes[type].base \in all) /\ near \in SUBSET all
    OBVIOUS
  <1> HIDE DEF Closed, all
  <1>6. QED
    BY <1>1, <1>2, <1>3, <1>4, <1>5

(* The check of a text rejects only what is not valid, and where bases are *)
(* builtin accepts only what is.                                           *)
LEMMA TextAgrees ==
  ASSUME schema \in Schemas, NEW type, NEW text \in Texts
  PROVE  /\ TextValid(type, text) => SimpleTypeAccepts(type, text)
         /\ BoundsAreKept /\ SimpleTypeAccepts(type, text) => TextValid(type, text)
  <1> DEFINE Fits(t) == /\ t \in Builtins => text \in Accepts[t]
                        /\ t \in DOMAIN schema.simpleTypes => text \notin ExcludedByType(schema.simpleTypes[t])
  <1>1. TextValid(type, text) <=> \A t \in TypeAndBases(type) : Fits(t)
    BY DEF TextValid
  <1>2. SimpleTypeAccepts(type, text) <=>
          Fits(type) /\ (type \in DOMAIN schema.simpleTypes /\ schema.simpleTypes[type].base \in Builtins =>
                            text \in Accepts[schema.simpleTypes[type].base])
    BY TypeExcludes DEF SimpleTypeAccepts, BuiltinAccepts
  <1>3. BoundsAreKept => \A t \in DOMAIN schema.simpleTypes : schema.simpleTypes[t].base \notin DOMAIN schema.simpleTypes
    BY DEF BoundsAreKept
  <1>4. TextValid(type, text) => SimpleTypeAccepts(type, text)
    BY <1>1, <1>2, Bases
  <1>5. BoundsAreKept /\ SimpleTypeAccepts(type, text) => TextValid(type, text)
    BY <1>1, <1>2, <1>3, Bases
  <1>6. QED
    BY <1>4, <1>5

-----------------------------------------------------------------------------
(* Counting children.                                                      *)
LEMMA CountOfChildren ==
  ASSUME doc \in Documents, NEW n, NEW name
  PROVE  /\ IsFiniteSet(Children(n)) /\ Count(n, name) \in Nat
         /\ Count(n, name) > 0 <=> \E c \in Children(n) : doc[c].name = name
  <1> DEFINE Named == {c \in Children(n) : doc[c].name = name}
  <1>1. IsFiniteSet(DOMAIN doc)
    BY DocumentShape, FS_Interval
  <1>2. IsFiniteSet(Children(n)) /\ IsFiniteSet(Named)
    BY <1>1, FS_Subset DEF Children
  <1>3. Cardinality(Named) \in Nat /\ (Cardinality(Named) = 0 <=> Named = {})
    BY <1>2, FS_CardinalityType, FS_EmptySet
  <1>4. QED
    BY <1>2, <1>3 DEF Count

(* The elements of a set of one are equal.                                 *)
LEMMA AtMostOne ==
  ASSUME NEW S, IsFiniteSet(S), Cardinality(S) <= 1, NEW a \in S, NEW b \in S
  PROVE  a = b
  <1> SUFFICES ASSUME a # b PROVE FALSE
    OBVIOUS
  <1>1. IsFiniteSet({a}) /\ Cardinality({a}) = 1
    BY FS_Singleton
  <1>2. IsFiniteSet({a} \cup {b}) /\ Cardinality({a} \cup {b}) = 2
    <2>1. b \notin {a}
      OBVIOUS
    <2> DEFINE A == {a}
    <2> HIDE DEF A
    <2>2. IsFiniteSet(A \cup {b}) /\ Cardinality(A \cup {b}) = Cardinality(A) + 1
      BY <1>1, <2>1, FS_AddElement DEF A
    <2>3. QED
      BY <1>1, <2>2 DEF A
  <1>3. Cardinality({a} \cup {b}) <= Cardinality(S)
    BY FS_Subset
  <1>4. Cardinality(S) \in Nat
    BY FS_CardinalityType
  <1>5. QED
    BY <1>2, <1>3, <1>4

(* The bounds as they are read, and as they are written.                   *)
LEMMA BoundsAgree ==
  ASSUME schema \in Schemas, NEW t \in DOMAIN schema.types,
         NEW i \in DOMAIN schema.types[t].particles, NEW k \in Nat
  PROVE  LET p == schema.types[t].particles[i]
             most == MaxOccurs(p.max)
         IN /\ ParseUint(p.min) \in Nat
            /\ p.max = Unbounded \/ k <= ParseUint(p.max) => (most # 0 => k <= most)
            /\ p.max # 0 /\ (most # 0 => k <= most) => p.max = Unbounded \/ k <= ParseUint(p.max)
            /\ p.min # 0 => ParseUint(p.min) > 0
  <1> DEFINE p == schema.types[t].particles[i]
  <1>1. p.min \in Nat \cup {Omitted} /\ p.max \in Nat \cup {Omitted, Unbounded}
    BY TypeShape
  <1>2. Omitted \notin Nat /\ Unbounded \notin Nat
    BY NamesAndTypes
  <1> HIDE DEF p
  <1>3. QED
    BY <1>1, <1>2 DEF ParseUint, MaxOccurs, p

(* The content that validateElement accepts keeps to the bounds.           *)
LEMMA ContentCounted ==
  ASSUME doc \in Documents, schema \in Schemas, BoundsAreKept,
         NEW t \in DOMAIN schema.types, NEW n \in DOMAIN doc,
         ContentHolds(ParseComplexType(schema.types[t]), n)
  PROVE  CountsValid(schema.types[t], n)
  <1> DEFINE type == schema.types[t]
             parsed == ParseComplexType(type)
             Read(i) == /\ parsed.particles[i].name = type.particles[i].name
                        /\ parsed.particles[i].minOccurs = ParseUint(type.particles[i].min)
                        /\ parsed.particles[i].maxOccurs = MaxOccurs(type.particles[i].max)
  <1>1. /\ parsed.compositor = type.compositor /\ ParticleNames(parsed) = ParticleNames(type)
        /\ DOMAIN parsed.particles = DOMAIN type.particles
        /\ \A i \in DOMAIN type.particles : Read(i)
    BY ParsedShape
  <1>2. DOMAIN type.particles = 1..Len(type.particles) /\ Len(type.particles) \in Nat
    BY TypeShape
  <1>3. SUFFICES ASSUME type.compositor # "none" PROVE CountsValid(type, n)
    BY DEF CountsValid
  <1>4. /\ NoUnexpectedChildren(parsed, n)
        /\ IF type.compositor = "choice" THEN Choice(parsed, n) ELSE SequenceOrAll(parsed, n)
    BY <1>1, <1>3 DEF ContentHolds
  <1>5. \A c \in Children(n) : doc[c].name \in ParticleNames(type)
    BY <1>1, <1>4 DEF NoUnexpectedChildren
  <1>6. ASSUME NEW i \in DOMAIN type.particles, AtMostMaxOccurs(parsed.particles[i], n)
        PROVE  \/ type.particles[i].max = Unbounded
               \/ Count(n, type.particles[i].name) <= ParseUint(type.particles[i].max)
    <2>1. Count(n, type.particles[i].name) \in Nat
      BY CountOfChildren
    <2>2. MaxOccurs(type.particles[i].max) # 0 =>
            Count(n, type.particles[i].name) <= MaxOccurs(type.particles[i].max)
      BY <1>1, <1>6 DEF AtMostMaxOccurs
    <2>3. type.particles[i].max # 0
      BY DEF BoundsAreKept
    <2>4. QED
      BY <2>1, <2>2, <2>3, BoundsAgree
  <1>7. CASE type.compositor = "choice"
    <2> DEFINE Taken == {i \in DOMAIN parsed.particles : Count(n, parsed.particles[i].name) > 0}
    <2>1. IsFiniteSet(Taken)
      <3>1. IsFiniteSet(1..Len(type.particles)) /\ Taken \subseteq 1..Len(type.particles)
        BY <1>1, <1>2, FS_Interval
      <3> HIDE DEF Taken
      <3>2. QED
        BY <3>1, FS_Subset
    <2>2. Cardinality(Taken) <= 1 /\ \A i \in Taken : AtMostMaxOccurs(parsed.particles[i], n)
      BY <1>4, <1>7 DEF Choice
    <2>3. ASSUME NEW i \in DOMAIN type.particles, Count(n, type.particles[i].name) > 0
          PROVE  LET k == Count(n, type.particles[i].name)
                 IN k = Cardinality(Children(n)) /\ Occurs([type.particles[i] EXCEPT !.min = 0], k)
      <3>1. i \in Taken
        BY <1>1, <2>3
      <3>2. ASSUME NEW c \in Children(n) PROVE doc[c].name = type.particles[i].name
        <4>1. PICK j \in DOMAIN type.particles : doc[c].name = type.particles[j].name
          BY <1>5 DEF ParticleNames
        <4>2. Count(n, type.particles[j].name) > 0
          BY <4>1, CountOfChildren
        <4>3. j \in Taken
          BY <1>1, <4>2
        <4> HIDE DEF Taken
        <4>4. j = i
          BY <2>1, <2>2, <3>1, <4>3, AtMostOne
        <4>5. QED
          BY <4>1, <4>4
      <3>3. {c \in Children(n) : doc[c].name = type.particles[i].name} = Children(n)
        BY <3>2
      <3>4. Count(n, type.particles[i].name) = Cardinality(Children(n))
        BY <3>3 DEF Count
      <3>5. \/ type.particles[i].max = Unbounded
            \/ Count(n, type.particles[i].name) <= ParseUint(type.particles[i].max)
        BY <1>6, <2>2, <3>1
      <3>6. ParseUint(0) = 0 /\ Count(n, type.particles[i].name) \in Nat
        BY CountOfChildren DEF ParseUint
      <3> DEFINE p == type.particles[i]
                 q == [p EXCEPT !.min = 0]
      <3>7. q.min = 0 /\ q.max = p.max
        <4>1. p \in [name : Names, min : Nat \cup {Omitted},
                     max : Nat \cup {Omitted, Unbounded}, type : TypeNames \cup {NoType}]
          <5> DEFINE P == [name : Names, min : Nat \cup {Omitted},
                           max : Nat \cup {Omitted, Unbounded}, type : TypeNames \cup {NoType}]
          <5>1. type.particles \in Seq(P)
            BY SchemasAreTexts DEF SchemaText
          <5> HIDE DEF P, type
          <5>2. p \in P
            BY <1>2, <5>1
          <5>3. QED
            BY <5>2 DEF P
        <4> HIDE DEF p
        <4>2. QED
          BY <4>1
      <3> HIDE DEF q
      <3>8. Occurs(q, Count(n, p.name))
        BY <3>5, <3>6, <3>7 DEF Occurs
      <3>9. QED
        BY <3>4, <3>8 DEF q
    <2>4. QED
      BY <1>3, <1>5, <1>7, <2>3 DEF CountsValid
  <1>8. CASE type.compositor # "choice"
    <2>1. ASSUME NEW i \in DOMAIN type.particles
          PROVE  Occurs(type.particles[i], Count(n, type.particles[i].name))
      <3>1. /\ Count(n, parsed.particles[i].name) >= parsed.particles[i].minOccurs
            /\ AtMostMaxOccurs(parsed.particles[i], n)
        BY <1>1, <1>4, <1>8 DEF SequenceOrAll, WithinOccurrenceBounds
      <3>2. Count(n, type.particles[i].name) >= ParseUint(type.particles[i].min)
        BY <1>1, <3>1
      <3>3. QED
        BY <1>6, <3>1, <3>2 DEF Occurs
    <2>2. QED
      BY <1>3, <1>5, <1>8, <2>1 DEF CountsValid
  <1>9. QED
    BY <1>7, <1>8

(* Content that is valid is accepted, if the names tell the particles      *)
(* apart: the share of a particle is the number of children of its name.   *)
LEMMA ContentDecided ==
  ASSUME doc \in Documents, schema \in Schemas, NamesDecide,
         NEW t \in DOMAIN schema.types, NEW n \in DOMAIN doc,
         ContentValid(schema.types[t], n)
  PROVE  ContentHolds(ParseComplexType(schema.types[t]), n)
  <1> DEFINE type == schema.types[t]
             parsed == ParseComplexType(type)
             Read(i) == /\ parsed.particles[i].name = type.particles[i].name
                        /\ parsed.particles[i].minOccurs = ParseUint(type.particles[i].min)
                        /\ parsed.particles[i].maxOccurs = MaxOccurs(type.particles[i].max)
  <1>1. /\ parsed.compositor = type.compositor /\ ParticleNames(parsed) = ParticleNames(type)
        /\ DOMAIN parsed.particles = DOMAIN type.particles
        /\ \A i \in DOMAIN type.particles : Read(i)
    BY ParsedShape
  <1>2. DOMAIN type.particles = 1..Len(type.particles) /\ Len(type.particles) \in Nat
    BY TypeShape
  <1>3. SUFFICES ASSUME type.compositor # "none" PROVE ContentHolds(parsed, n)
    BY <1>1 DEF ContentHolds
  <1>4. \E f : f \in Distributions(type, n)
    BY <1>3 DEF ContentValid
  <1>5. NoUnexpectedChildren(parsed, n)
    BY <1>1, <1>4 DEF NoUnexpectedChildren, Distributions, ParticleNames
  <1>6. \A i, j \in DOMAIN type.particles : type.particles[i].name = type.particles[j].name => i = j
    BY DEF NamesDecide
  <1>7. ASSUME NEW f \in Distributions(type, n), NEW i \in DOMAIN type.particles
        PROVE  Share(f, i) = Count(n, type.particles[i].name)
    <2>1. DOMAIN f = Children(n) /\ \A c \in Children(n) :
            f[c] \in DOMAIN type.particles /\ type.particles[f[c]].name = doc[c].name
      BY DEF Distributions
    <2>2. \A c \in Children(n) : f[c] = i <=> doc[c].name = type.particles[i].name
      BY <1>6, <2>1
    <2>3. {c \in DOMAIN f : f[c] = i} = {c \in Children(n) : doc[c].name = type.particles[i].name}
      BY <2>1, <2>2
    <2>4. QED
      BY <2>3 DEF Share, Count
  <1>8. ASSUME NEW i \in DOMAIN type.particles,
               \/ type.particles[i].max = Unbounded
               \/ Count(n, type.particles[i].name) <= ParseUint(type.particles[i].max)
        PROVE  AtMostMaxOccurs(parsed.particles[i], n)
    <2>1. Count(n, type.particles[i].name) \in Nat
      BY CountOfChildren
    <2>2. MaxOccurs(type.particles[i].max) # 0 =>
            Count(n, type.particles[i].name) <= MaxOccurs(type.particles[i].max)
      BY <1>8, <2>1, BoundsAgree
    <2>3. QED
      BY <1>1, <2>2 DEF AtMostMaxOccurs
  <1>9. CASE type.compositor = "choice"
    <2>1. PICK f \in Distributions(type, n), i \in DOMAIN type.particles :
            (\A c \in DOMAIN f : f[c] = i) /\ Occurs(type.particles[i], Cardinality(DOMAIN f))
      BY <1>9 DEF ContentValid
    <2>2. DOMAIN f = Children(n) /\ \A c \in Children(n) : type.particles[i].name = doc[c].name
      BY <2>1 DEF Distributions
    <2>3. \A j \in DOMAIN type.particles : Count(n, type.particles[j].name) > 0 => j = i
      BY <1>6, <2>2, CountOfChildren
    <2>4. {c \in Children(n) : doc[c].name = type.particles[i].name} = Children(n)
      BY <2>2
    <2>5. Count(n, type.particles[i].name) = Cardinality(DOMAIN f)
      BY <2>2, <2>4 DEF Count
    <2>6. Occurs(type.particles[i], Count(n, type.particles[i].name))
      BY <2>1, <2>5
    <2>7. AtMostMaxOccurs(parsed.particles[i], n)
      BY <1>8, <2>6 DEF Occurs
    <2>8. Count(n, type.particles[i].name) > 0
      <3>1. ParseUint(type.particles[i].min) > 0 /\ ParseUint(type.particles[i].min) \in Nat
        <4>1. type.particles[i].min # 0
          BY <1>9 DEF NamesDecide
        <4>2. QED
          BY <4>1, BoundsAgree
      <3>2. Count(n, type.particles[i].name) \in Nat
        BY CountOfChildren
      <3>3. QED
        BY <2>6, <3>1, <3>2 DEF Occurs
    <2> DEFINE Taken == {j \in DOMAIN parsed.particles : Count(n, parsed.particles[j].name) > 0}
    <2>9. Taken = {i}
      BY <1>1, <2>3, <2>8
    <2>10. Cardinality(Taken) <= 1
      <3> HIDE DEF Taken
      <3>1. Cardinality({i}) = 1
        BY FS_Singleton
      <3>2. QED
        BY <2>9, <3>1
    <2>11. \A j \in Taken : AtMostMaxOccurs(parsed.particles[j], n)
      BY <2>7, <2>9
    <2>12. Choice(parsed, n)
      BY <2>9, <2>10, <2>11 DEF Choice
    <2>13. QED
      BY <1>1, <1>5, <1>9, <2>12 DEF ContentHolds
  <1>10. CASE type.compositor # "choice"
    <2>1. PICK f \in Distributions(type, n) : \A i \in DOMAIN type.particles : Occurs(type.particles[i], Share(f, i))
      BY <1>3, <1>10 DEF ContentValid
    <2>2. \A i \in DOMAIN type.particles : WithinOccurrenceBounds(parsed.particles[i], n)
      <3> SUFFICES ASSUME NEW i \in DOMAIN type.particles
                   PROVE  WithinOccurrenceBounds(parsed.particles[i], n)
        OBVIOUS
      <3>1. Occurs(type.particles[i], Count(n, type.particles[i].name))
        BY <1>7, <2>1
      <3>2. Count(n, parsed.particles[i].name) >= parsed.particles[i].minOccurs
        BY <1>1, <3>1 DEF Occurs
      <3>3. AtMostMaxOccurs(parsed.particles[i], n)
        BY <1>8, <3>1 DEF Occurs
      <3>4. QED
        BY <3>2, <3>3 DEF WithinOccurrenceBounds
    <2>3. SequenceOrAll(parsed, n)
      BY <1>1, <2>2 DEF SequenceOrAll
    <2>4. QED
      BY <1>1, <1>5, <1>10, <2>3 DEF ContentHolds
  <1>11. QED
    BY <1>9, <1>10

(* Reading a type keeps its attributes.                                    *)
LEMMA SameAttributes ==
  ASSUME schema \in Schemas, NEW t \in DOMAIN schema.types, NEW n
  PROVE  AttributesHold(ParseComplexType(schema.types[t]), n) <=> AttributesHold(schema.types[t], n)
  <1>1. /\ ParseComplexType(schema.types[t]).attributes = schema.types[t].attributes
        /\ ParseComplexType(schema.types[t]).anyAttribute = schema.types[t].anyAttribute
    BY ParsedShape
  <1>2. QED
    BY <1>1 DEF AttributesHold

-----------------------------------------------------------------------------
(* The element that is checked is the first one still to check.            *)
LEMMA CurrentIsFirst ==
  ASSUME TypeInv, todo # {}
  PROVE  /\ Current \in todo /\ \A f \in todo : Current.node <= f.node
         /\ \A f \in todo : f.node = Current.node => f = Current
         /\ Current.node \in DOMAIN doc /\ Current.node \in Nat
         /\ \A f \in todo : f.node \in Nat
  <1>1. \A f \in todo : f.node \in DOMAIN doc /\ f.node \in Nat
    BY DocumentShape DEF TypeInv, TypeOK, SchemaRead
  <1>2. {f.node : f \in todo} \subseteq Nat /\ {f.node : f \in todo} # {}
    BY <1>1
  <1>3. PICK m \in {f.node : f \in todo} : \A k \in {f.node : f \in todo} : m <= k
    BY <1>2, Least
  <1>4. \E e \in todo : \A f \in todo : e.node <= f.node
    BY <1>3
  <1>5. Current \in todo /\ \A f \in todo : Current.node <= f.node
    BY <1>4 DEF Current
  <1>6. QED
    BY <1>1, <1>5 DEF TypeInv, TypeOK

(* The root element has one declaration, the first.                        *)
LEMMA OneDeclaration ==
  ASSUME schema \in Schemas, NEW r \in RootDeclaration, NEW q \in RootDeclaration
  PROVE  /\ r = q /\ \E i \in DOMAIN schema.elements : r = schema.elements[i]
  <1> DEFINE Named == FindTopLevelElement(doc[1].name)
             Local == FindTopLevelElement(LocalName[doc[1].name])
             Found == IF Named # {} THEN Named ELSE Local
  <1>1. DOMAIN schema.elements \subseteq Nat
    <2>1. schema.elements \in Seq([name : Names, type : TypeNames \cup {NoType}, fixed : Texts \cup {NoText}])
      BY SchemasAreTexts DEF SchemaText
    <2>2. QED
      BY <2>1
  <1>2. Found \subseteq DOMAIN schema.elements
    BY DEF FindTopLevelElement
  <1>3. RootDeclaration = {schema.elements[i] : i \in {j \in Found : \A k \in Found : j <= k}}
    BY DEF RootDeclaration
  <1> HIDE DEF Found
  <1>4. PICK i \in Found : r = schema.elements[i] /\ \A k \in Found : i <= k
    BY <1>3
  <1>5. PICK j \in Found : q = schema.elements[j] /\ \A k \in Found : j <= k
    BY <1>3
  <1>6. i = j
    BY <1>1, <1>2, <1>4, <1>5
  <1>7. QED
    BY <1>2, <1>4, <1>5, <1>6

(* What a step that leaves schema and document alone does not change.      *)
LEMMA SameReference ==
  ASSUME UNCHANGED <<schema, doc>>
  PROVE  /\ RootDeclaration' = RootDeclaration
         /\ \A root : Types(root)' = Types(root) /\ (RootValid(root)' <=> RootValid(root))
         /\ \A root : TreeValid(root, CountsValid)' <=> TreeValid(root, CountsValid)
         /\ \A root : TreeValid(root, ContentValid)' <=> TreeValid(root, ContentValid)
         /\ \A type, n : NodeValid(type, n, CountsValid)' <=> NodeValid(type, n, CountsValid)
  <1>1. RootDeclaration' = RootDeclaration
    BY DEF RootDeclaration, FindTopLevelElement
  <1>2. \A root : Types(root)' = Types(root)
    BY DEF Types, TypeIn
  <1>3. \A root : RootValid(root)' <=> RootValid(root)
    BY DEF RootValid
  <1>4. \A type, text : TextValid(type, text)' <=> TextValid(type, text)
    BY DEF TextValid, TypeAndBases
  <1>5. \A type, text : SimpleTypeAccepts(type, text)' <=> SimpleTypeAccepts(type, text)
    BY DEF SimpleTypeAccepts
  <1>6. \A t, n : AttributesHold(t, n)' <=> AttributesHold(t, n)
    BY <1>5 DEF AttributesHold
  <1>7. \A n : Children(n)' = Children(n)
    BY DEF Children
  <1>8. \A n, name : Count(n, name)' = Count(n, name)
    BY <1>7 DEF Count
  <1>9. \A t, n : CountsValid(t, n)' <=> CountsValid(t, n)
    BY <1>7, <1>8 DEF CountsValid
  <1>10. \A t, n : Distributions(t, n)' = Distributions(t, n)
    BY <1>7 DEF Distributions
  <1>11. \A t, n : ContentValid(t, n)' <=> ContentValid(t, n)
    BY <1>7, <1>10 DEF ContentValid
  <1>12. \A type, n : NodeValid(type, n, CountsValid)' <=> NodeValid(type, n, CountsValid)
    BY <1>4, <1>6, <1>9 DEF NodeValid
  <1>13. \A type, n : NodeValid(type, n, ContentValid)' <=> NodeValid(type, n, ContentValid)
    BY <1>4, <1>6, <1>11 DEF NodeValid
  <1>14. \A root : TreeValid(root, CountsValid)' <=> TreeValid(root, CountsValid)
    BY <1>2, <1>12 DEF TreeValid
  <1>15. \A root : TreeValid(root, ContentValid)' <=> TreeValid(root, ContentValid)
    BY <1>2, <1>13 DEF TreeValid
  <1>16. QED
    BY <1>1, <1>2, <1>3, <1>12, <1>14, <1>15

-----------------------------------------------------------------------------
(* At first there are no types and nothing to check.                       *)
LEMMA InitType == Init => TypeInv
  BY DEF Init, TypeInv, TypeOK, SchemaRead, ParentsPassed

(* What a step of CheckComplex adds: the children of the element, none of  *)
(* which was to be checked before.                                         *)
LEMMA ChildrenAdded ==
  ASSUME TypeInv, todo # {}, IsComplex(Current.type), phase = "elements",
         NEW c \in ChildrenToCheck(complexTypes[Current.type], Current.node)
  PROVE  /\ c \in DOMAIN doc /\ doc[c].parent = Current.node /\ Current.node < c /\ c # 1
         /\ doc[c].name \in ParticleNames(schema.types[Current.type])
         /\ Current.type \in DOMAIN schema.types
         /\ ParticleType(complexTypes[Current.type], doc[c].name) =
               ParticleType(schema.types[Current.type], doc[c].name)
         /\ ParticleType(schema.types[Current.type], doc[c].name) \in TypeNames \cup {NoType}
         /\ \A e \in todo : e.node # c
  <1>1. /\ schema \in Schemas /\ doc \in Documents /\ Current.type \in DOMAIN schema.types
        /\ complexTypes[Current.type] = ParseComplexType(schema.types[Current.type])
    BY DEF TypeInv, SchemaRead, IsComplex
  <1>2. c \in Children(Current.node) /\ doc[c].name \in ParticleNames(complexTypes[Current.type])
    BY DEF ChildrenToCheck
  <1>3. c \in DOMAIN doc /\ doc[c].parent = Current.node
    BY <1>2 DEF Children
  <1>4. doc[c].name \in ParticleNames(schema.types[Current.type])
    BY <1>1, <1>2, ParsedShape
  <1>5. Current.node < c /\ c # 1 /\ c \in Nat
    <2>1. Current.node \in Nat /\ Current.node # 0
      BY CurrentIsFirst, DocumentShape, <1>1
    <2>2. doc[1].parent = 0 /\ doc[c].parent < c /\ c \in Nat
      BY <1>1, <1>3, DocumentShape, TreesAreOrdered
    <2>3. QED
      BY <1>3, <2>1, <2>2
  <1>6. ASSUME NEW e \in todo, e.node = c PROVE FALSE
    <2>1. Current \in todo
      BY CurrentIsFirst
    <2>2. doc[c].parent < Current.node
      BY <1>5, <1>6, <2>1 DEF TypeInv, ParentsPassed
    <2>3. QED
      BY <1>3, <2>2, CurrentIsFirst
  <1>7. QED
    BY <1>1, <1>3, <1>4, <1>5, <1>6, SameParticleType

(* After a step of CheckComplex the elements still to check come after the *)
(* one that was checked.                                                   *)
LEMMA AfterComplex ==
  ASSUME TypeInv, CheckComplex, phase' = "elements"
  PROVE  /\ \A e \in todo' :
              /\ e.node \in DOMAIN doc /\ e.type \in TypeNames \cup {NoType} /\ Current.node < e.node
              /\ \/ e \in todo /\ e # Current
                 \/ /\ e.node # 1 /\ doc[e.node].parent = Current.node
                    /\ e.type = TypeIn(Current.type, e.node)
                    /\ \A f \in todo : f.node # e.node
         /\ \A e, f \in todo' : e.node = f.node => e = f
         /\ Current \notin todo'
  <1> DEFINE n == Current.node
             t == complexTypes[Current.type]
             Item(c) == [node |-> c, type |-> ParticleType(t, doc[c].name)]
             added == {Item(c) : c \in ChildrenToCheck(t, n)}
  <1>1. phase = "elements" /\ todo # {} /\ IsComplex(Current.type)
    BY DEF CheckComplex
  <1>2. todo' = (todo \ {Current}) \cup added
    BY DEF CheckComplex, End
  <1>3. ASSUME NEW e \in todo, e # Current
        PROVE  e.node \in DOMAIN doc /\ e.type \in TypeNames \cup {NoType} /\ n < e.node
    <2>1. e.node # n /\ n <= e.node /\ n \in Nat /\ e.node \in Nat
      BY <1>1, <1>3, CurrentIsFirst
    <2>2. QED
      BY <2>1 DEF TypeInv, TypeOK
  <1>4. ASSUME NEW e \in added
        PROVE  /\ e.node \in DOMAIN doc /\ e.type \in TypeNames \cup {NoType} /\ n < e.node
               /\ e.node # 1 /\ doc[e.node].parent = n /\ \A f \in todo : f.node # e.node
               /\ e = Item(e.node) /\ e.type = TypeIn(Current.type, e.node)
    <2>1. PICK c \in ChildrenToCheck(t, n) : e = Item(c)
      BY DEF added
    <2>2. e.node = c /\ e.type = ParticleType(t, doc[c].name)
      BY <2>1
    <2>3. QED
      BY <1>1, <2>1, <2>2, ChildrenAdded DEF TypeIn
  <1> HIDE DEF added, Item
  <1>5. \A e, f \in todo' : e.node = f.node => e = f
    <2>1. \A e, f \in todo : e.node = f.node => e = f
      BY DEF TypeInv, TypeOK
    <2>2. QED
      BY <1>2, <1>4, <2>1
  <1>6. Current \notin added
    BY <1>1, <1>4, CurrentIsFirst
  <1>7. QED
    BY <1>2, <1>3, <1>4, <1>5, <1>6

(* Every step keeps the types and the order.                               *)
LEMMA NextType == TypeInv /\ [Next]_vars => TypeInv'
  <1> SUFFICES ASSUME TypeInv, [Next]_vars PROVE TypeInv'
    OBVIOUS
  <1> USE DEF TypeInv
  <1>1. CASE ParseSchema
    <2>1. todo = {} /\ todo' = {} /\ UNCHANGED <<schema, doc>> /\ phase' \in {"root", "unresolvable"}
      BY <1>1 DEF ParseSchema, TypeOK
    <2>2. complexTypes' = [t \in DOMAIN schema.types |-> ParseComplexType(schema.types[t])]
      BY <1>1 DEF ParseSchema
    <2>3. phase' = "root" => \A i \in DOMAIN schema.elements : Resolvable(schema.elements[i].type)
      BY <1>1 DEF ParseSchema
    <2>4. TypeOK'
      BY <2>1, <2>2 DEF TypeOK
    <2>5. SchemaRead'
      BY <2>1, <2>2, <2>3 DEF SchemaRead, Resolvable
    <2>6. QED
      BY <2>1, <2>4, <2>5 DEF ParentsPassed
  <1>2. ASSUME UNCHANGED <<schema, complexTypes, doc>>, phase \in {"root", "elements"},
               phase' \in {"elements", "accepted", "rejected"}
        PROVE  SchemaRead'
    BY <1>2 DEF SchemaRead, Resolvable
  <1>3. ASSUME UNCHANGED <<schema, complexTypes, doc>>, phase \in {"root", "elements"},
               phase' \in {"accepted", "rejected"}, todo' = {}
        PROVE  TypeInv'
    BY <1>2, <1>3 DEF TypeOK, ParentsPassed
  <1>4. CASE CheckRoot
    <2>1. CASE phase' = "elements"
      <3>1. PICK d \in RootDeclaration : todo' = {[node |-> 1, type |-> d.type]} /\ d.type # NoType
        BY <1>4, <2>1 DEF CheckRoot, End
      <3>2. d.type \in TypeNames \cup {NoType}
        <4>1. PICK i \in DOMAIN schema.elements : d = schema.elements[i]
          BY OneDeclaration DEF SchemaRead
        <4>2. Resolvable(d.type)
          BY <1>4, <4>1 DEF CheckRoot, SchemaRead
        <4>3. DOMAIN schema.types \cup DOMAIN schema.simpleTypes \subseteq TypeNames
          BY SchemasAreTexts DEF SchemaText, SchemaRead
        <4>4. QED
          BY <4>2, <4>3, NamesAndTypes DEF Resolvable
      <3>3. 1 \in DOMAIN doc
        BY DocumentShape DEF SchemaRead
      <3>4. TypeOK' /\ ParentsPassed'
        BY <1>4, <2>1, <3>1, <3>2, <3>3 DEF CheckRoot, TypeOK, ParentsPassed
      <3>5. QED
        BY <1>2, <1>4, <2>1, <3>4 DEF CheckRoot
    <2>2. CASE phase' # "elements"
      <3>1. phase' \in {"accepted", "rejected"} /\ todo' = {}
        BY <1>4, <2>2 DEF CheckRoot, End
      <3>2. QED
        BY <1>3, <1>4, <3>1 DEF CheckRoot
    <2>3. QED
      BY <2>1, <2>2
  <1>5. CASE CheckComplex
    <2>1. CASE phase' = "elements"
      <3>1. TypeOK'
        BY <1>5, <2>1, AfterComplex DEF CheckComplex, TypeOK
      <3>2. ParentsPassed'
        <4> SUFFICES ASSUME NEW e \in todo', e.node # 1, NEW f \in todo'
                     PROVE  doc[e.node].parent < f.node
          BY <1>5 DEF ParentsPassed, CheckComplex
        <4>1. Current.node < f.node /\ Current.node \in Nat /\ f.node \in DOMAIN doc /\ e.node \in DOMAIN doc
          BY <1>5, <2>1, AfterComplex, CurrentIsFirst DEF CheckComplex
        <4>2. f.node \in Nat /\ doc[e.node].parent \in Nat
          BY <4>1, DocumentShape DEF SchemaRead
        <4>3. CASE e \in todo /\ e # Current
          <5>1. doc[e.node].parent < Current.node
            BY <4>3, CurrentIsFirst DEF ParentsPassed
          <5>2. QED
            BY <4>1, <4>2, <5>1
        <4>4. CASE doc[e.node].parent = Current.node
          BY <4>1, <4>4
        <4>5. QED
          BY <1>5, <2>1, <4>3, <4>4, AfterComplex
      <3>3. QED
        BY <1>2, <1>5, <2>1, <3>1, <3>2 DEF CheckComplex
    <2>2. CASE phase' # "elements"
      <3>1. phase' = "rejected" /\ todo' = {}
        BY <1>5, <2>2 DEF CheckComplex, End
      <3>2. QED
        BY <1>3, <1>5, <3>1 DEF CheckComplex
    <2>3. QED
      BY <2>1, <2>2
  <1>6. CASE CheckSimple
    <2>1. CASE phase' = "elements"
      <3>1. todo' = todo \ {Current} /\ UNCHANGED <<schema, complexTypes, doc>> /\ phase = "elements"
        BY <1>6, <2>1 DEF CheckSimple, End
      <3>2. TypeOK' /\ ParentsPassed'
        BY <2>1, <3>1 DEF TypeOK, ParentsPassed
      <3>3. QED
        BY <1>2, <2>1, <3>1, <3>2
    <2>2. CASE phase' # "elements"
      <3>1. phase' = "rejected" /\ todo' = {}
        BY <1>6, <2>2 DEF CheckSimple, End
      <3>2. QED
        BY <1>3, <1>6, <3>1 DEF CheckSimple
    <2>3. QED
      BY <2>1, <2>2
  <1>7. CASE Accept
    BY <1>3, <1>7 DEF Accept, End
  <1>8. CASE UNCHANGED vars
    BY <1>8 DEF vars, TypeOK, SchemaRead, ParentsPassed, Resolvable
  <1>9. QED
    BY <1>1, <1>4, <1>5, <1>6, <1>7, <1>8 DEF Next

(* The state of the validator is well-typed in every behaviour: the        *)
(* elements still to check are elements of the document, each once.        *)
THEOREM TypeCorrect == Spec => []TypeOK
  <1>1. TypeInv => TypeOK
    BY DEF TypeInv
  <1>2. QED
    BY <1>1, InitType, NextType, PTL DEF Spec

-----------------------------------------------------------------------------
(* The elements still to check have the types of the reference.            *)
LEMMA NextRoot == TypeInv /\ RootChosen /\ [Next]_vars => RootChosen'
  <1> SUFFICES ASSUME TypeInv, RootChosen, [Next]_vars, phase' = "elements"
               PROVE  /\ RootDeclaration' # {}
                      /\ \A root \in RootDeclaration' :
                           RootValid(root)' /\ \A e \in todo' : e.type = Types(root)'[e.node]
    BY DEF RootChosen
  <1>1. UNCHANGED <<schema, doc>> /\ schema \in Schemas /\ doc \in Documents
    BY DEF Next, ParseSchema, CheckRoot, CheckComplex, CheckSimple, Accept, vars, TypeInv, SchemaRead
  <1>2. SUFFICES /\ RootDeclaration # {}
                 /\ \A root \in RootDeclaration :
                      RootValid(root) /\ \A e \in todo' : e.type = Types(root)[e.node]
    BY <1>1, SameReference
  <1>3. CASE CheckRoot
    <2>1. PICK d \in RootDeclaration :
            d.fixed \in {NoText, doc[1].text} /\ todo' = {[node |-> 1, type |-> d.type]}
      BY <1>3 DEF CheckRoot, End
    <2>2. \A root \in RootDeclaration : root = d
      BY <1>1, OneDeclaration
    <2>3. Types(d)[1] = d.type
      BY <1>1, TypesAreDefined
    <2>4. QED
      BY <2>1, <2>2, <2>3 DEF RootValid
  <1>4. CASE CheckComplex
    <2> SUFFICES ASSUME NEW root \in RootDeclaration, NEW e \in todo'
                 PROVE  e.type = Types(root)[e.node]
      BY <1>4 DEF RootChosen, CheckComplex
    <2>1. phase = "elements" /\ todo # {}
      BY <1>4 DEF CheckComplex
    <2>2. CASE e \in todo
      BY <2>1, <2>2 DEF RootChosen
    <2>3. CASE e.node # 1 /\ doc[e.node].parent = Current.node /\ e.type = TypeIn(Current.type, e.node)
      <3>1. Current.type = Types(root)[Current.node]
        BY <2>1, CurrentIsFirst DEF RootChosen
      <3>2. e.node \in DOMAIN doc
        BY <1>4, AfterComplex
      <3>3. Types(root)[e.node] = TypeIn(Types(root)[doc[e.node].parent], e.node)
        BY <1>1, <2>3, <3>2, TypesAreDefined
      <3>4. QED
        BY <2>3, <3>1, <3>3
    <2>4. QED
      BY <1>4, <2>2, <2>3, AfterComplex
  <1>5. CASE CheckSimple
    BY <1>5 DEF CheckSimple, End, RootChosen
  <1>6. CASE UNCHANGED vars
    BY <1>6 DEF vars, RootChosen
  <1>7. QED
    BY <1>3, <1>4, <1>5, <1>6 DEF Next, ParseSchema, Accept, End

(* Elements without type.                                                  *)
LEMMA NoTypeBelow ==
  ASSUME schema \in Schemas, doc \in Documents, NEW n
  PROVE  TypeIn(NoType, n) = NoType
  BY SchemasAreTexts, NamesAndTypes DEF TypeIn, SchemaText

(* They are valid whatever they hold.                                      *)
LEMMA NoTypeValid ==
  ASSUME schema \in Schemas, BoundsAreKept, NEW n
  PROVE  NodeValid(NoType, n, CountsValid)
  <1>1. NoType \notin DOMAIN schema.types /\ NoType \notin DOMAIN schema.simpleTypes /\ NoType \notin Builtins
    BY SchemasAreTexts, NamesAndTypes DEF SchemaText
  <1>2. \A t \in TypeAndBases(NoType) : t = NoType
    BY <1>1, Bases
  <1>3. TextValid(NoType, doc[n].text)
    BY <1>1, <1>2 DEF TextValid
  <1>4. QED
    BY <1>1, <1>3 DEF NodeValid

(* Below a root without type there are no others.                          *)
LEMMA NoTypeFromRoot ==
  ASSUME schema \in Schemas, doc \in Documents, NEW root, root.type = NoType
  PROVE  \A n \in DOMAIN doc : Types(root)[n] = NoType
  <1> DEFINE T == {n \in DOMAIN doc : Types(root)[n] # NoType}
  <1> SUFFICES ASSUME T # {} PROVE FALSE
    OBVIOUS
  <1>1. T \subseteq Nat
    BY DocumentShape
  <1>2. PICK m \in T : \A n \in T : m <= n
    BY <1>1, Least
  <1>3. m # 1 /\ Types(root)[m] = TypeIn(Types(root)[doc[m].parent], m)
    BY TypesAreDefined
  <1>4. doc[m].parent \in DOMAIN doc /\ doc[m].parent < m /\ m \in Nat /\ doc[m].parent \in Nat
    BY <1>3, DocumentShape
  <1>5. Types(root)[doc[m].parent] = NoType
    BY <1>2, <1>4
  <1>6. QED
    BY <1>3, <1>5, NoTypeBelow

(* When the first element is checked and its children are added, nothing   *)
(* is skipped: the first element with a type that were passed without a    *)
(* check would have its parent passed without one.                         *)
LEMMA NoneSkipped ==
  ASSUME TypeInv, NothingSkipped, phase = "elements", todo # {}, UNCHANGED <<schema, doc>>,
         NEW root \in RootDeclaration, NEW n \in DOMAIN doc, Types(root)[n] # NoType,
         \A e \in todo : e # Current => e \in todo',
         \A e \in todo' : e.node \in DOMAIN doc /\ Current.node < e.node,
         \A m \in DOMAIN doc : m # 1 /\ doc[m].parent = Current.node /\ Types(root)[m] # NoType =>
           \E e \in todo' : e.node = m,
         NodeValid(Types(root)[Current.node], Current.node, CountsValid)
  PROVE  \/ Passed(n)' /\ NodeValid(Types(root)[n], n, CountsValid)
         \/ \E e \in todo' : e.node = n
         \/ n # 1 /\ ~Passed(doc[n].parent)'
  <1> DEFINE c == Current.node
             T == {m \in DOMAIN doc : Types(root)[m] # NoType /\ c < m /\ Passed(m)'}
  <1>1. /\ c \in Nat /\ Current \in todo /\ \A e \in todo : c <= e.node /\ e.node \in Nat
        /\ \A e \in todo : e.node = c => e = Current
    BY CurrentIsFirst
  <1>2. /\ schema \in Schemas /\ doc \in Documents /\ DOMAIN doc \subseteq Nat
        /\ \A m \in DOMAIN doc : m # 1 => doc[m].parent \in DOMAIN doc /\ doc[m].parent < m
    BY DocumentShape DEF TypeInv, SchemaRead
  <1>3. \A e \in todo' : e.node \in Nat /\ c < e.node
    BY <1>2
  <1>4. ASSUME NEW m \in DOMAIN doc, c < m, Types(root)[m] # NoType
        PROVE  \/ \E e \in todo' : e.node = m
               \/ m # 1 /\ c < doc[m].parent /\ Types(root)[doc[m].parent] # NoType
    <2>1. ~Passed(m) /\ m \in Nat
      BY <1>1, <1>2, <1>4 DEF Passed
    <2>2. CASE \E e \in todo : e.node = m
      BY <1>1, <1>4, <2>1, <2>2
    <2>3. CASE m # 1 /\ ~Passed(doc[m].parent)
      <3>1. Types(root)[doc[m].parent] # NoType
        BY <1>2, <1>4, <2>3, TypesAreDefined, NoTypeBelow
      <3>2. doc[m].parent \in Nat /\ c <= doc[m].parent
        BY <1>1, <1>2, <2>3 DEF Passed
      <3>3. CASE doc[m].parent = c
        BY <1>4, <2>3, <3>3
      <3>4. QED
        BY <1>1, <2>3, <3>1, <3>2, <3>3
    <2>4. QED
      BY <1>4, <2>1, <2>2, <2>3 DEF NothingSkipped
  <1>5. T = {}
    <2> SUFFICES ASSUME T # {} PROVE FALSE
      OBVIOUS
    <2>1. T \subseteq Nat
      BY <1>2
    <2>2. PICK m \in T : \A k \in T : m <= k
      BY <2>1, Least
    <2>3. m \in Nat /\ ~\E e \in todo' : e.node = m
      BY <1>2, <1>3 DEF Passed
    <2>4. m # 1 /\ c < doc[m].parent /\ Types(root)[doc[m].parent] # NoType
      BY <1>4, <2>3
    <2>5. doc[m].parent \in DOMAIN doc /\ doc[m].parent \in Nat /\ doc[m].parent < m
      BY <1>2, <2>4
    <2>6. Passed(doc[m].parent)'
      <3>1. \A e \in todo' : m < e.node
        BY DEF Passed
      <3>2. \A e \in todo' : doc[m].parent < e.node
        BY <1>3, <2>3, <2>5, <3>1
      <3>3. QED
        BY <3>2 DEF Passed
    <2>7. doc[m].parent \in T
      BY <2>4, <2>5, <2>6
    <2>8. QED
      BY <2>2, <2>3, <2>5, <2>7
  <1>6. n \in Nat
    BY <1>2
  <1>7. CASE n < c
    <2>1. Passed(n) /\ Passed(n)'
      BY <1>1, <1>3, <1>6, <1>7 DEF Passed
    <2>2. ~\E e \in todo : e.node = n
      BY <1>1, <1>6, <1>7
    <2>3. n # 1 => Passed(doc[n].parent)
      BY <1>1, <1>2, <1>6, <1>7 DEF Passed
    <2>4. QED
      BY <2>1, <2>2, <2>3 DEF NothingSkipped
  <1>8. CASE n = c
    BY <1>3, <1>8 DEF Passed
  <1>9. CASE c < n
    <2>1. CASE n # 1 /\ c < doc[n].parent /\ Types(root)[doc[n].parent] # NoType
      <3>1. doc[n].parent \in DOMAIN doc
        BY <1>2, <2>1
      <3>2. ~Passed(doc[n].parent)'
        BY <1>2, <1>5, <2>1, <3>1
      <3>3. QED
        BY <2>1, <3>2
    <2>2. QED
      BY <1>4, <1>9, <2>1
  <1>10. QED
    BY <1>1, <1>6, <1>7, <1>8, <1>9

-----------------------------------------------------------------------------
(* What is accepted: nothing was skipped on the way.                       *)
AcceptInv == TypeInv /\ RootChosen /\ NothingSkipped /\ AcceptedMeansCounted

(* Each step keeps what is checked apart from what is not, and accepts at  *)
(* the end only.                                                           *)
LEMMA NextAccept ==
  ASSUME BoundsAreKept, AcceptInv, [Next]_vars
  PROVE  AcceptInv'
  <1> USE DEF AcceptInv
  <1>1. TypeInv' /\ RootChosen'
    BY NextType, NextRoot
  <1>2. UNCHANGED <<schema, doc>> /\ schema \in Schemas /\ doc \in Documents
    BY DEF Next, ParseSchema, CheckRoot, CheckComplex, CheckSimple, Accept, vars, TypeInv, SchemaRead
  <1>3. NothingSkipped'
    <2> SUFFICES ASSUME phase' = "elements", NEW root \in RootDeclaration, NEW n \in DOMAIN doc,
                        Types(root)[n] # NoType
                 PROVE  \/ Passed(n)' /\ NodeValid(Types(root)[n], n, CountsValid)
                        \/ \E e \in todo' : e.node = n
                        \/ n # 1 /\ ~Passed(doc[n].parent)'
      BY <1>2, SameReference DEF NothingSkipped
    <2>1. CASE CheckRoot
      <3>1. PICK d \in RootDeclaration : todo' = {[node |-> 1, type |-> d.type]}
        BY <2>1 DEF CheckRoot, End
      <3>2. \E e \in todo' : e.node = 1
        BY <3>1
      <3>3. n # 1 => doc[n].parent \in Nat /\ doc[n].parent \in 1..Len(doc) /\ Len(doc) \in Nat
        BY <1>2, DocumentShape
      <3>4. n # 1 => ~Passed(doc[n].parent)'
        BY <1>2, <3>2, <3>3 DEF Passed
      <3>5. QED
        BY <3>2, <3>4
    <2>2. CASE CheckComplex
      <3>1. phase = "elements" /\ todo # {} /\ IsComplex(Current.type)
        BY <2>2 DEF CheckComplex
      <3> DEFINE t == complexTypes[Current.type]
      <3>2. /\ AttributesHold(t, Current.node) /\ ContentHolds(t, Current.node)
            /\ todo' = (todo \ {Current}) \cup
                         {[node |-> c, type |-> ParticleType(t, doc[c].name)] :
                            c \in ChildrenToCheck(t, Current.node)}
        BY <2>2 DEF CheckComplex, End
      <3>3. Current.type \in DOMAIN schema.types /\ t = ParseComplexType(schema.types[Current.type])
        BY <3>1 DEF IsComplex, TypeInv, SchemaRead
      <3>4. Types(root)[Current.node] = Current.type /\ Current.node \in DOMAIN doc
        BY <3>1, CurrentIsFirst DEF RootChosen
      <3>5. NodeValid(Types(root)[Current.node], Current.node, CountsValid)
        <4>1. AttributesHold(schema.types[Current.type], Current.node)
          BY <1>2, <3>2, <3>3, SameAttributes
        <4>2. CountsValid(schema.types[Current.type], Current.node)
          BY <1>2, <3>2, <3>3, <3>4, ContentCounted
        <4>3. QED
          BY <3>3, <3>4, <4>1, <4>2 DEF NodeValid
      <3>6. ASSUME NEW m \in DOMAIN doc, m # 1, doc[m].parent = Current.node, Types(root)[m] # NoType
            PROVE  \E e \in todo' : e.node = m
        <4>1. Types(root)[m] = TypeIn(Current.type, m)
          BY <1>2, <3>4, <3>6, TypesAreDefined
        <4>2. doc[m].name \in ParticleNames(schema.types[Current.type])
          BY <3>6, <4>1 DEF TypeIn
        <4>3. t.compositor # "none" /\ doc[m].name \in ParticleNames(t)
          <5>1. schema.types[Current.type].particles # <<>>
            BY <4>2 DEF ParticleNames
          <5>2. QED
            BY <1>2, <3>3, <4>2, <5>1, TypeShape, ParsedShape
        <4>4. m \in ChildrenToCheck(t, Current.node)
          BY <3>6, <4>3 DEF ChildrenToCheck, Children
        <4>5. [node |-> m, type |-> ParticleType(t, doc[m].name)] \in todo'
          BY <3>2, <4>4
        <4>6. QED
          BY <4>5
      <3>7. \A e \in todo' : e.node \in DOMAIN doc /\ Current.node < e.node
        BY <2>2, AfterComplex
      <3>8. \A e \in todo : e # Current => e \in todo'
        BY <3>2
      <3>9. QED
        BY <1>2, <3>1, <3>5, <3>6, <3>7, <3>8, NoneSkipped
    <2>3. CASE CheckSimple
      <3>1. /\ phase = "elements" /\ todo # {} /\ ~IsComplex(Current.type)
            /\ SimpleTypeAccepts(Current.type, doc[Current.node].text) /\ todo' = todo \ {Current}
        BY <2>3 DEF CheckSimple, End
      <3>2. Current.type \notin DOMAIN schema.types
        BY <3>1 DEF IsComplex, TypeInv, SchemaRead
      <3>3. Types(root)[Current.node] = Current.type /\ Current.node \in DOMAIN doc
        BY <3>1, CurrentIsFirst DEF RootChosen
      <3>4. NodeValid(Types(root)[Current.node], Current.node, CountsValid)
        <4>1. doc[Current.node].text \in Texts
          BY <1>2, <3>3, DocumentShape DEF ElementNode
        <4>2. TextValid(Current.type, doc[Current.node].text)
          BY <1>2, <3>1, <4>1, TextAgrees
        <4>3. QED
          BY <3>2, <3>3, <4>2 DEF NodeValid
      <3>5. \A m \in DOMAIN doc : m # 1 /\ doc[m].parent = Current.node => Types(root)[m] = NoType
        BY <1>2, <3>2, <3>3, TypesAreDefined DEF TypeIn
      <3>6. \A e \in todo' : e.node \in DOMAIN doc /\ Current.node < e.node
        <4> SUFFICES ASSUME NEW e \in todo, e # Current
                     PROVE  e.node \in DOMAIN doc /\ Current.node < e.node
          BY <3>1
        <4>1. Current.node <= e.node /\ Current.node # e.node /\ Current.node \in Nat /\ e.node \in Nat
          BY <3>1, CurrentIsFirst
        <4>2. QED
          BY <4>1 DEF TypeInv, TypeOK
      <3>7. QED
        BY <1>2, <3>1, <3>4, <3>5, <3>6, NoneSkipped
    <2>4. CASE UNCHANGED vars
      BY <2>4 DEF vars, NothingSkipped, Passed
    <2>5. QED
      BY <2>1, <2>2, <2>3, <2>4 DEF Next, ParseSchema, Accept, End
  <1>4. AcceptedMeansCounted'
    <2> SUFFICES ASSUME phase' = "accepted"
                 PROVE  \E root \in RootDeclaration : RootValid(root) /\ TreeValid(root, CountsValid)
      BY <1>2, SameReference DEF AcceptedMeansCounted
    <2>1. CASE CheckRoot
      <3>1. PICK d \in RootDeclaration : d.fixed \in {NoText, doc[1].text} /\ d.type = NoType
        BY <2>1 DEF CheckRoot, End
      <3>2. \A n \in DOMAIN doc : Types(d)[n] = NoType
        BY <1>2, <3>1, NoTypeFromRoot
      <3>3. TreeValid(d, CountsValid)
        BY <1>2, <3>2, NoTypeValid DEF TreeValid
      <3>4. QED
        BY <3>1, <3>3 DEF RootValid
    <2>2. CASE Accept
      <3>1. phase = "elements" /\ todo = {}
        BY <2>2 DEF Accept
      <3>2. PICK root \in RootDeclaration : RootValid(root)
        BY <3>1 DEF RootChosen
      <3>3. \A n : Passed(n)
        BY <3>1 DEF Passed
      <3>4. \A n \in DOMAIN doc : Types(root)[n] # NoType => NodeValid(Types(root)[n], n, CountsValid)
        BY <3>1, <3>3 DEF NothingSkipped
      <3>5. TreeValid(root, CountsValid)
        BY <1>2, <3>4, NoTypeValid DEF TreeValid
      <3>6. QED
        BY <3>2, <3>5
    <2>3. CASE UNCHANGED vars
      BY <2>3 DEF vars, AcceptedMeansCounted
    <2>4. QED
      BY <2>1, <2>2, <2>3 DEF Next, ParseSchema, CheckComplex, CheckSimple, End
  <1>5. QED
    BY <1>1, <1>3, <1>4

(* What is accepted keeps to the bounds of the schema in every element     *)
(* that the declarations reach: validateElement leaves none out.           *)
THEOREM AcceptedCorrect == ASSUME BoundsAreKept PROVE Spec => []AcceptedMeansCounted
  <1>1. Init => AcceptInv
    BY InitType DEF Init, AcceptInv, RootChosen, NothingSkipped, AcceptedMeansCounted
  <1>2. AcceptInv /\ [Next]_vars => AcceptInv'
    BY NextAccept
  <1>3. AcceptInv => AcceptedMeansCounted
    BY DEF AcceptInv
  <1>4. QED
    BY <1>1, <1>2, <1>3, PTL DEF Spec

-----------------------------------------------------------------------------
(* What is rejected: the element that is checked has the type of the       *)
(* reference.                                                              *)
RejectInv == TypeInv /\ RootChosen /\ RejectedMeansInvalid

(* A step that rejects meets an element that is not valid.                 *)
LEMMA NextReject ==
  ASSUME NamesDecide, RejectInv, [Next]_vars
  PROVE  RejectInv'
  <1> USE DEF RejectInv
  <1>1. TypeInv' /\ RootChosen'
    BY NextType, NextRoot
  <1>2. UNCHANGED <<schema, doc>> /\ schema \in Schemas /\ doc \in Documents
    BY DEF Next, ParseSchema, CheckRoot, CheckComplex, CheckSimple, Accept, vars, TypeInv, SchemaRead
  <1>3. SUFFICES ASSUME phase' = "rejected", NEW root \in RootDeclaration,
                        RootValid(root), TreeValid(root, ContentValid)
                 PROVE  FALSE
    BY <1>1, <1>2, SameReference DEF RejectedMeansInvalid
  <1>4. CASE CheckRoot
    <2>1. PICK d \in RootDeclaration : d.fixed \notin {NoText, doc[1].text}
      BY <1>3, <1>4 DEF CheckRoot, End
    <2>2. d = root
      BY <1>2, OneDeclaration
    <2>3. QED
      BY <1>3, <2>1, <2>2 DEF RootValid
  <1>5. ASSUME phase = "elements", todo # {}
        PROVE  /\ Current.node \in DOMAIN doc /\ Types(root)[Current.node] = Current.type
               /\ NodeValid(Current.type, Current.node, ContentValid)
    <2>1. Current.node \in DOMAIN doc /\ Types(root)[Current.node] = Current.type
      BY <1>5, CurrentIsFirst DEF RootChosen
    <2>2. QED
      BY <1>3, <2>1 DEF TreeValid
  <1>6. CASE CheckComplex
    <2> DEFINE t == complexTypes[Current.type]
    <2>1. /\ phase = "elements" /\ todo # {} /\ IsComplex(Current.type)
          /\ ~(AttributesHold(t, Current.node) /\ ContentHolds(t, Current.node))
      BY <1>3, <1>6 DEF CheckComplex, End
    <2>2. Current.type \in DOMAIN schema.types /\ t = ParseComplexType(schema.types[Current.type])
      BY <2>1 DEF IsComplex, TypeInv, SchemaRead
    <2>3. /\ AttributesHold(schema.types[Current.type], Current.node)
          /\ ContentValid(schema.types[Current.type], Current.node)
      BY <1>5, <2>1, <2>2 DEF NodeValid
    <2>4. QED
      BY <1>2, <1>5, <2>1, <2>2, <2>3, SameAttributes, ContentDecided
  <1>7. CASE CheckSimple
    <2>1. /\ phase = "elements" /\ todo # {} /\ ~IsComplex(Current.type)
          /\ ~SimpleTypeAccepts(Current.type, doc[Current.node].text)
      BY <1>3, <1>7 DEF CheckSimple, End
    <2>2. Current.type \notin DOMAIN schema.types
      BY <2>1 DEF IsComplex, TypeInv, SchemaRead
    <2>3. TextValid(Current.type, doc[Current.node].text)
      BY <1>5, <2>1, <2>2 DEF NodeValid
    <2>4. doc[Current.node].text \in Texts
      BY <1>2, <1>5, <2>1, DocumentShape DEF ElementNode
    <2>5. QED
      BY <1>2, <2>1, <2>3, <2>4, TextAgrees
  <1>8. CASE UNCHANGED vars
    BY <1>3, <1>8 DEF vars, RejectedMeansInvalid
  <1>9. QED
    BY <1>3, <1>4, <1>6, <1>7, <1>8 DEF Next, ParseSchema, Accept, End

(* A document that conforms to the schema is not rejected, where the names *)
(* decide: the counts of names that validateElement compares with the      *)
(* bounds are the shares of the particles.                                 *)
THEOREM RejectedCorrect == ASSUME NamesDecide PROVE Spec => []RejectedMeansInvalid
  <1>1. Init => RejectInv
    BY InitType DEF Init, RejectInv, RootChosen, RejectedMeansInvalid
  <1>2. RejectInv /\ [Next]_vars => RejectInv'
    BY NextReject
  <1>3. RejectInv => RejectedMeansInvalid
    BY DEF RejectInv
  <1>4. QED
    BY <1>1, <1>2, <1>3, PTL DEF Spec
=============================================================================
