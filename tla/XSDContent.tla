----------------------------- MODULE XSDContent -----------------------------
(***************************************************************************)
(* XML::validate(xsdSource): the declarations of a schema are read into    *)
(* XSD_Impl, and the elements of the document are checked against them     *)
(* from the root down.  The recursion of validateElement is a list of the  *)
(* elements still to check, each with the type its parent's particle       *)
(* gives it.                                                               *)
(*                                                                         *)
(* Every call parses its schema anew, so one call is one behaviour.        *)
(***************************************************************************)
EXTENDS Integers, SequencesExt

CONSTANTS
  Names,          \* element names
  LocalName,      \* a function: the name without its prefix
  AttributeNames, \* attribute names
  Texts,          \* trimmed texts of elements and values of attributes
  NoText,         \* no attribute, or no fixed value
  Length,         \* a function: the length of each text
  Number,         \* a function: the number it reads as, or NaN
  NaN,
  Builtins,       \* the names of builtin types
  Accepts,        \* a function: the texts of each builtin type
  TypeNames,      \* all names of types
  NoType,         \* an element declared without type
  Unbounded,      \* maxOccurs="unbounded"
  Omitted,        \* minOccurs or maxOccurs that is not there or not a number
  Schemas,        \* schema texts, see SchemaText
  Documents       \* element trees in document order, see ElementNode

Compositors == {"sequence", "all", "choice", "none"}

ElementNode == [name : Names, parent : Nat, text : Texts,
                attributes : [AttributeNames -> Texts \cup {NoText}]]

ASSUME TreesAreOrdered ==
  /\ Documents \subseteq Seq(ElementNode)
  /\ \A d \in Documents :
       /\ Len(d) > 0 /\ \A n \in DOMAIN d : d[n].parent < n /\ (d[n].parent = 0 <=> n = 1)
       /\ \A n \in DOMAIN d : \A m \in (d[n].parent + 1)..(n - 1) : d[m].parent >= d[n].parent

ASSUME NamesAndTypes ==
  /\ LocalName \in [Names -> Names] /\ Accepts \in [Builtins -> SUBSET Texts]
  /\ Length \in [Texts -> Nat] /\ Number \in [Texts -> Int \cup {NaN}]
  /\ Builtins \subseteq TypeNames /\ NoType \notin TypeNames
  /\ NoText \notin Texts /\ NaN \notin Int /\ {Unbounded, Omitted} \cap Nat = {}

LengthFacets == {"minLength", "maxLength", "length"}
NumericFacets == {"minInclusive", "maxInclusive", "minExclusive", "maxExclusive"}
SimpleType == [base : TypeNames,
               restrictions : Seq([facet : {"enumeration"}, value : Texts]
                                  \cup [facet : {"pattern"}, value : SUBSET Texts]
                                  \cup [facet : LengthFacets, value : Nat]
                                  \cup [facet : NumericFacets, value : Int])]

(* A schema text: its types, by name, and its top-level elements.  Only a  *)
(* compositor has particles.                                               *)
SchemaText(s) ==
  /\ DOMAIN s.types \cup DOMAIN s.simpleTypes \subseteq TypeNames \ Builtins
  /\ \A t \in DOMAIN s.simpleTypes : s.simpleTypes[t] \in SimpleType
  /\ \A t \in DOMAIN s.types :
       /\ s.types[t].compositor \in Compositors
       /\ s.types[t].compositor = "none" => s.types[t].particles = <<>>
       /\ s.types[t].particles \in
            Seq([name : Names, min : Nat \cup {Omitted}, max : Nat \cup {Omitted, Unbounded},
                 type : TypeNames \cup {NoType}])
       /\ s.types[t].attributes \in
            Seq([name : AttributeNames, use : {"required", "optional", "prohibited"},
                 fixed : Texts \cup {NoText}, type : TypeNames \cup {NoType}])
       /\ s.types[t].anyAttribute \in BOOLEAN
  /\ s.elements \in Seq([name : Names, type : TypeNames \cup {NoType}, fixed : Texts \cup {NoText}])

ASSUME SchemasAreTexts == \A s \in Schemas : SchemaText(s)

VARIABLES
  phase,        \* "schema", "root", "elements", or how the call ended
  schema,       \* the schema as it is written
  complexTypes, \* the types as XSD_Impl keeps them
  doc,          \* the document
  todo          \* elements still to check, records [node, type]

vars == <<phase, schema, complexTypes, doc, todo>>

-----------------------------------------------------------------------------
(* Reading the schema.                                                     *)

ParseUint(value) == IF value \in Nat THEN value ELSE 1

(* 0 stands for unbounded.                                                 *)
MaxOccurs(max) == IF max = Unbounded THEN 0 ELSE ParseUint(max)
ParseParticle(p) == [name |-> p.name, minOccurs |-> ParseUint(p.min),
                     maxOccurs |-> MaxOccurs(p.max), type |-> p.type]
ParseComplexType(t) ==
  [compositor   |-> t.compositor,
   particles    |-> [i \in DOMAIN t.particles |-> ParseParticle(t.particles[i])],
   attributes   |-> t.attributes,
   anyAttribute |-> t.anyAttribute]

Resolvable(type) ==
  type \in (DOMAIN schema.types) \cup (DOMAIN schema.simpleTypes) \cup Builtins \cup {NoType}

ParseSchema ==
  /\ phase = "schema"
  /\ complexTypes' = [t \in DOMAIN schema.types |-> ParseComplexType(schema.types[t])]
  /\ phase' = IF \A i \in DOMAIN schema.elements : Resolvable(schema.elements[i].type)
              THEN "root" ELSE "unresolvable"
  /\ UNCHANGED <<schema, doc, todo>>

-----------------------------------------------------------------------------
(* Checking the document.                                                  *)

Children(n) == {c \in DOMAIN doc : doc[c].parent = n}
Count(n, name) == Cardinality({c \in Children(n) : doc[c].name = name})
ParticleNames(t) == {t.particles[i].name : i \in DOMAIN t.particles}

(* validateBuiltinType, whose tests on characters are abstracted.          *)
BuiltinAccepts(type, text) == text \in Accepts[type]

MeetsFacet(r, text) ==
  CASE r.facet = "enumeration" -> TRUE  \* all of them together, below
    [] r.facet = "pattern"     -> text \in r.value
    [] r.facet = "minLength"   -> Length[text] >= r.value
    [] r.facet = "maxLength"   -> Length[text] <= r.value
    [] r.facet = "length"      -> Length[text] = r.value
    [] r.facet \in NumericFacets ->
         /\ Number[text] # NaN
         /\ CASE r.facet = "minInclusive" -> Number[text] >= r.value
              [] r.facet = "maxInclusive" -> Number[text] <= r.value
              [] r.facet = "minExclusive" -> Number[text] > r.value
              [] r.facet = "maxExclusive" -> Number[text] < r.value

MeetsRestrictions(t, text) ==
  LET restrictions == ToSet(t.restrictions)
      allowed == {r.value : r \in {q \in restrictions : q.facet = "enumeration"}}
  IN /\ t.base \in Builtins => BuiltinAccepts(t.base, text)
     /\ \A r \in restrictions : MeetsFacet(r, text)
     /\ allowed # {} => text \in allowed

(* A type that is neither builtin nor a simple type accepts every text.    *)
SimpleTypeAccepts(type, text) ==
  /\ type \in Builtins => BuiltinAccepts(type, text)
  /\ type \in DOMAIN schema.simpleTypes => MeetsRestrictions(schema.simpleTypes[type], text)

AttributesHold(t, n) ==
  LET value(a) == doc[n].attributes[a]
  IN /\ \A i \in DOMAIN t.attributes :
          LET d == t.attributes[i]
          IN /\ d.use = "required" => value(d.name) # NoText
             /\ d.use = "prohibited" => value(d.name) = NoText
             /\ value(d.name) # NoText =>
                  /\ d.fixed \in {NoText, value(d.name)}
                  /\ SimpleTypeAccepts(d.type, value(d.name))
     /\ t.anyAttribute \/ \A a \in AttributeNames :
          value(a) # NoText => \E i \in DOMAIN t.attributes : t.attributes[i].name = a

ExactlyMaxOccurs(p, n) == p.maxOccurs # 0 => Count(n, p.name) < p.maxOccurs
AtMostMaxOccurs(p, n) == p.maxOccurs # 0 => Count(n, p.name) <= p.maxOccurs
WithinOccurrenceBounds(p, n) == Count(n, p.name) >= p.minOccurs /\ AtMostMaxOccurs(p, n)

NoUnexpectedChildren(t, n) == \A c \in Children(n) : doc[c].name \in ParticleNames(t)

SequenceOrAll(t, n) == \A i \in DOMAIN t.particles : WithinOccurrenceBounds(t.particles[i], n)

Choice(t, n) ==
  LET Taken == {i \in DOMAIN t.particles : Count(n, t.particles[i].name) > 0}
  IN /\ Cardinality(Taken) <= 1
     /\ \A i \in Taken : AtMostMaxOccurs(t.particles[i], n)
     /\ t.particles # <<>> => Taken # {}

ContentHolds(t, n) ==
  \/ t.compositor = "none"
  \/ /\ IF t.compositor = "choice" THEN Choice(t, n) ELSE SequenceOrAll(t, n)
     /\ NoUnexpectedChildren(t, n)

(* findDeclaredParticle: the first particle of that name decides.          *)
ParticleType(t, name) ==
  LET i == CHOOSE i \in DOMAIN t.particles :
             t.particles[i].name = name /\ \A j \in 1..(i - 1) : t.particles[j].name # name
  IN t.particles[i].type

IsComplex(type) == type \in DOMAIN complexTypes

(* An element without a compositor in its type ends the recursion.         *)
FirstChildOnly(t, n) ==
  {c \in Children(n) : t.compositor # "none" /\ \A d \in Children(n) : c <= d}
ChildrenToCheck(t, n) ==
  IF t.compositor = "none" THEN {} ELSE {c \in Children(n) : doc[c].name \in ParticleNames(t)}

FindTopLevelElement(name) == {i \in DOMAIN schema.elements : schema.elements[i].name = name}

(* By its name, else without the prefix; the first declaration counts.     *)
RootDeclaration ==
  LET Named == FindTopLevelElement(doc[1].name)
      Local == FindTopLevelElement(LocalName[doc[1].name])
      Found == IF Named # {} THEN Named ELSE Local
  IN {schema.elements[i] : i \in {j \in Found : \A k \in Found : j <= k}}

EndKeepsTodo(how) == phase' = how /\ UNCHANGED todo
End(how) == phase' = how /\ todo' = {}

CheckRoot ==
  /\ phase = "root"
  /\ \/ RootDeclaration = {} /\ End("rejected")
     \/ \E d \in RootDeclaration :
          IF d.fixed \notin {NoText, doc[1].text} THEN End("rejected")
          ELSE IF d.type = NoType THEN End("accepted")
          ELSE phase' = "elements" /\ todo' = {[node |-> 1, type |-> d.type]}
  /\ UNCHANGED <<schema, complexTypes, doc>>

(* The element of `todo' that comes first in the document.                 *)
Current == CHOOSE e \in todo : \A f \in todo : e.node <= f.node

CheckComplex ==
  /\ phase = "elements" /\ todo # {} /\ IsComplex(Current.type)
  /\ LET n == Current.node
         t == complexTypes[Current.type]
     IN IF AttributesHold(t, n) /\ ContentHolds(t, n)
        THEN /\ todo' = (todo \ {Current}) \cup
                        {[node |-> c, type |-> ParticleType(t, doc[c].name)] :
                           c \in ChildrenToCheck(t, n)}
             /\ UNCHANGED phase
        ELSE End("rejected")
  /\ UNCHANGED <<schema, complexTypes, doc>>

(* validateNodeText; an element declared without type is not looked at.    *)
CheckSimple ==
  /\ phase = "elements" /\ todo # {} /\ ~IsComplex(Current.type)
  /\ IF SimpleTypeAccepts(Current.type, doc[Current.node].text)
     THEN todo' = todo \ {Current} /\ UNCHANGED phase
     ELSE End("rejected")
  /\ UNCHANGED <<schema, complexTypes, doc>>

Accept == phase = "elements" /\ todo = {} /\ End("accepted")
          /\ UNCHANGED <<schema, complexTypes, doc>>

Init ==
  /\ phase = "schema" /\ schema \in Schemas /\ doc \in Documents
  /\ complexTypes = <<>> /\ todo = {}

Next == ParseSchema \/ CheckRoot \/ CheckComplex \/ CheckSimple \/ Accept

Spec == Init /\ [][Next]_vars

-----------------------------------------------------------------------------
TypeOK ==
  /\ phase \in {"schema", "unresolvable", "root", "elements", "accepted", "rejected"}
  /\ DOMAIN complexTypes \subseteq DOMAIN schema.types
  /\ phase # "elements" => todo = {}
  /\ \A e \in todo : e.node \in DOMAIN doc /\ e.type \in TypeNames \cup {NoType}
  /\ \A e, f \in todo : e.node = f.node => e = f

(* The reference: content as W3C XML Schema defines it, on the schema as   *)
(* it is written.  The children are distributed over the particles; in a   *)
(* sequence in their order, in a choice all to one particle.               *)
Occurs(p, k) == k >= ParseUint(p.min) /\ (p.max = Unbounded \/ k <= ParseUint(p.max))

Distributions(t, n) ==
  {f \in [Children(n) -> DOMAIN t.particles] : \A c \in Children(n) : t.particles[f[c]].name = doc[c].name}
Share(f, i) == Cardinality({c \in DOMAIN f : f[c] = i})

InOrder(f) == \A c, d \in DOMAIN f : c < d => f[c] <= f[d]

ContentValid(t, n) ==
  CASE t.compositor = "none"     -> Children(n) = {}
    [] t.compositor = "choice"   ->
         \E f \in Distributions(t, n), i \in DOMAIN t.particles :
           (\A c \in DOMAIN f : f[c] = i) /\ Occurs(t.particles[i], Cardinality(DOMAIN f))
    [] OTHER ->
         \E f \in Distributions(t, n) :
           /\ \A i \in DOMAIN t.particles : Occurs(t.particles[i], Share(f, i))
           /\ t.compositor = "sequence" => InOrder(f)

(* A type by restriction has the texts of its base that no facet excludes. *)
Excluded(r) ==
  CASE r.facet = "minLength"    -> {x \in Texts : Length[x] < r.value}
    [] r.facet = "maxLength"    -> {x \in Texts : Length[x] > r.value}
    [] r.facet = "length"       -> {x \in Texts : Length[x] # r.value}
    [] r.facet = "minInclusive" -> {x \in Texts : Number[x] = NaN \/ Number[x] < r.value}
    [] r.facet = "maxInclusive" -> {x \in Texts : Number[x] = NaN \/ Number[x] > r.value}
    [] r.facet = "minExclusive" -> {x \in Texts : Number[x] = NaN \/ Number[x] <= r.value}
    [] r.facet = "maxExclusive" -> {x \in Texts : Number[x] = NaN \/ Number[x] >= r.value}
    [] OTHER                    -> Texts \ (IF r.facet = "pattern" THEN r.value ELSE {r.value})
ExcludedByType(t) ==
  LET Of(enumerations) == {Excluded(r) : r \in {q \in ToSet(t.restrictions) :
                                            (q.facet = "enumeration") = enumerations}}
  IN (UNION Of(FALSE)) \cup IF Of(TRUE) = {} THEN {} ELSE {x \in Texts : \A E \in Of(TRUE) : x \in E}

(* The type itself and, from one to the next, the types they restrict.     *)
TypeAndBases(type) ==
  LET simple == DOMAIN schema.simpleTypes
      all == {type} \cup {schema.simpleTypes[t].base : t \in simple}
      Closed(S) == type \in S /\ \A t \in S \cap simple : schema.simpleTypes[t].base \in S
  IN {t \in all : \A S \in SUBSET all : Closed(S) => t \in S}
TextValid(type, text) ==
  \A t \in TypeAndBases(type) :
    /\ t \in Builtins => text \in Accepts[t]
    /\ t \in DOMAIN schema.simpleTypes => text \notin ExcludedByType(schema.simpleTypes[t])

(* The type of every element below the declared root; elements that no     *)
(* particle declares have none.                                            *)
TypeIn(parentType, n) ==
  IF parentType \in DOMAIN schema.types /\ doc[n].name \in ParticleNames(schema.types[parentType])
  THEN ParticleType(schema.types[parentType], doc[n].name) ELSE NoType
Types(root) ==
  LET typeOf[n \in DOMAIN doc] ==
        IF n = 1 THEN root.type ELSE TypeIn(typeOf[doc[n].parent], n)
  IN typeOf

NodeValid(type, n, content(_, _)) ==
  IF type \in DOMAIN schema.types
  THEN AttributesHold(schema.types[type], n) /\ content(schema.types[type], n)
  ELSE TextValid(type, doc[n].text)

TreeValid(root, content(_, _)) ==
  LET typeOf == Types(root)
  IN \A n \in DOMAIN doc : NodeValid(typeOf[n], n, content)

RootValid(root) == root.fixed \in {NoText, doc[1].text}

(* A document that conforms to the schema in the sense of W3C is not       *)
(* rejected: every particle has its share of the children, no matter how   *)
(* deep, which the counts of names in validateElement do not deny.         *)
RejectedMeansInvalid ==
  phase = "rejected" =>
    \A root \in RootDeclaration : ~(RootValid(root) /\ TreeValid(root, ContentValid))

(* What is accepted has, in every element that the declarations reach,     *)
(* only declared children, each as often as the schema text says, in one   *)
(* branch only for a choice, and texts of the declared simple types with   *)
(* all of the types they restrict: no element of the tree is left out.     *)
CountsValid(t, n) ==
  \/ t.compositor = "none"
  \/ /\ \A c \in Children(n) : doc[c].name \in ParticleNames(t)
     /\ \A i \in DOMAIN t.particles :
          LET k == Count(n, t.particles[i].name)
          IN IF t.compositor = "choice"
             THEN k > 0 => k = Cardinality(Children(n)) /\ Occurs([t.particles[i] EXCEPT !.min = 0], k)
             ELSE Occurs(t.particles[i], k)

AcceptedMeansCounted ==
  phase = "accepted" =>
    \E root \in RootDeclaration : RootValid(root) /\ TreeValid(root, CountsValid)

(* Schemas that the check, which counts names, can reject by: no name in   *)
(* two particles of a type, and no branch of a choice that may be empty.   *)
NamesDecide ==
  \A s \in Schemas : \A t \in DOMAIN s.types :
    LET particles == s.types[t].particles
    IN /\ \A i, j \in DOMAIN particles : particles[i].name = particles[j].name => i = j
       /\ s.types[t].compositor = "choice" => \A i \in DOMAIN particles : particles[i].min # 0

(* Schemas that it keeps to the letter: no particle is excluded by         *)
(* maxOccurs="0", and every simple type restricts a builtin one.           *)
BoundsAreKept ==
  \A s \in Schemas :
    /\ \A t \in DOMAIN s.types : \A i \in DOMAIN s.types[t].particles :
         s.types[t].particles[i].max # 0
    /\ \A t \in DOMAIN s.simpleTypes : s.simpleTypes[t].base \notin DOMAIN s.simpleTypes

(* The children of an element with an xs:sequence come in its order.       *)
Ordered(t, n) ==
  t.compositor = "sequence" => \E f \in Distributions(t, n) : InOrder(f)
SequencesOrdered ==
  phase = "accepted" => \A root \in RootDeclaration : TreeValid(root, Ordered)
=============================================================================
