----------------------- MODULE DTDValidation_proofs -----------------------
(***************************************************************************)
(* Proofs about DTDValidation, for every set of names, values, documents   *)
(* and declarations: the walk of validate() keeps its state well-typed and *)
(* adds only declared defaults, and, where one call decides (Decidable),   *)
(* it accepts and rejects exactly what is valid as a whole.                *)
(***************************************************************************)
EXTENDS DTDValidation, TLAPS

(* Once a document is parsed it is one of Documents, and the walk is at an *)
(* element that is declared when it looks at attributes.                   *)
WalkInDocument ==
  /\ phase # "dtd" => doc \in Documents
  /\ phase = "walk" /\ attribute > 0 => doc[node].name \in DOMAIN elements

(* An element keeps the specification it was declared with.                *)
ElementDeclaration ==
  [unparsed : {c[2] : c \in Contents}, parsed : {ParseSpecification(c[2]) : c \in Contents},
   attributes : Seq({l[2] : l \in Attlists})]

ElementsParsed ==
  /\ elements \in [DOMAIN elements -> ElementDeclaration]
  /\ \A e \in DOMAIN elements :
       /\ elements[e].parsed = ParseSpecification(elements[e].unparsed)
       /\ elements[e].parsed.form # "error"

(* No attribute is declared twice for an element.                          *)
NamesDistinct ==
  \A e \in DOMAIN elements : \A i, j \in DOMAIN Attributes(e) :
    Attributes(e)[i].name = Attributes(e)[j].name => i = j

(* The attributes that the walk has met.                                   *)
Met(o) == phase = "references" \/ o[1] < node \/ (o[1] = node /\ o[2] < attribute)
MetOccurrences == {o \in Occurrences : Met(o)}

IsID(o) == HasType(o, {"id"})
Value(o) == attrs[o[1]][Declaration(o).name]

(* Before the only call nothing was added and nothing recorded.            *)
NothingMet ==
  /\ phase = "dtd" => calls = 0
  /\ calls = 0 => /\ phase \in {"dtd", "idle"} /\ result = "none" /\ attrs = given
                  /\ assignedIDValues = {} /\ assignedIDREFValues = {}

(* The elements behind the walk hold, and the one whose attributes it      *)
(* looks at.                                                               *)
ElementsHold ==
  \A n \in DOMAIN doc :
    phase = "references" \/ n < node \/ (n = node /\ attribute > 0) => ElementHolds(n)

(* What is ahead is as it was given; what is behind holds and is there.    *)
AttributesHold ==
  \A o \in Occurrences :
    IF Met(o) THEN /\ UseHolds(Declaration(o), Given(o))
                   /\ Given(o) # NoValue => TypeHolds(Declaration(o), Given(o))
                   /\ Value(o) # NoValue
              ELSE Value(o) = Given(o)

(* The two sets are those of the attributes behind, no ID twice.           *)
IdentifiersRecorded ==
  /\ assignedIDValues = {Given(o) : o \in {p \in MetOccurrences : IsID(p)}}
  /\ assignedIDREFValues = UNION {ReferencesOf(Declaration(o), Given(o)) : o \in MetOccurrences}
  /\ \A o, p \in MetOccurrences : o # p /\ IsID(o) /\ IsID(p) => Given(o) # Given(p)

WalkHolds ==
  phase \in {"walk", "references"} =>
    result = "none" /\ ElementsHold /\ AttributesHold /\ IdentifiersRecorded

TypeInv == TypeOK /\ WalkInDocument /\ ElementsParsed
WalkInv == TypeInv /\ NamesDistinct /\ NothingMet /\ WalkHolds
           /\ AcceptedMeansValid /\ RejectedMeansInvalid

-----------------------------------------------------------------------------
(* Before the DTD is read nothing is declared and there is no document.    *)
LEMMA InitType == Init => TypeInv
  <1> SUFFICES ASSUME Init PROVE TypeInv
    OBVIOUS
  <1>1. DOMAIN elements = {} /\ elements = [e \in {} |-> elements[e]]
    BY DEF Init
  <1>2. attrs \in Trees /\ given \in Trees
    BY DEF Init, Trees
  <1>3. 0 \in 0..MaxCalls /\ 0 \in 0..MaxEdits
    BY BoundsAreNumbers
  <1>4. TypeOK
    BY <1>1, <1>2, <1>3 DEF Init, TypeOK
  <1>5. WalkInDocument /\ ElementsParsed
    BY <1>1 DEF Init, WalkInDocument, ElementsParsed
  <1>6. QED
    BY <1>4, <1>5 DEF TypeInv

(* Adding a declared element, as std::map::emplace does.                   *)
LEMMA ParseElementType ==
  ASSUME TypeInv, NEW c \in Contents, ParseElement(c[1], c[2])
  PROVE  TypeInv'
  <1> DEFINE e == c[1]
             s == c[2]
             parsed == ParseSpecification(s)
             new == [unparsed |-> s, parsed |-> parsed, attributes |-> <<>>]
  <1>1. CASE parsed.form = "error"
    <2>1. elements' = <<>> /\ DOMAIN elements' = {} /\ elements' = [f \in {} |-> elements'[f]]
      BY <1>1 DEF ParseElement
    <2>2. QED
      BY <2>1 DEF ParseElement, TypeInv, TypeOK, WalkInDocument, ElementsParsed, Trees
  <1>2. CASE parsed.form # "error"
    <2>1. elements' = [f \in DOMAIN elements \cup {e} |->
                         IF f \in DOMAIN elements THEN elements[f] ELSE new]
      BY <1>2 DEF ParseElement
    <2>2. /\ DOMAIN elements' = DOMAIN elements \cup {e}
          /\ \A f \in DOMAIN elements' :
               elements'[f] = IF f \in DOMAIN elements THEN elements[f] ELSE new
          /\ elements' = [f \in DOMAIN elements' |-> elements'[f]]
      BY <2>1
    <2>3. new \in ElementDeclaration /\ <<e, new.unparsed>> \in Contents
      BY ContentsDeclareElements DEF ElementDeclaration
    <2>4. ElementsParsed'
      BY <1>2, <2>2, <2>3 DEF TypeInv, ElementsParsed
    <2>5. \A f \in DOMAIN elements' :
            /\ <<f, elements'[f].unparsed>> \in Contents /\ f \in ElementNames
            /\ elements'[f].attributes \in Seq({l[2] : l \in Attlists})
      <3>1. \A f \in DOMAIN elements :
              /\ <<f, elements[f].unparsed>> \in Contents /\ f \in ElementNames
              /\ elements[f].attributes \in Seq({l[2] : l \in Attlists})
        BY DEF TypeInv, TypeOK, Attributes
      <3>2. <<e, new.unparsed>> \in Contents /\ e \in ElementNames /\ new.attributes = <<>>
        BY <2>3, ContentsDeclareElements
      <3>3. \A f \in DOMAIN elements' :
              \/ f \in DOMAIN elements /\ elements'[f] = elements[f]
              \/ f = e /\ elements'[f] = new
        BY <2>2
      <3>4. <<>> \in Seq({l[2] : l \in Attlists})
        OBVIOUS
      <3>5. QED
        <4> HIDE DEF new
        <4>1. QED
          BY <3>1, <3>2, <3>3, <3>4
    <2>6. TypeOK'
      BY <2>5 DEF ParseElement, TypeInv, TypeOK, Attributes, Trees
    <2>7. WalkInDocument'
      BY DEF ParseElement, TypeInv, WalkInDocument
    <2>8. QED
      BY <2>4, <2>6, <2>7 DEF TypeInv
  <1>3. QED
    BY <1>1, <1>2

(* Adding a declared attribute.                                            *)
LEMMA ParseAttributeListType ==
  ASSUME TypeInv, NEW l \in Attlists, ParseAttributeList(l[1], l[2])
  PROVE  TypeInv'
  <1> DEFINE e == l[1]
             d == l[2]
  <1>1. CASE ~Declarable(e, d)
    <2>1. elements' = <<>> /\ DOMAIN elements' = {} /\ elements' = [f \in {} |-> elements'[f]]
      BY <1>1 DEF ParseAttributeList
    <2>2. QED
      BY <2>1 DEF ParseAttributeList, TypeInv, TypeOK, WalkInDocument, ElementsParsed, Trees
  <1>2. CASE Declarable(e, d)
    <2>1. elements' = [elements EXCEPT ![e].attributes = Append(@, d)] /\ e \in DOMAIN elements
      BY <1>2 DEF ParseAttributeList
    <2>2. d \in {k[2] : k \in Attlists}
      OBVIOUS
    <2>3. elements[e] \in ElementDeclaration /\ Append(Attributes(e), d) \in Seq({k[2] : k \in Attlists})
      <3>1. elements[e] \in ElementDeclaration
        BY <2>1 DEF TypeInv, ElementsParsed
      <3>2. Attributes(e) \in Seq({k[2] : k \in Attlists})
        BY <2>1 DEF TypeInv, TypeOK
      <3>3. QED
        BY <2>2, <3>1, <3>2
    <2>4. /\ DOMAIN elements' = DOMAIN elements
          /\ \A f \in DOMAIN elements : f # e => elements'[f] = elements[f]
          /\ elements'[e] = [elements[e] EXCEPT !.attributes = Append(Attributes(e), d)]
      BY <2>1 DEF TypeInv, ElementsParsed, Attributes
    <2>5. /\ elements'[e] \in ElementDeclaration
          /\ elements'[e].unparsed = elements[e].unparsed
          /\ elements'[e].parsed = elements[e].parsed
          /\ elements'[e].attributes = Append(Attributes(e), d)
      BY <2>3, <2>4 DEF ElementDeclaration
    <2>6. ElementsParsed'
      BY <2>1, <2>4, <2>5 DEF TypeInv, ElementsParsed
    <2>7. TypeOK'
      BY <2>1, <2>3, <2>4, <2>5 DEF ParseAttributeList, TypeInv, TypeOK, Attributes, Trees
    <2>8. WalkInDocument'
      BY DEF ParseAttributeList, TypeInv, WalkInDocument
    <2>9. QED
      BY <2>6, <2>7, <2>8 DEF TypeInv
  <1>3. QED
    BY <1>1, <1>2

(* What the document gives the attributes is a tree of values.             *)
LEMMA TreeType ==
  ASSUME NEW document \in Documents, NEW text \in [Slots(document) -> Values \cup {NoValue}]
  PROVE  Tree(document, text) \in [1..Len(document) -> [AttributeNames -> Values \cup {NoValue}]]
  <1>1. DOMAIN document = 1..Len(document)
    BY DocumentsHaveRoots
  <1>2. \A n \in DOMAIN document, a \in AttributeNames :
          (IF <<n, a>> \in DOMAIN text THEN text[<<n, a>>] ELSE NoValue) \in Values \cup {NoValue}
    OBVIOUS
  <1>3. QED
    BY <1>1, <1>2 DEF Tree

(* A declared attribute is one of those that the constants allow.          *)
LEMMA DeclarationType ==
  ASSUME TypeOK, NEW e \in DOMAIN elements, NEW i \in DOMAIN Attributes(e)
  PROVE  /\ Attributes(e)[i] \in AttributeDeclarations
         /\ i \in Nat \ {0}
  <1>1. Attributes(e) \in Seq({l[2] : l \in Attlists})
    BY DEF TypeOK
  <1>2. Attributes(e)[i] \in {l[2] : l \in Attlists} /\ i \in Nat \ {0}
    BY <1>1
  <1>3. QED
    BY <1>2, AttlistsDeclareAttributes

(* The references of a value are single words, which are values as well.   *)
LEMMA ReferencesAreValues ==
  ASSUME NEW d, NEW v \in Values \cup {NoValue}
  PROVE  ReferencesOf(d, v) \subseteq Values
  <1>1. CASE v = NoValue
    <2>1. ReferencesOf(d, v) = {}
      BY <1>1 DEF ReferencesOf
    <2>2. QED
      BY <2>1
  <1>2. CASE v # NoValue /\ d.type = "idref"
    <2>1. ReferencesOf(d, v) = {w \in {v} : IsIDOK(v)}
      BY <1>2 DEF ReferencesOf
    <2>2. QED
      BY <1>2, <2>1
  <1>3. CASE v # NoValue /\ d.type = "idrefs"
    <2>1. \A j \in DOMAIN v : v[j] \in NameTokens => <<v[j]>> \in Values
      BY <1>3, ValuesAreWords
    <2>2. DOMAIN v = 1..Len(v) /\ Len(v) \in Nat
      BY <1>3, ValuesAreWords
    <2>3. ReferencesOf(d, v) = {<<v[i]>> : i \in {j \in DOMAIN v :
                                  \A k \in 1..j : v[k] \in NameTokens}}
      BY <1>3 DEF ReferencesOf
    <2>4. \A i \in {j \in DOMAIN v : \A k \in 1..j : v[k] \in NameTokens} : v[i] \in NameTokens
      BY <2>2
    <2>5. QED
      BY <2>1, <2>3, <2>4
  <1>4. CASE v # NoValue /\ d.type \notin {"idref", "idrefs"}
    BY <1>4 DEF ReferencesOf
  <1>5. QED
    BY <1>1, <1>2, <1>3, <1>4

(* Every step leaves the state well-typed.                                 *)
LEMMA NextType == TypeInv /\ [Next]_vars => TypeInv'
  <1> SUFFICES ASSUME TypeInv, [Next]_vars PROVE TypeInv'
    OBVIOUS
  <1> USE DEF TypeInv
  <1>1. ASSUME NEW document \in Documents,
               NEW text \in [Slots(document) -> Values \cup {NoValue}],
               ParseContent(document, text)
        PROVE  TypeInv'
    <2>1. Tree(document, text) \in Trees'
      BY <1>1, TreeType DEF ParseContent, Trees
    <2>2. TypeOK'
      BY <1>1, <2>1 DEF ParseContent, TypeOK, Attributes
    <2>3. WalkInDocument' /\ ElementsParsed'
      BY <1>1 DEF ParseContent, WalkInDocument, ElementsParsed
    <2>4. QED
      BY <2>2, <2>3
  <1>2. CASE ParseAgain
    <2>1. elements' = <<>> /\ DOMAIN elements' = {} /\ elements' = [f \in {} |-> elements'[f]]
      BY <1>2 DEF ParseAgain
    <2>2. Len(doc') = 0 /\ attrs' = <<>> /\ given' = <<>>
      BY <1>2 DEF ParseAgain
    <2>3. attrs' \in Trees' /\ given' \in Trees'
      BY <2>2 DEF Trees
    <2>4. TypeOK'
      BY <1>2, <2>1, <2>3, BoundsAreNumbers DEF ParseAgain, TypeOK, Attributes
    <2>5. WalkInDocument' /\ ElementsParsed'
      BY <1>2, <2>1 DEF ParseAgain, WalkInDocument, ElementsParsed
    <2>6. QED
      BY <2>4, <2>5
  <1>3. ASSUME NEW n \in DOMAIN doc, NEW a \in AttributeNames, NEW v \in Values, ClientSets(n, a, v)
        PROVE  TypeInv'
    <2>1. attrs' \in Trees' /\ given' \in Trees'
      BY <1>3 DEF ClientSets, TypeOK, Trees
    <2>2. edits' \in 0..MaxEdits
      BY <1>3, BoundsAreNumbers DEF ClientSets, TypeOK
    <2>3. TypeOK'
      BY <1>3, <2>1, <2>2 DEF ClientSets, TypeOK, Attributes
    <2>4. WalkInDocument' /\ ElementsParsed'
      BY <1>3 DEF ClientSets, WalkInDocument, ElementsParsed
    <2>5. QED
      BY <2>3, <2>4
  <1>4. CASE Validate
    <2>1. doc \in Documents /\ 1 \in DOMAIN doc
      BY <1>4, DocumentsHaveRoots DEF Validate, WalkInDocument
    <2>2. calls' \in 0..MaxCalls
      BY <1>4, BoundsAreNumbers DEF Validate, TypeOK
    <2>3. TypeOK'
      BY <1>4, <2>1, <2>2 DEF Validate, TypeOK, Attributes, Trees
    <2>4. WalkInDocument' /\ ElementsParsed'
      BY <1>4 DEF Validate, WalkInDocument, ElementsParsed
    <2>5. QED
      BY <2>3, <2>4
  <1>5. CASE CheckElement
    <2>1. TypeOK'
      BY <1>5 DEF CheckElement, Reject, TypeOK, Attributes, Trees
    <2>2. attribute' > 0 => doc[node].name \in DOMAIN elements \/ phase' # "walk"
      BY <1>5 DEF CheckElement, Reject, ElementHolds
    <2>3. WalkInDocument' /\ ElementsParsed'
      BY <1>5, <2>2 DEF CheckElement, Reject, WalkInDocument, ElementsParsed
    <2>4. QED
      BY <2>1, <2>3
  <1>6. CASE CheckAttribute
    <2> DEFINE d == Attributes(doc[node].name)[attribute]
               v == attrs[node][d.name]
    <2>1. node \in DOMAIN doc /\ doc[node].name \in DOMAIN elements /\ node \in 1..Len(doc)
      BY <1>6, DocumentsHaveRoots DEF CheckAttribute, TypeOK, WalkInDocument
    <2>2. d \in AttributeDeclarations /\ attribute \in Nat
      BY <1>6, <2>1, DeclarationType DEF CheckAttribute
    <2>3. d.name \in AttributeNames /\ d.value \in Values
      BY <2>2 DEF AttributeDeclarations
    <2>4. v \in Values \cup {NoValue}
      BY <2>1, <2>3 DEF TypeOK, Trees
    <2>5. attrs' \in Trees'
      <3> HIDE DEF d
      <3>1. attrs' = [attrs EXCEPT ![node][d.name] = IF v = NoValue /\ UseHolds(d, v) THEN d.value ELSE v]
        BY <1>6 DEF CheckAttribute, AddDefault, d
      <3>2. QED
        BY <1>6, <2>1, <2>3, <2>4, <3>1 DEF CheckAttribute, TypeOK, Trees
    <2>6. assignedIDREFValues' \subseteq Values
      BY <1>6, <2>4, ReferencesAreValues DEF CheckAttribute, RecordIDREF, TypeOK
    <2>7. assignedIDValues' \subseteq Values
      BY <1>6, <2>4 DEF CheckAttribute, RecordID, TypeOK
    <2>8. \/ phase' = phase /\ attribute' = attribute + 1 /\ result' = result
          \/ phase' = "idle" /\ result' = "rejected" /\ attribute' = attribute
      BY <1>6 DEF CheckAttribute, Reject
    <2>9. UNCHANGED <<node, elements, doc, given, calls, edits>>
      BY <1>6 DEF CheckAttribute, Reject
    <2>10. TypeOK'
      <3>1. /\ attribute' \in Nat
            /\ phase' \in {"dtd", "idle", "walk", "references"}
            /\ phase' \in {"walk", "references"} => node' \in DOMAIN doc'
            /\ result' \in {"none", "accepted", "rejected"}
        BY <2>1, <2>2, <2>8, <2>9 DEF TypeOK
      <3>2. QED
        BY <2>5, <2>6, <2>7, <2>9, <3>1 DEF TypeOK, Attributes, Trees
    <2>11. WalkInDocument' /\ ElementsParsed'
      BY <1>6, <2>1, <2>8, <2>9 DEF CheckAttribute, WalkInDocument, ElementsParsed
    <2>12. QED
      BY <2>10, <2>11
  <1>7. CASE NextNode
    <2>1. node \in 1..Len(doc) /\ Len(doc) \in Nat /\ DOMAIN doc = 1..Len(doc)
      BY <1>7, DocumentsHaveRoots DEF NextNode, TypeOK, WalkInDocument
    <2>2. node' \in DOMAIN doc
      <3>1. LastNode \/ (node' = node + 1 /\ node # Len(doc))
        BY <1>7 DEF NextNode, LastNode
      <3>2. LastNode => node' = node
        BY <1>7 DEF NextNode
      <3>3. LastNode \/ node + 1 \in 1..Len(doc)
        <4>1. \A m \in Nat : \A n \in 1..m : n = m \/ n + 1 \in 1..m
          OBVIOUS
        <4>2. QED
          BY <2>1, <4>1 DEF LastNode
      <3>4. QED
        BY <2>1, <3>1, <3>2, <3>3
    <2>3. TypeOK'
      BY <1>7, <2>2 DEF NextNode, TypeOK, Attributes, Trees
    <2>4. WalkInDocument' /\ ElementsParsed'
      BY <1>7 DEF NextNode, WalkInDocument, ElementsParsed
    <2>5. QED
      BY <2>3, <2>4
  <1>8. CASE CheckReferences
    <2>1. TypeOK'
      BY <1>8 DEF CheckReferences, Reject, TypeOK, Attributes, Trees
    <2>2. WalkInDocument' /\ ElementsParsed'
      BY <1>8 DEF CheckReferences, Reject, WalkInDocument, ElementsParsed
    <2>3. QED
      BY <2>1, <2>2
  <1>9. CASE UNCHANGED vars
    BY <1>9 DEF vars, TypeOK, WalkInDocument, ElementsParsed, Attributes, Trees
  <1>10. QED
    BY <1>1, <1>2, <1>3, <1>4, <1>5, <1>6, <1>7, <1>8, <1>9, ParseElementType,
       ParseAttributeListType DEF Next, Walk

(* The walk stays inside the document, and the validator knows only values *)
(* that some attribute had.                                                *)
THEOREM TypeInvariant == Spec => []TypeInv
  BY InitType, NextType, PTL DEF Spec

(* The state of the validator is well-typed in every behaviour, whatever   *)
(* is declared, validated and edited between two calls.                    *)
THEOREM TypeCorrect == Spec => []TypeOK
  <1>1. TypeInv => TypeOK
    BY DEF TypeInv
  <1>2. QED
    BY <1>1, TypeInvariant, PTL

-----------------------------------------------------------------------------
(* What the parse of a specification can say.                              *)
LEMMA FormOfSpecification ==
  ASSUME NEW s
  PROVE  /\ s = <<"EMPTY">> <=> ParseSpecification(s).form = "EMPTY"
         /\ s = <<"ANY">> <=> ParseSpecification(s).form = "ANY"
         /\ s = <<"(", "#PCDATA", ")">> => ParseSpecification(s).form = "PCDATA"
         /\ ParseSpecification(s).form \in {"EMPTY", "ANY", "PCDATA", "regex", "error"}
  <1>1. <<"EMPTY">> # <<"ANY">> /\ Token(<<"EMPTY">>, 1) = "EMPTY" /\ Token(<<"ANY">>, 1) = "ANY"
    BY DEF Token
  <1>2. ParseMixed(s).form \in {"PCDATA", "regex", "error"}
    BY DEF ParseMixed
  <1>3. CASE s = <<"EMPTY">>
    BY <1>1, <1>3 DEF ParseSpecification
  <1>4. CASE s = <<"ANY">>
    BY <1>1, <1>4 DEF ParseSpecification
  <1>5. CASE s # <<"EMPTY">> /\ s # <<"ANY">>
    <2>1. \/ ParseSpecification(s) = ParseMixed(s) /\ Token(s, 2) = "#PCDATA"
          \/ ParseSpecification(s) = [form |-> "regex", language |-> Parse(s).language]
                /\ Token(s, 2) # "#PCDATA"
          \/ ParseSpecification(s) = [form |-> "error", language |-> {}]
                /\ ~(Token(s, 1) = "(" /\ Token(s, 2) = "#PCDATA")
      BY <1>5 DEF ParseSpecification
    <2>2. s = <<"(", "#PCDATA", ")">> =>
            Token(s, 1) = "(" /\ Token(s, 2) = "#PCDATA" /\ ParseMixed(s).form = "PCDATA"
      BY DEF Token, ParseMixed
    <2>3. QED
      BY <1>2, <1>5, <2>1, <2>2
  <1>6. QED
    BY <1>3, <1>4, <1>5

(* The test on the content of an element is what its specification means.  *)
LEMMA ContentAgrees ==
  ASSUME SpecificationsDenoted, TextStandsAlone, TypeInv, doc \in Documents,
         NEW n \in DOMAIN doc, doc[n].name \in DOMAIN elements
  PROVE  ContentHolds(n) <=> Conforms(n)
  <1> DEFINE s == elements[doc[n].name].unparsed
             p == elements[doc[n].name].parsed
  <1>1. <<doc[n].name, s>> \in Contents /\ p = ParseSpecification(s) /\ p.form # "error"
    BY DEF TypeInv, TypeOK, ElementsParsed
  <1>2. /\ p.form = "PCDATA" <=> s = <<"(", "#PCDATA", ")">>
        /\ p.form = "EMPTY" <=> s = <<"EMPTY">>
        /\ p.form = "ANY" <=> s = <<"ANY">>
        /\ p.form \in {"EMPTY", "ANY", "PCDATA", "regex"}
        /\ p.form = "regex" => p.language = Denoted(s)
    BY <1>1, FormOfSpecification DEF SpecificationsDenoted
  <1>3. \A m \in ChildElements(n) : m \in DOMAIN doc /\ doc[m].parent = n /\ m # 1
    BY DocumentsHaveRoots DEF ChildElements
  <1>4. \A m \in ChildElements(n) : doc[m].kind \in {"element", "self"}
    <2>1. doc \in Seq(Shapes) /\ \A m \in 2..Len(doc) : doc[m].kind # "root"
      BY DocumentsHaveRoots
    <2>2. \A m \in ChildElements(n) : doc[m] \in Shapes /\ m \in 2..Len(doc)
      BY <1>3, <2>1
    <2>3. QED
      BY <2>1, <2>2 DEF Shapes
  <1>5. CASE s = <<"(", "#PCDATA", ")">>
    <2>1. \A m \in ChildElements(n) : doc[m].kind = "element"
      BY <1>1, <1>3, <1>4, <1>5 DEF TextStandsAlone
    <2>2. ContentHolds(n) <=> IsPCDATA(n)
      BY <1>2, <1>5 DEF ContentHolds
    <2>3. Conforms(n) <=> ChildElements(n) = {} /\ doc[n].text # "none"
      BY <1>2, <1>5 DEF Conforms
    <2>4. QED
      BY <2>1, <2>2, <2>3 DEF IsPCDATA
  <1>6. CASE s = <<"EMPTY">>
    <2>1. doc[n].kind = "self" => ChildElements(n) = {} /\ doc[n].text = "none"
      <3>1. \A m \in 2..Len(doc) : doc[doc[m].parent].kind # "self"
        BY DocumentsHaveRoots
      <3>2. \A m \in ChildElements(n) : m \in 2..Len(doc)
        BY <1>3, DocumentsHaveRoots
      <3>3. QED
        BY <1>3, <3>1, <3>2, DocumentsHaveRoots
    <2>2. ContentHolds(n) <=> IsEMPTY(n)
      BY <1>2, <1>6 DEF ContentHolds
    <2>3. Conforms(n) <=> ChildElements(n) = {} /\ doc[n].text = "none"
      BY <1>2, <1>6 DEF Conforms
    <2>4. QED
      BY <2>1, <2>2, <2>3 DEF IsEMPTY
  <1>7. CASE s = <<"ANY">>
    BY <1>2, <1>7 DEF ContentHolds, Conforms
  <1>8. CASE p.form = "regex"
    <2>1. ContentHolds(n) <=> Children(n) \in p.language
      BY <1>8 DEF ContentHolds
    <2>2. Conforms(n) <=> Children(n) \in Denoted(s)
      BY <1>2, <1>8 DEF Conforms
    <2>3. QED
      BY <1>2, <1>8, <2>1, <2>2
  <1>9. QED
    BY <1>2, <1>5, <1>6, <1>7, <1>8

-----------------------------------------------------------------------------
(* An occurrence is a declared attribute of an element of the document.    *)
LEMMA OccurrenceIs ==
  ASSUME TypeInv
  PROVE  /\ \A n \in DOMAIN doc : doc[n].name \in DOMAIN elements =>
              \A i \in DOMAIN Attributes(doc[n].name) : <<n, i>> \in Occurrences
         /\ \A o \in Occurrences :
              /\ o = <<o[1], o[2]>> /\ o[1] \in DOMAIN doc /\ o[1] \in Nat \ {0}
              /\ doc[o[1]].name \in DOMAIN elements
              /\ o[2] \in DOMAIN Attributes(doc[o[1]].name) /\ o[2] \in Nat \ {0}
              /\ Declaration(o) \in AttributeDeclarations
  <1>1. \A n \in DOMAIN doc : doc[n].name \in DOMAIN elements =>
          \A i \in DOMAIN Attributes(doc[n].name) : <<n, i>> \in Occurrences
    BY DEF Occurrences
  <1>2. ASSUME NEW o \in Occurrences
        PROVE  /\ o = <<o[1], o[2]>> /\ o[1] \in DOMAIN doc /\ o[1] \in Nat \ {0}
               /\ doc[o[1]].name \in DOMAIN elements
               /\ o[2] \in DOMAIN Attributes(doc[o[1]].name) /\ o[2] \in Nat \ {0}
               /\ Declaration(o) \in AttributeDeclarations
    <2>1. PICK n \in {m \in DOMAIN doc : doc[m].name \in DOMAIN elements} :
            o \in {n} \X (DOMAIN Attributes(doc[n].name))
      BY DEF Occurrences
    <2>2. o = <<o[1], o[2]>> /\ o[1] = n /\ o[2] \in DOMAIN Attributes(doc[n].name)
      BY <2>1
    <2>3. doc \in Seq(Shapes)
      BY DocumentsHaveRoots DEF TypeInv, TypeOK
    <2>4. n \in Nat \ {0}
      BY <2>3
    <2>5. Attributes(doc[n].name)[o[2]] \in AttributeDeclarations /\ o[2] \in Nat \ {0}
      BY <2>2, DeclarationType DEF TypeInv
    <2>6. QED
      BY <2>2, <2>4, <2>5 DEF Declaration
  <1>3. QED
    BY <1>1, <1>2

(* What a step tells of a document that it does not change.                *)
LEMMA SameDocument ==
  ASSUME UNCHANGED <<elements, doc, given>>
  PROVE  /\ Occurrences' = Occurrences
         /\ \A o : Declaration(o)' = Declaration(o) /\ Given(o)' = Given(o)
         /\ \A o : (IsID(o))' <=> IsID(o)
         /\ \A n : (ElementHolds(n))' <=> ElementHolds(n)
  <1>1. Occurrences' = Occurrences
    BY DEF Occurrences, Attributes
  <1>2. \A o : Declaration(o)' = Declaration(o)
    BY DEF Declaration, Attributes
  <1>3. \A o : Given(o)' = Given(o)
    BY DEF Given, Declaration, Attributes
  <1>4. \A o : (IsID(o))' <=> IsID(o)
    BY <1>2, <1>3 DEF IsID, HasType
  <1>5. \A n : ChildElements(n)' = ChildElements(n) /\ Children(n)' = Children(n)
    BY DEF ChildElements, Children
  <1>6. \A n : (ContentHolds(n))' <=> ContentHolds(n)
    BY <1>5 DEF ContentHolds, IsPCDATA, IsEMPTY
  <1>7. \A n : (ElementHolds(n))' <=> ElementHolds(n)
    BY <1>6 DEF ElementHolds
  <1>8. QED
    BY <1>1, <1>2, <1>3, <1>4, <1>7

(* Validity is a matter of the declarations and the document as it was     *)
(* given, not of the walk.                                                 *)
LEMMA SameValidity ==
  ASSUME UNCHANGED <<elements, doc, given>>
  PROVE  ValidAsGiven' <=> ValidAsGiven
  <1>1. Occurrences' = Occurrences
    BY SameDocument
  <1>2. \A o : Declaration(o)' = Declaration(o) /\ Given(o)' = Given(o)
    BY SameDocument
  <1>3. \A n : ChildElements(n)' = ChildElements(n) /\ Children(n)' = Children(n)
    BY DEF ChildElements, Children
  <1>4. \A n : (Conforms(n))' <=> Conforms(n)
    BY <1>3 DEF Conforms
  <1>5. \A o : (IsID(o))' <=> IsID(o)
    BY SameDocument
  <1>6. IDs' = IDs
    BY <1>1, <1>2, <1>5 DEF IDs, IsID
  <1>7. IDREFs' = IDREFs
    BY <1>1, <1>2 DEF IDREFs
  <1>8. QED
    BY <1>1, <1>2, <1>4, <1>5, <1>6, <1>7 DEF ValidAsGiven, IsID

-----------------------------------------------------------------------------
(* The walk begins with nothing behind it.                                 *)
LEMMA ValidateHolds ==
  ASSUME WalkInv, MaxCalls <= 1, Validate
  PROVE  WalkHolds'
  <1>1. calls = 0
    BY BoundsAreNumbers DEF WalkInv, TypeInv, TypeOK, Validate
  <1>2. /\ attrs' = given' /\ assignedIDValues' = {} /\ assignedIDREFValues' = {}
        /\ phase' = "walk" /\ node' = 1 /\ attribute' = 0 /\ result' = "none"
        /\ UNCHANGED <<elements, doc, given>>
    BY <1>1 DEF WalkInv, NothingMet, Validate
  <1>3. \A o \in Occurrences' : ~(Met(o))' /\ Value(o)' = Given(o)'
    <2>1. \A o \in Occurrences : o[1] \in Nat \ {0} /\ o[2] \in Nat \ {0}
      BY OccurrenceIs DEF WalkInv
    <2>2. \A o \in Occurrences : ~(o[1] < 1) /\ ~(o[2] < 0)
      BY <2>1
    <2>3. Occurrences' = Occurrences
      BY <1>2, SameDocument
    <2>4. QED
      BY <1>2, <2>2, <2>3 DEF Met, Value, Given
  <1>4. MetOccurrences' = {}
    BY <1>3 DEF MetOccurrences
  <1>5. ElementsHold'
    <2>1. \A n \in DOMAIN doc : n \in Nat \ {0}
      BY DocumentsHaveRoots DEF WalkInv, TypeInv, TypeOK
    <2>2. QED
      BY <1>2, <2>1 DEF ElementsHold
  <1>6. AttributesHold'
    BY <1>3 DEF AttributesHold
  <1>7. IdentifiersRecorded'
    BY <1>2, <1>4 DEF IdentifiersRecorded
  <1>8. QED
    BY <1>2, <1>5, <1>6, <1>7 DEF WalkHolds

(* The next element holds, and nothing else changes.                       *)
LEMMA CheckElementHolds ==
  ASSUME WalkInv, CheckElement
  PROVE  WalkHolds'
  <1>1. CASE ~ElementHolds(node)
    BY <1>1 DEF CheckElement, Reject, WalkHolds
  <1>2. CASE ElementHolds(node)
    <2>1. /\ phase = "walk" /\ attribute = 0 /\ attribute' = 1
          /\ UNCHANGED <<phase, node, result, elements, doc, attrs, given>>
          /\ UNCHANGED <<assignedIDValues, assignedIDREFValues>>
      BY <1>2 DEF CheckElement, Reject
    <2>2. \A o \in Occurrences : o[2] \in Nat \ {0}
      BY OccurrenceIs DEF WalkInv
    <2>3. \A o \in Occurrences : (Met(o))' <=> Met(o)
      BY <2>1, <2>2 DEF Met
    <2>4. MetOccurrences' = MetOccurrences
      BY <2>1, <2>3, SameDocument DEF MetOccurrences
    <2>5. \A o : Value(o)' = Value(o)
      BY <2>1, SameDocument DEF Value
    <2>6. ElementsHold'
      BY <1>2, <2>1, SameDocument DEF WalkInv, WalkHolds, ElementsHold
    <2>7. AttributesHold'
      BY <2>1, <2>3, <2>5, SameDocument DEF WalkInv, WalkHolds, AttributesHold
    <2>8. IdentifiersRecorded'
      BY <2>1, <2>4, SameDocument DEF WalkInv, WalkHolds, IdentifiersRecorded
    <2>9. QED
      BY <2>1, <2>6, <2>7, <2>8 DEF WalkInv, WalkHolds
  <1>3. QED
    BY <1>1, <1>2

(* When the attributes of an element are behind, the walk goes on with the *)
(* next element, or all of the document is behind it.                      *)
LEMMA NextNodeHolds ==
  ASSUME WalkInv, NextNode
  PROVE  WalkHolds'
  <1>1. /\ phase = "walk" /\ attribute > 0 /\ attribute \notin DOMAIN Attributes(doc[node].name)
        /\ attribute' = 0 /\ attribute \in Nat
        /\ UNCHANGED <<result, elements, doc, attrs, given>>
        /\ UNCHANGED <<assignedIDValues, assignedIDREFValues>>
    BY DEF NextNode, WalkInv, TypeInv, TypeOK
  <1>2. \/ phase' = "references" /\ node = Len(doc)
        \/ phase' = "walk" /\ node' = node + 1
    BY <1>1 DEF NextNode, LastNode
  <1>3. /\ node \in DOMAIN doc /\ node \in Nat /\ Len(doc) \in Nat /\ DOMAIN doc = 1..Len(doc)
        /\ doc[node].name \in DOMAIN elements
    BY <1>1, DocumentsHaveRoots DEF WalkInv, TypeInv, TypeOK, WalkInDocument
  <1>4. \A i \in DOMAIN Attributes(doc[node].name) : i \in Nat /\ i < attribute
    <2>1. Attributes(doc[node].name) \in Seq({l[2] : l \in Attlists})
      BY <1>3 DEF WalkInv, TypeInv, TypeOK
    <2>2. attribute \notin 1..Len(Attributes(doc[node].name)) /\ Len(Attributes(doc[node].name)) \in Nat
      BY <1>1, <2>1
    <2>3. QED
      BY <1>1, <2>1, <2>2
  <1>5. \A o \in Occurrences : (Met(o))' <=> Met(o)
    <2> SUFFICES ASSUME NEW o \in Occurrences PROVE (Met(o))' <=> Met(o)
      OBVIOUS
    <2>1. /\ o[1] \in 1..Len(doc) /\ o[1] \in Nat /\ o[2] \in Nat \ {0}
          /\ o[2] \in DOMAIN Attributes(doc[o[1]].name)
      BY <1>3, OccurrenceIs DEF WalkInv
    <2>2. Met(o) <=> o[1] <= node
      BY <1>1, <1>3, <1>4, <2>1 DEF Met
    <2>3. (Met(o))' <=> o[1] <= node
      BY <1>1, <1>2, <1>3, <2>1 DEF Met
    <2>4. QED
      BY <2>2, <2>3
  <1>6. MetOccurrences' = MetOccurrences
    BY <1>1, <1>5, SameDocument DEF MetOccurrences
  <1>7. \A o : Value(o)' = Value(o)
    BY <1>1, SameDocument DEF Value
  <1>8. ElementsHold'
    <2>1. \A n \in DOMAIN doc : n <= node => ElementHolds(n)
      BY <1>1, <1>3 DEF WalkInv, WalkHolds, ElementsHold
    <2>2. QED
      BY <1>1, <1>2, <1>3, <2>1, SameDocument DEF ElementsHold
  <1>9. AttributesHold'
    BY <1>1, <1>5, <1>7, SameDocument DEF WalkInv, WalkHolds, AttributesHold
  <1>10. IdentifiersRecorded'
    BY <1>1, <1>6, SameDocument DEF WalkInv, WalkHolds, IdentifiersRecorded
  <1>11. QED
    BY <1>1, <1>8, <1>9, <1>10 DEF WalkInv, WalkHolds

-----------------------------------------------------------------------------
(* Where the walk is: the attribute it meets next, still as it was given.  *)
Here == <<node, attribute>>

(* Where checkAttributes looks at an attribute, the walk has not met it    *)
(* and nothing was added to it.                                            *)
LEMMA AtAttribute ==
  ASSUME WalkInv, CheckAttribute
  PROVE  /\ Here \in Occurrences /\ ~Met(Here) /\ Value(Here) = Given(Here)
         /\ Declaration(Here) = Attributes(doc[node].name)[attribute]
         /\ Declaration(Here) \in AttributeDeclarations
         /\ Given(Here) \in Values \cup {NoValue}
         /\ node \in DOMAIN attrs /\ phase = "walk" /\ result = "none"
         /\ node \in Nat /\ attribute \in Nat
  <1>1. /\ phase = "walk" /\ attribute > 0 /\ attribute \in DOMAIN Attributes(doc[node].name)
    BY DEF CheckAttribute
  <1>2. /\ node \in DOMAIN doc /\ doc[node].name \in DOMAIN elements /\ attribute \in Nat
        /\ node \in 1..Len(doc)
    BY <1>1, DocumentsHaveRoots DEF WalkInv, TypeInv, TypeOK, WalkInDocument
  <1>3. Here \in Occurrences
    BY <1>1, <1>2, OccurrenceIs DEF WalkInv, Here
  <1>4. ~Met(Here) /\ node \in Nat
    BY <1>1, <1>2 DEF Met, Here
  <1>5. Value(Here) = Given(Here) /\ result = "none"
    BY <1>1, <1>3, <1>4 DEF WalkInv, WalkHolds, AttributesHold
  <1>6. Declaration(Here) = Attributes(doc[node].name)[attribute]
    BY DEF Declaration, Here
  <1>7. Declaration(Here) \in AttributeDeclarations
    BY <1>3, OccurrenceIs DEF WalkInv
  <1>8. Declaration(Here).name \in AttributeNames /\ node \in DOMAIN attrs
        /\ attrs[node] \in [AttributeNames -> Values \cup {NoValue}]
    BY <1>2, <1>7 DEF WalkInv, TypeInv, TypeOK, Trees, AttributeDeclarations
  <1>9. Value(Here) \in Values \cup {NoValue}
    BY <1>8 DEF Value, Here
  <1>10. QED
    BY <1>1, <1>2, <1>3, <1>4, <1>5, <1>6, <1>7, <1>8, <1>9

(* What the step does, in terms of the attribute that is met.              *)
LEMMA AttributeStep ==
  ASSUME WalkInv, CheckAttribute
  PROVE  LET d == Declaration(Here)
             v == Given(Here)
         IN /\ \/ /\ AttributeTypeHolds(d, v) /\ UseHolds(d, v)
                  /\ attribute' = attribute + 1 /\ UNCHANGED <<phase, node, result>>
               \/ ~(AttributeTypeHolds(d, v) /\ UseHolds(d, v))
                  /\ phase' = "idle" /\ result' = "rejected"
            /\ RecordID(d, v) /\ RecordIDREF(d, v)
            /\ attrs' = [attrs EXCEPT ![node][d.name] =
                           IF v = NoValue /\ UseHolds(d, v) THEN d.value ELSE v]
            /\ UNCHANGED <<elements, doc, given, calls, edits>>
  <1>1. attrs[node][Declaration(Here).name] = Given(Here)
    BY AtAttribute DEF Value, Here
  <1>2. Attributes(doc[node].name)[attribute] = Declaration(Here)
    BY AtAttribute
  <1>3. QED
    BY <1>1, <1>2 DEF CheckAttribute, Reject, AddDefault

(* An attribute that holds joins those behind the walk.                    *)
LEMMA CheckAttributeHolds ==
  ASSUME WalkInv, Redeclare = FALSE, CheckAttribute
  PROVE  WalkHolds'
  <1> DEFINE d == Declaration(Here)
             v == Given(Here)
             pass == AttributeTypeHolds(d, v) /\ UseHolds(d, v)
  <1>1. CASE ~pass
    <2>1. phase' = "idle"
      BY <1>1, AttributeStep
    <2>2. QED
      BY <2>1 DEF WalkHolds
  <1>2. CASE pass
    <2>1. /\ attribute' = attribute + 1 /\ UNCHANGED <<phase, node, result, elements, doc, given>>
          /\ RecordID(d, v) /\ RecordIDREF(d, v)
          /\ attrs' = [attrs EXCEPT ![node][d.name] = IF v = NoValue THEN d.value ELSE v]
      <3> HIDE DEF d, v
      <3>1. QED
        BY <1>2, AttributeStep DEF d, v
    <2>2. Here \in Occurrences /\ ~Met(Here) /\ node \in Nat /\ attribute \in Nat
          /\ phase = "walk" /\ result = "none"
      BY AtAttribute
    <2>3. \A o \in Occurrences : (Met(o))' <=> Met(o) \/ o = Here
      <3> SUFFICES ASSUME NEW o \in Occurrences PROVE (Met(o))' <=> Met(o) \/ o = Here
        OBVIOUS
      <3>1. o = <<o[1], o[2]>> /\ o[1] \in Nat /\ o[2] \in Nat
        BY OccurrenceIs DEF WalkInv
      <3>2. (Met(o))' <=> o[1] < node \/ (o[1] = node /\ o[2] < attribute + 1)
        BY <2>1, <2>2 DEF Met
      <3>3. Met(o) <=> o[1] < node \/ (o[1] = node /\ o[2] < attribute)
        BY <2>2 DEF Met
      <3>4. o = Here <=> o[1] = node /\ o[2] = attribute
        BY <3>1 DEF Here
      <3>5. QED
        BY <2>2, <3>1, <3>2, <3>3, <3>4
    <2>4. MetOccurrences' = MetOccurrences \cup {Here}
      BY <2>1, <2>2, <2>3, SameDocument DEF MetOccurrences
    <2>5. \A o \in Occurrences : o # Here => Value(o)' = Value(o)
      <3> SUFFICES ASSUME NEW o \in Occurrences, o # Here
                   PROVE  attrs'[o[1]][Declaration(o).name] = attrs[o[1]][Declaration(o).name]
        BY <2>1, SameDocument DEF Value
      <3>1. o = <<o[1], o[2]>> /\ o[1] \in DOMAIN doc /\ Declaration(o) \in AttributeDeclarations
            /\ o[2] \in DOMAIN Attributes(doc[o[1]].name) /\ doc[o[1]].name \in DOMAIN elements
        BY OccurrenceIs DEF WalkInv
      <3>2. o[1] # node \/ Declaration(o).name # d.name
        <4> SUFFICES ASSUME o[1] = node, Declaration(o).name = d.name PROVE FALSE
          OBVIOUS
        <4>1. o[2] # attribute
          BY <3>1 DEF Here
        <4>2. attribute \in DOMAIN Attributes(doc[node].name)
              /\ d = Attributes(doc[node].name)[attribute]
          BY AtAttribute DEF CheckAttribute
        <4>3. Declaration(o) = Attributes(doc[node].name)[o[2]]
          BY DEF Declaration
        <4>4. QED
          BY <3>1, <4>1, <4>2, <4>3 DEF WalkInv, NamesDistinct
      <3>3. attrs \in Trees
        BY DEF WalkInv, TypeInv, TypeOK
      <3>4. Declaration(o).name \in AttributeNames
        BY <3>1 DEF AttributeDeclarations
      <3> HIDE DEF d, v
      <3>5. CASE o[1] # node
        BY <2>1, <3>3, <3>5 DEF Trees
      <3>6. CASE o[1] = node /\ Declaration(o).name # d.name
        <4>1. attrs'[node] = [attrs[node] EXCEPT ![d.name] = IF v = NoValue THEN d.value ELSE v]
          BY <2>1, AtAttribute
        <4>2. QED
          BY <3>4, <3>6, <4>1
      <3>7. QED
        BY <3>2, <3>5, <3>6
    <2>6. \A o \in Occurrences : o = Here => Value(o)' # NoValue
      <3>1. d.name \in AttributeNames /\ d.value \in Values
        BY AtAttribute DEF AttributeDeclarations
      <3>2. attrs[node] \in [AttributeNames -> Values \cup {NoValue}]
        BY AtAttribute DEF WalkInv, TypeInv, TypeOK, Trees
      <3>3. \A o : o = Here => Value(o)' = attrs'[node][d.name]
        BY <2>1, SameDocument DEF Value, Here
      <3> HIDE DEF d, v
      <3>4. attrs'[node][d.name] = IF v = NoValue THEN d.value ELSE v
        BY <2>1, <3>1, <3>2, AtAttribute
      <3>5. QED
        BY <3>1, <3>3, <3>4, ValuesAreWords
    <2>7. /\ UseHolds(d, v) /\ (v # NoValue => TypeHolds(d, v))
          /\ IsID(Here) => v \notin assignedIDValues
      BY <1>2 DEF AttributeTypeHolds, IsID, HasType
    <2>8. AttributesHold'
      <3> SUFFICES ASSUME NEW o \in Occurrences
                   PROVE  IF Met(o)' THEN /\ UseHolds(Declaration(o), Given(o))
                                          /\ Given(o) # NoValue => TypeHolds(Declaration(o), Given(o))
                                          /\ Value(o)' # NoValue
                                     ELSE Value(o)' = Given(o)
        BY <2>1, SameDocument DEF AttributesHold
      <3>1. CASE o = Here
        BY <2>2, <2>3, <2>6, <2>7, <3>1
      <3>2. CASE o # Here
        BY <2>2, <2>3, <2>5, <3>2 DEF WalkInv, WalkHolds, AttributesHold
      <3>3. QED
        BY <3>1, <3>2
    <2>9. ElementsHold'
      <3>1. attribute > 0 /\ attribute + 1 > 0
        <4>1. attribute > 0
          BY Zenon DEF CheckAttribute
        <4>2. QED
          BY <4>1, AtAttribute
      <3>2. ElementsHold
        BY <2>2 DEF WalkInv, WalkHolds
      <3>3. QED
        BY <2>1, <2>2, <3>1, <3>2, SameDocument DEF ElementsHold
    <2>10. IdentifiersRecorded'
      <3>0. IdentifiersRecorded
        BY <2>2 DEF WalkInv, WalkHolds
      <3>1. assignedIDValues' = {Given(o) : o \in {p \in MetOccurrences \cup {Here} : IsID(p)}}
        <4>1. {w \in {v} : d.type = "id" /\ v # NoValue /\ IsIDOK(v)} = {w \in {v} : IsID(Here)}
          BY <2>7 DEF IsID, HasType, TypeHolds
        <4>2. assignedIDValues' = assignedIDValues \cup {w \in {v} : IsID(Here)}
          BY <2>1, <4>1 DEF RecordID
        <4> HIDE DEF d
        <4>3. QED
          BY <3>0, <4>2 DEF IdentifiersRecorded
      <3>2. assignedIDREFValues' = UNION {ReferencesOf(Declaration(o), Given(o)) :
                                            o \in MetOccurrences \cup {Here}}
        <4>1. assignedIDREFValues' = assignedIDREFValues \cup ReferencesOf(d, v)
          BY <2>1 DEF RecordIDREF
        <4>2. QED
          BY <3>0, <4>1 DEF IdentifiersRecorded
      <3>3. \A o \in MetOccurrences : IsID(o) /\ IsID(Here) => Given(o) # Given(Here)
        BY <2>7, <3>0 DEF IdentifiersRecorded
      <3>4. \A o, p \in MetOccurrences \cup {Here} :
              o # p /\ IsID(o) /\ IsID(p) => Given(o) # Given(p)
        BY <3>0, <3>3 DEF IdentifiersRecorded
      <3>5. QED
        BY <2>1, <2>4, <3>1, <3>2, <3>4, SameDocument DEF IdentifiersRecorded
    <2>11. QED
      BY <2>1, <2>2, <2>8, <2>9, <2>10 DEF WalkHolds
  <1>3. QED
    BY <1>1, <1>2

-----------------------------------------------------------------------------
(* An element that the walk refuses makes the document invalid, one that   *)
(* it passes has the content that is declared.                             *)
LEMMA ElementsAgree ==
  ASSUME SpecificationsDenoted, TextStandsAlone, TypeInv, doc \in Documents
  PROVE  (\A n \in DOMAIN doc : ElementHolds(n)) <=>
           /\ doc[1].kind = "root" => doc[1].name = Doctype
           /\ \A n \in DOMAIN doc : doc[n].name \in DOMAIN elements /\ Conforms(n)
  <1>1. 1 \in DOMAIN doc /\ \A n \in DOMAIN doc : doc[n].kind = "root" => n = 1
    BY DocumentsHaveRoots
  <1>2. \A n \in DOMAIN doc : doc[n].name \in DOMAIN elements => (ContentHolds(n) <=> Conforms(n))
    BY ContentAgrees
  <1>3. QED
    BY <1>1, <1>2 DEF ElementHolds

(* What checkElement rejects is not valid.                                 *)
LEMMA CheckElementRejects ==
  ASSUME SpecificationsDenoted, TextStandsAlone, WalkInv, CheckElement, result' = "rejected"
  PROVE  ~ValidAsGiven
  <1>1. phase = "walk" /\ result = "none"
    BY DEF CheckElement, WalkInv, WalkHolds
  <1>2. ~ElementHolds(node)
    BY <1>1 DEF CheckElement
  <1>3. node \in DOMAIN doc /\ doc \in Documents
    BY <1>1 DEF WalkInv, TypeInv, TypeOK, WalkInDocument
  <1>4. QED
    BY <1>2, <1>3, ElementsAgree DEF WalkInv, ValidAsGiven

(* So does an attribute that it refuses: it is not of its type, it may not *)
(* be there or not be missing, or its identifier is that of another.       *)
LEMMA CheckAttributeRejects ==
  ASSUME WalkInv, CheckAttribute, result' = "rejected"
  PROVE  ~ValidAsGiven
  <1> DEFINE d == Declaration(Here)
             v == Given(Here)
  <1>1. ~(AttributeTypeHolds(d, v) /\ UseHolds(d, v))
    BY AtAttribute, AttributeStep
  <1>2. Here \in Occurrences /\ ~Met(Here) /\ phase = "walk"
    BY AtAttribute
  <1>3. CASE ~UseHolds(d, v)
    BY <1>2, <1>3 DEF ValidAsGiven
  <1>4. CASE v # NoValue /\ ~TypeHolds(d, v)
    BY <1>2, <1>4 DEF ValidAsGiven
  <1>5. CASE v # NoValue /\ d.type = "id" /\ v \in assignedIDValues
    <2>1. IsID(Here)
      BY <1>5 DEF IsID, HasType
    <2>2. PICK o \in MetOccurrences : IsID(o) /\ Given(o) = v
      BY <1>2, <1>5 DEF WalkInv, WalkHolds, IdentifiersRecorded
    <2>3. o \in Occurrences /\ o # Here
      BY <1>2, <2>2 DEF MetOccurrences
    <2>4. QED
      BY <1>2, <2>1, <2>2, <2>3 DEF ValidAsGiven, IsID
  <1>6. QED
    BY <1>1, <1>3, <1>4, <1>5 DEF AttributeTypeHolds

(* With the whole document behind the walk the two sets are those of the   *)
(* document.                                                               *)
LEMMA AllMet ==
  ASSUME WalkInv, phase = "references"
  PROVE  /\ assignedIDValues = IDs /\ assignedIDREFValues = IDREFs
         /\ \A n \in DOMAIN doc : ElementHolds(n)
         /\ \A o \in Occurrences : UseHolds(Declaration(o), Given(o)) /\ Value(o) # NoValue
         /\ \A o \in Occurrences : Given(o) # NoValue => TypeHolds(Declaration(o), Given(o))
         /\ \A o, p \in Occurrences : o # p /\ IsID(o) /\ IsID(p) => Given(o) # Given(p)
  <1>1. WalkHolds /\ \A o : Met(o)
    BY DEF WalkInv, Met
  <1>2. MetOccurrences = Occurrences
    BY <1>1 DEF MetOccurrences
  <1>3. /\ assignedIDValues = {Given(o) : o \in {p \in Occurrences : IsID(p)}}
        /\ assignedIDREFValues = UNION {ReferencesOf(Declaration(o), Given(o)) : o \in Occurrences}
        /\ \A o, p \in Occurrences : o # p /\ IsID(o) /\ IsID(p) => Given(o) # Given(p)
    BY <1>1, <1>2 DEF WalkHolds, IdentifiersRecorded
  <1>4. assignedIDValues = IDs /\ assignedIDREFValues = IDREFs
    BY <1>3 DEF IDs, IDREFs, IsID
  <1>5. QED
    BY <1>1, <1>3, <1>4 DEF WalkHolds, ElementsHold, AttributesHold

(* At the end the two sets are those of the whole document, so comparing   *)
(* them decides.                                                           *)
LEMMA CheckReferencesDecides ==
  ASSUME SpecificationsDenoted, TextStandsAlone, WalkInv, CheckReferences
  PROVE  /\ result' = "rejected" => ~ValidAsGiven
         /\ result' = "accepted" =>
              ValidAsGiven /\ \A o \in Occurrences : Value(o) # NoValue
  <1>1. phase = "references" /\ doc \in Documents
    BY DEF CheckReferences, WalkInv, TypeInv, WalkInDocument
  <1>2. /\ result' = "rejected" => ~(assignedIDREFValues \subseteq assignedIDValues)
        /\ result' = "accepted" => assignedIDREFValues \subseteq assignedIDValues
    BY DEF CheckReferences, Reject
  <1>3. CASE result' = "rejected"
    BY <1>1, <1>2, <1>3, AllMet DEF ValidAsGiven
  <1>4. CASE result' = "accepted"
    <2>1. IDREFs \subseteq IDs
      BY <1>1, <1>2, <1>4, AllMet
    <2>2. /\ doc[1].kind = "root" => doc[1].name = Doctype
          /\ \A n \in DOMAIN doc : doc[n].name \in DOMAIN elements /\ Conforms(n)
      BY <1>1, AllMet, ElementsAgree DEF WalkInv
    <2>3. QED
      BY <1>1, <1>4, <2>1, <2>2, AllMet DEF ValidAsGiven, IsID
  <1>5. QED
    BY <1>3, <1>4

-----------------------------------------------------------------------------

(* Declaring an attribute that is not declared yet keeps names distinct.   *)
LEMMA NextDistinct ==
  ASSUME TypeInv, NamesDistinct, Redeclare = FALSE, [Next]_vars
  PROVE  NamesDistinct'
  <1>1. ASSUME NEW c \in Contents, ParseElement(c[1], c[2]) PROVE NamesDistinct'
    <2>1. \A e \in DOMAIN elements' :
            \/ e \in DOMAIN elements /\ elements'[e] = elements[e]
            \/ elements'[e].attributes = <<>>
      BY <1>1 DEF ParseElement
    <2>2. QED
      BY <2>1 DEF NamesDistinct, Attributes
  <1>2. ASSUME NEW l \in Attlists, ParseAttributeList(l[1], l[2]) PROVE NamesDistinct'
    <2> DEFINE e == l[1]
               d == l[2]
               old == Attributes(e)
    <2>1. CASE ~Declarable(e, d)
      BY <1>2, <2>1 DEF ParseAttributeList, NamesDistinct
    <2>2. CASE Declarable(e, d)
      <3>1. e \in DOMAIN elements /\ old \in Seq({k[2] : k \in Attlists})
        BY <1>2 DEF ParseAttributeList, TypeInv, TypeOK
      <3>2. /\ DOMAIN elements' = DOMAIN elements
            /\ \A f \in DOMAIN elements : f # e => elements'[f] = elements[f]
            /\ elements'[e].attributes = Append(old, d)
        BY <1>2, <2>2, <3>1 DEF ParseAttributeList, TypeInv, ElementsParsed, ElementDeclaration, Attributes
      <3>3. \A i \in DOMAIN old : old[i].name # d.name
        BY <1>2 DEF ParseAttributeList
      <3>4. /\ DOMAIN old = 1..Len(old) /\ DOMAIN Append(old, d) = 1..(Len(old) + 1) /\ Len(old) \in Nat
            /\ \A i \in 1..Len(old) : Append(old, d)[i] = old[i]
            /\ Append(old, d)[Len(old) + 1] = d
        BY <3>1
      <3>5. \A i, j \in DOMAIN Append(old, d) :
              Append(old, d)[i].name = Append(old, d)[j].name => i = j
        <4>1. \A i, j \in DOMAIN old : old[i].name = old[j].name => i = j
          BY <3>1 DEF NamesDistinct
        <4>2. \A i \in DOMAIN Append(old, d) : i \in DOMAIN old \/ i = Len(old) + 1
          BY <3>4
        <4> HIDE DEF old, d
        <4>3. QED
          BY <3>3, <3>4, <4>1, <4>2
      <3>6. \A f \in DOMAIN elements : f # e => elements'[f].attributes = elements[f].attributes
        BY <3>2
      <3>7. QED
        BY <3>2, <3>5, <3>6 DEF NamesDistinct, Attributes
    <2>3. QED
      BY <2>1, <2>2
  <1>3. CASE ParseAgain
    BY <1>3 DEF ParseAgain, NamesDistinct
  <1>4. CASE UNCHANGED elements
    BY <1>4 DEF NamesDistinct, Attributes
  <1>5. QED
    BY <1>1, <1>2, <1>3, <1>4 DEF Next, Walk, vars, ParseContent, ClientSets, Validate, CheckElement,
       CheckAttribute, NextNode, CheckReferences

(* Before the DTD is read nothing was met.                                 *)
LEMMA InitWalk == Init => WalkInv
  <1> SUFFICES ASSUME Init PROVE WalkInv
    OBVIOUS
  <1>1. TypeInv
    BY InitType
  <1>2. NamesDistinct
    BY DEF Init, NamesDistinct
  <1>3. NothingMet /\ WalkHolds /\ AcceptedMeansValid /\ RejectedMeansInvalid
    BY DEF Init, NothingMet, WalkHolds, AcceptedMeansValid, RejectedMeansInvalid
  <1>4. QED
    BY <1>1, <1>2, <1>3 DEF WalkInv

(* Only the walk itself decides, and every other step forgets what was     *)
(* decided.                                                                *)
LEMMA NextWalk ==
  ASSUME Decidable, WalkInv, [Next]_vars
  PROVE  WalkInv'
  <1> USE DEF Decidable
  <1>1. TypeInv' /\ NamesDistinct'
    BY NextType, NextDistinct DEF WalkInv
  <1>2. ASSUME WalkHolds', NothingMet', result' = "none" PROVE WalkInv'
    BY <1>1, <1>2 DEF WalkInv, AcceptedMeansValid, RejectedMeansInvalid
  <1>3. ASSUME NEW c \in Contents, ParseElement(c[1], c[2]) PROVE WalkInv'
    BY <1>2, <1>3 DEF ParseElement, WalkInv, NothingMet, WalkHolds
  <1>4. ASSUME NEW l \in Attlists, ParseAttributeList(l[1], l[2]) PROVE WalkInv'
    BY <1>2, <1>4 DEF ParseAttributeList, WalkInv, NothingMet, WalkHolds
  <1>5. ASSUME NEW document \in Documents,
               NEW text \in [Slots(document) -> Values \cup {NoValue}],
               ParseContent(document, text)
        PROVE  WalkInv'
    BY <1>2, <1>5 DEF ParseContent, WalkInv, NothingMet, WalkHolds
  <1>6. CASE ParseAgain
    BY <1>2, <1>6 DEF ParseAgain, NothingMet, WalkHolds
  <1>7. ASSUME NEW n \in DOMAIN doc, NEW a \in AttributeNames, NEW v \in Values, ClientSets(n, a, v)
        PROVE  WalkInv'
    BY <1>2, <1>7 DEF ClientSets, WalkInv, NothingMet, WalkHolds
  <1>8. CASE Validate
    <2>1. calls' = 1
      BY <1>8, BoundsAreNumbers DEF Validate, WalkInv, TypeInv, TypeOK
    <2>2. QED
      BY <1>2, <1>8, <2>1, ValidateHolds DEF Validate, NothingMet
  <1>9. CASE CheckElement \/ CheckAttribute \/ NextNode \/ CheckReferences
    <2>1. phase \in {"walk", "references"} /\ result = "none" /\ calls # 0
          /\ UNCHANGED <<elements, doc, given, calls>> /\ phase' # "dtd"
      BY <1>9 DEF CheckElement, CheckAttribute, NextNode, CheckReferences, Reject, WalkInv, WalkHolds, NothingMet
    <2>2. NothingMet'
      BY <2>1 DEF NothingMet
    <2>3. WalkHolds'
      <3>1. CASE CheckReferences
        BY <3>1 DEF CheckReferences, Reject, WalkHolds
      <3>2. QED
        BY <1>9, <3>1, CheckElementHolds, CheckAttributeHolds, NextNodeHolds
    <2>4. result' = "rejected" => ~ValidAsGiven
      BY <1>9, <2>1, CheckElementRejects, CheckAttributeRejects, CheckReferencesDecides DEF NextNode
    <2>5. result' = "accepted" => CheckReferences
      BY <1>9, <2>1 DEF CheckElement, CheckAttribute, NextNode, Reject
    <2>6. RejectedMeansInvalid'
      BY <2>1, <2>4, SameValidity DEF RejectedMeansInvalid
    <2>7. AcceptedMeansValid'
      <3> SUFFICES ASSUME result' = "accepted"
                   PROVE  /\ ValidAsGiven'
                          /\ \A o \in Occurrences' : Value(o)' # NoValue
        BY DEF AcceptedMeansValid, Value
      <3>1. CheckReferences
        BY <2>5
      <3>2. ValidAsGiven /\ \A o \in Occurrences : Value(o) # NoValue
        BY <3>1, CheckReferencesDecides
      <3>3. \A o : Value(o)' = Value(o)
        BY <2>1, <3>1, SameDocument DEF Value, CheckReferences
      <3>4. QED
        BY <2>1, <3>2, <3>3, SameValidity, SameDocument
    <2>8. QED
      BY <1>1, <2>2, <2>3, <2>6, <2>7 DEF WalkInv
  <1>10. CASE UNCHANGED vars
    <2>1. UNCHANGED <<elements, doc, given>> /\ UNCHANGED <<phase, node, attribute, result, calls, attrs>>
          /\ UNCHANGED <<assignedIDValues, assignedIDREFValues>>
      BY <1>10 DEF vars
    <2>2. (\A o : Value(o)' = Value(o)) /\ (\A o : (Met(o))' <=> Met(o))
      BY <2>1, SameDocument DEF Value, Met
    <2>3. MetOccurrences' = MetOccurrences
      BY <2>1, <2>2, SameDocument DEF MetOccurrences
    <2>4. AttributesHold' <=> AttributesHold
      BY <2>1, <2>2, SameDocument DEF AttributesHold
    <2>5. ElementsHold' <=> ElementsHold
      BY <2>1, SameDocument DEF ElementsHold
    <2>6. IdentifiersRecorded' <=> IdentifiersRecorded
      BY <2>1, <2>3, SameDocument DEF IdentifiersRecorded
    <2>7. AcceptedMeansValid' /\ RejectedMeansInvalid'
      BY <2>1, SameValidity, SameDocument DEF WalkInv, AcceptedMeansValid, RejectedMeansInvalid
    <2>8. QED
      BY <1>1, <2>1, <2>4, <2>5, <2>6, <2>7 DEF WalkInv, WalkHolds, NothingMet
  <1>11. QED
    BY <1>3, <1>4, <1>5, <1>6, <1>7, <1>8, <1>9, <1>10 DEF Next, Walk

(* validate() accepts only valid documents.                                *)
THEOREM AcceptedCorrect == ASSUME Decidable PROVE Spec => []AcceptedMeansValid
  <1>1. WalkInv /\ [Next]_vars => WalkInv'
    BY NextWalk
  <1>2. WalkInv => AcceptedMeansValid
    BY DEF WalkInv
  <1>3. QED
    BY <1>1, <1>2, InitWalk, PTL DEF Spec

(* validate() rejects only invalid documents.                              *)
THEOREM RejectedCorrect == ASSUME Decidable PROVE Spec => []RejectedMeansInvalid
  <1>1. WalkInv /\ [Next]_vars => WalkInv'
    BY NextWalk
  <1>2. WalkInv => RejectedMeansInvalid
    BY DEF WalkInv
  <1>3. QED
    BY <1>1, <1>2, InitWalk, PTL DEF Spec

(* A walk adds declared values where the document has none, and changes    *)
(* nothing else.                                                           *)
THEOREM DefaultsCorrect == Spec => OnlyDefaultsAdded
  <1> DEFINE P == phase = "walk" =>
        \A n \in DOMAIN attrs, a \in AttributeNames :
          attrs'[n][a] # attrs[n][a] =>
            /\ attrs[n][a] = NoValue
            /\ \E i \in DOMAIN Attributes(doc[n].name) :
                 /\ Attributes(doc[n].name)[i].name = a
                 /\ Attributes(doc[n].name)[i].value = attrs'[n][a]
  <1>1. ASSUME TypeInv, Next PROVE P
    <2> SUFFICES ASSUME phase = "walk", NEW n \in DOMAIN attrs, NEW a \in AttributeNames,
                        attrs'[n][a] # attrs[n][a]
                 PROVE  /\ attrs[n][a] = NoValue
                        /\ \E i \in DOMAIN Attributes(doc[n].name) :
                             /\ Attributes(doc[n].name)[i].name = a
                             /\ Attributes(doc[n].name)[i].value = attrs'[n][a]
      OBVIOUS
    <2> DEFINE d == Attributes(doc[node].name)[attribute]
               v == attrs[node][d.name]
    <2>1. CheckAttribute
      BY <1>1 DEF Next, Walk, ParseElement, ParseAttributeList, ParseContent, ParseAgain, ClientSets,
         Validate, CheckElement, NextNode, CheckReferences
    <2>2. attribute \in DOMAIN Attributes(doc[node].name) /\ node \in DOMAIN attrs
      BY <1>1, <2>1, DocumentsHaveRoots DEF CheckAttribute, TypeInv, TypeOK, WalkInDocument, Trees
    <2>3. attrs' = [attrs EXCEPT ![node][d.name] = IF v = NoValue /\ UseHolds(d, v) THEN d.value ELSE v]
      BY <2>1 DEF CheckAttribute, AddDefault
    <2>4. attrs \in Trees
      BY <1>1 DEF TypeInv, TypeOK
    <2>5. n = node /\ a = d.name
      <3> HIDE DEF d, v
      <3>1. n = node
        BY <2>3, <2>4 DEF Trees
      <3>2. QED
        BY <2>3, <2>4, <3>1 DEF Trees
    <2>6. attrs'[n][a] = IF v = NoValue /\ UseHolds(d, v) THEN d.value ELSE v
      <3> HIDE DEF d, v
      <3>1. QED
        BY <2>2, <2>3, <2>4, <2>5 DEF Trees
    <2>7. QED
      BY <2>2, <2>5, <2>6
  <1>2. TypeInv /\ [Next]_vars => [P]_vars
    BY <1>1
  <1>3. QED
    BY <1>2, TypeInvariant, PTL DEF Spec, OnlyDefaultsAdded

=============================================================================
