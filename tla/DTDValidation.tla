--------------------------- MODULE DTDValidation ---------------------------
(***************************************************************************)
(* Validation of a document against the DTD embedded in it (DTD_Impl): the *)
(* attribute lists the DTD declares, the walk over the elements in         *)
(* document order, the two sets of identifiers the walk fills, and the     *)
(* defaults it writes into the tree it validates.                          *)
(*                                                                         *)
(* DTD_Impl lives as long as the parsed document, so validate() can be     *)
(* called again, after the client has changed an attribute through         *)
(* Element::operator[] or addAttribute.                                    *)
(***************************************************************************)
EXTENDS ContentModel, SequencesExt

CONSTANTS
  AttributeNames,  \* names of attributes
  Tokens,          \* the words attribute values are made of
  NameTokens,      \* those that are XML names
  NmTokens,        \* those of name characters
  EntityNames,     \* those that the entity mapper knows
  Notations,       \* those that the DTD declares as notations
  Values,          \* attribute values: sequences of words, <<>> the empty value
  NoValue,         \* an attribute the element does not have
  Contents,        \* what ELEMENTs can say: pairs of an element and a specification
  Attlists,        \* what ATTLISTs can say: pairs of an element and an attribute
  Doctype,         \* the name after <!DOCTYPE
  Documents,       \* element trees in document order, see Shapes
  Redeclare,       \* whether an ATTLIST names an attribute twice
  MaxDeclarations, \* bound: declarations of elements and attributes in the DTD
  MaxCalls,        \* bound: calls of validate() on one document
  MaxEdits         \* bound: attributes the client changes

Types == {"cdata", "enumeration", "id", "idref", "idrefs", "nmtoken", "nmtokens",
          "entity", "entities", "notation"}
Uses  == {"normal", "required", "implied", "fixed"}

(* An element of the document: its tag, whether it is the <root>, an      *)
(* element with content or a self-closing one, the position of the element *)
(* it stands in, and the text it begins with.                              *)
Shapes == [name : ElementNames, kind : {"root", "element", "self"}, parent : Nat,
           text : {"none", "space", "characters"}]

ASSUME ValuesAreWords ==
  /\ NameTokens \subseteq NmTokens /\ NmTokens \cup EntityNames \cup Notations \subseteq Tokens
  /\ Values \subseteq Seq(Tokens) /\ <<>> \in Values /\ NoValue \notin Values
  /\ \A v \in Values : \A i \in DOMAIN v : v[i] \in NameTokens => <<v[i]>> \in Values

AttributeDeclarations == [name : AttributeNames, type : Types, use : Uses,
                          value : Values, enumeration : Seq(Tokens)]

ASSUME ContentsDeclareElements ==
  \A c \in Contents : c = <<c[1], c[2]>> /\ c[1] \in ElementNames

ASSUME AttlistsDeclareAttributes == Attlists \subseteq ElementNames \X AttributeDeclarations

ASSUME DocumentsHaveRoots ==
  /\ Documents \subseteq Seq(Shapes)
  /\ \A d \in Documents :
       /\ Len(d) > 0 /\ d[1].kind # "element" /\ d[1].parent = 0
       /\ \A n \in 2..Len(d) : /\ d[n].kind # "root" /\ d[n].parent \in 1..n - 1
                               /\ d[d[n].parent].kind # "self"
       /\ \A n \in DOMAIN d : d[n].kind = "self" => d[n].text = "none"

ASSUME BoundsAreNumbers ==
  Redeclare \in BOOLEAN /\ {MaxDeclarations, MaxCalls, MaxEdits} \subseteq Nat

VARIABLES
  phase,               \* "dtd", "idle", "walk" or "references"
  elements,            \* the declared elements and their attributes
  doc,                 \* the element nodes
  attrs,               \* the attributes of each of them
  assignedIDValues,    \* ID values the validator has seen
  assignedIDREFValues, \* IDREF values the validator has seen
  node, attribute,     \* where the walk is; attribute 0: the element itself
  result,              \* how the last validate() ended
  given,               \* history: attrs without what the validator added
  calls, edits         \* history: counted against the bounds

vars == <<phase, elements, doc, attrs, assignedIDValues, assignedIDREFValues,
          node, attribute, result, given, calls, edits>>

Attributes(e) == elements[e].attributes
Declares(e, a) ==
  e \in DOMAIN elements /\ \E i \in DOMAIN Attributes(e) : Attributes(e)[i].name = a
Declarations == UNION {{e} \X (0..Len(Attributes(e))) : e \in DOMAIN elements}
IdAttributePresent(e) == \E i \in DOMAIN Attributes(e) : Attributes(e)[i].type = "id"

-----------------------------------------------------------------------------
(* Tests on one value. *)

IsIDOK(v) == v # <<>> /\ v[1] \in NameTokens
IsOneOf(v, S) == Len(v) = 1 /\ v[1] \in S

TypeHolds(d, v) ==
  CASE d.type = "cdata"                       -> v # <<>>
    [] d.type \in {"id", "idref"}             -> IsIDOK(v)
    [] d.type = "idrefs"                      -> \A i \in DOMAIN v : v[i] \in NameTokens
    [] d.type = "nmtoken"                     -> IsOneOf(v, NmTokens)
    [] d.type = "nmtokens"                    -> \A i \in DOMAIN v : v[i] \in NmTokens
    [] d.type = "entity"                      -> IsOneOf(v, EntityNames)
    [] d.type = "entities"                    -> \A i \in DOMAIN v : v[i] \in EntityNames
    [] d.type \in {"notation", "enumeration"} -> IsOneOf(v, ToSet(d.enumeration))

UseHolds(d, v) ==
  /\ d.use = "required" => v # NoValue
  /\ d.use = "fixed"    => v \in {NoValue, d.value}

(* parseValidateAttribute and parseValidNotations *)
Declarable(e, d) ==
  /\ ~(d.type = "id" /\ d.use = "fixed")
  /\ d.type = "id" => ~IdAttributePresent(e)
  /\ d.type = "enumeration" /\ d.use = "normal" =>
       IsInjective(d.enumeration) /\ IsOneOf(d.value, ToSet(d.enumeration))
  /\ d.type = "notation" => ToSet(d.enumeration) \subseteq Notations

-----------------------------------------------------------------------------
Init ==
  /\ assignedIDValues = {} /\ assignedIDREFValues = {}
  /\ phase = "dtd" /\ elements = <<>>
  /\ doc = <<>> /\ attrs = <<>> /\ given = <<>>
  /\ node = 1 /\ attribute = 0
  /\ result = "none" /\ calls = 0 /\ edits = 0

(* <!ELEMENT e s>: the first declaration of an element stays; an illegal   *)
(* declaration ends the parse, and the client starts over.                 *)
ParseElement(e, s) ==
  /\ phase = "dtd" /\ Cardinality(Declarations) < MaxDeclarations
  /\ LET parsed == ParseSpecification(s)
         new == [unparsed |-> s, parsed |-> parsed, attributes |-> <<>>]
     IN elements' = IF parsed.form = "error" THEN <<>>
                    ELSE [f \in DOMAIN elements \cup {e} |->
                            IF f \in DOMAIN elements THEN elements[f] ELSE new]
  /\ UNCHANGED <<phase, doc, attrs, assignedIDValues, assignedIDREFValues, node,
                 attribute, result, given, calls, edits>>

(* <!ATTLIST e d> *)
ParseAttributeList(e, d) ==
  /\ phase = "dtd" /\ e \in DOMAIN elements
  /\ Cardinality(Declarations) < MaxDeclarations
  /\ Redeclare \/ \A i \in DOMAIN Attributes(e) : Attributes(e)[i].name # d.name
  /\ elements' = IF Declarable(e, d)
                 THEN [elements EXCEPT ![e].attributes = Append(@, d)]
                 ELSE <<>>
  /\ UNCHANGED <<phase, doc, attrs, assignedIDValues, assignedIDREFValues, node,
                 attribute, result, given, calls, edits>>

(* Attributes that no ATTLIST declares are left out of the documents:      *)
(* validation never looks at them.                                         *)
Slots(document) ==
  {s \in (DOMAIN document) \X AttributeNames : Declares(document[s[1]].name, s[2])}
Tree(document, text) ==
  [n \in DOMAIN document |->
     [a \in AttributeNames |-> IF <<n, a>> \in DOMAIN text THEN text[<<n, a>>] ELSE NoValue]]

ParseContent(document, text) ==
  /\ phase = "dtd" /\ phase' = "idle"
  /\ doc' = document
  /\ attrs' = Tree(document, text) /\ given' = Tree(document, text)
  /\ UNCHANGED <<elements, assignedIDValues, assignedIDREFValues, node, attribute,
                 result, calls, edits>>

(* Another parse makes another DTD node and another validator. *)
ParseAgain ==
  /\ phase = "idle" /\ calls > 0
  /\ assignedIDValues' = {} /\ assignedIDREFValues' = {}
  /\ phase' = "dtd" /\ elements' = <<>>
  /\ doc' = <<>> /\ attrs' = <<>> /\ given' = <<>>
  /\ node' = 1 /\ attribute' = 0
  /\ result' = "none" /\ calls' = 0 /\ edits' = 0

ClientSets(n, a, v) ==
  /\ phase = "idle" /\ calls > 0 /\ edits < MaxEdits
  /\ Declares(doc[n].name, a)
  /\ attrs' = [attrs EXCEPT ![n][a] = v] /\ given' = [given EXCEPT ![n][a] = v]
  /\ result' = "none" /\ edits' = edits + 1
  /\ UNCHANGED <<phase, elements, doc, assignedIDValues, assignedIDREFValues, node,
                 attribute, calls>>

-----------------------------------------------------------------------------
Validate ==
  /\ phase = "idle" /\ calls < MaxCalls
  /\ phase' = "walk" /\ node' = 1 /\ attribute' = 0
  /\ calls' = calls + 1 /\ result' = "none"
  /\ UNCHANGED <<elements, doc, attrs, given, assignedIDValues, assignedIDREFValues,
                 edits>>

(* ValidationError, or the Error of DTD::getElement: what was done stays. *)
Reject == phase' = "idle" /\ result' = "rejected" /\ UNCHANGED <<node, attribute>>

(* The children of an element that content specifications speak of. *)
ChildElements(n) == {m \in DOMAIN doc : doc[m].parent = n}
ChildTags(document, n) ==
  LET kids == SetToSortSeq({m \in DOMAIN document : document[m].parent = n}, <)
      tags == [i \in DOMAIN kids |-> document[kids[i]].name]
  IN IF document[n].text = "characters" THEN <<"#PCDATA">> \o tags ELSE tags
Children(n) == ChildTags(doc, n)

IsPCDATA(n) == (\A m \in ChildElements(n) : doc[m].kind # "element") /\ doc[n].text # "none"
IsEMPTY(n) == (ChildElements(n) = {} /\ doc[n].text = "none") \/ doc[n].kind = "self"

ContentHolds(n) ==
  LET parsed == elements[doc[n].name].parsed
  IN CASE parsed.form = "PCDATA" -> IsPCDATA(n)
       [] parsed.form = "EMPTY"  -> IsEMPTY(n)
       [] parsed.form = "ANY"    -> TRUE
       [] parsed.form = "regex"  -> Children(n) \in parsed.language

ElementHolds(n) ==
  /\ doc[n].kind = "root" => doc[n].name = Doctype
  /\ doc[n].name \in DOMAIN elements
  /\ ContentHolds(n)

CheckElement ==
  /\ phase = "walk" /\ attribute = 0
  /\ \/ ElementHolds(node) /\ attribute' = 1 /\ UNCHANGED <<phase, node, result>>
     \/ ~ElementHolds(node) /\ Reject
  /\ UNCHANGED <<elements, doc, attrs, assignedIDValues, assignedIDREFValues, given,
                 calls, edits>>

(* Variants of the definitions below that the properties must tell apart.  *)
AttributeTypeAlways(d, v) ==
  v # NoValue /\ TypeHolds(d, v) /\ (d.type = "id" => v \notin assignedIDValues)
AddDefaultAlways(d, v) == attrs' = [attrs EXCEPT ![node][d.name] = d.value]
PastLastNode == node > Len(doc)

(* checkAttributeType runs only for an attribute that the element has. *)
AttributeTypeHolds(d, v) ==
  v # NoValue => TypeHolds(d, v) /\ (d.type = "id" => v \notin assignedIDValues)

RecordID(d, v) ==
  assignedIDValues' = assignedIDValues \cup
                      {w \in {v} : d.type = "id" /\ v # NoValue /\ IsIDOK(v)}

(* The references of a list are recorded up to the first invalid one. *)
ReferencesOf(d, v) ==
  IF v = NoValue THEN {}
  ELSE CASE d.type = "idref"  -> {w \in {v} : IsIDOK(v)}
         [] d.type = "idrefs" -> {<<v[i]>> : i \in {j \in DOMAIN v :
                                    \A k \in 1..j : v[k] \in NameTokens}}
         [] OTHER             -> {}

RecordIDREFAlone(d, v) ==
  assignedIDREFValues' = assignedIDREFValues \cup
                         {w \in ReferencesOf(d, v) : d.type = "idref"}

RecordIDREF(d, v) ==
  assignedIDREFValues' = assignedIDREFValues \cup ReferencesOf(d, v)

(* An absent attribute gets the declared value, which is empty when the    *)
(* declaration has none; one that is required ends the walk before that.   *)
AddDefault(d, v) ==
  attrs' = [attrs EXCEPT ![node][d.name] =
              IF v = NoValue /\ UseHolds(d, v) THEN d.value ELSE v]

CheckAttribute ==
  /\ phase = "walk" /\ attribute > 0 /\ attribute \in DOMAIN Attributes(doc[node].name)
  /\ LET d == Attributes(doc[node].name)[attribute]
         v == attrs[node][d.name]
     IN /\ \/ /\ AttributeTypeHolds(d, v) /\ UseHolds(d, v)
              /\ attribute' = attribute + 1 /\ UNCHANGED <<phase, node, result>>
           \/ ~(AttributeTypeHolds(d, v) /\ UseHolds(d, v)) /\ Reject
        /\ RecordID(d, v)
        /\ RecordIDREF(d, v)
        /\ AddDefault(d, v)
  /\ UNCHANGED <<elements, doc, given, calls, edits>>

LastNode == node = Len(doc)

NextNode ==
  /\ phase = "walk" /\ attribute > 0 /\ attribute \notin DOMAIN Attributes(doc[node].name)
  /\ attribute' = 0
  /\ IF LastNode THEN phase' = "references" /\ node' = node
                 ELSE phase' = phase /\ node' = node + 1
  /\ UNCHANGED <<elements, doc, attrs, assignedIDValues, assignedIDREFValues, result,
                 given, calls, edits>>

CheckReferences ==
  /\ phase = "references"
  /\ \/ /\ assignedIDREFValues \subseteq assignedIDValues
        /\ phase' = "idle" /\ result' = "accepted" /\ UNCHANGED <<node, attribute>>
     \/ ~(assignedIDREFValues \subseteq assignedIDValues) /\ Reject
  /\ UNCHANGED <<elements, doc, attrs, assignedIDValues, assignedIDREFValues, given,
                 calls, edits>>

Walk == CheckElement \/ CheckAttribute \/ NextNode \/ CheckReferences

Next ==
  \/ \E c \in Contents : ParseElement(c[1], c[2])
  \/ \E l \in Attlists : ParseAttributeList(l[1], l[2])
  \/ \E document \in Documents :
       \E text \in [Slots(document) -> Values \cup {NoValue}] : ParseContent(document, text)
  \/ ParseAgain
  \/ \E n \in DOMAIN doc, a \in AttributeNames, v \in Values : ClientSets(n, a, v)
  \/ Validate
  \/ Walk

Spec == Init /\ [][Next]_vars

-----------------------------------------------------------------------------
Trees == [1..Len(doc) -> [AttributeNames -> Values \cup {NoValue}]]

(* The walk stays inside the document, and the validator knows only values *)
(* that some attribute had when it met them.                               *)
TypeOK ==
  /\ phase \in {"dtd", "idle", "walk", "references"}
  /\ DOMAIN elements \subseteq ElementNames
  /\ \A e \in DOMAIN elements :
       /\ <<e, elements[e].unparsed>> \in Contents
       /\ Attributes(e) \in Seq({l[2] : l \in Attlists})
  /\ doc \in Documents \cup {<<>>} /\ attrs \in Trees
  /\ given \in Trees
  /\ assignedIDValues \subseteq Values /\ assignedIDREFValues \subseteq Values
  /\ phase \in {"walk", "references"} => node \in DOMAIN doc
  /\ attribute \in Nat
  /\ result \in {"none", "accepted", "rejected"}
  /\ calls \in 0..MaxCalls /\ edits \in 0..MaxEdits

(* The attributes that the declarations speak of: element and position.    *)
Occurrences ==
  UNION {{n} \X (DOMAIN Attributes(doc[n].name)) :
           n \in {m \in DOMAIN doc : doc[m].name \in DOMAIN elements}}
Declaration(o) == Attributes(doc[o[1]].name)[o[2]]
Given(o) == given[o[1]][Declaration(o).name]
HasType(o, types) == Declaration(o).type \in types /\ Given(o) # NoValue

IDs == {Given(o) : o \in {p \in Occurrences : HasType(p, {"id"})}}
IDREFs == UNION {ReferencesOf(Declaration(o), Given(o)) : o \in Occurrences}

(* What the children of a declared element may be: (#PCDATA) asks for text *)
(* and no elements, and text that is white space counts nowhere else.      *)
Conforms(n) ==
  LET s == elements[doc[n].name].unparsed
  IN CASE s = <<"EMPTY">> -> ChildElements(n) = {} /\ doc[n].text = "none"
       [] s = <<"ANY">>   -> TRUE
       [] s = <<"(", "#PCDATA", ")">> -> ChildElements(n) = {} /\ doc[n].text # "none"
       [] OTHER           -> Children(n) \in Denoted(s)

(* A document is valid as it was given to validate(): whole-tree           *)
(* conditions, with no regard to the order in which the walk meets things. *)
ValidAsGiven ==
  /\ doc[1].kind = "root" => doc[1].name = Doctype
  /\ \A n \in DOMAIN doc : doc[n].name \in DOMAIN elements /\ Conforms(n)
  /\ \A o \in Occurrences : UseHolds(Declaration(o), Given(o))
  /\ \A o \in Occurrences : Given(o) # NoValue => TypeHolds(Declaration(o), Given(o))
  /\ \A o, p \in Occurrences :
       o # p /\ HasType(o, {"id"}) /\ HasType(p, {"id"}) => Given(o) # Given(p)
  /\ IDREFs \subseteq IDs

(* What validate() accepts is valid, and has every attribute its DTD       *)
(* declares: the two sets that the walk fills step by step decide the same *)
(* as the conditions on the whole tree (checkAttributeType,                *)
(* checkAgainstDTD).                                                       *)
AcceptedMeansValid ==
  result = "accepted" =>
    /\ ValidAsGiven
    /\ \A o \in Occurrences : attrs[o[1]][Declaration(o).name] # NoValue

(* validate() rejects only what is not valid: "throws if validation        *)
(* fails" (XML::validate).                                                 *)
RejectedMeansInvalid == result = "rejected" => ~ValidAsGiven

(* Whatever the walk does to the tree before it ends or fails, it changes  *)
(* no attribute that the document has, and what it adds is what the        *)
(* declarations of that element say (checkAttributeValue).                 *)
OnlyDefaultsAdded ==
  [][ phase = "walk" =>
        \A n \in DOMAIN attrs, a \in AttributeNames :
          attrs'[n][a] # attrs[n][a] =>
            /\ attrs[n][a] = NoValue
            /\ \E i \in DOMAIN Attributes(doc[n].name) :
                 /\ Attributes(doc[n].name)[i].name = a
                 /\ Attributes(doc[n].name)[i].value = attrs'[n][a] ]_vars

(* Content specifications whose translation matches what they denote: the  *)
(* text after (#PCDATA) is nothing, and the regular expression is that of  *)
(* the nesting of the parentheses.                                         *)
SpecificationsDenoted ==
  \A c \in Contents :
    LET parsed == ParseSpecification(c[2])
    IN /\ parsed.form = "PCDATA" => c[2] = <<"(", "#PCDATA", ")">>
       /\ parsed.form = "regex" => parsed.language = Denoted(c[2])

(* No self-closing element stands where (#PCDATA) is declared: the code    *)
(* takes it for text.                                                      *)
TextStandsAlone ==
  \A c \in Contents, d \in Documents :
    c[2] = <<"(", "#PCDATA", ")">> =>
      \A n, m \in DOMAIN d : d[n].name = c[1] /\ d[m].parent = n => d[m].kind # "self"

(* The circumstances under which validate() decides validity: one call for *)
(* a parsed document, attributes declared once, and specifications that    *)
(* the code reads as they are written.  Without one of them the document   *)
(* that is accepted need not be valid, or a valid one is rejected.         *)
Decidable == MaxCalls <= 1 /\ Redeclare = FALSE /\ SpecificationsDenoted /\ TextStandsAlone

(* The element named after <!DOCTYPE is the root of what is accepted.      *)
RootNameMatches == result = "accepted" => doc[1].name = Doctype
=============================================================================
