---------------------------- MODULE TreeBuilder ----------------------------
(***************************************************************************)
(* The recursive descent of Default_Parser through a document and the tree  *)
(* it builds; then calls of the client on that tree.                       *)
(*                                                                         *)
(* The first node is the prolog, the parent of the root and of what comes  *)
(* before and after it; the XML declaration and the DTD are left out.      *)
(* The text is a sequence of tokens.  A tag is a prefix and a name;        *)
(* attributes are tags too, and one with the prefix "xmlns" declares the    *)
(* prefix that is its name.  calls is the stack of parseElement, with the   *)
(* element, and of parseEntityReferenceXML, with the node that receives    *)
(* the text of the entity and the rest of the text around the reference.   *)
(***************************************************************************)
EXTENDS ElementTree

CONSTANTS
    Documents,      \* pairs of a set of texts and the calls of the client on each
    Replacement,    \* the texts of the declared entities, by name
    MaxAttributes   \* ParseOptions::maxAttributeCount

\* The tokens of a text.
AnyToken ==
    [kind : {"char", "charref"}, char : Characters] \union [kind : {"ref"}, name : Names]
    \union [kind : {"cdata"}, text : Seq(Characters)] \union [kind : {"comment"}]
    \union [kind : {"start", "empty"}, tag : Tags, attributes : Seq(Tags)]
    \union [kind : {"end"}, tag : Tags]

ASSUME DocumentsAssumption ==
    \A family \in Documents : family.texts \subseteq Seq(AnyToken) /\ family.calls \in Nat

\* An entity with an empty text is not replaced: see Entities.
ASSUME ReplacementAssumption ==
    \A name \in DOMAIN Replacement : Replacement[name] \in Seq(AnyToken) \ {<<>>}

VARIABLES
    document,   \* the text that is parsed
    budget,     \* the calls the client may still make: a bound
    phase,      \* "parsing", "parsed" or "error"
    input,      \* the rest of the text at hand
    calls       \* the calls in progress, the innermost last

vars == <<nodes, edited, grown, document, budget, phase, input, calls>>

-----------------------------------------------------------------------------
(* Tokens *)

Char(char) == [kind |-> "char", char |-> char]
CharRef(char) == [kind |-> "charref", char |-> char]
Ref(name) == [kind |-> "ref", name |-> name]
CData(text) == [kind |-> "cdata", text |-> text]
Comment == [kind |-> "comment"]
Start(tag, attributes) == [kind |-> "start", tag |-> tag, attributes |-> attributes]
Empty(tag, attributes) == [kind |-> "empty", tag |-> tag, attributes |-> attributes]
End(tag) == [kind |-> "end", tag |-> tag]

\* The tokens that begin with '<'.
Markup == {"start", "empty", "end", "cdata", "comment"}

DeclaredBy(attributes) ==
    {attributes[i][2] : i \in {i \in DOMAIN attributes : attributes[i][1] = "xmlns"}}

\* The prefixes a tag and its attributes use, declarations aside; "" is none.
UsedBy(token) ==
    LET ofAttributes == {token.attributes[i][1] : i \in DOMAIN token.attributes}
    IN  ({token.tag[1]} \union (ofAttributes \ {"xmlns"})) \ {""}

Distinct(attributes) == IsInjective(attributes)

-----------------------------------------------------------------------------
(* Calls *)

Call(kind, node, rest) == [kind |-> kind, node |-> node, rest |-> rest]

Parsing == phase = "parsing" /\ input # <<>>
Token == Head(input)
Target == IF calls = <<>> THEN 1 ELSE Last(calls).node

\* Between the nodes of the prolog, or in the root.
AtTop == calls = <<>>
Within == ~AtTop /\ Parsing
HasRoot == \E i \in DOMAIN nodes : nodes[i].kind = "element"

Consume == input' = Tail(input)

ParseOnly == UNCHANGED <<edited, grown, document, budget>>

\* Fault: the node of a reference takes elements.
TakesElementsAnywhere == AtTop => ~HasRoot

\* The prolog takes one root.  Elsewhere the namespaces of the element that
\* receives a child are asked for; an entity reference is not an element, and
\* NRef<Element> throws.
TakesElements == IF AtTop THEN ~HasRoot ELSE nodes[Target].kind = "element"
Scope == nodes[Target].prefixes

-----------------------------------------------------------------------------
(* Tags *)

LegalAttributes(token) ==
    Distinct(token.attributes) /\ Len(token.attributes) <= MaxAttributes

NewElement(token) ==
    MakeElement(Target, token.tag, Scope \union DeclaredBy(token.attributes))

\* Fault: an element may use the prefixes of the elements around it only.
BoundAround(element, token) == ~AtTop => UsedBy(token) \subseteq Scope

\* parseElementInternal checks the prefixes of the child that parseElement has
\* returned; the root has no such caller.
Bound(element, token) == ~AtTop => UsedBy(token) \subseteq element.prefixes

\* Fault: the end tag of any open element will do.
ClosesAny(token) == \E i \in DOMAIN calls : nodes[calls[i].node].tag = token.tag

\* An end tag closes the element whose content is parsed, not one around an
\* entity.
Closes(token) == Last(calls).kind = "element" /\ nodes[Target].tag = token.tag

StartTag ==
    /\ Parsing /\ Token.kind = "start" /\ TakesElements /\ LegalAttributes(Token)
    /\ Bound(NewElement(Token), Token)
    /\ nodes' = Append(nodes, NewElement(Token))
    /\ calls' = Append(calls, Call("element", Len(nodes) + 1, <<>>))
    /\ Consume
    /\ UNCHANGED phase /\ ParseOnly

\* An element that closes itself.
EmptyTag ==
    /\ Parsing /\ Token.kind = "empty" /\ TakesElements /\ LegalAttributes(Token)
    /\ Bound(NewElement(Token), Token)
    /\ nodes' = Append(nodes, NewElement(Token))
    /\ Consume
    /\ UNCHANGED <<phase, calls>> /\ ParseOnly

EndTag ==
    /\ Within /\ Token.kind = "end" /\ Closes(Token)
    /\ calls' = Front(calls)
    /\ Consume
    /\ UNCHANGED <<nodes, phase>> /\ ParseOnly

\* The end of the text, after the epilog.
EndOfDocument ==
    /\ phase = "parsing" /\ input = <<>> /\ AtTop /\ HasRoot
    /\ phase' = "parsed"
    /\ UNCHANGED <<nodes, input, calls>> /\ ParseOnly

-----------------------------------------------------------------------------
(* Content *)

\* Around the root there is only white space.
Character ==
    /\ Parsing /\ Token.kind = "char"
    /\ AtTop => Token.char \in White
    /\ nodes' = AddCharacter(Target, Token.char)
    /\ Consume
    /\ UNCHANGED <<phase, calls>> /\ ParseOnly

\* appendEntityOrContent keeps a character reference as a node.
CharacterReference ==
    /\ Within /\ Token.kind = "charref"
    /\ nodes' = Append(nodes, MakeNode("reference", Target, <<Token.char>>))
    /\ Consume
    /\ UNCHANGED <<phase, calls>> /\ ParseOnly

CDataSection ==
    /\ Within /\ Token.kind = "cdata"
    /\ nodes' = Append(MarkTrailing(Target, Len(nodes) + 1), MakeNode("cdata", Target, Token.text))
    /\ Consume
    /\ UNCHANGED <<phase, calls>> /\ ParseOnly

\* A comment; a processing instruction is treated alike.
CommentOrPI ==
    /\ Parsing /\ Token.kind = "comment"
    /\ nodes' = Append(nodes, MakeNode("comment", Target, <<>>))
    /\ Consume
    /\ UNCHANGED <<phase, calls>> /\ ParseOnly

-----------------------------------------------------------------------------
(* Entities *)

BeginsWithMarkup(text) == Head(text).kind \in Markup

\* A text that begins with '<' is parsed into the element; any other into the
\* node of the reference.
EntityReference ==
    /\ Within /\ Token.kind = "ref" /\ Token.name \in DOMAIN Replacement
    /\ LET text == Replacement[Token.name]
           own == ~BeginsWithMarkup(text)
       IN  /\ nodes' = IF own THEN Append(nodes, MakeNode("reference", Target, <<>>)) ELSE nodes
           /\ calls' = Append(calls, Call("entity", IF own THEN Len(nodes) + 1 ELSE Target, Tail(input)))
           /\ input' = text
    /\ UNCHANGED phase /\ ParseOnly

EndOfEntity ==
    /\ phase = "parsing" /\ input = <<>> /\ ~AtTop /\ Last(calls).kind = "entity"
    /\ LET receiver == calls[Len(calls) - 1].node
       IN  nodes' = IF Target = receiver THEN nodes ELSE MarkTrailing(receiver, Target)
    /\ input' = Last(calls).rest
    /\ calls' = Front(calls)
    /\ UNCHANGED phase /\ ParseOnly

-----------------------------------------------------------------------------
(* Errors *)

RefusedElement(token) ==
    ~TakesElements \/ ~LegalAttributes(token) \/ ~Bound(NewElement(token), token)

RefusedAtTop(token) ==
    \/ token.kind \in {"end", "charref", "cdata", "ref"}
    \/ token.kind = "char" /\ token.char \notin White

Refused ==
    CASE input = <<>> -> IF AtTop THEN ~HasRoot ELSE Last(calls).kind = "element"
      [] Parsing /\ Token.kind \in {"start", "empty"} -> RefusedElement(Token)
      [] Within /\ Token.kind = "end" -> ~Closes(Token)
      [] Within /\ Token.kind = "ref" -> Token.name \notin DOMAIN Replacement
      [] Parsing /\ AtTop /\ Token.kind \notin {"start", "empty"} -> RefusedAtTop(Token)
      [] OTHER -> FALSE

\* An exception: the tree is destroyed.
Reject ==
    /\ phase = "parsing" /\ Refused
    /\ phase' = "error" /\ nodes' = <<>> /\ calls' = <<>>
    /\ UNCHANGED input /\ ParseOnly

-----------------------------------------------------------------------------
(* The client *)

ClientCall ==
    /\ phase = "parsed" /\ budget > 0
    /\ budget' = budget - 1
    /\ \E i \in DOMAIN nodes :
          \/ GetContents(i) \/ RemoveLastChild(i)
          \/ \E char \in Characters : AddChild(i, char) \/ AddContent(i, char)
    /\ UNCHANGED <<document, phase, input, calls>>

Init ==
    /\ \E family \in Documents :
          document \in family.texts /\ budget = family.calls
    /\ nodes = <<MakeNode("prolog", 0, <<>>)>> /\ edited = {} /\ grown = {}
    /\ phase = "parsing" /\ input = document /\ calls = <<>>

Next ==
    \/ StartTag \/ EmptyTag \/ EndTag \/ EndOfDocument
    \/ Character \/ CharacterReference \/ CDataSection \/ CommentOrPI
    \/ EntityReference \/ EndOfEntity
    \/ Reject \/ ClientCall

Spec == Init /\ [][Next]_vars

-----------------------------------------------------------------------------
\* Parents come before their children, only the prolog, elements and references
\* have any, an element stands in the prolog or an element and keeps the prefixes
\* of it.
Placed(i) ==
    /\ nodes[i].parent \in {Detached} \union 0 .. i - 1
    /\ nodes[i].parent = 0 <=> i = 1
    /\ nodes[i].kind = "prolog" <=> i = 1
    /\ nodes[i].parent > 0 => nodes[nodes[i].parent].kind \in {"prolog", "element", "reference"}
    /\ nodes[i].kind = "element" /\ nodes[i].parent > 0 =>
          /\ nodes[nodes[i].parent].kind \in {"prolog", "element"}
          /\ nodes[nodes[i].parent].prefixes \subseteq nodes[i].prefixes

\* Each node is placed, and each call in progress has a node that can receive
\* what it reads.
TypeOK ==
    /\ phase \in {"parsing", "parsed", "error"} /\ budget \in Nat
    /\ nodes \in Seq(Node) /\ input \in Seq(AnyToken)
    /\ calls \in Seq([kind : {"element", "entity"}, node : DOMAIN nodes, rest : Seq(AnyToken)])
    /\ \A i \in DOMAIN nodes : Placed(i)
    /\ \A k \in DOMAIN calls :
          calls[k].kind = "element" => nodes[calls[k].node].kind = "element"
    /\ edited \union grown \subseteq DOMAIN nodes

\* Until the client edits it, a content is marked as white space just when it
\* has no other character and stands beside no CDATA section and no text of an
\* entity, and after no reference (addContentToElementChildList,
\* markTrailingContentNonWhitespace).  What is marked does not count as content
\* when the DTD is checked.
WhiteSpaceMarked ==
    phase = "parsed" /\ edited = {} /\ grown = {} =>
        \A i \in DOMAIN nodes : nodes[i].kind = "content" => (nodes[i].white <=> MarkedWhite(i))
=============================================================================
