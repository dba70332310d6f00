---------------------------- MODULE ElementTree ----------------------------
(***************************************************************************)
(* The nodes of a document: their order, their text, the white-space mark   *)
(* of a Content, and the contents that an Element keeps once it was asked   *)
(* for them (Variant, Element, Content, CDATA, EntityReference).            *)
(*                                                                         *)
(* A node is a record in nodes, with the index of its parent: 0 for the    *)
(* first, Detached once it was removed.  Siblings are in the order of their  *)
(* indices, as addChild appends.  A text is a sequence of characters.      *)
(***************************************************************************)
EXTENDS SequencesExt, Integers

CONSTANTS
    Characters, \* the characters of a document
    White,      \* those that are white space
    Names,      \* prefixes and local names, "" for no prefix
    MaxNodes    \* bound on the nodes of a tree that the client adds to

ASSUME WhiteAssumption == White \subseteq Characters

VARIABLES
    nodes,      \* the tree
    edited,     \* nodes whose text was changed, or that lost a child
    grown       \* nodes that were given a child after the parse

tree == <<nodes, edited, grown>>

Detached == -1
Unfilled == -1

Tags == Names \X Names

Kinds == {"prolog", "element", "content", "reference", "cdata", "comment"}

Node == [kind : Kinds, parent : {Detached} \union Nat, text : Seq(Characters), white : BOOLEAN,
         tag : {<<>>} \union Tags, prefixes : SUBSET Names,
         count : {Unfilled} \union Nat, cached : Seq(Characters)]

MakeNode(kind, parent, text) ==
    [kind |-> kind, parent |-> parent, text |-> text, white |-> FALSE,
     tag |-> <<>>, prefixes |-> {}, count |-> Unfilled, cached |-> <<>>]

MakeElement(parent, tag, prefixes) ==
    [MakeNode("element", parent, <<>>) EXCEPT !.tag = tag, !.prefixes = prefixes]

MakeContent(parent, text, white) ==
    [MakeNode("content", parent, text) EXCEPT !.white = white]

ChildSet(i) == {j \in DOMAIN nodes : nodes[j].parent = i}

\* The members of a finite set of numbers in their order.
InOrder(S) ==
    [k \in 1 .. Cardinality(S) |-> CHOOSE n \in S : Cardinality({m \in S : m <= n}) = k]

Children(i) == InOrder(ChildSet(i))
LastChild(i) == Max(ChildSet(i))

IsWhite(text) == \A i \in DOMAIN text : text[i] \in White

-----------------------------------------------------------------------------
(* getContents *)

\* A node that answers with the contents of its children.
Inner(i) == nodes[i].kind = "element" \/ (nodes[i].kind = "reference" /\ ChildSet(i) # {})

\* The text below each node, where those in kept answer with what they keep.
Reading(kept) ==
    LET read[i \in DOMAIN nodes] ==
            IF i \in kept THEN nodes[i].cached
            ELSE IF Inner(i)
            THEN FlattenSeq([k \in DOMAIN Children(i) |-> read[Children(i)[k]]])
            ELSE nodes[i].text
    IN  read

\* The text below a node, read from the tree.
Contents == Reading({})

\* Fault: what was read once is never read again.
ServedEver(i) == nodes[i].kind = "element" /\ nodes[i].count # Unfilled

\* An element is served from its cache while the number of its children is
\* the one it had when the cache was filled.
Served(i) == nodes[i].kind = "element" /\ nodes[i].count = Cardinality(ChildSet(i))

\* What getContents returns.
Answer == Reading({i \in DOMAIN nodes : Served(i)})

\* The nodes that a call for node i asks, itself included.
Asked(i) ==
    LET asked[j \in DOMAIN nodes] ==
            \/ j = i
            \/ nodes[j].parent \in DOMAIN nodes /\ asked[nodes[j].parent] /\ ~Served(nodes[j].parent)
    IN  {j \in DOMAIN nodes : asked[j]}

Filled(i) ==
    [j \in DOMAIN nodes |->
        IF j \in Asked(i) /\ nodes[j].kind = "element"
        THEN [nodes[j] EXCEPT !.count = Cardinality(ChildSet(j)), !.cached = Answer[j]]
        ELSE nodes[j]]

-----------------------------------------------------------------------------
(* Text *)

\* Fault: the mark follows the last character.
AddCharacterUnmarked(parent, char) ==
    LET last == LastChild(parent)
        none == ChildSet(parent) = {}
        white == char \in White
    IN  IF none \/ nodes[last].kind # "content"
        THEN Append(nodes, MakeContent(parent, <<char>>, white))
        ELSE [nodes EXCEPT ![last].text = Append(@, char), ![last].white = white]

\* addContentToElementChildList: a character joins a content at the end of its
\* parent, or begins one.  The mark is taken back by any other character, and
\* is not given after a CDATA section or a reference.
AddCharacter(parent, char) ==
    LET last == LastChild(parent)
        none == ChildSet(parent) = {}
        white == char \in White
    IN  IF none \/ nodes[last].kind # "content"
        THEN Append(nodes, MakeContent(parent, <<char>>,
                white /\ (none \/ nodes[last].kind \notin {"cdata", "reference"})))
        ELSE [nodes EXCEPT ![last].text = Append(@, char), ![last].white = @ /\ white]

\* markTrailingContentNonWhitespace: the last child of parent before a limit.
MarkTrailing(parent, limit) ==
    LET before == {j \in ChildSet(parent) : j < limit}
    IN  IF before = {} \/ nodes[Max(before)].kind # "content" THEN nodes
        ELSE [nodes EXCEPT ![Max(before)].white = FALSE]

-----------------------------------------------------------------------------
(* Calls of the client on a parsed tree *)

Attached(i) == i \in DOMAIN nodes /\ nodes[i].parent # Detached

GetContents(i) ==
    /\ Attached(i) /\ nodes[i].kind = "element"
    /\ nodes' = Filled(i)
    /\ UNCHANGED <<edited, grown>>

AddChild(i, char) ==
    /\ Attached(i) /\ nodes[i].kind = "element" /\ Len(nodes) < MaxNodes
    /\ nodes' = Append(nodes, MakeContent(i, <<char>>, TRUE))
    /\ grown' = grown \union {i}
    /\ UNCHANGED edited

\* getChildren() hands out the children: the client may take one away.
RemoveLastChild(i) ==
    /\ Attached(i) /\ nodes[i].kind = "element" /\ ChildSet(i) # {}
    /\ nodes' = [nodes EXCEPT ![LastChild(i)].parent = Detached]
    /\ edited' = edited \union {i}
    /\ UNCHANGED grown

AddContent(i, char) ==
    /\ Attached(i) /\ nodes[i].kind = "content"
    /\ nodes' = [nodes EXCEPT ![i].text = Append(@, char)]
    /\ edited' = edited \union {i}
    /\ UNCHANGED grown

-----------------------------------------------------------------------------
(* Properties *)

\* The nodes above each one, and those below a node.
Above ==
    LET above[j \in DOMAIN nodes] ==
            IF nodes[j].parent \in DOMAIN nodes
            THEN {nodes[j].parent} \union above[nodes[j].parent] ELSE {}
    IN  above
Below(i) == {j \in DOMAIN nodes : i \in Above[j]}

\* What getContents answers is the text of the tree, however reads of this
\* element and of those in it, and children added to it, have come before
\* (Element::getContents).  It need not be when a text has changed or a child
\* has gone, or an element in this one has been given a child: the count that
\* decides is the one of this element.
ContentsCurrent ==
    \A i \in DOMAIN nodes :
        nodes[i].kind = "element" /\ edited = {} /\ Below(i) \cap grown = {}
            => Answer[i] = Contents[i]

\* Violated, under the configuration of ContentsCurrent: the contents are those of the tree.
ContentsAlwaysCurrent ==
    \A i \in DOMAIN nodes : nodes[i].kind = "element" => Answer[i] = Contents[i]

\* The marks of white space, from the tree alone: a content has no other
\* character, no CDATA section and no reference stands before it, and neither
\* a CDATA section nor the reference of an entity after it.
Neighbour(i, j) ==
    /\ nodes[i].parent = nodes[j].parent
    /\ ~\E k \in ChildSet(nodes[i].parent) : i < k /\ k < j

MarkedWhite(i) ==
    /\ IsWhite(nodes[i].text)
    /\ ~\E j \in 1 .. i - 1 : Neighbour(j, i) /\ nodes[j].kind \in {"cdata", "reference"}
    /\ ~\E j \in i + 1 .. Len(nodes) :
          /\ Neighbour(i, j)
          /\ nodes[j].kind = "cdata" \/ (nodes[j].kind = "reference" /\ ChildSet(j) # {})
=============================================================================
