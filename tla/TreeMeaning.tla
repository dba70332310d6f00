---------------------------- MODULE TreeMeaning ----------------------------
(***************************************************************************)
(* What XML 1.0 and its namespaces say of the text of a document, token by  *)
(* token, and that TreeBuilder builds its tree so.                         *)
(***************************************************************************)
EXTENDS TreeBuilder

CONSTANT MaxDepth   \* the deepest nesting of entities in the texts

Tokens(text) == {text[i] : i \in DOMAIN text}

\* The declared entities a text refers to.
Referred(text) ==
    {token.name : token \in {t \in Tokens(text) : t.kind = "ref"}} \cap DOMAIN Replacement

\* No entity is in itself: circles are refused when the DTD is read (Entities).
ASSUME DepthAssumption ==
    /\ MaxDepth \in Nat
    /\ \E rank \in [DOMAIN Replacement -> 1 .. MaxDepth] :
          \A name \in DOMAIN Replacement :
             \A inner \in Referred(Replacement[name]) : rank[inner] < rank[name]

-----------------------------------------------------------------------------
(* Well-formed texts *)

Element(tag, prefixes) == [tag |-> tag, prefixes |-> prefixes]

Known(token, scope) == scope \union DeclaredBy(token.attributes)

LegalTag(token, scope) ==
    LegalAttributes(token) /\ UsedBy(token) \subseteq Known(token, scope)

IsTag(token) == token.kind \in {"start", "empty"}

\* The prefixes declared in the innermost of the open elements of a text, or
\* around the text.
InScope(open, scope) == IF open = <<>> THEN scope ELSE Last(open).prefixes

\* The open elements after a token.
After(open, token, scope) ==
    CASE token.kind = "start" ->
            Append(open, Element(token.tag, Known(token, InScope(open, scope))))
      [] token.kind = "end" /\ open # <<>> -> Front(open)
      [] OTHER -> open

Opened(text, scope) ==
    LET open[k \in 0 .. Len(text)] ==
            IF k = 0 THEN <<>> ELSE After(open[k - 1], text[k], scope)
    IN  open

\* What may come next in a text, where fitting has the entities that fit, each
\* with the prefixes around it.
Legal(open, token, scope, fitting) ==
    /\ IsTag(token) => LegalTag(token, InScope(open, scope))
    /\ token.kind = "end" => open # <<>> /\ Last(open).tag = token.tag
    /\ token.kind = "ref" =>
          token.name \in DOMAIN Replacement /\ <<token.name, InScope(open, scope)>> \in fitting

\* The content of an element or the text of an entity.
WellFormed(text, scope, fitting) ==
    LET open == Opened(text, scope)
    IN  /\ \A k \in DOMAIN text : Legal(open[k - 1], text[k], scope, fitting)
        /\ open[Len(text)] = <<>>

\* The entities that are well-formed in a scope, the entities in them included.
Fitting ==
    LET fitting[d \in 0 .. MaxDepth] ==
            IF d = 0 THEN {}
            ELSE {use \in (DOMAIN Replacement) \X SUBSET (Names \union {"xml"}) :
                    WellFormed(Replacement[use[1]], use[2], fitting[d - 1])}
    IN  fitting[MaxDepth]

Misc(token) == token.kind = "comment" \/ (token.kind = "char" /\ token.char \in White)

\* The places in a document outside of every element, comments and white space left out.
Outermost ==
    LET open == Opened(document, {"xml"})
    IN  {k \in DOMAIN document : open[k - 1] = <<>> /\ ~Misc(document[k])}

\* One element, with comments and white space around it.  The prefix xml is
\* declared everywhere.
DocumentWellFormed ==
    /\ WellFormed(document, {"xml"}, Fitting)
    /\ \E root \in DOMAIN document : Outermost = {root} /\ IsTag(document[root])

-----------------------------------------------------------------------------
(* What is written *)

\* The tags and the characters of a token, where told has those of the entities.
EventsOf(token, told) ==
    CASE token.kind = "start" -> << <<"start", token.tag>> >>
      [] token.kind = "empty" -> << <<"start", token.tag>>, <<"end", token.tag>> >>
      [] token.kind = "end" -> << <<"end", token.tag>> >>
      [] token.kind \in {"char", "charref"} -> << <<"char", token.char>> >>
      [] token.kind = "cdata" -> [k \in DOMAIN token.text |-> <<"char", token.text[k]>>]
      [] token.kind = "comment" -> << <<"comment">> >>
      [] token.kind = "ref" -> IF token.name \in DOMAIN told THEN told[token.name] ELSE <<>>

Events(text, told) == FlattenSeq([i \in DOMAIN text |-> EventsOf(text[i], told)])

\* Those of each entity, the references in it replaced.
Told ==
    LET told[d \in 0 .. MaxDepth] ==
            IF d = 0 THEN [name \in DOMAIN Replacement |-> <<>>]
            ELSE [name \in DOMAIN Replacement |-> Events(Replacement[name], told[d - 1])]
    IN  told[MaxDepth]

\* The same of each node of the tree, in the order of XML_Impl::traverseNodes.
Traversed ==
    LET walk[i \in DOMAIN nodes] ==
            LET inner == FlattenSeq([j \in DOMAIN nodes |->
                                        IF nodes[j].parent = i THEN walk[j] ELSE <<>>])
                chars == [k \in DOMAIN nodes[i].text |-> <<"char", nodes[i].text[k]>>]
            IN  CASE nodes[i].kind = "element" ->
                        << <<"start", nodes[i].tag>> >> \o inner \o << <<"end", nodes[i].tag>> >>
                  [] nodes[i].kind = "comment" -> << <<"comment">> >>
                  [] OTHER -> chars \o inner
    IN  walk

-----------------------------------------------------------------------------
(* What the code reads in another way *)

\* The prefixes of the root are not checked.
RootUnbound ==
    \E root \in DOMAIN document :
        /\ IsTag(document[root]) /\ \A i \in 1 .. root - 1 : ~IsTag(document[i])
        /\ ~(UsedBy(document[root]) \subseteq Known(document[root], {"xml"}))

\* Below the root the prefix xml must be declared like any other.
PredeclaredUsed(text) == \E token \in Tokens(text) : IsTag(token) /\ "xml" \in UsedBy(token)

\* The entities that the document reaches by references.
Reached ==
    LET reached[d \in 0 .. MaxDepth] ==
            IF d = 0 THEN Referred(document)
            ELSE reached[d - 1] \union UNION {Referred(Replacement[name]) : name \in reached[d - 1]}
    IN  reached[MaxDepth]

\* The entities that hold an element, by themselves or by references.
Holding ==
    LET holding[d \in 0 .. MaxDepth] ==
            IF d = 0 THEN {}
            ELSE {name \in DOMAIN Replacement :
                    \/ \E token \in Tokens(Replacement[name]) : IsTag(token)
                    \/ Referred(Replacement[name]) \cap holding[d - 1] # {}}
    IN  holding[MaxDepth]

\* An entity whose text does not begin with '<' must not hold an element.
MixedEntity(name) == ~BeginsWithMarkup(Replacement[name]) /\ name \in Holding

-----------------------------------------------------------------------------
(* Properties *)

\* A document that is parsed is well-formed, its namespaces included, and the
\* tree read in document order has the tags, the characters and the comments of
\* the text with its references replaced: nothing is lost, repeated or moved by
\* the nodes of references, by CDATA sections and by entities that hold elements
\* (parseElement, parseElementInternal, appendEntityOrContent).
TreeAsWritten ==
    phase = "parsed" /\ edited = {} /\ grown = {} /\ ~RootUnbound =>
        /\ DocumentWellFormed
        /\ Traversed[1] = Events(document, Told)

\* A well-formed document is parsed, but for the prefix xml and for entities
\* whose text has an element after something else.
WellFormedIsParsed ==
    phase = "error" /\ DocumentWellFormed =>
        \/ PredeclaredUsed(document)
        \/ \E name \in Reached : PredeclaredUsed(Replacement[name]) \/ MixedEntity(name)

\* Violated, under the configuration of WellFormedIsParsed: every well-formed document is parsed.
AllWellFormedParsed == phase = "error" => ~DocumentWellFormed
=============================================================================
