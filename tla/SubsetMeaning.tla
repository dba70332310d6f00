--------------------------- MODULE SubsetMeaning ---------------------------
(***************************************************************************)
(* What XML 1.0 says that an internal and an external subset declare, by    *)
(* recursion on the text, and that ExternalSubset reads it so.             *)
(***************************************************************************)
EXTENDS ExternalSubset

-----------------------------------------------------------------------------
(* The meaning of a text *)

\* early: an attribute list has come before its element, as it may.
Nothing == [ok |-> TRUE, early |-> FALSE,
            elements |-> <<>>, attributes |-> {}, entities |-> <<>>]

Illegal == [Nothing EXCEPT !.ok = FALSE]

\* References in a declaration of the external subset, to any depth.  An
\* undeclared one stays, and is an error where it is reached.
RECURSIVE Expansion(_, _, _)
Expansion(text, known, fuel) ==
    FlattenSeq([i \in DOMAIN text |->
        IF text[i].kind = "ref" /\ text[i].name \in DOMAIN known /\ fuel > 0
        THEN Expansion(known[text[i].name], known, fuel - 1) ELSE <<text[i]>>])

Expanded(where, text, known) ==
    IF where = "external" THEN Expansion(text, known, MaxFrames) ELSE text

\* The index of the "]]>" of the section that begins a text, or 0.
Depth(text, i) ==
    Cardinality({j \in 1 .. i : text[j].kind = "open"})
        - Cardinality({j \in 1 .. i : text[j].kind = "close"})

EndOfSection(text) ==
    LET ends == {i \in DOMAIN text : Depth(text, i) = 0}
    IN  IF ends = {} THEN 0 ELSE CHOOSE i \in ends : \A j \in ends : i <= j

\* The first declaration binds.
Declared(where, token, known) ==
    CASE token.kind = "element" ->
            LET spec == Expanded(where, token.spec, known.entities)
            IN  IF IsSpecification(spec)
                THEN [known EXCEPT !.elements = @ @@ (token.name :> Head(spec).word)]
                ELSE Illegal
      [] token.kind = "attlist" -> [known EXCEPT
                !.attributes = @ \union {token.name},
                !.early = @ \/ token.name \notin DOMAIN known.elements]
      [] token.kind = "entity" ->
            [known EXCEPT !.entities =
                @ @@ (token.name :> Expanded(where, token.text, known.entities))]
      [] token.kind = "comment" -> known
      [] OTHER -> Illegal

RECURSIVE Meaning(_, _, _, _)
Meaning(where, text, known, fuel) ==
    IF text = <<>> \/ ~known.ok THEN known
    ELSE LET token == Head(text)
             rest(after) == Meaning(where, Tail(text), after, fuel)
         IN  CASE token.kind = "ref" ->
                    IF token.name \in DOMAIN known.entities /\ fuel > 0
                    THEN rest(Meaning(where, known.entities[token.name], known, fuel - 1))
                    ELSE Illegal
               [] token.kind = "open" ->
                    LET end == EndOfSection(text)
                        keyword == Expansion(<<token.keyword>>, known.entities, MaxFrames)
                        after(k) == Meaning(where, SubSeq(text, end + 1, Len(text)), k, fuel)
                    IN  CASE where = "internal" \/ end = 0 -> Illegal
                          [] where = "external" /\ end > 0 /\ keyword = <<Word("INCLUDE")>> ->
                                after(Meaning(where, SubSeq(text, 2, end - 1), known, fuel))
                          [] where = "external" /\ end > 0 /\ keyword = <<Word("IGNORE")>> ->
                                after(known)
                          [] OTHER -> Illegal
               [] token.kind \notin {"ref", "open"} -> rest(Declared(where, token, known))

\* No entity may refer to itself, used or not.
Written ==
    LET known == Meaning("internal", subset.internal, Nothing, MaxFrames)
        all == Meaning("external", subset.external, known, MaxFrames)
    IN  IF Circular(all.entities) THEN Illegal ELSE all

-----------------------------------------------------------------------------
(* What the code reads in another way *)

Tokens(text) == {text[i] : i \in DOMAIN text}
Everything == Tokens(subset.internal) \union Tokens(subset.external)

ElementTokens ==
    {t \in Everything : t.kind = "element"} \union
    {t \in UNION {Tokens(e.text) : e \in {e \in Everything : e.kind = "entity"}} :
        t.kind = "element"}

\* The sections of an included section are parsed before the rest of it, which
\* matters when one uses what the rest declares or declares the same element.
Nested == \E i \in DOMAIN subset.external : Depth(subset.external, i) > 1

Entangled ==
    /\ Nested
    /\ \/ \E t, u \in ElementTokens : t.name = u.name /\ t.spec # u.spec
       \/ \E i \in DOMAIN subset.external :
            /\ Depth(subset.external, i) > 0
            /\ subset.external[i].kind \in {"entity", "attlist"}

\* The last declaration of an entity binds.
Redeclared ==
    LET both == subset.internal \o subset.external
    IN  \E i, j \in DOMAIN both :
            /\ i < j /\ both[i].kind = "entity" /\ both[j].kind = "entity"
            /\ both[i].name = both[j].name

\* The text of an entity of the external subset is cut at its first tag, and
\* what takes the place of a reference in a declaration is not translated.
Cut == \E token \in Tokens(subset.external) : token.kind = "entity" /\ ~Uncut(token.text)

Layered ==
    \E token \in Everything : token.kind = "entity" /\ \E t \in Tokens(token.text) : t.kind = "ref"

\* A section with nothing in it besides other sections, and an empty entity.
Hollow(text, i) ==
    \A j \in i + 1 .. Len(text) :
        (\A k \in i .. j : Depth(text, k) >= Depth(text, i))
            => Depth(text, j) > Depth(text, i) \/ text[j].kind = "close"

Empty ==
    \/ \E token \in Everything : token.kind = "entity" /\ token.text = <<>>
    \/ \E i \in DOMAIN subset.external :
          subset.external[i].kind = "open" /\ Hollow(subset.external, i)

-----------------------------------------------------------------------------
(* Properties *)

\* A DTD that has been read is legal and declares the elements, with their
\* specifications, the attribute lists and the parameter entities that XML 1.0
\* finds in its two subsets, whichever references and sections they are written
\* with (parseInternal, parseExternalContent, parseConditional and translate).
\* It need not when an entity is declared twice, or sections in one another
\* depend on what is around them.
DeclaredAsWritten ==
    status = "done" /\ ~Redeclared /\ ~Entangled =>
        /\ Written.ok
        /\ elements = Written.elements
        /\ attributes = Written.attributes
        /\ DOMAIN entities = DOMAIN Written.entities

\* A legal DTD is read to its end: no exception, and no reference that is
\* parsed over and over, but for the cases above.
LegalIsRead ==
    status \in {"error", "exhausted"} =>
        \/ ~Written.ok
        \/ Written.early \/ Redeclared \/ Entangled \/ Cut \/ Layered \/ Empty

\* Violated, under the configuration of DeclaredAsWritten: a section may lie in another one.
NestedAsWritten ==
    status = "done" /\ ~Redeclared => elements = Written.elements

\* Violated, under the same configuration: the recursion check of parseDTD
\* rejects what refers to itself.
CirclesEnd == status # "exhausted"
=============================================================================
