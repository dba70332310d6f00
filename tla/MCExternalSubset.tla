-------------------------- MODULE MCExternalSubset --------------------------
(* Small subsets for SubsetMeaning. *)
EXTENDS SubsetMeaning

MCSpecs == {"EMPTY", "ANY"}

ElementOf(name, word) == Element(name, <<Word(word)>>)
IncludeTag == Open(Word("INCLUDE"))
IgnoreTag == Open(Word("IGNORE"))

\* Declarations that both subsets may hold.
Common ==
    {ElementOf("a", "EMPTY"), Element("a", <<Ref("s")>>), Ref("p"),
     Entity("p", <<ElementOf("b", "ANY")>>), Entity("s", <<Word("ANY")>>),
     Entity("k", <<Word("IGNORE")>>)}

InternalTokens ==
    Common \union
    {Entity("k", <<Word("INCLUDE")>>), Entity("p", <<Ref("p")>>), Entity("p", <<Ref("q")>>),
     Entity("q", <<ElementOf("b", "ANY")>>), Entity("p", <<>>), AttList("b"), IncludeTag}

ExternalTokens ==
    Common \union
    {AttList("a"), Entity("s", <<Ref("t")>>), Comment, IncludeTag, IgnoreTag, Open(Ref("k")), Close}

\* And what the texts of entities and of specifications consist of.
MCVocabulary ==
    LET Held(t) == CASE t.kind = "entity" -> Tokens(t.text)
                       [] t.kind = "element" -> Tokens(t.spec)
                       [] OTHER -> {}
        outer == InternalTokens \union ExternalTokens
                     \union {ElementOf("a", "ANY"), ElementOf("b", "EMPTY")}
        inner == UNION {Held(t) : t \in outer}
    IN  outer \union inner \union UNION {Held(t) : t \in inner}

Upto(tokens, n) == UNION {[1 .. i -> tokens] : i \in 0 .. n}

\* A whole section among other tokens.
Balanced(text) == Depth(text, 4) = 0 /\ \E i \in 1 .. 4 : text[i] = Close

\* One section in another, with a token before, in and after the inner one.
Before == {<<>>, <<Comment>>, <<ElementOf("a", "ANY")>>, <<Entity("k", <<Word("INCLUDE")>>)>>}
Within == {<<>>, <<ElementOf("a", "EMPTY")>>, <<ElementOf("b", "ANY")>>, <<Element("a", <<Ref("s")>>)>>}
After == {<<>>, <<ElementOf("a", "ANY")>>, <<ElementOf("b", "EMPTY")>>}
Openings == {IncludeTag, IgnoreTag, Open(Ref("k"))}

NestedSections ==
    {<<o>> \o b \o <<i>> \o w \o <<Close>> \o a \o <<Close>> :
        o \in Openings, i \in Openings, b \in Before, w \in Within, a \in After}

Family(internal, external) == [internal |-> internal, external |-> external]

MCFamilies ==
    {Family(Upto(InternalTokens, 2), Upto(ExternalTokens, 2)),
     Family(Upto(InternalTokens, 1), [1 .. 3 -> ExternalTokens]),
     Family(Upto(InternalTokens, 1), {t \in [1 .. 4 -> ExternalTokens] : Balanced(t)}),
     Family(Upto(InternalTokens, 1), NestedSections)}
=============================================================================
