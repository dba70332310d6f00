---------------------------- MODULE MCTreeBuilder ----------------------------
(* Small documents for TreeMeaning. *)
EXTENDS TreeMeaning

A == <<"", "a">>
B == <<"", "b">>
PB == <<"p", "b">>
Binding == <<"xmlns", "p">>

MCReplacement ==
    ("text" :> <<Char("x")>>) @@
    ("blank" :> <<Char(" ")>>) @@
    ("element" :> <<Start(B, <<>>), Char("x"), End(B), Char(" ")>>) @@
    ("mixed" :> <<Char("x"), Empty(B, <<>>)>>) @@
    ("open" :> <<Start(B, <<>>), Char("x")>>) @@
    ("closing" :> <<End(B)>>) @@
    ("nested" :> <<CData(<<"x">>), Ref("text"), Char(" ")>>) @@
    ("prefixed" :> <<Empty(PB, <<>>)>>) @@
    ("outer" :> <<Ref("element"), Char("x")>>)

MCNames == {"", "a", "b", "p", "xml", "xmlns", "undeclared"} \union DOMAIN MCReplacement

References == {Ref(name) : name \in DOMAIN MCReplacement} \union {Ref("undeclared")}

Contents1 ==
    {Char(" "), Char("x"), CharRef("x"), CharRef(" "), CData(<<"x">>), CData(<<>>), Comment}

TagTokens ==
    {Start(B, <<>>), End(B), End(A), Empty(PB, <<>>), Start(PB, <<Binding>>), End(PB),
     Empty(B, <<PB>>), Empty(B, <<Binding, PB>>), Empty(B, <<PB, PB>>),
     Empty(B, <<Binding, A, B>>), Empty(B, << <<"xml", "b">> >>),
     Empty(<<"xmlns", "b">>, <<>>)}

Roots == {Start(A, <<>>), Start(A, <<Binding>>), Start(A, <<PB>>)}

Upto(tokens, n) == UNION {[1 .. i -> tokens] : i \in 0 .. n}

Rooted(bodies) == {<<root>> \o body \o <<End(A)>> : root \in Roots, body \in bodies}

\* What comes around the root, or in its place.
Around ==
    {Comment, Char(" "), Char("x"), CharRef(" "), CData(<<>>), Ref("element"),
     Start(A, <<>>), End(A), Empty(A, <<>>), Empty(PB, <<>>)}

\* Documents that the client reads and edits.
Read == {<<Start(A, <<>>), Start(B, <<>>), Char("x"), End(B), Char(" "), End(A)>>,
         <<Start(A, <<>>), Ref("element"), Ref("text"), End(A)>>,
         <<Start(A, <<>>), Start(B, <<>>), Start(B, <<>>), Char("x"), End(B), End(B), End(A)>>}

Family(texts, count) == [texts |-> texts, calls |-> count]

MCDocuments ==
    {Family(Rooted(Upto(Contents1 \union TagTokens \union References, 2)), 0),
     Family(Rooted([1 .. 3 -> TagTokens \union {Char("x"), Ref("prefixed"), Ref("open"), Ref("element")}]), 0),
     Family({<<Start(A, <<>>)>> \o body \o <<End(A)>> :
                body \in Upto(Contents1 \union {Ref("text"), Ref("blank"), Ref("nested"),
                                                Ref("element"), Ref("outer")}, 4)}, 0),
     Family(Upto(Around, 4), 0),
     Family(Read, 5)}
=============================================================================
