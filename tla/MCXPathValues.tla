---------------------------- MODULE MCXPathValues ----------------------------
(* Texts of up to five tokens over several alphabets, the spellings of     *)
(* expressions up to two operators deep, and expressions over a document   *)
(* of a root with three children whose values are to be computed.          *)
EXTENDS XPathValues

Over(S, n) == UNION {[1..k -> S] : k \in 1..n}
SmallTexts ==
  Over({"a", "and", "or", "*", "/", "1", "-"}, 4)
  \cup Over({"a", "(", ")", "[", "]", "/", "|"}, 5)
  \cup Over({"a", "-", ".", ":", "1", " "}, 5)
  \cup Over({"a", "'", "\"", " ", "!", "="}, 4)
  \cup {<<"(", "a", ")", "/">> \o s : s \in Over({"a", "/", "*", "["}, 3)}
  \cup {s \o <<" ">> \o t : s \in Over({"a", "1", "<", "=", "and"}, 2), t \in Over({"a", "-", "and", ">", "div", "*"}, 3)}
  \cup {s \o t : s \in {<<"child", ":", ":">>, <<"a", ":", ":">>, <<"text", "(">>, <<"@">>, <<"/">>, <<"/", "/">>},
                 t \in Over({"a", "text", "(", ")", "*", ".", ","}, 3)}

A == Path(FALSE, <<Step("child", "a", <<>>)>>)
One == Tree("number", "1", <<>>)
Word == Tree("string", "a", <<>>)
And == Path(FALSE, <<Step("child", "and", <<>>)>>)
All == Path(FALSE, <<Step("child", "*", <<>>)>>)
Operands == {A, One, And, All}
Operators == UNION {BinaryOperators[l] : l \in DOMAIN BinaryOperators}
Of(op, l, r) == Tree(op, "", <<l, r>>)
Parens(t) == Tree("filter", "", <<t>>)
Bounded(t) == Level(t) > Unary + 1
Fit(t, least) == IF Level(t) >= least THEN t ELSE Parens(t)

(* Any two operators next to each other, grouped either way.               *)
Pairings ==
  {Of(p, l, r) : p \in Operators, l \in Operands, r \in Operands}
Chains ==
  {LET inner == Of(q, A, One)
       level == Level(Of(p, A, A))
   IN IF left THEN Of(p, Fit(inner, level), All) ELSE Of(p, All, Fit(inner, level + 1)) :
     p \in Operators, q \in Operators, left \in BOOLEAN}
Negatives ==
  {Tree("negative", "", <<t>>) : t \in {A, One, Tree("negative", "", <<A>>), Tree("|", "", <<A, All>>), Parens(Of("+", A, A))}}
  \cup {Of(p, Tree("negative", "", <<A>>), Tree("negative", "", <<One>>)) : p \in Operators}
Preds == {<<>>, <<One>>, <<Of("=", A, Word), Of("and", A, All)>>}
Steps == {Step(x, t, p) : x \in {"child", "attribute", "ancestor"}, t \in {"a", "*", "and"}, p \in Preds}
         \cup {Step(x, AnyNode, <<>>) : x \in {"parent", "self"}}
Paths ==
  {Path(FALSE, <<s>>) : s \in Steps} \cup {Path(TRUE, <<s>>) : s \in Steps}
  \cup {Path(b, <<s, t>>) : b \in BOOLEAN, s \in {Step("child", "a", <<>>), DescendantOrSelf, Step("child", "a", <<One>>)},
                            t \in Steps}
  \cup {Path(b, <<Step("child", "a", <<>>), DescendantOrSelf, t>>) : b \in BOOLEAN, t \in Steps}
  \cup {Path(TRUE, <<>>), Path(TRUE, <<Step("child", "text()", <<>>)>>)}
Calls == {Tree("call", f, args) : f \in {"and", "count"}, args \in {<<>>, <<A>>, <<Word, Of("or", A, A)>>, <<One, One, One>>}}
Filters ==
  {Tree("filter", "", <<Parens(A), One>>), Tree("filter", "", <<Word, One, One>>),
   Tree("filter", "", <<Tree("call", "count", <<>>), A>>), Parens(Parens(A)), Parens(Of("or", A, All))}
Continued ==
  {Tree("call", "__pathcont__", <<f, Path(FALSE, steps)>>) :
     f \in Filters \cup Calls, steps \in {<<s>> : s \in Steps}}
Unions == {Tree("|", "", <<l, r>>) : l \in {A, Path(TRUE, <<>>), Tree("|", "", <<All, A>>)}, r \in Calls \cup {A, Path(TRUE, <<>>)}}
SmallMeanings == Pairings \cup Chains \cup Negatives \cup Paths \cup Calls \cup Filters \cup Continued \cup Unions

-----------------------------------------------------------------------------

Attribute(n, v) == [name |-> n, value |-> v]
SmallElements ==
  << [name |-> "r", text |-> "", attributes |-> <<>>],
     [name |-> "a", text |-> "2", attributes |-> <<Attribute("x", "1")>>],
     [name |-> "b", text |-> "", attributes |-> <<>>],
     [name |-> "a", text |-> " b  1 ", attributes |-> <<Attribute("x", "a")>>] >>
SmallHalves == -16..16 \cup {200000}

Fn(f, args) == Tree("call", f, args)
Num(s) == Tree("number", s, <<>>)
Str(s) == Tree("string", s, <<>>)
Minus(t) == Tree("negative", "", <<t>>)
Rel(axis, test) == Path(FALSE, <<Step(axis, test, <<>>)>>)
Div(l, r) == Of("div", l, r)

As == Rel("child", "a")
Bs == Rel("child", "b")
Cs == Rel("child", "c")
Xs == Tree("call", "__pathcont__", <<Parens(As), Rel("attribute", "x")>>)
Half == Parens(Div(Num("1"), Num("2")))
Numbers == {Num("0"), Num("1"), Num("2"), Half, Minus(Num("1")), Parens(Div(Num("1"), Num("0"))),
            Fn("number", <<Str("a")>>)}
Strings == {Str(""), Str("1"), Str(" b  1 "), Str("b"), Str("true")}
Booleans == {Fn("true", <<>>), Fn("false", <<>>)}
NodeSets == {As, Bs, Cs, Parens(Path(TRUE, <<>>)), Parens(Of("|", Bs, As)), Xs,
             Tree("filter", "", <<Parens(As), Rel("attribute", "x")>>)}
Simple == Numbers \cup Strings \cup Booleans \cup NodeSets

Comparisons == {Of(op, l, r) : op \in {"=", "!=", "<", ">="}, l \in Simple, r \in Simple}
Logical == {Of(op, l, r) : op \in {"and", "or"}, l \in Simple, r \in Simple \cup {Fn("f", <<>>)}}
Arithmetic ==
  {Of(op, l, r) : op \in {"+", "-", "mod"}, l \in Numbers, r \in Numbers \cup {Str("1"), As}}
  \cup {Div(l, r) : l \in Numbers \ {Half}, r \in Numbers \cup {Str("1")}}
  \cup {Of("*", l, r) : l \in {Num("2"), Fn("number", <<Str("a")>>), Num("0")}, r \in Numbers}
  \cup {Minus(t) : t \in Simple \ {Minus(Num("1"))}}
UnaryFunctions ==
  {"string", "number", "boolean", "not", "count", "sum", "round", "floor", "ceiling", "normalize-space",
   "string-length", "name", "local-name"}
Conversions == {Fn(f, <<t>>) : f \in UnaryFunctions, t \in Simple \cup {Num("100000"), Minus(Half), Str("Infinity"), Minus(Num("0"))}}
               \cup {Fn(f, <<>>) : f \in UnaryFunctions \cup {"concat", "translate", "substring", "position", "last", "lang", "f"}}
Lookups ==
  {Fn(f, <<s, t>>) : f \in {"contains", "starts-with", "substring-before", "substring-after", "concat", "translate"},
                     s \in Strings \cup {As}, t \in Strings}
  \cup {Fn("translate", <<Str("b 1"), Str("1b"), t>>) : t \in {Str("1"), Str("a"), Str("")}}
  \cup {Fn("substring", <<Str("abc"), t>>) : t \in {Num("0"), Num("1"), Num("2"), Num("4"), Minus(Num("1")), Half}}
  \cup {Fn("substring", <<Str("abc"), t, u>>) :
          t \in {Num("0"), Num("1"), Num("3"), Minus(Num("1"))}, u \in {Num("0"), Num("1"), Num("2"), Num("4"), Half}}
Conditions == {Num("1"), Num("2"), Fn("last", <<>>), Rel("attribute", "x"), Of("=", Rel("self", "node()"), Num("2")),
               Of("=", Fn("position", <<>>), Num("2")), Half, Fn("not", <<Rel("attribute", "x")>>)}
FiltersOf(ts) ==
  {Tree("filter", "", <<t, p>>) : t \in ts, p \in Conditions}
  \cup {Tree("filter", "", <<t, p, q>>) : t \in ts, p \in Conditions, q \in Conditions}
Selections == FiltersOf({Parens(As), Parens(Rel("child", "*")), Parens(Xs), Parens(Of("|", As, Bs)), Parens(Of("|", Bs, As))})

SmallValued ==
  Comparisons \cup Logical \cup Arithmetic \cup Conversions \cup Lookups \cup Selections
=============================================================================
