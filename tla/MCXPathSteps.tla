---------------------------- MODULE MCXPathSteps ----------------------------
(* All documents of at most four nodes over two names, with text, some of  *)
(* five, and paths of up to three steps, filtered and joined.              *)
EXTENDS XPathSteps

NameSet == {"r", "a"}

One == [name |-> "k", value |-> "v"]
Two == [name |-> "l", value |-> "w"]
Node(name, parent, attributes) == [name |-> name, parent |-> parent, attributes |-> attributes]
Kinds == {<<"a", <<>>>>, <<"a", <<One, Two>>>>, <<Text, <<>>>>}
Roots == {<<"r", <<>>>>, <<"a", <<Two>>>>}
Shapes(n) ==
  {f \in [1..n -> 0..(n - 1)] :
     \A i \in 1..n : /\ f[i] < i /\ (f[i] = 0 <=> i = 1)
                     /\ \A j \in (f[i] + 1)..(i - 1) : f[j] >= f[i]}
Trees(n) ==
  {d \in {[i \in 1..n |-> Node(k[i][1], f[i], k[i][2])] :
            f \in Shapes(n), k \in {h \in [1..n -> Kinds \cup Roots] :
              h[1] \in Roots /\ \A i \in 2..n : h[i] \in Kinds}} :
     \A i \in 2..n : d[d[i].parent].name # Text}

(* Grandchildren by two children, which paths of child steps collect.      *)
Families ==
  {<<Node("r", 0, <<>>), Node("a", 1, k[1][2]), Node(k[2][1], 2, k[2][2]),
     Node("a", 1, k[3][2]), Node(k[4][1], 4, k[4][2])>> :
     k \in {h \in [1..4 -> Kinds] : h[1][1] = "a" /\ h[3][1] = "a"}}
SmallDocuments == UNION {Trees(n) : n \in 1..4} \cup Families

Step(axis, test, predicates) == [axis |-> axis, test |-> test, predicates |-> predicates]
Position(n) == [kind |-> "position", number |-> n]
LastOne == [kind |-> "last"]
Has(axis, test) == [kind |-> "path", axis |-> axis, test |-> test]

Anywhere == Step("descendant-or-self", "node()", <<>>)
Equal(test, value) == [kind |-> "equals", test |-> test, value |-> value]
Both(c, d) == [kind |-> "and", left |-> c, right |-> d]
Either(c, d) == [kind |-> "or", left |-> c, right |-> d]
Not(c) == [kind |-> "not", operand |-> c]

Filters == {<<>>, <<Position(1)>>, <<LastOne>>, <<Has("attribute", "k")>>,
            <<Has("parent", "a")>>, <<Not(Has("following-sibling", "a"))>>,
            <<Equal("k", "v"), Position(2)>>, <<Position(2), Has("preceding-sibling", "*")>>,
            <<Both(Has("child", "a"), Has("parent", "a"))>>,
            <<Either(Has("child", "text()"), Equal("l", "v"))>>}
ChildSteps == {Step("child", t, p) : t \in {"a", "node()"}, p \in Filters}
DeepSteps == {Step(x, t, p) : x \in {"descendant", "descendant-or-self", "self"},
                              t \in {"*", "text()"}, p \in {<<>>, <<Has("descendant", "text()")>>}}
Attributes == {Step("attribute", t, <<>>) : t \in {"*", "l"}}

MCPath(absolute, steps) == [absolute |-> absolute, steps |-> steps, filter |-> <<>>]
Absolute(steps) == MCPath(TRUE, steps)
Relative(steps) == MCPath(FALSE, steps)
Firsts == {Step("child", "a", <<>>), Step("child", "*", <<Has("child", "a"), LastOne>>), Anywhere}
AllA == Absolute(<<Anywhere, Step("child", "a", <<>>)>>)
Leaves == Absolute(<<Step("child", "*", <<>>), Step("child", "node()", <<>>)>>)
WithFilter(p, preds) == [p EXCEPT !.filter = preds]

Grandchildren == {Relative(<<Step("child", "*", <<>>), Step("child", t, <<>>)>>) : t \in {"a", "node()"}}
SmallPaths == Grandchildren \cup
  {Absolute(<<>>)} \cup {Absolute(<<s>>) : s \in Firsts}
  \cup {Absolute(<<f, s>>) : f \in Firsts, s \in ChildSteps \cup DeepSteps \cup Attributes}
  \cup {Absolute(<<f, Anywhere, s>>) : f \in Firsts, s \in ChildSteps}
  \cup {Relative(<<s>>) : s \in ChildSteps \cup DeepSteps}
  \cup {WithFilter(p, preds) : p \in {AllA, Leaves}, preds \in Filters}
SmallExpressions ==
  {<<p>> : p \in SmallPaths} \cup {<<p, q>> : p \in {AllA, WithFilter(Leaves, <<LastOne>>)},
                                           q \in {Leaves, Relative(<<Step("self", "*", <<>>)>>)}}

UpwardPaths == {<<Absolute(<<Anywhere, Step("child", "a", <<>>), Step("parent", "node()", <<>>)>>)>>}
RootPredicates == {<<Absolute(<<Anywhere, Step("child", "*", <<Has("attribute", "k")>>)>>)>>}
NotEqual == {<<Relative(<<Step("child", "a", <<[kind |-> "differs", test |-> "k", value |-> "v"]>>)>>)>>}
=============================================================================
