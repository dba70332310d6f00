----------------------------- MODULE XPathValues -----------------------------
(***************************************************************************)
(* evaluateString, evaluateNumber and evaluateBool: the text of an         *)
(* expression is cut into tokens, parsed and evaluated to a value.  Paths  *)
(* are those of one step without predicates from an element to itself, its *)
(* attributes or its children (XPathSteps has the others); the document is *)
(* a root element with children that hold text.                            *)
(*                                                                         *)
(* Numbers are the doubles that are halves of small integers, NaN and the  *)
(* infinities.  Strings are those of TLA+.                                 *)
(***************************************************************************)
EXTENDS XPathParser, Integers

CONSTANTS
  Elements, \* the elements [name, text, attributes], the root first
  Halves,   \* the numbers that strings may spell, times two
  Valued    \* trees that are evaluated, each of one of its spellings

ASSUME ElementsAreElements ==
  /\ Elements # <<>> /\ Elements[1].text = ""
  /\ \A e \in ToSet(Elements), i, j \in 1..2 :
       {i, j} \subseteq DOMAIN e.attributes /\ e.attributes[i].name = e.attributes[j].name => i = j

VARIABLES
  value,     \* what the four functions of the interface return, see Answers
  evaluation \* "none" (only parsed), "waiting", "done", "failed"

valuesVars == <<vars, value, evaluation>>

-----------------------------------------------------------------------------
(* A double: half of "twice".  Results that are no half of an integer have *)
(* no value here.                                                          *)
Number(twice) == [kind |-> "finite", twice |-> twice]
Integer(i) == Number(2 * i)
MinusZero == [kind |-> "-0", twice |-> 0]
NaN == [kind |-> "nan", twice |-> 0]
Infinite(sign) == [kind |-> "infinite", twice |-> sign]

IsFinite(x) == x.kind \in {"finite", "-0"}
IsZero(x) == x \in {Number(0), MinusZero}
IsNegative(x) == x.twice < 0 \/ x = MinusZero
SignOf(x) == IF IsNegative(x) THEN -1 ELSE 1
Magnitude(i) == IF i < 0 THEN -i ELSE i
WithSign(sign, twice) == IF sign < 0 /\ twice = 0 THEN MinusZero ELSE Number(sign * twice)
Negated(x) ==
  CASE IsZero(x) -> WithSign(-SignOf(x), 0)
    [] OTHER     -> [x EXCEPT !.twice = -@]

Sum2(x, y) ==
  IF NaN \in {x, y} THEN NaN
  ELSE IF x = MinusZero THEN y
  ELSE IF IsFinite(x) /\ IsFinite(y) THEN Number(x.twice + y.twice)
  ELSE IF ~IsFinite(x) /\ ~IsFinite(y) /\ x # y THEN NaN
  ELSE IF IsFinite(x) THEN y ELSE x
Product(x, y) ==
  IF NaN \in {x, y} \/ (IsZero(x) /\ ~IsFinite(y)) \/ (IsZero(y) /\ ~IsFinite(x)) THEN NaN
  ELSE IF ~IsFinite(x) \/ ~IsFinite(y) THEN Infinite(SignOf(x) * SignOf(y))
  ELSE CASE (x.twice * y.twice) % 2 = 0 ->
         WithSign(SignOf(x) * SignOf(y), (Magnitude(x.twice) * Magnitude(y.twice)) \div 2)
Quotient(x, y) == \* y is not zero
  IF NaN \in {x, y} \/ (~IsFinite(x) /\ ~IsFinite(y)) THEN NaN
  ELSE IF ~IsFinite(x) THEN Infinite(SignOf(x) * SignOf(y))
  ELSE IF ~IsFinite(y) THEN WithSign(SignOf(x) * SignOf(y), 0)
  ELSE CASE (2 * Magnitude(x.twice)) % Magnitude(y.twice) = 0 ->
         WithSign(SignOf(x) * SignOf(y), (2 * Magnitude(x.twice)) \div Magnitude(y.twice))
Remainder(x, y) == \* std::fmod, with the sign of the dividend
  IF NaN \in {x, y} \/ ~IsFinite(x) \/ IsZero(y) THEN NaN
  ELSE IF ~IsFinite(y) THEN x
  ELSE WithSign(SignOf(x), Magnitude(x.twice) % Magnitude(y.twice))
Less(x, y) ==
  /\ NaN \notin {x, y}
  /\ IF IsFinite(x) /\ IsFinite(y) THEN x.twice < y.twice
     ELSE x # y /\ (x = Infinite(-1) \/ y = Infinite(1))
Equal(x, y) == NaN \notin {x, y} /\ ~Less(x, y) /\ ~Less(y, x)
Floor(x) == IF x.kind = "finite" THEN Integer(x.twice \div 2) ELSE x
Ceiling(x) == Negated(Floor(Negated(x)))
RoundUp(x) == Floor(Sum2(x, Number(1)))
RoundAway(x) == IF IsNegative(x) THEN Negated(RoundUp(Negated(x))) ELSE RoundUp(x)

-----------------------------------------------------------------------------
(* Strings.                                                                *)
CharAt(s, i) == SubSeq(s, i, i)
From(s, i) == SubSeq(s, i, Len(s))
OccursAt(s, t, i) == i + Len(t) - 1 <= Len(s) /\ SubSeq(s, i, i + Len(t) - 1) = t
Occurrences(s, t) == {i \in 1..(Len(s) + 1) : OccursAt(s, t, i)}
First(S) == CHOOSE i \in S : \A j \in S : i <= j
StringOver(indexes, At(_)) == FoldLeft(LAMBDA s, i : s \o At(i), "", indexes)
Indexes(s) == [i \in 1..Len(s) |-> i]

Trimmed(s) ==
  LET solid == {i \in 1..Len(s) : CharAt(s, i) # Space}
  IN IF solid = {} THEN "" ELSE SubSeq(s, First(solid), CHOOSE i \in solid : \A j \in solid : j <= i)

(* What std::to_chars and std::from_chars make of numbers.  to_chars takes *)
(* the shortest form, which is one with an exponent for 100000.            *)
Powers == {<<d, e>> : d \in 1..9, e \in 5..8}
Whole(i) ==
  IF \E p \in Powers : i = p[1] * 10^p[2]
  THEN LET p == CHOOSE p \in Powers : i = p[1] * 10^p[2]
       IN ToString(p[1]) \o "e+0" \o ToString(p[2])
  ELSE ToString(i)
Spelled(x) ==
  IF x = NaN THEN "NaN"
  ELSE IF ~IsFinite(x) THEN IF IsNegative(x) THEN "-Infinity" ELSE "Infinity"
  ELSE (IF IsNegative(x) THEN "-" ELSE "") \o Whole(Magnitude(x.twice) \div 2)
         \o (IF x.twice % 2 = 1 THEN ".5" ELSE "")
Readable == {Number(k) : k \in Halves} \cup {MinusZero, Infinite(1), Infinite(-1)}
StringToNumber(s) ==
  LET spelled == {x \in Readable : Spelled(x) = Trimmed(s)}
  IN IF spelled = {} THEN NaN ELSE CHOOSE x \in spelled : TRUE

NormalizeSpace(s) ==
  StringOver(Indexes(s), LAMBDA i :
    IF CharAt(s, i) = Space THEN ""
    ELSE IF i > 1 /\ CharAt(s, i - 1) = Space /\ Trimmed(SubSeq(s, 1, i - 1)) # ""
         THEN Space \o CharAt(s, i) ELSE CharAt(s, i))
Translate(s, from, to) ==
  StringOver(Indexes(s), LAMBDA i :
    LET found == Occurrences(from, CharAt(s, i))
    IN IF found = {} THEN CharAt(s, i)
       ELSE IF First(found) <= Len(to) THEN CharAt(to, First(found)) ELSE "")
Substring(s, from, to) == IF from <= to THEN SubSeq(s, from, to) ELSE ""

-----------------------------------------------------------------------------
(* XPathResult: one record with a field for each type of value.  A node of *)
(* a node-set is an element and the text it stands for: its string value,  *)
(* or the value of the attribute it is a proxy for.                        *)
NoValue == [type |-> "nodes", nodes |-> <<>>, string |-> "", number |-> Integer(0), boolean |-> FALSE]
MakeNumber(x) == [NoValue EXCEPT !.type = "number", !.number = x]
MakeString(s) == [NoValue EXCEPT !.type = "string", !.string = s]
MakeBool(b) == [NoValue EXCEPT !.type = "boolean", !.boolean = b]
MakeNodeSet(nodes) == [NoValue EXCEPT !.nodes = nodes]
Thrown == [NoValue EXCEPT !.type = "error"]

ChildElements(n) == IF n = 1 THEN [i \in 1..(Len(Elements) - 1) |-> i + 1] ELSE <<>>
NodeStringValue(n) ==
  FoldLeft(LAMBDA s, c : s \o Elements[c].text, Elements[n].text, ChildElements(n))
Plain(n) == [node |-> n, text |-> NodeStringValue(n)]
PlainNodes(nodes) == [i \in DOMAIN nodes |-> Plain(nodes[i].node)]
AddNew(nodes, more) ==
  FoldLeft(LAMBDA found, n : IF \E i \in DOMAIN found : found[i].node = n.node THEN found ELSE Append(found, n),
           nodes, more)

ResultToString(r) ==
  CASE r.type = "string"  -> r.string
    [] r.type = "number"  -> Spelled(r.number)
    [] r.type = "boolean" -> IF r.boolean THEN "true" ELSE "false"
    [] r.type = "nodes"   -> IF r.nodes = <<>> THEN "" ELSE r.nodes[1].text
ResultToNumber(r) ==
  CASE r.type = "number"  -> r.number
    [] r.type = "boolean" -> Integer(IF r.boolean THEN 1 ELSE 0)
    [] r.type = "string"  -> StringToNumber(r.string)
    [] r.type = "nodes"   -> IF r.nodes = <<>> THEN NaN ELSE StringToNumber(r.nodes[1].text)
ResultToBool(r) ==
  CASE r.type = "boolean" -> r.boolean
    [] r.type = "number"  -> ~IsZero(r.number) /\ r.number # NaN
    [] r.type = "string"  -> r.string # ""
    [] r.type = "nodes"   -> r.nodes # <<>>

-----------------------------------------------------------------------------
(* evalPathExpr, for paths of at most one step without predicates.         *)
Matches(test, name) == test \in {"*", AnyNode, name}
StepFrom(s, n) ==
  CASE s.op = "child" ->
         PlainNodes(SelectSeq([i \in DOMAIN ChildElements(n) |-> Plain(ChildElements(n)[i])],
                              LAMBDA c : Matches(s.value, Elements[c.node].name)))
    [] s.op = "self" -> IF Matches(s.value, Elements[n].name) THEN <<Plain(n)>> ELSE <<>>
    [] s.op = "attribute" ->
         LET found == SelectSeq(Elements[n].attributes, LAMBDA a : Matches(s.value, a.name))
         IN IF found = <<>> THEN <<>> ELSE <<[node |-> n, text |-> found[1].value]>>
EvalPath(path, n) ==
  MakeNodeSet(
    CASE path.op = "relative" -> StepFrom(path.args[1], n)
      [] path.args = <<>> -> <<Plain(1)>>
      [] OTHER -> IF Matches(path.args[1].value, Elements[1].name) THEN <<Plain(1)>> ELSE <<>>)

(* = with a node-set on the left.                                          *)
NodeSetContains(nodes, other) ==
  \E i \in DOMAIN nodes :
    LET s == MakeString(nodes[i].text)
    IN CASE other.type = "string"  -> s.string = other.string
         [] other.type = "number"  -> Equal(ResultToNumber(s), other.number)
         [] other.type = "boolean" -> ResultToBool(s) = other.boolean
         [] other.type = "nodes"   -> \E j \in DOMAIN other.nodes : s.string = other.nodes[j].text

IsEqual(l, r) ==
  LET types == {l.type, r.type}
  IN IF l.type = "nodes" THEN NodeSetContains(l.nodes, r)
     ELSE IF r.type = "nodes" THEN NodeSetContains(r.nodes, l)
     ELSE IF "boolean" \in types THEN ResultToBool(l) = ResultToBool(r)
     ELSE IF "number" \in types THEN Equal(ResultToNumber(l), ResultToNumber(r))
     ELSE ResultToString(l) = ResultToString(r)

Divided(x, y) == IF IsZero(y) THEN Infinite(1) ELSE Quotient(x, y)
DividedUnchecked(x, y) ==
  IF ~IsZero(y) THEN Quotient(x, y) ELSE IF IsZero(x) THEN NaN ELSE Infinite(SignOf(x))

Binary(op, l, r) ==
  LET x == ResultToNumber(l)
      y == ResultToNumber(r)
  IN CASE op = "="   -> MakeBool(IsEqual(l, r))
       [] op = "!="  -> MakeBool(~IsEqual(l, r))
       [] op = "<"   -> MakeBool(Less(x, y))
       [] op = ">"   -> MakeBool(Less(y, x))
       [] op = "<="  -> MakeBool(Less(x, y) \/ Equal(x, y))
       [] op = ">="  -> MakeBool(Less(y, x) \/ Equal(x, y))
       [] op = "+"   -> MakeNumber(Sum2(x, y))
       [] op = "-"   -> MakeNumber(Sum2(x, Negated(y)))
       [] op = "*"   -> MakeNumber(Product(x, y))
       [] op = "div" -> MakeNumber(Divided(x, y))
       [] op = "mod" -> MakeNumber(Remainder(x, y))

(* The functions, of the values of their arguments and the context         *)
(* [node, position, size].                                                 *)
NodeOrContext(args, c) ==
  IF args # <<>> /\ args[1].type = "nodes" /\ args[1].nodes # <<>> THEN args[1].nodes[1].node ELSE c.node

NodeSetFunction(f, args, c) ==
  CASE f = "position" -> MakeNumber(Integer(c.position))
    [] f = "last"     -> MakeNumber(Integer(c.size))
    [] f = "count"    -> MakeNumber(Integer(IF args = <<>> THEN 0 ELSE Len(args[1].nodes)))
    [] f \in {"name", "local-name"} -> MakeString(Elements[NodeOrContext(args, c)].name)
    [] f = "namespace-uri" -> MakeString("") \* no element here has a namespace

BooleanFunction(f, args) ==
  CASE f = "true"    -> MakeBool(TRUE)
    [] f = "false"   -> MakeBool(FALSE)
    [] f = "lang"    -> MakeBool(FALSE)
    [] f = "not"     -> MakeBool(args = <<>> \/ ~ResultToBool(args[1]))
    [] f = "boolean" -> MakeBool(args # <<>> /\ ResultToBool(args[1]))

(* sum gives up at the first node that is no number, and reads the text of *)
(* an element where the node stands for an attribute.                      *)
SumOf(nodes) ==
  FoldLeft(LAMBDA total, n : Sum2(total, StringToNumber(NodeStringValue(n.node))), Integer(0), nodes)
NumberFunction(f, args) ==
  LET x == IF args = <<>> THEN NaN ELSE ResultToNumber(args[1])
  IN MakeNumber(
       CASE f = "number"  -> x
         [] f = "floor"   -> Floor(x)
         [] f = "ceiling" -> Ceiling(x)
         [] f = "round"   -> RoundUp(x)
         [] f = "sum"     -> IF args = <<>> THEN Integer(0) ELSE SumOf(args[1].nodes))

(* substring converts to long, which is defined for finite numbers only.   *)
Long(x) == CHOOSE i \in {x.twice \div 2} : IsFinite(x)
SubstringFunction(s, args) ==
  LET start == IF Len(args) >= 2 THEN Long(RoundAway(ResultToNumber(args[2]))) ELSE 1
      after == IF Len(args) >= 3 THEN start + Long(RoundAway(ResultToNumber(args[3]))) ELSE Len(s) + 1
  IN Substring(s, IF start < 1 THEN 1 ELSE start, IF after > Len(s) THEN Len(s) ELSE after - 1)

StringFunction(f, args, c) ==
  LET s == IF args = <<>> THEN NodeStringValue(c.node) ELSE ResultToString(args[1])
      t == ResultToString(args[2])
      found == Occurrences(s, t)
  IN CASE f = "string"          -> MakeString(s)
       [] f = "concat"          -> MakeString(FoldLeft(LAMBDA u, a : u \o ResultToString(a), "", args))
       [] f = "string-length"   -> MakeNumber(Integer(Len(s)))
       [] f = "normalize-space" -> MakeString(NormalizeSpace(s))
       [] f = "starts-with"     -> MakeBool(Len(args) >= 2 /\ 1 \in found)
       [] f = "contains"        -> MakeBool(Len(args) >= 2 /\ found # {})
       [] f = "substring-before" ->
            MakeString(IF Len(args) < 2 \/ found = {} THEN "" ELSE Substring(s, 1, First(found) - 1))
       [] f = "substring-after" ->
            MakeString(IF Len(args) < 2 \/ found = {} THEN "" ELSE From(s, First(found) + Len(t)))
       [] f = "translate" /\ Len(args) >= 3 -> MakeString(Translate(s, t, ResultToString(args[3])))
       [] f = "translate" /\ Len(args) \in 1..2 -> MakeString(s)
       [] f = "substring" /\ args # <<>> -> MakeString(SubstringFunction(s, args))
       [] f \in {"translate", "substring"} /\ args = <<>> -> MakeString("")

NodeSetFunctions == {"position", "last", "count", "name", "local-name", "namespace-uri"}
BooleanFunctions == {"true", "false", "lang", "not", "boolean"}
NumberFunctions == {"number", "floor", "ceiling", "round", "sum"}
StringFunctions == {"string", "concat", "string-length", "normalize-space", "starts-with", "contains",
                    "substring-before", "substring-after", "translate", "substring"}
Function(f, args, c) ==
  CASE f \in NodeSetFunctions -> NodeSetFunction(f, args, c)
    [] f \in BooleanFunctions -> BooleanFunction(f, args)
    [] f \in NumberFunctions  -> NumberFunction(f, args)
    [] f \in StringFunctions  -> StringFunction(f, args, c)
    [] OTHER                  -> Thrown

(* evalExpr.  An error of an operand is the error of the whole.            *)
RECURSIVE EvalExpr(_, _)

(* The right operand is evaluated only when the left one does not decide.  *)
Truth(r) == IF r = Thrown THEN Thrown ELSE MakeBool(ResultToBool(r))
AndOrSwapped(t, left, c) ==
  IF ResultToBool(left) # (t.op = "or") THEN MakeBool(t.op = "or") ELSE Truth(EvalExpr(t.args[2], c))
AndOr(t, left, c) ==
  IF ResultToBool(left) = (t.op = "or") THEN MakeBool(t.op = "or") ELSE Truth(EvalExpr(t.args[2], c))

(* Both forget which nodes stand for an attribute.                         *)
Union2(l, r) == MakeNodeSet(PlainNodes(AddNew(l.nodes, r.nodes)))
Continue(filter, path) ==
  MakeNodeSet(PlainNodes(FoldLeft(LAMBDA found, n : AddNew(found, EvalPath(path, n.node).nodes),
                                  <<>>, filter.nodes)))

(* evalPredicate.  A number is cut to an integer; one that no size_t holds *)
(* is undefined there, and no position in the builds for 64 bits.          *)
Fulfils(v, position) ==
  IF v.type = "number"
  THEN IsFinite(v.number) /\ v.number.twice \in (2 * position)..(2 * position + 1)
  ELSE ResultToBool(v)

RECURSIVE Filtered(_, _, _)
Filtered(v, predicates, c) ==
  IF predicates = <<>> \/ v.type # "nodes" THEN v
  ELSE LET InNode(i) == [c EXCEPT !.node = v.nodes[i].node, !.position = i, !.size = Len(v.nodes)]
           found == [i \in DOMAIN v.nodes |-> EvalExpr(predicates[1], InNode(i))]
           surviving == {i \in DOMAIN found : Fulfils(found[i], i)}
       IN IF \E i \in DOMAIN found : found[i] = Thrown THEN Thrown
          ELSE LET kept == SetToSortSeq(surviving, <)
               IN Filtered(MakeNodeSet([k \in DOMAIN kept |-> v.nodes[kept[k]]]), Tail(predicates), c)

(* What is evaluated before anything else of an expression.                *)
OperandsOf(t) ==
  CASE IsPath(t) \/ t.op \in {"string", "number"} -> <<>>
    [] t.op \in {"and", "or", "filter"} \/ t.value = "__pathcont__" -> <<t.args[1]>>
    [] t.op = "call" /\ t.value \in {"position", "last", "true", "false", "lang"} -> <<>>
    [] OTHER -> t.args

(* The value of an expression, of those of its operands.                   *)
Applied(t, v, c) ==
  IF Thrown \in ToSet(v) THEN Thrown ELSE
  CASE IsPath(t)              -> EvalPath(t, c.node)
    [] t.op = "string"        -> MakeString(t.value)
    [] t.op = "number"        -> MakeNumber(StringToNumber(t.value))
    [] t.op = "negative"      -> MakeNumber(Negated(ResultToNumber(v[1])))
    [] t.op = "|"             -> Union2(v[1], v[2])
    [] t.op \in {"and", "or"} -> AndOr(t, v[1], c)
    [] Level(t) \in 3..(Unary - 1) -> Binary(t.op, v[1], v[2])
    [] t.op = "filter"        -> Filtered(v[1], Tail(t.args), c)
    [] t.op = "call"          -> IF t.value = "__pathcont__" THEN Continue(v[1], t.args[2])
                                 ELSE Function(t.value, v, c)
    [] OTHER -> Thrown

EvalExpr(t, c) ==
  LET operands == OperandsOf(t)
  IN Applied(t, [i \in DOMAIN operands |-> EvalExpr(operands[i], c)], c)

AtRoot == [node |-> 1, position |-> 1, size |-> 1]

(* What evaluate, evaluateString, evaluateNumber and evaluateBool return.  *)
Answers(r) ==
  [nodes |-> [i \in DOMAIN r.nodes |-> r.nodes[i].node], string |-> ResultToString(r),
   number |-> ResultToNumber(r), boolean |-> ResultToBool(r)]
NoAnswers == Answers(NoValue)

RECURSIVE Evaluable(_)
Evaluable(t) ==
  IF IsPath(t)
  THEN \/ t.args = <<>>
       \/ /\ Len(t.args) = 1 /\ t.args[1].args = <<>>
          /\ t.args[1].op \in (IF t.op = "absolute" THEN {"child"} ELSE {"child", "self", "attribute"})
          /\ t.args[1].op = "child" => t.args[1].value # AnyNode
          /\ \A type \in NodeTypes \ {"node"} : t.args[1].value # type \o "()"
  ELSE \A i \in DOMAIN t.args : Evaluable(t.args[i])

Answered(result) ==
  /\ IF result = Thrown THEN evaluation' = "failed" /\ UNCHANGED value
     ELSE evaluation' = "done" /\ value' = Answers(result)
  /\ UNCHANGED vars

EvaluateUnparsed ==
  Evaluable(tree) /\ evaluation = "waiting" /\ Answered(EvalExpr(tree, AtRoot))
Evaluate ==
  /\ status = "parsed" /\ Evaluable(tree) /\ evaluation = "waiting"
  /\ Answered(EvalExpr(tree, AtRoot))

-----------------------------------------------------------------------------
(* The reference: XPath 1.0, section 3 for the operators and section 4 for *)
(* the functions, of the values of their operands.                         *)
Decimal(x) ==
  IF IsFinite(x) /\ x.twice % 2 = 0 THEN ToString(x.twice \div 2) ELSE Spelled(x)
StringOf(r) ==
  CASE r.type = "string"  -> r.string
    [] r.type = "number"  -> Decimal(r.number)
    [] r.type = "boolean" -> IF r.boolean THEN "true" ELSE "false"
    [] r.type = "nodes"   ->
         IF r.nodes = <<>> THEN ""
         ELSE (CHOOSE n \in ToSet(r.nodes) : \A m \in ToSet(r.nodes) : n.node <= m.node).text
NumberOf(r) ==
  CASE r.type = "number"  -> r.number
    [] r.type = "boolean" -> IF r.boolean THEN Integer(1) ELSE Integer(0)
    [] OTHER -> LET x == StringToNumber(StringOf(r)) IN IF IsFinite(x) THEN x ELSE NaN
BooleanOf(r) ==
  CASE r.type = "boolean" -> r.boolean
    [] r.type = "number"  -> Less(r.number, Integer(0)) \/ Less(Integer(0), r.number)
    [] r.type = "string"  -> Len(r.string) > 0
    [] r.type = "nodes"   -> Len(r.nodes) > 0

Holds(op, l, r) ==
  LET x == NumberOf(l)
      y == NumberOf(r)
      types == {l.type, r.type}
      Same == IF "boolean" \in types THEN BooleanOf(l) = BooleanOf(r)
              ELSE IF "number" \in types THEN Equal(x, y)
              ELSE StringOf(l) = StringOf(r)
  IN CASE op = "=" -> Same
       [] op = "!=" -> ~Same
       [] op \in {"<", "<="} -> Less(x, y) \/ (op = "<=" /\ Equal(x, y))
       [] op \in {">", ">="} -> Less(y, x) \/ (op = ">=" /\ Equal(x, y))

(* A comparison with a node-set asks for a node that makes it true.        *)
Members(r, other) ==
  IF r.type # "nodes" THEN {r}
  ELSE IF other.type = "boolean" THEN {MakeBool(BooleanOf(r))}
  ELSE {MakeString(n.text) : n \in ToSet(r.nodes)}
Compares(op, l, r) == \E a \in Members(l, r), b \in Members(r, l) : Holds(op, a, b)

(* The nodes for which a predicate holds, or whose position it gives.       *)
Selects(v, position) ==
  IF v.type = "number" THEN Equal(v.number, Integer(position)) ELSE BooleanOf(v)
Selected(nodes, predicate) ==
  LET In(i) == [node |-> nodes[i].node, position |-> i, size |-> Len(nodes)]
      kept == SetToSortSeq({i \in DOMAIN nodes : Selects(EvalExpr(predicate, In(i)), i)}, <)
  IN [k \in DOMAIN kept |-> nodes[kept[k]]]

Specified(t, v) ==
  LET x == NumberOf(v[1])
      s == StringOf(v[1])
      Position(i) ==
        /\ ~Less(Integer(i), RoundUp(NumberOf(v[2])))
        /\ Len(v) > 2 => Less(Integer(i), Sum2(RoundUp(NumberOf(v[2])), RoundUp(NumberOf(v[3]))))
      Solid(i) == CharAt(s, i) # Space
  IN CASE t.op = "and" -> MakeBool(BooleanOf(v[1]) /\ BooleanOf(v[2]))
       [] t.op = "or"  -> MakeBool(BooleanOf(v[1]) \/ BooleanOf(v[2]))
       [] t.op \in {"=", "!=", "<", "<=", ">", ">="} -> MakeBool(Compares(t.op, v[1], v[2]))
       [] t.op = "div" ->
            LET y == NumberOf(v[2])
            IN MakeNumber(IF ~IsZero(y) THEN Quotient(x, y)
                          ELSE IF IsZero(x) \/ x = NaN THEN NaN ELSE Infinite(SignOf(x) * SignOf(y)))
       [] t.op = "negative" -> MakeNumber(Negated(x))
       [] t.op = "|" ->
            MakeNodeSet(SetToSortSeq(ToSet(v[1].nodes) \cup ToSet(v[2].nodes), LAMBDA m, n : m.node < n.node))
       [] t.op = "filter" ->
            MakeNodeSet(Selected(EvalExpr(Tree("filter", "", Front(t.args)), AtRoot).nodes, Last(t.args)))
       [] t.value = "string"  -> MakeString(s)
       [] t.value = "number"  -> MakeNumber(x)
       [] t.value = "boolean" -> MakeBool(BooleanOf(v[1]))
       [] t.value = "not"     -> MakeBool(~BooleanOf(v[1]))
       [] t.value = "count"   -> MakeNumber(Integer(Cardinality(ToSet(v[1].nodes))))
       [] t.value = "sum"     ->
            MakeNumber(FoldLeft(LAMBDA total, n : Sum2(total, NumberOf(MakeString(n.text))),
                                Integer(0), v[1].nodes))
       [] t.value = "round"   -> MakeNumber(IF IsFinite(x) THEN Integer((x.twice + 1) \div 2) ELSE x)
       [] t.value = "substring" ->
            MakeString(StringOver(SelectSeq(Indexes(s), Position), LAMBDA i : CharAt(s, i)))
       [] t.value = "normalize-space" ->
            MakeString(StringOver(
              SelectSeq(Indexes(s), LAMBDA i : Solid(i) \/ (i < Len(s) /\ Solid(i + 1) /\ \E j \in 1..i : Solid(j))),
              LAMBDA i : CharAt(s, i)))
       [] t.value = "contains" -> MakeBool(\E i \in 0..Len(s) : OccursAt(s, StringOf(v[2]), i + 1))

IsSpecified(t) ==
  \/ t.op \in {"negative", "|"} \/ Level(t) \in 1..4 \/ t.op = "div"
  \/ t.op = "filter" /\ Len(t.args) > 1 /\ EvalExpr(t.args[1], AtRoot).type = "nodes"
  \/ /\ t.op = "call" /\ Len(t.args) = 1
     /\ t.value \in {"string", "number", "boolean", "not", "count", "sum", "round", "normalize-space"}
  \/ t.op = "call" /\ t.value = "contains" /\ Len(t.args) = 2
  \/ t.op = "call" /\ t.value = "substring" /\ Len(t.args) \in 2..3

(* Where the code differs from it on its own account.                      *)
StandsForAttribute(r) == \E n \in ToSet(r.nodes) : n.text # NodeStringValue(n.node)
OutOfOrder(r) == \E i, j \in DOMAIN r.nodes : i < j /\ r.nodes[i].node > r.nodes[j].node
SpelledOddly(r) == r.type = "number" /\ IsFinite(r.number) /\ Decimal(r.number) # Spelled(r.number)
ReadOddly(r) == r.type \in {"string", "nodes"} /\ NumberOf(r) # ResultToNumber(r)
Departs(t, v) ==
  LET types == {v[i].type : i \in DOMAIN v}
  IN \/ \E i \in DOMAIN v : OutOfOrder(v[i]) \/ SpelledOddly(v[i]) \/ ReadOddly(v[i])
     \/ (t.op = "|" \/ t.value = "sum") /\ \E i \in DOMAIN v : StandsForAttribute(v[i])
     \/ t.op = "|" /\ OutOfOrder(Union2(v[1], v[2]))
     \/ t.op = "!=" /\ "nodes" \in types
     \/ t.op = "=" /\ types = {"nodes", "boolean"}
     \/ Level(t) = 4 /\ \E i \in DOMAIN v : Len(v[i].nodes) > 1
     \/ Level(t) = 4 /\ types = {"nodes", "boolean"}
     \/ t.op = "filter" /\ \E i \in 2..Len(v) : v[i].type = "number" /\ v[i].number.twice % 2 = 1
     \/ t.op = "div" /\ IsZero(NumberOf(v[2]))
     \/ t.value = "substring" /\ \E i \in 2..Len(v) : NumberOf(v[i]).twice % 2 = 1

ValuesOf(args) == [i \in DOMAIN args |-> EvalExpr(args[i], AtRoot)]
Answer(r) ==
  value = [nodes |-> [i \in DOMAIN r.nodes |-> r.nodes[i].node], string |-> StringOf(r),
           number |-> NumberOf(r), boolean |-> BooleanOf(r)]
AnswersWith(r) == SpelledOddly(r) \/ ReadOddly(r) \/ Answer(r)
AsSpecified(t, v) == Thrown \in ToSet(v) \/ Departs(t, v) \/ AnswersWith(Specified(t, v))

(* The answers are those of XPath 1.0, with each operator applied to the   *)
(* values of its operands: whichever side of a comparison is the node-set, *)
(* however and where in its text a value is looked up, with and without    *)
(* the right operand of "and" and "or".                                    *)
ValuesAsSpecified ==
  evaluation = "done" /\ IsSpecified(tree) => AsSpecified(tree, ValuesOf(tree.args))

(* The same without the exceptions.                                        *)
EveryValueAsSpecified ==
  evaluation = "done" /\ IsSpecified(tree) =>
    LET v == ValuesOf(tree.args) IN Thrown \in ToSet(v) \/ Answer(Specified(tree, v))

(* An answer is given, or refused, to an expression that was parsed; nodes *)
(* are of the document, and an error leaves no answer.                     *)
ValuesTypeOK ==
  /\ evaluation \in {"none", "waiting", "done", "failed"}
  /\ evaluation \in {"done", "failed"} => status = "parsed"
  /\ value.number.kind \in {"finite", "-0", "nan", "infinite"} /\ value.boolean \in BOOLEAN
  /\ ToSet(value.nodes) \subseteq DOMAIN Elements
  /\ evaluation # "done" => value = NoAnswers

ValuesInit ==
  /\ \/ Init /\ evaluation = "none"
     \/ \E t \in Valued :
          /\ evaluation = "waiting"
          /\ text = Spaced(CHOOSE toks \in Spellings(t) : TRUE, FALSE) /\ meant = t
          /\ at = 1 /\ tokens = <<>> /\ status = "lexing" /\ tree = NoTree
  /\ value = NoAnswers
ValuesNext == (Next /\ UNCHANGED <<value, evaluation>>) \/ Evaluate
ValuesSpec == ValuesInit /\ [][ValuesNext]_valuesVars
=============================================================================
