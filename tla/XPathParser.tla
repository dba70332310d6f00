----------------------------- MODULE XPathParser -----------------------------
(***************************************************************************)
(* xpathParse: a recursive descent over the tokens, one operator per level *)
(* of precedence in the grammar of XPath 1.0.  Each parse function is an   *)
(* operator of the position it starts at; it gives the tree and the        *)
(* position after it, or Failed when the code throws.                      *)
(*                                                                         *)
(* A tree is a record [op, value, args]: a step has its axis as op, its    *)
(* node test as value and its predicates as args; a path has its steps.    *)
(***************************************************************************)
EXTENDS XPathLexer

CONSTANT Meanings  \* trees, of which every spelling is parsed as well

VARIABLES
  tree,  \* the result
  meant  \* the tree that the text is a spelling of, or NoTree

vars == <<text, at, tokens, status, tree, meant>>

Tree(op, value, args) == [op |-> op, value |-> value, args |-> args]
NoTree == Tree("none", "", <<>>)
Result(t, next) == [tree |-> t, at |-> next]
Failed == Result(NoTree, 0)

Then(r, Continue(_)) == IF r = Failed THEN Failed ELSE Continue(r)

(* consume() never passes the End token, and peek() stops at it.           *)
TokenAt(i) == IF i > Len(tokens) THEN End ELSE tokens[i]
Is(i, types) == TokenAt(i).type \in types
IsKeyword(i, words) == Is(i, {"name"}) /\ TokenAt(i).value \in words

Expect(r, type) ==
  IF r # Failed /\ Is(r.at, {type}) THEN Result(r.tree, r.at + 1) ELSE Failed

AxisNames == {"child", "parent", "self", "ancestor", "ancestor-or-self", "descendant",
              "descendant-or-self", "following", "following-sibling", "preceding",
              "preceding-sibling", "attribute", "namespace"}
NodeTypes == {"node", "text", "comment", "processing-instruction"}

Step(axis, test, predicates) == Tree(axis, test, predicates)
AnyNode == "node()"
DescendantOrSelf == Step("descendant-or-self", AnyNode, <<>>)
Path(absolute, steps) == Tree(IF absolute THEN "absolute" ELSE "relative", "", steps)

IsLocationPathStart(i) ==
  \/ Is(i, {"/", "//", ".", "..", "@", "*"})
  \/ Is(i, {"name"}) /\ ~Is(i + 1, {"("})

ParseNodeTest(i) ==
  IF IsKeyword(i, NodeTypes) /\ Is(i + 1, {"("})
  THEN IF Is(i + 2, {")"}) THEN Result(Tree("test", TokenAt(i).value \o "()", <<>>), i + 3)
       ELSE Failed
  ELSE IF Is(i, {"*", "name"}) THEN Result(Tree("test", TokenAt(i).value, <<>>), i + 1) ELSE Failed

ParseAxisSpecifier(i) ==
  IF Is(i, {"@"}) THEN Result(Tree("axis", "attribute", <<>>), i + 1)
  ELSE IF ~(Is(i, {"name"}) /\ Is(i + 1, {"::"})) THEN Result(Tree("axis", "child", <<>>), i)
  ELSE IF IsKeyword(i, AxisNames) THEN Result(Tree("axis", TokenAt(i).value, <<>>), i + 2)
  ELSE Failed

(* Where a location path may stop after its first slash.                   *)
EndsPath(i) == Is(i, {"end", "]", ")", "|"})

(* The operators of each level, the loosest first.  Keywords are names;    *)
(* only the place where one is expected makes it an operator.              *)
BinaryOperators == <<{"or"}, {"and"}, {"=", "!="}, {"<", ">", "<=", ">="}, {"+", "-"}, {"*", "div", "mod"}>>
Unary == Len(BinaryOperators) + 1

OperatorAt(level, i) ==
  \/ IsKeyword(i, BinaryOperators[level] \cap {"or", "and", "div", "mod"})
  \/ Is(i, BinaryOperators[level] \ {"or", "and", "div", "mod"})

RECURSIVE ParseLevel(_, _), MoreOperands(_, _), MoreUnion(_), MorePredicates(_), MoreSteps(_),
          MoreArguments(_)

ParseExpr(i) == ParseLevel(1, i)

ParsePredicate(i) == IF Is(i, {"["}) THEN Expect(ParseExpr(i + 1), "]") ELSE Failed

(* Adds the predicates that follow to the tree of r.                       *)
MorePredicates(r) ==
  IF ~Is(r.at, {"["}) THEN r
  ELSE Then(ParsePredicate(r.at), LAMBDA p :
         MorePredicates(Result([r.tree EXCEPT !.args = Append(@, p.tree)], p.at)))

ParseStep(i) ==
  IF Is(i, {".."}) THEN Result(Step("parent", AnyNode, <<>>), i + 1)
  ELSE IF Is(i, {"."}) THEN Result(Step("self", AnyNode, <<>>), i + 1)
  ELSE Then(ParseAxisSpecifier(i), LAMBDA axis :
         Then(ParseNodeTest(axis.at), LAMBDA test :
           MorePredicates(Result(Step(axis.tree.value, test.tree.value, <<>>), test.at))))

(* Adds one step to the path of r.                                         *)
AddStep(r) ==
  Then(ParseStep(r.at), LAMBDA s : Result([r.tree EXCEPT !.args = Append(@, s.tree)], s.at))

(* appendPathSteps.                                                        *)
AfterSlash(r) ==
  Result(IF Is(r.at, {"//"}) THEN [r.tree EXCEPT !.args = Append(@, DescendantOrSelf)] ELSE r.tree,
         r.at + 1)
MoreSteps(r) ==
  IF r = Failed \/ ~Is(r.at, {"/", "//"}) THEN r ELSE MoreSteps(AddStep(AfterSlash(r)))

ParseLocationPath(i) ==
  LET absolute == Is(i, {"/", "//"})
      start == Result(Path(absolute, <<>>), i)
  IN IF ~absolute THEN MoreSteps(AddStep(start))
     ELSE IF EndsPath(i + 1) THEN AfterSlash(start)
     ELSE MoreSteps(AddStep(AfterSlash(start)))

MoreArguments(r) ==
  IF r = Failed \/ ~Is(r.at, {","}) THEN r
  ELSE Then(ParseExpr(r.at + 1), LAMBDA e :
         MoreArguments(Result([r.tree EXCEPT !.args = Append(@, e.tree)], e.at)))

ParseFunctionCall(i) ==
  LET call == Result(Tree("call", TokenAt(i).value, <<>>), i + 2)
  IN IF Is(i + 2, {")"}) THEN Expect(call, ")")
     ELSE Then(ParseExpr(i + 2), LAMBDA e :
            Expect(MoreArguments(Result(Tree("call", TokenAt(i).value, <<e.tree>>), e.at)), ")"))

ParsePrimaryExpr(i) ==
  IF Is(i, {"("})
  THEN Then(Expect(ParseExpr(i + 1), ")"), LAMBDA e : Result(Tree("filter", "", <<e.tree>>), e.at))
  ELSE IF Is(i, {"string", "number"}) THEN Result(Tree(TokenAt(i).type, TokenAt(i).value, <<>>), i + 1)
  ELSE IF Is(i, {"name"}) /\ Is(i + 1, {"("}) THEN ParseFunctionCall(i)
  ELSE Failed

ParseFilterExpr(i) ==
  Then(ParsePrimaryExpr(i), LAMBDA primary :
    IF ~Is(primary.at, {"["}) THEN primary
    ELSE MorePredicates(Result(Tree("filter", "", <<primary.tree>>), primary.at)))

(* After a filter the code takes one step, however many follow.            *)
ParsePathExpr(i) ==
  IF IsLocationPathStart(i) THEN ParseLocationPath(i)
  ELSE Then(ParseFilterExpr(i), LAMBDA filter :
         IF ~Is(filter.at, {"/", "//"}) THEN filter
         ELSE Then(AddStep(AfterSlash(Result(Path(FALSE, <<>>), filter.at))), LAMBDA path :
                Result(Tree("call", "__pathcont__", <<filter.tree, path.tree>>), path.at)))

MoreUnion(left) ==
  IF left = Failed \/ ~Is(left.at, {"|"}) THEN left
  ELSE Then(ParsePathExpr(left.at + 1), LAMBDA right :
         MoreUnion(Result(Tree("|", "", <<left.tree, right.tree>>), right.at)))

ParseUnaryExpr(i) ==
  IF Is(i, {"-"})
  THEN Then(ParseLevel(Unary, i + 1), LAMBDA e : Result(Tree("negative", "", <<e.tree>>), e.at))
  ELSE MoreUnion(ParsePathExpr(i))

MoreOperandsFromTheRight(level, left) ==
  IF left = Failed \/ ~OperatorAt(level, left.at) THEN left
  ELSE Then(ParseLevel(level, left.at + 1), LAMBDA right :
         Result(Tree(TokenAt(left.at).value, "", <<left.tree, right.tree>>), right.at))
MoreOperands(level, left) ==
  IF left = Failed \/ ~OperatorAt(level, left.at) THEN left
  ELSE Then(ParseLevel(level + 1, left.at + 1), LAMBDA right :
         MoreOperands(level, Result(Tree(TokenAt(left.at).value, "", <<left.tree, right.tree>>), right.at)))

ParseLevel(level, i) ==
  IF level = Unary THEN ParseUnaryExpr(i) ELSE MoreOperands(level, ParseLevel(level + 1, i))

(* The tree of the whole expression, or a token is left over.              *)
XPathParseUnfinished == ParseExpr(1)
XPathParse == Expect(ParseExpr(1), "end")

ParseAlways ==
  /\ status = "parsing" /\ tree' = XPathParse.tree /\ status' = "parsed"
  /\ UNCHANGED <<text, at, tokens, meant>>
Parse ==
  /\ status = "parsing"
  /\ LET parsed == XPathParse
     IN tree' = parsed.tree /\ status' = IF parsed = Failed THEN "rejected" ELSE "parsed"
  /\ UNCHANGED <<text, at, tokens, meant>>

-----------------------------------------------------------------------------
(* The reference: the grammar of XPath 1.0, read as how a tree may be      *)
(* spelled.  Of a tree that is spelled no operand binds looser than its    *)
(* operator; spelled operators are of type "operator".                     *)
Level(t) ==
  CASE \E l \in DOMAIN BinaryOperators : t.op \in BinaryOperators[l] ->
         CHOOSE l \in DOMAIN BinaryOperators : t.op \in BinaryOperators[l]
    [] t.op = "negative" -> Unary
    [] t.op = "|"        -> Unary + 1
    [] OTHER             -> Unary + 2

IsPath(t) == t.op \in {"relative", "absolute"}
IsPrimary(t) ==
  \/ t.op \in {"string", "number"} \/ (t.op = "call" /\ t.value # "__pathcont__")
  \/ t.op = "filter" /\ Len(t.args) = 1

(* What must bind tighter than what.                                       *)
FitsTogether(t) ==
  CASE Level(t) < Unary -> Level(t.args[1]) >= Level(t) /\ Level(t.args[2]) > Level(t)
    [] t.op = "negative" -> Level(t.args[1]) >= Unary
    [] t.op = "|" -> Level(t.args[1]) > Unary /\ Level(t.args[2]) > Unary + 1
    [] t.op = "filter" -> Len(t.args) > 1 => IsPrimary(t.args[1])
    [] t.op = "call" /\ t.value = "__pathcont__" -> ~IsPath(t.args[1]) /\ Level(t.args[1]) = Unary + 2
    [] t.op = "call" /\ t.value # "__pathcont__" -> t.value \notin NodeTypes
    [] OTHER -> TRUE

RECURSIVE WellFormed(_)
WellFormed(t) == FitsTogether(t) /\ \A i \in DOMAIN t.args : WellFormed(t.args[i])

Operator(s) == Token("operator", s)
Joined(S, T) == {s \o t : s \in S, t \in T}
JoinedAll(sets) == FoldLeft(Joined, {<<>>}, sets)

TestSpellings(test) ==
  IF \E n \in NodeTypes : test = n \o "()"
  THEN {<<Name(CHOOSE n \in NodeTypes : test = n \o "()"), Symbol("("), Symbol(")")>>}
  ELSE {<<IF test = "*" THEN Symbol("*") ELSE Name(test)>>}

AxisSpellings(axis) ==
  {<<Name(axis), Symbol("::")>>}
    \cup (IF axis = "child" THEN {<<>>} ELSE IF axis = "attribute" THEN {<<Symbol("@")>>} ELSE {})

Abbreviations(s) ==
  CASE s = Step("parent", AnyNode, <<>>) -> {<<Symbol("..")>>}
    [] s = Step("self", AnyNode, <<>>)   -> {<<Symbol(".")>>}
    [] OTHER                             -> {}

RECURSIVE Spellings(_)

Bracketed(preds) == JoinedAll([i \in DOMAIN preds |->
  Joined(Joined({<<Symbol("[")>>}, Spellings(preds[i])), {<<Symbol("]")>>})])

StepSpellings(s) ==
  Abbreviations(s) \cup Joined(Joined(AxisSpellings(s.op), TestSpellings(s.value)), Bracketed(s.args))

(* The steps after a slash: "//" stands for a whole step between two.      *)
RECURSIVE AfterSlashSpellings(_)
AfterSlashSpellings(steps) ==
  IF steps = <<>> THEN {<<>>}
  ELSE Joined(Joined({<<Symbol("/")>>}, StepSpellings(steps[1])), AfterSlashSpellings(Tail(steps)))
    \cup IF steps[1] # DescendantOrSelf \/ Len(steps) = 1 THEN {}
         ELSE Joined(Joined({<<Symbol("//")>>}, StepSpellings(steps[2])),
                     AfterSlashSpellings(Tail(Tail(steps))))

ArgumentSpellings(args) ==
  JoinedAll([i \in DOMAIN args |->
    IF i = 1 THEN Spellings(args[1]) ELSE Joined({<<Symbol(",")>>}, Spellings(args[i]))])

Spellings(t) ==
  CASE Level(t) < Unary \/ t.op = "|" ->
         Joined(Joined(Spellings(t.args[1]), {<<Operator(t.op)>>}), Spellings(t.args[2]))
    [] t.op = "negative" -> Joined({<<Operator("-")>>}, Spellings(t.args[1]))
    [] t.op \in {"string", "number"} -> {<<Token(t.op, t.value)>>}
    [] t.op = "relative" -> Joined(StepSpellings(t.args[1]), AfterSlashSpellings(Tail(t.args)))
    [] t.op = "absolute" ->
         IF t.args = <<>> THEN {<<Symbol("/")>>} ELSE AfterSlashSpellings(t.args)
    [] t.op = "filter" /\ Len(t.args) = 1 ->
         Joined(Joined({<<Symbol("(")>>}, Spellings(t.args[1])), {<<Symbol(")")>>})
    [] t.op = "filter" /\ Len(t.args) # 1 -> Joined(Spellings(t.args[1]), Bracketed(Tail(t.args)))
    [] t.op = "call" /\ t.value = "__pathcont__" ->
         Joined(Spellings(t.args[1]), AfterSlashSpellings(t.args[2].args))
    [] t.op = "call" /\ t.value # "__pathcont__" ->
         Joined(Joined({<<Name(t.value), Symbol("(")>>}, ArgumentSpellings(t.args)), {<<Symbol(")")>>})

(* The rule of XPath 1.0, section 3.7: after a token that can end an       *)
(* operand, * and the keywords are operators, and names everywhere else.   *)
OperatorSymbols == {"+", "-", "=", "!=", "<", ">", "<=", ">=", "|"}
Read(before, token) ==
  IF \/ token.type \in OperatorSymbols
     \/ /\ before # <<>>
        /\ Last(before).type \notin {"@", "::", "(", "[", ",", "/", "//", "operator"}
        /\ \/ token.type = "*"
           \/ token.type = "name" /\ token.value \in {"and", "or", "div", "mod"}
  THEN Operator(token.value) ELSE token
Disambiguated(toks) == FoldLeft(LAMBDA before, token : Append(before, Read(before, token)), <<>>, toks)

(* A path that stops after "//", and the test of a node type in front of a *)
(* relative path, are not what the grammar makes of them.                  *)
StopsAfterSlashes == \E i \in DOMAIN tokens : Is(i, {"//"}) /\ EndsPath(i + 1)
LeadingNodeType ==
  \E i \in DOMAIN tokens : /\ IsKeyword(i, NodeTypes) /\ Is(i + 1, {"("})
                           /\ i = 1 \/ ~Is(i - 1, {"/", "//", "::", "@"})

TypeOK ==
  /\ status \in {"lexing", "parsing", "parsed", "rejected"}
  /\ at \in 1..(Len(text) + 1)
  /\ \A i \in DOMAIN tokens : tokens[i].type \in Singles \cup Pairs \cup {"name", "string", "number", "end"}
  /\ tree # NoTree <=> status = "parsed"

(* A tree is a parse in the grammar of XPath 1.0 of the tokens it came     *)
(* from: nothing of them is lost or read twice, operators have the         *)
(* precedence and associate as the grammar says, and a keyword or * is an  *)
(* operator exactly where the rule of section 3.7 makes it one, though the *)
(* lexer leaves that to the position in the descent.                       *)
ParsedAsWritten ==
  status = "parsed" /\ ~StopsAfterSlashes /\ ~LeadingNodeType =>
    /\ WellFormed(tree)
    /\ Disambiguated(Front(tokens)) \in Spellings(tree)

(* An expression of the grammar is parsed, into the tree it means,         *)
(* however it abbreviates steps and sets spaces.                           *)
GrammarIsParsed == meant # NoTree /\ status \in {"parsed", "rejected"} => tree = meant

(* The same for everything: without the two exceptions.                    *)
EverythingParsedAsWritten ==
  status = "parsed" => WellFormed(tree) /\ Disambiguated(Front(tokens)) \in Spellings(tree)

-----------------------------------------------------------------------------
(* The texts: those of Texts, and the spellings of Meanings, with a space  *)
(* between any two tokens or only where two of them would be one.          *)
Atoms(token) ==
  LET Sides == (Singles \cup {"!", ":"}) \X (Singles \cup {"!", ":"})
  IN IF token.type = "string" THEN <<"'", token.value, "'">>
     ELSE CASE token.value \in Pairs -> CHOOSE h \in Sides : h[1] \o h[2] = token.value
       [] token.value = "descendant-or-self" -> <<"descendant", "-", "or", "-", "self">>
       [] OTHER -> <<token.value>>
IsWord(token) == token.type \in {"name", "number"} \/ token.value \in {"and", "or", "div", "mod"}
Merge(before, token) ==
  \/ IsWord(before) /\ (IsWord(token) \/ token.value \in {"-", "."})
  \/ before.value = "." /\ token.value = "."
Spaced(toks, everywhere) ==
  FoldLeft(LAMBDA s, i :
      s \o (IF i > 1 /\ (everywhere \/ Merge(toks[i - 1], toks[i])) THEN <<Space>> ELSE <<>>)
        \o Atoms(toks[i]),
    <<>>, [i \in DOMAIN toks |-> i])

Init ==
  /\ \/ text \in Texts /\ meant = NoTree
     \/ \E t \in Meanings : \E toks \in Spellings(t), everywhere \in BOOLEAN :
          text = Spaced(toks, everywhere) /\ meant = t
  /\ at = 1 /\ tokens = <<>> /\ status = "lexing" /\ tree = NoTree

Next == (Tokenize /\ UNCHANGED <<tree, meant>>) \/ Parse

Spec == Init /\ [][Next]_vars
=============================================================================
