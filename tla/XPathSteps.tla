----------------------------- MODULE XPathSteps -----------------------------
(***************************************************************************)
(* XPath_Impl::evaluate for expressions that select nodes: a union of      *)
(* location paths, each possibly filtered as a whole, (path)[predicate].   *)
(* evalPathExpr takes the steps of a path one after the other, and         *)
(* evalStepResult the nodes of the current node-set one after the other.   *)
(* A tree knows no parents; the evaluator carries the stack of ancestors,  *)
(* which is empty at the top and in the predicate of a step holds the node *)
(* the step started from.                                                  *)
(*                                                                         *)
(* A document is a sequence of nodes in document order, the root element   *)
(* first.  Predicates are numbers, last(), paths of one step, comparisons  *)
(* of an attribute with a literal, and and, or and not of the latter two.  *)
(***************************************************************************)
EXTENDS Naturals, SequencesExt

CONSTANTS
  Names,          \* names of elements
  AttributeNames, \* names of attributes
  Values,         \* values of attributes
  Documents,      \* see NodeRecord
  Expressions     \* unions: sequences of records [absolute, steps, filter]

Text == "text"    \* the name of a text node, and no attribute
None == ""

NodeRecord == [name : Names \cup {Text}, parent : Nat,
               attributes : Seq([name : AttributeNames, value : Values])]

ASSUME NamesAreNames ==
  {Text, None, "*", "node()", "text()"} \cap (Names \cup AttributeNames) = {}

ASSUME DocumentsAreTrees ==
  /\ Documents \subseteq Seq(NodeRecord)
  /\ \A d \in Documents :
       /\ Len(d) > 0 /\ d[1].name \in Names /\ d[1].parent = 0
       /\ \A n \in 2..Len(d) :
            /\ d[n].parent \in 1..(n - 1) /\ d[d[n].parent].name \in Names
            /\ \A m \in (d[n].parent + 1)..(n - 1) : d[m].parent >= d[n].parent

Axes == {"child", "parent", "self", "ancestor", "ancestor-or-self", "descendant",
         "descendant-or-self", "following-sibling", "preceding-sibling", "following",
         "preceding", "attribute", "namespace"}
Tests == Names \cup AttributeNames \cup {"*", "node()", "text()"}

Conditions == [kind : {"path"}, axis : Axes, test : Tests]
              \cup [kind : {"equals", "differs"}, test : Tests, value : Values]
Predicates == [kind : {"position"}, number : Nat] \cup [kind : {"last"}] \cup Conditions
              \cup [kind : {"and", "or"}, left : Conditions, right : Conditions]
              \cup [kind : {"not"}, operand : Conditions]

StepRecord == [axis : Axes, test : Tests, predicates : Seq(Predicates)]
PathRecord == [absolute : BOOLEAN, steps : Seq(StepRecord), filter : Seq(Predicates)]

ASSUME ExpressionsSelectNodes ==
  /\ Expressions \subseteq Seq(PathRecord) \ {<<>>}
  /\ \A e \in Expressions : \A i \in DOMAIN e : e[i].steps # <<>> \/ e[i].absolute

VARIABLES
  doc,        \* the document
  expression, \* the parsed expression
  phase,      \* "path", "steps", "filter", "done"
  operand,    \* the path of the union that is evaluated
  step,       \* its step
  inputs,     \* the nodes this step has still to start from
  output,     \* the node-set it has found so far
  selected    \* the node-set of the paths before

vars == <<doc, expression, phase, operand, step, inputs, output, selected>>

-----------------------------------------------------------------------------
(* axisNodes.  Candidates are nodes, or attributes of a node.              *)

Children(n) == {c \in DOMAIN doc : doc[c].parent = n}
Subtree(n) == {m \in n..Len(doc) : \A k \in (n + 1)..m : doc[k].parent >= n}

InOrder(S) ==
  [k \in 1..Cardinality(S) |-> CHOOSE n \in S : Cardinality({m \in S : m <= n}) = k]

Sublist(s, S) == LET kept == InOrder(S) IN [k \in DOMAIN kept |-> s[kept[k]]]

(* collectDescendants pushes the children of the node as they come, so the *)
(* last of them is popped first; below a child the order is the document's.*)
Descendants(n) ==
  LET children == Reverse(InOrder(Children(n)))
  IN FlattenSeq([k \in DOMAIN children |-> InOrder(Subtree(children[k]))])

Siblings(ancestors) == IF ancestors = <<>> THEN {} ELSE Children(Last(ancestors))

(* The children of the innermost ancestor, up to the context node, or all  *)
(* of them when it is none of them.                                        *)
SiblingsAfter(n, siblings) == {s \in siblings : n \in siblings /\ s > n}
SiblingsBefore(n, siblings) == {s \in siblings : n \in siblings => s < n}

AxisNodes(axis, n, ancestors) ==
  CASE axis = "child"              -> InOrder(Children(n))
    [] axis = "self"               -> <<n>>
    [] axis = "parent"             -> IF ancestors = <<>> THEN <<>> ELSE <<Last(ancestors)>>
    [] axis = "ancestor"           -> Reverse(ancestors)
    [] axis = "ancestor-or-self"   -> <<n>> \o Reverse(ancestors)
    [] axis = "descendant"         -> Descendants(n)
    [] axis = "descendant-or-self" -> <<n>> \o Descendants(n)
    [] axis \in {"following-sibling", "following"} ->
         InOrder(SiblingsAfter(n, Siblings(ancestors)))
    [] axis \in {"preceding-sibling", "preceding"} ->
         Reverse(InOrder(SiblingsBefore(n, Siblings(ancestors))))
    [] OTHER                       -> <<>>

Candidates(axis, n, ancestors) ==
  IF axis = "attribute"
  THEN [i \in DOMAIN doc[n].attributes |-> [node |-> n, attribute |-> doc[n].attributes[i].name]]
  ELSE LET nodes == AxisNodes(axis, n, ancestors)
       IN [i \in DOMAIN nodes |-> [node |-> nodes[i], attribute |-> None]]

MatchNodeTest(c, test) ==
  IF test = "node()" THEN TRUE
  ELSE IF c.attribute # None THEN test \in {"*", c.attribute}
  ELSE IF test = "text()" THEN doc[c.node].name = Text
  ELSE doc[c.node].name \in Names /\ test \in {"*", doc[c.node].name}

Passing(axis, test, n, ancestors) ==
  LET candidates == Candidates(axis, n, ancestors)
  IN Sublist(candidates, {i \in DOMAIN candidates : MatchNodeTest(candidates[i], test)})

-----------------------------------------------------------------------------
(* A comparison with a node-set: the value of an attribute is that of the  *)
(* first one found, and /= the negation of =.                              *)
Equals(cond, n) ==
  LET found == Passing("attribute", cond.test, n, <<>>)
  IN found # <<>> /\ \E i \in DOMAIN doc[n].attributes :
       doc[n].attributes[i] = [name |-> found[1].attribute, value |-> cond.value]

Holds(cond, n, ancestors) ==
  CASE cond.kind = "path"    -> Passing(cond.axis, cond.test, n, ancestors) # <<>>
    [] cond.kind = "equals"  -> Equals(cond, n)
    [] cond.kind = "differs" -> ~Equals(cond, n)

Combined(pred, n, ancestors) ==
  CASE pred.kind = "and" -> Holds(pred.left, n, ancestors) /\ Holds(pred.right, n, ancestors)
    [] pred.kind = "or"  -> Holds(pred.left, n, ancestors) \/ Holds(pred.right, n, ancestors)
    [] pred.kind = "not" -> ~Holds(pred.operand, n, ancestors)
    [] OTHER             -> Holds(pred, n, ancestors)

EvalPredicate(pred, n, position, total, ancestors) ==
  CASE pred.kind = "position" -> pred.number = position
    [] pred.kind = "last"     -> total = position
    [] OTHER                  -> Combined(pred, n, ancestors)

(* The candidates that survive one predicate.                              *)
SurvivingRecounted(candidates, pred, ancestors) ==
  FoldLeft(LAMBDA kept, c :
             IF EvalPredicate(pred, c.node, Len(kept) + 1, Len(candidates), ancestors)
             THEN Append(kept, c) ELSE kept,
           <<>>, candidates)
Surviving(candidates, pred, ancestors) ==
  Sublist(candidates,
    {i \in DOMAIN candidates :
       EvalPredicate(pred, candidates[i].node, i, Len(candidates), ancestors)})

(* What is left after the first k predicates.                              *)
Filtered(candidates, predicates, ancestors) ==
  LET left[k \in 0..Len(predicates)] ==
        IF k = 0 THEN candidates ELSE Surviving(left[k - 1], predicates[k], ancestors)
  IN left[Len(predicates)]

(* What evalStepResult finds from one node of the current node-set.        *)
Selected(s, n) == Filtered(Passing(s.axis, s.test, n, <<>>), s.predicates, <<n>>)

(* Attributes stand for their element in a node-set.                       *)
AddAgain(nodes, n) == Append(nodes, n)
AddFirst(nodes, n) == IF Contains(nodes, n) THEN nodes ELSE <<n>> \o nodes
Add(nodes, n) == IF Contains(nodes, n) THEN nodes ELSE Append(nodes, n)
AddAll(nodes, candidates) ==
  LET found[k \in 0..Len(candidates)] ==
        IF k = 0 THEN nodes ELSE Add(found[k - 1], candidates[k].node)
  IN found[Len(candidates)]

-----------------------------------------------------------------------------
Root == 1
Candidate(n) == [node |-> n, attribute |-> None]
Path == expression[operand]
Steps == Path.steps
StartsWithChild == Path.absolute /\ Steps[1].axis = "child"

(* An absolute path of child steps starts at the root element: the first   *)
(* step is a test of it.  Other paths start from it.                       *)
RootIsChild ==
  /\ MatchNodeTest(Candidate(Root), Steps[1].test)
  /\ \A i \in DOMAIN Steps[1].predicates : EvalPredicate(Steps[1].predicates[i], Root, 1, 1, <<>>)

BeginPath ==
  /\ phase = "path"
  /\ IF Steps = <<>> THEN phase' = "filter" /\ output' = <<Root>> /\ UNCHANGED <<step, inputs>>
     ELSE /\ phase' = "steps" /\ step' = 1
          /\ IF StartsWithChild
             THEN inputs' = <<>> /\ output' = IF RootIsChild THEN <<Root>> ELSE <<>>
             ELSE inputs' = <<Root>> /\ output' = <<>>
  /\ UNCHANGED <<doc, expression, operand, selected>>

SelectFromNode ==
  /\ phase = "steps" /\ inputs # <<>>
  /\ output' = AddAll(output, Selected(Steps[step], Head(inputs)))
  /\ inputs' = Tail(inputs)
  /\ UNCHANGED <<doc, expression, phase, operand, step, selected>>

(* After //name the root element itself is added.                          *)
WithRootAfterDescendants ==
  IF /\ Path.absolute /\ step = 2
     /\ Steps[1].axis = "descendant-or-self" /\ Steps[2].axis = "child"
     /\ MatchNodeTest(Candidate(Root), Steps[2].test) /\ ~Contains(output, Root)
  THEN <<Root>> \o output ELSE output

EndStep ==
  /\ phase = "steps" /\ inputs = <<>>
  /\ IF step = Len(Steps)
     THEN phase' = "filter" /\ output' = WithRootAfterDescendants /\ UNCHANGED <<step, inputs>>
     ELSE step' = step + 1 /\ inputs' = WithRootAfterDescendants /\ output' = <<>> /\ UNCHANGED phase
  /\ UNCHANGED <<doc, expression, operand, selected>>

(* The predicates of a filter see no ancestors, and positions in the order *)
(* of the node-set; then the union with what the paths before selected.    *)
EndPath ==
  /\ phase = "filter"
  /\ selected' = AddAll(selected,
       Filtered([i \in DOMAIN output |-> Candidate(output[i])], Path.filter, <<>>))
  /\ IF operand = Len(expression) THEN phase' = "done" /\ UNCHANGED operand
     ELSE phase' = "path" /\ operand' = operand + 1
  /\ step' = 0 /\ output' = <<>>
  /\ UNCHANGED <<doc, expression, inputs>>

Init ==
  /\ doc \in Documents /\ expression \in Expressions
  /\ phase = "path" /\ operand = 1 /\ step = 0
  /\ inputs = <<>> /\ output = <<>> /\ selected = <<>>

Next == BeginPath \/ SelectFromNode \/ EndStep \/ EndPath

Spec == Init /\ [][Next]_vars

-----------------------------------------------------------------------------
TypeOK ==
  /\ phase \in {"path", "steps", "filter", "done"}
  /\ operand \in DOMAIN expression /\ step \in 0..Len(Steps)
  /\ \A nodes \in {inputs, output, selected} : nodes \in Seq(DOMAIN doc) /\ IsInjective(nodes)

(* The reference: what XPath 1.0 says a location path selects.  Node 0 is  *)
(* the root of the document, above its element; attributes stand for their *)
(* elements as they do in the code.                                        *)
Nodes == 0..Len(doc)
Below(n) == IF n = 0 THEN Nodes \ {0} ELSE Subtree(n) \ {n}
Above(n) == {m \in Nodes : n \in Below(m)}
SameParent(n) == {m \in Nodes \ {0} : n # 0 /\ doc[m].parent = doc[n].parent}

NodesOn(axis, n) ==
  CASE axis = "child"              -> {m \in Nodes \ {0} : doc[m].parent = n}
    [] axis = "self"               -> {n}
    [] axis = "parent"             -> {m \in Nodes : n # 0 /\ doc[n].parent = m}
    [] axis = "ancestor"           -> Above(n)
    [] axis = "ancestor-or-self"   -> Above(n) \cup {n}
    [] axis = "descendant"         -> Below(n)
    [] axis = "descendant-or-self" -> Below(n) \cup {n}
    [] axis = "following-sibling"  -> {m \in SameParent(n) : m > n}
    [] axis = "preceding-sibling"  -> {m \in SameParent(n) : m < n}
    [] axis = "following"          -> {m \in Nodes : m > n} \ Below(n)
    [] axis = "preceding"          -> {m \in 1..n : m < n} \ Above(n)
    [] OTHER                       -> {}

Reverses(axis) ==
  axis \in {"parent", "ancestor", "ancestor-or-self", "preceding", "preceding-sibling"}

OnAxis(axis, test, n) ==
  IF axis = "attribute"
  THEN {m \in {n} \ {0} : \E i \in DOMAIN doc[m].attributes : test \in {"*", "node()", doc[m].attributes[i].name}}
  ELSE {m \in NodesOn(axis, n) :
          IF m = 0 THEN test = "node()" ELSE MatchNodeTest(Candidate(m), test)}

HasValue(cond, n, V) ==
  \E a \in ToSet(doc[n].attributes) : cond.test \in {"*", "node()", a.name} /\ a.value \in V

True(cond, n) ==
  CASE cond.kind = "path"    -> OnAxis(cond.axis, cond.test, n) # {}
    [] cond.kind = "equals"  -> HasValue(cond, n, {cond.value})
    [] cond.kind = "differs" -> HasValue(cond, n, Values \ {cond.value})

Survive(S, axis, pred) ==
  LET Before(m) == {k \in S : IF Reverses(axis) THEN k >= m ELSE k <= m}
      PositionOf(m) == Cardinality(Before(m))
  IN {m \in S :
        CASE pred.kind = "position" -> PositionOf(m) = pred.number
          [] pred.kind = "last"     -> PositionOf(m) = Cardinality(S)
          [] pred.kind = "and"      -> True(pred.left, m) /\ True(pred.right, m)
          [] pred.kind = "or"       -> True(pred.left, m) \/ True(pred.right, m)
          [] pred.kind = "not"      -> ~True(pred.operand, m)
          [] OTHER                  -> True(pred, m)}

SurviveAll(S, axis, preds) ==
  LET left[k \in 0..Len(preds)] ==
        IF k = 0 THEN S ELSE Survive(left[k - 1], axis, preds[k])
  IN left[Len(preds)]

(* What a step selects from one node, and the nodes after each step.       *)
From(n, s) == SurviveAll(OnAxis(s.axis, s.test, n), s.axis, s.predicates)
Reached(p) ==
  LET reached[k \in 0..Len(p.steps)] ==
        IF k = 0 THEN {IF p.absolute THEN 0 ELSE Root}
        ELSE UNION {From(n, p.steps[k]) : n \in reached[k - 1]}
  IN reached

PathSelects(p) == SurviveAll(Reached(p)[Len(p.steps)] \ {0}, "child", p.filter)

XPathSelects == UNION {PathSelects(expression[i]) : i \in DOMAIN expression}

(* The paths that the evaluator means to answer as XPath does: downward    *)
(* steps, positions and neighbours of children; // at the start only where *)
(* the element of the document does not need its own treatment.            *)
Downward == {"child", "self", "descendant", "descendant-or-self", "attribute"}
Around == {"parent", "following-sibling", "preceding-sibling"}

Looks(cond, axes) ==
  CASE cond.kind = "path"   -> cond.axis \in axes
    [] cond.kind = "equals" -> cond.test \notin {"*", "node()"}
    [] OTHER                -> FALSE
PredicatesLook(preds, axes, positions) ==
  \A i \in DOMAIN preds :
    LET pred == preds[i]
    IN CASE pred.kind \in {"position", "last"} -> positions
         [] pred.kind \in {"and", "or"} -> Looks(pred.left, axes) /\ Looks(pred.right, axes)
         [] pred.kind = "not"           -> Looks(pred.operand, axes)
         [] OTHER                       -> Looks(pred, axes)

DownwardStep(s) ==
  /\ s.axis \in Downward
  /\ IF s.axis = "child" THEN PredicatesLook(s.predicates, Downward \cup Around, TRUE)
     ELSE PredicatesLook(s.predicates, Downward, FALSE)

RootIsNoExtra(p) ==
  LET first == p.steps[1] second == p.steps[2]
  IN \/ first.axis = "child" /\ PredicatesLook(first.predicates, Downward, TRUE)
     \/ /\ first = [axis |-> "descendant-or-self", test |-> "node()", predicates |-> <<>>]
        /\ Len(p.steps) > 1 /\ MatchNodeTest(Candidate(Root), second.test) =>
             \/ second.axis = "attribute"
             \/ second.axis \in {"self", "descendant-or-self"} /\ Len(p.steps) = 2
             \/ second.axis = "child" /\ second.predicates = <<>>

OnlyChildren(p) == \A i \in DOMAIN p.steps : p.steps[i].axis = "child"

DownwardPath(p) ==
  /\ \A i \in DOMAIN p.steps : DownwardStep(p.steps[i])
  /\ \A i \in 1..(Len(p.steps) - 1) : p.steps[i].axis # "attribute"
  /\ p.absolute => p.steps # <<>> /\ RootIsNoExtra(p)
  /\ PredicatesLook(p.filter, Downward, OnlyChildren(p))

(* An expression of downward paths selects exactly the nodes that XPath    *)
(* 1.0 says: with // in front, in the middle or absent, with positions     *)
(* that count among the children of one node, and with predicates on       *)
(* parents and siblings, of which the tree keeps no record.                *)
DownwardPathsSelect ==
  phase = "done" /\ (\A i \in DOMAIN expression : DownwardPath(expression[i])) =>
    ToSet(selected) = XPathSelects

(* evaluate() returns the nodes of a path of child steps in document       *)
(* order, each once, which decides what evaluateString() converts.         *)
ChildPathsInDocumentOrder ==
  phase = "done" /\ Len(expression) = 1 /\ OnlyChildren(Path) =>
    \A i, j \in DOMAIN selected : i < j => selected[i] < selected[j]

(* Every expression selects what XPath 1.0 says.                           *)
PathsSelect == phase = "done" => ToSet(selected) = XPathSelects
=============================================================================
