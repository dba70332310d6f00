--------------------------- MODULE XPathSteps_proofs ---------------------------
(***************************************************************************)
(* Proofs about XPathSteps, for every set of documents and expressions:    *)
(* node-sets are sequences of nodes of the document without duplicates,    *)
(* a path of child steps selects its nodes in document order, and downward *)
(* paths select exactly what XPath 1.0 says.                               *)
(*                                                                         *)
(* What a fold over predicates or candidates gives is a recursive          *)
(* function; that it is defined, and what holds of it, is shown by an      *)
(* induction over the numbers up to a bound (UptoInduction).               *)
(***************************************************************************)
EXTENDS XPathSteps, FiniteSetTheorems, WellFoundedInduction, TLAPS

(* A node with all that is below it comes before another node.             *)
Before(m, n) == m < n /\ n \notin Subtree(m)

(* Each node comes before those after it in a sequence.                    *)
InRow(nodes) == \A i, j \in DOMAIN nodes : i < j => Before(nodes[i], nodes[j])

(* The evaluator is at a step of its path while it takes steps.            *)
StepsTaken ==
  /\ doc \in Documents /\ expression \in Expressions
  /\ phase = "steps" => step # 0

(* The nodes that a step of children has found are in a row, before those  *)
(* it has still to start from, which are in a row as well; and so is what  *)
(* the only path has selected.                                             *)
ChildrenInRow ==
  /\ OnlyChildren(Path) =>
       /\ InRow(output)
       /\ phase = "steps" =>
            /\ InRow(inputs)
            /\ \A i \in DOMAIN output, j \in DOMAIN inputs : Before(output[i], inputs[j])
  /\ Len(expression) = 1 /\ OnlyChildren(Path) =>
       /\ InRow(selected)
       /\ phase # "done" => selected = <<>>

(* The inductive invariants of the types and of the order; the one of what *)
(* paths select adds FoundNow and ChosenNow, below.                        *)
TypeInv == TypeOK /\ StepsTaken
IInv == TypeInv /\ ChildrenInRow

-----------------------------------------------------------------------------
(* Numbers and sequences.                                                  *)

(* The least of some numbers; induction over trees rests on it.            *)
LEMMA Least ==
  ASSUME NEW T, T \subseteq Nat, T # {}
  PROVE  \E m \in T : \A n \in T : m <= n
  <1>1. PICK m \in T : \A n \in T : ~(<<n, m>> \in OpToRel(<, Nat))
    BY WFMin, NatLessThanWellFounded
  <1>2. \A n \in T : ~(n < m)
    BY <1>1 DEF OpToRel
  <1>3. QED
    BY <1>2

(* Induction over the numbers up to a bound.                               *)
LEMMA UptoInduction ==
  ASSUME NEW n \in Nat, NEW Good, 0 \in Good, \A k \in 1..n : k - 1 \in Good => k \in Good
  PROVE  0..n \subseteq Good
  <1> DEFINE Bad == (0..n) \ Good
  <1> SUFFICES ASSUME Bad # {} PROVE FALSE
    OBVIOUS
  <1>1. Bad \subseteq Nat
    OBVIOUS
  <1>2. PICK m \in Bad : \A k \in Bad : m <= k
    <2> HIDE DEF Bad
    <2>1. QED
      BY <1>1, Least
  <1>3. m \in 1..n /\ m - 1 \in 0..n
    BY <1>1, <1>2
  <1>4. m - 1 \notin Bad
    BY <1>2, <1>3
  <1>5. QED
    BY <1>2, <1>3, <1>4

(* The values of Op stay in T, and f is what it gives step by step.        *)
StaysIn(T, N, first, Op) ==
  N \in Nat /\ first \in T /\ \A k \in 1..N, t \in T : Op[<<k, t>>] \in T

Recurses(f, T, N, first, Op) ==
  (\A k \in 0..N : f[k] \in T) /\ f[0] = first /\ \A k \in 1..N : f[k] = Op[<<k, f[k - 1]>>]

(* A recursive function over the numbers up to a bound, of which Op is the *)
(* step, is defined if its values stay in a set.                           *)
LEMMA RecursionUpto ==
  ASSUME NEW T, NEW N, NEW first, NEW Op, StaysIn(T, N, first, Op)
  PROVE  \E f : Recurses(f, T, N, first, Op)
  <1> DEFINE Defined == {n \in 0..N : \E f : Recurses(f, T, n, first, Op)}
  <1>0. N \in Nat /\ first \in T /\ \A k \in 1..N, t \in T : Op[<<k, t>>] \in T
    BY DEF StaysIn
  <1>1. 0 \in Defined
    <2>1. Recurses([k \in 0..0 |-> first], T, 0, first, Op)
      BY <1>0 DEF Recurses
    <2>2. QED
      BY <1>0, <2>1
  <1>2. ASSUME NEW n \in 1..N, n - 1 \in Defined PROVE n \in Defined
    <2>1. PICK f : Recurses(f, T, n - 1, first, Op)
      BY <1>2
    <2> DEFINE g == [k \in 0..n |-> IF k = n THEN Op[<<n, f[n - 1]>>] ELSE f[k]]
    <2>2. n \in Nat /\ n # 0 /\ n - 1 \in 0..(n - 1) /\ n \in 0..N
      BY <1>0
    <2>3. /\ \A k \in 0..(n - 1) : f[k] \in T
          /\ f[0] = first /\ \A k \in 1..(n - 1) : f[k] = Op[<<k, f[k - 1]>>]
      BY <2>1 DEF Recurses
    <2>4. Op[<<n, f[n - 1]>>] \in T
      BY <1>0, <2>2, <2>3
    <2>5. ASSUME NEW k \in 0..n PROVE g[k] \in T
      <3>1. k # n => k \in 0..(n - 1)
        BY <2>2
      <3>2. QED
        BY <2>3, <2>4, <3>1
    <2>6. g[0] = first
      BY <2>2, <2>3
    <2>7. ASSUME NEW k \in 1..n PROVE g[k] = Op[<<k, g[k - 1]>>]
      <3>1. k - 1 \in 0..n /\ k - 1 # n /\ k \in 0..n
        BY <2>2
      <3>2. g[k - 1] = f[k - 1]
        BY <3>1
      <3>3. CASE k = n
        BY <3>1, <3>2, <3>3
      <3>4. CASE k # n
        <4>1. k \in 1..(n - 1)
          BY <2>2, <3>4
        <4>2. QED
          BY <2>3, <3>1, <3>2, <3>4, <4>1
      <3>5. QED
        BY <3>3, <3>4
    <2> HIDE DEF g
    <2>8. Recurses(g, T, n, first, Op)
      BY <2>5, <2>6, <2>7 DEF Recurses
    <2>9. QED
      BY <2>2, <2>8
  <1>3. N \in Defined
    <2> HIDE DEF Defined
    <2>1. 0..N \subseteq Defined
      BY <1>0, <1>1, <1>2, UptoInduction
    <2>2. QED
      BY <1>0, <2>1
  <1>4. QED
    BY <1>3

(* Sequences of nodes, joined one after the other.                         *)
LEMMA FlattenSteps ==
  ASSUME NEW S, NEW seqs \in Seq(Seq(S))
  PROVE  \E f :
           /\ \A k \in 0..Len(seqs) : f[k] \in Seq(S)
           /\ f[0] = <<>> /\ \A k \in 1..Len(seqs) : f[k] = f[k - 1] \o seqs[k]
           /\ FlattenSeq(seqs) = f[Len(seqs)]
  <1> DEFINE N == Len(seqs)
             Op == [x \in (1..N) \X Seq(S) |-> x[2] \o seqs[x[1]]]
             Joined(g, i) == IF i = 1 THEN seqs[i] ELSE g[i - 1] \o seqs[i]
             flatten == CHOOSE g : g = [i \in 1..N |-> Joined(g, i)]
  <1>1. N \in Nat /\ \A k \in 1..N : seqs[k] \in Seq(S)
    OBVIOUS
  <1>2. \A k \in 1..N, t \in Seq(S) : t \o seqs[k] \in Seq(S)
    <2>1. \A s, t \in Seq(S) : t \o s \in Seq(S)
      OBVIOUS
    <2>2. QED
      BY <1>1, <2>1
  <1>3. \A k \in 1..N, t \in Seq(S) : Op[<<k, t>>] = t \o seqs[k]
    OBVIOUS
  <1> HIDE DEF Op
  <1>4. PICK f : /\ \A k \in 0..N : f[k] \in Seq(S)
                 /\ f[0] = <<>> /\ \A k \in 1..N : f[k] = Op[<<k, f[k - 1]>>]
    <2> DEFINE T == Seq(S)
    <2>1. <<>> \in T
      OBVIOUS
    <2>11. \A k \in 1..N, t \in T : Op[<<k, t>>] \in T
      BY <1>2, <1>3, Zenon
    <2>12. N \in Nat
      BY <1>1
    <2> HIDE DEF N, T
    <2>2. StaysIn(T, N, <<>>, Op)
      BY <2>1, <2>11, <2>12 DEF StaysIn
    <2>3. \E f : Recurses(f, T, N, <<>>, Op)
      BY <2>2, RecursionUpto
    <2>4. QED
      BY <2>3 DEF Recurses, T
  <1>5. ASSUME NEW k \in 1..N PROVE f[k] = f[k - 1] \o seqs[k]
    <2>1. k - 1 \in 0..N
      BY <1>1
    <2>2. QED
      BY <1>3, <1>4, <2>1
  <1>6. ASSUME NEW k \in 1..N, k = 1 PROVE f[k] = seqs[k]
    <2>1. f[k] = f[k - 1] \o seqs[k]
      BY <1>5
    <2>2. k - 1 = 0
      BY <1>6
    <2>3. f[k - 1] = <<>>
      <3>1. f[0] = <<>>
        BY <1>4
      <3>2. QED
        BY <2>2, <3>1, Zenon
    <2>4. \A q \in Seq(S) : <<>> \o q = q
      OBVIOUS
    <2>5. seqs[k] \in Seq(S)
      BY <1>1
    <2>6. QED
      BY <2>1, <2>3, <2>4, <2>5, Zenon
  <1>7. CASE N = 0
    <2>1. seqs = <<>>
      BY <1>7
    <2>2. FlattenSeq(seqs) = <<>>
      BY <1>7, <2>1 DEF FlattenSeq
    <2>3. QED
      BY <1>4, <1>5, <1>7, <2>2
  <1>8. CASE N # 0
    <2> DEFINE g == [i \in 1..N |-> f[i]]
    <2>1. ASSUME NEW i \in 1..N PROVE g[i] = Joined(g, i)
      <3>1. CASE i = 1
        <4>1. f[i] = seqs[i]
          BY <1>6, <3>1
        <4>2. QED
          BY <3>1, <4>1
      <3>2. CASE i # 1
        <4>1. i - 1 \in 1..N
          BY <1>1, <3>2
        <4>2. g[i - 1] = f[i - 1] /\ g[i] = f[i]
          BY <4>1
        <4>3. QED
          BY <1>5, <3>2, <4>2
      <3>3. QED
        BY <3>1, <3>2
    <2>2. g = [i \in 1..N |-> Joined(g, i)]
      <3> HIDE DEF Joined
      <3>1. QED
        BY <2>1
    <2>3. flatten = [i \in 1..N |-> Joined(flatten, i)]
      <3> HIDE DEF Joined, g
      <3>1. QED
        BY <2>2
    <2>4. FlattenSeq(seqs) = flatten[N]
      BY <1>8 DEF FlattenSeq
    <2> HIDE DEF flatten, g
    <2>5. \A i \in 1..N : flatten[i] = Joined(flatten, i)
      <3> HIDE DEF Joined
      <3>1. QED
        BY <2>3
    <2> DEFINE Good == {k \in 0..N : k = 0 \/ flatten[k] = f[k]}
    <2>6. ASSUME NEW k \in 1..N, k - 1 \in Good PROVE k \in Good
      <3>1. CASE k = 1
        <4>1. f[k] = seqs[k]
          BY <1>6, <3>1
        <4>2. flatten[k] = seqs[k]
          BY <2>5, <3>1
        <4>3. QED
          BY <1>1, <4>1, <4>2
      <3>2. CASE k # 1
        <4>1. flatten[k - 1] = f[k - 1]
          BY <2>6, <3>2
        <4>2. flatten[k] = flatten[k - 1] \o seqs[k]
          BY <2>5, <3>2
        <4>3. flatten[k] = f[k]
          BY <1>5, <4>1, <4>2, Zenon
        <4>4. QED
          BY <1>1, <4>3
      <3>3. QED
        BY <3>1, <3>2
    <2>7. N \in Good
      <3>1. 0 \in Good
        BY <1>1
      <3> HIDE DEF Good
      <3>2. 0..N \subseteq Good
        BY <1>1, <2>6, <3>1, UptoInduction
      <3>3. QED
        BY <1>1, <3>2
    <2>8. QED
      BY <1>4, <1>5, <1>8, <2>4, <2>7
  <1>9. QED
    BY <1>7, <1>8

(* The members of two sequences, joined.                                   *)
LEMMA ToSetConcat ==
  ASSUME NEW S, NEW s \in Seq(S), NEW t \in Seq(S)
  PROVE  ToSet(s \o t) = ToSet(s) \cup ToSet(t)
  <1>1. /\ Len(s) \in Nat /\ Len(t) \in Nat /\ DOMAIN (s \o t) = 1..(Len(s) + Len(t))
        /\ DOMAIN s = 1..Len(s) /\ DOMAIN t = 1..Len(t)
        /\ \A i \in 1..(Len(s) + Len(t)) :
             (s \o t)[i] = IF i <= Len(s) THEN s[i] ELSE t[i - Len(s)]
    OBVIOUS
  <1>2. ASSUME NEW i \in DOMAIN s PROVE \E k \in DOMAIN (s \o t) : (s \o t)[k] = s[i]
    <2>1. i \in 1..(Len(s) + Len(t)) /\ i <= Len(s)
      BY <1>1
    <2>2. QED
      BY <1>1, <2>1
  <1>3. ASSUME NEW i \in DOMAIN t PROVE \E k \in DOMAIN (s \o t) : (s \o t)[k] = t[i]
    <2>1. Len(s) + i \in 1..(Len(s) + Len(t)) /\ ~(Len(s) + i <= Len(s)) /\ (Len(s) + i) - Len(s) = i
      BY <1>1
    <2>2. QED
      BY <1>1, <2>1
  <1>4. ASSUME NEW k \in DOMAIN (s \o t)
        PROVE  (\E i \in DOMAIN s : (s \o t)[k] = s[i]) \/ (\E i \in DOMAIN t : (s \o t)[k] = t[i])
    <2>1. CASE k <= Len(s)
      <3>1. k \in DOMAIN s
        BY <1>1, <2>1
      <3>2. QED
        BY <1>1, <2>1, <3>1
    <2>2. CASE ~(k <= Len(s))
      <3>1. k - Len(s) \in DOMAIN t
        BY <1>1, <2>2
      <3>2. QED
        BY <1>1, <2>2, <3>1
    <2>3. QED
      BY <2>1, <2>2
  <1>5. \A q : ToSet(q) = {q[i] : i \in DOMAIN q}
    BY DEF ToSet
  <1> DEFINE both == s \o t
  <1> HIDE DEF both
  <1>6. ToSet(both) \subseteq ToSet(s) \cup ToSet(t)
    BY <1>4, <1>5 DEF both
  <1>7. ToSet(s) \cup ToSet(t) \subseteq ToSet(both)
    BY <1>2, <1>3, <1>5 DEF both
  <1>8. QED
    BY <1>6, <1>7 DEF both

(* Joined, they are a sequence of nodes, and have the members of each.     *)
LEMMA FlattenType ==
  ASSUME NEW S, NEW seqs \in Seq(Seq(S))
  PROVE  /\ FlattenSeq(seqs) \in Seq(S)
         /\ ToSet(FlattenSeq(seqs)) = UNION {ToSet(seqs[k]) : k \in 1..Len(seqs)}
  <1> DEFINE N == Len(seqs)
  <1>1. N \in Nat /\ \A k \in 1..N : seqs[k] \in Seq(S)
    OBVIOUS
  <1>2. PICK f :
          /\ \A k \in 0..N : f[k] \in Seq(S)
          /\ f[0] = <<>> /\ \A k \in 1..N : f[k] = f[k - 1] \o seqs[k]
          /\ FlattenSeq(seqs) = f[N]
    BY FlattenSteps
  <1> DEFINE Members(k) == UNION {ToSet(seqs[i]) : i \in 1..k}
             Good == {k \in 0..N : ToSet(f[k]) = Members(k)}
  <1>3. 0 \in Good
    BY <1>1, <1>2 DEF ToSet
  <1>4. ASSUME NEW k \in 1..N, k - 1 \in Good PROVE k \in Good
    <2>1. f[k - 1] \in Seq(S) /\ seqs[k] \in Seq(S) /\ f[k] = f[k - 1] \o seqs[k]
      <3>1. k - 1 \in 0..N
        BY <1>1
      <3>2. QED
        BY <1>1, <1>2, <3>1
    <2>2. ToSet(f[k]) = ToSet(f[k - 1]) \cup ToSet(seqs[k])
      BY <2>1, ToSetConcat
    <2>3. ToSet(f[k - 1]) = Members(k - 1)
      BY <1>4
    <2>4. Members(k) = Members(k - 1) \cup ToSet(seqs[k])
      <3>1. 1..k = 1..(k - 1) \cup {k}
        BY <1>1
      <3>2. QED
        BY <3>1, Zenon
    <2> HIDE DEF Members
    <2>5. k \in 0..N
      BY <1>1
    <2>6. QED
      BY <2>2, <2>3, <2>4, <2>5
  <1>5. N \in Good
    <2> HIDE DEF Good
    <2>1. 0..N \subseteq Good
      BY <1>1, <1>3, <1>4, UptoInduction
    <2>2. QED
      BY <1>1, <2>1
  <1>6. QED
    BY <1>1, <1>2, <1>5

(* InOrder lists members of its set, each after the lesser ones.           *)
LEMMA InOrderIncreases ==
  ASSUME NEW S, S \subseteq Nat, IsFiniteSet(S)
  PROVE  /\ Cardinality(S) \in Nat /\ DOMAIN InOrder(S) = 1 .. Cardinality(S)
         /\ \A k \in DOMAIN InOrder(S) : InOrder(S)[k] \in S
         /\ \A i, j \in DOMAIN InOrder(S) : i < j => InOrder(S)[i] < InOrder(S)[j]
         /\ \A n \in S : \E k \in DOMAIN InOrder(S) : InOrder(S)[k] = n
  <1> DEFINE Upto(n) == {m \in S : m <= n}
             N == Cardinality(S)
             rank == [n \in S |-> Cardinality(Upto(n))]
  <1>1. N \in Nat
    BY FS_CardinalityType
  <1>2. \A n \in S : IsFiniteSet(Upto(n)) /\ Cardinality(Upto(n)) \in Nat /\ Cardinality(Upto(n)) <= N
    <2> SUFFICES ASSUME NEW n \in S
                 PROVE  IsFiniteSet(Upto(n)) /\ Cardinality(Upto(n)) \in Nat /\ Cardinality(Upto(n)) <= N
      OBVIOUS
    <2>1. Upto(n) \in SUBSET S
      OBVIOUS
    <2> HIDE DEF Upto
    <2>2. QED
      BY <2>1, FS_Subset, FS_CardinalityType
  <1>3. \A n \in S : n \in Upto(n)
    OBVIOUS
  <1>4. \A n \in S : Cardinality(Upto(n)) # 0
    BY <1>2, <1>3, FS_EmptySet
  <1>5. \A m, n \in S : m < n => Cardinality(Upto(m)) < Cardinality(Upto(n))
    <2> SUFFICES ASSUME NEW m \in S, NEW n \in S, m < n
                 PROVE  Cardinality(Upto(m)) < Cardinality(Upto(n))
      OBVIOUS
    <2>1. Upto(m) \in SUBSET Upto(n)
      <3>1. \A x \in S : x <= m => x <= n
        OBVIOUS
      <3>2. QED
        BY <3>1
    <2>2. n \in Upto(n) /\ n \notin Upto(m)
      OBVIOUS
    <2> HIDE DEF Upto
    <2>3. Cardinality(Upto(m)) <= Cardinality(Upto(n)) /\ Cardinality(Upto(m)) # Cardinality(Upto(n))
      <3>1. Upto(m) # Upto(n)
        BY <2>2
      <3>2. QED
        BY <1>2, <2>1, <3>1, FS_Subset
    <2>4. QED
      BY <1>2, <2>3
  <1> HIDE DEF Upto
  <1>6. rank \in [S -> 1 .. N]
    BY <1>1, <1>2, <1>4
  <1>7. \A m, n \in S : rank[m] = rank[n] => m = n
    <2>1. \A m, n \in S : m # n => m < n \/ n < m
      OBVIOUS
    <2>2. QED
      BY <1>2, <1>5, <2>1
  <1>8. rank \in Injection(S, 1 .. N)
    BY <1>6, <1>7 DEF Injection, IsInjective
  <1>9. IsFiniteSet(1 .. N) /\ Cardinality(1 .. N) = N
    BY <1>1, FS_Interval
  <1>10. rank \in Surjection(S, 1 .. N)
    BY <1>8, <1>9, FS_Injection
  <1>11. \A k \in 1 .. N : \E n \in S : Cardinality(Upto(n)) = k
    BY <1>10 DEF Surjection
  <1>12. InOrder(S) = [k \in 1 .. N |-> CHOOSE n \in S : Cardinality(Upto(n)) = k]
    BY DEF InOrder, Upto
  <1>13. \A k \in 1 .. N : InOrder(S)[k] \in S /\ Cardinality(Upto(InOrder(S)[k])) = k
    BY <1>11, <1>12
  <1>14. ASSUME NEW i \in 1 .. N, NEW j \in 1 .. N, i < j
         PROVE  InOrder(S)[i] < InOrder(S)[j]
    <2>1. InOrder(S)[i] \in Nat /\ InOrder(S)[j] \in Nat
      BY <1>13
    <2>2. InOrder(S)[j] # InOrder(S)[i]
      BY <1>13, <1>14
    <2>3. ASSUME InOrder(S)[j] < InOrder(S)[i] PROVE FALSE
      <3>1. Cardinality(Upto(InOrder(S)[j])) < Cardinality(Upto(InOrder(S)[i]))
        BY <1>5, <1>13, <2>3
      <3>2. j < i
        BY <1>13, <3>1
      <3>3. QED
        BY <1>14, <3>2
    <2>4. QED
      BY <2>1, <2>2, <2>3
  <1>15. \A n \in S : rank[n] \in 1 .. N /\ InOrder(S)[rank[n]] = n
    <2> SUFFICES ASSUME NEW n \in S PROVE rank[n] \in 1 .. N /\ InOrder(S)[rank[n]] = n
      OBVIOUS
    <2>1. rank[n] \in 1 .. N
      BY <1>6
    <2>2. InOrder(S)[rank[n]] \in S /\ rank[InOrder(S)[rank[n]]] = rank[n]
      BY <1>13, <2>1
    <2>3. QED
      BY <1>7, <2>1, <2>2
  <1>16. QED
    BY <1>1, <1>12, <1>13, <1>14, <1>15

(* What is left of a sequence keeps its order.                             *)
Keeps(t, s) ==
  /\ \A i \in DOMAIN t : \E a \in DOMAIN s : t[i] = s[a]
  /\ \A i, j \in DOMAIN t : i < j => \E a, b \in DOMAIN s : a < b /\ t[i] = s[a] /\ t[j] = s[b]

(* And so does what is left of that.                                       *)
LEMMA KeepsTransitive ==
  ASSUME NEW r, NEW s, NEW t, Keeps(t, s), Keeps(s, r)
  PROVE  Keeps(t, r)
  BY DEF Keeps

(* A selection of places leaves the members there in their order.          *)
LEMMA SublistKeeps ==
  ASSUME NEW D, NEW s \in Seq(D), NEW S \in SUBSET DOMAIN s
  PROVE  Sublist(s, S) \in Seq(D) /\ Keeps(Sublist(s, S), s)
  <1> DEFINE kept == InOrder(S)
             N == Cardinality(S)
  <1>1. Len(s) \in Nat /\ DOMAIN s = 1..Len(s)
    OBVIOUS
  <1>2. S \subseteq Nat /\ IsFiniteSet(S)
    <2>1. IsFiniteSet(1..Len(s))
      BY <1>1, FS_Interval
    <2>2. QED
      BY <1>1, <2>1, FS_Subset
  <1>3. /\ N \in Nat /\ DOMAIN kept = 1..N
        /\ \A k \in DOMAIN kept : kept[k] \in S
        /\ \A i, j \in DOMAIN kept : i < j => kept[i] < kept[j]
    BY <1>2, InOrderIncreases
  <1>4. Sublist(s, S) = [k \in DOMAIN kept |-> s[kept[k]]]
    BY DEF Sublist
  <1> HIDE DEF kept, N
  <1>5. Sublist(s, S) = [k \in 1..N |-> s[kept[k]]]
    BY <1>3, <1>4
  <1>6. \A k \in 1..N : s[kept[k]] \in D
    BY <1>1, <1>3
  <1>7. Sublist(s, S) \in Seq(D)
    BY <1>3, <1>5, <1>6
  <1>8. Keeps(Sublist(s, S), s)
    BY <1>3, <1>5 DEF Keeps
  <1>9. QED
    BY <1>7, <1>8

-----------------------------------------------------------------------------
(* Candidates.                                                             *)

CandidateSet == [node : DOMAIN doc, attribute : AttributeNames \cup {None}]

(* The shape of a document.                                                *)
LEMMA DocumentShape ==
  ASSUME doc \in Documents
  PROVE  /\ Len(doc) \in Nat /\ DOMAIN doc = 1..Len(doc) /\ Root \in DOMAIN doc
         /\ DOMAIN doc \subseteq Nat
         /\ \A n \in DOMAIN doc :
              /\ doc[n].parent \in Nat /\ doc[n].parent < n
              /\ \A m \in (doc[n].parent + 1)..(n - 1) : doc[m].parent >= doc[n].parent
              /\ doc[n].attributes \in Seq([name : AttributeNames, value : Values])
  <1>1. doc \in Seq(NodeRecord) /\ Len(doc) > 0 /\ doc[1].parent = 0
    BY DocumentsAreTrees
  <1>2. Len(doc) \in Nat /\ DOMAIN doc = 1..Len(doc) /\ 1 \in DOMAIN doc
    BY <1>1
  <1>3. \A n \in DOMAIN doc : doc[n] \in NodeRecord
    BY <1>1, <1>2
  <1>4. \A r \in NodeRecord : r.parent \in Nat /\ r.attributes \in Seq([name : AttributeNames, value : Values])
    BY DEF NodeRecord
  <1>5. \A n \in 2..Len(doc) :
          /\ doc[n].parent \in 1..(n - 1)
          /\ \A m \in (doc[n].parent + 1)..(n - 1) : doc[m].parent >= doc[n].parent
    BY DocumentsAreTrees
  <1>6. ASSUME NEW n \in DOMAIN doc
        PROVE  /\ doc[n].parent < n
               /\ \A m \in (doc[n].parent + 1)..(n - 1) : doc[m].parent >= doc[n].parent
    <2>1. n = 1 \/ n \in 2..Len(doc)
      BY <1>2
    <2>2. CASE n = 1
      BY <1>1, <2>2
    <2>3. CASE n \in 2..Len(doc)
      BY <1>5, <2>3
    <2>4. QED
      BY <2>1, <2>2, <2>3
  <1>7. \A n \in DOMAIN doc :
          doc[n].parent \in Nat /\ doc[n].attributes \in Seq([name : AttributeNames, value : Values])
    BY <1>3, <1>4
  <1>8. DOMAIN doc \subseteq Nat
    BY <1>2
  <1>9. QED
    BY <1>2, <1>6, <1>7, <1>8 DEF Root

(* A set of nodes, listed in document order, is a sequence of nodes.       *)
LEMMA InOrderNodes ==
  ASSUME doc \in Documents, NEW S, S \subseteq DOMAIN doc
  PROVE  /\ InOrder(S) \in Seq(DOMAIN doc)
         /\ \A i \in DOMAIN InOrder(S) : InOrder(S)[i] \in S
         /\ \A i, j \in DOMAIN InOrder(S) : i < j => InOrder(S)[i] < InOrder(S)[j]
         /\ ToSet(InOrder(S)) = S
  <1>1. S \subseteq Nat /\ IsFiniteSet(S)
    <2>1. IsFiniteSet(1..Len(doc))
      BY DocumentShape, FS_Interval
    <2>2. QED
      BY <2>1, DocumentShape, FS_Subset
  <1>2. /\ Cardinality(S) \in Nat /\ DOMAIN InOrder(S) = 1..Cardinality(S)
        /\ \A i \in DOMAIN InOrder(S) : InOrder(S)[i] \in S
        /\ \A i, j \in DOMAIN InOrder(S) : i < j => InOrder(S)[i] < InOrder(S)[j]
    BY <1>1, InOrderIncreases
  <1>3. InOrder(S) \in [1..Cardinality(S) -> DOMAIN doc]
    <2>1. InOrder(S) = [k \in 1..Cardinality(S) |->
                          CHOOSE n \in S : Cardinality({m \in S : m <= n}) = k]
      BY DEF InOrder
    <2> DEFINE listed(k) == CHOOSE n \in S : Cardinality({m \in S : m <= n}) = k
    <2>2. InOrder(S) = [k \in 1..Cardinality(S) |-> listed(k)]
      BY <2>1
    <2> HIDE DEF listed
    <2>3. QED
      BY <1>2, <2>2
  <1>4. \A n \in S : \E k \in DOMAIN InOrder(S) : InOrder(S)[k] = n
    BY <1>1, InOrderIncreases
  <1>5. ToSet(InOrder(S)) = S
    BY <1>2, <1>4 DEF ToSet
  <1>6. QED
    BY <1>2, <1>3, <1>5

(* Outside of predicates the evaluator finds nodes of the document.        *)
LEMMA AxisNodesType ==
  ASSUME doc \in Documents, NEW axis, NEW n \in DOMAIN doc
  PROVE  AxisNodes(axis, n, <<>>) \in Seq(DOMAIN doc)
  <1>1. Children(n) \subseteq DOMAIN doc
    BY DEF Children
  <1>2. \A m \in DOMAIN doc : Subtree(m) \subseteq DOMAIN doc
    BY DocumentShape DEF Subtree
  <1>3. InOrder(Children(n)) \in Seq(DOMAIN doc)
    BY <1>1, InOrderNodes
  <1>4. Descendants(n) \in Seq(DOMAIN doc)
    <2> DEFINE children == Reverse(InOrder(Children(n)))
               lists == [k \in DOMAIN children |-> InOrder(Subtree(children[k]))]
    <2>1. children \in Seq(DOMAIN doc)
      BY <1>3 DEF Reverse
    <2>2. Descendants(n) = FlattenSeq(lists)
      BY DEF Descendants
    <2> HIDE DEF children
    <2>3. DOMAIN children = 1..Len(children) /\ Len(children) \in Nat
      BY <2>1
    <2>4. \A k \in 1..Len(children) : InOrder(Subtree(children[k])) \in Seq(DOMAIN doc)
      <3>1. \A k \in 1..Len(children) : children[k] \in DOMAIN doc
        BY <2>1
      <3>2. QED
        BY <1>2, <3>1, InOrderNodes
    <2>5. lists \in [1..Len(children) -> Seq(DOMAIN doc)]
      BY <2>3, <2>4
    <2>6. lists \in Seq(Seq(DOMAIN doc))
      <3> HIDE DEF lists
      <3>1. QED
        BY <2>3, <2>5
    <2>7. QED
      BY <2>2, <2>6, FlattenType
  <1>5. SiblingsAfter(n, Siblings(<<>>)) = {} /\ SiblingsBefore(n, Siblings(<<>>)) = {}
    BY DEF Siblings, SiblingsAfter, SiblingsBefore
  <1>6. InOrder({}) \in Seq(DOMAIN doc)
    BY InOrderNodes
  <1>7. InOrder(SiblingsAfter(n, Siblings(<<>>))) = InOrder({})
    BY <1>5
  <1>8. InOrder(SiblingsBefore(n, Siblings(<<>>))) = InOrder({})
    BY <1>5
  <1>9. Reverse(InOrder({})) \in Seq(DOMAIN doc)
    BY <1>6 DEF Reverse
  <1>10. Reverse(<<>>) = <<>> /\ <<n>> \in Seq(DOMAIN doc) /\ <<>> \in Seq(DOMAIN doc)
    BY DEF Reverse
  <1>11. <<n>> \o Reverse(<<>>) \in Seq(DOMAIN doc) /\ <<n>> \o Descendants(n) \in Seq(DOMAIN doc)
    <2>1. \A s \in Seq(DOMAIN doc) : <<n>> \o s \in Seq(DOMAIN doc)
      OBVIOUS
    <2>2. Reverse(<<>>) \in Seq(DOMAIN doc)
      BY <1>10
    <2>3. QED
      BY <1>4, <2>1, <2>2
  <1>12. QED
    BY <1>3, <1>4, <1>6, <1>7, <1>8, <1>9, <1>10, <1>11, Zenon DEF AxisNodes

(* With attributes, they are candidates.                                   *)
LEMMA CandidatesType ==
  ASSUME doc \in Documents, NEW axis, NEW n \in DOMAIN doc
  PROVE  Candidates(axis, n, <<>>) \in Seq(CandidateSet)
  <1>1. CASE axis = "attribute"
    <2> DEFINE attributes == doc[n].attributes
               R == [name : AttributeNames, value : Values]
    <2>1. attributes \in Seq(R)
      BY DocumentShape
    <2> HIDE DEF attributes, R
    <2>2. DOMAIN attributes = 1..Len(attributes) /\ Len(attributes) \in Nat
      BY <2>1
    <2>3. \A i \in DOMAIN attributes : [node |-> n, attribute |-> attributes[i].name] \in CandidateSet
      <3>1. \A i \in DOMAIN attributes : attributes[i] \in R
        BY <2>1, <2>2
      <3>2. \A a \in R : a.name \in AttributeNames
        BY DEF R
      <3>3. QED
        BY <3>1, <3>2 DEF CandidateSet
    <2>4. Candidates(axis, n, <<>>) = [i \in DOMAIN attributes |-> [node |-> n, attribute |-> attributes[i].name]]
      BY <1>1 DEF Candidates, attributes
    <2>5. QED
      BY <2>2, <2>3, <2>4
  <1>2. CASE axis # "attribute"
    <2> DEFINE list == AxisNodes(axis, n, <<>>)
    <2>1. list \in Seq(DOMAIN doc)
      BY AxisNodesType
    <2>2. Candidates(axis, n, <<>>) = [i \in DOMAIN list |-> [node |-> list[i], attribute |-> None]]
      BY <1>2 DEF Candidates
    <2> HIDE DEF list
    <2>3. DOMAIN list = 1..Len(list) /\ Len(list) \in Nat
      BY <2>1
    <2>4. \A i \in DOMAIN list : [node |-> list[i], attribute |-> None] \in CandidateSet
      BY <2>1 DEF CandidateSet
    <2>5. QED
      BY <2>2, <2>3, <2>4
  <1>3. QED
    BY <1>1, <1>2

(* The node test keeps candidates in their order.                          *)
LEMMA PassingKeeps ==
  ASSUME doc \in Documents, NEW axis, NEW test, NEW n \in DOMAIN doc
  PROVE  /\ Passing(axis, test, n, <<>>) \in Seq(CandidateSet)
         /\ Keeps(Passing(axis, test, n, <<>>), Candidates(axis, n, <<>>))
  <1> DEFINE candidates == Candidates(axis, n, <<>>)
             S == {i \in DOMAIN candidates : MatchNodeTest(candidates[i], test)}
  <1>1. candidates \in Seq(CandidateSet)
    BY CandidatesType
  <1>2. Passing(axis, test, n, <<>>) = Sublist(candidates, S)
    BY DEF Passing
  <1>3. S \in SUBSET DOMAIN candidates
    OBVIOUS
  <1> HIDE DEF candidates, S
  <1>4. Sublist(candidates, S) \in Seq(CandidateSet) /\ Keeps(Sublist(candidates, S), candidates)
    BY <1>1, <1>3, SublistKeeps
  <1>5. QED
    BY <1>2, <1>4 DEF candidates

(* So does a predicate.                                                    *)
LEMMA SurvivingKeeps ==
  ASSUME NEW D, NEW candidates \in Seq(D), NEW pred, NEW ancestors
  PROVE  /\ Surviving(candidates, pred, ancestors) \in Seq(D)
         /\ Keeps(Surviving(candidates, pred, ancestors), candidates)
  <1> DEFINE S == {i \in DOMAIN candidates :
                     EvalPredicate(pred, candidates[i].node, i, Len(candidates), ancestors)}
  <1>1. S \in SUBSET DOMAIN candidates
    OBVIOUS
  <1>2. Surviving(candidates, pred, ancestors) = Sublist(candidates, S)
    BY DEF Surviving
  <1> HIDE DEF S
  <1>3. QED
    BY <1>1, <1>2, SublistKeeps

(* What is left after each predicate of a step.                            *)
LEMMA FilteredSteps ==
  ASSUME NEW D, NEW candidates \in Seq(D), NEW R, NEW predicates \in Seq(R), NEW ancestors
  PROVE  \E left :
           /\ \A k \in 0..Len(predicates) : left[k] \in Seq(D)
           /\ left[0] = candidates
           /\ \A k \in 1..Len(predicates) : left[k] = Surviving(left[k - 1], predicates[k], ancestors)
           /\ Filtered(candidates, predicates, ancestors) = left[Len(predicates)]
  <1> DEFINE N == Len(predicates)
             Op == [x \in (1..N) \X Seq(D) |-> Surviving(x[2], predicates[x[1]], ancestors)]
             After(f, k) == IF k = 0 THEN candidates ELSE Surviving(f[k - 1], predicates[k], ancestors)
             left == CHOOSE f : f = [k \in 0..N |-> After(f, k)]
  <1>1. N \in Nat
    OBVIOUS
  <1>2. \A k \in 1..N, t \in Seq(D) : Surviving(t, predicates[k], ancestors) \in Seq(D)
    BY SurvivingKeeps
  <1>3. \A k \in 1..N, t \in Seq(D) : Op[<<k, t>>] = Surviving(t, predicates[k], ancestors)
    OBVIOUS
  <1> HIDE DEF Op
  <1>4. PICK f : /\ \A k \in 0..N : f[k] \in Seq(D)
                 /\ f[0] = candidates /\ \A k \in 1..N : f[k] = Op[<<k, f[k - 1]>>]
    <2>1. \A k \in 1..N, t \in Seq(D) : Op[<<k, t>>] \in Seq(D)
      BY <1>2, <1>3
    <2> HIDE DEF N, left
    <2>2. StaysIn(Seq(D), N, candidates, Op)
      BY <1>1, <2>1 DEF StaysIn
    <2>3. \E f : Recurses(f, Seq(D), N, candidates, Op)
      BY <2>2, RecursionUpto
    <2>4. QED
      BY <2>3 DEF Recurses
  <1>5. ASSUME NEW k \in 1..N PROVE f[k] = Surviving(f[k - 1], predicates[k], ancestors)
    <2>1. k - 1 \in 0..N
      BY <1>1
    <2>2. QED
      BY <1>3, <1>4, <2>1
  <1> DEFINE g == [k \in 0..N |-> f[k]]
  <1>6. ASSUME NEW k \in 0..N PROVE g[k] = After(g, k)
    <2>1. k # 0 => k \in 1..N /\ k - 1 \in 0..N
      BY <1>1
    <2>2. QED
      BY <1>4, <1>5, <2>1
  <1>7. g = [k \in 0..N |-> After(g, k)]
    <2> HIDE DEF After
    <2>1. QED
      BY <1>6
  <1>8. left = [k \in 0..N |-> After(left, k)]
    <2> HIDE DEF After, g
    <2>1. QED
      BY <1>7
  <1>9. Filtered(candidates, predicates, ancestors) = left[N]
    BY DEF Filtered
  <1> HIDE DEF left
  <1>10. \A k \in 0..N : left[k] = After(left, k)
    <2> HIDE DEF After
    <2>1. QED
      BY <1>8
  <1>11. left[0] = candidates /\ \A k \in 1..N : left[k] = Surviving(left[k - 1], predicates[k], ancestors)
    BY <1>1, <1>10
  <1> DEFINE Good == {k \in 0..N : left[k] \in Seq(D)}
  <1>12. 0 \in Good
    BY <1>1, <1>11
  <1>13. ASSUME NEW k \in 1..N, k - 1 \in Good PROVE k \in Good
    <2>1. k \in 0..N
      BY <1>1
    <2>2. QED
      BY <1>2, <1>11, <1>13, <2>1
  <1>14. 0..N \subseteq Good
    <2> HIDE DEF Good
    <2>1. QED
      BY <1>1, <1>12, <1>13, UptoInduction
  <1>15. QED
    BY <1>9, <1>11, <1>14

(* All predicates of a step keep candidates in their order.                *)
LEMMA FilteredKeeps ==
  ASSUME NEW D, NEW candidates \in Seq(D), NEW R, NEW predicates \in Seq(R), NEW ancestors
  PROVE  /\ Filtered(candidates, predicates, ancestors) \in Seq(D)
         /\ Keeps(Filtered(candidates, predicates, ancestors), candidates)
  <1> DEFINE N == Len(predicates)
  <1>1. N \in Nat
    OBVIOUS
  <1>2. PICK left :
          /\ \A k \in 0..N : left[k] \in Seq(D)
          /\ left[0] = candidates
          /\ \A k \in 1..N : left[k] = Surviving(left[k - 1], predicates[k], ancestors)
          /\ Filtered(candidates, predicates, ancestors) = left[N]
    BY FilteredSteps
  <1> DEFINE Good == {k \in 0..N : Keeps(left[k], candidates)}
  <1>3. 0 \in Good
    BY <1>1, <1>2 DEF Keeps
  <1>4. ASSUME NEW k \in 1..N, k - 1 \in Good PROVE k \in Good
    <2>1. k - 1 \in 0..N /\ left[k - 1] \in Seq(D) /\ Keeps(left[k - 1], candidates)
      BY <1>1, <1>2, <1>4
    <2>2. Keeps(left[k], left[k - 1])
      BY <1>2, <2>1, SurvivingKeeps
    <2>3. Keeps(left[k], candidates)
      BY <2>1, <2>2, KeepsTransitive
    <2>4. QED
      BY <1>1, <2>3
  <1>5. N \in Good
    <2> HIDE DEF Good
    <2>1. 0..N \subseteq Good
      BY <1>1, <1>3, <1>4, UptoInduction
    <2>2. QED
      BY <1>1, <2>1
  <1>6. QED
    BY <1>1, <1>2, <1>5

(* What a step finds from one node.                                        *)
LEMMA SelectedKeeps ==
  ASSUME doc \in Documents, NEW s \in StepRecord, NEW n \in DOMAIN doc
  PROVE  /\ Selected(s, n) \in Seq(CandidateSet)
         /\ Keeps(Selected(s, n), Candidates(s.axis, n, <<>>))
  <1> DEFINE passing == Passing(s.axis, s.test, n, <<>>)
  <1>1. passing \in Seq(CandidateSet) /\ Keeps(passing, Candidates(s.axis, n, <<>>))
    BY PassingKeeps
  <1>2. s.predicates \in Seq(Predicates)
    BY DEF StepRecord
  <1>3. Selected(s, n) = Filtered(passing, s.predicates, <<n>>)
    BY DEF Selected
  <1> HIDE DEF passing
  <1>4. /\ Filtered(passing, s.predicates, <<n>>) \in Seq(CandidateSet)
        /\ Keeps(Filtered(passing, s.predicates, <<n>>), passing)
    BY <1>1, <1>2, FilteredKeeps
  <1>5. QED
    BY <1>1, <1>3, <1>4, KeepsTransitive

-----------------------------------------------------------------------------
(* Node-sets.                                                              *)

(* The nodes that have been found after the first candidates.              *)
LEMMA AddAllSteps ==
  ASSUME NEW D, NEW nodes \in Seq(D),
         NEW C, NEW candidates \in Seq(C), \A i \in DOMAIN candidates : candidates[i].node \in D
  PROVE  \E found :
           /\ \A k \in 0..Len(candidates) : found[k] \in Seq(D)
           /\ found[0] = nodes
           /\ \A k \in 1..Len(candidates) : found[k] = Add(found[k - 1], candidates[k].node)
           /\ AddAll(nodes, candidates) = found[Len(candidates)]
  <1> DEFINE N == Len(candidates)
             Op == [x \in (1..N) \X Seq(D) |-> Add(x[2], candidates[x[1]].node)]
             After(f, k) == IF k = 0 THEN nodes ELSE Add(f[k - 1], candidates[k].node)
             found == CHOOSE f : f = [k \in 0..N |-> After(f, k)]
  <1>1. N \in Nat /\ DOMAIN candidates = 1..N
    OBVIOUS
  <1>2. \A k \in 1..N, t \in Seq(D) : Add(t, candidates[k].node) \in Seq(D)
    BY <1>1 DEF Add
  <1>3. \A k \in 1..N, t \in Seq(D) : Op[<<k, t>>] = Add(t, candidates[k].node)
    OBVIOUS
  <1> HIDE DEF Op
  <1>4. PICK f : /\ \A k \in 0..N : f[k] \in Seq(D)
                 /\ f[0] = nodes /\ \A k \in 1..N : f[k] = Op[<<k, f[k - 1]>>]
    <2>1. \A k \in 1..N, t \in Seq(D) : Op[<<k, t>>] \in Seq(D)
      BY <1>2, <1>3
    <2> HIDE DEF N, found
    <2>2. StaysIn(Seq(D), N, nodes, Op)
      BY <1>1, <2>1 DEF StaysIn
    <2>3. \E f : Recurses(f, Seq(D), N, nodes, Op)
      BY <2>2, RecursionUpto
    <2>4. QED
      BY <2>3 DEF Recurses
  <1>5. ASSUME NEW k \in 1..N PROVE f[k] = Add(f[k - 1], candidates[k].node)
    <2>1. k - 1 \in 0..N
      BY <1>1
    <2>2. QED
      BY <1>3, <1>4, <2>1
  <1> DEFINE g == [k \in 0..N |-> f[k]]
  <1>6. ASSUME NEW k \in 0..N PROVE g[k] = After(g, k)
    <2>1. k # 0 => k \in 1..N /\ k - 1 \in 0..N
      BY <1>1
    <2>2. QED
      BY <1>4, <1>5, <2>1
  <1>7. g = [k \in 0..N |-> After(g, k)]
    <2> HIDE DEF After
    <2>1. QED
      BY <1>6
  <1>8. found = [k \in 0..N |-> After(found, k)]
    <2> HIDE DEF After, g
    <2>1. QED
      BY <1>7
  <1>9. AddAll(nodes, candidates) = found[N]
    BY DEF AddAll
  <1> HIDE DEF found
  <1>10. \A k \in 0..N : found[k] = After(found, k)
    <2> HIDE DEF After
    <2>1. QED
      BY <1>8
  <1>11. found[0] = nodes /\ \A k \in 1..N : found[k] = Add(found[k - 1], candidates[k].node)
    BY <1>1, <1>10
  <1> DEFINE Good == {k \in 0..N : found[k] \in Seq(D)}
  <1>12. 0 \in Good
    BY <1>1, <1>11
  <1>13. ASSUME NEW k \in 1..N, k - 1 \in Good PROVE k \in Good
    <2>1. k \in 0..N
      BY <1>1
    <2>2. QED
      BY <1>2, <1>11, <1>13, <2>1
  <1>14. 0..N \subseteq Good
    <2> HIDE DEF Good
    <2>1. QED
      BY <1>1, <1>12, <1>13, UptoInduction
  <1>15. QED
    BY <1>9, <1>11, <1>14

(* Adding a node, and nodes, leaves no duplicate.                          *)
LEMMA AddType ==
  ASSUME NEW D, NEW nodes \in Seq(D), IsInjective(nodes), NEW n \in D
  PROVE  Add(nodes, n) \in Seq(D) /\ IsInjective(Add(nodes, n))
  <1>1. CASE Contains(nodes, n)
    BY <1>1 DEF Add
  <1>2. CASE ~Contains(nodes, n)
    <2>1. Add(nodes, n) = Append(nodes, n) /\ Append(nodes, n) \in Seq(D)
      BY <1>2 DEF Add
    <2>2. \A i \in DOMAIN nodes : nodes[i] # n
      BY <1>2 DEF Contains
    <2>3. IsInjective(Append(nodes, n))
      <3>1. \A i \in DOMAIN Append(nodes, n) :
              \/ i \in DOMAIN nodes /\ Append(nodes, n)[i] = nodes[i]
              \/ i = Len(nodes) + 1 /\ Append(nodes, n)[i] = n
        OBVIOUS
      <3>2. \A i, j \in DOMAIN nodes : nodes[i] = nodes[j] => i = j
        BY DEF IsInjective
      <3> DEFINE after == Append(nodes, n)
      <3> HIDE DEF after
      <3>3. \A i, j \in DOMAIN after : after[i] = after[j] => i = j
        BY <2>2, <3>1, <3>2 DEF after
      <3>4. QED
        BY <3>3 DEF IsInjective, after
    <2>4. QED
      BY <2>1, <2>3
  <1>3. QED
    BY <1>1, <1>2

(* So does adding the nodes of candidates.                                 *)
LEMMA AddAllType ==
  ASSUME NEW D, NEW nodes \in Seq(D), IsInjective(nodes),
         NEW C, NEW candidates \in Seq(C), \A i \in DOMAIN candidates : candidates[i].node \in D
  PROVE  AddAll(nodes, candidates) \in Seq(D) /\ IsInjective(AddAll(nodes, candidates))
  <1> DEFINE N == Len(candidates)
  <1>1. N \in Nat /\ DOMAIN candidates = 1..N
    OBVIOUS
  <1>2. PICK found :
          /\ found[0] = nodes
          /\ \A k \in 1..N : found[k] = Add(found[k - 1], candidates[k].node)
          /\ AddAll(nodes, candidates) = found[N]
    BY AddAllSteps
  <1> DEFINE Good == {k \in 0..N : found[k] \in Seq(D) /\ IsInjective(found[k])}
  <1>3. 0 \in Good
    BY <1>1, <1>2
  <1>4. ASSUME NEW k \in 1..N, k - 1 \in Good PROVE k \in Good
    <2>1. found[k - 1] \in Seq(D) /\ IsInjective(found[k - 1]) /\ candidates[k].node \in D
      BY <1>1, <1>4
    <2>2. found[k] \in Seq(D) /\ IsInjective(found[k])
      BY <1>2, <2>1, AddType
    <2>3. QED
      BY <1>1, <2>2
  <1>5. N \in Good
    <2> HIDE DEF Good
    <2>1. 0..N \subseteq Good
      BY <1>1, <1>3, <1>4, UptoInduction
    <2>2. QED
      BY <1>1, <2>1
  <1>6. QED
    BY <1>2, <1>5

(* Candidates whose nodes are in a row.                                    *)
CandidatesInRow(s) == \A i, j \in DOMAIN s : i < j => Before(s[i].node, s[j].node)

(* What is left of candidates in a row is in a row.                        *)
LEMMA KeepsRow ==
  ASSUME NEW s, NEW t, Keeps(t, s), CandidatesInRow(s)
  PROVE  CandidatesInRow(t)
  BY DEF Keeps, CandidatesInRow

(* Candidates in a row, after nodes in a row, leave nodes in a row: these  *)
(* nodes and those of the candidates.                                      *)
LEMMA AddAllInRow ==
  ASSUME NEW D, NEW nodes \in Seq(D), InRow(nodes),
         NEW C, NEW candidates \in Seq(C), CandidatesInRow(candidates),
         \A i \in DOMAIN candidates : candidates[i].node \in D,
         \A i \in DOMAIN nodes, j \in DOMAIN candidates : Before(nodes[i], candidates[j].node)
  PROVE  /\ InRow(AddAll(nodes, candidates))
         /\ \A i \in DOMAIN AddAll(nodes, candidates) :
              \/ \E j \in DOMAIN nodes : AddAll(nodes, candidates)[i] = nodes[j]
              \/ \E j \in DOMAIN candidates : AddAll(nodes, candidates)[i] = candidates[j].node
  <1> DEFINE N == Len(candidates)
             Given(s, k) == \A i \in DOMAIN s :
                             \/ \E j \in DOMAIN nodes : s[i] = nodes[j]
                             \/ \E j \in 1..k : s[i] = candidates[j].node
  <1>1. N \in Nat /\ DOMAIN candidates = 1..N
    OBVIOUS
  <1>2. PICK found :
          /\ found[0] = nodes
          /\ \A k \in 1..N : found[k] = Add(found[k - 1], candidates[k].node)
          /\ AddAll(nodes, candidates) = found[N]
    BY AddAllSteps
  <1> DEFINE Good == {k \in 0..N : found[k] \in Seq(D) /\ InRow(found[k]) /\ Given(found[k], k)}
  <1>3. 0 \in Good
    <2>1. Given(nodes, 0)
      OBVIOUS
    <2> HIDE DEF Given
    <2>2. QED
      BY <1>1, <1>2, <2>1
  <1>4. ASSUME NEW k \in 1..N, k - 1 \in Good PROVE k \in Good
    <2> DEFINE s == found[k - 1]
               n == candidates[k].node
    <2>1. s \in Seq(D) /\ InRow(s) /\ Given(s, k - 1) /\ n \in D
      BY <1>1, <1>4
    <2>2. found[k] = Add(s, n)
      BY <1>2
    <2> HIDE DEF s
    <2>3. \A i \in DOMAIN s : Before(s[i], n)
      <3>1. \A j \in 1..(k - 1) : Before(candidates[j].node, n)
        <4>1. \A j \in 1..(k - 1) : j \in DOMAIN candidates /\ k \in DOMAIN candidates /\ j < k
          BY <1>1
        <4>2. QED
          BY <4>1 DEF CandidatesInRow
      <3>2. \A j \in DOMAIN nodes : Before(nodes[j], n)
        BY <1>1
      <3> HIDE DEF n
      <3>3. QED
        BY <2>1, <3>1, <3>2
    <2>4. Given(s, k)
      <3>1. 1..(k - 1) \subseteq 1..k
        BY <1>1
      <3>2. QED
        BY <2>1, <3>1
    <2>5. CASE Contains(s, n)
      <3>1. found[k] = s
        BY <2>2, <2>5 DEF Add
      <3> HIDE DEF Given
      <3>2. QED
        BY <1>1, <2>1, <2>4, <3>1
    <2>6. CASE ~Contains(s, n)
      <3>1. found[k] = Append(s, n)
        BY <2>2, <2>6 DEF Add
      <3>2. k \in 1..k /\ n = candidates[k].node /\ k \in 0..N
        BY <1>1
      <3> HIDE DEF n
      <3>3. /\ found[k] \in Seq(D)
            /\ \A i \in DOMAIN found[k] :
                 \/ i \in DOMAIN s /\ found[k][i] = s[i]
                 \/ i = Len(s) + 1 /\ found[k][i] = n
            /\ \A i \in DOMAIN s : i \in Nat /\ i < Len(s) + 1
        BY <2>1, <3>1
      <3>4. InRow(found[k])
        <4> SUFFICES ASSUME NEW i \in DOMAIN found[k], NEW j \in DOMAIN found[k], i < j
                     PROVE  Before(found[k][i], found[k][j])
          BY DEF InRow
        <4>1. i \in DOMAIN s /\ found[k][i] = s[i]
          <5>1. i # Len(s) + 1
            <6>1. Len(s) \in Nat /\ j \in Nat /\ j <= Len(s) + 1
              BY <2>1, <3>3
            <6>2. QED
              BY <6>1
          <5>2. QED
            BY <3>3, <5>1
        <4>2. CASE j \in DOMAIN s /\ found[k][j] = s[j]
          BY <2>1, <4>1, <4>2 DEF InRow
        <4>3. CASE found[k][j] = n
          BY <2>3, <4>1, <4>3
        <4>4. QED
          BY <3>3, <4>2, <4>3
      <3>5. Given(found[k], k)
        BY <2>4, <3>2, <3>3
      <3> HIDE DEF Given
      <3>6. QED
        BY <3>2, <3>3, <3>4, <3>5
    <2>7. QED
      BY <2>5, <2>6
  <1>5. N \in Good
    <2> HIDE DEF Good
    <2>1. 0..N \subseteq Good
      BY <1>1, <1>3, <1>4, UptoInduction
    <2>2. QED
      BY <1>1, <2>1
  <1>6. QED
    BY <1>1, <1>2, <1>5

-----------------------------------------------------------------------------
(* The order of a document.                                                *)

(* A child lies below its node, and all that lies between them as well.    *)
LEMMA ChildBelow ==
  ASSUME doc \in Documents, NEW n \in DOMAIN doc, NEW c \in Children(n)
  PROVE  c \in DOMAIN doc /\ n \in Nat /\ c \in Nat /\ n < c /\ c \in Subtree(n)
  <1>1. c \in DOMAIN doc /\ doc[c].parent = n
    BY DEF Children
  <1>2. n \in Nat /\ c \in Nat /\ n < c /\ c <= Len(doc) /\ Len(doc) \in Nat
    BY <1>1, DocumentShape
  <1>3. \A m \in (n + 1)..(c - 1) : doc[m].parent >= n
    BY <1>1, DocumentShape
  <1>4. \A k \in (n + 1)..c : doc[k].parent >= n
    <2> SUFFICES ASSUME NEW k \in (n + 1)..c PROVE doc[k].parent >= n
      OBVIOUS
    <2>1. k = c \/ k \in (n + 1)..(c - 1)
      BY <1>2
    <2>2. QED
      BY <1>1, <1>2, <1>3, <2>1
  <1>5. QED
    BY <1>1, <1>2, <1>4 DEF Subtree

(* Whatever lies between a node and one below it is below it.              *)
LEMMA Between ==
  ASSUME doc \in Documents, NEW n \in DOMAIN doc, NEW m \in Subtree(n), NEW k \in n..m
  PROVE  k \in Subtree(n)
  <1>1. n \in Nat /\ Len(doc) \in Nat /\ m \in n..Len(doc) /\ \A j \in (n + 1)..m : doc[j].parent >= n
    BY DocumentShape DEF Subtree
  <1>2. k \in n..Len(doc) /\ (n + 1)..k \subseteq (n + 1)..m
    BY <1>1
  <1>3. QED
    BY <1>1, <1>2 DEF Subtree

(* Children come where their node is in a row, and in a row themselves.    *)
LEMMA ChildrenBefore ==
  ASSUME doc \in Documents, NEW h \in DOMAIN doc, NEW c \in Children(h)
  PROVE  /\ \A n \in DOMAIN doc : Before(h, n) => Before(c, n)
         /\ \A n \in DOMAIN doc : Before(n, h) => Before(n, c)
         /\ \A d \in Children(h) : c < d => Before(c, d)
  <1>1. c \in DOMAIN doc /\ h \in Nat /\ c \in Nat /\ h < c /\ c \in Subtree(h)
    BY ChildBelow
  <1>2. ASSUME NEW n \in DOMAIN doc, Before(h, n) PROVE Before(c, n)
    <2>1. n \in Nat /\ h < n /\ n \notin Subtree(h) /\ n <= Len(doc) /\ Len(doc) \in Nat
      BY <1>2, DocumentShape DEF Before
    <2>2. c < n
      <3>1. ASSUME n <= c PROVE FALSE
        <4>1. n \in h..c
          BY <1>1, <2>1, <3>1
        <4>2. QED
          BY <1>1, <2>1, <4>1, Between
      <3>2. QED
        BY <1>1, <2>1, <3>1
    <2>3. n \notin Subtree(c)
      <3> SUFFICES ASSUME n \in Subtree(c) PROVE FALSE
        OBVIOUS
      <3>1. \A k \in (c + 1)..n : doc[k].parent >= c
        BY DEF Subtree
      <3>2. \A k \in (h + 1)..c : doc[k].parent >= h
        BY <1>1 DEF Subtree
      <3>3. ASSUME NEW k \in (h + 1)..n PROVE doc[k].parent >= h
        <4>1. k \in DOMAIN doc /\ doc[k].parent \in Nat
          <5>1. k \in 1..Len(doc)
            BY <1>1, <2>1
          <5>2. QED
            BY <5>1, DocumentShape
        <4>2. CASE k <= c
          <5>1. k \in (h + 1)..c
            BY <1>1, <4>2
          <5>2. QED
            BY <3>2, <5>1
        <4>3. CASE ~(k <= c)
          <5>1. k \in (c + 1)..n
            BY <1>1, <2>1, <4>3
          <5>2. doc[k].parent >= c
            BY <3>1, <5>1
          <5>3. QED
            BY <1>1, <4>1, <5>2
        <4>4. QED
          BY <4>2, <4>3
      <3>4. n \in h..Len(doc)
        BY <1>1, <2>1
      <3>5. QED
        BY <2>1, <3>3, <3>4 DEF Subtree
    <2>4. QED
      BY <2>2, <2>3 DEF Before
  <1>3. ASSUME NEW n \in DOMAIN doc, Before(n, h) PROVE Before(n, c)
    <2>1. n \in Nat /\ n < h /\ h \notin Subtree(n)
      BY <1>3, DocumentShape DEF Before
    <2>2. c \notin Subtree(n)
      <3>1. h \in n..c
        BY <1>1, <2>1
      <3>2. QED
        BY <2>1, <3>1, Between
    <2>3. QED
      BY <1>1, <2>1, <2>2 DEF Before
  <1>4. ASSUME NEW d \in Children(h), c < d PROVE Before(c, d)
    <2>1. d \in Nat /\ doc[d].parent = h
      BY ChildBelow DEF Children
    <2>2. d \notin Subtree(c)
      <3> SUFFICES ASSUME d \in Subtree(c) PROVE FALSE
        OBVIOUS
      <3>1. d \in (c + 1)..d
        BY <1>1, <1>4, <2>1
      <3>2. doc[d].parent >= c
        BY <3>1 DEF Subtree
      <3>3. QED
        BY <1>1, <2>1, <3>2
    <2>3. QED
      BY <1>4, <2>2 DEF Before
  <1>5. QED
    BY <1>2, <1>3, <1>4

(* A step of children finds, from one node, children of it in a row.       *)
LEMMA ChildrenSelected ==
  ASSUME doc \in Documents, NEW s \in StepRecord, s.axis = "child", NEW n \in DOMAIN doc
  PROVE  /\ CandidatesInRow(Selected(s, n))
         /\ \A i \in DOMAIN Selected(s, n) : Selected(s, n)[i].node \in Children(n)
  <1> DEFINE listed == InOrder(Children(n))
             all == Candidates("child", n, <<>>)
  <1>1. Children(n) \subseteq DOMAIN doc
    BY DEF Children
  <1>2. /\ listed \in Seq(DOMAIN doc)
        /\ \A i \in DOMAIN listed : listed[i] \in Children(n)
        /\ \A i, j \in DOMAIN listed : i < j => listed[i] < listed[j]
    BY <1>1, InOrderNodes
  <1>3. AxisNodes("child", n, <<>>) = listed
    BY DEF AxisNodes
  <1>4. all = [i \in DOMAIN listed |-> [node |-> listed[i], attribute |-> None]]
    BY <1>3 DEF Candidates
  <1> HIDE DEF listed, all
  <1>5. \A i \in DOMAIN all : i \in DOMAIN listed /\ all[i].node = listed[i]
    BY <1>4
  <1>6. CandidatesInRow(all)
    <2> SUFFICES ASSUME NEW i \in DOMAIN all, NEW j \in DOMAIN all, i < j
                 PROVE  Before(all[i].node, all[j].node)
      BY DEF CandidatesInRow
    <2>1. listed[i] \in Children(n) /\ listed[j] \in Children(n) /\ listed[i] < listed[j]
      BY <1>2, <1>5
    <2>2. Before(listed[i], listed[j])
      BY <2>1, ChildrenBefore
    <2>3. QED
      BY <1>5, <2>2
  <1>7. Keeps(Selected(s, n), all)
    BY SelectedKeeps DEF all
  <1>8. CandidatesInRow(Selected(s, n))
    BY <1>6, <1>7, KeepsRow
  <1>9. \A i \in DOMAIN Selected(s, n) : \E a \in DOMAIN all : Selected(s, n)[i] = all[a]
    BY <1>7 DEF Keeps
  <1>10. QED
    BY <1>2, <1>5, <1>8, <1>9

-----------------------------------------------------------------------------
(* What the evaluator finds is what XPath says.                            *)

(* The greatest of some numbers up to a bound.                             *)
LEMMA Greatest ==
  ASSUME NEW b \in Nat, NEW T, T \subseteq 0..b, T # {}
  PROVE  \E m \in T : \A n \in T : n <= m
  <1> DEFINE Turned == {b - n : n \in T}
  <1>1. Turned \subseteq Nat /\ Turned # {}
    <2>1. \A n \in T : n \in Nat /\ n <= b
      OBVIOUS
    <2>2. \A n \in T : b - n \in Nat
      BY <2>1
    <2>3. QED
      BY <2>2
  <1>2. PICK k \in Turned : \A n \in Turned : k <= n
    <2> HIDE DEF Turned
    <2>1. QED
      BY <1>1, Least
  <1>3. PICK m \in T : k = b - m
    BY <1>2
  <1>4. \A n \in T : b - m <= b - n
    BY <1>2, <1>3
  <1>5. \A n \in T : n <= m
    BY <1>4
  <1>6. QED
    BY <1>5

(* What is below a node lies in the subtree of one of its children.        *)
LEMMA BelowIsChildren ==
  ASSUME doc \in Documents, NEW n \in DOMAIN doc
  PROVE  /\ Subtree(n) \ {n} = UNION {Subtree(c) : c \in Children(n)}
         /\ n \in Subtree(n) /\ Subtree(n) \subseteq DOMAIN doc
  <1>1. n \in Nat /\ Len(doc) \in Nat /\ DOMAIN doc = 1..Len(doc) /\ \A k \in DOMAIN doc : doc[k].parent \in Nat /\ doc[k].parent < k
    BY DocumentShape
  <1>2. ASSUME NEW m \in Subtree(n) \ {n} PROVE \E c \in Children(n) : m \in Subtree(c)
    <2>1. m \in n..Len(doc) /\ m # n /\ \A k \in (n + 1)..m : doc[k].parent >= n
      BY DEF Subtree
    <2> DEFINE T == {k \in (n + 1)..m : doc[k].parent = n}
    <2>2. T \subseteq 0..m /\ T # {} /\ m \in Nat
      <3>1. n + 1 \in (n + 1)..m /\ n + 1 \in DOMAIN doc
        BY <1>1, <2>1
      <3>2. doc[n + 1].parent = n
        BY <1>1, <2>1, <3>1
      <3>3. QED
        BY <1>1, <2>1, <3>1, <3>2
    <2>3. PICK c \in T : \A k \in T : k <= c
      <3> HIDE DEF T
      <3>1. QED
        BY <2>2, Greatest
    <2>4. c \in Children(n) /\ c \in Nat /\ c \in (n + 1)..m
      BY <1>1, <2>1, <2>3 DEF Children
    <2>5. ASSUME NEW k \in (c + 1)..m PROVE doc[k].parent >= c
      <3>1. k \in (n + 1)..m /\ k \in DOMAIN doc /\ k > c
        BY <1>1, <2>1, <2>4
      <3>2. doc[k].parent >= n /\ doc[k].parent # n /\ doc[k].parent \in Nat
        BY <1>1, <2>1, <2>3, <2>4, <3>1
      <3>3. CASE doc[k].parent < c
        <4> DEFINE p == doc[k].parent
        <4>1. doc[c].parent = n /\ c \in (p + 1)..(k - 1)
          BY <1>1, <2>3, <2>4, <3>1, <3>2, <3>3
        <4>2. doc[c].parent >= p
          BY <3>1, <4>1, DocumentShape
        <4>3. QED
          BY <1>1, <3>2, <4>1, <4>2
      <3>4. QED
        BY <2>4, <3>2, <3>3
    <2>6. m \in c..Len(doc)
      BY <1>1, <2>1, <2>4
    <2>7. QED
      BY <2>4, <2>5, <2>6 DEF Subtree
  <1>3. ASSUME NEW c \in Children(n), NEW m \in Subtree(c) PROVE m \in Subtree(n) /\ m # n
    <2>1. c \in DOMAIN doc /\ c \in Nat /\ n < c /\ c \in Subtree(n)
      BY ChildBelow
    <2>2. m \in c..Len(doc) /\ \A k \in (c + 1)..m : doc[k].parent >= c
      BY DEF Subtree
    <2>3. \A k \in (n + 1)..c : doc[k].parent >= n
      BY <2>1 DEF Subtree
    <2>4. ASSUME NEW k \in (n + 1)..m PROVE doc[k].parent >= n
      <3>1. k \in DOMAIN doc /\ doc[k].parent \in Nat
        BY <1>1, <2>1, <2>2
      <3>2. CASE k <= c
        BY <1>1, <2>1, <2>3, <3>1, <3>2
      <3>3. CASE ~(k <= c)
        <4>1. k \in (c + 1)..m
          BY <1>1, <2>1, <2>2, <3>1, <3>3
        <4>2. doc[k].parent >= c
          BY <2>2, <4>1
        <4>3. QED
          BY <1>1, <2>1, <3>1, <4>2
      <3>4. QED
        BY <3>2, <3>3
    <2>5. m \in n..Len(doc) /\ m # n
      BY <1>1, <2>1, <2>2
    <2>6. QED
      BY <2>4, <2>5 DEF Subtree
  <1>4. n \in Subtree(n) /\ Subtree(n) \subseteq DOMAIN doc
    BY <1>1 DEF Subtree
  <1>5. QED
    BY <1>2, <1>3, <1>4

(* The members of a sequence, in reverse, are the same.                    *)
LEMMA ToSetReverse ==
  ASSUME NEW D, NEW s \in Seq(D)
  PROVE  Reverse(s) \in Seq(D) /\ ToSet(Reverse(s)) = ToSet(s)
  <1>1. Len(s) \in Nat /\ DOMAIN s = 1..Len(s) /\ Reverse(s) \in Seq(D)
    BY DEF Reverse
  <1>2. DOMAIN Reverse(s) = DOMAIN s /\ \A i \in DOMAIN s : Reverse(s)[i] = s[(Len(s) - i) + 1]
    BY <1>1 DEF Reverse
  <1>3. \A i \in DOMAIN s : (Len(s) - i) + 1 \in DOMAIN s /\ (Len(s) - ((Len(s) - i) + 1)) + 1 = i
    BY <1>1
  <1> DEFINE r == Reverse(s)
  <1>4. DOMAIN r = DOMAIN s /\ \A i \in DOMAIN s : r[i] = s[(Len(s) - i) + 1]
    BY <1>2
  <1> HIDE DEF r
  <1>5. ToSet(r) \subseteq ToSet(s)
    BY <1>3, <1>4 DEF ToSet
  <1>6. ASSUME NEW i \in DOMAIN s PROVE s[i] \in ToSet(r)
    <2>1. r[(Len(s) - i) + 1] = s[i]
      BY <1>3, <1>4
    <2>2. QED
      BY <1>3, <1>4, <2>1 DEF ToSet
  <1>7. ToSet(s) \subseteq ToSet(r)
    BY <1>6 DEF ToSet
  <1>8. QED
    BY <1>1, <1>5, <1>7 DEF r

(* collectDescendants finds everything below the node.                     *)
LEMMA DescendantsFound ==
  ASSUME doc \in Documents, NEW n \in DOMAIN doc
  PROVE  Descendants(n) \in Seq(DOMAIN doc) /\ ToSet(Descendants(n)) = Subtree(n) \ {n}
  <1> DEFINE children == Reverse(InOrder(Children(n)))
             lists == [k \in DOMAIN children |-> InOrder(Subtree(children[k]))]
  <1>1. Children(n) \subseteq DOMAIN doc
    BY DEF Children
  <1>2. children \in Seq(DOMAIN doc) /\ ToSet(children) = Children(n)
    BY <1>1, InOrderNodes, ToSetReverse
  <1>3. Descendants(n) = FlattenSeq(lists)
    BY DEF Descendants
  <1> HIDE DEF children
  <1>4. DOMAIN children = 1..Len(children) /\ Len(children) \in Nat
    BY <1>2
  <1>5. \A k \in 1..Len(children) : /\ children[k] \in Children(n)
                                    /\ InOrder(Subtree(children[k])) \in Seq(DOMAIN doc)
                                    /\ ToSet(InOrder(Subtree(children[k]))) = Subtree(children[k])
    <2>1. \A k \in 1..Len(children) : children[k] \in Children(n)
      BY <1>2, <1>4 DEF ToSet
    <2>2. \A k \in 1..Len(children) : Subtree(children[k]) \subseteq DOMAIN doc
      BY <1>1, <2>1, BelowIsChildren
    <2>3. QED
      BY <2>1, <2>2, InOrderNodes
  <1>6. /\ lists \in Seq(Seq(DOMAIN doc)) /\ Len(lists) = Len(children)
        /\ \A k \in 1..Len(children) : lists[k] = InOrder(Subtree(children[k]))
    <2>1. lists \in [1..Len(children) -> Seq(DOMAIN doc)]
      BY <1>4, <1>5
    <2>2. \A k \in 1..Len(children) : lists[k] = InOrder(Subtree(children[k]))
      BY <1>4
    <2> HIDE DEF lists
    <2>3. QED
      BY <1>4, <2>1, <2>2
  <1> HIDE DEF lists
  <1>7. /\ FlattenSeq(lists) \in Seq(DOMAIN doc)
        /\ ToSet(FlattenSeq(lists)) = UNION {ToSet(lists[k]) : k \in 1..Len(lists)}
    BY <1>6, FlattenType
  <1>8. \A k \in 1..Len(children) : ToSet(lists[k]) = Subtree(children[k])
    BY <1>5, <1>6
  <1>9. \A c \in Children(n) : \E k \in 1..Len(children) : children[k] = c
    BY <1>2, <1>4 DEF ToSet
  <1>10. UNION {ToSet(lists[k]) : k \in 1..Len(children)} = UNION {Subtree(c) : c \in Children(n)}
    BY <1>5, <1>8, <1>9
  <1>11. QED
    BY <1>3, <1>6, <1>7, <1>10, BelowIsChildren

(* A selection of places has the members there.                            *)
LEMMA SublistAll ==
  ASSUME NEW D, NEW s \in Seq(D), NEW S \in SUBSET DOMAIN s
  PROVE  /\ Sublist(s, S) \in Seq(D)
         /\ \A i \in DOMAIN Sublist(s, S) : \E k \in S : Sublist(s, S)[i] = s[k]
         /\ \A k \in S : \E i \in DOMAIN Sublist(s, S) : Sublist(s, S)[i] = s[k]
  <1> DEFINE kept == InOrder(S)
  <1>1. S \subseteq Nat /\ IsFiniteSet(S)
    <2>1. Len(s) \in Nat /\ DOMAIN s = 1..Len(s) /\ IsFiniteSet(1..Len(s))
      BY FS_Interval
    <2>2. QED
      BY <2>1, FS_Subset
  <1>2. /\ \A k \in DOMAIN kept : kept[k] \in S
        /\ \A n \in S : \E k \in DOMAIN kept : kept[k] = n
    BY <1>1, InOrderIncreases
  <1>3. Sublist(s, S) = [k \in DOMAIN kept |-> s[kept[k]]]
    BY DEF Sublist
  <1> HIDE DEF kept
  <1>4. QED
    BY <1>2, <1>3, SublistKeeps

(* In an increasing sequence the place of a number is its rank.            *)
Increases(s) == \A i, j \in DOMAIN s : i < j => s[i] < s[j]

(* So its length is the number of its members.                             *)
LEMMA RankOfPlace ==
  ASSUME NEW s \in Seq(Nat), Increases(s)
  PROVE  /\ Cardinality(ToSet(s)) = Len(s)
         /\ \A i \in DOMAIN s : Cardinality({k \in ToSet(s) : k <= s[i]}) = i
  <1>1. Len(s) \in Nat /\ DOMAIN s = 1..Len(s) /\ \A i \in DOMAIN s : s[i] \in Nat
    OBVIOUS
  <1>2. ASSUME NEW n \in 0..Len(s) PROVE Cardinality({s[i] : i \in 1..n}) = n
    <2> DEFINE f == [i \in 1..n |-> s[i]]
               T == {s[i] : i \in 1..n}
    <2>1. IsFiniteSet(1..n) /\ Cardinality(1..n) = n
      BY <1>1, <1>2, FS_Interval
    <2>2. \A i, j \in 1..n : s[i] = s[j] => i = j
      <3> SUFFICES ASSUME NEW i \in 1..n, NEW j \in 1..n, s[i] = s[j] PROVE i = j
        OBVIOUS
      <3>1. i \in DOMAIN s /\ j \in DOMAIN s /\ i \in Nat /\ j \in Nat
        BY <1>1, <1>2
      <3>2. ~(i < j) /\ ~(j < i)
        BY <1>1, <3>1 DEF Increases
      <3>3. QED
        BY <3>1, <3>2
    <2>3. f \in Bijection(1..n, T)
      BY <2>2 DEF Bijection, Injection, Surjection, IsInjective
    <2>4. Cardinality(T) = Cardinality(1..n)
      <3> HIDE DEF f, T
      <3>1. ExistsBijection(1..n, T)
        BY <2>3 DEF ExistsBijection
      <3>2. QED
        BY <2>1, <3>1, FS_Bijection
    <2>5. QED
      BY <2>1, <2>4
  <1>3. ToSet(s) = {s[i] : i \in 1..Len(s)}
    BY <1>1 DEF ToSet
  <1>4. ASSUME NEW i \in DOMAIN s PROVE {k \in ToSet(s) : k <= s[i]} = {s[j] : j \in 1..i}
    <2>1. \A j \in DOMAIN s : s[j] <= s[i] <=> j \in 1..i
      <3> SUFFICES ASSUME NEW j \in DOMAIN s PROVE s[j] <= s[i] <=> j \in 1..i
        OBVIOUS
      <3>1. CASE i < j
        BY <1>1, <3>1 DEF Increases
      <3>2. CASE j < i
        BY <1>1, <3>2 DEF Increases
      <3>3. CASE i = j
        BY <1>1, <3>3
      <3>4. QED
        BY <1>1, <3>1, <3>2, <3>3
    <2>2. 1..i \subseteq DOMAIN s
      BY <1>1
    <2>3. QED
      BY <2>1, <2>2 DEF ToSet
  <1>5. Len(s) \in 0..Len(s) /\ \A i \in DOMAIN s : i \in 0..Len(s)
    BY <1>1
  <1>6. Cardinality(ToSet(s)) = Len(s)
    BY <1>2, <1>3, <1>5
  <1>7. ASSUME NEW i \in DOMAIN s PROVE Cardinality({k \in ToSet(s) : k <= s[i]}) = i
    BY <1>2, <1>4, <1>5
  <1>8. QED
    BY <1>6, <1>7

(* The nodes of candidates.                                                *)
NodesOf(candidates) == {candidates[i].node : i \in DOMAIN candidates}

(* A parent and its child are known where a predicate of a child step is.  *)
KnowsParent(n, ancestors) ==
  \E par \in DOMAIN doc : n \in Children(par) /\ ancestors = <<par>>

(* The node a document has no sequence for is the root above its element.  *)
LEMMA NodesAreDocument ==
  ASSUME doc \in Documents
  PROVE  /\ Nodes \ {0} = DOMAIN doc /\ 0 \notin DOMAIN doc /\ DOMAIN doc \subseteq Nodes
         /\ \A n \in DOMAIN doc : n \in Nat /\ n # 0 /\ Below(n) = Subtree(n) \ {n}
  BY DocumentShape DEF Nodes, Below

(* axisNodes finds the nodes on an axis: downward from any node, and with  *)
(* its parent at hand also around it.                                      *)
LEMMA AxisFound ==
  ASSUME doc \in Documents, NEW n \in DOMAIN doc, NEW axis, axis # "attribute", NEW ancestors,
         axis \in Downward \/ (axis \in Around /\ KnowsParent(n, ancestors))
  PROVE  /\ AxisNodes(axis, n, ancestors) \in Seq(DOMAIN doc)
         /\ ToSet(AxisNodes(axis, n, ancestors)) = NodesOn(axis, n)
         /\ NodesOn(axis, n) \subseteq DOMAIN doc
  <1>1. /\ Nodes \ {0} = DOMAIN doc /\ n # 0 /\ n \in Nat /\ DOMAIN doc \subseteq Nat /\ 0 \notin DOMAIN doc
        /\ Below(n) = Subtree(n) \ {n} /\ Below(n) \subseteq DOMAIN doc
    BY NodesAreDocument, DocumentShape, BelowIsChildren
  <1>2. <<n>> \in Seq(DOMAIN doc) /\ ToSet(<<n>>) = {n}
    BY DEF ToSet
  <1>3. CASE axis = "child"
    <2>1. AxisNodes(axis, n, ancestors) = InOrder(Children(n))
      BY <1>3 DEF AxisNodes
    <2>2. NodesOn(axis, n) = Children(n) /\ Children(n) \subseteq DOMAIN doc
      BY <1>1, <1>3 DEF NodesOn, Children
    <2>3. QED
      BY <2>1, <2>2, InOrderNodes
  <1>4. CASE axis = "self"
    <2>1. AxisNodes(axis, n, ancestors) = <<n>> /\ NodesOn(axis, n) = {n}
      BY <1>4 DEF AxisNodes, NodesOn
    <2>2. QED
      BY <1>2, <2>1
  <1>5. CASE axis = "descendant"
    <2>1. AxisNodes(axis, n, ancestors) = Descendants(n) /\ NodesOn(axis, n) = Below(n)
      BY <1>5 DEF AxisNodes, NodesOn
    <2>2. QED
      BY <1>1, <2>1, DescendantsFound
  <1>6. CASE axis = "descendant-or-self"
    <2>1. AxisNodes(axis, n, ancestors) = <<n>> \o Descendants(n) /\ NodesOn(axis, n) = Below(n) \cup {n}
      BY <1>6 DEF AxisNodes, NodesOn
    <2>2. Descendants(n) \in Seq(DOMAIN doc) /\ ToSet(Descendants(n)) = Below(n)
      BY <1>1, DescendantsFound
    <2> DEFINE one == <<n>>
    <2>3. ToSet(one \o Descendants(n)) = {n} \cup Below(n)
      <3>1. one \in Seq(DOMAIN doc) /\ ToSet(one) = {n}
        BY <1>2
      <3> HIDE DEF one
      <3>2. QED
        BY <2>2, <3>1, ToSetConcat
    <2>4. <<n>> \o Descendants(n) \in Seq(DOMAIN doc)
      BY <1>2, <2>2
    <2>5. QED
      BY <1>1, <2>1, <2>3, <2>4
  <1>7. ASSUME axis \in Around, KnowsParent(n, ancestors)
        PROVE  \E par \in DOMAIN doc :
                 /\ ancestors = <<par>> /\ Last(ancestors) = par /\ n \in Children(par)
                 /\ doc[n].parent = par /\ Siblings(ancestors) = Children(par)
                 /\ SameParent(n) = Children(par) /\ Children(par) \subseteq DOMAIN doc
    <2>1. PICK par \in DOMAIN doc : n \in Children(par) /\ ancestors = <<par>>
      BY <1>7 DEF KnowsParent
    <2>2. ancestors # <<>> /\ Last(ancestors) = par /\ doc[n].parent = par
      BY <2>1 DEF Last, Children
    <2>3. Siblings(ancestors) = Children(par)
      BY <2>1, <2>2 DEF Siblings
    <2>4. SameParent(n) = Children(par)
      BY <1>1, <2>2 DEF SameParent, Children
    <2>5. QED
      BY <2>1, <2>2, <2>3, <2>4 DEF Children
  <1>8. CASE axis \in Around /\ KnowsParent(n, ancestors)
    <2>1. PICK par \in DOMAIN doc :
            /\ ancestors = <<par>> /\ Last(ancestors) = par /\ n \in Children(par)
            /\ doc[n].parent = par /\ Siblings(ancestors) = Children(par)
            /\ SameParent(n) = Children(par) /\ Children(par) \subseteq DOMAIN doc
      BY <1>7, <1>8
    <2>2. CASE axis = "parent"
      <3>1. AxisNodes(axis, n, ancestors) = <<par>>
        BY <2>1, <2>2 DEF AxisNodes
      <3>2. NodesOn(axis, n) = {par}
        BY <1>1, <2>1, <2>2 DEF NodesOn
      <3>3. ToSet(<<par>>) = {par} /\ <<par>> \in Seq(DOMAIN doc)
        BY DEF ToSet
      <3>4. QED
        BY <3>1, <3>2, <3>3
    <2>3. CASE axis = "following-sibling"
      <3>1. AxisNodes(axis, n, ancestors) = InOrder({s \in Children(par) : s > n})
        <4>1. AxisNodes(axis, n, ancestors) = InOrder(SiblingsAfter(n, Children(par)))
          BY <2>1, <2>3 DEF AxisNodes
        <4>2. SiblingsAfter(n, Children(par)) = {s \in Children(par) : s > n}
          BY <2>1 DEF SiblingsAfter
        <4>3. QED
          BY <4>1, <4>2
      <3>2. NodesOn(axis, n) = {s \in Children(par) : s > n}
        BY <2>1, <2>3 DEF NodesOn
      <3>3. {s \in Children(par) : s > n} \subseteq DOMAIN doc
        BY <2>1
      <3>4. QED
        BY <3>1, <3>2, <3>3, InOrderNodes
    <2>4. CASE axis = "preceding-sibling"
      <3>1. AxisNodes(axis, n, ancestors) = Reverse(InOrder({s \in Children(par) : s < n}))
        <4>1. AxisNodes(axis, n, ancestors) = Reverse(InOrder(SiblingsBefore(n, Children(par))))
          BY <2>1, <2>4 DEF AxisNodes
        <4>2. SiblingsBefore(n, Children(par)) = {s \in Children(par) : s < n}
          BY <2>1 DEF SiblingsBefore
        <4>3. QED
          BY <4>1, <4>2
      <3>2. NodesOn(axis, n) = {s \in Children(par) : s < n}
        BY <2>1, <2>4 DEF NodesOn
      <3>3. {s \in Children(par) : s < n} \subseteq DOMAIN doc
        BY <2>1
      <3>4. QED
        BY <3>1, <3>2, <3>3, InOrderNodes, ToSetReverse
    <2>5. QED
      BY <1>8, <2>2, <2>3, <2>4 DEF Around
  <1>9. QED
    BY <1>3, <1>4, <1>5, <1>6, <1>8 DEF Downward

(* The candidates of an axis that pass its test are the nodes XPath says.  *)
LEMMA PassingNodes ==
  ASSUME doc \in Documents, NEW n \in DOMAIN doc, NEW axis, NEW test, NEW ancestors,
         axis \in Downward \/ (axis \in Around /\ KnowsParent(n, ancestors))
  PROVE  /\ NodesOf(Passing(axis, test, n, ancestors)) = OnAxis(axis, test, n)
         /\ Passing(axis, test, n, ancestors) \in Seq(CandidateSet)
         /\ OnAxis(axis, test, n) \subseteq DOMAIN doc
  <1> DEFINE candidates == Candidates(axis, n, ancestors)
             S == {i \in DOMAIN candidates : MatchNodeTest(candidates[i], test)}
  <1>1. Passing(axis, test, n, ancestors) = Sublist(candidates, S)
    BY DEF Passing
  <1>2. /\ candidates \in Seq(CandidateSet)
        /\ {candidates[i].node : i \in S} = OnAxis(axis, test, n)
        /\ OnAxis(axis, test, n) \subseteq DOMAIN doc
    <2>1. CASE axis = "attribute"
      <3> DEFINE attributes == doc[n].attributes
      <3>1. candidates = [i \in DOMAIN attributes |-> [node |-> n, attribute |-> attributes[i].name]]
        BY <2>1 DEF Candidates
      <3>2. attributes \in Seq([name : AttributeNames, value : Values])
        BY DocumentShape
      <3>3. OnAxis(axis, test, n) =
              {m \in {n} : \E i \in DOMAIN attributes : test \in {"*", "node()", attributes[i].name}}
        BY <2>1, NodesAreDocument DEF OnAxis
      <3>4. candidates \in Seq(CandidateSet)
        <4>1. Candidates(axis, n, <<>>) = candidates
          BY <2>1 DEF Candidates
        <4>2. QED
          BY <4>1, CandidatesType
      <3> HIDE DEF attributes
      <3>5. \A i \in DOMAIN attributes : attributes[i].name \in AttributeNames
        <4> DEFINE R == [name : AttributeNames, value : Values]
        <4>1. \A a \in R : a.name \in AttributeNames
          OBVIOUS
        <4>2. attributes \in Seq(R)
          BY <3>2
        <4> HIDE DEF R
        <4>3. QED
          BY <4>1, <4>2
      <3>6. None \notin AttributeNames
        BY NamesAreNames
      <3>7. \A i \in DOMAIN attributes : MatchNodeTest(candidates[i], test) <=> test \in {"*", "node()", attributes[i].name}
        BY <3>1, <3>5, <3>6 DEF MatchNodeTest
      <3>8. DOMAIN candidates = DOMAIN attributes /\ \A i \in DOMAIN attributes : candidates[i].node = n
        BY <3>1
      <3> HIDE DEF candidates
      <3>9. QED
        BY <3>3, <3>4, <3>7, <3>8
    <2>2. CASE axis # "attribute"
      <3> DEFINE nodes == AxisNodes(axis, n, ancestors)
      <3>1. nodes \in Seq(DOMAIN doc) /\ ToSet(nodes) = NodesOn(axis, n) /\ NodesOn(axis, n) \subseteq DOMAIN doc
        BY <2>2, AxisFound
      <3>2. candidates = [i \in DOMAIN nodes |-> Candidate(nodes[i])]
        BY <2>2 DEF Candidates, Candidate
      <3>3. OnAxis(axis, test, n) = {m \in NodesOn(axis, n) : MatchNodeTest(Candidate(m), test)}
        <4>1. \A m \in NodesOn(axis, n) : m # 0
          BY <3>1, NodesAreDocument
        <4>2. QED
          BY <2>2, <4>1 DEF OnAxis
      <3> HIDE DEF nodes
      <3>4. DOMAIN nodes = 1..Len(nodes) /\ Len(nodes) \in Nat /\ \A i \in DOMAIN nodes : nodes[i] \in DOMAIN doc
        BY <3>1
      <3>5. \A m \in DOMAIN doc : Candidate(m) \in CandidateSet /\ Candidate(m).node = m
        BY DEF Candidate, CandidateSet
      <3>6. candidates \in Seq(CandidateSet)
        <4>1. \A i \in DOMAIN nodes : Candidate(nodes[i]) \in CandidateSet
          BY <3>4, <3>5
        <4>2. QED
          BY <3>2, <3>4, <4>1
      <3>7. DOMAIN candidates = DOMAIN nodes
            /\ \A i \in DOMAIN nodes : candidates[i] = Candidate(nodes[i]) /\ candidates[i].node = nodes[i]
        BY <3>2, <3>4, <3>5
      <3> HIDE DEF candidates
      <3>8. QED
        BY <3>1, <3>3, <3>6, <3>7 DEF ToSet
    <2>3. QED
      BY <2>1, <2>2
  <1>3. S \in SUBSET DOMAIN candidates
    OBVIOUS
  <1> HIDE DEF candidates, S
  <1>4. /\ Sublist(candidates, S) \in Seq(CandidateSet)
        /\ \A i \in DOMAIN Sublist(candidates, S) : \E k \in S : Sublist(candidates, S)[i] = candidates[k]
        /\ \A k \in S : \E i \in DOMAIN Sublist(candidates, S) : Sublist(candidates, S)[i] = candidates[k]
    BY <1>2, <1>3, SublistAll
  <1>5. NodesOf(Sublist(candidates, S)) = {candidates[i].node : i \in S}
    <2> DEFINE t == Sublist(candidates, S)
    <2>1. /\ \A i \in DOMAIN t : \E k \in S : t[i] = candidates[k]
          /\ \A k \in S : \E i \in DOMAIN t : t[i] = candidates[k]
      BY <1>4
    <2> HIDE DEF t
    <2>2. QED
      BY <2>1 DEF NodesOf, t
  <1>6. QED
    BY <1>1, <1>2, <1>4, <1>5

-----------------------------------------------------------------------------
(* Predicates.                                                             *)

(* From a node and its ancestors the evaluator sees what is on some axes.  *)
Sees(n, ancestors, axes) ==
  \A axis \in axes : \A test :
    /\ NodesOf(Passing(axis, test, n, ancestors)) = OnAxis(axis, test, n)
    /\ Passing(axis, test, n, ancestors) \in Seq(CandidateSet)

(* That is what lies below, and with the parent at hand what lies around.  *)
LEMMA SeesDownward ==
  ASSUME doc \in Documents, NEW n \in DOMAIN doc, NEW ancestors
  PROVE  /\ Sees(n, ancestors, Downward)
         /\ KnowsParent(n, ancestors) => Sees(n, ancestors, Downward \cup Around)
  <1>1. ASSUME NEW axis \in Downward, NEW test
        PROVE  /\ NodesOf(Passing(axis, test, n, ancestors)) = OnAxis(axis, test, n)
               /\ Passing(axis, test, n, ancestors) \in Seq(CandidateSet)
    BY PassingNodes
  <1>2. ASSUME KnowsParent(n, ancestors), NEW axis \in Downward \cup Around, NEW test
        PROVE  /\ NodesOf(Passing(axis, test, n, ancestors)) = OnAxis(axis, test, n)
               /\ Passing(axis, test, n, ancestors) \in Seq(CandidateSet)
    BY <1>2, PassingNodes
  <1>3. QED
    BY <1>1, <1>2 DEF Sees

(* A comparison for equality, of a named attribute.                        *)
LEMMA EqualsIsTrue ==
  ASSUME doc \in Documents, NEW n \in DOMAIN doc, NEW cond, cond.test \notin {"*", "node()"}
  PROVE  Equals(cond, n) <=> HasValue(cond, n, {cond.value})
  <1> DEFINE found == Passing("attribute", cond.test, n, <<>>)
             attributes == doc[n].attributes
             all == Candidates("attribute", n, <<>>)
             S == {i \in DOMAIN all : MatchNodeTest(all[i], cond.test)}
             R == [name : AttributeNames, value : Values]
  <1>1. /\ all = [i \in DOMAIN attributes |-> [node |-> n, attribute |-> attributes[i].name]]
        /\ all \in Seq(CandidateSet) /\ attributes \in Seq(R) /\ found = Sublist(all, S)
    BY CandidatesType, DocumentShape DEF Candidates, Passing
  <1>2. None \notin AttributeNames
    BY NamesAreNames
  <1>3. \A a \in R : a.name \in AttributeNames /\ \A x, y : a = [name |-> x, value |-> y] <=> a.name = x /\ a.value = y
    <2>1. ASSUME NEW a \in R, NEW x, NEW y
          PROVE  a.name \in AttributeNames /\ (a = [name |-> x, value |-> y] <=> a.name = x /\ a.value = y)
      OBVIOUS
    <2>2. QED
      BY <2>1
  <1> HIDE DEF R
  <1>4. \A i \in DOMAIN attributes : attributes[i] \in R
    BY <1>1
  <1> HIDE DEF attributes, all
  <1>5. DOMAIN all = DOMAIN attributes /\ \A i \in DOMAIN attributes : all[i].attribute = attributes[i].name
    BY <1>1
  <1>6. \A i \in DOMAIN attributes : MatchNodeTest(all[i], cond.test) <=> cond.test = attributes[i].name
    BY <1>2, <1>3, <1>4, <1>5 DEF MatchNodeTest
  <1>7. S \in SUBSET DOMAIN all
    OBVIOUS
  <1>8. \A k \in S : k \in DOMAIN attributes /\ all[k].attribute = cond.test /\ attributes[k].name = cond.test
    BY <1>5, <1>6
  <1>9. \A k \in DOMAIN attributes : attributes[k].name = cond.test => k \in S
    BY <1>5, <1>6
  <1> HIDE DEF S, found
  <1>10. /\ found \in Seq(CandidateSet)
         /\ \A i \in DOMAIN found : \E k \in S : found[i] = all[k]
         /\ \A k \in S : \E i \in DOMAIN found : found[i] = all[k]
    <2>1. all \in Seq(CandidateSet) /\ found = Sublist(all, S)
      BY <1>1
    <2> DEFINE t == Sublist(all, S)
    <2>2. /\ t \in Seq(CandidateSet)
          /\ \A i \in DOMAIN t : \E k \in S : t[i] = all[k]
          /\ \A k \in S : \E i \in DOMAIN t : t[i] = all[k]
      BY <1>7, <2>1, SublistAll
    <2>3. found = t
      BY <2>1
    <2> HIDE DEF t
    <2>4. QED
      BY <2>2, <2>3
  <1>11. found # <<>> <=> S # {}
    BY <1>10
  <1>12. found # <<>> => found[1].attribute = cond.test
    <2>1. found # <<>> => 1 \in DOMAIN found
      BY <1>10
    <2>2. QED
      BY <1>8, <1>10, <2>1
  <1>13. Equals(cond, n) <=> found # <<>> /\ \E i \in DOMAIN attributes :
                               attributes[i] = [name |-> found[1].attribute, value |-> cond.value]
    BY DEF Equals, found, attributes
  <1>14. HasValue(cond, n, {cond.value}) <=>
           \E i \in DOMAIN attributes : cond.test = attributes[i].name /\ attributes[i].value = cond.value
    BY DEF HasValue, ToSet, attributes
  <1>15. Equals(cond, n) => HasValue(cond, n, {cond.value})
    <2> SUFFICES ASSUME Equals(cond, n) PROVE HasValue(cond, n, {cond.value})
      OBVIOUS
    <2>1. PICK i \in DOMAIN attributes : attributes[i] = [name |-> found[1].attribute, value |-> cond.value]
      BY <1>13
    <2>2. attributes[i].name = cond.test /\ attributes[i].value = cond.value
      BY <1>3, <1>4, <1>12, <1>13, <2>1
    <2>3. QED
      BY <1>14, <2>2
  <1>16. HasValue(cond, n, {cond.value}) => Equals(cond, n)
    <2> SUFFICES ASSUME HasValue(cond, n, {cond.value}) PROVE Equals(cond, n)
      OBVIOUS
    <2>1. PICK i \in DOMAIN attributes : cond.test = attributes[i].name /\ attributes[i].value = cond.value
      BY <1>14
    <2>2. found # <<>>
      BY <1>9, <1>11, <2>1
    <2>3. found[1].attribute = attributes[i].name
      BY <1>12, <2>1, <2>2
    <2>4. attributes[i] = [name |-> found[1].attribute, value |-> cond.value]
      BY <1>3, <1>4, <2>1, <2>3
    <2>5. QED
      BY <1>13, <2>2, <2>4
  <1>17. QED
    BY <1>15, <1>16

(* A condition that looks where the evaluator sees is decided as XPath     *)
(* says.                                                                   *)
LEMMA HoldsIsTrue ==
  ASSUME doc \in Documents, NEW n \in DOMAIN doc, NEW ancestors, NEW axes, Sees(n, ancestors, axes),
         NEW cond, Looks(cond, axes)
  PROVE  Holds(cond, n, ancestors) <=> True(cond, n)
  <1>1. CASE cond.kind = "path"
    <2>1. cond.axis \in axes
      BY <1>1 DEF Looks
    <2>2. NodesOf(Passing(cond.axis, cond.test, n, ancestors)) = OnAxis(cond.axis, cond.test, n)
      BY <2>1 DEF Sees
    <2> DEFINE passing == Passing(cond.axis, cond.test, n, ancestors)
    <2>3. passing \in Seq(CandidateSet)
      BY <2>1 DEF Sees
    <2>4. passing # <<>> <=> NodesOf(passing) # {}
      <3> HIDE DEF passing
      <3>1. passing # <<>> <=> Len(passing) # 0
        BY <2>3
      <3>2. Len(passing) \in Nat /\ DOMAIN passing = 1..Len(passing)
        BY <2>3
      <3>3. DOMAIN passing # {} <=> Len(passing) # 0
        <4>1. Len(passing) # 0 => 1 \in DOMAIN passing
          BY <3>2
        <4>2. Len(passing) = 0 => DOMAIN passing = {}
          BY <3>2
        <4>3. QED
          BY <4>1, <4>2
      <3>4. QED
        BY <3>1, <3>3 DEF NodesOf
    <2>5. QED
      BY <1>1, <2>2, <2>4 DEF Holds, True
  <1>2. CASE cond.kind = "equals"
    <2>1. cond.test \notin {"*", "node()"}
      BY <1>2 DEF Looks
    <2>2. QED
      BY <1>2, <2>1, EqualsIsTrue DEF Holds, True
  <1>3. QED
    BY <1>1, <1>2 DEF Looks

(* One predicate of PredicatesLook.                                        *)
PredicateLooks(pred, axes, positions) ==
  CASE pred.kind \in {"position", "last"} -> positions
    [] pred.kind \in {"and", "or"} -> Looks(pred.left, axes) /\ Looks(pred.right, axes)
    [] pred.kind = "not"           -> Looks(pred.operand, axes)
    [] OTHER                       -> Looks(pred, axes)

(* The nodes of candidates increase.                                       *)
InNodeOrder(candidates) ==
  \A i, j \in DOMAIN candidates : i < j => candidates[i].node < candidates[j].node

(* The order of the node-set and the axes that its predicates may look on. *)
Decidable(candidates, ancestors, axes, positions) ==
  /\ \A i \in DOMAIN candidates : Sees(candidates[i].node, ancestors, axes)
  /\ positions => InNodeOrder(candidates)

(* Candidates are nodes of the document.                                   *)
LEMMA CandidateNodes ==
  ASSUME doc \in Documents, NEW candidates \in Seq(CandidateSet)
  PROVE  /\ DOMAIN candidates = 1..Len(candidates) /\ Len(candidates) \in Nat
         /\ \A i \in DOMAIN candidates : candidates[i].node \in DOMAIN doc /\ candidates[i].node \in Nat
         /\ NodesOf(candidates) \subseteq DOMAIN doc
  <1>1. \A c \in CandidateSet : c.node \in DOMAIN doc
    BY DEF CandidateSet
  <1>2. \A i \in DOMAIN candidates : candidates[i] \in CandidateSet
    OBVIOUS
  <1>3. DOMAIN candidates = 1..Len(candidates) /\ Len(candidates) \in Nat
    OBVIOUS
  <1>4. QED
    BY <1>1, <1>2, <1>3, DocumentShape DEF NodesOf

(* In node order the place of a candidate is its rank among the nodes.     *)
LEMMA CandidatePlace ==
  ASSUME doc \in Documents, NEW candidates \in Seq(CandidateSet), InNodeOrder(candidates)
  PROVE  /\ Cardinality(NodesOf(candidates)) = Len(candidates)
         /\ \A i \in DOMAIN candidates :
              Cardinality({k \in NodesOf(candidates) : k <= candidates[i].node}) = i
  <1> DEFINE s == [i \in DOMAIN candidates |-> candidates[i].node]
  <1>1. /\ DOMAIN candidates = 1..Len(candidates) /\ Len(candidates) \in Nat
        /\ \A i \in DOMAIN candidates : candidates[i].node \in Nat
    BY CandidateNodes
  <1>2. s \in Seq(Nat)
    BY <1>1
  <1>3. DOMAIN s = DOMAIN candidates /\ \A i \in DOMAIN candidates : s[i] = candidates[i].node
    OBVIOUS
  <1>31. Len(s) = Len(candidates)
    BY <1>1, <1>2
  <1> HIDE DEF s
  <1>4. Increases(s)
    BY <1>3 DEF Increases, InNodeOrder
  <1>5. ToSet(s) = NodesOf(candidates)
    BY <1>3 DEF ToSet, NodesOf
  <1>6. QED
    BY <1>2, <1>3, <1>31, <1>4, <1>5, RankOfPlace

(* What a predicate says of one candidate.                                 *)
LEMMA PredicateMatches ==
  ASSUME doc \in Documents, NEW candidates \in Seq(CandidateSet), NEW ancestors, NEW axes,
         NEW positions \in BOOLEAN, Decidable(candidates, ancestors, axes, positions),
         NEW axis, ~Reverses(axis), NEW pred, PredicateLooks(pred, axes, positions),
         NEW i \in DOMAIN candidates
  PROVE  EvalPredicate(pred, candidates[i].node, i, Len(candidates), ancestors)
           <=> candidates[i].node \in Survive(NodesOf(candidates), axis, pred)
  <1> DEFINE S == NodesOf(candidates)
             n == candidates[i].node
             Rank == Cardinality({k \in S : k <= n})
  <1>1. n \in S /\ n \in DOMAIN doc
    BY CandidateNodes DEF NodesOf
  <1>2. n \in Survive(S, axis, pred) <=>
          CASE pred.kind = "position" -> Rank = pred.number
            [] pred.kind = "last"     -> Rank = Cardinality(S)
            [] pred.kind = "and"      -> True(pred.left, n) /\ True(pred.right, n)
            [] pred.kind = "or"       -> True(pred.left, n) \/ True(pred.right, n)
            [] pred.kind = "not"      -> ~True(pred.operand, n)
            [] OTHER                  -> True(pred, n)
    <2>1. {k \in S : IF Reverses(axis) THEN k >= n ELSE k <= n} = {k \in S : k <= n}
      OBVIOUS
    <2> HIDE DEF S, n
    <2>2. QED
      BY <1>1, <2>1 DEF Survive
  <1>3. \A cond : Looks(cond, axes) => (Holds(cond, n, ancestors) <=> True(cond, n))
    <2>1. Sees(n, ancestors, axes)
      BY DEF Decidable
    <2> HIDE DEF n
    <2>2. QED
      BY <1>1, <2>1, HoldsIsTrue
  <1>4. positions => Rank = i /\ Cardinality(S) = Len(candidates)
    BY CandidatePlace DEF Decidable
  <1> HIDE DEF S, n, Rank
  <1>5. CASE pred.kind = "position"
    <2>1. positions
      BY <1>5 DEF PredicateLooks
    <2>2. EvalPredicate(pred, n, i, Len(candidates), ancestors) <=> pred.number = i
      BY <1>5 DEF EvalPredicate
    <2>3. n \in Survive(S, axis, pred) <=> Rank = pred.number
      BY <1>2, <1>5
    <2>4. QED
      BY <1>4, <2>1, <2>2, <2>3 DEF n, S
  <1>6. CASE pred.kind = "last"
    <2>1. positions
      BY <1>6 DEF PredicateLooks
    <2>2. EvalPredicate(pred, n, i, Len(candidates), ancestors) <=> Len(candidates) = i
      BY <1>6 DEF EvalPredicate
    <2>3. n \in Survive(S, axis, pred) <=> Rank = Cardinality(S)
      BY <1>2, <1>6
    <2>4. QED
      BY <1>4, <2>1, <2>2, <2>3 DEF n, S
  <1>7. CASE pred.kind = "and"
    <2>1. Looks(pred.left, axes) /\ Looks(pred.right, axes)
      BY <1>7 DEF PredicateLooks
    <2>2. EvalPredicate(pred, n, i, Len(candidates), ancestors)
            <=> Holds(pred.left, n, ancestors) /\ Holds(pred.right, n, ancestors)
      BY <1>7 DEF EvalPredicate, Combined
    <2>3. n \in Survive(S, axis, pred) <=> True(pred.left, n) /\ True(pred.right, n)
      BY <1>2, <1>7
    <2>4. QED
      BY <1>3, <2>1, <2>2, <2>3 DEF n, S
  <1>8. CASE pred.kind = "or"
    <2>1. Looks(pred.left, axes) /\ Looks(pred.right, axes)
      BY <1>8 DEF PredicateLooks
    <2>2. EvalPredicate(pred, n, i, Len(candidates), ancestors)
            <=> Holds(pred.left, n, ancestors) \/ Holds(pred.right, n, ancestors)
      BY <1>8 DEF EvalPredicate, Combined
    <2>3. n \in Survive(S, axis, pred) <=> True(pred.left, n) \/ True(pred.right, n)
      BY <1>2, <1>8
    <2>4. QED
      BY <1>3, <2>1, <2>2, <2>3 DEF n, S
  <1>9. CASE pred.kind = "not"
    <2>1. Looks(pred.operand, axes)
      BY <1>9 DEF PredicateLooks
    <2>2. EvalPredicate(pred, n, i, Len(candidates), ancestors) <=> ~Holds(pred.operand, n, ancestors)
      BY <1>9 DEF EvalPredicate, Combined
    <2>3. n \in Survive(S, axis, pred) <=> ~True(pred.operand, n)
      BY <1>2, <1>9
    <2>4. QED
      BY <1>3, <2>1, <2>2, <2>3 DEF n, S
  <1>10. CASE pred.kind \notin {"position", "last", "and", "or", "not"}
    <2>1. Looks(pred, axes)
      BY <1>10 DEF PredicateLooks
    <2>2. EvalPredicate(pred, n, i, Len(candidates), ancestors) <=> Holds(pred, n, ancestors)
      BY <1>10 DEF EvalPredicate, Combined
    <2>3. n \in Survive(S, axis, pred) <=> True(pred, n)
      BY <1>2, <1>10
    <2>4. QED
      BY <1>3, <2>1, <2>2, <2>3 DEF n, S
  <1>11. QED
    BY <1>5, <1>6, <1>7, <1>8, <1>9, <1>10

(* The candidates that survive a predicate are those XPath says.           *)
LEMMA SurvivingMatches ==
  ASSUME doc \in Documents, NEW candidates \in Seq(CandidateSet), NEW ancestors, NEW axes,
         NEW positions \in BOOLEAN, Decidable(candidates, ancestors, axes, positions),
         NEW axis, ~Reverses(axis), NEW pred, PredicateLooks(pred, axes, positions)
  PROVE  NodesOf(Surviving(candidates, pred, ancestors)) = Survive(NodesOf(candidates), axis, pred)
  <1> DEFINE S == {i \in DOMAIN candidates :
                     EvalPredicate(pred, candidates[i].node, i, Len(candidates), ancestors)}
             left == Sublist(candidates, S)
  <1>1. Surviving(candidates, pred, ancestors) = left
    BY DEF Surviving
  <1>2. \A i \in DOMAIN candidates : i \in S <=> candidates[i].node \in Survive(NodesOf(candidates), axis, pred)
    BY PredicateMatches
  <1>3. S \in SUBSET DOMAIN candidates
    OBVIOUS
  <1>4. Survive(NodesOf(candidates), axis, pred) \subseteq NodesOf(candidates)
    BY DEF Survive
  <1> HIDE DEF S
  <1>5. /\ \A i \in DOMAIN left : \E k \in S : left[i] = candidates[k]
        /\ \A k \in S : \E i \in DOMAIN left : left[i] = candidates[k]
    BY <1>3, SublistAll
  <1> HIDE DEF left
  <1>6. \A n \in NodesOf(left) : n \in Survive(NodesOf(candidates), axis, pred)
    BY <1>2, <1>3, <1>5 DEF NodesOf
  <1>7. ASSUME NEW n \in Survive(NodesOf(candidates), axis, pred) PROVE n \in NodesOf(left)
    <2>1. PICK i \in DOMAIN candidates : n = candidates[i].node
      BY <1>4 DEF NodesOf
    <2>2. i \in S
      BY <1>2, <1>7, <2>1
    <2>3. QED
      BY <1>5, <2>1, <2>2 DEF NodesOf
  <1>8. QED
    BY <1>1, <1>6, <1>7

(* What is left of candidates can still be decided.                        *)
LEMMA KeepsDecidable ==
  ASSUME NEW s, NEW t, Keeps(t, s), NEW ancestors, NEW axes, NEW positions,
         Decidable(s, ancestors, axes, positions)
  PROVE  Decidable(t, ancestors, axes, positions)
  <1>1. \A i \in DOMAIN t : Sees(t[i].node, ancestors, axes)
    BY DEF Keeps, Decidable
  <1>2. InNodeOrder(s) => InNodeOrder(t)
    BY DEF Keeps, InNodeOrder
  <1>3. QED
    BY <1>1, <1>2 DEF Decidable

(* The nodes that survive the predicates, one after the other.             *)
SurvivesIn(left, S, axis, preds) ==
  /\ \A k \in 0..Len(preds) : left[k] \in SUBSET S
  /\ left[0] = S
  /\ \A k \in 1..Len(preds) : left[k] = Survive(left[k - 1], axis, preds[k])
  /\ SurviveAll(S, axis, preds) = left[Len(preds)]

(* There is such a function for any predicates.                            *)
LEMMA SurviveAllSteps ==
  ASSUME NEW S, NEW axis, NEW R, NEW preds, preds \in Seq(R)
  PROVE  \E left : SurvivesIn(left, S, axis, preds)
  <1> DEFINE N == Len(preds)
             T == SUBSET S
             Op == [x \in (1..N) \X T |-> Survive(x[2], axis, preds[x[1]])]
             After(f, k) == IF k = 0 THEN S ELSE Survive(f[k - 1], axis, preds[k])
             left == CHOOSE f : f = [k \in 0..N |-> After(f, k)]
  <1>1. N \in Nat
    OBVIOUS
  <1>2. \A k \in 1..N, t \in T : Survive(t, axis, preds[k]) \in T
    BY DEF Survive
  <1>3. \A k \in 1..N, t \in T : Op[<<k, t>>] = Survive(t, axis, preds[k])
    OBVIOUS
  <1>31. S \in T
    OBVIOUS
  <1> HIDE DEF Op, T
  <1>4. PICK f : /\ \A k \in 0..N : f[k] \in T
                 /\ f[0] = S /\ \A k \in 1..N : f[k] = Op[<<k, f[k - 1]>>]
    <2>1. \A k \in 1..N, t \in T : Op[<<k, t>>] \in T
      BY <1>2, <1>3
    <2> HIDE DEF N, left
    <2>2. StaysIn(T, N, S, Op)
      BY <1>1, <1>31, <2>1 DEF StaysIn
    <2>3. \E f : Recurses(f, T, N, S, Op)
      BY <2>2, RecursionUpto
    <2>4. QED
      BY <2>3 DEF Recurses
  <1>5. ASSUME NEW k \in 1..N PROVE f[k] = Survive(f[k - 1], axis, preds[k])
    <2>1. k - 1 \in 0..N
      BY <1>1
    <2>2. QED
      BY <1>3, <1>4, <2>1
  <1> DEFINE g == [k \in 0..N |-> f[k]]
  <1>6. ASSUME NEW k \in 0..N PROVE g[k] = After(g, k)
    <2>1. k # 0 => k \in 1..N /\ k - 1 \in 0..N
      BY <1>1
    <2>2. QED
      BY <1>4, <1>5, <2>1
  <1>7. g = [k \in 0..N |-> After(g, k)]
    <2> HIDE DEF After
    <2>1. QED
      BY <1>6
  <1>8. left = [k \in 0..N |-> After(left, k)]
    <2> HIDE DEF After, g
    <2>1. QED
      BY <1>7
  <1>9. SurviveAll(S, axis, preds) = left[N]
    BY DEF SurviveAll
  <1> HIDE DEF left
  <1>10. \A k \in 0..N : left[k] = After(left, k)
    <2> HIDE DEF After
    <2>1. QED
      BY <1>8
  <1>11. left[0] = S /\ \A k \in 1..N : left[k] = Survive(left[k - 1], axis, preds[k])
    BY <1>1, <1>10
  <1> DEFINE Good == {k \in 0..N : left[k] \in T}
  <1>12. 0 \in Good
    BY <1>1, <1>11, <1>31
  <1>13. ASSUME NEW k \in 1..N, k - 1 \in Good PROVE k \in Good
    <2>1. k \in 0..N
      BY <1>1
    <2>2. QED
      BY <1>2, <1>11, <1>13, <2>1
  <1>14. 0..N \subseteq Good
    <2> HIDE DEF Good
    <2>1. QED
      BY <1>1, <1>12, <1>13, UptoInduction
  <1>15. QED
    BY <1>9, <1>11, <1>14 DEF T, SurvivesIn

(* All predicates together leave the nodes XPath says.                     *)
LEMMA FilteredMatches ==
  ASSUME doc \in Documents, NEW candidates \in Seq(CandidateSet), NEW ancestors, NEW axes,
         NEW positions \in BOOLEAN, Decidable(candidates, ancestors, axes, positions),
         NEW axis, ~Reverses(axis),
         NEW preds \in Seq(Predicates), PredicatesLook(preds, axes, positions)
  PROVE  /\ NodesOf(Filtered(candidates, preds, ancestors)) = SurviveAll(NodesOf(candidates), axis, preds)
         /\ SurviveAll(NodesOf(candidates), axis, preds) \subseteq NodesOf(candidates)
  <1> DEFINE N == Len(preds)
             S == NodesOf(candidates)
  <1>1. N \in Nat /\ DOMAIN preds = 1..N /\ \A k \in 1..N : PredicateLooks(preds[k], axes, positions)
    <2>1. DOMAIN preds = 1..N /\ N \in Nat
      OBVIOUS
    <2>2. \A k \in DOMAIN preds : PredicateLooks(preds[k], axes, positions)
      BY DEF PredicatesLook, PredicateLooks
    <2>3. QED
      BY <2>1, <2>2
  <1>2. PICK left :
          /\ \A k \in 0..N : left[k] \in Seq(CandidateSet)
          /\ left[0] = candidates
          /\ \A k \in 1..N : left[k] = Surviving(left[k - 1], preds[k], ancestors)
          /\ Filtered(candidates, preds, ancestors) = left[N]
    BY FilteredSteps
  <1>3. PICK chosen :
          /\ \A k \in 0..N : chosen[k] \in SUBSET S
          /\ chosen[0] = S
          /\ \A k \in 1..N : chosen[k] = Survive(chosen[k - 1], axis, preds[k])
          /\ SurviveAll(S, axis, preds) = chosen[N]
    <2> HIDE DEF S
    <2>1. \E chosen : SurvivesIn(chosen, S, axis, preds)
      BY SurviveAllSteps
    <2>2. QED
      BY <2>1 DEF SurvivesIn
  <1> DEFINE Good == {k \in 0..N : /\ NodesOf(left[k]) = chosen[k]
                                   /\ Decidable(left[k], ancestors, axes, positions)}
  <1>4. 0 \in Good
    BY <1>1, <1>2, <1>3
  <1>5. ASSUME NEW k \in 1..N, k - 1 \in Good PROVE k \in Good
    <2> DEFINE now == left[k - 1]
    <2>1. now \in Seq(CandidateSet) /\ NodesOf(now) = chosen[k - 1] /\ Decidable(now, ancestors, axes, positions)
      BY <1>1, <1>2, <1>5
    <2>2. left[k] = Surviving(now, preds[k], ancestors) /\ chosen[k] = Survive(chosen[k - 1], axis, preds[k])
      BY <1>2, <1>3
    <2> HIDE DEF now
    <2>3. NodesOf(Surviving(now, preds[k], ancestors)) = Survive(NodesOf(now), axis, preds[k])
      BY <1>1, <2>1, SurvivingMatches
    <2>4. Keeps(left[k], now)
      BY <2>1, <2>2, SurvivingKeeps
    <2>5. Decidable(left[k], ancestors, axes, positions)
      BY <2>1, <2>4, KeepsDecidable
    <2>6. k \in 0..N
      BY <1>1
    <2>7. QED
      BY <2>1, <2>2, <2>3, <2>5, <2>6
  <1>6. N \in Good
    <2> HIDE DEF Good
    <2>1. 0..N \subseteq Good
      BY <1>1, <1>4, <1>5, UptoInduction
    <2>2. QED
      BY <1>1, <2>1
  <1>7. QED
    BY <1>1, <1>2, <1>3, <1>6

-----------------------------------------------------------------------------
(* Steps.                                                                  *)

(* What a downward step selects from a node is what XPath says.            *)
LEMMA SelectedMatches ==
  ASSUME doc \in Documents, NEW n \in DOMAIN doc, NEW s \in StepRecord, DownwardStep(s)
  PROVE  NodesOf(Selected(s, n)) = From(n, s) /\ From(n, s) \subseteq DOMAIN doc
  <1> DEFINE passing == Passing(s.axis, s.test, n, <<>>)
             child == s.axis = "child"
             axes == IF child THEN Downward \cup Around ELSE Downward
  <1>1. s.axis \in Downward /\ PredicatesLook(s.predicates, axes, child) /\ s.predicates \in Seq(Predicates)
    BY DEF DownwardStep, StepRecord
  <1>2. /\ NodesOf(passing) = OnAxis(s.axis, s.test, n) /\ passing \in Seq(CandidateSet)
        /\ OnAxis(s.axis, s.test, n) \subseteq DOMAIN doc
    BY <1>1, PassingNodes
  <1>3. ~Reverses(s.axis)
    BY <1>1 DEF Downward, Reverses
  <1>4. Keeps(passing, Candidates(s.axis, n, <<>>))
    BY PassingKeeps
  <1>5. ASSUME child
        PROVE  /\ \A i \in DOMAIN passing : passing[i].node \in Children(n)
               /\ InNodeOrder(passing)
    <2> DEFINE all == Candidates(s.axis, n, <<>>)
               listed == InOrder(Children(n))
    <2>1. all = [i \in DOMAIN listed |-> [node |-> listed[i], attribute |-> None]]
      BY <1>5 DEF Candidates, AxisNodes
    <2>2. /\ \A i \in DOMAIN listed : listed[i] \in Children(n)
          /\ \A i, j \in DOMAIN listed : i < j => listed[i] < listed[j]
      BY InOrderNodes DEF Children
    <2> HIDE DEF listed
    <2>3. /\ \A i \in DOMAIN all : all[i].node \in Children(n)
          /\ \A i, j \in DOMAIN all : i < j => all[i].node < all[j].node
      BY <2>1, <2>2
    <2>4. Keeps(passing, all)
      BY <1>4
    <2> HIDE DEF all, passing
    <2>5. QED
      BY <2>3, <2>4 DEF Keeps, InNodeOrder
  <1>6. \A i \in DOMAIN passing : passing[i].node \in DOMAIN doc
    BY <1>2, CandidateNodes
  <1>7. Decidable(passing, <<n>>, axes, child)
    <2>1. CASE child
      <3>1. \A i \in DOMAIN passing : KnowsParent(passing[i].node, <<n>>)
        BY <1>5, <2>1 DEF KnowsParent
      <3> HIDE DEF passing
      <3>2. QED
        BY <1>5, <1>6, <2>1, <3>1, SeesDownward DEF Decidable
    <2>2. CASE ~child
      <3> HIDE DEF passing
      <3>1. QED
        BY <1>6, <2>2, SeesDownward DEF Decidable
    <2>3. QED
      BY <2>1, <2>2
  <1>8. Selected(s, n) = Filtered(passing, s.predicates, <<n>>)
    BY DEF Selected
  <1>81. child \in BOOLEAN
    OBVIOUS
  <1> HIDE DEF passing, axes, child
  <1>9. /\ NodesOf(Filtered(passing, s.predicates, <<n>>)) = SurviveAll(NodesOf(passing), s.axis, s.predicates)
        /\ SurviveAll(NodesOf(passing), s.axis, s.predicates) \subseteq NodesOf(passing)
    BY <1>1, <1>2, <1>3, <1>7, <1>81, FilteredMatches
  <1>10. QED
    BY <1>2, <1>8, <1>9 DEF From

(* Adding candidates to a node-set adds their nodes.                       *)
LEMMA AddAllSet ==
  ASSUME NEW D, NEW nodes \in Seq(D),
         NEW C, NEW candidates \in Seq(C), \A i \in DOMAIN candidates : candidates[i].node \in D
  PROVE  ToSet(AddAll(nodes, candidates)) = ToSet(nodes) \cup NodesOf(candidates)
  <1> DEFINE N == Len(candidates)
             First(k) == {candidates[i].node : i \in 1..k}
  <1>1. N \in Nat /\ DOMAIN candidates = 1..N
    OBVIOUS
  <1>2. PICK found :
          /\ \A k \in 0..N : found[k] \in Seq(D)
          /\ found[0] = nodes
          /\ \A k \in 1..N : found[k] = Add(found[k - 1], candidates[k].node)
          /\ AddAll(nodes, candidates) = found[N]
    BY AddAllSteps
  <1>3. ASSUME NEW s \in Seq(D), NEW n \in D PROVE ToSet(Add(s, n)) = ToSet(s) \cup {n}
    <2>1. DOMAIN s = 1..Len(s) /\ Len(s) \in Nat
      OBVIOUS
    <2>2. CASE Contains(s, n)
      BY <2>1, <2>2 DEF Add, Contains, ToSet
    <2>3. CASE ~Contains(s, n)
      <3> DEFINE after == Append(s, n)
      <3>1. /\ DOMAIN after = DOMAIN s \cup {Len(s) + 1}
            /\ \A i \in DOMAIN s : after[i] = s[i]
            /\ after[Len(s) + 1] = n
        BY <2>1
      <3>2. Add(s, n) = after
        BY <2>3 DEF Add
      <3> HIDE DEF after
      <3>3. ToSet(after) = ToSet(s) \cup {n}
        BY <3>1 DEF ToSet
      <3>4. QED
        BY <3>2, <3>3
    <2>4. QED
      BY <2>2, <2>3
  <1> DEFINE Good == {k \in 0..N : ToSet(found[k]) = ToSet(nodes) \cup First(k)}
  <1>4. 0 \in Good
    BY <1>1, <1>2
  <1>5. ASSUME NEW k \in 1..N, k - 1 \in Good PROVE k \in Good
    <2>1. found[k - 1] \in Seq(D) /\ candidates[k].node \in D /\ k \in 0..N
      <3>1. k - 1 \in 0..N /\ k \in 0..N
        BY <1>1
      <3>2. QED
        BY <1>1, <1>2, <3>1
    <2>2. ToSet(found[k]) = ToSet(found[k - 1]) \cup {candidates[k].node}
      BY <1>2, <1>3, <2>1
    <2>3. ToSet(found[k - 1]) = ToSet(nodes) \cup First(k - 1)
      BY <1>5
    <2>4. First(k) = First(k - 1) \cup {candidates[k].node}
      <3>1. 1..k = 1..(k - 1) \cup {k}
        BY <1>1
      <3>2. QED
        BY <3>1, Zenon
    <2> HIDE DEF First
    <2>5. QED
      BY <2>1, <2>2, <2>3, <2>4
  <1>6. N \in Good
    <2> HIDE DEF Good
    <2>1. 0..N \subseteq Good
      BY <1>1, <1>4, <1>5, UptoInduction
    <2>2. QED
      BY <1>1, <2>1
  <1>7. First(N) = NodesOf(candidates)
    BY <1>1 DEF NodesOf
  <1>8. QED
    BY <1>2, <1>6, <1>7

(* A step leads from nodes to nodes.                                       *)
LEMMA FromNodes ==
  ASSUME doc \in Documents, NEW s \in StepRecord, NEW n \in Nodes
  PROVE  /\ From(n, s) \subseteq OnAxis(s.axis, s.test, n)
         /\ From(n, s) \subseteq Nodes
  <1>1. s.predicates \in Seq(Predicates)
    BY DEF StepRecord
  <1>2. From(n, s) \subseteq OnAxis(s.axis, s.test, n)
    <2> DEFINE S == OnAxis(s.axis, s.test, n)
               N == Len(s.predicates)
    <2>1. From(n, s) = SurviveAll(S, s.axis, s.predicates)
      BY DEF From
    <2> HIDE DEF S
    <2>2. PICK left : SurvivesIn(left, S, s.axis, s.predicates)
      BY <1>1, SurviveAllSteps
    <2>3. N \in Nat /\ N \in 0..N
      BY <1>1
    <2>4. QED
      BY <2>1, <2>2, <2>3 DEF SurvivesIn, S
  <1>3. Nodes = 0..Len(doc) /\ Len(doc) \in Nat /\ n \in Nat /\ 0 \in Nodes
    BY DocumentShape DEF Nodes
  <1>4. \A m \in Nodes : Below(m) \subseteq Nodes
    <2>1. \A m \in Nodes : Subtree(m) \subseteq m..Len(doc)
      BY DEF Subtree
    <2>2. \A m \in Nodes : m..Len(doc) \subseteq Nodes
      BY <1>3
    <2>3. QED
      BY <2>1, <2>2 DEF Below
  <1>5. NodesOn(s.axis, n) \subseteq Nodes
    <2>1. Above(n) \subseteq Nodes /\ SameParent(n) \subseteq Nodes /\ 1..n \subseteq Nodes
      BY <1>3 DEF Above, SameParent
    <2>2. QED
      BY <1>4, <2>1 DEF NodesOn
  <1>6. OnAxis(s.axis, s.test, n) \subseteq Nodes
    BY <1>5 DEF OnAxis
  <1>7. QED
    BY <1>2, <1>6

(* The nodes after each step of a path, of which the steps are p.steps.    *)
ReachesIn(reached, p) ==
  /\ \A k \in 0..Len(p.steps) : reached[k] \in SUBSET Nodes
  /\ reached[0] = {IF p.absolute THEN 0 ELSE Root}
  /\ \A k \in 1..Len(p.steps) : reached[k] = UNION {From(n, p.steps[k]) : n \in reached[k - 1]}

(* Reached is this function.                                               *)
LEMMA ReachedSteps ==
  ASSUME doc \in Documents, NEW p, p.steps \in Seq(StepRecord)
  PROVE  ReachesIn(Reached(p), p)
  <1> DEFINE N == Len(p.steps)
             T == SUBSET Nodes
             first == {IF p.absolute THEN 0 ELSE Root}
             Stepped(k, t) == UNION {From(n, p.steps[k]) : n \in t}
             Op == [x \in (1..N) \X T |-> Stepped(x[1], x[2])]
             After(f, k) == IF k = 0 THEN first ELSE Stepped(k, f[k - 1])
             reached == CHOOSE f : f = [k \in 0..N |-> After(f, k)]
  <1>1. N \in Nat /\ \A k \in 1..N : p.steps[k] \in StepRecord
    OBVIOUS
  <1>2. \A k \in 1..N, t \in T : Stepped(k, t) \in T
    <2>1. \A k \in 1..N : \A n \in Nodes : From(n, p.steps[k]) \subseteq Nodes
      BY <1>1, FromNodes
    <2>2. QED
      BY <2>1
  <1>3. \A k \in 1..N, t \in T : Op[<<k, t>>] = Stepped(k, t)
    OBVIOUS
  <1>4. first \in T
    BY NodesAreDocument, DocumentShape DEF Nodes
  <1> HIDE DEF Op, T, first, Stepped
  <1>5. PICK f : /\ \A k \in 0..N : f[k] \in T
                 /\ f[0] = first /\ \A k \in 1..N : f[k] = Op[<<k, f[k - 1]>>]
    <2>1. \A k \in 1..N, t \in T : Op[<<k, t>>] \in T
      BY <1>2, <1>3
    <2> HIDE DEF N, reached
    <2>2. StaysIn(T, N, first, Op)
      BY <1>1, <1>4, <2>1 DEF StaysIn
    <2>3. \E f : Recurses(f, T, N, first, Op)
      BY <2>2, RecursionUpto
    <2>4. QED
      BY <2>3 DEF Recurses
  <1>6. ASSUME NEW k \in 1..N PROVE f[k] = Stepped(k, f[k - 1])
    <2>1. k - 1 \in 0..N
      BY <1>1
    <2>2. QED
      BY <1>3, <1>5, <2>1
  <1> DEFINE g == [k \in 0..N |-> f[k]]
  <1>7. ASSUME NEW k \in 0..N PROVE g[k] = After(g, k)
    <2>1. k # 0 => k \in 1..N /\ k - 1 \in 0..N
      BY <1>1
    <2>2. QED
      BY <1>5, <1>6, <2>1
  <1>8. g = [k \in 0..N |-> After(g, k)]
    <2> HIDE DEF After
    <2>1. QED
      BY <1>7
  <1>9. reached = [k \in 0..N |-> After(reached, k)]
    <2> HIDE DEF After, g
    <2>1. QED
      BY <1>8
  <1>10. Reached(p) = reached
    BY DEF Reached, Stepped, first
  <1> HIDE DEF reached
  <1>11. \A k \in 0..N : reached[k] = After(reached, k)
    <2> HIDE DEF After
    <2>1. QED
      BY <1>9
  <1>12. reached[0] = first /\ \A k \in 1..N : reached[k] = Stepped(k, reached[k - 1])
    BY <1>1, <1>11
  <1> DEFINE Good == {k \in 0..N : reached[k] \in T}
  <1>13. 0 \in Good
    BY <1>1, <1>4, <1>12
  <1>14. ASSUME NEW k \in 1..N, k - 1 \in Good PROVE k \in Good
    <2>1. k \in 0..N
      BY <1>1
    <2>2. QED
      BY <1>2, <1>12, <1>14, <2>1
  <1>15. 0..N \subseteq Good
    <2> HIDE DEF Good
    <2>1. QED
      BY <1>1, <1>13, <1>14, UptoInduction
  <1>16. \A k \in 0..N : reached[k] \in T
    BY <1>15
  <1>17. QED
    BY <1>10, <1>12, <1>16 DEF ReachesIn, T, Stepped, first

-----------------------------------------------------------------------------
(* Paths.                                                                  *)

(* Every node is below the root, and its element the only child.           *)
LEMMA BelowRoot ==
  ASSUME doc \in Documents
  PROVE  /\ Subtree(Root) = DOMAIN doc /\ Below(0) = DOMAIN doc
         /\ \A n \in DOMAIN doc : doc[n].parent = 0 <=> n = Root
  <1>1. DOMAIN doc = 1..Len(doc) /\ Len(doc) \in Nat /\ doc \in Seq(NodeRecord) /\ 1 \in DOMAIN doc
    BY DocumentShape, DocumentsAreTrees DEF Root
  <1>2. doc[1].parent = 0 /\ \A n \in 2..Len(doc) : doc[n].parent \in 1..(n - 1)
    BY DocumentsAreTrees
  <1>3. \A n \in DOMAIN doc : doc[n].parent = 0 <=> n = Root
    <2> SUFFICES ASSUME NEW n \in DOMAIN doc PROVE doc[n].parent = 0 <=> n = Root
      OBVIOUS
    <2>1. n = 1 \/ n \in 2..Len(doc)
      BY <1>1
    <2>2. n \in 2..Len(doc) => doc[n].parent # 0 /\ n # 1
      BY <1>2
    <2>3. QED
      BY <1>2, <2>1, <2>2 DEF Root
  <1>4. ASSUME NEW m \in DOMAIN doc, NEW k \in (Root + 1)..m PROVE doc[k].parent >= Root
    <2>1. k \in 2..Len(doc)
      BY <1>1 DEF Root
    <2>2. doc[k].parent \in 1..(k - 1)
      BY <1>2, <2>1
    <2>3. QED
      BY <2>2 DEF Root
  <1>5. Subtree(Root) = DOMAIN doc
    BY <1>1, <1>4 DEF Subtree, Root
  <1>6. QED
    BY <1>3, <1>5, NodesAreDocument DEF Below

(* A node that survives predicates without positions survives them in any  *)
(* set.                                                                    *)
LEMMA SurvivesAnywhere ==
  ASSUME NEW S, NEW T, NEW axis, NEW axes, NEW R, NEW preds \in Seq(R),
         PredicatesLook(preds, axes, FALSE),
         NEW n \in SurviveAll(S, axis, preds), n \in T
  PROVE  n \in SurviveAll(T, axis, preds)
  <1> DEFINE N == Len(preds)
  <1>1. N \in Nat /\ DOMAIN preds = 1..N
    OBVIOUS
  <1>2. PICK left : SurvivesIn(left, S, axis, preds)
    BY SurviveAllSteps
  <1>3. PICK there : SurvivesIn(there, T, axis, preds)
    BY SurviveAllSteps
  <1>4. /\ left[N] = SurviveAll(S, axis, preds) /\ there[N] = SurviveAll(T, axis, preds)
        /\ \A k \in 1..N : left[k] = Survive(left[k - 1], axis, preds[k])
        /\ \A k \in 1..N : there[k] = Survive(there[k - 1], axis, preds[k])
        /\ there[0] = T
    BY <1>2, <1>3 DEF SurvivesIn
  <1> DEFINE Good == {k \in 0..N : n \in left[k] => n \in there[k]}
  <1>5. 0 \in Good
    BY <1>1, <1>4
  <1>6. ASSUME NEW k \in 1..N, k - 1 \in Good PROVE k \in Good
    <2>1. preds[k].kind \notin {"position", "last"}
      BY <1>1 DEF PredicatesLook
    <2>2. \A U, V : n \in Survive(U, axis, preds[k]) /\ n \in V => n \in U /\ n \in Survive(V, axis, preds[k])
      BY <2>1 DEF Survive
    <2>3. n \in left[k - 1] => n \in there[k - 1]
      BY <1>6
    <2>4. n \in left[k] => n \in there[k]
      BY <1>4, <2>2, <2>3
    <2>5. QED
      BY <1>1, <2>4
  <1>7. N \in Good
    <2> HIDE DEF Good
    <2>1. 0..N \subseteq Good
      BY <1>1, <1>5, <1>6, UptoInduction
    <2>2. QED
      BY <1>1, <2>1
  <1>8. QED
    BY <1>4, <1>7

(* Without predicates all survive.                                         *)
LEMMA NoPredicates ==
  ASSUME NEW S, NEW axis
  PROVE  SurviveAll(S, axis, <<>>) = S
  <1>1. <<>> \in Seq({}) /\ Len(<<>>) = 0
    OBVIOUS
  <1>2. PICK left : SurvivesIn(left, S, axis, <<>>)
    BY <1>1, SurviveAllSteps
  <1>3. QED
    BY <1>1, <1>2 DEF SurvivesIn

(* The root element, where the evaluator adds it after a step.             *)
RootAdded(p, k) ==
  IF /\ p.absolute /\ k = 2
     /\ p.steps[1].axis = "descendant-or-self" /\ p.steps[2].axis = "child"
     /\ MatchNodeTest(Candidate(Root), p.steps[2].test)
  THEN {Root} ELSE {}

(* The nodes that a step of the evaluator starts from.                     *)
Starting(p, k) == IF k = 1 THEN {Root} ELSE Reached(p)[k - 1] \ {0}

(* A downward path of the expression.                                      *)
GoesDown(p) ==
  /\ p.steps \in Seq(StepRecord) /\ p.filter \in Seq(Predicates) /\ p.absolute \in BOOLEAN
  /\ DownwardPath(p)

(* Its steps go down, from nodes of the document to such nodes.            *)
LEMMA DownSteps ==
  ASSUME doc \in Documents, NEW p, GoesDown(p)
  PROVE  /\ Len(p.steps) \in Nat /\ DOMAIN p.steps = 1..Len(p.steps)
         /\ \A k \in 1..Len(p.steps) :
              /\ p.steps[k] \in StepRecord /\ DownwardStep(p.steps[k])
              /\ \A n \in DOMAIN doc : From(n, p.steps[k]) \subseteq DOMAIN doc
  <1>1. Len(p.steps) \in Nat /\ DOMAIN p.steps = 1..Len(p.steps) /\ p.steps \in Seq(StepRecord)
    BY DEF GoesDown
  <1>2. \A k \in 1..Len(p.steps) : p.steps[k] \in StepRecord /\ DownwardStep(p.steps[k])
    BY <1>1 DEF GoesDown, DownwardPath
  <1>3. QED
    BY <1>1, <1>2, SelectedMatches

(* Below the root of the document a path stays below it.                   *)
LEMMA StaysBelow ==
  ASSUME doc \in Documents, NEW p, GoesDown(p), NEW j \in 0..Len(p.steps), 0 \notin Reached(p)[j]
  PROVE  \A k \in j..Len(p.steps) : 0 \notin Reached(p)[k]
  <1> DEFINE N == Len(p.steps)
             Good == {k \in 0..N : k < j \/ 0 \notin Reached(p)[k]}
  <1>1. N \in Nat /\ j \in Nat
    BY DownSteps
  <1>2. /\ \A k \in 0..N : Reached(p)[k] \in SUBSET Nodes
        /\ \A k \in 1..N : Reached(p)[k] = UNION {From(n, p.steps[k]) : n \in Reached(p)[k - 1]}
    BY ReachedSteps DEF GoesDown, ReachesIn
  <1>3. 0 \in Good
    <2>1. j = 0 \/ 0 < j
      BY <1>1
    <2>2. QED
      BY <1>1, <2>1
  <1>4. ASSUME NEW k \in 1..N, k - 1 \in Good PROVE k \in Good
    <2>1. k \in 0..N /\ k - 1 \in 0..N
      BY <1>1
    <2>2. CASE k < j
      BY <2>1, <2>2
    <2>3. CASE k = j
      BY <2>1, <2>3
    <2>4. CASE k > j
      <3>1. ~(k - 1 < j)
        BY <1>1, <2>4
      <3>2. 0 \notin Reached(p)[k - 1] /\ Reached(p)[k - 1] \subseteq DOMAIN doc
        BY <1>2, <1>4, <2>1, <3>1, NodesAreDocument
      <3>3. Reached(p)[k] \subseteq DOMAIN doc
        BY <1>2, <3>2, DownSteps
      <3>4. QED
        BY <2>1, <3>3, NodesAreDocument
    <2>5. QED
      BY <1>1, <2>2, <2>3, <2>4
  <1>5. 0..N \subseteq Good
    <2> HIDE DEF Good
    <2>1. QED
      BY <1>1, <1>3, <1>4, UptoInduction
  <1>6. \A k \in j..N : k \in 0..N /\ ~(k < j)
    BY <1>1
  <1>7. QED
    BY <1>5, <1>6

(* A path that starts below the root of the document.                      *)
LEMMA StepReachesBelow ==
  ASSUME doc \in Documents, NEW p, GoesDown(p), NEW k \in 1..Len(p.steps),
         0 \notin Reached(p)[k - 1], RootAdded(p, k) = {}, k = 1 => ~p.absolute
  PROVE  (UNION {From(n, p.steps[k]) : n \in Starting(p, k)}) \cup RootAdded(p, k) = Reached(p)[k] \ {0}
  <1>1. /\ Reached(p)[0] = {IF p.absolute THEN 0 ELSE Root}
        /\ Reached(p)[k] = UNION {From(n, p.steps[k]) : n \in Reached(p)[k - 1]}
    BY ReachedSteps DEF GoesDown, ReachesIn
  <1>2. Len(p.steps) \in Nat
    BY DownSteps
  <1>3. Starting(p, k) = Reached(p)[k - 1]
    <2>1. CASE k = 1
      BY <1>1, <2>1 DEF Starting
    <2>2. CASE k # 1
      BY <2>2 DEF Starting
    <2>3. QED
      BY <2>1, <2>2
  <1>4. 0 \notin Reached(p)[k]
    <2>1. k - 1 \in 0..Len(p.steps) /\ k \in (k - 1)..Len(p.steps)
      BY <1>2
    <2>2. QED
      BY <2>1, StaysBelow
  <1>5. QED
    BY <1>1, <1>3, <1>4

(* The element of the document as the first step of a path.                *)
LEMMA RootIsReached ==
  ASSUME doc \in Documents, NEW p, GoesDown(p), p.absolute, p.steps[1].axis = "child"
  PROVE  /\ 1 \in 1..Len(p.steps) /\ Reached(p)[1] = From(0, p.steps[1])
         /\ OnAxis("child", p.steps[1].test, 0) =
              IF MatchNodeTest(Candidate(Root), p.steps[1].test) THEN {Root} ELSE {}
         /\ From(0, p.steps[1]) \subseteq {Root} /\ 0 \notin Reached(p)[1]
  <1>1. p.steps # <<>>
    BY DEF GoesDown, DownwardPath
  <1>2. 1 \in 1..Len(p.steps) /\ p.steps[1] \in StepRecord
    <2>1. Len(p.steps) \in Nat /\ Len(p.steps) # 0
      BY <1>1, DownSteps DEF GoesDown
    <2>2. QED
      BY <2>1, DownSteps
  <1>3. Reached(p)[1] = From(0, p.steps[1])
    <2>1. Reached(p)[0] = {0} /\ Reached(p)[1] = UNION {From(n, p.steps[1]) : n \in Reached(p)[1 - 1]}
      BY <1>2, ReachedSteps DEF GoesDown, ReachesIn
    <2>2. QED
      BY <2>1
  <1>4. NodesOn("child", 0) = {Root}
    BY BelowRoot, NodesAreDocument, DocumentShape DEF NodesOn
  <1>5. OnAxis("child", p.steps[1].test, 0) =
          IF MatchNodeTest(Candidate(Root), p.steps[1].test) THEN {Root} ELSE {}
    <2>1. Root # 0
      BY DEF Root
    <2>2. QED
      BY <1>4, <2>1 DEF OnAxis
  <1>6. From(0, p.steps[1]) \subseteq {Root}
    <2>1. 0 \in Nodes
      BY DocumentShape DEF Nodes
    <2>2. QED
      BY <1>2, <1>5, <2>1, FromNodes
  <1>7. QED
    BY <1>2, <1>3, <1>5, <1>6 DEF Root

(* The root of the document, where every path of // begins.                *)
Anywhere == [axis |-> "descendant-or-self", test |-> "node()", predicates |-> <<>>]

(* From it, and in the evaluator from the element, every node is reached.  *)
LEMMA AnywhereIsReached ==
  ASSUME doc \in Documents, NEW p, GoesDown(p), p.absolute, p.steps[1] = Anywhere
  PROVE  /\ 1 \in 1..Len(p.steps)
         /\ Reached(p)[1] = Nodes /\ From(Root, p.steps[1]) = DOMAIN doc
  <1>1. p.steps # <<>>
    BY DEF GoesDown, DownwardPath
  <1>2. 1 \in 1..Len(p.steps)
    <2>1. Len(p.steps) \in Nat /\ Len(p.steps) # 0
      BY <1>1, DownSteps DEF GoesDown
    <2>2. QED
      BY <2>1, DownSteps
  <1>3. \A n : From(n, Anywhere) = OnAxis("descendant-or-self", "node()", n)
    BY NoPredicates DEF From, Anywhere
  <1>4. \A n : OnAxis("descendant-or-self", "node()", n) = Below(n) \cup {n}
    BY DEF OnAxis, NodesOn, MatchNodeTest
  <1>5. From(0, Anywhere) = Nodes
    <2>1. 0 \in Nodes /\ Below(0) = DOMAIN doc /\ Nodes \ {0} = DOMAIN doc
      BY BelowRoot, NodesAreDocument, DocumentShape DEF Nodes
    <2>2. From(0, Anywhere) = Below(0) \cup {0}
      BY <1>3, <1>4, Zenon
    <2>3. QED
      BY <2>1, <2>2
  <1>6. From(Root, Anywhere) = DOMAIN doc
    <2>1. Root \in DOMAIN doc /\ Below(Root) = DOMAIN doc \ {Root}
      BY BelowRoot, NodesAreDocument, DocumentShape
    <2>2. From(Root, Anywhere) = Below(Root) \cup {Root}
      BY <1>3, <1>4, Zenon
    <2>3. QED
      BY <2>1, <2>2
  <1>7. Reached(p)[1] = From(0, p.steps[1])
    <2>1. Reached(p)[0] = {0} /\ Reached(p)[1] = UNION {From(n, p.steps[1]) : n \in Reached(p)[1 - 1]}
      BY <1>2, ReachedSteps DEF GoesDown, ReachesIn
    <2>2. QED
      BY <2>1
  <1>8. QED
    BY <1>2, <1>5, <1>6, <1>7

(* After // only the element of the document could be missed.              *)
LEMMA SecondReaches ==
  ASSUME doc \in Documents, NEW p, GoesDown(p), p.absolute, p.steps[1] = Anywhere, Len(p.steps) > 1
  PROVE  /\ (UNION {From(n, p.steps[2]) : n \in Starting(p, 2)}) \cup RootAdded(p, 2) = Reached(p)[2] \ {0}
         /\ Len(p.steps) > 2 => 0 \notin Reached(p)[2]
  <1> DEFINE s == p.steps[2]
             U == UNION {From(n, s) : n \in DOMAIN doc}
             match == MatchNodeTest(Candidate(Root), s.test)
  <1>1. /\ s \in StepRecord /\ DownwardStep(s) /\ s.axis \in Downward /\ 2 \in 1..Len(p.steps)
        /\ \A n \in DOMAIN doc : From(n, s) \subseteq DOMAIN doc
    <2>1. 2 \in 1..Len(p.steps)
      BY DownSteps
    <2>2. QED
      BY <2>1, DownSteps DEF DownwardStep
  <1>2. /\ 0 \in Nodes /\ Nodes \ {0} = DOMAIN doc /\ 0 \notin DOMAIN doc /\ Nodes = DOMAIN doc \cup {0}
        /\ Root \in DOMAIN doc /\ Root # 0 /\ Below(0) = DOMAIN doc /\ Subtree(Root) = DOMAIN doc
        /\ Below(Root) = DOMAIN doc \ {Root}
    BY NodesAreDocument, DocumentShape, BelowRoot DEF Nodes, Root
  <1>3. Reached(p)[1] = Nodes
    BY AnywhereIsReached
  <1>4. Starting(p, 2) = DOMAIN doc
    <2>1. Starting(p, 2) = Reached(p)[2 - 1] \ {0}
      BY DEF Starting
    <2>2. 2 - 1 = 1
      OBVIOUS
    <2>3. QED
      BY <1>2, <1>3, <2>1, <2>2
  <1>5. Reached(p)[2] = From(0, s) \cup U
    <2>1. Reached(p)[2] = UNION {From(n, s) : n \in Reached(p)[2 - 1]}
      BY <1>1, ReachedSteps DEF GoesDown, ReachesIn
    <2>2. 2 - 1 = 1
      OBVIOUS
    <2>3. Reached(p)[2] = UNION {From(n, s) : n \in Nodes}
      BY <1>3, <2>1, <2>2
    <2> HIDE DEF s
    <2>4. QED
      BY <1>2, <2>3
  <1>6. U \subseteq DOMAIN doc
    BY <1>1
  <1>7. /\ From(0, s) \subseteq OnAxis(s.axis, s.test, 0)
        /\ s.predicates \in Seq(Predicates)
    BY <1>1, <1>2, FromNodes DEF StepRecord
  <1>8. match =>
          \/ s.axis = "attribute"
          \/ s.axis \in {"self", "descendant-or-self"} /\ Len(p.steps) = 2
          \/ s.axis = "child" /\ s.predicates = <<>>
    <2>1. RootIsNoExtra(p)
      BY DEF GoesDown, DownwardPath
    <2>2. p.steps[1].axis # "child"
      BY DEF Anywhere
    <2>3. QED
      BY <2>1, <2>2 DEF RootIsNoExtra
  <1>9. ~match => s.test # "node()"
    BY DEF MatchNodeTest
  <1>10. RootAdded(p, 2) = IF s.axis = "child" /\ match THEN {Root} ELSE {}
    BY DEF RootAdded, Anywhere
  <1> DEFINE Claim == /\ From(0, s) \ {0} \subseteq U \cup RootAdded(p, 2)
                      /\ RootAdded(p, 2) \subseteq From(0, s)
                      /\ Len(p.steps) > 2 => 0 \notin From(0, s)
  <1> HIDE DEF match, s
  <1>11. \A m : m \in OnAxis(s.axis, s.test, 0) /\ s.axis # "attribute" =>
                  /\ m \in NodesOn(s.axis, 0)
                  /\ m = 0 => s.test = "node()"
                  /\ m # 0 => MatchNodeTest(Candidate(m), s.test)
    BY DEF OnAxis
  <1>12. ASSUME s.axis = "attribute" PROVE Claim
    <2>1. OnAxis(s.axis, s.test, 0) = {}
      BY <1>12 DEF OnAxis
    <2>2. QED
      BY <1>7, <1>10, <1>12, <2>1
  <1>13. ASSUME s.axis = "child" PROVE Claim
    <2>1. NodesOn(s.axis, 0) = {Root}
      BY <1>2, <1>13, BelowRoot DEF NodesOn
    <2>2. OnAxis(s.axis, s.test, 0) = IF match THEN {Root} ELSE {}
      BY <1>2, <1>13, <2>1 DEF OnAxis, match
    <2>3. match => From(0, s) = {Root}
      <3>1. match => s.predicates = <<>>
        BY <1>8, <1>13
      <3>2. match => From(0, s) = OnAxis(s.axis, s.test, 0)
        BY <3>1, NoPredicates DEF From
      <3>3. QED
        BY <2>2, <3>2
    <2>4. QED
      BY <1>2, <1>7, <1>10, <1>13, <2>2, <2>3
  <1>14. ASSUME s.axis = "self" PROVE Claim
    <2>1. NodesOn(s.axis, 0) = {0}
      BY <1>14 DEF NodesOn
    <2>2. From(0, s) \subseteq {0}
      BY <1>7, <1>11, <1>14, <2>1
    <2>3. Len(p.steps) > 2 => ~match
      BY <1>8, <1>14, DownSteps
    <2>4. Len(p.steps) > 2 => 0 \notin From(0, s)
      BY <1>7, <1>9, <1>11, <1>14, <2>3
    <2>5. RootAdded(p, 2) = {}
      BY <1>10, <1>14
    <2>6. QED
      BY <2>2, <2>4, <2>5
  <1>15. PredicatesLook(s.predicates, Downward, FALSE) \/ s.axis = "child"
    BY <1>1 DEF DownwardStep
  <1>16. ASSUME s.axis = "descendant-or-self" PROVE Claim
    <2>1. ASSUME NEW m \in From(0, s), m # 0 PROVE m \in U
      <3>1. m \in DOMAIN doc /\ MatchNodeTest(Candidate(m), s.test)
        BY <1>2, <1>7, <1>11, <1>16, <2>1 DEF NodesOn
      <3>2. m \in OnAxis(s.axis, s.test, m)
        BY <1>16, <2>1, <3>1 DEF OnAxis, NodesOn
      <3>3. m \in SurviveAll(OnAxis(s.axis, s.test, m), s.axis, s.predicates)
        <4>1. m \in SurviveAll(OnAxis(s.axis, s.test, 0), s.axis, s.predicates)
          BY DEF From
        <4>2. PredicatesLook(s.predicates, Downward, FALSE)
          BY <1>15, <1>16
        <4> DEFINE preds == s.predicates
                   S == OnAxis(s.axis, s.test, 0)
                   T == OnAxis(s.axis, s.test, m)
        <4> HIDE DEF preds, S, T
        <4>3. m \in SurviveAll(S, s.axis, preds) /\ m \in T /\ preds \in Seq(Predicates)
              /\ PredicatesLook(preds, Downward, FALSE)
          BY <1>7, <3>2, <4>1, <4>2 DEF preds, S, T
        <4>4. m \in SurviveAll(T, s.axis, preds)
          BY <4>3, SurvivesAnywhere
        <4>5. QED
          BY <4>4 DEF preds, T
      <3>4. QED
        BY <3>1, <3>3 DEF From
    <2>2. Len(p.steps) > 2 => ~match
      BY <1>8, <1>16, DownSteps
    <2>3. Len(p.steps) > 2 => 0 \notin From(0, s)
      BY <1>7, <1>9, <1>11, <1>16, <2>2
    <2>4. RootAdded(p, 2) = {}
      BY <1>10, <1>16
    <2> HIDE DEF U
    <2>5. QED
      BY <2>1, <2>3, <2>4
  <1>17. ASSUME s.axis = "descendant" PROVE Claim
    <2>1. ASSUME NEW m \in From(0, s) PROVE m \in U /\ m # 0
      <3>1. m \in DOMAIN doc
        BY <1>2, <1>7, <1>11, <1>17, <2>1 DEF NodesOn
      <3>2. m # 0 /\ MatchNodeTest(Candidate(m), s.test)
        BY <1>2, <1>7, <1>11, <1>17, <2>1, <3>1
      <3>3. ~match
        BY <1>8, <1>17
      <3>4. m # Root
        BY <3>2, <3>3 DEF match
      <3>5. m \in OnAxis(s.axis, s.test, Root)
        BY <1>2, <1>17, <3>1, <3>2, <3>4 DEF OnAxis, NodesOn
      <3>6. m \in SurviveAll(OnAxis(s.axis, s.test, Root), s.axis, s.predicates)
        <4>1. m \in SurviveAll(OnAxis(s.axis, s.test, 0), s.axis, s.predicates)
          BY DEF From
        <4>2. PredicatesLook(s.predicates, Downward, FALSE)
          BY <1>15, <1>17
        <4> DEFINE preds == s.predicates
                   S == OnAxis(s.axis, s.test, 0)
                   T == OnAxis(s.axis, s.test, Root)
        <4> HIDE DEF preds, S, T
        <4>3. m \in SurviveAll(S, s.axis, preds) /\ m \in T /\ preds \in Seq(Predicates)
              /\ PredicatesLook(preds, Downward, FALSE)
          BY <1>7, <3>5, <4>1, <4>2 DEF preds, S, T
        <4>4. m \in SurviveAll(T, s.axis, preds)
          BY <4>3, SurvivesAnywhere
        <4>5. QED
          BY <4>4 DEF preds, T
      <3>7. QED
        BY <1>2, <3>2, <3>6 DEF From
    <2>2. RootAdded(p, 2) = {}
      BY <1>10, <1>17
    <2> HIDE DEF U
    <2>3. QED
      BY <2>1, <2>2
  <1>18. Claim
    <2> HIDE DEF Claim
    <2>1. QED
      BY <1>1, <1>12, <1>13, <1>14, <1>16, <1>17 DEF Downward
  <1> HIDE DEF U
  <1>19. UNION {From(n, s) : n \in Starting(p, 2)} = U
    BY <1>4 DEF U
  <1>20. 0 \notin U /\ 0 \notin RootAdded(p, 2)
    BY <1>2, <1>6, <1>10
  <1>21. U \cup RootAdded(p, 2) = Reached(p)[2] \ {0}
    BY <1>5, <1>18, <1>20
  <1>22. Len(p.steps) > 2 => 0 \notin Reached(p)[2]
    BY <1>5, <1>18, <1>20
  <1>23. (UNION {From(n, s) : n \in Starting(p, 2)}) \cup RootAdded(p, 2) = Reached(p)[2] \ {0}
    BY <1>19, <1>21, Zenon
  <1>24. QED
    BY <1>22, <1>23 DEF s

(* Each step of a downward path reaches what XPath says, the root element  *)
(* included where the evaluator adds it.                                   *)
LEMMA StepReaches ==
  ASSUME doc \in Documents, NEW p, GoesDown(p), NEW k \in 1..Len(p.steps),
         ~(k = 1 /\ p.absolute /\ p.steps[1].axis = "child")
  PROVE  (UNION {From(n, p.steps[k]) : n \in Starting(p, k)}) \cup RootAdded(p, k) = Reached(p)[k] \ {0}
  <1>1. Len(p.steps) \in Nat
    BY DownSteps
  <1>2. CASE ~p.absolute
    <2>1. Reached(p)[0] = {Root}
      BY <1>2, ReachedSteps DEF GoesDown, ReachesIn
    <2>2. 0 \in 0..Len(p.steps) /\ k - 1 \in 0..Len(p.steps) /\ 0 \notin Reached(p)[0]
      BY <1>1, <2>1 DEF Root
    <2>3. 0 \notin Reached(p)[k - 1]
      BY <2>2, StaysBelow
    <2>4. RootAdded(p, k) = {}
      BY <1>2 DEF RootAdded
    <2>5. QED
      BY <1>2, <2>3, <2>4, StepReachesBelow
  <1>3. CASE p.absolute /\ p.steps[1].axis = "child"
    <2>1. 0 \notin Reached(p)[1] /\ 1 \in 0..Len(p.steps) /\ k - 1 \in 1..Len(p.steps) /\ k # 1
      BY <1>1, <1>3, RootIsReached
    <2>2. 0 \notin Reached(p)[k - 1]
      BY <2>1, StaysBelow
    <2>3. RootAdded(p, k) = {}
      BY <1>3 DEF RootAdded
    <2>4. QED
      BY <2>1, <2>2, <2>3, StepReachesBelow
  <1>4. CASE p.absolute /\ p.steps[1] = Anywhere
    <2>1. CASE k = 1
      <3>1. Starting(p, k) = {Root} /\ RootAdded(p, k) = {}
        BY <2>1 DEF Starting, RootAdded
      <3>2. Reached(p)[k] \ {0} = DOMAIN doc /\ From(Root, p.steps[k]) = DOMAIN doc
        BY <1>4, <2>1, AnywhereIsReached, NodesAreDocument
      <3>3. QED
        BY <3>1, <3>2
    <2>2. CASE k = 2
      BY <1>1, <1>4, <2>2, SecondReaches
    <2>3. CASE k # 1 /\ k # 2
      <3>1. k - 1 \in 2..Len(p.steps) /\ Len(p.steps) > 2 /\ 2 \in 0..Len(p.steps)
        BY <1>1, <2>3
      <3>2. 0 \notin Reached(p)[2]
        BY <1>4, <3>1, SecondReaches
      <3>3. 0 \notin Reached(p)[k - 1]
        BY <3>1, <3>2, StaysBelow
      <3>4. RootAdded(p, k) = {}
        BY <2>3 DEF RootAdded
      <3>5. QED
        BY <2>3, <3>3, <3>4, StepReachesBelow
    <2>4. QED
      BY <2>1, <2>2, <2>3
  <1>5. p.absolute => p.steps[1].axis = "child" \/ p.steps[1] = Anywhere
    BY DEF GoesDown, DownwardPath, RootIsNoExtra, Anywhere
  <1>6. QED
    BY <1>2, <1>3, <1>4, <1>5

-----------------------------------------------------------------------------
(* The state is well-typed.                                                *)

(* The path that is evaluated.                                             *)
LEMMA PathShape ==
  ASSUME StepsTaken, operand \in DOMAIN expression
  PROVE  /\ Len(expression) \in Nat /\ DOMAIN expression = 1..Len(expression)
         /\ Steps \in Seq(StepRecord) /\ Path.filter \in Seq(Predicates)
         /\ Len(Steps) \in Nat /\ DOMAIN Steps = 1..Len(Steps) /\ (Steps = <<>> <=> Len(Steps) = 0)
  <1>1. expression \in Seq(PathRecord)
    BY ExpressionsSelectNodes DEF StepsTaken
  <1>2. Path \in PathRecord
    BY <1>1 DEF Path
  <1>3. \A p \in PathRecord : p.steps \in Seq(StepRecord) /\ p.filter \in Seq(Predicates)
    BY DEF PathRecord
  <1>4. Steps \in Seq(StepRecord) /\ Path.filter \in Seq(Predicates)
    BY <1>2, <1>3 DEF Steps
  <1>5. QED
    BY <1>1, <1>4

(* The facts about a path that are needed of the next state.               *)
StepsCounted == Len(Steps) \in Nat

OperandInRange == operand \in DOMAIN expression

(* The same of any state.                                                  *)
LEMMA PathShapeClosed == StepsTaken /\ OperandInRange => StepsCounted
  BY PathShape DEF StepsCounted, OperandInRange

(* A node-set, as TypeOK says what one is.                                 *)
NodeSet(nodes) == nodes \in Seq(DOMAIN doc) /\ IsInjective(nodes)

(* No node, and the root element.                                          *)
LEMMA ShortNodeSets ==
  ASSUME doc \in Documents
  PROVE  NodeSet(<<>>) /\ NodeSet(<<Root>>)
  BY DocumentShape DEF NodeSet, IsInjective

(* The type invariant, one conjunct for each variable.                     *)
LEMMA TypeSplit ==
  TypeOK <=> /\ phase \in {"path", "steps", "filter", "done"}
             /\ operand \in DOMAIN expression /\ step \in 0..Len(Steps)
             /\ NodeSet(inputs) /\ NodeSet(output) /\ NodeSet(selected)
  BY DEF TypeOK, NodeSet

(* What is found from a node, added, is a node-set.                        *)
LEMMA CandidatesAdded ==
  ASSUME NEW nodes, NodeSet(nodes), NEW candidates \in Seq(CandidateSet)
  PROVE  /\ NodeSet(AddAll(nodes, candidates))
         /\ \A i \in DOMAIN candidates : candidates[i].node \in DOMAIN doc
  <1>1. \A c \in CandidateSet : c.node \in DOMAIN doc
    BY DEF CandidateSet
  <1>2. \A i \in DOMAIN candidates : candidates[i].node \in DOMAIN doc
    <2>1. \A i \in DOMAIN candidates : candidates[i] \in CandidateSet
      OBVIOUS
    <2>2. QED
      BY <1>1, <2>1
  <1>3. nodes \in Seq(DOMAIN doc) /\ IsInjective(nodes)
    BY DEF NodeSet
  <1>4. QED
    BY <1>2, <1>3, AddAllType DEF NodeSet

(* The node-set of a path, as candidates for its filter.                   *)
LEMMA OutputCandidates ==
  ASSUME NodeSet(output)
  PROVE  [i \in DOMAIN output |-> Candidate(output[i])] \in Seq(CandidateSet)
  <1>1. output \in Seq(DOMAIN doc)
    BY DEF NodeSet
  <1>2. DOMAIN output = 1..Len(output) /\ Len(output) \in Nat
    BY <1>1
  <1>3. \A i \in DOMAIN output : Candidate(output[i]) \in CandidateSet
    BY <1>1 DEF Candidate, CandidateSet
  <1>4. QED
    BY <1>2, <1>3

(* The root element, where it is added, is not there yet.                  *)
LEMMA WithRootType ==
  ASSUME doc \in Documents, NodeSet(output)
  PROVE  NodeSet(WithRootAfterDescendants)
  <1>1. CASE WithRootAfterDescendants = output
    BY <1>1
  <1>2. CASE WithRootAfterDescendants = <<Root>> \o output /\ ~Contains(output, Root)
    <2> DEFINE after == <<Root>> \o output
    <2>1. output \in Seq(DOMAIN doc) /\ Root \in DOMAIN doc
      BY DocumentShape DEF NodeSet
    <2>2. after \in Seq(DOMAIN doc) /\ Len(after) = Len(output) + 1
      BY <2>1
    <2>3. /\ \A i \in DOMAIN after : i \in Nat
          /\ after[1] = Root /\ \A i \in DOMAIN after : i # 1 => i - 1 \in DOMAIN output /\ after[i] = output[i - 1]
      BY <2>1
    <2>4. \A i \in DOMAIN output : output[i] # Root
      BY <1>2, <2>1 DEF Contains
    <2>5. \A i, j \in DOMAIN output : output[i] = output[j] => i = j
      BY DEF NodeSet, IsInjective
    <2> HIDE DEF after
    <2>6. \A i, j \in DOMAIN after : after[i] = after[j] => i = j
      <3> SUFFICES ASSUME NEW i \in DOMAIN after, NEW j \in DOMAIN after, after[i] = after[j]
                   PROVE  i = j
        OBVIOUS
      <3>1. CASE i # 1 /\ j # 1
        <4>1. i - 1 = j - 1
          BY <2>3, <2>5, <3>1
        <4>2. QED
          BY <2>3, <4>1
      <3>2. CASE i = 1 \/ j = 1
        BY <2>3, <2>4, <3>2
      <3>3. QED
        BY <3>1, <3>2
    <2>7. NodeSet(after)
      BY <2>2, <2>6 DEF NodeSet, IsInjective
    <2>8. QED
      BY <1>2, <2>7 DEF after
  <1>3. QED
    BY <1>1, <1>2 DEF WithRootAfterDescendants

(* The types hold at the start.                                            *)
LEMMA InitType == Init => TypeInv
  <1> SUFFICES ASSUME Init PROVE TypeInv
    OBVIOUS
  <1>1. StepsTaken
    BY DEF Init, StepsTaken
  <1>2. operand \in DOMAIN expression
    <2>1. expression \in Seq(PathRecord) /\ expression # <<>>
      BY ExpressionsSelectNodes DEF Init
    <2>2. QED
      BY <2>1 DEF Init
  <1>3. Len(Steps) \in Nat
    BY <1>1, <1>2, PathShape
  <1>4. NodeSet(inputs) /\ NodeSet(output) /\ NodeSet(selected)
    BY ShortNodeSets DEF Init
  <1>5. QED
    BY <1>1, <1>2, <1>3, <1>4, TypeSplit DEF TypeInv, Init

(* The same path, in the same document.                                    *)
LEMMA SamePath ==
  ASSUME UNCHANGED <<doc, expression, operand>>
  PROVE  /\ Path' = Path /\ Steps' = Steps
         /\ \A nodes : NodeSet(nodes)' <=> NodeSet(nodes)
  BY DEF Path, Steps, NodeSet

(* Every action keeps the types.                                           *)
TypesAfter ==
  /\ phase \in {"path", "steps", "filter", "done"}
  /\ operand \in DOMAIN expression /\ step \in 0..Len(Steps)
  /\ NodeSet(inputs) /\ NodeSet(output) /\ NodeSet(selected)
  /\ StepsTaken

(* They are those of the invariant.                                        *)
LEMMA TypesSuffice == TypesAfter <=> TypeInv
  BY TypeSplit DEF TypesAfter, TypeInv

(* A path begins with no node or the root element.                         *)
LEMMA BeginPathType ==
  ASSUME TypesAfter, BeginPath
  PROVE  TypesAfter'
  <1>1. StepsTaken /\ UNCHANGED <<doc, expression, operand, selected>>
    BY DEF TypesAfter, BeginPath
  <1>2. NodeSet(<<>>) /\ NodeSet(<<Root>>)
    BY <1>1, ShortNodeSets DEF StepsTaken
  <1>3. Len(Steps) \in Nat /\ (Steps = <<>> <=> Len(Steps) = 0)
    BY <1>1, PathShape DEF TypesAfter
  <1>4. /\ phase' \in {"filter", "steps"} /\ step' \in 0..Len(Steps)
        /\ phase' = "steps" => step' = 1
        /\ inputs' \in {inputs, <<>>, <<Root>>} /\ output' \in {<<>>, <<Root>>}
    BY <1>3 DEF BeginPath, TypesAfter
  <1>5. NodeSet(inputs') /\ NodeSet(output') /\ NodeSet(selected)
    BY <1>2, <1>4 DEF TypesAfter
  <1>6. NodeSet(inputs)' /\ NodeSet(output)' /\ NodeSet(selected)'
    BY <1>1, <1>5 DEF NodeSet
  <1>7. step' \in 0..Len(Steps')
    BY <1>1, <1>4, SamePath
  <1>8. StepsTaken'
    BY <1>1, <1>4 DEF StepsTaken
  <1>9. QED
    BY <1>1, <1>4, <1>6, <1>7, <1>8 DEF TypesAfter

(* A step adds what it finds from a node.                                  *)
LEMMA SelectFromNodeType ==
  ASSUME TypesAfter, SelectFromNode
  PROVE  TypesAfter'
  <1>1. /\ StepsTaken /\ phase = "steps" /\ inputs # <<>>
        /\ UNCHANGED <<doc, expression, phase, operand, step, selected>>
        /\ output' = AddAll(output, Selected(Steps[step], Head(inputs))) /\ inputs' = Tail(inputs)
    BY DEF TypesAfter, SelectFromNode
  <1>2. Steps[step] \in StepRecord
    <2>1. step \in 0..Len(Steps) /\ step # 0
      BY <1>1 DEF TypesAfter, StepsTaken
    <2>2. QED
      BY <1>1, <2>1, PathShape DEF TypesAfter
  <1>3. inputs \in Seq(DOMAIN doc) /\ IsInjective(inputs)
    BY DEF TypesAfter, NodeSet
  <1>4. Head(inputs) \in DOMAIN doc /\ Tail(inputs) \in Seq(DOMAIN doc)
    BY <1>1, <1>3
  <1>5. IsInjective(Tail(inputs))
    BY <1>1, <1>3 DEF IsInjective
  <1>6. Selected(Steps[step], Head(inputs)) \in Seq(CandidateSet)
    BY <1>1, <1>2, <1>4, SelectedKeeps DEF StepsTaken
  <1>7. NodeSet(output')
    BY <1>1, <1>6, CandidatesAdded DEF TypesAfter
  <1>8. NodeSet(inputs)' /\ NodeSet(output)' /\ NodeSet(selected)'
    BY <1>1, <1>4, <1>5, <1>7 DEF NodeSet, TypesAfter
  <1>9. step' \in 0..Len(Steps')
    BY <1>1, SamePath DEF TypesAfter
  <1>10. StepsTaken'
    BY <1>1 DEF StepsTaken
  <1>11. QED
    BY <1>1, <1>8, <1>9, <1>10 DEF TypesAfter

(* The next step starts from what this one found.                          *)
LEMMA EndStepType ==
  ASSUME TypesAfter, EndStep
  PROVE  TypesAfter'
  <1>1. /\ StepsTaken /\ phase = "steps" /\ UNCHANGED <<doc, expression, operand, selected>>
        /\ step \in 0..Len(Steps) /\ step # 0
    BY DEF TypesAfter, EndStep, StepsTaken
  <1>2. Len(Steps) \in Nat
    BY <1>1, PathShape DEF TypesAfter
  <1>3. NodeSet(WithRootAfterDescendants) /\ NodeSet(<<>>)
    BY <1>1, WithRootType, ShortNodeSets DEF TypesAfter, StepsTaken
  <1>4. /\ phase' \in {"filter", "steps"} /\ step' \in 0..Len(Steps) /\ step' # 0
        /\ inputs' \in {inputs, WithRootAfterDescendants}
        /\ output' \in {<<>>, WithRootAfterDescendants}
    <2>1. CASE step = Len(Steps)
      BY <1>1, <2>1 DEF EndStep
    <2>2. CASE step # Len(Steps)
      BY <1>1, <1>2, <2>2 DEF EndStep
    <2>3. QED
      BY <2>1, <2>2
  <1>5. NodeSet(inputs') /\ NodeSet(output') /\ NodeSet(selected)
    BY <1>3, <1>4 DEF TypesAfter
  <1>6. NodeSet(inputs)' /\ NodeSet(output)' /\ NodeSet(selected)'
    BY <1>1, <1>5 DEF NodeSet
  <1>7. step' \in 0..Len(Steps')
    BY <1>1, <1>4, SamePath
  <1>8. StepsTaken'
    BY <1>1, <1>4 DEF StepsTaken
  <1>9. operand' \in DOMAIN expression'
    BY <1>1 DEF TypesAfter
  <1>10. QED
    BY <1>4, <1>6, <1>7, <1>8, <1>9 DEF TypesAfter

(* The filter keeps nodes, which join those of the paths before.           *)
LEMMA EndPathType ==
  ASSUME TypesAfter, EndPath
  PROVE  TypesAfter'
  <1> DEFINE candidates == [i \in DOMAIN output |-> Candidate(output[i])]
  <1>1. /\ StepsTaken /\ UNCHANGED <<doc, expression, inputs>>
        /\ selected' = AddAll(selected, Filtered(candidates, Path.filter, <<>>))
        /\ step' = 0 /\ output' = <<>>
        /\ IF operand = Len(expression) THEN phase' = "done" /\ UNCHANGED operand
           ELSE phase' = "path" /\ operand' = operand + 1
    BY DEF TypesAfter, EndPath
  <1>2. Path.filter \in Seq(Predicates) /\ DOMAIN expression = 1..Len(expression) /\ Len(expression) \in Nat
    BY <1>1, PathShape DEF TypesAfter
  <1>3. candidates \in Seq(CandidateSet)
    BY OutputCandidates DEF TypesAfter
  <1> HIDE DEF candidates
  <1>4. Filtered(candidates, Path.filter, <<>>) \in Seq(CandidateSet)
    BY <1>2, <1>3, FilteredKeeps
  <1>5. NodeSet(selected')
    BY <1>1, <1>4, CandidatesAdded DEF TypesAfter
  <1>6. NodeSet(<<>>)
    BY <1>1, ShortNodeSets DEF StepsTaken
  <1>7. NodeSet(inputs)' /\ NodeSet(output)' /\ NodeSet(selected)'
    BY <1>1, <1>5, <1>6 DEF NodeSet, TypesAfter
  <1>8. operand' \in DOMAIN expression' /\ phase' \in {"done", "path"}
    <2>1. operand \in 1..Len(expression)
      BY <1>2 DEF TypesAfter
    <2>2. CASE operand = Len(expression)
      BY <1>1, <1>2, <2>1, <2>2
    <2>3. CASE operand # Len(expression)
      <3> DEFINE last == Len(expression)
      <3>0. last \in Nat /\ operand \in 1..last /\ operand # last
        BY <1>2, <2>1, <2>3
      <3> HIDE DEF last
      <3>11. operand + 1 \in 1..last
        BY <3>0
      <3>1. operand + 1 \in 1..Len(expression)
        BY <3>11 DEF last
      <3>2. QED
        BY <1>1, <1>2, <2>3, <3>1
    <2>4. QED
      BY <2>2, <2>3
  <1>9. StepsTaken'
    BY <1>1, <1>8 DEF StepsTaken
  <1>10. step' \in 0..Len(Steps')
    <2>1. OperandInRange'
      BY <1>8 DEF OperandInRange
    <2>2. StepsCounted'
      BY <1>9, <2>1, PathShapeClosed, PTL
    <2>3. QED
      BY <1>1, <2>2 DEF StepsCounted
  <1>11. QED
    BY <1>7, <1>8, <1>9, <1>10 DEF TypesAfter

(* The types are an invariant.                                             *)
LEMMA NextType == TypeInv /\ [Next]_vars => TypeInv'
  <1>1. TypesAfter /\ [Next]_vars => TypesAfter'
    <2> SUFFICES ASSUME TypesAfter, [Next]_vars PROVE TypesAfter'
      OBVIOUS
    <2>1. CASE UNCHANGED vars
      <3>1. UNCHANGED <<doc, expression, phase, operand, step, inputs, output, selected>>
        BY <2>1 DEF vars
      <3>2. QED
        BY <3>1, SamePath DEF TypesAfter, StepsTaken, NodeSet
    <2>2. QED
      BY <2>1, BeginPathType, SelectFromNodeType, EndStepType, EndPathType DEF Next
  <1>2. QED
    BY <1>1, TypesSuffice, PTL

-----------------------------------------------------------------------------
(* The order of what is selected.                                          *)

ChildPath == OnlyChildren(Path)
OneChildPath == Len(expression) = 1 /\ OnlyChildren(Path)

(* Rows that are short, and what is left of a row.                         *)
LEMMA ShortRows ==
  /\ InRow(<<>>) /\ InRow(<<Root>>)
  /\ \A s : s = <<>> => InRow(s) /\ DOMAIN s = {}
  BY DEF InRow

(* Each step of the path is one of children.                               *)
LEMMA ChildSteps ==
  ASSUME TypesAfter, ChildPath
  PROVE  \A i \in 1..Len(Steps) : Steps[i] \in StepRecord /\ Steps[i].axis = "child"
  <1>1. Steps \in Seq(StepRecord)
    BY PathShape DEF TypesAfter
  <1>2. QED
    BY <1>1 DEF ChildPath, OnlyChildren, Steps

(* The rows of the path that is evaluated.                                 *)
RowsNow ==
  /\ InRow(output)
  /\ phase = "steps" =>
       /\ InRow(inputs)
       /\ \A i \in DOMAIN output, j \in DOMAIN inputs : Before(output[i], inputs[j])

(* What the only path has selected, nothing before its end.                *)
SelectedRow ==
  /\ InRow(selected)
  /\ phase # "done" => selected = <<>>

(* The invariant, with its parts.                                          *)
RowsAfter == (ChildPath => RowsNow) /\ (OneChildPath => SelectedRow)

(* It says what ChildrenInRow does.                                        *)
LEMMA SplitRows == ChildrenInRow <=> RowsAfter
  BY DEF ChildrenInRow, RowsAfter, ChildPath, OneChildPath, RowsNow, SelectedRow

(* The same document has the same order.                                   *)
LEMMA SameOrder ==
  ASSUME UNCHANGED <<doc, expression, operand>>
  PROVE  /\ \A m, n : Before(m, n)' <=> Before(m, n)
         /\ \A nodes : InRow(nodes)' <=> InRow(nodes)
         /\ ChildPath' <=> ChildPath
         /\ OneChildPath' <=> OneChildPath
  BY SamePath DEF Before, InRow, Subtree, ChildPath, OneChildPath, OnlyChildren

(* What has been selected stays a row until the end of the path.           *)
LEMMA SelectedStays ==
  ASSUME UNCHANGED <<doc, expression, operand, selected>>, phase # "done", RowsAfter
  PROVE  OneChildPath' => SelectedRow'
  <1> SUFFICES ASSUME OneChildPath' PROVE SelectedRow'
    OBVIOUS
  <1>1. SelectedRow
    BY SameOrder DEF RowsAfter
  <1>2. InRow(selected)' /\ selected' = <<>>
    BY <1>1 DEF SelectedRow, InRow, Before, Subtree
  <1>3. QED
    BY <1>2 DEF SelectedRow

(* A path begins with one node at most.                                    *)
LEMMA BeginPathRows ==
  ASSUME TypesAfter, RowsAfter, BeginPath
  PROVE  RowsAfter'
  <1>1. /\ UNCHANGED <<doc, expression, operand, selected>> /\ phase = "path"
        /\ output' \in {<<>>, <<Root>>} /\ phase' # "done"
        /\ phase' = "steps" => inputs' \in {<<>>, <<Root>>} /\ (inputs' = <<>> \/ output' = <<>>)
    <2>1. CASE Steps = <<>>
      BY <2>1 DEF BeginPath
    <2>2. CASE Steps # <<>>
      BY <2>2 DEF BeginPath
    <2>3. QED
      BY <2>1, <2>2
  <1>2. InRow(output') /\ (phase' = "steps" => InRow(inputs'))
    BY <1>1, ShortRows
  <1>3. InRow(output)' /\ (phase' = "steps" => InRow(inputs)')
    BY <1>1, <1>2 DEF InRow, Before, Subtree
  <1>4. phase' = "steps" => \A i \in DOMAIN output', j \in DOMAIN inputs' : Before(output[i], inputs[j])'
    BY <1>1, ShortRows
  <1>5. RowsNow'
    BY <1>3, <1>4 DEF RowsNow
  <1>6. OneChildPath' => SelectedRow'
    BY <1>1, SelectedStays
  <1>7. QED
    BY <1>5, <1>6 DEF RowsAfter

(* The children of the first of the nodes come after what has been found   *)
(* and before the nodes that are left.                                     *)
LEMMA SelectFromNodeRows ==
  ASSUME TypesAfter, RowsAfter, SelectFromNode
  PROVE  RowsAfter'
  <1> DEFINE h == Head(inputs)
             found == Selected(Steps[step], h)
  <1>1. /\ UNCHANGED <<doc, expression, phase, operand, step, selected>>
        /\ phase = "steps" /\ inputs # <<>> /\ StepsTaken
        /\ output' = AddAll(output, found) /\ inputs' = Tail(inputs)
    BY DEF SelectFromNode, TypesAfter
  <1>0. OneChildPath' => SelectedRow'
    BY <1>1, SelectedStays
  <1> SUFFICES ASSUME ChildPath' PROVE RowsNow'
    BY <1>0 DEF RowsAfter
  <1>2. ChildPath /\ RowsNow
    BY <1>1, SameOrder DEF RowsAfter
  <1>3. Steps[step] \in StepRecord /\ Steps[step].axis = "child"
    <2>1. step \in 0..Len(Steps) /\ step # 0
      BY <1>1 DEF TypesAfter, StepsTaken
    <2>2. step \in 1..Len(Steps)
      BY <2>1, <1>1, PathShape DEF TypesAfter
    <2>3. QED
      BY <1>2, <2>2, ChildSteps
  <1>4. inputs \in Seq(DOMAIN doc) /\ output \in Seq(DOMAIN doc)
    BY DEF TypesAfter, NodeSet
  <1>5. /\ h \in DOMAIN doc /\ 1 \in DOMAIN inputs /\ h = inputs[1]
        /\ \A j \in DOMAIN Tail(inputs) : j \in Nat /\ j + 1 \in DOMAIN inputs /\ 1 < j + 1
                                           /\ Tail(inputs)[j] = inputs[j + 1]
    BY <1>1, <1>4
  <1> HIDE DEF h
  <1>6. doc \in Documents
    BY <1>1 DEF StepsTaken
  <1>7. /\ CandidatesInRow(found) /\ found \in Seq(CandidateSet)
        /\ \A i \in DOMAIN found : found[i].node \in Children(h)
    BY <1>3, <1>5, <1>6, ChildrenSelected, SelectedKeeps
  <1> HIDE DEF found
  <1>8. /\ InRow(output) /\ InRow(inputs)
        /\ \A i \in DOMAIN output, j \in DOMAIN inputs : Before(output[i], inputs[j])
    BY <1>1, <1>2 DEF RowsNow
  <1>9. \A i \in DOMAIN output, j \in DOMAIN found : Before(output[i], found[j].node)
    BY <1>4, <1>5, <1>6, <1>7, <1>8, ChildrenBefore
  <1>10. \A i \in DOMAIN found : found[i].node \in DOMAIN doc
    BY <1>7 DEF Children
  <1>11. /\ InRow(AddAll(output, found))
         /\ \A i \in DOMAIN AddAll(output, found) :
              \/ \E j \in DOMAIN output : AddAll(output, found)[i] = output[j]
              \/ \E j \in DOMAIN found : AddAll(output, found)[i] = found[j].node
    BY <1>4, <1>7, <1>8, <1>9, <1>10, AddAllInRow
  <1>12. ASSUME NEW i \in DOMAIN output', NEW j \in DOMAIN inputs'
         PROVE  Before(output'[i], inputs'[j])
    <2>1. j + 1 \in DOMAIN inputs /\ inputs'[j] = inputs[j + 1] /\ Before(h, inputs[j + 1])
          /\ inputs[j + 1] \in DOMAIN doc
      <3>1. j + 1 \in DOMAIN inputs /\ 1 < j + 1 /\ inputs'[j] = inputs[j + 1]
        BY <1>1, <1>5
      <3>2. Before(inputs[1], inputs[j + 1])
        BY <1>5, <1>8, <3>1 DEF InRow
      <3>3. inputs[j + 1] \in DOMAIN doc
        BY <1>4, <3>1
      <3>4. QED
        BY <1>5, <3>1, <3>2, <3>3
    <2>2. CASE \E k \in DOMAIN output : output'[i] = output[k]
      BY <1>8, <2>1, <2>2
    <2>3. CASE \E k \in DOMAIN found : output'[i] = found[k].node
      BY <1>5, <1>6, <1>7, <2>1, <2>3, ChildrenBefore
    <2>4. QED
      BY <1>1, <1>11, <2>2, <2>3
  <1>13. InRow(inputs')
    <2> SUFFICES ASSUME NEW i \in DOMAIN inputs', NEW j \in DOMAIN inputs', i < j
                 PROVE  Before(inputs'[i], inputs'[j])
      BY DEF InRow
    <2>1. /\ i \in Nat /\ i + 1 \in DOMAIN inputs /\ inputs'[i] = inputs[i + 1]
          /\ j \in Nat /\ j + 1 \in DOMAIN inputs /\ inputs'[j] = inputs[j + 1]
      BY <1>1, <1>5
    <2>2. i + 1 < j + 1
      BY <2>1
    <2>3. QED
      BY <1>8, <2>1, <2>2 DEF InRow
  <1>14. InRow(output')
    BY <1>1, <1>11
  <1>15. InRow(output)' /\ InRow(inputs)'
    BY <1>1, <1>13, <1>14 DEF InRow, Before, Subtree
  <1>16. \A i \in DOMAIN output', j \in DOMAIN inputs' : Before(output[i], inputs[j])'
    BY <1>1, <1>12 DEF Before, Subtree
  <1>17. QED
    BY <1>15, <1>16 DEF RowsNow

(* No step of a path of children adds the root element.                    *)
LEMMA EndStepRows ==
  ASSUME TypesAfter, RowsAfter, EndStep
  PROVE  RowsAfter'
  <1>1. /\ UNCHANGED <<doc, expression, operand, selected>>
        /\ phase = "steps" /\ inputs = <<>> /\ StepsTaken /\ step \in 0..Len(Steps) /\ step # 0
    BY DEF EndStep, TypesAfter, StepsTaken
  <1>0. OneChildPath' => SelectedRow'
    BY <1>1, SelectedStays
  <1> SUFFICES ASSUME ChildPath' PROVE RowsNow'
    BY <1>0 DEF RowsAfter
  <1>2. ChildPath /\ RowsNow
    BY <1>1, SameOrder DEF RowsAfter
  <1>3. WithRootAfterDescendants = output
    <2>1. 1 \in 1..Len(Steps)
      BY <1>1, PathShape DEF TypesAfter
    <2>2. Steps[1].axis = "child"
      BY <1>2, <2>1, ChildSteps
    <2>3. QED
      BY <2>2 DEF WithRootAfterDescendants
  <1>4. \/ phase' = "filter" /\ output' = output
        \/ phase' = "steps" /\ inputs' = output /\ output' = <<>>
    BY <1>1, <1>3 DEF EndStep
  <1>5. InRow(output') /\ (phase' = "steps" => InRow(inputs'))
    BY <1>1, <1>2, <1>4, ShortRows DEF RowsNow
  <1>6. InRow(output)' /\ (phase' = "steps" => InRow(inputs)')
    BY <1>1, <1>5 DEF InRow, Before, Subtree
  <1>7. phase' = "steps" => \A i \in DOMAIN output', j \in DOMAIN inputs' : Before(output[i], inputs[j])'
    BY <1>4, ShortRows
  <1>8. QED
    BY <1>6, <1>7 DEF RowsNow

(* What the filter leaves is all that is selected.                         *)
LEMMA EndPathRows ==
  ASSUME TypesAfter, RowsAfter, EndPath
  PROVE  RowsAfter'
  <1> DEFINE candidates == [i \in DOMAIN output |-> Candidate(output[i])]
             left == Filtered(candidates, Path.filter, <<>>)
  <1>1. /\ UNCHANGED <<doc, expression>> /\ phase = "filter" /\ StepsTaken
        /\ selected' = AddAll(selected, left) /\ output' = <<>>
        /\ phase' # "steps"
        /\ operand = Len(expression) => phase' = "done" /\ UNCHANGED operand
    BY DEF EndPath, TypesAfter
  <1>0. RowsNow'
    BY <1>1, ShortRows DEF RowsNow, InRow
  <1> SUFFICES ASSUME OneChildPath' PROVE SelectedRow'
    BY <1>0 DEF RowsAfter
  <1>2. operand = Len(expression)
    <2>1. Len(expression) = 1 /\ operand \in DOMAIN expression
      BY <1>1 DEF OneChildPath, TypesAfter
    <2>2. QED
      BY <1>1, <2>1, PathShape
  <1>3. phase' = "done" /\ UNCHANGED operand
    BY <1>1, <1>2
  <1>4. RowsNow /\ SelectedRow
    BY <1>1, <1>3, SameOrder DEF RowsAfter, ChildPath, OneChildPath
  <1>5. InRow(output) /\ selected = <<>>
    BY <1>1, <1>4 DEF RowsNow, SelectedRow
  <1>6. CandidatesInRow(candidates)
    BY <1>5 DEF CandidatesInRow, InRow, Candidate
  <1>7. candidates \in Seq(CandidateSet) /\ Path.filter \in Seq(Predicates)
    BY <1>1, OutputCandidates, PathShape DEF TypesAfter
  <1> HIDE DEF candidates
  <1>8. left \in Seq(CandidateSet) /\ Keeps(left, candidates)
    BY <1>7, FilteredKeeps
  <1> HIDE DEF left
  <1>9. CandidatesInRow(left)
    BY <1>6, <1>8, KeepsRow
  <1>10. \A i \in DOMAIN left : left[i].node \in DOMAIN doc
    <2>1. NodeSet(selected)
      BY DEF TypesAfter
    <2>2. QED
      BY <1>8, <2>1, CandidatesAdded
  <1>11. selected \in Seq(DOMAIN doc) /\ InRow(selected) /\ DOMAIN selected = {}
    BY <1>5, ShortRows
  <1>12. InRow(AddAll(selected, left))
    BY <1>8, <1>9, <1>10, <1>11, AddAllInRow
  <1>13. InRow(selected')
    BY <1>1, <1>12
  <1>14. InRow(selected)'
    BY <1>1, <1>13 DEF InRow, Before, Subtree
  <1>15. QED
    BY <1>3, <1>14 DEF SelectedRow

(* Nothing has been found at the start.                                    *)
LEMMA InitRows == Init => RowsAfter
  BY ShortRows DEF Init, RowsAfter, RowsNow, SelectedRow

(* Every step keeps the rows.                                              *)
LEMMA NextRows == TypesAfter /\ RowsAfter /\ [Next]_vars => RowsAfter'
  <1> SUFFICES ASSUME TypesAfter, RowsAfter, [Next]_vars PROVE RowsAfter'
    OBVIOUS
  <1>1. CASE UNCHANGED vars
    <2>1. UNCHANGED <<doc, expression, phase, operand, step, inputs, output, selected>>
      BY <1>1 DEF vars
    <2>2. (ChildPath' <=> ChildPath) /\ (OneChildPath' <=> OneChildPath)
      BY <2>1, SameOrder
    <2>3. (RowsNow' <=> RowsNow) /\ (SelectedRow' <=> SelectedRow)
      BY <2>1 DEF RowsNow, SelectedRow, InRow, Before, Subtree
    <2>4. QED
      BY <2>2, <2>3 DEF RowsAfter
  <1>2. QED
    BY <1>1, BeginPathRows, SelectFromNodeRows, EndStepRows, EndPathRows DEF Next

(* A row is in document order.                                             *)
LEMMA RowsOrder == RowsAfter => ChildPathsInDocumentOrder
  BY DEF RowsAfter, SelectedRow, OneChildPath, InRow, Before, ChildPathsInDocumentOrder

(* The rows and the types are the invariant.                               *)
LEMMA IInvSplit == IInv <=> TypesAfter /\ RowsAfter
  BY TypesSuffice, SplitRows DEF IInv

-----------------------------------------------------------------------------
(* The evaluator finds what XPath says.                                    *)

(* What a downward path has found, with what it is to find from the nodes  *)
(* that are left, is what XPath reaches with the step.                     *)
Found(at, taken, nodes, left) ==
  DownwardPath(Path) =>
    /\ at = "steps" =>
         (ToSet(nodes) \cup RootAdded(Path, taken)) \cup (UNION {From(n, Steps[taken]) : n \in ToSet(left)})
           = Reached(Path)[taken] \ {0}
    /\ at = "filter" => ToSet(nodes) = Reached(Path)[Len(Steps)] \ {0}

(* What the paths so far have selected, if they all go down.               *)
Chosen(at, path, nodes) ==
  /\ at = "done" => path = Len(expression)
  /\ (\A i \in DOMAIN expression : DownwardPath(expression[i])) =>
       ToSet(nodes) = UNION {PathSelects(expression[i]) : i \in 1..(IF at = "done" THEN path ELSE path - 1)}

FoundNow == Found(phase, step, output, inputs)
ChosenNow == Chosen(phase, operand, selected)

(* In the same document the reference says the same.                       *)
LEMMA SameFound ==
  ASSUME UNCHANGED <<doc, expression, operand>>
  PROVE  FoundNow' <=> Found(phase', step', output', inputs')
  BY DEF FoundNow, Found, Path, Steps, DownwardPath, RootIsNoExtra, RootAdded, Reached, From,
         SurviveAll, Survive, True, HasValue, OnAxis, MatchNodeTest, Candidate, NodesOn, Nodes,
         Below, Above, SameParent, Subtree

(* It says the same of the next path.                                      *)
LEMMA SameChosen ==
  ASSUME UNCHANGED <<doc, expression>>
  PROVE  ChosenNow' <=> Chosen(phase', operand', selected')
  BY DEF ChosenNow, Chosen, PathSelects, DownwardPath, RootIsNoExtra, Reached, From,
         SurviveAll, Survive, True, HasValue, OnAxis, MatchNodeTest, Candidate, NodesOn, Nodes,
         Below, Above, SameParent, Subtree

(* The path that is evaluated, if it goes down.                            *)
LEMMA PathGoesDown ==
  ASSUME TypesAfter, DownwardPath(Path)
  PROVE  /\ doc \in Documents /\ GoesDown(Path) /\ Path.steps = Steps /\ Steps # <<>>
         /\ Len(Steps) \in Nat /\ 1 \in 1..Len(Steps)
  <1>1. doc \in Documents /\ expression \in Seq(PathRecord) /\ operand \in DOMAIN expression
        /\ (Steps # <<>> \/ Path.absolute)
    BY ExpressionsSelectNodes DEF TypesAfter, StepsTaken, Path, Steps
  <1>2. Path \in PathRecord
    BY <1>1 DEF Path
  <1>3. \A p \in PathRecord : p.absolute \in BOOLEAN
    BY DEF PathRecord
  <1>4. Steps \in Seq(StepRecord) /\ Path.filter \in Seq(Predicates) /\ Len(Steps) \in Nat
        /\ (Steps = <<>> <=> Len(Steps) = 0)
    BY PathShape DEF TypesAfter
  <1>5. Steps # <<>>
    BY <1>1 DEF DownwardPath, Steps
  <1>6. 1 \in 1..Len(Steps)
    BY <1>4, <1>5
  <1>7. QED
    BY <1>1, <1>2, <1>3, <1>4, <1>5, <1>6 DEF GoesDown, Steps

(* The root element alone, with the predicates of a first step of children *)
LEMMA RootTested ==
  ASSUME doc \in Documents, NEW preds \in Seq(Predicates), PredicatesLook(preds, Downward, TRUE)
  PROVE  /\ SurviveAll({}, "child", preds) = {}
         /\ SurviveAll({Root}, "child", preds) =
              IF \A i \in DOMAIN preds : EvalPredicate(preds[i], Root, 1, 1, <<>>) THEN {Root} ELSE {}
  <1> DEFINE N == Len(preds)
             E(i) == EvalPredicate(preds[i], Root, 1, 1, <<>>)
             Left(k) == IF \A i \in 1..k : E(i) THEN {Root} ELSE {}
  <1>1. N \in Nat /\ DOMAIN preds = 1..N
    OBVIOUS
  <1>2. SurviveAll({}, "child", preds) = {}
    <2>1. PICK left : SurvivesIn(left, {}, "child", preds)
      BY SurviveAllSteps
    <2>2. N \in 0..N
      BY <1>1
    <2>3. QED
      BY <2>1, <2>2 DEF SurvivesIn
  <1>3. ASSUME NEW i \in 1..N
        PROVE  Survive({Root}, "child", preds[i]) = IF E(i) THEN {Root} ELSE {}
    <2> DEFINE candidates == <<Candidate(Root)>>
    <2>1. /\ candidates \in Seq(CandidateSet) /\ DOMAIN candidates = {1} /\ Len(candidates) = 1
          /\ candidates[1].node = Root /\ Root \in DOMAIN doc
      BY DocumentShape DEF Candidate, CandidateSet
    <2> HIDE DEF candidates
    <2>2. NodesOf(candidates) = {Root}
      BY <2>1 DEF NodesOf
    <2>3. Decidable(candidates, <<>>, Downward, TRUE)
      BY <2>1, SeesDownward DEF Decidable, InNodeOrder
    <2>4. PredicateLooks(preds[i], Downward, TRUE)
      BY <1>1 DEF PredicatesLook, PredicateLooks
    <2>5. ~Reverses("child")
      BY DEF Reverses
    <2>6. EvalPredicate(preds[i], candidates[1].node, 1, Len(candidates), <<>>)
            <=> candidates[1].node \in Survive(NodesOf(candidates), "child", preds[i])
      BY <2>1, <2>3, <2>4, <2>5, PredicateMatches
    <2>7. E(i) <=> Root \in Survive({Root}, "child", preds[i])
      BY <2>1, <2>2, <2>6
    <2>8. Survive({Root}, "child", preds[i]) \subseteq {Root}
      BY DEF Survive
    <2>9. QED
      BY <2>7, <2>8
  <1>4. \A i : Survive({}, "child", preds[i]) = {}
    BY DEF Survive
  <1>5. PICK left : SurvivesIn(left, {Root}, "child", preds)
    BY SurviveAllSteps
  <1> HIDE DEF E
  <1> DEFINE Good == {k \in 0..N : left[k] = Left(k)}
  <1>6. 0 \in Good
    <2>1. left[0] = {Root} /\ 0 \in 0..N
      BY <1>1, <1>5 DEF SurvivesIn
    <2>2. Left(0) = {Root}
      <3>1. 1..0 = {}
        OBVIOUS
      <3>2. QED
        BY <3>1
    <2> HIDE DEF Left
    <2>3. QED
      BY <2>1, <2>2
  <1>7. ASSUME NEW k \in 1..N, k - 1 \in Good PROVE k \in Good
    <2>1. left[k] = Survive(left[k - 1], "child", preds[k]) /\ left[k - 1] = Left(k - 1)
      BY <1>5, <1>7 DEF SurvivesIn
    <2>2. 1..k = 1..(k - 1) \cup {k}
      BY <1>1
    <2>3. (\A i \in 1..k : E(i)) <=> (\A i \in 1..(k - 1) : E(i)) /\ E(k)
      BY <2>2
    <2>4. k \in 0..N
      BY <1>1
    <2>5. left[k] = Left(k)
      <3>1. CASE \A i \in 1..(k - 1) : E(i)
        BY <1>3, <2>1, <2>3, <3>1
      <3>2. CASE ~\A i \in 1..(k - 1) : E(i)
        BY <1>4, <2>1, <2>3, <3>2
      <3>3. QED
        BY <3>1, <3>2
    <2>6. QED
      BY <2>4, <2>5
  <1>8. N \in Good
    <2> HIDE DEF Good
    <2>1. 0..N \subseteq Good
      BY <1>1, <1>6, <1>7, UptoInduction
    <2>2. QED
      BY <1>1, <2>1
  <1>9. SurviveAll({Root}, "child", preds) = Left(N)
    BY <1>5, <1>8 DEF SurvivesIn
  <1>10. QED
    BY <1>1, <1>2, <1>9 DEF E

(* A first step of children tests the root element as XPath does.          *)
LEMMA RootIsChildMatches ==
  ASSUME TypesAfter, DownwardPath(Path), StartsWithChild
  PROVE  (IF RootIsChild THEN {Root} ELSE {}) = Reached(Path)[1] \ {0}
  <1> DEFINE first == Path.steps[1]
             match == MatchNodeTest(Candidate(Root), first.test)
             preds == first.predicates
  <1>1. doc \in Documents /\ GoesDown(Path) /\ Steps = Path.steps /\ Path.absolute /\ first.axis = "child"
    BY PathGoesDown DEF StartsWithChild
  <1>2. /\ 1 \in 1..Len(Steps) /\ Reached(Path)[1] = From(0, first)
        /\ OnAxis("child", first.test, 0) = (IF match THEN {Root} ELSE {})
        /\ 0 \notin Reached(Path)[1]
    BY <1>1, RootIsReached
  <1>3. preds \in Seq(Predicates)
    <2>1. first \in StepRecord
      BY <1>1, <1>2, DownSteps
    <2>2. QED
      BY <2>1 DEF StepRecord
  <1>4. PredicatesLook(preds, Downward, TRUE)
    <2>1. RootIsNoExtra(Path)
      BY <1>1 DEF DownwardPath
    <2>2. first # Anywhere
      BY <1>1 DEF Anywhere
    <2>3. QED
      BY <2>1, <2>2 DEF RootIsNoExtra, Anywhere
  <1>5. /\ SurviveAll({}, "child", preds) = {}
        /\ SurviveAll({Root}, "child", preds) =
             IF \A i \in DOMAIN preds : EvalPredicate(preds[i], Root, 1, 1, <<>>) THEN {Root} ELSE {}
    <2> HIDE DEF preds
    <2>1. QED
      BY <1>1, <1>3, <1>4, RootTested
  <1>6. From(0, first) = SurviveAll(IF match THEN {Root} ELSE {}, "child", preds)
    BY <1>1, <1>2 DEF From
  <1>7. RootIsChild <=> match /\ \A i \in DOMAIN preds : EvalPredicate(preds[i], Root, 1, 1, <<>>)
    BY <1>1 DEF RootIsChild
  <1> HIDE DEF first, match, preds
  <1>8. From(0, first) = IF RootIsChild THEN {Root} ELSE {}
    BY <1>5, <1>6, <1>7
  <1>9. QED
    BY <1>2, <1>8

(* The filter of a path leaves of its nodes what XPath says.               *)
LEMMA FilterMatches ==
  ASSUME TypesAfter, RowsAfter, DownwardPath(Path), phase = "filter"
  PROVE  NodesOf(Filtered([i \in DOMAIN output |-> Candidate(output[i])], Path.filter, <<>>))
           = SurviveAll(ToSet(output), "child", Path.filter)
  <1> DEFINE candidates == [i \in DOMAIN output |-> Candidate(output[i])]
             positions == OnlyChildren(Path)
  <1>1. doc \in Documents /\ Path.filter \in Seq(Predicates)
    BY PathGoesDown DEF GoesDown
  <1>2. candidates \in Seq(CandidateSet)
    BY OutputCandidates DEF TypesAfter
  <1>3. DOMAIN candidates = DOMAIN output /\ \A i \in DOMAIN output : candidates[i].node = output[i]
    BY DEF Candidate
  <1>4. positions => InRow(output)
    BY DEF RowsAfter, ChildPath, RowsNow
  <1>5. PredicatesLook(Path.filter, Downward, positions)
    BY DEF DownwardPath
  <1>6. positions \in BOOLEAN
    BY DEF OnlyChildren
  <1> HIDE DEF candidates, positions
  <1>7. NodesOf(candidates) = ToSet(output)
    BY <1>3 DEF NodesOf, ToSet
  <1>8. positions => InNodeOrder(candidates)
    BY <1>3, <1>4 DEF InNodeOrder, InRow, Before
  <1>9. \A i \in DOMAIN candidates : Sees(candidates[i].node, <<>>, Downward)
    <2>1. \A i \in DOMAIN candidates : candidates[i].node \in DOMAIN doc
      BY <1>1, <1>2, CandidateNodes
    <2>2. QED
      BY <1>1, <2>1, SeesDownward
  <1>10. Decidable(candidates, <<>>, Downward, positions)
    BY <1>8, <1>9 DEF Decidable
  <1>11. ~Reverses("child")
    BY DEF Reverses
  <1>12. NodesOf(Filtered(candidates, Path.filter, <<>>)) = SurviveAll(NodesOf(candidates), "child", Path.filter)
    BY <1>1, <1>2, <1>5, <1>6, <1>10, <1>11, FilteredMatches
  <1>13. QED
    BY <1>7, <1>12 DEF candidates

(* Nothing has been selected at the start.                                 *)
LEMMA InitFound == Init => FoundNow /\ ChosenNow
  <1> SUFFICES ASSUME Init PROVE FoundNow /\ ChosenNow
    OBVIOUS
  <1>1. phase = "path" /\ operand = 1 /\ selected = <<>>
    BY DEF Init
  <1>2. FoundNow
    BY <1>1 DEF FoundNow, Found
  <1>3. 1..(operand - 1) = {} /\ ToSet(selected) = {}
    BY <1>1 DEF ToSet
  <1>4. ChosenNow
    BY <1>1, <1>3 DEF ChosenNow, Chosen
  <1>5. QED
    BY <1>2, <1>4

(* Before the end of a path nothing more is selected.                      *)
LEMMA ChosenStays ==
  ASSUME ChosenNow, UNCHANGED <<doc, expression, operand, selected>>, phase # "done", phase' # "done"
  PROVE  ChosenNow'
  <1>1. Chosen(phase', operand', selected')
    BY DEF ChosenNow, Chosen
  <1>2. QED
    BY <1>1, SameChosen

(* No nodes, and one node.                                                 *)
LEMMA ShortSets == ToSet(<<>>) = {} /\ ToSet(<<Root>>) = {Root}
  BY DEF ToSet

(* A path begins with what its first step reaches, or before it.           *)
LEMMA BeginPathFound ==
  ASSUME TypesAfter, FoundNow, ChosenNow, BeginPath
  PROVE  FoundNow' /\ ChosenNow'
  <1>1. /\ UNCHANGED <<doc, expression, operand, selected>> /\ phase = "path" /\ phase' # "done"
        /\ Steps # <<>> =>
             /\ phase' = "steps" /\ step' = 1
             /\ StartsWithChild => inputs' = <<>> /\ output' = IF RootIsChild THEN <<Root>> ELSE <<>>
             /\ ~StartsWithChild => inputs' = <<Root>> /\ output' = <<>>
    <2>1. CASE Steps = <<>>
      BY <2>1 DEF BeginPath
    <2>2. CASE Steps # <<>>
      BY <2>2 DEF BeginPath
    <2>3. QED
      BY <2>1, <2>2
  <1>2. ChosenNow'
    BY <1>1, ChosenStays
  <1>3. ASSUME DownwardPath(Path)
        PROVE  /\ phase' = "steps"
               /\ (ToSet(output') \cup RootAdded(Path, step'))
                     \cup (UNION {From(n, Steps[step']) : n \in ToSet(inputs')}) = Reached(Path)[step'] \ {0}
    <2>1. /\ doc \in Documents /\ GoesDown(Path) /\ Path.steps = Steps /\ Steps # <<>>
          /\ 1 \in 1..Len(Path.steps)
      BY <1>3, PathGoesDown
    <2>2. phase' = "steps" /\ step' = 1
      BY <1>1, <2>1
    <2>3. CASE StartsWithChild
      <3>1. ToSet(inputs') = {} /\ ToSet(output') = IF RootIsChild THEN {Root} ELSE {}
        BY <1>1, <2>1, <2>3, ShortSets
      <3>2. RootAdded(Path, step') = {}
        BY <2>2 DEF RootAdded
      <3>3. (IF RootIsChild THEN {Root} ELSE {}) = Reached(Path)[1] \ {0}
        BY <1>3, <2>3, RootIsChildMatches
      <3>4. QED
        BY <2>2, <3>1, <3>2, <3>3
    <2>4. CASE ~StartsWithChild
      <3>1. ToSet(inputs') = {Root} /\ ToSet(output') = {}
        BY <1>1, <2>1, <2>4, ShortSets
      <3>2. ~(Path.absolute /\ Path.steps[1].axis = "child")
        BY <2>1, <2>4 DEF StartsWithChild
      <3>3. (UNION {From(n, Path.steps[1]) : n \in Starting(Path, 1)}) \cup RootAdded(Path, 1) = Reached(Path)[1] \ {0}
        BY <2>1, <3>2, StepReaches
      <3>4. Starting(Path, 1) = {Root}
        BY DEF Starting
      <3>5. QED
        BY <2>1, <2>2, <3>1, <3>3, <3>4
    <2>5. QED
      BY <2>3, <2>4
  <1>4. Found(phase', step', output', inputs')
    BY <1>3 DEF Found
  <1>5. QED
    BY <1>1, <1>2, <1>4, SameFound

(* What is found from a node is what XPath finds from it.                  *)
LEMMA SelectFromNodeFound ==
  ASSUME TypesAfter, FoundNow, ChosenNow, SelectFromNode
  PROVE  FoundNow' /\ ChosenNow'
  <1> DEFINE h == Head(inputs)
             found == Selected(Steps[step], h)
  <1>1. /\ UNCHANGED <<doc, expression, phase, operand, step, selected>>
        /\ phase = "steps" /\ inputs # <<>> /\ StepsTaken
        /\ output' = AddAll(output, found) /\ inputs' = Tail(inputs)
    BY DEF SelectFromNode, TypesAfter
  <1>2. ChosenNow'
    BY <1>1, ChosenStays
  <1>3. ASSUME DownwardPath(Path)
        PROVE  (ToSet(output') \cup RootAdded(Path, step))
                  \cup (UNION {From(n, Steps[step]) : n \in ToSet(inputs')}) = Reached(Path)[step] \ {0}
    <2>1. doc \in Documents /\ GoesDown(Path) /\ Path.steps = Steps
      BY <1>3, PathGoesDown
    <2>2. step \in 1..Len(Steps)
      BY <1>1, <1>3, PathGoesDown DEF TypesAfter, StepsTaken
    <2>3. Steps[step] \in StepRecord /\ DownwardStep(Steps[step])
      BY <2>1, <2>2, DownSteps
    <2>4. inputs \in Seq(DOMAIN doc) /\ output \in Seq(DOMAIN doc)
      BY DEF TypesAfter, NodeSet
    <2>5. h \in DOMAIN doc /\ ToSet(inputs) = {h} \cup ToSet(Tail(inputs))
      <3>1. /\ h = inputs[1] /\ DOMAIN inputs = 1..Len(inputs) /\ Len(inputs) \in Nat /\ Len(inputs) # 0
            /\ DOMAIN Tail(inputs) = 1..(Len(inputs) - 1)
            /\ \A i \in 1..(Len(inputs) - 1) : Tail(inputs)[i] = inputs[i + 1]
        BY <1>1, <2>4
      <3>2. \A i \in DOMAIN inputs : i = 1 \/ (i - 1 \in 1..(Len(inputs) - 1) /\ (i - 1) + 1 = i)
        BY <3>1
      <3>3. \A i \in 1..(Len(inputs) - 1) : i + 1 \in DOMAIN inputs
        BY <3>1
      <3>4. 1 \in DOMAIN inputs
        BY <3>1
      <3> DEFINE rest == Tail(inputs)
      <3>5. /\ h = inputs[1] /\ DOMAIN rest = 1..(Len(inputs) - 1)
            /\ \A i \in 1..(Len(inputs) - 1) : rest[i] = inputs[i + 1]
        BY <3>1
      <3>6. h \in DOMAIN doc
        BY <2>4, <3>1, <3>4
      <3> HIDE DEF h, rest
      <3>7. ToSet(inputs) \subseteq {h} \cup ToSet(rest)
        <4> SUFFICES ASSUME NEW i \in DOMAIN inputs PROVE inputs[i] \in {h} \cup ToSet(rest)
          BY DEF ToSet
        <4>1. CASE i = 1
          BY <3>5, <4>1
        <4>2. CASE i # 1
          <5>1. i - 1 \in DOMAIN rest /\ rest[i - 1] = inputs[i]
            <6>1. i - 1 \in 1..(Len(inputs) - 1) /\ (i - 1) + 1 = i
              BY <3>2, <4>2
            <6>2. rest[i - 1] = inputs[(i - 1) + 1]
              BY <3>5, <6>1
            <6>3. QED
              BY <3>5, <6>1, <6>2
          <5>2. QED
            BY <5>1 DEF ToSet
        <4>3. QED
          BY <4>1, <4>2
      <3>8. {h} \cup ToSet(rest) \subseteq ToSet(inputs)
        <4>1. h \in ToSet(inputs)
          BY <3>4, <3>5 DEF ToSet
        <4>2. ToSet(rest) \subseteq ToSet(inputs)
          BY <3>3, <3>5 DEF ToSet
        <4>3. QED
          BY <4>1, <4>2
      <3>9. QED
        BY <3>6, <3>7, <3>8 DEF rest
    <2> HIDE DEF h
    <2>6. NodesOf(found) = From(h, Steps[step]) /\ found \in Seq(CandidateSet)
      BY <2>1, <2>3, <2>5, SelectedMatches, SelectedKeeps
    <2> HIDE DEF found
    <2>7. \A i \in DOMAIN found : found[i].node \in DOMAIN doc
      BY <2>1, <2>6, CandidateNodes
    <2>8. ToSet(output') = ToSet(output) \cup From(h, Steps[step])
      <3>1. ToSet(AddAll(output, found)) = ToSet(output) \cup NodesOf(found)
        BY <2>4, <2>6, <2>7, AddAllSet
      <3>2. QED
        BY <1>1, <2>6, <3>1
    <2>9. (ToSet(output) \cup RootAdded(Path, step))
             \cup (UNION {From(n, Steps[step]) : n \in ToSet(inputs)}) = Reached(Path)[step] \ {0}
      BY <1>1, <1>3 DEF FoundNow, Found
    <2>10. UNION {From(n, Steps[step]) : n \in ToSet(inputs)}
             = From(h, Steps[step]) \cup (UNION {From(n, Steps[step]) : n \in ToSet(inputs')})
      <3> DEFINE F(n) == From(n, Steps[step])
      <3>1. ToSet(inputs) = {h} \cup ToSet(inputs')
        BY <1>1, <2>5
      <3> HIDE DEF F
      <3>2. UNION {F(n) : n \in ToSet(inputs)} = F(h) \cup (UNION {F(n) : n \in ToSet(inputs')})
        BY <3>1
      <3>3. QED
        BY <3>2 DEF F
    <2>11. QED
      BY <2>8, <2>9, <2>10
  <1>4. Found(phase', step', output', inputs')
    BY <1>1, <1>3 DEF Found
  <1>5. QED
    BY <1>1, <1>2, <1>4, SameFound

(* The root element is added to a node-set.                                *)
LEMMA WithRootSet ==
  ASSUME doc \in Documents, NodeSet(output), GoesDown(Path), Path.steps = Steps
  PROVE  ToSet(WithRootAfterDescendants) = ToSet(output) \cup RootAdded(Path, step)
  <1>1. output \in Seq(DOMAIN doc) /\ DOMAIN output = 1..Len(output)
    BY DEF NodeSet
  <1>2. Contains(output, Root) => Root \in ToSet(output)
    BY <1>1 DEF Contains, ToSet
  <1>3. ToSet(<<Root>> \o output) = {Root} \cup ToSet(output)
    <2> DEFINE one == <<Root>>
    <2>1. one \in Seq(DOMAIN doc) /\ ToSet(one) = {Root}
      BY ShortSets, DocumentShape
    <2> HIDE DEF one
    <2>2. ToSet(one \o output) = ToSet(one) \cup ToSet(output)
      BY <1>1, <2>1, ToSetConcat
    <2>3. QED
      BY <2>1, <2>2 DEF one
  <1>4. QED
    BY <1>2, <1>3 DEF WithRootAfterDescendants, RootAdded

(* A step ends with what XPath reaches, from where the next one starts.    *)
LEMMA EndStepFound ==
  ASSUME TypesAfter, FoundNow, ChosenNow, EndStep
  PROVE  FoundNow' /\ ChosenNow'
  <1> DEFINE all == WithRootAfterDescendants
  <1>1. /\ UNCHANGED <<doc, expression, operand, selected>>
        /\ phase = "steps" /\ inputs = <<>> /\ StepsTaken /\ step \in 0..Len(Steps) /\ step # 0
        /\ step = Len(Steps) => phase' = "filter" /\ output' = all
        /\ step # Len(Steps) => phase' = "steps" /\ step' = step + 1 /\ inputs' = all /\ output' = <<>>
    BY DEF EndStep, TypesAfter, StepsTaken
  <1>2. ChosenNow'
    BY <1>1, ChosenStays
  <1>3. ASSUME DownwardPath(Path)
        PROVE  ToSet(all) = Reached(Path)[step] \ {0}
    <2>1. doc \in Documents /\ GoesDown(Path) /\ Path.steps = Steps
      BY <1>3, PathGoesDown
    <2>2. ToSet(all) = ToSet(output) \cup RootAdded(Path, step)
      BY <2>1, WithRootSet DEF TypesAfter
    <2>3. (ToSet(output) \cup RootAdded(Path, step))
             \cup (UNION {From(n, Steps[step]) : n \in ToSet(inputs)}) = Reached(Path)[step] \ {0}
      BY <1>1, <1>3 DEF FoundNow, Found
    <2>4. ToSet(inputs) = {}
      BY <1>1, ShortSets
    <2>5. QED
      BY <2>2, <2>3, <2>4
  <1> HIDE DEF all
  <1>4. ASSUME DownwardPath(Path), step # Len(Steps)
        PROVE  (ToSet(output') \cup RootAdded(Path, step'))
                  \cup (UNION {From(n, Steps[step']) : n \in ToSet(inputs')}) = Reached(Path)[step'] \ {0}
    <2>1. doc \in Documents /\ GoesDown(Path) /\ Path.steps = Steps /\ Len(Steps) \in Nat
      BY <1>4, PathGoesDown
    <2>2. step' = step + 1 /\ step' \in 1..Len(Steps) /\ step' # 1 /\ step' - 1 = step
      BY <1>1, <1>4, <2>1
    <2>3. (UNION {From(n, Path.steps[step']) : n \in Starting(Path, step')}) \cup RootAdded(Path, step')
            = Reached(Path)[step'] \ {0}
      BY <2>1, <2>2, StepReaches
    <2>4. Starting(Path, step') = Reached(Path)[step] \ {0}
      BY <2>2 DEF Starting
    <2>5. ToSet(inputs') = Reached(Path)[step] \ {0} /\ ToSet(output') = {}
      BY <1>1, <1>3, <1>4, ShortSets
    <2>6. QED
      BY <2>1, <2>3, <2>4, <2>5
  <1>5. ASSUME DownwardPath(Path), step = Len(Steps)
        PROVE  ToSet(output') = Reached(Path)[Len(Steps)] \ {0}
    BY <1>1, <1>3, <1>5
  <1>6. Found(phase', step', output', inputs')
    BY <1>1, <1>4, <1>5 DEF Found
  <1>7. QED
    BY <1>1, <1>2, <1>6, SameFound

(* With its filter, a path selects what XPath says.                        *)
LEMMA EndPathFound ==
  ASSUME TypesAfter, RowsAfter, FoundNow, ChosenNow, EndPath
  PROVE  FoundNow' /\ ChosenNow'
  <1> DEFINE candidates == [i \in DOMAIN output |-> Candidate(output[i])]
             left == Filtered(candidates, Path.filter, <<>>)
             AllDown == \A i \in DOMAIN expression : DownwardPath(expression[i])
             Upto(k) == UNION {PathSelects(expression[i]) : i \in 1..k}
  <1>1. /\ UNCHANGED <<doc, expression>> /\ phase = "filter" /\ StepsTaken
        /\ selected' = AddAll(selected, left)
        /\ operand = Len(expression) => phase' = "done" /\ operand' = operand
        /\ operand # Len(expression) => phase' = "path" /\ operand' = operand + 1
    BY DEF EndPath, TypesAfter
  <1>2. phase' \notin {"steps", "filter"}
    BY <1>1
  <1>3. FoundNow'
    BY <1>2 DEF FoundNow, Found
  <1>4. operand \in 1..Len(expression) /\ Len(expression) \in Nat /\ DOMAIN expression = 1..Len(expression)
    BY <1>1, PathShape DEF TypesAfter
  <1>5. ASSUME AllDown PROVE ToSet(selected') = Upto(operand)
    <2>1. DownwardPath(Path)
      BY <1>4, <1>5 DEF Path
    <2>2. doc \in Documents /\ Path.steps = Steps /\ Path.filter \in Seq(Predicates)
      BY <2>1, PathGoesDown DEF GoesDown
    <2>3. NodesOf(left) = SurviveAll(ToSet(output), "child", Path.filter)
      BY <1>1, <2>1, FilterMatches
    <2>4. ToSet(output) = Reached(Path)[Len(Steps)] \ {0}
      BY <1>1, <2>1 DEF FoundNow, Found
    <2>5. NodesOf(left) = PathSelects(Path)
      BY <2>2, <2>3, <2>4 DEF PathSelects
    <2>6. candidates \in Seq(CandidateSet)
      BY OutputCandidates DEF TypesAfter
    <2> HIDE DEF candidates
    <2>7. left \in Seq(CandidateSet)
      BY <2>2, <2>6, FilteredKeeps
    <2> HIDE DEF left
    <2>8. \A i \in DOMAIN left : left[i].node \in DOMAIN doc
      BY <2>2, <2>7, CandidateNodes
    <2>9. ToSet(AddAll(selected, left)) = ToSet(selected) \cup NodesOf(left)
      <3>1. selected \in Seq(DOMAIN doc)
        BY DEF TypesAfter, NodeSet
      <3>2. QED
        BY <2>7, <2>8, <3>1, AddAllSet
    <2>10. ToSet(selected) = Upto(operand - 1)
      BY <1>1, <1>5 DEF ChosenNow, Chosen
    <2>11. Upto(operand) = Upto(operand - 1) \cup PathSelects(Path)
      <3>1. 1..operand = 1..(operand - 1) \cup {operand}
        BY <1>4
      <3>2. QED
        BY <3>1, Zenon DEF Path
    <2> HIDE DEF Upto
    <2>12. QED
      BY <1>1, <2>5, <2>9, <2>10, <2>11
  <1>6. Chosen(phase', operand', selected')
    <2> HIDE DEF left
    <2>1. CASE operand = Len(expression)
      BY <1>1, <1>5, <2>1 DEF Chosen
    <2>2. CASE operand # Len(expression)
      <3>1. operand' - 1 = operand /\ phase' = "path"
        <4>1. operand \in Nat
          BY <1>4
        <4>2. operand' = operand + 1 /\ phase' = "path"
          BY <1>1, <2>2
        <4>3. QED
          BY <4>1, <4>2
      <3>2. QED
        BY <1>5, <3>1 DEF Chosen
    <2>3. QED
      BY <2>1, <2>2
  <1>7. QED
    BY <1>1, <1>3, <1>6, SameChosen

(* Every step of the evaluator keeps what has been found right.            *)
LEMMA NextFound ==
  TypesAfter /\ RowsAfter /\ FoundNow /\ ChosenNow /\ [Next]_vars => FoundNow' /\ ChosenNow'
  <1> SUFFICES ASSUME TypesAfter, RowsAfter, FoundNow, ChosenNow, [Next]_vars
               PROVE  FoundNow' /\ ChosenNow'
    OBVIOUS
  <1>1. CASE UNCHANGED vars
    <2>1. UNCHANGED <<doc, expression, phase, operand, step, inputs, output, selected>>
      BY <1>1 DEF vars
    <2>2. Found(phase', step', output', inputs') /\ Chosen(phase', operand', selected')
      BY <2>1 DEF FoundNow, ChosenNow
    <2>3. QED
      BY <2>1, <2>2, SameFound, SameChosen
  <1>2. QED
    BY <1>1, BeginPathFound, SelectFromNodeFound, EndStepFound, EndPathFound DEF Next

(* At the end all paths have been selected.                                *)
LEMMA ChosenSelects == TypesAfter /\ ChosenNow => DownwardPathsSelect
  <1> SUFFICES ASSUME TypesAfter, ChosenNow, phase = "done",
                      \A i \in DOMAIN expression : DownwardPath(expression[i])
               PROVE  ToSet(selected) = XPathSelects
    BY DEF DownwardPathsSelect
  <1>1. DOMAIN expression = 1..Len(expression)
    BY PathShape DEF TypesAfter
  <1>2. operand = Len(expression)
        /\ ToSet(selected) = UNION {PathSelects(expression[i]) : i \in 1..operand}
    BY DEF ChosenNow, Chosen
  <1>3. QED
    BY <1>1, <1>2 DEF XPathSelects

-----------------------------------------------------------------------------

(* The node-sets of the evaluator hold nodes of the document, each once,   *)
(* at every step of every path (evalStepResult, evalPathExpr, evalExpr).   *)
THEOREM TypeCorrect == Spec => []TypeOK
  <1>1. TypeInv => TypeOK
    BY DEF TypeInv
  <1>2. QED
    BY <1>1, InitType, NextType, PTL DEF Spec

(* A path of child steps selects in document order, whatever its length,   *)
(* its tests, predicates and filter, so that evaluateString() converts the *)
(* first of the selected nodes (evalPathExpr, evalStepResult, evaluate).   *)
THEOREM OrderCorrect == Spec => []ChildPathsInDocumentOrder
  <1>1. Init => TypesAfter /\ RowsAfter
    BY InitType, InitRows, TypesSuffice
  <1>2. TypesAfter /\ RowsAfter /\ [Next]_vars => (TypesAfter /\ RowsAfter)'
    <2>1. TypesAfter /\ [Next]_vars => TypesAfter'
      BY NextType, TypesSuffice, PTL
    <2>2. QED
      BY <2>1, NextRows
  <1>3. QED
    BY <1>1, <1>2, RowsOrder, PTL DEF Spec

(* The evaluator answers a union of downward paths as XPath 1.0 does, on   *)
(* every document: steps, predicates with positions and neighbours, filter *)
(* and the element of the document after // (evaluate, evalPathExpr,       *)
(* evalStepResult, axisNodes, evalPredicate).                              *)
THEOREM DownwardCorrect == Spec => []DownwardPathsSelect
  <1> DEFINE Inv == TypesAfter /\ RowsAfter /\ FoundNow /\ ChosenNow
  <1>1. Init => Inv
    BY InitType, InitRows, InitFound, TypesSuffice
  <1>2. Inv /\ [Next]_vars => Inv'
    <2>1. TypesAfter /\ [Next]_vars => TypesAfter'
      BY NextType, TypesSuffice, PTL
    <2>2. QED
      BY <2>1, NextRows, NextFound
  <1>3. Inv => DownwardPathsSelect
    BY ChosenSelects
  <1>4. QED
    BY <1>1, <1>2, <1>3, PTL DEF Spec
================================================================================
