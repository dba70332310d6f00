------------------------- MODULE TreeBuilder_proofs -------------------------
(***************************************************************************)
(* Proofs about TreeBuilder: the state is well-typed, with a path of open  *)
(* nodes from the root to the one that receives what is read; what         *)
(* getContents answers is the text of the tree; contents are marked as     *)
(* white space just when they are; the tree a document leaves is the one   *)
(* that is written, and the documents that are parsed are the well-formed. *)
(***************************************************************************)
EXTENDS TreeMeaning, SequenceTheorems, FiniteSetTheorems, WellFoundedInduction, TLAPS

----------------------------------------
\* Numbers, sequences and the order of children.

\* The least of some numbers; induction over trees rests on it.
LEMMA Least ==
  ASSUME NEW T, T \subseteq Nat, T # {}
  PROVE  \E m \in T : \A n \in T : m <= n
  <1>1. PICK m \in T : \A n \in T : ~(<<n, m>> \in OpToRel(<, Nat))
    BY WFMin, NatLessThanWellFounded
  <1>2. \A n \in T : ~(n < m)
    BY <1>1 DEF OpToRel
  <1>3. QED
    BY <1>2

\* The greatest of some numbers below a bound.
LEMMA Greatest ==
  ASSUME NEW T, T \subseteq Nat, T # {}, NEW bound \in Nat, \A n \in T : n <= bound
  PROVE  Max(T) \in T /\ \A n \in T : n <= Max(T)
  <1> DEFINE Bounds == {b \in Nat : \A n \in T : n <= b}
  <1>1. Bounds \subseteq Nat /\ Bounds # {}
    OBVIOUS
  <1>2. PICK m \in Bounds : \A b \in Bounds : m <= b
    BY <1>1, Least
  <1>3. m \in T
    <2> SUFFICES ASSUME m \notin T PROVE FALSE
      OBVIOUS
    <2>1. PICK n \in T : n \in Nat
      OBVIOUS
    <2>2. m # 0 /\ m \in Nat
      BY <1>2, <2>1
    <2>3. \A k \in T : k <= m - 1
      BY <1>2, <2>2
    <2>4. m - 1 \in Bounds
      BY <2>2, <2>3
    <2>5. QED
      BY <1>2, <2>2, <2>4
  <1>4. \E x \in T : \A y \in T : x >= y
    BY <1>2, <1>3
  <1>5. Max(T) \in T /\ \A y \in T : Max(T) >= y
    BY <1>4 DEF Max
  <1>6. QED
    BY <1>5

\* InOrder lists members of its set.
LEMMA InOrderMembers ==
  ASSUME NEW S, S \subseteq Nat, IsFiniteSet(S)
  PROVE  /\ Cardinality(S) \in Nat /\ DOMAIN InOrder(S) = 1..Cardinality(S)
         /\ \A k \in DOMAIN InOrder(S) : InOrder(S)[k] \in S
  <1> DEFINE Upto(n) == {m \in S : m <= n}
             N == Cardinality(S)
             rank == [n \in S |-> Cardinality(Upto(n))]
  <1>1. N \in Nat
    BY FS_CardinalityType
  <1>2. \A n \in S : IsFiniteSet(Upto(n)) /\ Cardinality(Upto(n)) \in Nat /\ Cardinality(Upto(n)) <= N
    <2> SUFFICES ASSUME NEW n \in S
                 PROVE  IsFiniteSet(Upto(n)) /\ Cardinality(Upto(n)) \in Nat /\ Cardinality(Upto(n)) <= N
      OBVIOUS
    <2>1. Upto(n) \in SUBSET S
      OBVIOUS
    <2> HIDE DEF Upto
    <2>2. QED
      BY <2>1, FS_Subset, FS_CardinalityType
  <1>3. \A n \in S : n \in Upto(n)
    OBVIOUS
  <1>4. \A n \in S : Cardinality(Upto(n)) # 0
    BY <1>2, <1>3, FS_EmptySet
  <1>5. \A m, n \in S : m < n => Cardinality(Upto(m)) < Cardinality(Upto(n))
    <2> SUFFICES ASSUME NEW m \in S, NEW n \in S, m < n
                 PROVE  Cardinality(Upto(m)) < Cardinality(Upto(n))
      OBVIOUS
    <2>1. Upto(m) \in SUBSET Upto(n)
      <3>1. \A x \in S : x <= m => x <= n
        OBVIOUS
      <3>2. QED
        BY <3>1
    <2>2. n \in Upto(n) /\ n \notin Upto(m)
      OBVIOUS
    <2> HIDE DEF Upto
    <2>3. Cardinality(Upto(m)) <= Cardinality(Upto(n)) /\ Cardinality(Upto(m)) # Cardinality(Upto(n))
      <3>1. Upto(m) # Upto(n)
        BY <2>2
      <3>2. QED
        BY <1>2, <2>1, <3>1, FS_Subset
    <2>4. QED
      BY <1>2, <2>3
  <1> HIDE DEF Upto
  <1>6. rank \in [S -> 1..N]
    BY <1>1, <1>2, <1>4
  <1>7. \A m, n \in S : rank[m] = rank[n] => m = n
    <2>1. \A m, n \in S : m # n => m < n \/ n < m
      OBVIOUS
    <2>2. QED
      BY <1>2, <1>5, <2>1
  <1>8. rank \in Injection(S, 1..N)
    BY <1>6, <1>7 DEF Injection, IsInjective
  <1>9. IsFiniteSet(1..N) /\ Cardinality(1..N) = N
    BY <1>1, FS_Interval
  <1>10. rank \in Surjection(S, 1..N)
    BY <1>8, <1>9, FS_Injection
  <1>11. \A k \in 1..N : \E n \in S : Cardinality(Upto(n)) = k
    BY <1>10 DEF Surjection
  <1>12. InOrder(S) = [k \in 1..N |-> CHOOSE n \in S : Cardinality(Upto(n)) = k]
    BY DEF InOrder, Upto
  <1>13. QED
    BY <1>1, <1>11, <1>12

\* Induction over the numbers up to a bound.
LEMMA UptoInduction ==
  ASSUME NEW n \in Nat, NEW Good, 0 \in Good, \A k \in 1..n : k - 1 \in Good => k \in Good
  PROVE  0..n \subseteq Good
  <1> DEFINE Bad == (0..n) \ Good
  <1> SUFFICES ASSUME Bad # {} PROVE FALSE
    OBVIOUS
  <1>1. Bad \subseteq Nat
    OBVIOUS
  <1>2. PICK m \in Bad : \A k \in Bad : m <= k
    <2> HIDE DEF Bad
    <2>1. QED
      BY <1>1, Least
  <1>3. m \in 1..n /\ m - 1 \in 0..n
    BY <1>1, <1>2
  <1>4. m - 1 \notin Bad
    BY <1>2, <1>3
  <1>5. QED
    BY <1>2, <1>3, <1>4

\* The values of Op stay in T, and f is what it gives step by step.
StaysIn(T, N, first, Op) ==
  N \in Nat /\ first \in T /\ \A k \in 1..N, t \in T : Op[<<k, t>>] \in T

Recurses(f, T, N, first, Op) ==
  (\A k \in 0..N : f[k] \in T) /\ f[0] = first /\ \A k \in 1..N : f[k] = Op[<<k, f[k - 1]>>]

\* A recursive function over the numbers up to a bound, of which Op is the
\* step, is defined if its values stay in a set.
LEMMA RecursionUpto ==
  ASSUME NEW T, NEW N, NEW first, NEW Op, StaysIn(T, N, first, Op)
  PROVE  \E f : Recurses(f, T, N, first, Op)
  <1> DEFINE Defined == {n \in 0..N : \E f : Recurses(f, T, n, first, Op)}
  <1>0. N \in Nat /\ first \in T /\ \A k \in 1..N, t \in T : Op[<<k, t>>] \in T
    BY DEF StaysIn
  <1>1. 0 \in Defined
    <2>1. Recurses([k \in 0..0 |-> first], T, 0, first, Op)
      BY <1>0 DEF Recurses
    <2>2. QED
      BY <1>0, <2>1
  <1>2. ASSUME NEW n \in 1..N, n - 1 \in Defined PROVE n \in Defined
    <2>1. PICK f : Recurses(f, T, n - 1, first, Op)
      BY <1>2
    <2> DEFINE g == [k \in 0..n |-> IF k = n THEN Op[<<n, f[n - 1]>>] ELSE f[k]]
    <2>2. n \in Nat /\ n # 0 /\ n - 1 \in 0..(n - 1) /\ n \in 0..N
      BY <1>0
    <2>3. /\ \A k \in 0..(n - 1) : f[k] \in T
          /\ f[0] = first /\ \A k \in 1..(n - 1) : f[k] = Op[<<k, f[k - 1]>>]
      BY <2>1 DEF Recurses
    <2>4. Op[<<n, f[n - 1]>>] \in T
      BY <1>0, <2>2, <2>3
    <2>5. ASSUME NEW k \in 0..n PROVE g[k] \in T
      <3>1. k # n => k \in 0..(n - 1)
        BY <2>2
      <3>2. QED
        BY <2>3, <2>4, <3>1
    <2>6. g[0] = first
      BY <2>2, <2>3
    <2>7. ASSUME NEW k \in 1..n PROVE g[k] = Op[<<k, g[k - 1]>>]
      <3>1. k - 1 \in 0..n /\ k - 1 # n /\ k \in 0..n
        BY <2>2
      <3>2. g[k - 1] = f[k - 1]
        BY <3>1
      <3>3. CASE k = n
        BY <3>1, <3>2, <3>3
      <3>4. CASE k # n
        <4>1. k \in 1..(n - 1)
          BY <2>2, <3>4
        <4>2. QED
          BY <2>3, <3>1, <3>2, <3>4, <4>1
      <3>5. QED
        BY <3>3, <3>4
    <2> HIDE DEF g
    <2>8. Recurses(g, T, n, first, Op)
      BY <2>5, <2>6, <2>7 DEF Recurses
    <2>9. QED
      BY <2>2, <2>8
  <1>3. N \in Defined
    <2> HIDE DEF Defined
    <2>1. 0..N \subseteq Defined
      BY <1>0, <1>1, <1>2, UptoInduction
    <2>2. QED
      BY <1>0, <2>1
  <1>4. QED
    BY <1>3

\* f is what the first of some sequences are, joined.
Joins(f, s, S) ==
  (\A k \in 0..Len(s) : f[k] \in Seq(S)) /\ f[0] = <<>> /\ \A k \in 1..Len(s) : f[k] = f[k - 1] \o s[k]

\* There is such a function, and the last value is all of them.
LEMMA JoinsExist ==
  ASSUME NEW S, NEW seqs \in Seq(Seq(S))
  PROVE  \E f : Joins(f, seqs, S) /\ FlattenSeq(seqs) = f[Len(seqs)]
  <1> DEFINE N == Len(seqs)
             Op == [x \in (1..N) \X Seq(S) |-> x[2] \o seqs[x[1]]]
             Joined(g, i) == IF i = 1 THEN seqs[i] ELSE g[i - 1] \o seqs[i]
             flatten == CHOOSE g : g = [i \in 1..N |-> Joined(g, i)]
  <1>1. N \in Nat /\ \A k \in 1..N : seqs[k] \in Seq(S)
    OBVIOUS
  <1>2. \A k \in 1..N, t \in Seq(S) : t \o seqs[k] \in Seq(S)
    <2>1. \A s, t \in Seq(S) : t \o s \in Seq(S)
      OBVIOUS
    <2>2. QED
      BY <1>1, <2>1
  <1>3. \A k \in 1..N, t \in Seq(S) : Op[<<k, t>>] = t \o seqs[k]
    OBVIOUS
  <1> HIDE DEF Op
  <1>4. PICK f : /\ \A k \in 0..N : f[k] \in Seq(S)
                 /\ f[0] = <<>> /\ \A k \in 1..N : f[k] = Op[<<k, f[k - 1]>>]
    <2> DEFINE T == Seq(S)
    <2>1. <<>> \in T
      OBVIOUS
    <2>11. \A k \in 1..N, t \in T : Op[<<k, t>>] \in T
      BY <1>2, <1>3, Zenon
    <2>12. N \in Nat
      BY <1>1
    <2> HIDE DEF N, T
    <2>2. StaysIn(T, N, <<>>, Op)
      BY <2>1, <2>11, <2>12 DEF StaysIn
    <2>3. \E f : Recurses(f, T, N, <<>>, Op)
      BY <2>2, RecursionUpto
    <2>4. QED
      BY <2>3 DEF Recurses, T
  <1>5. ASSUME NEW k \in 1..N PROVE f[k] = f[k - 1] \o seqs[k]
    <2>1. k - 1 \in 0..N
      BY <1>1
    <2>2. QED
      BY <1>3, <1>4, <2>1
  <1>6. ASSUME NEW k \in 1..N, k = 1 PROVE f[k] = seqs[k]
    <2>1. f[k] = f[k - 1] \o seqs[k]
      BY <1>5
    <2>2. k - 1 = 0
      BY <1>6
    <2>3. f[k - 1] = <<>>
      <3>1. f[0] = <<>>
        BY <1>4
      <3>2. QED
        BY <2>2, <3>1, Zenon
    <2>4. \A q \in Seq(S) : <<>> \o q = q
      OBVIOUS
    <2>5. seqs[k] \in Seq(S)
      BY <1>1
    <2>6. QED
      BY <2>1, <2>3, <2>4, <2>5, Zenon
  <1>7. CASE N = 0
    <2>1. seqs = <<>>
      BY <1>7
    <2>2. FlattenSeq(seqs) = <<>>
      BY <1>7, <2>1 DEF FlattenSeq
    <2>3. QED
      BY <1>4, <1>5, <1>7, <2>2 DEF Joins
  <1>8. CASE N # 0
    <2> DEFINE g == [i \in 1..N |-> f[i]]
    <2>1. ASSUME NEW i \in 1..N PROVE g[i] = Joined(g, i)
      <3>1. CASE i = 1
        <4>1. f[i] = seqs[i]
          BY <1>6, <3>1
        <4>2. QED
          BY <3>1, <4>1
      <3>2. CASE i # 1
        <4>1. i - 1 \in 1..N
          BY <1>1, <3>2
        <4>2. g[i - 1] = f[i - 1] /\ g[i] = f[i]
          BY <4>1
        <4>3. QED
          BY <1>5, <3>2, <4>2
      <3>3. QED
        BY <3>1, <3>2
    <2>2. g = [i \in 1..N |-> Joined(g, i)]
      <3> HIDE DEF Joined
      <3>1. QED
        BY <2>1
    <2>3. flatten = [i \in 1..N |-> Joined(flatten, i)]
      <3> HIDE DEF Joined, g
      <3>1. QED
        BY <2>2
    <2>4. FlattenSeq(seqs) = flatten[N]
      BY <1>8 DEF FlattenSeq
    <2> HIDE DEF flatten, g
    <2>5. \A i \in 1..N : flatten[i] = Joined(flatten, i)
      <3> HIDE DEF Joined
      <3>1. QED
        BY <2>3
    <2> DEFINE Good == {k \in 0..N : k = 0 \/ flatten[k] = f[k]}
    <2>6. ASSUME NEW k \in 1..N, k - 1 \in Good PROVE k \in Good
      <3>1. CASE k = 1
        <4>1. f[k] = seqs[k]
          BY <1>6, <3>1
        <4>2. flatten[k] = seqs[k]
          BY <2>5, <3>1
        <4>3. QED
          BY <1>1, <4>1, <4>2
      <3>2. CASE k # 1
        <4>1. flatten[k - 1] = f[k - 1]
          BY <2>6, <3>2
        <4>2. flatten[k] = flatten[k - 1] \o seqs[k]
          BY <2>5, <3>2
        <4>3. flatten[k] = f[k]
          BY <1>5, <4>1, <4>2, Zenon
        <4>4. QED
          BY <1>1, <4>3
      <3>3. QED
        BY <3>1, <3>2
    <2>7. N \in Good
      <3>1. 0 \in Good
        BY <1>1
      <3> HIDE DEF Good
      <3>2. 0..N \subseteq Good
        BY <1>1, <2>6, <3>1, UptoInduction
      <3>3. QED
        BY <1>1, <3>2
    <2>8. QED
      BY <1>4, <1>5, <1>8, <2>4, <2>7 DEF Joins
  <1>9. QED
    BY <1>7, <1>8

\* A sequence of texts, joined, is a text.
LEMMA FlattenType ==
  ASSUME NEW S, NEW seqs \in Seq(Seq(S))
  PROVE  FlattenSeq(seqs) \in Seq(S)
  <1>1. PICK f : Joins(f, seqs, S) /\ FlattenSeq(seqs) = f[Len(seqs)]
    BY JoinsExist
  <1>2. Len(seqs) \in 0..Len(seqs)
    OBVIOUS
  <1>3. QED
    BY <1>1, <1>2 DEF Joins

----------------------------------------
\* The tree.

\* The nodes come after their parents.
TreeOrdered ==
  nodes \in Seq(Node) /\ \A i \in DOMAIN nodes : nodes[i].parent \in {Detached} \cup 0..i - 1

\* The nodes are a sequence.
LEMMA NodesInSequence ==
  TreeOrdered =>
    /\ Len(nodes) \in Nat /\ DOMAIN nodes = 1..Len(nodes)
    /\ \A i \in DOMAIN nodes : nodes[i] \in Node
  BY DEF TreeOrdered

\* The children of a node are listed, and come after it.
LEMMA ChildrenListed ==
  TreeOrdered =>
    \A i \in Nat :
      /\ ChildSet(i) \subseteq (i + 1)..Len(nodes)
      /\ IsFiniteSet(ChildSet(i)) /\ Cardinality(ChildSet(i)) \in Nat
      /\ \A k \in DOMAIN Children(i) : Children(i)[k] \in ChildSet(i)
  <1> SUFFICES ASSUME TreeOrdered, NEW i \in Nat
               PROVE  /\ ChildSet(i) \subseteq (i + 1)..Len(nodes)
                      /\ IsFiniteSet(ChildSet(i)) /\ Cardinality(ChildSet(i)) \in Nat
                      /\ \A k \in DOMAIN Children(i) : Children(i)[k] \in ChildSet(i)
    OBVIOUS
  <1>1. Len(nodes) \in Nat /\ DOMAIN nodes = 1..Len(nodes)
    BY NodesInSequence
  <1>2. ChildSet(i) \subseteq (i + 1)..Len(nodes)
    BY <1>1 DEF ChildSet, TreeOrdered, Detached
  <1>3. IsFiniteSet(1..Len(nodes)) /\ ChildSet(i) \in SUBSET (1..Len(nodes))
    BY <1>1, <1>2, FS_Interval DEF ChildSet
  <1>4. IsFiniteSet(ChildSet(i)) /\ ChildSet(i) \subseteq Nat
    BY <1>3, FS_Subset
  <1>5. QED
    BY <1>2, <1>4, InOrderMembers DEF Children

\* What is read of a node is defined by what is read of its children: a
\* function for the last nodes extends to the one before.
ReadingEquation ==
  \A kept :
    Reading(kept) =
      [i \in DOMAIN nodes |->
         IF i \in kept THEN nodes[i].cached
         ELSE IF Inner(i)
         THEN FlattenSeq([k \in DOMAIN Children(i) |-> Reading(kept)[Children(i)[k]]])
         ELSE nodes[i].text]

\* What is read of a node is what its equation says.
LEMMA ReadingIsDefined == TreeOrdered => ReadingEquation
  <1> SUFFICES ASSUME TreeOrdered, NEW kept
               PROVE  Reading(kept) =
                        [i \in DOMAIN nodes |->
                           IF i \in kept THEN nodes[i].cached
                           ELSE IF Inner(i)
                           THEN FlattenSeq([k \in DOMAIN Children(i) |-> Reading(kept)[Children(i)[k]]])
                           ELSE nodes[i].text]
    BY DEF ReadingEquation
  <1> DEFINE Step(f, i) == IF i \in kept THEN nodes[i].cached
                           ELSE IF Inner(i)
                           THEN FlattenSeq([k \in DOMAIN Children(i) |-> f[Children(i)[k]]])
                           ELSE nodes[i].text
             N == Len(nodes)
             Upto(k) == \E f : f = [i \in (N - k + 1)..N |-> Step(f, i)]
             T == {k \in 0..N : ~Upto(k)}
  <1>1. N \in Nat /\ DOMAIN nodes = 1..N
    BY NodesInSequence
  <1>2. ASSUME NEW f, NEW g, NEW i \in DOMAIN nodes, \A c \in (i + 1)..N : f[c] = g[c]
        PROVE  Step(f, i) = Step(g, i)
    <2>1. \A k \in DOMAIN Children(i) : Children(i)[k] \in (i + 1)..N
      BY <1>1, ChildrenListed
    <2>2. [k \in DOMAIN Children(i) |-> f[Children(i)[k]]] = [k \in DOMAIN Children(i) |-> g[Children(i)[k]]]
      BY <1>2, <2>1
    <2>3. QED
      BY <2>2
  <1> HIDE DEF Step, N
  <1>3. T = {}
    <2> SUFFICES ASSUME T # {} PROVE FALSE
      OBVIOUS
    <2>1. PICK k \in T : \A j \in T : k <= j
      <3> HIDE DEF Upto
      <3>1. T \subseteq Nat
        BY <1>1
      <3> HIDE DEF T
      <3>2. QED
        BY <3>1, Least
    <2>2. k \in 0..N /\ ~Upto(k) /\ \A j \in 0..N : ~Upto(j) => k <= j
      <3> HIDE DEF Upto
      <3>1. QED
        BY <2>1
    <2>3. Upto(0)
      <3>1. (N - 0 + 1)..N = {}
        BY <1>1
      <3>2. \A f : [i \in {} |-> Step(f, i)] = [i \in {} |-> 0]
        OBVIOUS
      <3>3. QED
        BY <3>1, <3>2
    <2>4. k \in Nat /\ k # 0 /\ k - 1 \in 0..N /\ N - k + 1 \in DOMAIN nodes
      <3> HIDE DEF Upto
      <3>1. QED
        BY <1>1, <2>2, <2>3
    <2>5. Upto(k - 1)
      <3> HIDE DEF Upto
      <3>1. QED
        BY <2>2, <2>4
    <2> DEFINE m == N - k + 1
    <2>6. m \in Nat /\ m \in DOMAIN nodes /\ N - (k - 1) + 1 = m + 1
      BY <1>1, <2>4
    <2>7. PICK f : f = [i \in (m + 1)..N |-> Step(f, i)]
      BY <2>5, <2>6
    <2> DEFINE g == [i \in m..N |-> IF i = m THEN Step(f, m) ELSE f[i]]
    <2> HIDE DEF m, T
    <2>8. \A i \in m..N : g[i] = Step(g, i)
      <3> SUFFICES ASSUME NEW i \in m..N PROVE g[i] = Step(g, i)
        OBVIOUS
      <3>1. \A c \in (i + 1)..N : g[c] = f[c]
        BY <1>1, <2>6
      <3>2. i \in DOMAIN nodes
        BY <1>1, <2>6
      <3> HIDE DEF g
      <3>3. Step(g, i) = Step(f, i)
        BY <1>2, <3>1, <3>2
      <3>4. g[i] = Step(f, i)
        <4>1. i # m => f[i] = Step(f, i)
          BY <1>1, <2>6, <2>7
        <4>2. QED
          BY <4>1 DEF g
      <3>5. QED
        BY <3>3, <3>4
    <2>9. g = [i \in m..N |-> Step(g, i)]
      BY <2>8
    <2>10. QED
      BY <2>2, <2>9 DEF m
  <1>4. \E f : f = [i \in DOMAIN nodes |-> Step(f, i)]
    <2>1. Upto(N)
      <3> HIDE DEF Upto
      <3>1. QED
        BY <1>1, <1>3
    <2>2. N - N + 1 = 1
      BY <1>1
    <2>3. QED
      BY <1>1, <2>1, <2>2
  <1> DEFINE read == CHOOSE f : f = [i \in DOMAIN nodes |-> Step(f, i)]
  <1>5. Reading(kept) = read
    BY DEF Reading, Step
  <1>6. read = [i \in DOMAIN nodes |-> Step(read, i)]
    BY <1>4
  <1>7. Reading(kept) = [i \in DOMAIN nodes |-> Step(Reading(kept), i)]
    BY <1>5, <1>6
  <1>8. QED
    BY <1>7 DEF Step

\* What is read is text.
LEMMA ReadingType ==
  TreeOrdered => \A kept : \A i \in DOMAIN nodes : Reading(kept)[i] \in Seq(Characters)
  <1> SUFFICES ASSUME TreeOrdered, NEW kept, {i \in DOMAIN nodes : Reading(kept)[i] \notin Seq(Characters)} # {}
               PROVE  FALSE
    OBVIOUS
  <1> DEFINE T == {i \in DOMAIN nodes : Reading(kept)[i] \notin Seq(Characters)}
             read == Reading(kept)
             N == Len(nodes)
  <1>1. N \in Nat /\ DOMAIN nodes = 1..N
    BY NodesInSequence
  <1>2. T \subseteq Nat /\ T # {} /\ \A i \in T : i <= N
    BY <1>1
  <1> HIDE DEF T, N, read
  <1>3. PICK i \in T : \A j \in T : j <= i
    BY <1>1, <1>2, Greatest
  <1>4. i \in DOMAIN nodes /\ i \in Nat /\ read[i] \notin Seq(Characters)
    BY <1>1, <1>3 DEF T, read
  <1>5. \A j \in (i + 1)..N : read[j] \in Seq(Characters)
    BY <1>1, <1>3, <1>4 DEF T, read
  <1> DEFINE seqs == [k \in DOMAIN Children(i) |-> read[Children(i)[k]]]
  <1>6. seqs \in Seq(Seq(Characters))
    <2>1. /\ \A k \in DOMAIN Children(i) : Children(i)[k] \in (i + 1)..N
          /\ Cardinality(ChildSet(i)) \in Nat /\ DOMAIN Children(i) = 1..Cardinality(ChildSet(i))
      BY <1>4, ChildrenListed DEF N, Children, InOrder
    <2>2. \A k \in DOMAIN Children(i) : seqs[k] \in Seq(Characters)
      BY <1>5, <2>1
    <2>3. QED
      BY <2>1, <2>2
  <1> HIDE DEF seqs
  <1>7. FlattenSeq(seqs) \in Seq(Characters)
    BY <1>6, FlattenType
  <1>8. nodes[i] \in Node
    BY <1>4, NodesInSequence
  <1>9. nodes[i].cached \in Seq(Characters) /\ nodes[i].text \in Seq(Characters)
    BY <1>8 DEF Node
  <1>10. read[i] = IF i \in kept THEN nodes[i].cached ELSE IF Inner(i) THEN FlattenSeq(seqs) ELSE nodes[i].text
    BY <1>4, ReadingIsDefined DEF ReadingEquation, read, seqs
  <1>11. QED
    BY <1>4, <1>7, <1>9, <1>10

\* The nodes above a node are its parent and those above it.
AboveEquation ==
  Above = [j \in DOMAIN nodes |->
             IF nodes[j].parent \in DOMAIN nodes
             THEN {nodes[j].parent} \cup Above[nodes[j].parent] ELSE {}]

\* So are the nodes above one.
LEMMA AboveIsDefined == TreeOrdered => AboveEquation
  <1> SUFFICES ASSUME TreeOrdered
               PROVE  Above = [j \in DOMAIN nodes |->
                                 IF nodes[j].parent \in DOMAIN nodes
                                 THEN {nodes[j].parent} \cup Above[nodes[j].parent] ELSE {}]
    BY DEF AboveEquation
  <1> DEFINE Step(f, j) == IF nodes[j].parent \in DOMAIN nodes
                           THEN {nodes[j].parent} \cup f[nodes[j].parent] ELSE {}
             N == Len(nodes)
             Upto(k) == \E f : f = [j \in 1..k |-> Step(f, j)]
             T == {k \in 0..N : ~Upto(k)}
  <1>1. N \in Nat /\ DOMAIN nodes = 1..N
    BY NodesInSequence
  <1>2. ASSUME NEW f, NEW g, NEW j \in DOMAIN nodes, \A c \in 1..(j - 1) : f[c] = g[c]
        PROVE  Step(f, j) = Step(g, j)
    <2>1. nodes[j].parent \in DOMAIN nodes => nodes[j].parent \in 1..(j - 1)
      BY <1>1 DEF TreeOrdered, Detached
    <2>2. QED
      BY <1>2, <2>1
  <1> HIDE DEF Step, N
  <1>3. T = {}
    <2> SUFFICES ASSUME T # {} PROVE FALSE
      OBVIOUS
    <2>1. PICK k \in T : \A j \in T : k <= j
      <3> HIDE DEF Upto
      <3>1. T \subseteq Nat
        BY <1>1
      <3> HIDE DEF T
      <3>2. QED
        BY <3>1, Least
    <2>2. k \in 0..N /\ ~Upto(k) /\ \A j \in 0..N : ~Upto(j) => k <= j
      <3> HIDE DEF Upto
      <3>1. QED
        BY <2>1
    <2>3. Upto(0)
      <3>1. 1..0 = {}
        OBVIOUS
      <3>2. \A f : [i \in {} |-> Step(f, i)] = [i \in {} |-> 0]
        OBVIOUS
      <3>3. QED
        BY <3>1, <3>2
    <2>4. k \in Nat /\ k # 0 /\ k - 1 \in 0..N /\ k \in DOMAIN nodes
      <3> HIDE DEF Upto
      <3>1. QED
        BY <1>1, <2>2, <2>3
    <2>5. Upto(k - 1)
      <3> HIDE DEF Upto
      <3>1. QED
        BY <2>2, <2>4
    <2>6. PICK f : f = [j \in 1..(k - 1) |-> Step(f, j)]
      BY <2>5
    <2> DEFINE g == [j \in 1..k |-> IF j = k THEN Step(f, k) ELSE f[j]]
    <2> HIDE DEF T
    <2>7. \A j \in 1..k : g[j] = Step(g, j)
      <3> SUFFICES ASSUME NEW j \in 1..k PROVE g[j] = Step(g, j)
        OBVIOUS
      <3>1. \A c \in 1..(j - 1) : g[c] = f[c]
        BY <1>1, <2>4
      <3>2. j \in DOMAIN nodes
        BY <1>1, <2>4
      <3> HIDE DEF g
      <3>3. Step(g, j) = Step(f, j)
        BY <1>2, <3>1, <3>2
      <3>4. g[j] = Step(f, j)
        <4>1. j # k => f[j] = Step(f, j)
          BY <1>1, <2>4, <2>6
        <4>2. QED
          BY <4>1 DEF g
      <3>5. QED
        BY <3>3, <3>4
    <2>8. g = [j \in 1..k |-> Step(g, j)]
      BY <2>7
    <2>9. QED
      BY <2>2, <2>8
  <1>4. \E f : f = [j \in DOMAIN nodes |-> Step(f, j)]
    <2>1. Upto(N)
      <3> HIDE DEF Upto
      <3>1. QED
        BY <1>1, <1>3
    <2>2. QED
      BY <1>1, <2>1
  <1> DEFINE above == CHOOSE f : f = [j \in DOMAIN nodes |-> Step(f, j)]
  <1>5. Above = above
    BY DEF Above, Step
  <1>6. above = [j \in DOMAIN nodes |-> Step(above, j)]
    BY <1>4
  <1>7. Above = [j \in DOMAIN nodes |-> Step(Above, j)]
    BY <1>5, <1>6
  <1>8. QED
    BY <1>7 DEF Step

\* What is below a child is below its parent.
LEMMA BelowChildren ==
  TreeOrdered =>
    \A i \in DOMAIN nodes : \A c \in ChildSet(i) : c \in Below(i) /\ Below(c) \subseteq Below(i)
  <1> SUFFICES ASSUME TreeOrdered, NEW i \in DOMAIN nodes, NEW c \in ChildSet(i)
               PROVE  c \in Below(i) /\ Below(c) \subseteq Below(i)
    OBVIOUS
  <1>1. Len(nodes) \in Nat /\ DOMAIN nodes = 1..Len(nodes)
    BY NodesInSequence
  <1>2. c \in DOMAIN nodes /\ nodes[c].parent = i
    BY DEF ChildSet
  <1>3. \A j \in DOMAIN nodes :
          Above[j] = IF nodes[j].parent \in DOMAIN nodes
                     THEN {nodes[j].parent} \cup Above[nodes[j].parent] ELSE {}
    BY AboveIsDefined DEF AboveEquation
  <1>4. i \in Above[c]
    BY <1>2, <1>3
  <1> DEFINE T == {j \in DOMAIN nodes : c \in Above[j] /\ i \notin Above[j]}
  <1>5. T = {}
    <2> SUFFICES ASSUME T # {} PROVE FALSE
      OBVIOUS
    <2>1. T \subseteq Nat
      BY <1>1
    <2>2. PICK j \in T : \A k \in T : j <= k
      <3> HIDE DEF T
      <3>1. QED
        BY <2>1, Least
    <2>3. nodes[j].parent \in DOMAIN nodes
      BY <1>3, <2>2
    <2>4. nodes[j].parent < j
      BY <1>1, <2>2, <2>3 DEF TreeOrdered, Detached
    <2>5. nodes[j].parent \notin T
      BY <1>1, <2>2, <2>3, <2>4
    <2>6. Above[j] = {nodes[j].parent} \cup Above[nodes[j].parent]
      BY <1>3, <2>2, <2>3
    <2>7. QED
      BY <1>4, <2>2, <2>3, <2>5, <2>6
  <1>6. QED
    BY <1>2, <1>4, <1>5 DEF Below

\* A node that keeps its parent stays below what it was below.
LEMMA BelowStays ==
  ASSUME TreeOrdered, TreeOrdered', DOMAIN nodes \subseteq DOMAIN nodes',
         \A i \in DOMAIN nodes : nodes'[i].parent = nodes[i].parent
  PROVE  \A i : Below(i) \subseteq Below(i)'
  <1>1. Len(nodes) \in Nat /\ DOMAIN nodes = 1..Len(nodes)
    BY NodesInSequence
  <1>2. \A j \in DOMAIN nodes :
          Above[j] = IF nodes[j].parent \in DOMAIN nodes
                     THEN {nodes[j].parent} \cup Above[nodes[j].parent] ELSE {}
    BY AboveIsDefined DEF AboveEquation
  <1>3. AboveEquation'
    BY AboveIsDefined, PTL
  <1>4. \A j \in DOMAIN nodes' :
          Above'[j] = IF nodes'[j].parent \in DOMAIN nodes'
                      THEN {nodes'[j].parent} \cup Above'[nodes'[j].parent] ELSE {}
    BY <1>3 DEF AboveEquation
  <1> DEFINE T == {j \in DOMAIN nodes : ~(Above[j] \subseteq Above'[j])}
  <1>5. T = {}
    <2> SUFFICES ASSUME T # {} PROVE FALSE
      OBVIOUS
    <2>1. T \subseteq Nat
      BY <1>1
    <2>2. PICK j \in T : \A k \in T : j <= k
      <3> HIDE DEF T
      <3>1. QED
        BY <2>1, Least
    <2>3. nodes[j].parent \in DOMAIN nodes
      BY <1>2, <2>2
    <2>4. nodes[j].parent < j
      BY <1>1, <2>2, <2>3 DEF TreeOrdered, Detached
    <2>5. nodes[j].parent \notin T
      BY <1>1, <2>2, <2>3, <2>4
    <2>6. Above[j] = {nodes[j].parent} \cup Above[nodes[j].parent]
      BY <1>2, <2>2, <2>3
    <2>7. Above'[j] = {nodes[j].parent} \cup Above'[nodes[j].parent]
      BY <1>4, <2>2, <2>3
    <2>8. QED
      BY <2>2, <2>3, <2>5, <2>6, <2>7
  <1>6. QED
    BY <1>5 DEF Below

\* What is read of nodes that keep their text and their children is the
\* same.
LEMMA ContentsStay ==
  ASSUME TreeOrdered, TreeOrdered', NEW K, K \subseteq DOMAIN nodes, K \subseteq DOMAIN nodes',
         \A i \in K : /\ nodes'[i].kind = nodes[i].kind /\ nodes'[i].text = nodes[i].text
                      /\ ChildSet(i)' = ChildSet(i) /\ ChildSet(i) \subseteq K
  PROVE  \A i \in K : Contents'[i] = Contents[i]
  <1> DEFINE T == {i \in K : Contents'[i] # Contents[i]}
             N == Len(nodes)
  <1> SUFFICES ASSUME T # {} PROVE FALSE
    OBVIOUS
  <1>1. N \in Nat /\ DOMAIN nodes = 1..N
    BY NodesInSequence
  <1>2. T \subseteq Nat /\ T # {} /\ \A i \in T : i <= N
    BY <1>1
  <1> HIDE DEF T, N
  <1>3. PICK i \in T : \A j \in T : j <= i
    BY <1>1, <1>2, Greatest
  <1>4. i \in K /\ i \in DOMAIN nodes /\ i \in DOMAIN nodes' /\ i \in Nat /\ Contents'[i] # Contents[i]
    BY <1>1, <1>3 DEF T
  <1>5. Children(i)' = Children(i)
    BY <1>4 DEF Children
  <1>6. \A k \in DOMAIN Children(i) : Contents'[Children(i)[k]] = Contents[Children(i)[k]]
    <2> SUFFICES ASSUME NEW k \in DOMAIN Children(i)
                 PROVE  Contents'[Children(i)[k]] = Contents[Children(i)[k]]
      OBVIOUS
    <2>1. Children(i)[k] \in ChildSet(i) /\ ChildSet(i) \subseteq (i + 1)..N
      BY <1>4, ChildrenListed DEF N
    <2>2. Children(i)[k] \in K /\ Children(i)[k] \notin T
      BY <1>1, <1>3, <1>4, <2>1
    <2>3. QED
      BY <2>2 DEF T
  <1>7. Contents[i] = IF Inner(i)
                      THEN FlattenSeq([k \in DOMAIN Children(i) |-> Contents[Children(i)[k]]])
                      ELSE nodes[i].text
    BY <1>4, ReadingIsDefined DEF ReadingEquation, Contents
  <1>8. ReadingEquation'
    BY ReadingIsDefined, PTL
  <1>9. Contents'[i] = IF Inner(i)'
                       THEN FlattenSeq([k \in DOMAIN Children(i)' |-> Contents'[Children(i)'[k]]])
                       ELSE nodes'[i].text
    BY <1>4, <1>8 DEF Contents, ReadingEquation
  <1>10. Inner(i)' = Inner(i)
    BY <1>4 DEF Inner
  <1>11. [k \in DOMAIN Children(i)' |-> Contents'[Children(i)'[k]]]
         = [k \in DOMAIN Children(i) |-> Contents[Children(i)[k]]]
    BY <1>5, <1>6
  <1>12. QED
    BY <1>4, <1>7, <1>9, <1>10, <1>11

\* What is kept is current.
CachesCurrent ==
  edited = {} =>
    \A i \in DOMAIN nodes :
      nodes[i].kind = "element" /\ nodes[i].count # Unfilled =>
        /\ nodes[i].count <= Cardinality(ChildSet(i))
        /\ nodes[i].count = Cardinality(ChildSet(i)) /\ Below(i) \cap grown = {} =>
             nodes[i].cached = Contents[i]

\* Then so is what is answered.
LEMMA AnswersCurrent ==
  ASSUME TreeOrdered, CachesCurrent, edited = {}
  PROVE  \A i \in DOMAIN nodes : Below(i) \cap grown = {} => Answer[i] = Contents[i]
  <1> DEFINE T == {i \in DOMAIN nodes : Below(i) \cap grown = {} /\ Answer[i] # Contents[i]}
             N == Len(nodes)
  <1> SUFFICES ASSUME T # {} PROVE FALSE
    OBVIOUS
  <1>1. N \in Nat /\ DOMAIN nodes = 1..N
    BY NodesInSequence
  <1>2. T \subseteq Nat /\ T # {} /\ \A i \in T : i <= N
    BY <1>1
  <1> HIDE DEF T, N
  <1>3. PICK i \in T : \A j \in T : j <= i
    BY <1>1, <1>2, Greatest
  <1>4. i \in DOMAIN nodes /\ i \in Nat /\ Below(i) \cap grown = {} /\ Answer[i] # Contents[i]
    BY <1>1, <1>3 DEF T
  <1>5. \A k \in DOMAIN Children(i) : Answer[Children(i)[k]] = Contents[Children(i)[k]]
    <2> SUFFICES ASSUME NEW k \in DOMAIN Children(i)
                 PROVE  Answer[Children(i)[k]] = Contents[Children(i)[k]]
      OBVIOUS
    <2>1. Children(i)[k] \in ChildSet(i) /\ ChildSet(i) \subseteq (i + 1)..N
      BY <1>4, ChildrenListed DEF N
    <2>2. Below(Children(i)[k]) \subseteq Below(i)
      BY <1>4, <2>1, BelowChildren
    <2>3. Children(i)[k] \in DOMAIN nodes /\ Children(i)[k] \notin T
      BY <1>1, <1>3, <1>4, <2>1
    <2>4. QED
      BY <1>4, <2>2, <2>3 DEF T
  <1>6. Contents[i] = IF Inner(i)
                      THEN FlattenSeq([k \in DOMAIN Children(i) |-> Contents[Children(i)[k]]])
                      ELSE nodes[i].text
    BY <1>4, ReadingIsDefined DEF ReadingEquation, Contents
  <1>7. Answer[i] = IF Served(i) THEN nodes[i].cached
                    ELSE IF Inner(i)
                    THEN FlattenSeq([k \in DOMAIN Children(i) |-> Answer[Children(i)[k]]])
                    ELSE nodes[i].text
    BY <1>4, ReadingIsDefined DEF ReadingEquation, Answer
  <1>8. Served(i) => nodes[i].cached = Contents[i]
    <2>1. Cardinality(ChildSet(i)) # Unfilled
      BY <1>4, ChildrenListed DEF Unfilled
    <2>2. QED
      BY <1>4, <2>1 DEF Served, CachesCurrent
  <1>9. [k \in DOMAIN Children(i) |-> Answer[Children(i)[k]]]
        = [k \in DOMAIN Children(i) |-> Contents[Children(i)[k]]]
    BY <1>5
  <1>10. QED
    BY <1>4, <1>6, <1>7, <1>8, <1>9

----------------------------------------
\* Steps of the tree.

\* What a tree that grows, or whose texts change, keeps of a node.
SameNode(n, m) ==
  n.kind = m.kind /\ n.parent = m.parent /\ n.tag = m.tag /\ n.prefixes = m.prefixes /\ n.count = m.count

\* What a token of each kind holds.
LEMMA TokenShape ==
  \A t \in AnyToken :
    /\ t.kind \in {"char", "charref"} => t.char \in Characters
    /\ t.kind = "cdata" => t.text \in Seq(Characters)
    /\ t.kind \in {"start", "empty"} => t.tag \in Tags /\ t.attributes \in Seq(Tags)
  BY DEF AnyToken

\* A node, and a node of which a field is changed.
LEMMA NodeShape ==
  ASSUME NEW n \in Node
  PROVE  /\ n.kind \in Kinds /\ n.parent \in {Detached} \cup Nat /\ n.text \in Seq(Characters)
         /\ n.white \in BOOLEAN /\ n.prefixes \in SUBSET Names
         /\ n.count \in {Unfilled} \cup Nat /\ n.cached \in Seq(Characters)
         /\ \A text \in Seq(Characters), white \in BOOLEAN : [n EXCEPT !.text = text, !.white = white] \in Node
         /\ \A white \in BOOLEAN : [n EXCEPT !.white = white] \in Node
         /\ \A text \in Seq(Characters) : [n EXCEPT !.text = text] \in Node
         /\ [n EXCEPT !.parent = Detached] \in Node
         /\ \A count \in Nat, cached \in Seq(Characters) : [n EXCEPT !.count = count, !.cached = cached] \in Node
  <1>1. /\ n.kind \in Kinds /\ n.parent \in {Detached} \cup Nat /\ n.text \in Seq(Characters)
        /\ n.white \in BOOLEAN /\ n.prefixes \in SUBSET Names
        /\ n.count \in {Unfilled} \cup Nat /\ n.cached \in Seq(Characters)
    BY DEF Node
  <1>2. ASSUME NEW text \in Seq(Characters), NEW white \in BOOLEAN
        PROVE  [n EXCEPT !.text = text, !.white = white] \in Node
    BY DEF Node
  <1>3. ASSUME NEW white \in BOOLEAN PROVE [n EXCEPT !.white = white] \in Node
    BY DEF Node
  <1>4. ASSUME NEW text \in Seq(Characters) PROVE [n EXCEPT !.text = text] \in Node
    BY DEF Node
  <1>5. [n EXCEPT !.parent = Detached] \in Node
    BY DEF Node
  <1>6. ASSUME NEW count \in Nat, NEW cached \in Seq(Characters)
        PROVE  [n EXCEPT !.count = count, !.cached = cached] \in Node
    BY DEF Node
  <1>7. QED
    BY <1>1, <1>2, <1>3, <1>4, <1>5, <1>6

\* What the constructors of nodes make.
LEMMA MakeNodeType ==
  ASSUME NEW kind \in Kinds, NEW parent \in Nat, NEW text \in Seq(Characters)
  PROVE  /\ MakeNode(kind, parent, text) \in Node
         /\ MakeNode(kind, parent, text).kind = kind /\ MakeNode(kind, parent, text).parent = parent
         /\ MakeNode(kind, parent, text).text = text
         /\ MakeNode(kind, parent, text).count = Unfilled /\ MakeNode(kind, parent, text).prefixes = {}
  BY DEF MakeNode, Node

\* A content.
LEMMA MakeContentType ==
  ASSUME NEW parent \in Nat, NEW text \in Seq(Characters), NEW white \in BOOLEAN
  PROVE  LET n == MakeContent(parent, text, white)
         IN  /\ n \in Node /\ n.kind = "content" /\ n.parent = parent /\ n.text = text
             /\ n.white = white /\ n.count = Unfilled
  <1> DEFINE made == MakeNode("content", parent, text)
  <1>1. made \in Node /\ made.kind = "content" /\ made.parent = parent /\ made.text = text /\ made.count = Unfilled
    BY MakeNodeType DEF Kinds
  <1>2. MakeContent(parent, text, white) = [made EXCEPT !.white = white]
    BY DEF MakeContent
  <1> HIDE DEF made
  <1>3. [made EXCEPT !.white = white] \in Node
    BY <1>1, NodeShape
  <1>4. QED
    BY <1>1, <1>2, <1>3 DEF Node

\* An element.
LEMMA MakeElementType ==
  ASSUME NEW parent \in Nat, NEW tag \in Tags, NEW prefixes \in SUBSET Names
  PROVE  LET n == MakeElement(parent, tag, prefixes)
         IN  /\ n \in Node /\ n.kind = "element" /\ n.parent = parent /\ n.prefixes = prefixes
             /\ n.count = Unfilled
  <1> DEFINE made == MakeNode("element", parent, <<>>)
  <1>1. made \in Node /\ made.kind = "element" /\ made.parent = parent /\ made.count = Unfilled
    <2>0. <<>> \in Seq(Characters)
      OBVIOUS
    <2>1. PICK empty \in Seq(Characters) : empty = <<>>
      BY <2>0
    <2>2. PICK kind \in Kinds : kind = "element"
      BY DEF Kinds
    <2>3. MakeNode(kind, parent, empty) \in Node /\ MakeNode(kind, parent, empty).kind = kind
          /\ MakeNode(kind, parent, empty).parent = parent /\ MakeNode(kind, parent, empty).count = Unfilled
      BY MakeNodeType
    <2>4. QED
      BY <2>1, <2>2, <2>3
  <1>2. MakeElement(parent, tag, prefixes) = [made EXCEPT !.tag = tag, !.prefixes = prefixes]
    BY DEF MakeElement
  <1> HIDE DEF made
  <1>3. [made EXCEPT !.tag = tag, !.prefixes = prefixes] \in Node
    BY <1>1 DEF Node
  <1>4. QED
    BY <1>1, <1>2, <1>3 DEF Node

\* Every node is placed.
AllPlaced == \A i \in DOMAIN nodes : Placed(i)

\* A node is appended, and the others keep their place.
LEMMA NodeAppended ==
  ASSUME nodes \in Seq(Node), AllPlaced,
         NEW T \in Seq(Node), Len(T) = Len(nodes), \A i \in DOMAIN nodes : SameNode(T[i], nodes[i]),
         NEW n \in Node, n.parent \in DOMAIN nodes,
         nodes[n.parent].kind \in {"prolog", "element", "reference"}, n.kind # "prolog",
         n.kind = "element" => /\ nodes[n.parent].kind \in {"prolog", "element"}
                               /\ nodes[n.parent].prefixes \subseteq n.prefixes,
         nodes' = Append(T, n)
  PROVE  /\ nodes' \in Seq(Node) /\ Len(nodes') = Len(nodes) + 1
         /\ \A i \in DOMAIN nodes : nodes'[i] = T[i] /\ i \in DOMAIN nodes'
         /\ nodes'[Len(nodes) + 1] = n
         /\ AllPlaced'
  <1>1. PICK N \in Nat : N = Len(nodes) /\ DOMAIN nodes = 1..N /\ DOMAIN T = 1..N /\ N + 1 \in Nat
    OBVIOUS
  <1>2. /\ nodes' \in Seq(Node) /\ Len(nodes') = N + 1 /\ DOMAIN nodes' = 1..(N + 1)
        /\ \A i \in 1..N : nodes'[i] = T[i]
        /\ nodes'[N + 1] = n
    BY <1>1
  <1>3. ASSUME NEW i \in 1..N
        PROVE  Placed(i)'
    <2>1. SameNode(nodes'[i], nodes[i]) /\ Placed(i)
      BY <1>1, <1>2 DEF AllPlaced
    <2>2. nodes[i].parent > 0 => /\ nodes[i].parent \in 1..N
                                 /\ SameNode(nodes'[nodes[i].parent], nodes[nodes[i].parent])
      BY <1>1, <1>2, <2>1 DEF Placed, Detached
    <2>3. /\ nodes'[i].kind = nodes[i].kind /\ nodes'[i].parent = nodes[i].parent
          /\ nodes'[i].prefixes = nodes[i].prefixes
      BY <2>1 DEF SameNode
    <2>4. nodes[i].parent > 0 =>
            /\ nodes'[nodes[i].parent].kind = nodes[nodes[i].parent].kind
            /\ nodes'[nodes[i].parent].prefixes = nodes[nodes[i].parent].prefixes
      BY <2>2 DEF SameNode
    <2>5. QED
      BY <2>1, <2>3, <2>4 DEF Placed
  <1>4. Placed(N + 1)'
    <2>1. n.parent \in 1..N /\ SameNode(nodes'[n.parent], nodes[n.parent])
      BY <1>1, <1>2
    <2>2. N # 0
      BY <1>1, <2>1
    <2>3. n.parent \in {Detached} \cup 0..((N + 1) - 1) /\ n.parent > 0 /\ N + 1 # 1 /\ n.parent # 0
      BY <1>1, <2>1, <2>2
    <2>4. /\ nodes'[n.parent].kind = nodes[n.parent].kind
          /\ nodes'[n.parent].prefixes = nodes[n.parent].prefixes
      BY <2>1 DEF SameNode
    <2>5. QED
      BY <1>2, <2>3, <2>4 DEF Placed
  <1>5. \A i \in DOMAIN nodes' : i \in 1..N \/ i = N + 1
    BY <1>1, <1>2
  <1>6. AllPlaced'
    BY <1>3, <1>4, <1>5 DEF AllPlaced
  <1>7. QED
    BY <1>1, <1>2, <1>6

\* Texts, marks and what is kept do not matter to the place of a node.
LEMMA NodesChanged ==
  ASSUME nodes \in Seq(Node), AllPlaced,
         nodes' \in Seq(Node), Len(nodes') = Len(nodes),
         \A i \in DOMAIN nodes : /\ nodes'[i].kind = nodes[i].kind /\ nodes'[i].parent = nodes[i].parent
                                 /\ nodes'[i].prefixes = nodes[i].prefixes
  PROVE  AllPlaced'
  <1>1. Len(nodes) \in Nat /\ DOMAIN nodes = 1..Len(nodes) /\ DOMAIN nodes' = 1..Len(nodes)
    OBVIOUS
  <1>2. ASSUME NEW i \in DOMAIN nodes PROVE Placed(i)'
    <2>1. Placed(i)
      BY DEF AllPlaced
    <2>2. nodes[i].parent > 0 => nodes[i].parent \in DOMAIN nodes
      BY <1>1, <2>1 DEF Placed, Detached
    <2>3. QED
      BY <2>1, <2>2 DEF Placed
  <1>3. QED
    BY <1>1, <1>2 DEF AllPlaced

\* The last child of a node, before some limit.
LEMMA LastChildIs ==
  ASSUME TreeOrdered, NEW p \in Nat
  PROVE  /\ ChildSet(p) # {} => /\ LastChild(p) \in ChildSet(p)
                                /\ \A j \in ChildSet(p) : j <= LastChild(p)
         /\ \A limit \in Nat :
              LET before == {j \in ChildSet(p) : j < limit}
              IN before # {} => Max(before) \in before /\ \A j \in before : j <= Max(before)
  <1>1. Len(nodes) \in Nat /\ DOMAIN nodes = 1..Len(nodes)
    BY NodesInSequence
  <1>2. ChildSet(p) \subseteq Nat /\ \A j \in ChildSet(p) : j <= Len(nodes)
    BY <1>1 DEF ChildSet
  <1>3. ChildSet(p) # {} => LastChild(p) \in ChildSet(p) /\ \A j \in ChildSet(p) : j <= LastChild(p)
    BY <1>1, <1>2, Greatest DEF LastChild
  <1>4. ASSUME NEW limit \in Nat, {j \in ChildSet(p) : j < limit} # {}
        PROVE  LET before == {j \in ChildSet(p) : j < limit}
               IN Max(before) \in before /\ \A j \in before : j <= Max(before)
    <2> DEFINE before == {j \in ChildSet(p) : j < limit}
    <2>1. before \subseteq Nat /\ before # {} /\ \A j \in before : j <= Len(nodes)
      BY <1>2, <1>4
    <2> HIDE DEF before
    <2>2. Max(before) \in before /\ \A j \in before : j <= Max(before)
      BY <1>1, <2>1, Greatest
    <2>3. QED
      BY <2>2 DEF before
  <1>5. QED
    BY <1>3, <1>4

\* A character joins the content at the end, or begins one.
LEMMA CharacterAdded ==
  ASSUME TreeOrdered, NEW p \in DOMAIN nodes, NEW char \in Characters
  PROVE  LET last == LastChild(p)
             T == AddCharacter(p, char)
         IN  \/ /\ ChildSet(p) = {} \/ nodes[last].kind # "content"
                /\ T = Append(nodes, MakeContent(p, <<char>>,
                         char \in White /\ (ChildSet(p) = {} \/ nodes[last].kind \notin {"cdata", "reference"})))
             \/ /\ last \in ChildSet(p) /\ nodes[last].kind = "content"
                /\ T \in Seq(Node) /\ Len(T) = Len(nodes)
                /\ \A i \in DOMAIN nodes : /\ SameNode(T[i], nodes[i])
                                           /\ i # last => T[i] = nodes[i]
                /\ T[last].text = Append(nodes[last].text, char)
                /\ T[last].white = (nodes[last].white /\ char \in White)
  <1> DEFINE last == LastChild(p)
             T == AddCharacter(p, char)
  <1>1. Len(nodes) \in Nat /\ DOMAIN nodes = 1..Len(nodes) /\ \A i \in DOMAIN nodes : nodes[i] \in Node
    BY NodesInSequence
  <1>2. CASE ChildSet(p) = {} \/ nodes[last].kind # "content"
    BY <1>2 DEF AddCharacter
  <1>3. CASE ChildSet(p) # {} /\ nodes[last].kind = "content"
    <2>1. last \in ChildSet(p) /\ last \in DOMAIN nodes
      BY <1>1, <1>3, LastChildIs DEF ChildSet
    <2> DEFINE text == Append(nodes[last].text, char)
               white == nodes[last].white /\ char \in White
               new == [nodes[last] EXCEPT !.text = text, !.white = white]
    <2>2. T = [nodes EXCEPT ![last].text = text, ![last].white = white]
      BY <1>3, <2>1 DEF AddCharacter
    <2>3. nodes[last].text \in Seq(Characters) /\ nodes[last] \in Node
      BY <1>1, <2>1, NodeShape
    <2>4. text \in Seq(Characters) /\ white \in BOOLEAN
      BY <2>3
    <2> HIDE DEF last, text, white
    <2>5. T = [nodes EXCEPT ![last] = new]
      BY <2>1, <2>2
    <2>6. new \in Node
      BY <2>3, <2>4, NodeShape
    <2>7. new.text = text /\ new.white = white /\ SameNode(new, nodes[last])
      BY <2>3 DEF SameNode, Node
    <2> HIDE DEF new, T
    <2>8. T \in Seq(Node) /\ Len(T) = Len(nodes) /\ T[last] = new /\ \A i \in DOMAIN nodes : i # last => T[i] = nodes[i]
      BY <1>1, <2>1, <2>5, <2>6 DEF TreeOrdered
    <2>9. \A i \in DOMAIN nodes : SameNode(T[i], nodes[i])
      BY <2>7, <2>8 DEF SameNode
    <2>10. QED
      BY <1>3, <2>1, <2>7, <2>8, <2>9 DEF last, text, white, T
  <1>4. QED
    BY <1>2, <1>3

\* Of the nodes, markTrailingContentNonWhitespace changes only the mark of
\* the last one before a limit, if it is a content.
LEMMA TrailingMarked ==
  ASSUME TreeOrdered, NEW p \in Nat, NEW limit \in Nat
  PROVE  LET before == {j \in ChildSet(p) : j < limit}
             T == MarkTrailing(p, limit)
         IN  /\ T \in Seq(Node) /\ Len(T) = Len(nodes)
             /\ \A i \in DOMAIN nodes :
                  /\ SameNode(T[i], nodes[i]) /\ T[i].text = nodes[i].text
                  /\ T[i].white = IF before # {} /\ i = Max(before) /\ nodes[i].kind = "content"
                                  THEN FALSE ELSE nodes[i].white
  <1> DEFINE before == {j \in ChildSet(p) : j < limit}
             last == Max(before)
             T == MarkTrailing(p, limit)
  <1>1. Len(nodes) \in Nat /\ DOMAIN nodes = 1..Len(nodes) /\ \A i \in DOMAIN nodes : nodes[i] \in Node
    BY NodesInSequence
  <1>2. CASE before = {} \/ nodes[last].kind # "content"
    <2>1. T = nodes
      BY <1>2 DEF MarkTrailing
    <2>2. QED
      BY <1>2, <2>1 DEF TreeOrdered, SameNode
  <1>3. CASE before # {} /\ nodes[last].kind = "content"
    <2>1. last \in before
      BY <1>3, LastChildIs
    <2>2. last \in DOMAIN nodes /\ before # {}
      BY <1>3, <2>1 DEF ChildSet
    <2> DEFINE new == [nodes[last] EXCEPT !.white = FALSE]
    <2>3. T = [nodes EXCEPT ![last].white = FALSE]
      BY <1>3 DEF MarkTrailing
    <2> HIDE DEF before, last
    <2>4. T = [nodes EXCEPT ![last] = new]
      BY <2>2, <2>3
    <2>5. nodes[last] \in Node
      BY <1>1, <2>2
    <2>6. new \in Node
      BY <2>5, NodeShape
    <2>7. new.text = nodes[last].text /\ new.white = FALSE /\ SameNode(new, nodes[last])
      BY <2>5 DEF SameNode, Node
    <2> HIDE DEF new, T
    <2>8. T \in Seq(Node) /\ Len(T) = Len(nodes) /\ T[last] = new /\ \A i \in DOMAIN nodes : i # last => T[i] = nodes[i]
      BY <1>1, <2>2, <2>4, <2>6 DEF TreeOrdered
    <2>9. \A i \in DOMAIN nodes :
            /\ SameNode(T[i], nodes[i]) /\ T[i].text = nodes[i].text
            /\ T[i].white = IF before # {} /\ i = last /\ nodes[i].kind = "content"
                            THEN FALSE ELSE nodes[i].white
      BY <1>3, <2>2, <2>7, <2>8 DEF SameNode
    <2>10. QED
      BY <2>8, <2>9 DEF before, last, T
  <1>4. QED
    BY <1>2, <1>3

----------------------------------------
\* The state is well-typed.

\* There is a tree but after an error; nothing is edited or read before
\* the document is parsed, and there are no calls afterwards.
Stages ==
  /\ phase = "error" <=> nodes = <<>>
  /\ phase # "parsing" => calls = <<>>
  /\ phase = "parsing" =>
       /\ edited = {} /\ grown = {}
       /\ \A i \in DOMAIN nodes : nodes[i].parent # Detached /\ nodes[i].count = Unfilled

\* The calls on some nodes.
CallIn(D) == [kind : {"element", "entity"}, node : D, rest : Seq(AnyToken)]

\* The calls in progress are on nodes of the tree.
CallType == calls \in Seq(CallIn(DOMAIN nodes))

\* A call, and calls on fewer nodes.
LEMMA CallShape ==
  ASSUME NEW D
  PROVE  /\ \A c \in CallIn(D) : c.kind \in {"element", "entity"} /\ c.node \in D /\ c.rest \in Seq(AnyToken)
         /\ \A E : D \subseteq E => CallIn(D) \subseteq CallIn(E)
  BY DEF CallIn

\* A stack of calls.
LEMMA CallsShape ==
  ASSUME NEW D, NEW E, D \subseteq E, NEW stack \in Seq(CallIn(D))
  PROVE  /\ Len(stack) \in Nat /\ DOMAIN stack = 1..Len(stack)
         /\ \A k \in DOMAIN stack : /\ stack[k] \in CallIn(D) /\ stack[k].node \in D
                                    /\ stack[k].rest \in Seq(AnyToken)
         /\ stack \in Seq(CallIn(E))
  <1>1. /\ Len(stack) \in Nat /\ DOMAIN stack = 1..Len(stack)
        /\ \A k \in DOMAIN stack : stack[k] \in CallIn(D)
    OBVIOUS
  <1>2. \A k \in DOMAIN stack : stack[k].node \in D /\ stack[k].rest \in Seq(AnyToken)
    BY <1>1, CallShape
  <1>3. CallIn(D) \subseteq CallIn(E)
    BY CallShape
  <1>4. stack \in Seq(CallIn(E))
    BY <1>3
  <1>5. QED
    BY <1>1, <1>2, <1>4

\* The nodes of the calls are a path from the root element.
CallPath ==
  /\ \A k \in DOMAIN calls :
       /\ nodes[calls[k].node].kind \in {"element", "reference"}
       /\ calls[k].kind = "element" => nodes[calls[k].node].kind = "element"
       /\ k = 1 => calls[k].kind = "element"
       /\ k > 1 => \/ /\ nodes[calls[k].node].parent = calls[k - 1].node
                      /\ calls[k].kind = "entity" => nodes[calls[k].node].kind = "reference"
                   \/ calls[k].kind = "entity" /\ calls[k].node = calls[k - 1].node
  /\ \A j, k \in DOMAIN calls : j < k => calls[j].node <= calls[k].node

\* An entity has left something in its node before its text ends.
EntityRead ==
  calls # <<>> /\ Last(calls).kind = "entity" => input # <<>> \/ ChildSet(Target) # {}

\* The invariant.
TypeInv == TypeOK /\ Stages /\ CallPath /\ EntityRead

\* The nodes keep their kinds and their parents.
NodesKept ==
  /\ DOMAIN nodes \subseteq DOMAIN nodes'
  /\ \A i \in DOMAIN nodes : nodes'[i].kind = nodes[i].kind /\ nodes'[i].parent = nodes[i].parent

\* What the invariant says of the nodes and the calls.
LEMMA TypeFacts ==
  ASSUME TypeInv
  PROVE  /\ nodes \in Seq(Node) /\ Len(nodes) \in Nat /\ DOMAIN nodes = 1..Len(nodes)
         /\ TreeOrdered /\ AllPlaced
         /\ CallType /\ CallPath
         /\ input \in Seq(AnyToken)
  BY DEF TypeInv, TypeOK, AllPlaced, CallType, CallIn, TreeOrdered, Placed

\* Where what is read next goes.
LEMMA TargetIs ==
  ASSUME TypeInv, phase = "parsing"
  PROVE  /\ Target \in DOMAIN nodes /\ Target \in Nat
         /\ nodes[Target].prefixes \in SUBSET Names
         /\ calls = <<>> => Target = 1 /\ nodes[Target].kind = "prolog"
         /\ calls # <<>> => /\ nodes[Target].kind \in {"element", "reference"}
                            /\ Len(calls) \in DOMAIN calls /\ Len(calls) \in Nat
                            /\ Target = calls[Len(calls)].node /\ Last(calls) = calls[Len(calls)]
  <1>1. /\ nodes \in Seq(Node) /\ Len(nodes) \in Nat /\ DOMAIN nodes = 1..Len(nodes)
        /\ AllPlaced /\ CallType /\ CallPath
    BY TypeFacts
  <1>2. CASE calls = <<>>
    <2>1. nodes # <<>>
      BY DEF TypeInv, Stages
    <2>2. 1 \in DOMAIN nodes
      BY <1>1, <2>1
    <2>3. nodes[1].kind = "prolog" /\ nodes[1] \in Node
      BY <1>1, <2>2 DEF AllPlaced, Placed
    <2>4. QED
      BY <1>1, <1>2, <2>2, <2>3, NodeShape DEF Target
  <1>3. CASE calls # <<>>
    <2>1. Len(calls) \in DOMAIN calls /\ Len(calls) \in Nat
      BY <1>1, <1>3 DEF CallType
    <2>2. calls[Len(calls)].node \in DOMAIN nodes
      BY <1>1, <2>1, CallsShape DEF CallType
    <2>3. nodes[calls[Len(calls)].node].kind \in {"element", "reference"}
      BY <1>1, <2>1 DEF CallPath
    <2>4. nodes[calls[Len(calls)].node] \in Node
      BY <1>1, <2>2
    <2>5. Last(calls) = calls[Len(calls)] /\ Target = calls[Len(calls)].node
      BY <1>3 DEF Target, Last
    <2>6. nodes[calls[Len(calls)].node].prefixes \in SUBSET Names
      BY <2>4, NodeShape
    <2>7. calls[Len(calls)].node \in Nat
      BY <1>1, <2>2
    <2>8. QED
      BY <1>3, <2>1, <2>2, <2>3, <2>5, <2>6, <2>7
  <1>4. QED
    BY <1>2, <1>3

\* A node is added to the target.
LEMMA TreeGrows ==
  ASSUME TypeInv, phase = "parsing",
         NEW T \in Seq(Node), Len(T) = Len(nodes), \A i \in DOMAIN nodes : SameNode(T[i], nodes[i]),
         NEW n \in Node, n.parent = Target, n.count = Unfilled, n.kind # "prolog",
         n.kind = "element" => /\ nodes[Target].kind \in {"prolog", "element"}
                               /\ nodes[Target].prefixes \subseteq n.prefixes,
         nodes' = Append(T, n)
  PROVE  /\ nodes' \in Seq(Node) /\ Len(nodes') = Len(nodes) + 1 /\ DOMAIN nodes' = 1..(Len(nodes) + 1)
         /\ AllPlaced' /\ NodesKept /\ nodes'[Len(nodes) + 1] = n
         /\ \A i \in DOMAIN nodes : nodes'[i] = T[i]
         /\ \A i \in DOMAIN nodes' : nodes'[i].parent # Detached /\ nodes'[i].count = Unfilled
         /\ Len(nodes) + 1 \in DOMAIN nodes'
  <1>1. /\ nodes \in Seq(Node) /\ Len(nodes) \in Nat /\ DOMAIN nodes = 1..Len(nodes) /\ AllPlaced
    BY TypeFacts
  <1>2. Target \in DOMAIN nodes /\ Target \in Nat /\ nodes[Target].kind \in {"prolog", "element", "reference"}
    BY TargetIs
  <1>3. /\ nodes' \in Seq(Node) /\ Len(nodes') = Len(nodes) + 1
        /\ \A i \in DOMAIN nodes : nodes'[i] = T[i] /\ i \in DOMAIN nodes'
        /\ nodes'[Len(nodes) + 1] = n
        /\ AllPlaced'
    BY <1>1, <1>2, NodeAppended
  <1>4. DOMAIN nodes' = 1..(Len(nodes) + 1)
    BY <1>1, <1>3
  <1>5. NodesKept
    BY <1>3 DEF NodesKept, SameNode
  <1>6. \A i \in DOMAIN nodes : nodes[i].parent # Detached /\ nodes[i].count = Unfilled
    BY DEF TypeInv, Stages
  <1>7. \A i \in DOMAIN nodes : nodes'[i].parent # Detached /\ nodes'[i].count = Unfilled
    BY <1>3, <1>6 DEF SameNode
  <1>8. n.parent # Detached
    BY <1>2 DEF Detached
  <1>9. \A i \in DOMAIN nodes' : i \in DOMAIN nodes \/ i = Len(nodes) + 1
    BY <1>1, <1>4
  <1>10. Len(nodes) + 1 \in DOMAIN nodes'
    BY <1>1, <1>4
  <1>11. QED
    BY <1>3, <1>4, <1>5, <1>7, <1>8, <1>9, <1>10

\* What is kept of the nodes is enough for the calls.
LEMMA CallsStay ==
  ASSUME TypeInv, NodesKept, UNCHANGED calls
  PROVE  CallType' /\ CallPath'
  <1>1. CallType /\ CallPath
    BY TypeFacts
  <1>2. CallType'
    BY <1>1, CallsShape DEF CallType, NodesKept
  <1>3. \A k \in DOMAIN calls : calls[k].node \in DOMAIN nodes
    BY <1>1, CallsShape DEF CallType
  <1>4. QED
    BY <1>1, <1>2, <1>3 DEF CallPath, NodesKept

\* A call begins, on the target or on a child of it.
LEMMA CallPushed ==
  ASSUME TypeInv, phase = "parsing", NodesKept, \A i \in DOMAIN nodes' : i \in Nat,
         NEW c \in CallIn(DOMAIN nodes'),
         nodes'[c.node].kind \in {"element", "reference"},
         c.kind = "element" => nodes'[c.node].kind = "element",
         calls = <<>> => c.kind = "element",
         calls # <<>> => \/ /\ nodes'[c.node].parent = Target
                            /\ c.kind = "entity" => nodes'[c.node].kind = "reference"
                         \/ c.kind = "entity" /\ c.node = Target,
         Target <= c.node,
         calls' = Append(calls, c)
  PROVE  CallType' /\ CallPath'
  <1>1. CallType /\ CallPath /\ DOMAIN nodes \subseteq Nat
    BY TypeFacts
  <1>2. PICK L \in Nat : L = Len(calls) /\ DOMAIN calls = 1..L
    BY <1>1 DEF CallType
  <1>3. calls \in Seq(CallIn(DOMAIN nodes'))
    BY <1>1, CallsShape DEF CallType, NodesKept
  <1>4. CallType'
    <2>1. Append(calls, c) \in Seq(CallIn(DOMAIN nodes'))
      BY <1>3
    <2>2. QED
      BY <2>1 DEF CallType
  <1>5. DOMAIN calls' = 1..(L + 1) /\ calls'[L + 1] = c /\ \A k \in 1..L : calls'[k] = calls[k]
    BY <1>2, <1>3
  <1>6. \A k \in 1..L : calls[k].node \in DOMAIN nodes
    BY <1>1, <1>2, CallsShape DEF CallType
  <1>7. L # 0 => calls # <<>> /\ Target = calls[L].node
    BY <1>2, TargetIs
  <1>8. L = 0 => calls = <<>>
    BY <1>2, <1>3
  <1>9. ASSUME NEW k \in DOMAIN calls'
        PROVE  /\ nodes'[calls'[k].node].kind \in {"element", "reference"}
               /\ calls'[k].kind = "element" => nodes'[calls'[k].node].kind = "element"
               /\ k = 1 => calls'[k].kind = "element"
               /\ k > 1 => \/ /\ nodes'[calls'[k].node].parent = calls'[k - 1].node
                              /\ calls'[k].kind = "entity" => nodes'[calls'[k].node].kind = "reference"
                           \/ calls'[k].kind = "entity" /\ calls'[k].node = calls'[k - 1].node
    <2>1. CASE k \in 1..L
      <3>1. k > 1 => k - 1 \in 1..L
        BY <1>2, <2>1
      <3>2. QED
        BY <1>1, <1>2, <1>5, <1>6, <2>1, <3>1 DEF CallPath, NodesKept
    <2>2. CASE k = L + 1
      <3>1. k > 1 => L # 0 /\ k - 1 = L /\ L \in 1..L
        BY <1>2, <2>2
      <3>2. k = 1 => L = 0
        BY <1>2, <2>2
      <3>3. QED
        BY <1>5, <1>7, <1>8, <2>2, <3>1, <3>2
    <2>3. QED
      BY <1>2, <1>5, <2>1, <2>2
  <1>10. ASSUME NEW j \in DOMAIN calls', NEW k \in DOMAIN calls', j < k
         PROVE  calls'[j].node <= calls'[k].node
    <2>1. CASE k \in 1..L
      BY <1>1, <1>2, <1>5, <1>10, <2>1 DEF CallPath
    <2>2. CASE k = L + 1
      <3>1. j \in 1..L /\ L # 0 /\ L \in 1..L
        BY <1>2, <1>5, <1>10, <2>2
      <3>2. calls[j].node <= calls[L].node
        <4>1. j = L \/ j < L
          BY <1>2, <3>1
        <4>2. j < L => calls[j].node <= calls[L].node
          BY <1>1, <1>2, <3>1 DEF CallPath
        <4>3. QED
          BY <1>1, <1>6, <3>1, <4>1, <4>2
      <3>3. calls[j].node \in Nat /\ calls[L].node \in Nat /\ c.node \in Nat
        BY <1>1, <1>6, <3>1, CallShape
      <3>4. QED
        BY <1>5, <1>7, <2>2, <3>1, <3>2, <3>3
    <2>3. QED
      BY <1>2, <1>5, <2>1, <2>2
  <1>11. QED
    BY <1>4, <1>9, <1>10 DEF CallPath

\* The innermost call ends.
LEMMA CallPopped ==
  ASSUME TypeInv, phase = "parsing", NodesKept, calls # <<>>, calls' = Front(calls)
  PROVE  /\ CallType' /\ CallPath'
         /\ calls' # <<>> => /\ Len(calls) > 1 /\ Len(calls) - 1 \in DOMAIN calls
                             /\ Last(calls)' = calls[Len(calls) - 1] /\ Target' = calls[Len(calls) - 1].node
  <1>1. CallType /\ CallPath
    BY TypeFacts
  <1>2. PICK L \in Nat : L = Len(calls) /\ DOMAIN calls = 1..L /\ L # 0
    BY <1>1 DEF CallType
  <1>3. calls \in Seq(CallIn(DOMAIN nodes'))
    BY <1>1, CallsShape DEF CallType, NodesKept
  <1>4. calls' = SubSeq(calls, 1, L - 1)
    BY <1>2 DEF Front
  <1>5. /\ calls' \in Seq(CallIn(DOMAIN nodes'))
        /\ Len(calls') = L - 1 /\ DOMAIN calls' = 1..(L - 1)
        /\ \A k \in 1..(L - 1) : calls'[k] = calls[k]
    BY <1>2, <1>3, <1>4
  <1>6. \A k \in 1..L : calls[k].node \in DOMAIN nodes
    BY <1>1, <1>2, CallsShape DEF CallType
  <1>7. \A k \in 1..(L - 1) : k \in 1..L /\ (k > 1 => k - 1 \in 1..(L - 1))
    BY <1>2
  <1>8. CallPath'
    <2>1. ASSUME NEW k \in 1..(L - 1)
          PROVE  /\ nodes'[calls'[k].node].kind \in {"element", "reference"}
                 /\ calls'[k].kind = "element" => nodes'[calls'[k].node].kind = "element"
                 /\ k = 1 => calls'[k].kind = "element"
                 /\ k > 1 => \/ /\ nodes'[calls'[k].node].parent = calls'[k - 1].node
                                /\ calls'[k].kind = "entity" => nodes'[calls'[k].node].kind = "reference"
                             \/ calls'[k].kind = "entity" /\ calls'[k].node = calls'[k - 1].node
      <3>1. calls'[k] = calls[k] /\ k \in 1..L /\ calls[k].node \in DOMAIN nodes
        BY <1>5, <1>6, <1>7
      <3>2. k > 1 => calls'[k - 1] = calls[k - 1]
        BY <1>5, <1>7
      <3>3. QED
        BY <1>1, <1>2, <3>1, <3>2 DEF CallPath, NodesKept
    <2>2. \A j, k \in 1..(L - 1) : j < k => calls'[j].node <= calls'[k].node
      <3>1. \A j, k \in 1..L : j < k => calls[j].node <= calls[k].node
        BY <1>1, <1>2 DEF CallPath
      <3>2. QED
        BY <1>5, <1>7, <3>1
    <2>3. QED
      BY <1>5, <2>1, <2>2 DEF CallPath
  <1>9. CallType'
    BY <1>5 DEF CallType
  <1>10. calls' # <<>> => L > 1 /\ L - 1 \in DOMAIN calls /\ L - 1 \in DOMAIN calls'
    BY <1>2, <1>5
  <1>11. Last(calls)' = calls'[L - 1]
    BY <1>5 DEF Last
  <1>12. calls' # <<>> => Target' = Last(calls)'.node
    BY DEF Target
  <1>13. QED
    BY <1>2, <1>5, <1>8, <1>9, <1>10, <1>11, <1>12

\* What was read is a token, and the rest is a text.
LEMMA TokenRead ==
  ASSUME TypeInv, Parsing
  PROVE  /\ phase = "parsing" /\ Token \in AnyToken /\ Tail(input) \in Seq(AnyToken)
         /\ nodes # <<>>
  BY DEF TypeInv, TypeOK, Stages, Parsing, Token

\* A step of the parse that keeps the nodes keeps the state well-typed.
LEMMA ParseTyped ==
  ASSUME TypeInv, phase = "parsing", phase' = "parsing", UNCHANGED <<edited, grown, budget>>,
         input' \in Seq(AnyToken),
         NodesKept, nodes' \in Seq(Node), AllPlaced',
         \A i \in DOMAIN nodes' : nodes'[i].parent # Detached /\ nodes'[i].count = Unfilled,
         CallType', CallPath', EntityRead'
  PROVE  TypeInv'
  <1>1. edited = {} /\ grown = {} /\ nodes # <<>> /\ nodes \in Seq(Node) /\ budget \in Nat
    BY DEF TypeInv, TypeOK, Stages
  <1>2. nodes' # <<>>
    BY <1>1 DEF NodesKept
  <1>3. Stages'
    BY <1>1, <1>2 DEF Stages
  <1>4. \A k \in DOMAIN calls' : calls'[k].kind = "element" => nodes'[calls'[k].node].kind = "element"
    BY DEF CallPath
  <1>5. TypeOK'
    BY <1>1, <1>4 DEF TypeOK, AllPlaced, CallType, CallIn
  <1>6. QED
    BY <1>3, <1>5 DEF TypeInv

\* The children of a node stay its children.
LEMMA ChildrenKept ==
  ASSUME NodesKept
  PROVE  \A i : ChildSet(i) \subseteq ChildSet(i)'
  BY DEF NodesKept, ChildSet

\* A node is added, and the calls stay.
LEMMA ChildAdded ==
  ASSUME TypeInv, Parsing, input' = Tail(input), UNCHANGED <<phase, calls, edited, grown, budget>>,
         NEW T \in Seq(Node), Len(T) = Len(nodes), \A i \in DOMAIN nodes : SameNode(T[i], nodes[i]),
         NEW n \in Node, n.parent = Target, n.count = Unfilled, n.kind # "prolog",
         n.kind = "element" => /\ nodes[Target].kind \in {"prolog", "element"}
                               /\ nodes[Target].prefixes \subseteq n.prefixes,
         nodes' = Append(T, n)
  PROVE  TypeInv'
  <1>1. phase = "parsing" /\ input' \in Seq(AnyToken)
    BY TokenRead
  <1>2. /\ nodes' \in Seq(Node) /\ AllPlaced' /\ NodesKept /\ nodes'[Len(nodes) + 1] = n
        /\ \A i \in DOMAIN nodes' : nodes'[i].parent # Detached /\ nodes'[i].count = Unfilled
        /\ Len(nodes) + 1 \in DOMAIN nodes'
    BY <1>1, TreeGrows
  <1>3. CallType' /\ CallPath'
    BY <1>2, CallsStay
  <1>4. Len(nodes) + 1 \in ChildSet(Target)'
    BY <1>2 DEF ChildSet, Target
  <1>5. EntityRead'
    BY <1>4 DEF EntityRead
  <1>6. QED
    BY <1>1, <1>2, <1>3, <1>5, ParseTyped

\* The node of a tag takes the prefixes of its parent.
LEMMA NewElementIs ==
  ASSUME TypeInv, Parsing, Token.kind \in {"start", "empty"}, TakesElements
  PROVE  LET n == NewElement(Token)
         IN  /\ n \in Node /\ n.kind = "element" /\ n.parent = Target /\ n.count = Unfilled
             /\ nodes[Target].kind \in {"prolog", "element"}
             /\ nodes[Target].prefixes \subseteq n.prefixes
  <1>1. phase = "parsing" /\ Token.tag \in Tags /\ Token.attributes \in Seq(Tags)
    BY TokenRead, TokenShape
  <1>2. /\ Target \in Nat /\ nodes[Target].prefixes \in SUBSET Names
        /\ calls = <<>> => nodes[Target].kind = "prolog"
    BY <1>1, TargetIs
  <1>3. DeclaredBy(Token.attributes) \subseteq Names
    BY <1>1 DEF DeclaredBy, Tags
  <1>4. (Scope \cup DeclaredBy(Token.attributes)) \in SUBSET Names
    BY <1>2, <1>3 DEF Scope
  <1>5. nodes[Target].kind \in {"prolog", "element"}
    BY <1>2 DEF TakesElements, AtTop
  <1>6. PICK prefixes \in SUBSET Names : prefixes = Scope \cup DeclaredBy(Token.attributes)
    BY <1>4
  <1>7. LET n == MakeElement(Target, Token.tag, prefixes)
        IN  /\ n \in Node /\ n.kind = "element" /\ n.parent = Target /\ n.prefixes = prefixes
            /\ n.count = Unfilled
    BY <1>1, <1>2, MakeElementType
  <1>8. NewElement(Token) = MakeElement(Target, Token.tag, prefixes)
    BY <1>6 DEF NewElement
  <1>9. nodes[Target].prefixes \subseteq prefixes
    BY <1>6 DEF Scope
  <1>10. QED
    BY <1>5, <1>7, <1>8, <1>9

\* The nodes as they are, to be followed by a new one.
LEMMA SameNodes ==
  ASSUME TypeInv
  PROVE  nodes \in Seq(Node) /\ \A i \in DOMAIN nodes : SameNode(nodes[i], nodes[i])
  BY TypeFacts DEF SameNode

\* A start tag keeps the state well-typed.
LEMMA StartTagType ==
  ASSUME TypeInv, StartTag
  PROVE  TypeInv'
  <1> DEFINE n == NewElement(Token)
  <1>0. /\ Parsing /\ Token.kind \in {"start", "empty"} /\ TakesElements
        /\ nodes' = Append(nodes, n) /\ calls' = Append(calls, Call("element", Len(nodes) + 1, <<>>))
        /\ input' = Tail(input) /\ UNCHANGED <<phase, edited, grown, budget>>
    BY DEF StartTag, Consume, ParseOnly
  <1>1. /\ n \in Node /\ n.kind = "element" /\ n.parent = Target /\ n.count = Unfilled
        /\ nodes[Target].kind \in {"prolog", "element"} /\ nodes[Target].prefixes \subseteq n.prefixes
    BY <1>0, NewElementIs
  <1> HIDE DEF n
  <1>2. phase = "parsing" /\ input' \in Seq(AnyToken)
    BY <1>0, TokenRead
  <1>3. /\ nodes' \in Seq(Node) /\ AllPlaced' /\ NodesKept /\ nodes'[Len(nodes) + 1] = n
        /\ DOMAIN nodes' = 1..(Len(nodes) + 1)
        /\ \A i \in DOMAIN nodes' : nodes'[i].parent # Detached /\ nodes'[i].count = Unfilled
        /\ Len(nodes) + 1 \in DOMAIN nodes'
    BY <1>0, <1>1, <1>2, SameNodes, TreeGrows
  <1>4. Target \in DOMAIN nodes /\ Len(nodes) \in Nat /\ DOMAIN nodes = 1..Len(nodes)
    BY <1>2, TargetIs, TypeFacts
  <1> DEFINE c == Call("element", Len(nodes) + 1, <<>>)
  <1>5. c \in CallIn(DOMAIN nodes') /\ c.kind = "element" /\ c.node = Len(nodes) + 1
    <2>1. <<>> \in Seq(AnyToken)
      OBVIOUS
    <2>2. QED
      BY <1>3, <2>1 DEF Call, CallIn
  <1>6. calls' = Append(calls, c)
    BY <1>0
  <1> HIDE DEF c
  <1>7. CallType' /\ CallPath'
    <2>1. nodes'[c.node] = n
      BY <1>3, <1>5
    <2>2. Target <= c.node /\ \A i \in DOMAIN nodes' : i \in Nat
      BY <1>3, <1>4, <1>5
    <2>3. QED
      BY <1>1, <1>2, <1>3, <1>5, <1>6, <2>1, <2>2, CallPushed
  <1>8. EntityRead'
    <2>1. calls \in Seq(CallIn(DOMAIN nodes))
      BY TypeFacts DEF CallType
    <2>2. Last(calls)' = c
      <3>1. Len(calls') = Len(calls) + 1 /\ calls'[Len(calls) + 1] = c
        BY <1>6, <2>1
      <3>2. QED
        BY <3>1 DEF Last
    <2>3. QED
      BY <1>5, <2>2 DEF EntityRead
  <1>9. QED
    BY <1>0, <1>2, <1>3, <1>7, <1>8, ParseTyped

\* So does an element that closes itself.
LEMMA EmptyTagType ==
  ASSUME TypeInv, EmptyTag
  PROVE  TypeInv'
  <1> DEFINE n == NewElement(Token)
  <1>0. /\ Parsing /\ Token.kind \in {"start", "empty"} /\ TakesElements
        /\ nodes' = Append(nodes, n)
        /\ input' = Tail(input) /\ UNCHANGED <<phase, calls, edited, grown, budget>>
    BY DEF EmptyTag, Consume, ParseOnly
  <1>1. /\ n \in Node /\ n.kind = "element" /\ n.parent = Target /\ n.count = Unfilled
        /\ nodes[Target].kind \in {"prolog", "element"} /\ nodes[Target].prefixes \subseteq n.prefixes
    BY <1>0, NewElementIs
  <1> HIDE DEF n
  <1>2. QED
    BY <1>0, <1>1, SameNodes, ChildAdded

\* A node with a text.
LEMMA TextNodeIs ==
  ASSUME TypeInv, phase = "parsing",
         NEW kind \in {"reference", "cdata", "comment"}, NEW text \in Seq(Characters)
  PROVE  LET n == MakeNode(kind, Target, text)
         IN  /\ n \in Node /\ n.kind = kind /\ n.parent = Target /\ n.count = Unfilled
             /\ n.kind # "prolog" /\ n.kind # "element"
  <1>1. Target \in Nat
    BY TargetIs
  <1>2. kind \in Kinds /\ kind # "prolog" /\ kind # "element"
    BY DEF Kinds
  <1>3. QED
    BY <1>1, <1>2, MakeNodeType

\* So does a reference of a character.
LEMMA CharacterReferenceType ==
  ASSUME TypeInv, CharacterReference
  PROVE  TypeInv'
  <1>1. /\ Parsing /\ Token.kind = "charref" /\ input' = Tail(input)
        /\ UNCHANGED <<phase, calls, edited, grown, budget>>
        /\ nodes' = Append(nodes, MakeNode("reference", Target, <<Token.char>>))
    BY DEF CharacterReference, Within, Consume, ParseOnly
  <1>2. phase = "parsing" /\ <<Token.char>> \in Seq(Characters)
    BY <1>1, TokenRead, TokenShape
  <1> DEFINE n == MakeNode("reference", Target, <<Token.char>>)
  <1>3. n \in Node /\ n.parent = Target /\ n.count = Unfilled /\ n.kind # "prolog" /\ n.kind # "element"
    BY <1>2, TextNodeIs
  <1>4. nodes' = Append(nodes, n)
    BY <1>1
  <1> HIDE DEF n
  <1>5. QED
    BY <1>1, <1>3, <1>4, SameNodes, ChildAdded

\* So does a comment.
LEMMA CommentType ==
  ASSUME TypeInv, CommentOrPI
  PROVE  TypeInv'
  <1>1. /\ Parsing /\ input' = Tail(input)
        /\ UNCHANGED <<phase, calls, edited, grown, budget>>
        /\ nodes' = Append(nodes, MakeNode("comment", Target, <<>>))
    BY DEF CommentOrPI, Consume, ParseOnly
  <1>2. phase = "parsing" /\ <<>> \in Seq(Characters)
    BY <1>1, TokenRead
  <1> DEFINE n == MakeNode("comment", Target, <<>>)
  <1>3. n \in Node /\ n.parent = Target /\ n.count = Unfilled /\ n.kind # "prolog" /\ n.kind # "element"
    BY <1>2, TextNodeIs
  <1>4. nodes' = Append(nodes, n)
    BY <1>1
  <1> HIDE DEF n
  <1>5. QED
    BY <1>1, <1>3, <1>4, SameNodes, ChildAdded

\* So does a CDATA section, with the mark that it takes.
LEMMA CDataType ==
  ASSUME TypeInv, CDataSection
  PROVE  TypeInv'
  <1> DEFINE T == MarkTrailing(Target, Len(nodes) + 1)
             n == MakeNode("cdata", Target, Token.text)
  <1>1. /\ Parsing /\ Token.kind = "cdata" /\ input' = Tail(input)
        /\ UNCHANGED <<phase, calls, edited, grown, budget>>
        /\ nodes' = Append(T, n)
    BY DEF CDataSection, Within, Consume, ParseOnly
  <1>2. phase = "parsing" /\ Token.text \in Seq(Characters)
    BY <1>1, TokenRead, TokenShape
  <1>3. n \in Node /\ n.parent = Target /\ n.count = Unfilled /\ n.kind # "prolog" /\ n.kind # "element"
    BY <1>2, TextNodeIs
  <1>4. TreeOrdered /\ Target \in Nat /\ Len(nodes) + 1 \in Nat
    BY <1>2, TypeFacts, TargetIs
  <1>5. T \in Seq(Node) /\ Len(T) = Len(nodes) /\ \A i \in DOMAIN nodes : SameNode(T[i], nodes[i])
    BY <1>4, TrailingMarked
  <1> HIDE DEF n, T
  <1>6. QED
    BY <1>1, <1>3, <1>5, ChildAdded

\* What changes but the place of a node does not matter to the calls.
LEMMA NodesMarked ==
  ASSUME TypeInv, phase = "parsing",
         NEW T \in Seq(Node), Len(T) = Len(nodes), \A i \in DOMAIN nodes : SameNode(T[i], nodes[i]),
         nodes' = T
  PROVE  /\ nodes' \in Seq(Node) /\ AllPlaced' /\ NodesKept
         /\ \A i \in DOMAIN nodes' : nodes'[i].parent # Detached /\ nodes'[i].count = Unfilled
  <1>1. /\ nodes \in Seq(Node) /\ AllPlaced /\ Len(nodes) \in Nat /\ DOMAIN nodes = 1..Len(nodes)
        /\ \A i \in DOMAIN nodes : nodes[i].parent # Detached /\ nodes[i].count = Unfilled
    BY TypeFacts DEF TypeInv, Stages
  <1>2. DOMAIN nodes' = DOMAIN nodes /\ nodes' \in Seq(Node) /\ Len(nodes') = Len(nodes)
    BY <1>1
  <1>3. \A i \in DOMAIN nodes : /\ nodes'[i].kind = nodes[i].kind /\ nodes'[i].parent = nodes[i].parent
                                /\ nodes'[i].prefixes = nodes[i].prefixes /\ nodes'[i].count = nodes[i].count
    BY DEF SameNode
  <1>4. AllPlaced'
    BY <1>1, <1>2, <1>3, NodesChanged
  <1>5. QED
    BY <1>1, <1>2, <1>3, <1>4 DEF NodesKept

\* So does a character, whether it joins a content or begins one.
LEMMA CharacterType ==
  ASSUME TypeInv, Character
  PROVE  TypeInv'
  <1> DEFINE T == AddCharacter(Target, Token.char)
             last == LastChild(Target)
             white == Token.char \in White
                      /\ (ChildSet(Target) = {} \/ nodes[last].kind \notin {"cdata", "reference"})
             n == MakeContent(Target, <<Token.char>>, white)
  <1>1. /\ Parsing /\ Token.kind = "char" /\ input' = Tail(input) /\ nodes' = T
        /\ UNCHANGED <<phase, calls, edited, grown, budget>>
    BY DEF Character, Consume, ParseOnly
  <1>2. /\ phase = "parsing" /\ Token.char \in Characters /\ <<Token.char>> \in Seq(Characters)
        /\ input' \in Seq(AnyToken)
    BY <1>1, TokenRead, TokenShape
  <1>3. TreeOrdered /\ Target \in DOMAIN nodes /\ Target \in Nat
    BY <1>2, TypeFacts, TargetIs
  <1>4. \/ T = Append(nodes, n)
        \/ /\ last \in ChildSet(Target)
           /\ T \in Seq(Node) /\ Len(T) = Len(nodes) /\ \A i \in DOMAIN nodes : SameNode(T[i], nodes[i])
    BY <1>2, <1>3, CharacterAdded
  <1>5. CASE T = Append(nodes, n)
    <2>1. PICK w \in BOOLEAN : w = white
      OBVIOUS
    <2>2. PICK p \in Nat, text \in Seq(Characters) : p = Target /\ text = <<Token.char>>
      BY <1>2, <1>3
    <2>3. n \in Node /\ n.kind = "content" /\ n.parent = Target /\ n.count = Unfilled
      <3> DEFINE m == MakeContent(p, text, w)
      <3>1. m \in Node /\ m.kind = "content" /\ m.parent = p /\ m.count = Unfilled
        BY MakeContentType
      <3>2. n = m
        BY <2>1, <2>2
      <3> HIDE DEF m, n
      <3>3. QED
        BY <2>2, <3>1, <3>2
    <2>4. nodes' = Append(nodes, n)
      BY <1>1, <1>5
    <2> HIDE DEF n
    <2>5. QED
      BY <1>1, <2>3, <2>4, SameNodes, ChildAdded
  <1>6. CASE /\ last \in ChildSet(Target)
             /\ T \in Seq(Node) /\ Len(T) = Len(nodes) /\ \A i \in DOMAIN nodes : SameNode(T[i], nodes[i])
    <2> HIDE DEF T, last
    <2>1. /\ nodes' \in Seq(Node) /\ AllPlaced' /\ NodesKept
          /\ \A i \in DOMAIN nodes' : nodes'[i].parent # Detached /\ nodes'[i].count = Unfilled
      BY <1>1, <1>2, <1>6, NodesMarked
    <2>2. CallType' /\ CallPath'
      BY <1>1, <2>1, CallsStay
    <2>3. Target' = Target
      BY <1>1 DEF Target
    <2>4. ChildSet(Target)' # {}
      BY <1>6, <2>1, <2>3, ChildrenKept
    <2>5. EntityRead'
      BY <2>4 DEF EntityRead
    <2>6. QED
      BY <1>1, <1>2, <2>1, <2>2, <2>5, ParseTyped
  <1>7. QED
    BY <1>4, <1>5, <1>6

\* So does an end tag; an entity around the element has the element.
LEMMA EndTagType ==
  ASSUME TypeInv, EndTag
  PROVE  TypeInv'
  <1>1. /\ Parsing /\ calls # <<>> /\ Last(calls).kind = "element" /\ calls' = Front(calls)
        /\ input' = Tail(input) /\ UNCHANGED <<nodes, phase, edited, grown, budget>>
    BY DEF EndTag, Within, AtTop, Closes, Consume, ParseOnly
  <1>2. phase = "parsing" /\ input' \in Seq(AnyToken)
    BY <1>1, TokenRead
  <1>3. /\ nodes' \in Seq(Node) /\ AllPlaced' /\ NodesKept
        /\ \A i \in DOMAIN nodes' : nodes'[i].parent # Detached /\ nodes'[i].count = Unfilled
    BY <1>1, <1>2, SameNodes, NodesMarked
  <1>4. /\ CallType' /\ CallPath'
        /\ calls' # <<>> => /\ Len(calls) > 1 /\ Len(calls) - 1 \in DOMAIN calls
                            /\ Target' = calls[Len(calls) - 1].node
    BY <1>1, <1>2, <1>3, CallPopped
  <1>5. EntityRead'
    <2> SUFFICES ASSUME calls' # <<>> PROVE ChildSet(Target)' # {}
      BY DEF EntityRead
    <2>1. /\ Len(calls) \in DOMAIN calls /\ Len(calls) > 1
          /\ Last(calls) = calls[Len(calls)] /\ Target = calls[Len(calls)].node /\ Target \in DOMAIN nodes
      BY <1>1, <1>2, <1>4, TargetIs
    <2>2. nodes[calls[Len(calls)].node].parent = calls[Len(calls) - 1].node
      BY <1>1, <2>1, TypeFacts DEF CallPath
    <2>3. Target \in ChildSet(Target)'
      BY <1>1, <1>4, <2>1, <2>2 DEF ChildSet
    <2>4. QED
      BY <2>3
  <1>6. QED
    BY <1>1, <1>2, <1>3, <1>4, <1>5, ParseTyped

\* The text of a declared entity is not empty.
LEMMA ReplacementText ==
  ASSUME NEW name \in DOMAIN Replacement
  PROVE  Replacement[name] \in Seq(AnyToken) /\ Replacement[name] # <<>>
  BY ReplacementAssumption

\* So does a reference of an entity.
LEMMA EntityReferenceType ==
  ASSUME TypeInv, EntityReference
  PROVE  TypeInv'
  <1> DEFINE text == Replacement[Token.name]
             own == ~BeginsWithMarkup(text)
             n == MakeNode("reference", Target, <<>>)
             c == Call("entity", IF own THEN Len(nodes) + 1 ELSE Target, Tail(input))
  <1>1. /\ Parsing /\ calls # <<>> /\ Token.name \in DOMAIN Replacement
        /\ nodes' = IF own THEN Append(nodes, n) ELSE nodes
        /\ calls' = Append(calls, c) /\ input' = text
        /\ UNCHANGED <<phase, edited, grown, budget>>
    BY DEF EntityReference, Within, AtTop, ParseOnly
  <1>2. phase = "parsing" /\ Tail(input) \in Seq(AnyToken) /\ text \in Seq(AnyToken) /\ text # <<>>
    BY <1>1, TokenRead, ReplacementText
  <1>3. /\ Target \in DOMAIN nodes /\ Len(nodes) \in Nat /\ DOMAIN nodes = 1..Len(nodes)
        /\ nodes[Target].kind \in {"element", "reference"}
    BY <1>1, <1>2, TargetIs, TypeFacts
  <1>4. n \in Node /\ n.kind = "reference" /\ n.parent = Target /\ n.count = Unfilled
    <2>1. <<>> \in Seq(Characters)
      OBVIOUS
    <2>2. QED
      BY <1>2, <2>1, TextNodeIs
  <1>5. /\ nodes' \in Seq(Node) /\ AllPlaced' /\ NodesKept
        /\ \A i \in DOMAIN nodes' : nodes'[i].parent # Detached /\ nodes'[i].count = Unfilled
        /\ own => /\ nodes'[Len(nodes) + 1] = n /\ Len(nodes) + 1 \in DOMAIN nodes'
        /\ \A i \in DOMAIN nodes' : i \in Nat
    <2> HIDE DEF n, text
    <2>1. CASE own
      <3>1. nodes' = Append(nodes, n) /\ n.kind # "prolog" /\ n.kind # "element"
        BY <1>1, <1>4, <2>1
      <3>2. /\ nodes' \in Seq(Node) /\ AllPlaced' /\ NodesKept /\ nodes'[Len(nodes) + 1] = n
            /\ DOMAIN nodes' = 1..(Len(nodes) + 1)
            /\ \A i \in DOMAIN nodes' : nodes'[i].parent # Detached /\ nodes'[i].count = Unfilled
            /\ Len(nodes) + 1 \in DOMAIN nodes'
        BY <1>2, <1>4, <3>1, SameNodes, TreeGrows
      <3>3. \A i \in DOMAIN nodes' : i \in Nat
        BY <3>2
      <3>4. QED
        BY <3>2, <3>3
    <2>2. CASE ~own
      <3>1. nodes' = nodes
        BY <1>1, <2>2
      <3>2. /\ nodes' \in Seq(Node) /\ AllPlaced' /\ NodesKept
            /\ \A i \in DOMAIN nodes' : nodes'[i].parent # Detached /\ nodes'[i].count = Unfilled
        BY <1>2, <3>1, SameNodes, NodesMarked
      <3>3. \A i \in DOMAIN nodes' : i \in Nat
        BY <1>3, <3>1
      <3>4. QED
        BY <2>2, <3>2, <3>3
    <2>3. QED
      BY <2>1, <2>2
  <1>6. c.kind = "entity" /\ c.node = IF own THEN Len(nodes) + 1 ELSE Target
    BY DEF Call
  <1>7. c \in CallIn(DOMAIN nodes')
    BY <1>2, <1>3, <1>5 DEF Call, CallIn, NodesKept
  <1>8. /\ nodes'[c.node].kind \in {"element", "reference"}
        /\ \/ nodes'[c.node].parent = Target /\ nodes'[c.node].kind = "reference"
           \/ c.node = Target
        /\ Target <= c.node
    <2> HIDE DEF n, c, text
    <2>1. CASE own
      BY <1>3, <1>4, <1>5, <1>6, <2>1
    <2>2. CASE ~own
      BY <1>3, <1>5, <1>6, <2>2 DEF NodesKept
    <2>3. QED
      BY <2>1, <2>2
  <1> HIDE DEF c, n
  <1>9. CallType' /\ CallPath'
    BY <1>1, <1>2, <1>5, <1>6, <1>7, <1>8, CallPushed
  <1>10. EntityRead'
    BY <1>1, <1>2 DEF EntityRead
  <1>11. QED
    BY <1>1, <1>2, <1>5, <1>9, <1>10, ParseTyped

\* A text of an entity has ended.
LEMMA EndOfEntityType ==
  ASSUME TypeInv, EndOfEntity
  PROVE  TypeInv'
  <1> DEFINE receiver == calls[Len(calls) - 1].node
             T == MarkTrailing(receiver, Target)
  <1>1. /\ phase = "parsing" /\ calls # <<>> /\ Last(calls).kind = "entity" /\ input = <<>>
        /\ nodes' = IF Target = receiver THEN nodes ELSE T
        /\ input' = Last(calls).rest /\ calls' = Front(calls)
        /\ UNCHANGED <<phase, edited, grown, budget>>
    BY DEF EndOfEntity, AtTop, ParseOnly
  <1>2. /\ Len(calls) \in DOMAIN calls /\ Len(calls) \in Nat
        /\ Last(calls) = calls[Len(calls)] /\ Target = calls[Len(calls)].node /\ Target \in DOMAIN nodes
        /\ Target \in Nat
    BY <1>1, TargetIs
  <1>3. Len(calls) > 1 /\ Len(calls) - 1 \in DOMAIN calls /\ receiver \in DOMAIN nodes /\ receiver \in Nat
    <2>1. Len(calls) # 1
      BY <1>1, <1>2, TypeFacts DEF CallPath
    <2>2. calls \in Seq(CallIn(DOMAIN nodes)) /\ DOMAIN nodes = 1..Len(nodes)
      BY TypeFacts DEF CallType
    <2>3. Len(calls) > 1 /\ Len(calls) - 1 \in DOMAIN calls
      <3>1. DOMAIN calls = 1..Len(calls)
        BY <2>2
      <3>2. QED
        BY <1>2, <2>1, <3>1
    <2>4. receiver \in DOMAIN nodes
      BY <2>2, <2>3, CallsShape
    <2>5. QED
      BY <2>2, <2>3, <2>4
  <1>4. input' \in Seq(AnyToken)
    <2>1. calls[Len(calls)].rest \in Seq(AnyToken)
      BY <1>2, CallsShape, TypeFacts DEF CallType
    <2>2. QED
      BY <1>1, <1>2, <2>1
  <1>5. TreeOrdered
    BY TypeFacts
  <1>6. T \in Seq(Node) /\ Len(T) = Len(nodes) /\ \A i \in DOMAIN nodes : SameNode(T[i], nodes[i])
    BY <1>2, <1>3, <1>5, TrailingMarked
  <1> HIDE DEF T
  <1>7. /\ nodes' \in Seq(Node) /\ AllPlaced' /\ NodesKept
        /\ \A i \in DOMAIN nodes' : nodes'[i].parent # Detached /\ nodes'[i].count = Unfilled
    <2>1. CASE Target = receiver
      BY <1>1, <2>1, SameNodes, NodesMarked
    <2>2. CASE Target # receiver
      BY <1>1, <1>6, <2>2, NodesMarked
    <2>3. QED
      BY <2>1, <2>2
  <1>8. CallType' /\ CallPath' /\ (calls' # <<>> => Target' = receiver)
    BY <1>1, <1>7, CallPopped
  <1>9. EntityRead'
    <2> SUFFICES ASSUME calls' # <<>> PROVE ChildSet(Target)' # {}
      BY DEF EntityRead
    <2>1. ChildSet(Target) # {}
      BY <1>1 DEF TypeInv, EntityRead
    <2>2. nodes[Target].parent = receiver \/ Target = receiver
      BY <1>2, <1>3, TypeFacts DEF CallPath
    <2>3. CASE Target = receiver
      <3>1. nodes' = nodes /\ Target' = Target
        BY <1>1, <1>8, <2>3
      <3>2. QED
        BY <2>1, <3>1 DEF ChildSet
    <2>4. CASE nodes[Target].parent = receiver
      <3>1. Target \in DOMAIN nodes' /\ nodes'[Target].parent = receiver
        BY <1>2, <1>7, <2>4 DEF NodesKept
      <3>2. QED
        BY <1>8, <3>1 DEF ChildSet
    <2>5. QED
      BY <2>2, <2>3, <2>4
  <1>10. QED
    BY <1>1, <1>4, <1>7, <1>8, <1>9, ParseTyped

\* With no calls in progress little is asked of the nodes.
LEMMA ClientTyped ==
  ASSUME phase' = "parsed", calls' = <<>>, budget' \in Nat, input' \in Seq(AnyToken),
         nodes' \in Seq(Node), nodes' # <<>>, AllPlaced', (edited \cup grown)' \subseteq DOMAIN nodes'
  PROVE  TypeInv'
  <1>1. calls' \in Seq(CallIn(DOMAIN nodes')) /\ DOMAIN calls' = {}
    <2>1. <<>> \in Seq(CallIn(DOMAIN nodes')) /\ DOMAIN <<>> = {}
      OBVIOUS
    <2>2. QED
      BY <2>1
  <1>2. TypeOK'
    BY <1>1 DEF TypeOK, AllPlaced, CallIn
  <1>3. CallPath'
    BY <1>1 DEF CallPath
  <1>4. Stages'
    BY DEF Stages
  <1>5. EntityRead'
    BY DEF EntityRead
  <1>6. QED
    BY <1>2, <1>3, <1>4, <1>5 DEF TypeInv

\* So does the end of the document.
LEMMA EndOfDocumentType ==
  ASSUME TypeInv, EndOfDocument
  PROVE  TypeInv'
  <1>1. /\ phase = "parsing" /\ calls = <<>> /\ phase' = "parsed"
        /\ UNCHANGED <<nodes, input, calls, edited, grown, budget>>
    BY DEF EndOfDocument, AtTop, ParseOnly
  <1>2. nodes # <<>> /\ nodes \in Seq(Node) /\ input \in Seq(AnyToken) /\ budget \in Nat
        /\ (edited \cup grown) \subseteq DOMAIN nodes
    BY <1>1 DEF TypeInv, TypeOK, Stages
  <1>3. AllPlaced'
    BY <1>1, TypeFacts DEF AllPlaced, Placed
  <1>4. QED
    BY <1>1, <1>2, <1>3, ClientTyped

\* So does an exception.
LEMMA RejectType ==
  ASSUME TypeInv, Reject
  PROVE  TypeInv'
  <1>1. /\ phase = "parsing" /\ phase' = "error" /\ nodes' = <<>> /\ calls' = <<>>
        /\ UNCHANGED <<input, edited, grown, budget>>
    BY DEF Reject, ParseOnly
  <1>2. edited = {} /\ grown = {} /\ input \in Seq(AnyToken) /\ budget \in Nat
    BY <1>1 DEF TypeInv, TypeOK, Stages
  <1>3. /\ calls' \in Seq(CallIn(DOMAIN nodes')) /\ DOMAIN calls' = {}
        /\ nodes' \in Seq(Node) /\ DOMAIN nodes' = {}
    <2>1. <<>> \in Seq(CallIn(DOMAIN nodes')) /\ DOMAIN <<>> = {} /\ <<>> \in Seq(Node)
      OBVIOUS
    <2>2. QED
      BY <1>1, <2>1
  <1>4. TypeOK'
    BY <1>1, <1>2, <1>3 DEF TypeOK, CallIn
  <1>5. CallPath' /\ EntityRead'
    BY <1>1, <1>3 DEF CallPath, EntityRead
  <1>6. Stages'
    BY <1>1 DEF Stages
  <1>7. QED
    BY <1>4, <1>5, <1>6 DEF TypeInv

----------------------------------------
\* What the calls of the client do to the nodes.

\* getContents changes only what is kept, and that to what is answered.
LEMMA FilledIs ==
  ASSUME TreeOrdered, NEW i \in DOMAIN nodes
  PROVE  LET T == Filled(i)
         IN  /\ T \in Seq(Node) /\ Len(T) = Len(nodes)
             /\ \A j \in DOMAIN nodes :
                  /\ T[j].kind = nodes[j].kind /\ T[j].parent = nodes[j].parent
                  /\ T[j].prefixes = nodes[j].prefixes /\ T[j].text = nodes[j].text
                  /\ T[j].white = nodes[j].white
                  /\ \/ T[j] = nodes[j]
                     \/ T[j].count = Cardinality(ChildSet(j)) /\ T[j].cached = Answer[j]
  <1> DEFINE T == Filled(i)
             asked(j) == j \in Asked(i) /\ nodes[j].kind = "element"
             read(j) == [nodes[j] EXCEPT !.count = Cardinality(ChildSet(j)), !.cached = Answer[j]]
  <1>1. T = [j \in DOMAIN nodes |-> IF asked(j) THEN read(j) ELSE nodes[j]]
    BY DEF Filled
  <1>2. ASSUME NEW j \in DOMAIN nodes
        PROVE  /\ read(j) \in Node
               /\ read(j).kind = nodes[j].kind /\ read(j).parent = nodes[j].parent
               /\ read(j).prefixes = nodes[j].prefixes /\ read(j).text = nodes[j].text
               /\ read(j).white = nodes[j].white
               /\ read(j).count = Cardinality(ChildSet(j)) /\ read(j).cached = Answer[j]
    <2>1. nodes[j] \in Node /\ j \in Nat
      BY NodesInSequence
    <2>2. Cardinality(ChildSet(j)) \in Nat
      BY <2>1, ChildrenListed
    <2>3. Answer[j] \in Seq(Characters)
      BY ReadingType DEF Answer
    <2>4. read(j) \in Node
      BY <2>1, <2>2, <2>3, NodeShape
    <2>5. QED
      BY <2>1, <2>4 DEF Node
  <1> HIDE DEF T, asked, read
  <1>3. /\ Len(nodes) \in Nat /\ DOMAIN nodes = 1..Len(nodes)
        /\ \A j \in DOMAIN nodes : nodes[j] \in Node
    BY NodesInSequence
  <1>4. T \in Seq(Node) /\ Len(T) = Len(nodes)
    BY <1>1, <1>2, <1>3
  <1>5. \A j \in DOMAIN nodes : T[j] = IF asked(j) THEN read(j) ELSE nodes[j]
    BY <1>1
  <1>6. QED
    BY <1>2, <1>4, <1>5 DEF T

\* A child that is taken away changes nothing but its parent.
LEMMA RemovedIs ==
  ASSUME TreeOrdered, NEW i \in DOMAIN nodes, ChildSet(i) # {}
  PROVE  LET last == LastChild(i)
             T == [nodes EXCEPT ![last].parent = Detached]
         IN  /\ T \in Seq(Node) /\ Len(T) = Len(nodes) /\ last \in ChildSet(i)
             /\ \A j \in DOMAIN nodes :
                  /\ T[j].kind = nodes[j].kind /\ T[j].prefixes = nodes[j].prefixes
                  /\ T[j].parent = IF j = last THEN Detached ELSE nodes[j].parent
  <1> DEFINE last == LastChild(i)
             T == [nodes EXCEPT ![last].parent = Detached]
             new == [nodes[last] EXCEPT !.parent = Detached]
  <1>1. /\ Len(nodes) \in Nat /\ DOMAIN nodes = 1..Len(nodes)
        /\ \A j \in DOMAIN nodes : nodes[j] \in Node
    BY NodesInSequence
  <1>2. last \in ChildSet(i) /\ last \in DOMAIN nodes
    BY <1>1, LastChildIs DEF ChildSet
  <1> HIDE DEF last
  <1>3. T = [nodes EXCEPT ![last] = new]
    BY <1>2
  <1>4. new \in Node /\ nodes[last] \in Node
    BY <1>1, <1>2, NodeShape
  <1>5. new.kind = nodes[last].kind /\ new.prefixes = nodes[last].prefixes /\ new.parent = Detached
    BY <1>4 DEF Node
  <1> HIDE DEF new, T
  <1>6. T \in Seq(Node) /\ Len(T) = Len(nodes) /\ T[last] = new /\ \A j \in DOMAIN nodes : j # last => T[j] = nodes[j]
    BY <1>1, <1>2, <1>3, <1>4 DEF TreeOrdered
  <1>7. \A j \in DOMAIN nodes :
          /\ T[j].kind = nodes[j].kind /\ T[j].prefixes = nodes[j].prefixes
          /\ T[j].parent = IF j = last THEN Detached ELSE nodes[j].parent
    BY <1>5, <1>6
  <1>8. QED
    BY <1>2, <1>6, <1>7 DEF last, T

\* A content that is added to changes nothing but its text.
LEMMA TextAdded ==
  ASSUME TreeOrdered, NEW i \in DOMAIN nodes, NEW char \in Characters
  PROVE  LET T == [nodes EXCEPT ![i].text = Append(@, char)]
         IN  /\ T \in Seq(Node) /\ Len(T) = Len(nodes)
             /\ \A j \in DOMAIN nodes : SameNode(T[j], nodes[j])
  <1> DEFINE T == [nodes EXCEPT ![i].text = Append(@, char)]
             text == Append(nodes[i].text, char)
             new == [nodes[i] EXCEPT !.text = text]
  <1>1. /\ Len(nodes) \in Nat /\ DOMAIN nodes = 1..Len(nodes)
        /\ \A j \in DOMAIN nodes : nodes[j] \in Node
    BY NodesInSequence
  <1>2. T = [nodes EXCEPT ![i] = new]
    OBVIOUS
  <1>3. nodes[i] \in Node /\ nodes[i].text \in Seq(Characters)
    BY <1>1, NodeShape
  <1>4. text \in Seq(Characters)
    BY <1>3
  <1> HIDE DEF text
  <1>5. new \in Node
    BY <1>3, <1>4, NodeShape
  <1>6. SameNode(new, nodes[i])
    BY <1>3 DEF SameNode, Node
  <1> HIDE DEF new, T
  <1>7. T \in Seq(Node) /\ Len(T) = Len(nodes) /\ T[i] = new /\ \A j \in DOMAIN nodes : j # i => T[j] = nodes[j]
    BY <1>1, <1>2, <1>5 DEF TreeOrdered
  <1>8. \A j \in DOMAIN nodes : SameNode(T[j], nodes[j])
    BY <1>6, <1>7 DEF SameNode
  <1>9. QED
    BY <1>7, <1>8 DEF T

\* So does every call of the client.
LEMMA ClientCallType ==
  ASSUME TypeInv, ClientCall
  PROVE  TypeInv'
  <1>1. /\ phase = "parsed" /\ phase' = "parsed" /\ budget > 0 /\ budget' = budget - 1
        /\ UNCHANGED <<input, calls>>
    BY DEF ClientCall
  <1>2. /\ nodes \in Seq(Node) /\ Len(nodes) \in Nat /\ DOMAIN nodes = 1..Len(nodes)
        /\ TreeOrdered /\ AllPlaced
    BY TypeFacts
  <1>3. /\ nodes # <<>> /\ calls = <<>> /\ budget \in Nat /\ input \in Seq(AnyToken)
        /\ (edited \cup grown) \subseteq DOMAIN nodes
    BY <1>1 DEF TypeInv, TypeOK, Stages
  <1>4. calls' = <<>> /\ budget' \in Nat /\ input' \in Seq(AnyToken)
    BY <1>1, <1>3
  <1>5. PICK i \in DOMAIN nodes :
          \/ GetContents(i) \/ RemoveLastChild(i)
          \/ \E char \in Characters : AddChild(i, char) \/ AddContent(i, char)
    BY DEF ClientCall
  <1>6. nodes' \in Seq(Node) /\ nodes' # <<>> /\ AllPlaced' /\ (edited \cup grown)' \subseteq DOMAIN nodes'
    <2>1. CASE GetContents(i)
      <3> DEFINE T == Filled(i)
      <3>1. /\ T \in Seq(Node) /\ Len(T) = Len(nodes)
            /\ \A j \in DOMAIN nodes : /\ T[j].kind = nodes[j].kind /\ T[j].parent = nodes[j].parent
                                       /\ T[j].prefixes = nodes[j].prefixes
        BY <1>2, FilledIs
      <3>2. nodes' = T /\ UNCHANGED <<edited, grown>>
        BY <2>1 DEF GetContents
      <3> HIDE DEF T
      <3>3. nodes' \in Seq(Node) /\ Len(nodes') = Len(nodes) /\ DOMAIN nodes' = DOMAIN nodes
        BY <1>2, <3>1, <3>2
      <3>4. AllPlaced'
        BY <1>2, <3>1, <3>2, <3>3, NodesChanged
      <3>5. QED
        BY <1>2, <1>3, <3>2, <3>3, <3>4
    <2>2. CASE RemoveLastChild(i)
      <3> DEFINE last == LastChild(i)
                 T == [nodes EXCEPT ![last].parent = Detached]
      <3>0. ChildSet(i) # {} /\ nodes' = T /\ edited' = edited \cup {i} /\ grown' = grown
        BY <2>2 DEF RemoveLastChild
      <3>1. /\ T \in Seq(Node) /\ Len(T) = Len(nodes) /\ last \in ChildSet(i)
            /\ \A j \in DOMAIN nodes :
                 /\ T[j].kind = nodes[j].kind /\ T[j].prefixes = nodes[j].prefixes
                 /\ T[j].parent = IF j = last THEN Detached ELSE nodes[j].parent
        BY <1>2, <3>0, RemovedIs
      <3> HIDE DEF T, last
      <3>2. nodes' \in Seq(Node) /\ Len(nodes') = Len(nodes) /\ DOMAIN nodes' = DOMAIN nodes
        BY <1>2, <3>0, <3>1
      <3>3. ASSUME NEW j \in DOMAIN nodes PROVE Placed(j)'
        <4>1. Placed(j) /\ j \in Nat
          BY <1>2 DEF AllPlaced
        <4>2. nodes[j].parent > 0 => nodes[j].parent \in DOMAIN nodes
          BY <1>2, <4>1 DEF Placed, Detached
        <4>3. /\ nodes'[j].kind = nodes[j].kind /\ nodes'[j].prefixes = nodes[j].prefixes
              /\ nodes'[j].parent = IF j = last THEN Detached ELSE nodes[j].parent
          BY <3>0, <3>1
        <4>4. nodes[j].parent > 0 => /\ nodes'[nodes[j].parent].kind = nodes[nodes[j].parent].kind
                                     /\ nodes'[nodes[j].parent].prefixes = nodes[nodes[j].parent].prefixes
          BY <3>0, <3>1, <4>2
        <4>5. CASE j = last
          <5>1. nodes[j].parent = i
            BY <3>1, <4>5 DEF ChildSet
          <5>2. nodes'[j].parent = Detached /\ j # 1 /\ i # 0
            BY <1>2, <4>1, <4>3, <4>5, <5>1 DEF Placed
          <5>3. QED
            BY <4>1, <4>3, <5>2 DEF Placed, Detached
        <4>6. CASE j # last
          BY <4>1, <4>3, <4>4, <4>6 DEF Placed
        <4>7. QED
          BY <4>5, <4>6
      <3>4. AllPlaced'
        BY <3>2, <3>3 DEF AllPlaced
      <3>5. QED
        BY <1>2, <1>3, <3>0, <3>2, <3>4
    <2>3. ASSUME NEW char \in Characters, AddChild(i, char)
          PROVE  nodes' \in Seq(Node) /\ nodes' # <<>> /\ AllPlaced' /\ (edited \cup grown)' \subseteq DOMAIN nodes'
      <3> DEFINE n == MakeContent(i, <<char>>, TRUE)
      <3>1. nodes[i].kind = "element" /\ nodes' = Append(nodes, n) /\ grown' = grown \cup {i} /\ edited' = edited
        BY <2>3 DEF AddChild
      <3>2. n \in Node /\ n.kind = "content" /\ n.parent = i
        <4>1. <<char>> \in Seq(Characters) /\ i \in Nat
          BY <1>2
        <4>2. QED
          BY <4>1, MakeContentType
      <3> HIDE DEF n
      <3>3. /\ nodes' \in Seq(Node) /\ Len(nodes') = Len(nodes) + 1
            /\ \A j \in DOMAIN nodes : j \in DOMAIN nodes'
            /\ AllPlaced'
        BY <1>2, <3>1, <3>2, SameNodes, NodeAppended
      <3>4. QED
        BY <1>2, <1>3, <3>1, <3>3
    <2>4. ASSUME NEW char \in Characters, AddContent(i, char)
          PROVE  nodes' \in Seq(Node) /\ nodes' # <<>> /\ AllPlaced' /\ (edited \cup grown)' \subseteq DOMAIN nodes'
      <3> DEFINE T == [nodes EXCEPT ![i].text = Append(@, char)]
      <3>1. nodes' = T /\ edited' = edited \cup {i} /\ grown' = grown
        BY <2>4 DEF AddContent
      <3>2. T \in Seq(Node) /\ Len(T) = Len(nodes) /\ \A j \in DOMAIN nodes : SameNode(T[j], nodes[j])
        BY <1>2, TextAdded
      <3> HIDE DEF T
      <3>3. nodes' \in Seq(Node) /\ Len(nodes') = Len(nodes) /\ DOMAIN nodes' = DOMAIN nodes
        BY <1>2, <3>1, <3>2
      <3>4. AllPlaced'
        BY <1>2, <3>1, <3>2, <3>3, NodesChanged DEF SameNode
      <3>5. QED
        BY <1>2, <1>3, <3>1, <3>3, <3>4
    <2>5. QED
      BY <1>5, <2>1, <2>2, <2>3, <2>4
  <1>7. QED
    BY <1>1, <1>4, <1>6, ClientTyped

\* The first state is well-typed.
LEMMA InitType == Init => TypeInv
  <1> SUFFICES ASSUME Init PROVE TypeInv
    OBVIOUS
  <1> DEFINE n == MakeNode("prolog", 0, <<>>)
  <1>1. n \in Node /\ n.kind = "prolog" /\ n.parent = 0 /\ n.count = Unfilled /\ nodes = <<n>>
    <2>1. PICK kind \in Kinds, text \in Seq(Characters) : kind = "prolog" /\ text = <<>>
      <3>1. "prolog" \in Kinds
        BY DEF Kinds
      <3>2. <<>> \in Seq(Characters)
        OBVIOUS
      <3>3. QED
        BY <3>1, <3>2
    <2>2. 0 \in Nat
      OBVIOUS
    <2>3. LET m == MakeNode(kind, 0, text)
          IN  m \in Node /\ m.kind = kind /\ m.parent = 0 /\ m.count = Unfilled
      BY <2>2, MakeNodeType
    <2>4. QED
      BY <2>1, <2>3 DEF Init
  <1> HIDE DEF n
  <1>2. nodes \in Seq(Node) /\ DOMAIN nodes = {1} /\ nodes[1] = n /\ nodes # <<>>
    BY <1>1
  <1>3. document \in Seq(AnyToken) /\ budget \in Nat
    BY DocumentsAssumption DEF Init
  <1>4. AllPlaced
    BY <1>1, <1>2 DEF AllPlaced, Placed
  <1>5. calls \in Seq(CallIn(DOMAIN nodes)) /\ DOMAIN calls = {}
    <2>1. <<>> \in Seq(CallIn(DOMAIN nodes)) /\ DOMAIN <<>> = {}
      OBVIOUS
    <2>2. QED
      BY <2>1 DEF Init
  <1>6. phase = "parsing" /\ edited = {} /\ grown = {} /\ input = document /\ calls = <<>>
    BY DEF Init
  <1>7. TypeOK
    BY <1>2, <1>3, <1>4, <1>5, <1>6 DEF TypeOK, AllPlaced, CallIn
  <1>8. Stages
    BY <1>1, <1>2, <1>6 DEF Stages, Detached
  <1>9. CallPath /\ EntityRead
    BY <1>5, <1>6 DEF CallPath, EntityRead
  <1>10. QED
    BY <1>7, <1>8, <1>9 DEF TypeInv

\* Every step keeps it so.
LEMMA NextType == TypeInv /\ [Next]_vars => TypeInv'
  <1> SUFFICES ASSUME TypeInv, [Next]_vars PROVE TypeInv'
    OBVIOUS
  <1>1. CASE Next
    BY <1>1, StartTagType, EmptyTagType, EndTagType, EndOfDocumentType, CharacterType,
       CharacterReferenceType, CDataType, CommentType, EntityReferenceType, EndOfEntityType,
       RejectType, ClientCallType DEF Next
  <1>2. CASE UNCHANGED vars
    BY <1>2 DEF vars, TypeInv, TypeOK, Placed, Stages, CallPath, EntityRead, ChildSet, Target
  <1>3. QED
    BY <1>1, <1>2

\* The state is well-typed.
LEMMA TypeInvariant == Spec => []TypeInv
  BY InitType, NextType, PTL DEF Spec

\* Parents come before their children, an element keeps the prefixes of
\* the one around it, and every call in progress has a node that can
\* receive what it reads (parseElement, parseEntityReferenceXML).
THEOREM TypeCorrect == Spec => []TypeOK
  <1>1. TypeInv => TypeOK
    BY DEF TypeInv
  <1>2. QED
    BY <1>1, TypeInvariant, PTL

----------------------------------------
\* What is kept of the contents is current.

\* Where no element was asked, nothing is kept.
LEMMA NothingKept ==
  (\A i \in DOMAIN nodes : nodes[i].count = Unfilled) => CachesCurrent
  BY DEF CachesCurrent

\* The tree stays; some elements are asked for their contents.
LEMMA CachesFilled ==
  ASSUME TreeOrdered, TreeOrdered', CachesCurrent, UNCHANGED <<edited, grown>>,
         Len(nodes') = Len(nodes),
         \A j \in DOMAIN nodes :
           /\ nodes'[j].kind = nodes[j].kind /\ nodes'[j].parent = nodes[j].parent
           /\ nodes'[j].text = nodes[j].text
           /\ \/ nodes'[j] = nodes[j]
              \/ nodes'[j].count = Cardinality(ChildSet(j)) /\ nodes'[j].cached = Answer[j]
  PROVE  CachesCurrent'
  <1>1. DOMAIN nodes' = DOMAIN nodes /\ DOMAIN nodes = 1..Len(nodes) /\ Len(nodes) \in Nat
    BY DEF TreeOrdered
  <1>2. \A i : ChildSet(i)' = ChildSet(i)
    BY <1>1 DEF ChildSet
  <1> DEFINE K == DOMAIN nodes
  <1>3. /\ K \subseteq DOMAIN nodes /\ K \subseteq DOMAIN nodes'
        /\ \A i \in K : /\ nodes'[i].kind = nodes[i].kind /\ nodes'[i].text = nodes[i].text
                        /\ ChildSet(i)' = ChildSet(i) /\ ChildSet(i) \subseteq K
    BY <1>1, <1>2 DEF ChildSet
  <1>4. \A i \in K : Contents'[i] = Contents[i]
    <2> HIDE DEF K
    <2>1. QED
      BY <1>3, ContentsStay
  <1>5. \A i : Below(i) \subseteq Below(i)'
    BY <1>1, BelowStays
  <1>6. ASSUME edited' = {}, NEW i \in DOMAIN nodes', nodes'[i].kind = "element", nodes'[i].count # Unfilled
        PROVE  /\ nodes'[i].count <= Cardinality(ChildSet(i)')
               /\ nodes'[i].count = Cardinality(ChildSet(i)') /\ Below(i)' \cap grown' = {} =>
                    nodes'[i].cached = Contents'[i]
    <2>1. i \in DOMAIN nodes /\ i \in Nat /\ edited = {} /\ grown' = grown /\ nodes[i].kind = "element"
      BY <1>1, <1>6
    <2>2. ChildSet(i)' = ChildSet(i) /\ Contents'[i] = Contents[i] /\ Below(i) \subseteq Below(i)'
      BY <1>2, <1>4, <1>5, <2>1
    <2>3. Cardinality(ChildSet(i)) \in Nat
      BY <2>1, ChildrenListed
    <2>4. CASE nodes'[i] = nodes[i]
      <3>1. /\ nodes[i].count <= Cardinality(ChildSet(i))
            /\ nodes[i].count = Cardinality(ChildSet(i)) /\ Below(i) \cap grown = {} =>
                 nodes[i].cached = Contents[i]
        BY <1>6, <2>1, <2>4 DEF CachesCurrent
      <3>2. Below(i)' \cap grown' = {} => Below(i) \cap grown = {}
        BY <2>1, <2>2
      <3>3. QED
        BY <2>2, <2>4, <3>1, <3>2
    <2>5. CASE nodes'[i].count = Cardinality(ChildSet(i)) /\ nodes'[i].cached = Answer[i]
      <3>1. Below(i) \cap grown = {} => Answer[i] = Contents[i]
        BY <2>1, AnswersCurrent
      <3>2. Below(i)' \cap grown' = {} => Below(i) \cap grown = {}
        BY <2>1, <2>2
      <3>3. QED
        BY <2>2, <2>3, <2>5, <3>1, <3>2
    <2>6. QED
      BY <2>1, <2>4, <2>5
  <1>7. QED
    BY <1>6 DEF CachesCurrent

\* The nodes below a node.
BelowIsClosed ==
  \A i \in DOMAIN nodes : \A c \in ChildSet(i) : c \in Below(i) /\ Below(c) \subseteq Below(i)

\* The nodes below a child are below its parent.
LEMMA BelowClosed == TreeOrdered => BelowIsClosed
  BY BelowChildren DEF BelowIsClosed

\* An element is given a child: what it keeps is not for as many, and an
\* element around it has one below it that has grown.
LEMMA CachesOutgrown ==
  ASSUME TreeOrdered, TreeOrdered', CachesCurrent, NEW p \in DOMAIN nodes,
         edited' = edited, grown' = grown \cup {p},
         NEW n, n.parent = p, n.kind = "content", nodes' = Append(nodes, n)
  PROVE  CachesCurrent'
  <1>1. /\ Len(nodes) \in Nat /\ DOMAIN nodes = 1..Len(nodes)
        /\ DOMAIN nodes' = 1..(Len(nodes) + 1)
        /\ \A i \in DOMAIN nodes : nodes'[i] = nodes[i] /\ i \in DOMAIN nodes' /\ i \in Nat
        /\ nodes'[Len(nodes) + 1] = n
    BY DEF TreeOrdered
  <1>2. ChildSet(p)' = ChildSet(p) \cup {Len(nodes) + 1} /\ Len(nodes) + 1 \notin ChildSet(p)
    BY <1>1 DEF ChildSet
  <1>3. \A i : i # p => ChildSet(i)' = ChildSet(i)
    BY <1>1 DEF ChildSet
  <1>4. BelowIsClosed'
    BY BelowClosed, PTL
  <1> DEFINE K == {i \in DOMAIN nodes : i # p /\ p \notin Below(i)'}
  <1>5. /\ K \subseteq DOMAIN nodes /\ K \subseteq DOMAIN nodes'
        /\ \A i \in K : /\ nodes'[i].kind = nodes[i].kind /\ nodes'[i].text = nodes[i].text
                        /\ ChildSet(i)' = ChildSet(i) /\ ChildSet(i) \subseteq K
    <2>1. ASSUME NEW i \in K, NEW c \in ChildSet(i)
          PROVE  c \in K
      <3>1. c \in DOMAIN nodes /\ c \in ChildSet(i)' /\ i \in DOMAIN nodes'
        BY <1>1, <1>3, <2>1 DEF ChildSet
      <3>2. c \in Below(i)' /\ Below(c)' \subseteq Below(i)'
        BY <1>4, <3>1 DEF BelowIsClosed
      <3>3. QED
        BY <2>1, <3>1, <3>2
    <2>2. QED
      BY <1>1, <1>3, <2>1
  <1>6. \A i \in K : Contents'[i] = Contents[i]
    <2> HIDE DEF K
    <2>1. QED
      BY <1>5, ContentsStay
  <1>7. \A i : Below(i) \subseteq Below(i)'
    <2>1. DOMAIN nodes \subseteq DOMAIN nodes' /\ \A i \in DOMAIN nodes : nodes'[i].parent = nodes[i].parent
      BY <1>1
    <2>2. QED
      BY <2>1, BelowStays
  <1>8. ASSUME edited' = {}, NEW i \in DOMAIN nodes', nodes'[i].kind = "element", nodes'[i].count # Unfilled
        PROVE  /\ nodes'[i].count <= Cardinality(ChildSet(i)')
               /\ nodes'[i].count = Cardinality(ChildSet(i)') /\ Below(i)' \cap grown' = {} =>
                    nodes'[i].cached = Contents'[i]
    <2>1. i \in DOMAIN nodes /\ i \in Nat /\ edited = {} /\ nodes'[i] = nodes[i]
      BY <1>1, <1>8
    <2>2. /\ nodes[i].count <= Cardinality(ChildSet(i))
          /\ nodes[i].count = Cardinality(ChildSet(i)) /\ Below(i) \cap grown = {} =>
               nodes[i].cached = Contents[i]
      BY <1>8, <2>1 DEF CachesCurrent
    <2>3. nodes[i].count \in Nat
      <3>1. nodes[i] \in Node
        BY <2>1, NodesInSequence
      <3>2. QED
        BY <1>8, <2>1, <3>1, NodeShape
    <2>4. IsFiniteSet(ChildSet(i)) /\ Cardinality(ChildSet(i)) \in Nat
      BY <2>1, ChildrenListed
    <2>5. CASE i = p
      <3>1. Cardinality(ChildSet(i)') = Cardinality(ChildSet(i)) + 1
        BY <1>2, <2>4, <2>5, FS_AddElement
      <3>2. QED
        BY <2>1, <2>2, <2>3, <2>4, <3>1
    <2>6. CASE i # p
      <3>1. ChildSet(i)' = ChildSet(i)
        BY <1>3, <2>6
      <3>2. ASSUME Below(i)' \cap grown' = {}
            PROVE  Below(i) \cap grown = {} /\ Contents'[i] = Contents[i]
        <4>1. Below(i) \cap grown = {} /\ p \notin Below(i)'
          BY <1>7, <3>2
        <4>2. i \in K
          BY <2>1, <2>6, <4>1
        <4>3. QED
          BY <1>6, <4>1, <4>2
      <3>3. QED
        BY <2>1, <2>2, <3>1, <3>2
    <2>7. QED
      BY <2>5, <2>6
  <1>9. QED
    BY <1>8 DEF CachesCurrent

\* In a well-typed state the tree is ordered.
LEMMA TypeIsOrdered == TypeInv => TreeOrdered
  BY TypeFacts

\* At first nothing is kept.
LEMMA InitCaches == Init => CachesCurrent
  <1> SUFFICES ASSUME Init PROVE CachesCurrent
    OBVIOUS
  <1>1. TypeInv /\ phase = "parsing"
    BY InitType DEF Init
  <1>2. QED
    BY <1>1, NothingKept DEF TypeInv, Stages

\* Every step keeps what is kept current.
LEMMA NextCaches == TypeInv /\ TypeInv' /\ CachesCurrent /\ [Next]_vars => CachesCurrent'
  <1> SUFFICES ASSUME TypeInv, TypeInv', CachesCurrent, [Next]_vars PROVE CachesCurrent'
    OBVIOUS
  <1>1. TreeOrdered /\ TreeOrdered'
    BY TypeIsOrdered, PTL
  <1>2. (\A i \in DOMAIN nodes' : nodes'[i].count = Unfilled) => CachesCurrent'
    BY DEF CachesCurrent
  <1>3. CASE phase' # "parsed"
    <2>1. phase' \in {"parsing", "parsed", "error"} /\ Stages'
      BY DEF TypeInv, TypeOK
    <2>2. QED
      BY <1>2, <1>3, <2>1 DEF Stages
  <1>4. CASE phase # "parsed" /\ phase' = "parsed"
    <2>1. EndOfDocument
      BY <1>4 DEF Next, vars, StartTag, EmptyTag, EndTag, Character, CharacterReference, CDataSection,
         CommentOrPI, EntityReference, EndOfEntity, Reject, ClientCall
    <2>2. nodes' = nodes /\ phase = "parsing"
      BY <2>1 DEF EndOfDocument
    <2>3. QED
      BY <1>2, <2>2 DEF TypeInv, Stages
  <1>5. CASE phase = "parsed" /\ phase' = "parsed"
    <2>1. ClientCall \/ UNCHANGED vars
      BY <1>5 DEF Next, Parsing, StartTag, EmptyTag, EndTag, EndOfDocument, Character, CharacterReference,
         CDataSection, CommentOrPI, EntityReference, EndOfEntity, Within, Reject
    <2>2. CASE UNCHANGED vars
      BY <1>1, <2>2, CachesFilled DEF vars
    <2>3. CASE ClientCall
      <3>1. PICK i \in DOMAIN nodes :
              \/ GetContents(i) \/ RemoveLastChild(i)
              \/ \E char \in Characters : AddChild(i, char) \/ AddContent(i, char)
        BY <2>3 DEF ClientCall
      <3>2. CASE GetContents(i)
        <4> DEFINE T == Filled(i)
        <4>1. /\ Len(T) = Len(nodes)
              /\ \A j \in DOMAIN nodes :
                   /\ T[j].kind = nodes[j].kind /\ T[j].parent = nodes[j].parent
                   /\ T[j].text = nodes[j].text
                   /\ \/ T[j] = nodes[j]
                      \/ T[j].count = Cardinality(ChildSet(j)) /\ T[j].cached = Answer[j]
          BY <1>1, FilledIs
        <4>2. nodes' = T /\ UNCHANGED <<edited, grown>>
          BY <3>2 DEF GetContents
        <4> HIDE DEF T
        <4>3. QED
          BY <1>1, <4>1, <4>2, CachesFilled
      <3>3. CASE RemoveLastChild(i)
        BY <3>3 DEF RemoveLastChild, CachesCurrent
      <3>4. ASSUME NEW char \in Characters, AddChild(i, char)
            PROVE  CachesCurrent'
        <4> DEFINE n == MakeContent(i, <<char>>, TRUE)
        <4>1. nodes' = Append(nodes, n) /\ grown' = grown \cup {i} /\ edited' = edited
          BY <3>4 DEF AddChild
        <4>2. n.kind = "content" /\ n.parent = i
          <5>1. <<char>> \in Seq(Characters) /\ i \in Nat
            BY <1>1, NodesInSequence
          <5>2. QED
            BY <5>1, MakeContentType
        <4> HIDE DEF n
        <4>3. QED
          BY <1>1, <4>1, <4>2, CachesOutgrown
      <3>5. ASSUME NEW char \in Characters, AddContent(i, char)
            PROVE  CachesCurrent'
        BY <3>5 DEF AddContent, CachesCurrent
      <3>6. QED
        BY <3>1, <3>2, <3>3, <3>4, <3>5
    <2>4. QED
      BY <2>1, <2>2, <2>3
  <1>6. QED
    BY <1>3, <1>4, <1>5

\* What getContents answers is the text of the tree, however reads and
\* additions have come before, while no text was changed, no child was
\* taken away and no element in this one was given a child
\* (Element::getContents).
THEOREM ContentsCorrect == Spec => []ContentsCurrent
  <1>1. TypeInv /\ CachesCurrent => ContentsCurrent
    BY TypeFacts, AnswersCurrent DEF ContentsCurrent
  <1>2. Spec => []CachesCurrent
    BY InitCaches, NextCaches, TypeInvariant, PTL DEF Spec
  <1>3. QED
    BY <1>1, <1>2, TypeInvariant, PTL

----------------------------------------
\* The marks of white space.

\* The node of a call in progress.
OpenNow(j) == \E k \in DOMAIN calls : calls[k].node = j

\* A node that takes the mark of the content before it: the node of an
\* entity does when its text has ended.
Parts(j) ==
  nodes[j].kind = "cdata" \/ (nodes[j].kind = "reference" /\ ChildSet(j) # {} /\ ~OpenNow(j))

\* The mark of a content while there are calls in progress.
MarkedSoFar(i) ==
  /\ IsWhite(nodes[i].text)
  /\ \A j \in DOMAIN nodes : j < i /\ Neighbour(j, i) => nodes[j].kind \notin {"cdata", "reference"}
  /\ \A j \in DOMAIN nodes : i < j /\ Neighbour(i, j) => ~Parts(j)

\* The marks are right.
WhiteSoFar ==
  edited = {} /\ grown = {} =>
    \A i \in DOMAIN nodes : nodes[i].kind = "content" => (nodes[i].white <=> MarkedSoFar(i))

\* A text with one more character.
LEMMA WhiteAppended ==
  ASSUME NEW text \in Seq(Characters), NEW char \in Characters
  PROVE  /\ IsWhite(Append(text, char)) <=> IsWhite(text) /\ char \in White
         /\ IsWhite(<<char>>) <=> char \in White
  <1>1. /\ DOMAIN Append(text, char) = 1..(Len(text) + 1)
        /\ DOMAIN text = 1..Len(text) /\ Len(text) \in Nat
        /\ Append(text, char)[Len(text) + 1] = char
        /\ \A k \in 1..Len(text) : Append(text, char)[k] = text[k]
    OBVIOUS
  <1>2. DOMAIN <<char>> = {1} /\ <<char>>[1] = char
    OBVIOUS
  <1>3. \A k \in 1..(Len(text) + 1) : k \in 1..Len(text) \/ k = Len(text) + 1
    BY <1>1
  <1>4. Len(text) + 1 \in 1..(Len(text) + 1) /\ 1..Len(text) \subseteq 1..(Len(text) + 1)
    BY <1>1
  <1>5. IsWhite(Append(text, char)) <=> IsWhite(text) /\ char \in White
    BY <1>1, <1>3, <1>4 DEF IsWhite
  <1>6. QED
    BY <1>2, <1>5 DEF IsWhite

\* Nodes that keep their parents keep their neighbours.
LEMMA SameNeighbours ==
  ASSUME DOMAIN nodes' = DOMAIN nodes, \A i \in DOMAIN nodes : nodes'[i].parent = nodes[i].parent
  PROVE  /\ \A i : ChildSet(i)' = ChildSet(i)
         /\ \A i, j \in DOMAIN nodes : Neighbour(i, j)' <=> Neighbour(i, j)
  <1>1. \A i : ChildSet(i)' = ChildSet(i)
    BY DEF ChildSet
  <1>2. ASSUME NEW i \in DOMAIN nodes, NEW j \in DOMAIN nodes
        PROVE  Neighbour(i, j)' <=> Neighbour(i, j)
    <2>1. nodes'[i].parent = nodes[i].parent /\ nodes'[j].parent = nodes[j].parent
      OBVIOUS
    <2>2. \A k \in DOMAIN nodes : nodes'[k].parent = nodes'[i].parent <=> nodes[k].parent = nodes[i].parent
      BY <2>1
    <2>3. QED
      BY <2>1, <2>2 DEF Neighbour, ChildSet
  <1>3. QED
    BY <1>1, <1>2

\* Nothing that a mark depends on has changed.
LEMMA WhiteKept ==
  ASSUME WhiteSoFar, UNCHANGED <<edited, grown>>, DOMAIN nodes' = DOMAIN nodes,
         \A i \in DOMAIN nodes :
           /\ nodes'[i].kind = nodes[i].kind /\ nodes'[i].parent = nodes[i].parent
           /\ nodes'[i].text = nodes[i].text /\ nodes'[i].white = nodes[i].white
           /\ nodes[i].kind = "reference" => (OpenNow(i)' <=> OpenNow(i))
  PROVE  WhiteSoFar'
  <1>1. /\ \A i : ChildSet(i)' = ChildSet(i)
        /\ \A i, j \in DOMAIN nodes : Neighbour(i, j)' <=> Neighbour(i, j)
    BY SameNeighbours
  <1>2. \A j \in DOMAIN nodes : Parts(j)' <=> Parts(j)
    BY <1>1 DEF Parts
  <1>3. \A i \in DOMAIN nodes : MarkedSoFar(i)' <=> MarkedSoFar(i)
    BY <1>1, <1>2 DEF MarkedSoFar
  <1>4. QED
    BY <1>3 DEF WhiteSoFar

\* A new node is a neighbour of the child that was the last.
LEMMA NewNeighbour ==
  ASSUME TreeOrdered, NEW p \in DOMAIN nodes, NEW N \in Nat, N = Len(nodes),
         DOMAIN nodes' = 1..(N + 1),
         \A i \in DOMAIN nodes : nodes'[i].parent = nodes[i].parent,
         nodes'[N + 1].parent = p
  PROVE  /\ \A i \in DOMAIN nodes : i # p => ChildSet(i)' = ChildSet(i)
         /\ ChildSet(N + 1)' = {}
         /\ \A i, j \in DOMAIN nodes : i < j => (Neighbour(i, j)' <=> Neighbour(i, j))
         /\ \A i \in DOMAIN nodes :
              Neighbour(i, N + 1)' <=> ChildSet(p) # {} /\ i = LastChild(p)
  <1>1. N = Len(nodes) /\ DOMAIN nodes = 1..N /\ DOMAIN nodes' = 1..(N + 1)
    BY NodesInSequence
  <1>2. \A i \in 1..N : nodes[i].parent \in {Detached} \cup 0..(i - 1)
    BY <1>1 DEF TreeOrdered
  <1>3. \A i \in 1..(N + 1) : i \in 1..N \/ i = N + 1
    BY <1>1
  <1>4. ChildSet(p)' = ChildSet(p) \cup {N + 1} /\ ChildSet(p) \subseteq 1..N
    BY <1>1, <1>3 DEF ChildSet
  <1>5. \A i : i # p => ChildSet(i)' = ChildSet(i)
    BY <1>1, <1>3 DEF ChildSet
  <1>6. ChildSet(N + 1)' = {}
    <2>1. N + 1 # p
      BY <1>1
    <2>2. \A i \in 1..N : nodes[i].parent # N + 1
      BY <1>1, <1>2 DEF Detached
    <2>3. QED
      BY <1>1, <1>5, <2>1, <2>2 DEF ChildSet
  <1>7. ASSUME NEW i \in DOMAIN nodes, NEW j \in DOMAIN nodes, i < j
        PROVE  Neighbour(i, j)' <=> Neighbour(i, j)
    <2> DEFINE q == nodes[i].parent
    <2>1. nodes'[i].parent = q /\ nodes'[j].parent = nodes[j].parent
      OBVIOUS
    <2>2. \A k : i < k /\ k < j => (k \in ChildSet(q)' <=> k \in ChildSet(q))
      <3>1. ASSUME NEW k, i < k, k < j PROVE k # N + 1 \/ k \notin ChildSet(p)'
        BY <1>1, <1>7, <3>1
      <3>2. CASE q = p
        <4>1. ChildSet(q)' = ChildSet(p)'
          BY <3>2 DEF ChildSet
        <4>2. ChildSet(q)' = ChildSet(q) \cup {N + 1}
          BY <1>4, <3>2, <4>1
        <4>3. \A k : i < k /\ k < j => k # N + 1
          BY <1>1, <1>7
        <4>4. QED
          BY <4>2, <4>3
      <3>3. CASE q # p
        BY <1>1, <1>3, <3>3 DEF ChildSet
      <3>4. QED
        BY <3>2, <3>3
    <2>3. QED
      BY <2>1, <2>2 DEF Neighbour, ChildSet
  <1>8. ASSUME NEW i \in DOMAIN nodes
        PROVE  Neighbour(i, N + 1)' <=> ChildSet(p) # {} /\ i = LastChild(p)
    <2>1. /\ ChildSet(p) # {} => /\ LastChild(p) \in ChildSet(p)
                                 /\ \A j \in ChildSet(p) : j <= LastChild(p)
      BY <1>1, LastChildIs
    <2>2. Neighbour(i, N + 1)' <=> /\ nodes[i].parent = p
                                   /\ ~\E k \in ChildSet(p)' : i < k /\ k < N + 1
      BY <1>1 DEF Neighbour, ChildSet
    <2>3. (\E k \in ChildSet(p)' : i < k /\ k < N + 1) <=> \E k \in ChildSet(p) : i < k
      BY <1>1, <1>4
    <2>4. nodes[i].parent = p <=> i \in ChildSet(p)
      BY DEF ChildSet
    <2>5. QED
      BY <1>1, <1>4, <2>1, <2>2, <2>3, <2>4
  <1>9. QED
    BY <1>5, <1>6, <1>7, <1>8

\* A node is added to the target: it may part the last child from what
\* follows, and is parted by it.
LEMMA MarksGrow ==
  ASSUME TypeInv, phase = "parsing",
         NEW N \in Nat, N = Len(nodes), NEW p \in DOMAIN nodes, p = Target,
         DOMAIN nodes' = 1..(N + 1), nodes'[N + 1].parent = p,
         \A i \in DOMAIN nodes : /\ nodes'[i].kind = nodes[i].kind /\ nodes'[i].parent = nodes[i].parent
                                 /\ nodes'[i].text = nodes[i].text,
         \A i \in DOMAIN nodes : nodes[i].kind = "reference" => (OpenNow(i)' <=> OpenNow(i))
  PROVE  /\ \A i \in DOMAIN nodes :
              MarkedSoFar(i)' <=>
                MarkedSoFar(i) /\ ~(nodes'[N + 1].kind = "cdata" /\ ChildSet(p) # {} /\ i = LastChild(p))
         /\ MarkedSoFar(N + 1)' <=>
              /\ IsWhite(nodes'[N + 1].text)
              /\ ChildSet(p) = {} \/ nodes[LastChild(p)].kind \notin {"cdata", "reference"}
  <1>1. TreeOrdered /\ DOMAIN nodes = 1..N
    BY TypeFacts
  <1>2. /\ \A i \in DOMAIN nodes : i \in DOMAIN nodes' /\ i < N + 1 /\ ~(N + 1 < i)
        /\ \A i \in DOMAIN nodes' : i \in DOMAIN nodes \/ i = N + 1
        /\ N + 1 \in DOMAIN nodes' /\ ~(N + 1 < N + 1)
    BY <1>1
  <1>3. /\ \A i \in DOMAIN nodes : i # p => ChildSet(i)' = ChildSet(i)
        /\ ChildSet(N + 1)' = {}
        /\ \A i, j \in DOMAIN nodes : i < j => (Neighbour(i, j)' <=> Neighbour(i, j))
        /\ \A i \in DOMAIN nodes :
             Neighbour(i, N + 1)' <=> ChildSet(p) # {} /\ i = LastChild(p)
    BY <1>1, NewNeighbour
  <1>4. nodes[p].kind = "reference" => OpenNow(p)
    <2>1. calls = <<>> => nodes[p].kind = "prolog"
      BY TargetIs
    <2>2. calls # <<>> => Len(calls) \in DOMAIN calls /\ calls[Len(calls)].node = p
      BY TargetIs
    <2>3. QED
      BY <2>1, <2>2 DEF OpenNow
  <1>5. ASSUME NEW j \in DOMAIN nodes
        PROVE  Parts(j)' <=> Parts(j)
    <2>1. nodes'[j].kind = nodes[j].kind
      OBVIOUS
    <2>2. nodes[j].kind = "reference" => (OpenNow(j)' <=> OpenNow(j))
      OBVIOUS
    <2>3. CASE j # p
      <3>1. ChildSet(j)' = ChildSet(j)
        BY <1>3, <2>3
      <3>2. QED
        BY <2>1, <2>2, <3>1 DEF Parts
    <2>4. CASE j = p
      <3>1. nodes[j].kind = "reference" => OpenNow(j)
        BY <1>4, <2>4
      <3>2. QED
        BY <2>1, <2>2, <3>1 DEF Parts
    <2>5. QED
      BY <2>3, <2>4
  <1>6. Parts(N + 1)' <=> nodes'[N + 1].kind = "cdata"
    BY <1>3 DEF Parts
  <1>7. ASSUME NEW i \in DOMAIN nodes
        PROVE  MarkedSoFar(i)' <=>
                 MarkedSoFar(i) /\ ~(nodes'[N + 1].kind = "cdata" /\ ChildSet(p) # {} /\ i = LastChild(p))
    <2>1. nodes'[i].text = nodes[i].text
      OBVIOUS
    <2>2. (\A j \in DOMAIN nodes' : j < i /\ Neighbour(j, i)' => nodes'[j].kind \notin {"cdata", "reference"})
          <=> \A j \in DOMAIN nodes : j < i /\ Neighbour(j, i) => nodes[j].kind \notin {"cdata", "reference"}
      <3>1. \A j \in DOMAIN nodes :
              (j < i /\ Neighbour(j, i)' => nodes'[j].kind \notin {"cdata", "reference"})
              <=> (j < i /\ Neighbour(j, i) => nodes[j].kind \notin {"cdata", "reference"})
        BY <1>3
      <3>2. QED
        BY <1>2, <3>1
    <2>3. (\A j \in DOMAIN nodes' : i < j /\ Neighbour(i, j)' => ~Parts(j)')
          <=> /\ \A j \in DOMAIN nodes : i < j /\ Neighbour(i, j) => ~Parts(j)
              /\ ~(nodes'[N + 1].kind = "cdata" /\ ChildSet(p) # {} /\ i = LastChild(p))
      <3>1. \A j \in DOMAIN nodes : (i < j /\ Neighbour(i, j)' => ~Parts(j)')
                                    <=> (i < j /\ Neighbour(i, j) => ~Parts(j))
        BY <1>3, <1>5
      <3>2. (i < N + 1 /\ Neighbour(i, N + 1)' => ~Parts(N + 1)')
            <=> ~(nodes'[N + 1].kind = "cdata" /\ ChildSet(p) # {} /\ i = LastChild(p))
        BY <1>2, <1>3, <1>6
      <3>3. QED
        BY <1>2, <3>1, <3>2
    <2>4. QED
      BY <2>1, <2>2, <2>3 DEF MarkedSoFar
  <1>8. MarkedSoFar(N + 1)' <=>
           /\ IsWhite(nodes'[N + 1].text)
           /\ ChildSet(p) = {} \/ nodes[LastChild(p)].kind \notin {"cdata", "reference"}
    <2>1. ChildSet(p) # {} => LastChild(p) \in DOMAIN nodes
      BY <1>1, LastChildIs DEF ChildSet
    <2>2. (\A j \in DOMAIN nodes' : j < N + 1 /\ Neighbour(j, N + 1)' => nodes'[j].kind \notin {"cdata", "reference"})
          <=> \A j \in DOMAIN nodes : ChildSet(p) # {} /\ j = LastChild(p) =>
                                      nodes[j].kind \notin {"cdata", "reference"}
      <3>1. \A j \in DOMAIN nodes :
              (j < N + 1 /\ Neighbour(j, N + 1)' => nodes'[j].kind \notin {"cdata", "reference"})
              <=> (ChildSet(p) # {} /\ j = LastChild(p) => nodes[j].kind \notin {"cdata", "reference"})
        BY <1>2, <1>3
      <3>2. QED
        BY <1>2, <3>1
    <2>3. (\A j \in DOMAIN nodes : ChildSet(p) # {} /\ j = LastChild(p) =>
                                   nodes[j].kind \notin {"cdata", "reference"})
          <=> ChildSet(p) = {} \/ nodes[LastChild(p)].kind \notin {"cdata", "reference"}
      BY <2>1
    <2>4. \A j \in DOMAIN nodes' : ~(N + 1 < j)
      BY <1>2
    <2>5. QED
      BY <2>2, <2>3, <2>4 DEF MarkedSoFar
  <1>9. QED
    BY <1>7, <1>8

\* A sequence that grows.
LEMMA Appended ==
  ASSUME NEW S, NEW seq \in Seq(S), NEW n \in S, NEW longer, longer = Append(seq, n),
         NEW N \in Nat, N = Len(seq)
  PROVE  /\ DOMAIN longer = 1..(N + 1) /\ longer[N + 1] = n
         /\ \A i \in 1..N : longer[i] = seq[i]
         /\ \A i \in DOMAIN longer : i \in 1..N \/ i = N + 1
  OBVIOUS

\* So the marks stay right when a node is added.
LEMMA WhiteGrows ==
  ASSUME TypeInv, WhiteSoFar, phase = "parsing", UNCHANGED <<edited, grown>>,
         NEW T \in Seq(Node), Len(T) = Len(nodes), NEW n \in Node, n.parent = Target,
         nodes' = Append(T, n),
         \A i \in DOMAIN nodes :
           /\ T[i].kind = nodes[i].kind /\ T[i].parent = nodes[i].parent /\ T[i].text = nodes[i].text
           /\ T[i].white <=> /\ nodes[i].white
                             /\ ~(/\ n.kind = "cdata" /\ nodes[i].kind = "content"
                                  /\ ChildSet(Target) # {} /\ i = LastChild(Target)),
         \A i \in DOMAIN nodes : nodes[i].kind = "reference" => (OpenNow(i)' <=> OpenNow(i)),
         n.kind = "content" =>
           (n.white <=> /\ IsWhite(n.text)
                        /\ \/ ChildSet(Target) = {}
                           \/ nodes[LastChild(Target)].kind \notin {"cdata", "reference"})
  PROVE  WhiteSoFar'
  <1>1. PICK N \in Nat : N = Len(nodes) /\ DOMAIN nodes = 1..N
    BY TypeFacts
  <1>2. PICK p \in DOMAIN nodes : p = Target
    BY TargetIs
  <1>3. /\ DOMAIN nodes' = 1..(N + 1) /\ nodes'[N + 1] = n
        /\ \A i \in DOMAIN nodes : nodes'[i] = T[i]
        /\ \A i \in DOMAIN nodes' : i \in DOMAIN nodes \/ i = N + 1
    BY <1>1, Appended
  <1>4. \A i \in DOMAIN nodes : /\ nodes'[i].kind = nodes[i].kind /\ nodes'[i].parent = nodes[i].parent
                                /\ nodes'[i].text = nodes[i].text
    BY <1>3
  <1>5. nodes'[N + 1].parent = p
    BY <1>2, <1>3
  <1>6. /\ \A i \in DOMAIN nodes :
              MarkedSoFar(i)' <=>
                MarkedSoFar(i) /\ ~(nodes'[N + 1].kind = "cdata" /\ ChildSet(p) # {} /\ i = LastChild(p))
        /\ MarkedSoFar(N + 1)' <=>
              /\ IsWhite(nodes'[N + 1].text)
              /\ ChildSet(p) = {} \/ nodes[LastChild(p)].kind \notin {"cdata", "reference"}
    BY <1>1, <1>2, <1>3, <1>4, <1>5, MarksGrow
  <1>7. ASSUME NEW i \in DOMAIN nodes', nodes'[i].kind = "content", edited = {}, grown = {}
         PROVE  nodes'[i].white <=> MarkedSoFar(i)'
    <2>1. CASE i \in DOMAIN nodes
      <3>1. nodes[i].kind = "content"
        BY <1>4, <1>7, <2>1
      <3>2. nodes[i].white <=> MarkedSoFar(i)
        BY <1>7, <2>1, <3>1 DEF WhiteSoFar
      <3>3. nodes'[i].white <=> nodes[i].white /\ ~(n.kind = "cdata" /\ ChildSet(p) # {} /\ i = LastChild(p))
        BY <1>2, <1>3, <2>1, <3>1
      <3>4. QED
        BY <1>3, <1>6, <2>1, <3>2, <3>3
    <2>2. CASE i = N + 1
      BY <1>2, <1>3, <1>6, <1>7, <2>2
    <2>3. QED
      BY <1>3, <2>1, <2>2
  <1>8. QED
    BY <1>7 DEF WhiteSoFar

\* A character joins the last child.
LEMMA WhiteJoined ==
  ASSUME TypeInv, WhiteSoFar, UNCHANGED <<edited, grown, calls>>,
         NEW last \in DOMAIN nodes, NEW char \in Characters,
         DOMAIN nodes' = DOMAIN nodes,
         \A i \in DOMAIN nodes :
           /\ SameNode(nodes'[i], nodes[i])
           /\ i # last => nodes'[i] = nodes[i],
         nodes'[last].text = Append(nodes[last].text, char),
         nodes'[last].white <=> nodes[last].white /\ char \in White
  PROVE  WhiteSoFar'
  <1>1. /\ \A i : ChildSet(i)' = ChildSet(i)
        /\ \A i, j \in DOMAIN nodes : Neighbour(i, j)' <=> Neighbour(i, j)
    BY SameNeighbours DEF SameNode
  <1>2. \A j \in DOMAIN nodes : Parts(j)' <=> Parts(j)
    <2>1. \A j : OpenNow(j)' <=> OpenNow(j)
      BY DEF OpenNow
    <2>2. QED
      BY <1>1, <2>1 DEF Parts, SameNode
  <1>3. nodes[last].text \in Seq(Characters)
    <2>1. nodes[last] \in Node
      BY TypeFacts, NodesInSequence
    <2>2. QED
      BY <2>1, NodeShape
  <1>4. IsWhite(nodes'[last].text) <=> IsWhite(nodes[last].text) /\ char \in White
    <2>1. PICK text \in Seq(Characters) : text = nodes[last].text
      BY <1>3
    <2>2. IsWhite(Append(text, char)) <=> IsWhite(text) /\ char \in White
      BY WhiteAppended
    <2>3. QED
      BY <2>1, <2>2
  <1>5. \A i \in DOMAIN nodes : i # last => (MarkedSoFar(i)' <=> MarkedSoFar(i))
    BY <1>1, <1>2 DEF MarkedSoFar, SameNode
  <1>6. MarkedSoFar(last)' <=> MarkedSoFar(last) /\ char \in White
    BY <1>1, <1>2, <1>4 DEF MarkedSoFar, SameNode
  <1>7. \A i \in DOMAIN nodes : nodes'[i].kind = nodes[i].kind
    BY DEF SameNode
  <1>8. QED
    BY <1>5, <1>6, <1>7 DEF WhiteSoFar

\* The text of an entity has ended: its node parts the content before it
\* from what follows.
LEMMA WhiteParted ==
  ASSUME TypeInv, WhiteSoFar, UNCHANGED <<edited, grown>>,
         NEW r \in DOMAIN nodes, nodes[r].kind = "reference", ChildSet(r) # {},
         OpenNow(r), ~OpenNow(r)',
         \A i \in DOMAIN nodes : i # r => (OpenNow(i)' <=> OpenNow(i)),
         DOMAIN nodes' = DOMAIN nodes,
         \A i \in DOMAIN nodes :
           /\ SameNode(nodes'[i], nodes[i]) /\ nodes'[i].text = nodes[i].text
           /\ nodes'[i].white <=> nodes[i].white /\ ~(i < r /\ Neighbour(i, r) /\ nodes[i].kind = "content")
  PROVE  WhiteSoFar'
  <1>1. /\ \A i : ChildSet(i)' = ChildSet(i)
        /\ \A i, j \in DOMAIN nodes : Neighbour(i, j)' <=> Neighbour(i, j)
    BY SameNeighbours DEF SameNode
  <1>2. \A j \in DOMAIN nodes : j # r => (Parts(j)' <=> Parts(j))
    BY <1>1 DEF Parts, SameNode
  <1>3. Parts(r)' /\ ~Parts(r)
    BY <1>1 DEF Parts, SameNode
  <1>4. ASSUME NEW i \in DOMAIN nodes
        PROVE  MarkedSoFar(i)' <=> MarkedSoFar(i) /\ ~(i < r /\ Neighbour(i, r))
    <2>1. (\A j \in DOMAIN nodes' : j < i /\ Neighbour(j, i)' => nodes'[j].kind \notin {"cdata", "reference"})
          <=> \A j \in DOMAIN nodes : j < i /\ Neighbour(j, i) => nodes[j].kind \notin {"cdata", "reference"}
      BY <1>1 DEF SameNode
    <2>2. (\A j \in DOMAIN nodes' : i < j /\ Neighbour(i, j)' => ~Parts(j)')
          <=> /\ \A j \in DOMAIN nodes : i < j /\ Neighbour(i, j) => ~Parts(j)
              /\ ~(i < r /\ Neighbour(i, r))
      BY <1>1, <1>2, <1>3
    <2>3. QED
      BY <2>1, <2>2 DEF MarkedSoFar
  <1>5. \A i \in DOMAIN nodes : nodes'[i].kind = nodes[i].kind
    BY DEF SameNode
  <1>6. QED
    BY <1>4, <1>5 DEF WhiteSoFar

\* Which nodes are open after a call has begun, or ended.
LEMMA OpenPushed ==
  ASSUME TypeInv, NEW c, calls' = Append(calls, c)
  PROVE  \A j : OpenNow(j)' <=> OpenNow(j) \/ c.node = j
  <1>1. PICK L \in Nat : L = Len(calls) /\ DOMAIN calls = 1..L
    BY TypeFacts, CallsShape DEF CallType
  <1>2. DOMAIN calls' = 1..(L + 1) /\ calls'[L + 1] = c /\ \A k \in 1..L : calls'[k] = calls[k]
    BY <1>1, TypeFacts DEF CallType
  <1>3. /\ \A k \in 1..(L + 1) : k \in 1..L \/ k = L + 1
        /\ 1..L \subseteq 1..(L + 1) /\ L + 1 \in 1..(L + 1)
    BY <1>1
  <1>4. QED
    BY <1>1, <1>2, <1>3 DEF OpenNow

\* And after a call has ended.
LEMMA OpenPopped ==
  ASSUME TypeInv, calls # <<>>, calls' = Front(calls)
  PROVE  /\ \A j : OpenNow(j) <=> OpenNow(j)' \/ Last(calls).node = j
         /\ \A j : Len(calls) - 1 \in DOMAIN calls /\ calls[Len(calls) - 1].node = j => OpenNow(j)'
         /\ \A j : OpenNow(j)' => \E k \in DOMAIN calls : k <= Len(calls) - 1 /\ calls[k].node = j
  <1>1. PICK L \in Nat : L = Len(calls) /\ DOMAIN calls = 1..L /\ L # 0
    BY TypeFacts DEF CallType
  <1>2. calls' = SubSeq(calls, 1, L - 1) /\ Last(calls) = calls[L]
    BY <1>1 DEF Front, Last
  <1>3. DOMAIN calls' = 1..(L - 1) /\ \A k \in 1..(L - 1) : calls'[k] = calls[k]
    BY <1>1, <1>2, TypeFacts DEF CallType
  <1>4. /\ \A k \in 1..L : k \in 1..(L - 1) \/ k = L
        /\ 1..(L - 1) \subseteq 1..L /\ L \in 1..L
        /\ \A k \in 1..(L - 1) : k <= L - 1
    BY <1>1
  <1>5. \A j : OpenNow(j) <=> OpenNow(j)' \/ calls[L].node = j
    BY <1>1, <1>3, <1>4 DEF OpenNow
  <1>6. \A j : OpenNow(j)' => \E k \in DOMAIN calls : k <= Len(calls) - 1 /\ calls[k].node = j
    BY <1>1, <1>3, <1>4 DEF OpenNow
  <1>7. ASSUME NEW j, L - 1 \in DOMAIN calls, calls[L - 1].node = j
        PROVE  OpenNow(j)'
    <2>1. L - 1 \in 1..(L - 1)
      BY <1>1, <1>7
    <2>2. QED
      BY <1>3, <1>7, <2>1 DEF OpenNow
  <1>8. QED
    BY <1>1, <1>2, <1>5, <1>6, <1>7

\* A node that is neither a content nor a CDATA section is added.
LEMMA WhiteBeside ==
  ASSUME TypeInv, WhiteSoFar, phase = "parsing", UNCHANGED <<edited, grown>>,
         NEW n \in Node, n.parent = Target, n.kind # "content", n.kind # "cdata",
         nodes' = Append(nodes, n),
         \A i \in DOMAIN nodes : nodes[i].kind = "reference" => (OpenNow(i)' <=> OpenNow(i))
  PROVE  WhiteSoFar'
  <1>1. nodes \in Seq(Node)
    BY TypeFacts
  <1>2. QED
    BY <1>1, WhiteGrows

\* The marks stay right after a start tag.
LEMMA StartTagWhite ==
  ASSUME TypeInv, WhiteSoFar, StartTag
  PROVE  WhiteSoFar'
  <1> DEFINE n == NewElement(Token)
             c == Call("element", Len(nodes) + 1, <<>>)
  <1>1. /\ Parsing /\ Token.kind \in {"start", "empty"} /\ TakesElements
        /\ nodes' = Append(nodes, n) /\ calls' = Append(calls, c)
        /\ UNCHANGED <<edited, grown>>
    BY DEF StartTag, ParseOnly
  <1>2. phase = "parsing" /\ n \in Node /\ n.kind = "element" /\ n.parent = Target
    BY <1>1, TokenRead, NewElementIs
  <1>3. \A i \in DOMAIN nodes : c.node # i
    BY TypeFacts DEF Call
  <1> HIDE DEF n, c
  <1>4. \A i \in DOMAIN nodes : OpenNow(i)' <=> OpenNow(i)
    BY <1>1, <1>3, OpenPushed
  <1>5. QED
    BY <1>1, <1>2, <1>4, WhiteBeside

\* While the calls stay, the same nodes are open.
LEMMA SameCalls ==
  ASSUME UNCHANGED calls
  PROVE  \A i : OpenNow(i)' <=> OpenNow(i)
  BY DEF OpenNow

\* After an element that closes itself.
LEMMA EmptyTagWhite ==
  ASSUME TypeInv, WhiteSoFar, EmptyTag
  PROVE  WhiteSoFar'
  <1> DEFINE n == NewElement(Token)
  <1>1. /\ Parsing /\ Token.kind \in {"start", "empty"} /\ TakesElements
        /\ nodes' = Append(nodes, n) /\ UNCHANGED <<calls, edited, grown>>
    BY DEF EmptyTag, ParseOnly
  <1>2. phase = "parsing" /\ n \in Node /\ n.kind = "element" /\ n.parent = Target
    BY <1>1, TokenRead, NewElementIs
  <1> HIDE DEF n
  <1>3. QED
    BY <1>1, <1>2, SameCalls, WhiteBeside

\* After a reference of a character.
LEMMA CharacterReferenceWhite ==
  ASSUME TypeInv, WhiteSoFar, CharacterReference
  PROVE  WhiteSoFar'
  <1> DEFINE n == MakeNode("reference", Target, <<Token.char>>)
  <1>1. /\ Parsing /\ Token.kind = "charref" /\ nodes' = Append(nodes, n)
        /\ UNCHANGED <<calls, edited, grown>>
    BY DEF CharacterReference, Within, ParseOnly
  <1>2. phase = "parsing" /\ <<Token.char>> \in Seq(Characters)
    BY <1>1, TokenRead, TokenShape
  <1>3. n \in Node /\ n.parent = Target /\ n.kind = "reference"
    BY <1>2, TextNodeIs
  <1> HIDE DEF n
  <1>4. QED
    BY <1>1, <1>2, <1>3, SameCalls, WhiteBeside

\* After a comment.
LEMMA CommentWhite ==
  ASSUME TypeInv, WhiteSoFar, CommentOrPI
  PROVE  WhiteSoFar'
  <1> DEFINE n == MakeNode("comment", Target, <<>>)
  <1>1. Parsing /\ nodes' = Append(nodes, n) /\ UNCHANGED <<calls, edited, grown>>
    BY DEF CommentOrPI, ParseOnly
  <1>2. phase = "parsing" /\ <<>> \in Seq(Characters)
    BY <1>1, TokenRead
  <1>3. n \in Node /\ n.parent = Target /\ n.kind = "comment"
    BY <1>2, TextNodeIs
  <1> HIDE DEF n
  <1>4. QED
    BY <1>1, <1>2, <1>3, SameCalls, WhiteBeside

\* After a CDATA section.
LEMMA CDataWhite ==
  ASSUME TypeInv, WhiteSoFar, CDataSection
  PROVE  WhiteSoFar'
  <1> DEFINE limit == Len(nodes) + 1
             T == MarkTrailing(Target, limit)
             n == MakeNode("cdata", Target, Token.text)
             before == {j \in ChildSet(Target) : j < limit}
  <1>1. /\ Parsing /\ Token.kind = "cdata" /\ nodes' = Append(T, n)
        /\ UNCHANGED <<calls, edited, grown>>
    BY DEF CDataSection, Within, ParseOnly
  <1>2. phase = "parsing" /\ Token.text \in Seq(Characters)
    BY <1>1, TokenRead, TokenShape
  <1>3. n \in Node /\ n.parent = Target /\ n.kind = "cdata"
    BY <1>2, TextNodeIs
  <1>4. TreeOrdered /\ Target \in Nat /\ limit \in Nat
    BY <1>2, TypeFacts, TargetIs
  <1>5. before = ChildSet(Target) /\ Max(before) = LastChild(Target)
    <2>1. before = ChildSet(Target)
      <3>1. \A j \in DOMAIN nodes : j < Len(nodes) + 1
        BY TypeFacts
      <3>2. QED
        BY <3>1 DEF ChildSet
    <2> HIDE DEF before
    <2>2. QED
      BY <2>1 DEF LastChild
  <1>6. /\ T \in Seq(Node) /\ Len(T) = Len(nodes)
        /\ \A i \in DOMAIN nodes :
             /\ SameNode(T[i], nodes[i]) /\ T[i].text = nodes[i].text
             /\ T[i].white = IF before # {} /\ i = Max(before) /\ nodes[i].kind = "content"
                             THEN FALSE ELSE nodes[i].white
    <2> HIDE DEF limit
    <2>1. QED
      BY <1>4, TrailingMarked
  <1> HIDE DEF n, T, before
  <1>7. \A i \in DOMAIN nodes :
           /\ T[i].kind = nodes[i].kind /\ T[i].parent = nodes[i].parent /\ T[i].text = nodes[i].text
           /\ T[i].white <=> /\ nodes[i].white
                             /\ ~(/\ n.kind = "cdata" /\ nodes[i].kind = "content"
                                  /\ ChildSet(Target) # {} /\ i = LastChild(Target))
    BY <1>3, <1>5, <1>6 DEF SameNode
  <1>8. QED
    BY <1>1, <1>2, <1>3, <1>6, <1>7, SameCalls, WhiteGrows

\* After a character.
LEMMA CharacterWhite ==
  ASSUME TypeInv, WhiteSoFar, Character
  PROVE  WhiteSoFar'
  <1>1. /\ Parsing /\ Token.kind = "char" /\ nodes' = AddCharacter(Target, Token.char)
        /\ UNCHANGED <<calls, edited, grown>>
    BY DEF Character, ParseOnly
  <1>2. phase = "parsing" /\ TreeOrdered /\ nodes \in Seq(Node) /\ Len(nodes) \in Nat /\ DOMAIN nodes = 1..Len(nodes)
    BY <1>1, TokenRead, TypeFacts
  <1>3. PICK p \in DOMAIN nodes : p = Target
    BY <1>2, TargetIs
  <1>4. PICK char \in Characters : char = Token.char
    BY <1>1, TokenRead, TokenShape
  <1> DEFINE last == LastChild(p)
             clear == ChildSet(p) = {} \/ nodes[last].kind \notin {"cdata", "reference"}
             T == AddCharacter(p, char)
  <1>5. \/ /\ ChildSet(p) = {} \/ nodes[last].kind # "content"
           /\ T = Append(nodes, MakeContent(p, <<char>>, char \in White /\ clear))
        \/ /\ last \in ChildSet(p) /\ nodes[last].kind = "content"
           /\ T \in Seq(Node) /\ Len(T) = Len(nodes)
           /\ \A i \in DOMAIN nodes : /\ SameNode(T[i], nodes[i])
                                      /\ i # last => T[i] = nodes[i]
           /\ T[last].text = Append(nodes[last].text, char)
           /\ T[last].white = (nodes[last].white /\ char \in White)
    BY <1>2, CharacterAdded
  <1>6. nodes' = T
    BY <1>1, <1>3, <1>4
  <1>7. CASE T = Append(nodes, MakeContent(p, <<char>>, char \in White /\ clear))
    <2>0. (char \in White /\ clear) \in BOOLEAN /\ <<char>> \in Seq(Characters) /\ p \in Nat
      BY <1>2
    <2>1. PICK w \in BOOLEAN, text \in Seq(Characters), q \in Nat :
            w = (char \in White /\ clear) /\ text = <<char>> /\ q = p
      BY <2>0, Zenon
    <2> DEFINE n == MakeContent(q, text, w)
    <2>2. n \in Node /\ n.kind = "content" /\ n.parent = q /\ n.text = text /\ n.white = w
      BY MakeContentType
    <2>3. nodes' = Append(nodes, n)
      BY <1>6, <1>7, <2>1
    <2> HIDE DEF n, T
    <2>4. IsWhite(n.text) <=> char \in White
      BY <2>1, <2>2, WhiteAppended DEF IsWhite
    <2>5. n.white <=> /\ IsWhite(n.text)
                      /\ ChildSet(Target) = {} \/ nodes[LastChild(Target)].kind \notin {"cdata", "reference"}
      BY <1>3, <2>1, <2>2, <2>4
    <2>6. n.parent = Target /\ n.kind # "cdata"
      BY <1>3, <2>1, <2>2
    <2>7. QED
      BY <1>1, <1>2, <2>2, <2>3, <2>5, <2>6, SameCalls, WhiteGrows
  <1>8. CASE /\ last \in ChildSet(p) /\ nodes[last].kind = "content"
             /\ T \in Seq(Node) /\ Len(T) = Len(nodes)
             /\ \A i \in DOMAIN nodes : /\ SameNode(T[i], nodes[i])
                                        /\ i # last => T[i] = nodes[i]
             /\ T[last].text = Append(nodes[last].text, char)
             /\ T[last].white = (nodes[last].white /\ char \in White)
    <2>1. PICK m \in DOMAIN nodes : m = last
      BY <1>8 DEF ChildSet
    <2> HIDE DEF T, last
    <2>2. DOMAIN nodes' = DOMAIN nodes
      BY <1>2, <1>6, <1>8
    <2>3. \A i \in DOMAIN nodes : /\ SameNode(nodes'[i], nodes[i])
                                  /\ i # m => nodes'[i] = nodes[i]
      BY <1>6, <1>8, <2>1
    <2>4. nodes'[m].text = Append(nodes[m].text, char)
      BY <1>6, <1>8, <2>1
    <2>5. nodes'[m].white <=> nodes[m].white /\ char \in White
      BY <1>6, <1>8, <2>1
    <2>6. QED
      BY <1>1, <2>2, <2>3, <2>4, <2>5, WhiteJoined
  <1>9. QED
    BY <1>5, <1>7, <1>8

\* After an end tag, which closes no reference.
LEMMA EndTagWhite ==
  ASSUME TypeInv, WhiteSoFar, EndTag
  PROVE  WhiteSoFar'
  <1>1. /\ Parsing /\ calls # <<>> /\ Last(calls).kind = "element" /\ calls' = Front(calls)
        /\ UNCHANGED <<nodes, edited, grown>>
    BY DEF EndTag, Within, AtTop, Closes, ParseOnly
  <1>2. phase = "parsing"
    BY <1>1, TokenRead
  <1>3. Len(calls) \in DOMAIN calls /\ Last(calls) = calls[Len(calls)]
    BY <1>1, <1>2, TargetIs
  <1>4. nodes[Last(calls).node].kind = "element"
    BY <1>1, <1>3, TypeFacts DEF CallPath
  <1>5. \A i \in DOMAIN nodes : nodes[i].kind = "reference" => (OpenNow(i)' <=> OpenNow(i))
    BY <1>1, <1>4, OpenPopped
  <1>6. QED
    BY <1>1, <1>5, WhiteKept

\* After a reference of an entity, whose node is open.
LEMMA EntityReferenceWhite ==
  ASSUME TypeInv, WhiteSoFar, EntityReference
  PROVE  WhiteSoFar'
  <1> DEFINE own == ~BeginsWithMarkup(Replacement[Token.name])
             n == MakeNode("reference", Target, <<>>)
             c == Call("entity", IF own THEN Len(nodes) + 1 ELSE Target, Tail(input))
  <1>1. /\ Parsing /\ calls # <<>>
        /\ nodes' = IF own THEN Append(nodes, n) ELSE nodes
        /\ calls' = Append(calls, c) /\ UNCHANGED <<edited, grown>>
    BY DEF EntityReference, Within, AtTop, ParseOnly
  <1>2. phase = "parsing" /\ <<>> \in Seq(Characters)
    BY <1>1, TokenRead
  <1>3. n \in Node /\ n.parent = Target /\ n.kind = "reference"
    BY <1>2, TextNodeIs
  <1>4. c.node = IF own THEN Len(nodes) + 1 ELSE Target
    BY DEF Call
  <1>5. OpenNow(Target)
    BY <1>1, <1>2, TargetIs DEF OpenNow
  <1> HIDE DEF own, n, c
  <1>6. \A i \in DOMAIN nodes : OpenNow(i)' <=> OpenNow(i)
    <2>1. \A i \in DOMAIN nodes : c.node = i => OpenNow(i)
      <3>1. \A i \in DOMAIN nodes : i # Len(nodes) + 1
        BY TypeFacts
      <3>2. QED
        BY <1>4, <1>5, <3>1
    <2>2. QED
      BY <1>1, <2>1, OpenPushed
  <1>7. CASE own
    BY <1>1, <1>2, <1>3, <1>6, <1>7, WhiteBeside
  <1>8. CASE ~own
    BY <1>1, <1>6, <1>8, WhiteKept
  <1>9. QED
    BY <1>7, <1>8

\* After the text of an entity: its node is no longer open, and has
\* children, so that it parts the content before it.
LEMMA EndOfEntityWhite ==
  ASSUME TypeInv, WhiteSoFar, EndOfEntity
  PROVE  WhiteSoFar'
  <1> DEFINE receiver == calls[Len(calls) - 1].node
  <1>1. /\ phase = "parsing" /\ calls # <<>> /\ Last(calls).kind = "entity" /\ input = <<>>
        /\ nodes' = IF Target = receiver THEN nodes ELSE MarkTrailing(receiver, Target)
        /\ calls' = Front(calls) /\ UNCHANGED <<edited, grown>>
    BY DEF EndOfEntity, AtTop, ParseOnly
  <1>2. PICK L \in Nat : L = Len(calls) /\ L \in DOMAIN calls /\ DOMAIN calls = 1..L
    BY <1>1, TargetIs, CallsShape, TypeFacts DEF CallType
  <1>3. PICK r \in DOMAIN nodes : r = Target /\ r = calls[L].node /\ r \in Nat /\ Last(calls) = calls[L]
    BY <1>1, <1>2, TargetIs
  <1>4. L > 1 /\ L - 1 \in DOMAIN calls
    <2>1. L # 1
      BY <1>1, <1>2, <1>3, TypeFacts DEF CallPath
    <2>2. QED
      BY <1>2, <2>1
  <1>5. PICK p \in DOMAIN nodes : p = receiver /\ p = calls[L - 1].node /\ p \in Nat
    <2>1. calls[L - 1].node \in DOMAIN nodes
      BY <1>4, CallsShape, TypeFacts DEF CallType
    <2>2. QED
      BY <1>2, <2>1, TypeFacts
  <1>6. /\ \A j : OpenNow(j) <=> OpenNow(j)' \/ r = j
        /\ OpenNow(p)'
        /\ \A j : OpenNow(j)' => \E k \in DOMAIN calls : k <= L - 1 /\ calls[k].node = j
    BY <1>1, <1>2, <1>3, <1>4, <1>5, OpenPopped
  <1>7. CASE r = p
    <2>1. nodes' = nodes
      BY <1>1, <1>3, <1>5, <1>7
    <2>2. \A i \in DOMAIN nodes : OpenNow(i)' <=> OpenNow(i)
      BY <1>6, <1>7
    <2>3. QED
      BY <1>1, <2>1, <2>2, WhiteKept
  <1>8. CASE r # p
    <2>1. nodes[r].parent = p /\ nodes[r].kind = "reference"
      BY <1>1, <1>2, <1>3, <1>4, <1>5, <1>8, TypeFacts DEF CallPath
    <2>2. p < r /\ TreeOrdered
      <3>1. TreeOrdered /\ DOMAIN nodes = 1..Len(nodes)
        BY TypeFacts
      <3>2. QED
        BY <1>3, <1>5, <2>1, <3>1 DEF TreeOrdered, Detached
    <2>3. ~OpenNow(r)'
      <3>1. ASSUME NEW k \in DOMAIN calls, k <= L - 1
            PROVE  calls[k].node # r
        <4>1. calls[k].node <= p
          <5>1. k = L - 1 \/ k < L - 1
            BY <1>2, <3>1
          <5>2. k < L - 1 => calls[k].node <= calls[L - 1].node
            BY <1>4, TypeFacts DEF CallPath
          <5>3. QED
            BY <1>5, <5>1, <5>2
        <4>2. calls[k].node \in Nat
          BY <3>1, CallsShape, TypeFacts DEF CallType
        <4>3. QED
          BY <1>3, <1>5, <2>2, <4>1, <4>2
      <3>2. QED
        BY <1>6, <3>1
    <2>4. OpenNow(r) /\ \A i \in DOMAIN nodes : i # r => (OpenNow(i)' <=> OpenNow(i))
      BY <1>6
    <2>5. ChildSet(r) # {}
      BY <1>1, <1>3 DEF TypeInv, EntityRead
    <2> DEFINE T == MarkTrailing(p, r)
               before == {j \in ChildSet(p) : j < r}
    <2>6. /\ T \in Seq(Node) /\ Len(T) = Len(nodes)
          /\ \A i \in DOMAIN nodes :
               /\ SameNode(T[i], nodes[i]) /\ T[i].text = nodes[i].text
               /\ T[i].white = IF before # {} /\ i = Max(before) /\ nodes[i].kind = "content"
                               THEN FALSE ELSE nodes[i].white
      BY <1>3, <1>5, <2>2, TrailingMarked
    <2>7. \A i \in DOMAIN nodes : before # {} /\ i = Max(before) <=> i < r /\ Neighbour(i, r)
      <3>1. before # {} => Max(before) \in before /\ \A j \in before : j <= Max(before)
        BY <1>3, <1>5, <2>2, LastChildIs
      <3>2. \A j : j \in before <=> j \in ChildSet(p) /\ j < r
        OBVIOUS
      <3>3. \A i \in DOMAIN nodes : Neighbour(i, r) <=> i \in ChildSet(p) /\ ~\E k \in ChildSet(p) : i < k /\ k < r
        BY <2>1 DEF Neighbour, ChildSet
      <3>4. \A k \in ChildSet(p) : k \in Nat
        BY TypeFacts DEF ChildSet
      <3> HIDE DEF before
      <3>5. ASSUME NEW i \in DOMAIN nodes, before # {}, i = Max(before)
            PROVE  i < r /\ Neighbour(i, r)
        <4>1. i \in ChildSet(p) /\ i < r
          BY <3>1, <3>2, <3>5
        <4>2. \A k \in ChildSet(p) : ~(i < k /\ k < r)
          BY <3>1, <3>2, <3>4, <3>5, <4>1
        <4>3. QED
          BY <3>3, <4>1, <4>2
      <3>6. ASSUME NEW i \in DOMAIN nodes, i < r, Neighbour(i, r)
            PROVE  before # {} /\ i = Max(before)
        <4>1. i \in ChildSet(p) /\ \A k \in ChildSet(p) : ~(i < k /\ k < r)
          BY <3>3, <3>6
        <4>2. i \in before /\ before # {}
          BY <3>2, <3>6, <4>1
        <4>3. Max(before) \in ChildSet(p) /\ Max(before) < r /\ i <= Max(before)
          BY <3>1, <3>2, <4>2
        <4>4. QED
          BY <3>4, <4>1, <4>2, <4>3
      <3>7. QED
        BY <3>5, <3>6
    <2>8. nodes' = T
      BY <1>1, <1>3, <1>5, <1>8
    <2> HIDE DEF T, before
    <2>9. /\ DOMAIN nodes' = DOMAIN nodes
          /\ \A i \in DOMAIN nodes :
               /\ SameNode(nodes'[i], nodes[i]) /\ nodes'[i].text = nodes[i].text
               /\ nodes'[i].white <=> nodes[i].white /\ ~(i < r /\ Neighbour(i, r) /\ nodes[i].kind = "content")
      <3>1. DOMAIN nodes' = DOMAIN nodes
        BY <2>6, <2>8, TypeFacts
      <3>2. QED
        BY <2>6, <2>7, <2>8, <3>1
    <2>10. QED
      BY <1>1, <2>1, <2>3, <2>4, <2>5, <2>9, WhiteParted
  <1>9. QED
    BY <1>7, <1>8

\* After a call of the client.
LEMMA ClientCallWhite ==
  ASSUME TypeInv, WhiteSoFar, ClientCall
  PROVE  WhiteSoFar'
  <1>1. PICK i \in DOMAIN nodes :
          \/ GetContents(i) \/ RemoveLastChild(i)
          \/ \E char \in Characters : AddChild(i, char) \/ AddContent(i, char)
    BY DEF ClientCall
  <1>2. UNCHANGED calls
    BY DEF ClientCall
  <1>3. CASE GetContents(i)
    <2> DEFINE T == Filled(i)
    <2>1. /\ T \in Seq(Node) /\ Len(T) = Len(nodes)
          /\ \A j \in DOMAIN nodes :
               /\ T[j].kind = nodes[j].kind /\ T[j].parent = nodes[j].parent
               /\ T[j].text = nodes[j].text /\ T[j].white = nodes[j].white
      BY TypeFacts, FilledIs
    <2>2. nodes' = T /\ UNCHANGED <<edited, grown>>
      BY <1>3 DEF GetContents
    <2> HIDE DEF T
    <2>3. DOMAIN nodes' = DOMAIN nodes
      BY <2>1, <2>2, TypeFacts
    <2>4. QED
      BY <1>2, <2>1, <2>2, <2>3, SameCalls, WhiteKept
  <1>4. CASE RemoveLastChild(i)
    BY <1>4 DEF RemoveLastChild, WhiteSoFar
  <1>5. ASSUME NEW char \in Characters, AddChild(i, char) \/ AddContent(i, char)
        PROVE  WhiteSoFar'
    BY <1>5 DEF AddChild, AddContent, WhiteSoFar
  <1>6. QED
    BY <1>1, <1>3, <1>4, <1>5

\* At first there is no content.
LEMMA InitWhite == Init => WhiteSoFar
  <1> SUFFICES ASSUME Init PROVE WhiteSoFar
    OBVIOUS
  <1>1. DOMAIN nodes = {1} /\ nodes[1].kind = "prolog"
    BY DEF Init, MakeNode
  <1>2. QED
    BY <1>1 DEF WhiteSoFar

\* Every step keeps the marks right.
LEMMA NextWhite == TypeInv /\ WhiteSoFar /\ [Next]_vars => WhiteSoFar'
  <1> SUFFICES ASSUME TypeInv, WhiteSoFar, [Next]_vars PROVE WhiteSoFar'
    OBVIOUS
  <1>1. CASE UNCHANGED vars
    BY <1>1, SameCalls, WhiteKept DEF vars
  <1>2. CASE EndOfDocument
    BY <1>2, SameCalls, WhiteKept DEF EndOfDocument, ParseOnly
  <1>3. CASE Reject
    BY <1>3 DEF Reject, WhiteSoFar
  <1>4. QED
    BY <1>1, <1>2, <1>3, StartTagWhite, EmptyTagWhite, EndTagWhite, CharacterWhite, CharacterReferenceWhite,
       CDataWhite, CommentWhite, EntityReferenceWhite, EndOfEntityWhite, ClientCallWhite DEF Next

\* Until the client edits it, a content of a parsed document is marked as
\* white space just when it has no other character, follows no CDATA
\* section and no reference, and is followed by no CDATA section and no
\* text of an entity (addContentToElementChildList,
\* markTrailingContentNonWhitespace).
THEOREM WhiteSpaceCorrect == Spec => []WhiteSpaceMarked
  <1>1. Spec => []WhiteSoFar
    BY InitWhite, NextWhite, TypeInvariant, PTL DEF Spec
  <1>2. TypeInv /\ WhiteSoFar => WhiteSpaceMarked
    <2> SUFFICES ASSUME TypeInv, WhiteSoFar, phase = "parsed", edited = {}, grown = {}, NEW i \in DOMAIN nodes
                 PROVE  MarkedSoFar(i) <=> MarkedWhite(i)
      BY DEF WhiteSpaceMarked, WhiteSoFar
    <2>1. calls = <<>> /\ \A j : ~OpenNow(j)
      BY DEF TypeInv, Stages, OpenNow
    <2>2. Len(nodes) \in Nat /\ DOMAIN nodes = 1..Len(nodes) /\ i \in Nat
      BY TypeFacts
    <2>3. (\A j \in DOMAIN nodes : j < i /\ Neighbour(j, i) => nodes[j].kind \notin {"cdata", "reference"})
          <=> ~\E j \in 1..i - 1 : Neighbour(j, i) /\ nodes[j].kind \in {"cdata", "reference"}
      BY <2>2
    <2>4. (\A j \in DOMAIN nodes : i < j /\ Neighbour(i, j) => ~Parts(j))
          <=> ~\E j \in i + 1..Len(nodes) :
                 /\ Neighbour(i, j)
                 /\ nodes[j].kind = "cdata" \/ (nodes[j].kind = "reference" /\ ChildSet(j) # {})
      BY <2>1, <2>2 DEF Parts
    <2>5. QED
      BY <2>3, <2>4 DEF MarkedSoFar, MarkedWhite
  <1>3. QED
    BY <1>1, <1>2, TypeInvariant, PTL

----------------------------------------
\* The text of a document: what is read from it, token by token.

\* What stands before the same end is the same.
LEMMA Cancels ==
  ASSUME NEW S, NEW a \in Seq(S), NEW b \in Seq(S), NEW c \in Seq(S), a \o c = b \o c
  PROVE  a = b
  <1>1. Len(a) \in Nat /\ Len(b) \in Nat /\ Len(c) \in Nat
    OBVIOUS
  <1>2. Len(a \o c) = Len(a) + Len(c) /\ Len(b \o c) = Len(b) + Len(c)
    OBVIOUS
  <1>3. Len(a) = Len(b)
    BY <1>1, <1>2
  <1>4. ASSUME NEW i \in 1..Len(a) PROVE a[i] = b[i]
    <2>1. (a \o c)[i] = a[i] /\ (b \o c)[i] = b[i]
      BY <1>1, <1>3
    <2>2. QED
      BY <2>1
  <1>5. QED
    BY <1>3, <1>4, SeqEqual

\* It is the only one.
LEMMA JoinsFlatten ==
  ASSUME NEW S, NEW s \in Seq(Seq(S)), NEW f, Joins(f, s, S)
  PROVE  FlattenSeq(s) = f[Len(s)]
  <1>1. PICK g : Joins(g, s, S) /\ FlattenSeq(s) = g[Len(s)]
    BY JoinsExist
  <1> DEFINE Good == {k \in 0..Len(s) : f[k] = g[k]}
  <1>2. Len(s) \in Nat /\ 0 \in Good
    BY <1>1 DEF Joins
  <1>3. ASSUME NEW k \in 1..Len(s), k - 1 \in Good PROVE k \in Good
    <2>1. f[k] = f[k - 1] \o s[k] /\ g[k] = g[k - 1] \o s[k]
      BY <1>1 DEF Joins
    <2>2. f[k - 1] = g[k - 1] /\ k \in 0..Len(s)
      BY <1>2, <1>3
    <2>3. f[k] = g[k]
      BY <2>1, <2>2, Zenon
    <2>4. QED
      BY <2>2, <2>3
  <1> HIDE DEF Good
  <1>4. 0..Len(s) \subseteq Good
    BY <1>2, <1>3, UptoInduction
  <1>5. QED
    BY <1>1, <1>2, <1>4 DEF Good

\* One more sequence at the end.
LEMMA FlattenAppend ==
  ASSUME NEW S, NEW s \in Seq(Seq(S)), NEW t \in Seq(Seq(S)), Len(t) = Len(s) + 1,
         \A k \in 1..Len(s) : t[k] = s[k]
  PROVE  FlattenSeq(t) = FlattenSeq(s) \o t[Len(t)]
  <1>1. PICK f : Joins(f, t, S) /\ FlattenSeq(t) = f[Len(t)]
    BY JoinsExist
  <1>2. Len(s) \in Nat /\ Len(t) \in 1..Len(t) /\ Len(t) - 1 = Len(s)
    OBVIOUS
  <1>3. Joins(f, s, S)
    <2>1. \A k \in 0..Len(s) : k \in 0..Len(t)
      BY <1>2
    <2>2. \A k \in 1..Len(s) : k \in 1..Len(t) /\ t[k] = s[k]
      BY <1>2
    <2>3. QED
      BY <1>1, <2>1, <2>2 DEF Joins
  <1>4. FlattenSeq(s) = f[Len(s)]
    BY <1>3, JoinsFlatten
  <1>5. f[Len(t)] = f[Len(s)] \o t[Len(t)]
    BY <1>1, <1>2 DEF Joins
  <1>6. QED
    BY <1>1, <1>4, <1>5

\* Numbers around one of the first n.
LEMMA Around ==
  \A n \in Nat : \A k \in 1..n :
    k \in 0..n /\ k + 1 \in 1..(n + 1) /\ (k + 1) - 1 = k /\ k - 1 + 1 = k /\ k - 1 \in 0..n
  OBVIOUS

\* Three sequences joined are the same in either order.
Associates(a, b, c) == (a \o b) \o c = a \o (b \o c)

\* So it is.
LEMMA AllAssociate ==
  ASSUME NEW S, NEW a \in Seq(S), NEW b \in Seq(S), NEW c \in Seq(S)
  PROVE  Associates(a, b, c)
  BY DEF Associates

\* One more sequence at the beginning.
LEMMA FlattenHead ==
  ASSUME NEW S, NEW s \in Seq(Seq(S)), NEW t \in Seq(Seq(S)), Len(s) = Len(t) + 1,
         \A k \in 1..Len(t) : s[k + 1] = t[k]
  PROVE  FlattenSeq(s) = s[1] \o FlattenSeq(t)
  <1>1. PICK f : Joins(f, s, S) /\ FlattenSeq(s) = f[Len(s)]
    BY JoinsExist
  <1>2. PICK g : Joins(g, t, S) /\ FlattenSeq(t) = g[Len(t)]
    BY JoinsExist
  <1> DEFINE N == Len(t)
             Good == {k \in 0..N : \A n \in 1..Len(s) : n = k + 1 => f[n] = s[1] \o g[k]}
  <1>3. N \in Nat /\ Len(s) = N + 1 /\ s[1] \in Seq(S)
    OBVIOUS
  <1>4. 0 \in Good
    <2>1. f[1] = f[0] \o s[1] /\ f[0] = <<>> /\ g[0] = <<>>
      <3>1. 1 \in 1..Len(s) /\ 1 - 1 = 0
        BY <1>3
      <3>2. QED
        BY <1>1, <1>2, <3>1 DEF Joins
    <2>2. <<>> \o s[1] = s[1] /\ s[1] \o <<>> = s[1]
      BY <1>3
    <2>3. f[1] = s[1] \o g[0]
      BY <2>1, <2>2
    <2>4. \A n \in 1..Len(s) : n = 0 + 1 => n = 1
      OBVIOUS
    <2>5. \A n \in 1..Len(s) : n = 0 + 1 => f[n] = s[1] \o g[0]
      BY <2>3, <2>4, Zenon
    <2>6. 0 \in 0..N
      BY <1>3
    <2>7. QED
      BY <2>5, <2>6, Zenon
  <1>5. ASSUME NEW k \in 1..N, k - 1 \in Good PROVE k \in Good
    <2>1. k \in 0..N /\ k + 1 \in 1..Len(s) /\ (k + 1) - 1 = k /\ k - 1 + 1 = k /\ k - 1 \in 0..N
      <3> HIDE DEF Good, N
      <3>1. QED
        BY <1>3, Around
    <2>2. f[k + 1] = f[k] \o s[k + 1] /\ g[k] = g[k - 1] \o t[k] /\ g[k - 1] \in Seq(S) /\ t[k] \in Seq(S)
      <3>1. f[k + 1] = f[(k + 1) - 1] \o s[k + 1]
        BY <1>1, <2>1 DEF Joins
      <3>2. g[k] = g[k - 1] \o t[k] /\ g[k - 1] \in Seq(S)
        BY <1>2, <2>1 DEF Joins
      <3>3. t[k] \in Seq(S)
        OBVIOUS
      <3>4. QED
        BY <2>1, <3>1, <3>2, <3>3
    <2>3. f[k] = s[1] \o g[k - 1]
      <3>1. \A n \in 1..Len(s) : n = (k - 1) + 1 => f[n] = s[1] \o g[k - 1]
        BY <1>5
      <3>2. k \in 1..Len(s) /\ k = (k - 1) + 1
        BY <1>3
      <3> HIDE DEF Good
      <3>3. QED
        BY <3>1, <3>2
    <2> HIDE DEF Good, N
    <2>4. (s[1] \o g[k - 1]) \o t[k] = s[1] \o (g[k - 1] \o t[k])
      <3>1. Associates(s[1], g[k - 1], t[k])
        BY ONLY <1>3, <2>2, AllAssociate
      <3>2. QED
        BY <3>1 DEF Associates
    <2>5. s[k + 1] = t[k]
      BY DEF N
    <2>6. f[k + 1] = s[1] \o g[k]
      BY <2>2, <2>3, <2>4, <2>5, Zenon
    <2>7. \A n \in 1..Len(s) : n = k + 1 => f[n] = s[1] \o g[k]
      BY <2>6
    <2>8. QED
      BY <2>1, <2>7 DEF Good
  <1> HIDE DEF Good
  <1>6. 0..N \subseteq Good
    BY <1>3, <1>4, <1>5, UptoInduction
  <1>7. f[N + 1] = s[1] \o g[N]
    <2>1. N \in 0..N /\ N + 1 \in 1..Len(s)
      BY <1>3
    <2>2. QED
      BY <1>6, <2>1 DEF Good
  <1>8. QED
    BY <1>1, <1>2, <1>3, <1>7

\* Sequences that differ in one place, after which nothing follows.
SameBefore(s, t, q) == \A k \in 1..(q - 1) : s[k] = t[k]
NothingAfter(s, q) == \A k \in (q + 1)..Len(s) : s[k] = <<>>

\* Numbers below a number.
LEMMA LowerPlaces ==
  \A n \in Nat : \A q \in 1..n : \A k \in 1..(q - 1) : k \in 1..n /\ k \in 0..(q - 1)
  OBVIOUS

\* What stands before that place is the same in both.
LEMMA FlattenParted ==
  ASSUME NEW S, NEW s \in Seq(Seq(S)), NEW t \in Seq(Seq(S)), NEW q \in 1..Len(s), q \in 1..Len(t),
         SameBefore(s, t, q), NothingAfter(s, q), NothingAfter(t, q)
  PROVE  \E a \in Seq(S) : FlattenSeq(s) = a \o s[q] /\ FlattenSeq(t) = a \o t[q]
  <1>1. PICK f : Joins(f, s, S) /\ FlattenSeq(s) = f[Len(s)]
    BY JoinsExist
  <1>2. PICK g : Joins(g, t, S) /\ FlattenSeq(t) = g[Len(t)]
    BY JoinsExist
  <1>3. Len(s) \in Nat /\ Len(t) \in Nat /\ q \in Nat /\ q <= Len(s) /\ q <= Len(t) /\ q >= 1
    OBVIOUS
  <1>4. f[q - 1] = g[q - 1]
    <2> DEFINE Good == {k \in 0..(q - 1) : f[k] = g[k]}
    <2>1. 0 \in Good
      <3>1. f[0] = <<>> /\ g[0] = <<>>
        BY <1>1, <1>2 DEF Joins
      <3>2. 0 \in 0..(q - 1)
        BY <1>3
      <3>3. QED
        BY <3>1, <3>2
    <2>2. ASSUME NEW k \in 1..(q - 1), k - 1 \in Good PROVE k \in Good
      <3>1. k \in 1..Len(s) /\ k \in 1..Len(t) /\ k \in 0..(q - 1)
        BY ONLY <1>3, q \in 1..Len(s), q \in 1..Len(t), k \in 1..(q - 1), LowerPlaces
      <3>2. f[k] = f[k - 1] \o s[k] /\ g[k] = g[k - 1] \o t[k]
        BY <1>1, <1>2, <3>1 DEF Joins
      <3>3. f[k - 1] = g[k - 1] /\ s[k] = t[k]
        BY <2>2 DEF SameBefore
      <3>4. f[k] = g[k]
        BY <3>2, <3>3, Zenon
      <3>5. QED
        BY <3>1, <3>4
    <2> HIDE DEF Good
    <2>3. q - 1 \in Nat
      BY <1>3
    <2>4. 0..(q - 1) \subseteq Good
      BY <2>1, <2>2, <2>3, UptoInduction
    <2>5. QED
      BY <2>3, <2>4 DEF Good
  <1>5. ASSUME NEW h, NEW u \in Seq(Seq(S)), Joins(h, u, S), q \in 1..Len(u), \A k \in (q + 1)..Len(u) : u[k] = <<>>
        PROVE  h[Len(u)] = h[q - 1] \o u[q] /\ h[q - 1] \in Seq(S)
    <2> DEFINE Good == {k \in 0..Len(u) : k >= q => h[k] = h[q]}
    <2>1. Len(u) \in Nat /\ 0 \in Good
      BY <1>3
    <2>2. ASSUME NEW k \in 1..Len(u), k - 1 \in Good PROVE k \in Good
      <3>1. CASE k > q
        <4>1. h[k] = h[k - 1] \o u[k] /\ h[k - 1] \in Seq(S)
          <5>1. k - 1 \in 0..Len(u)
            BY <2>1
          <5>2. QED
            BY <1>5, <5>1 DEF Joins
        <4>2. u[k] = <<>> /\ h[k - 1] = h[q]
          BY <1>3, <1>5, <2>1, <2>2, <3>1
        <4>3. h[k - 1] \o <<>> = h[k - 1]
          BY <4>1
        <4>4. h[k] = h[q]
          BY <4>1, <4>2, <4>3
        <4>5. QED
          BY <2>1, <4>4
      <3>2. CASE k <= q
        BY <1>3, <2>1, <3>2
      <3>3. QED
        BY <1>3, <2>1, <3>1, <3>2
    <2> HIDE DEF Good
    <2>3. 0..Len(u) \subseteq Good
      BY <2>1, <2>2, UptoInduction
    <2>4. h[Len(u)] = h[q]
      <3>1. Len(u) \in 0..Len(u) /\ Len(u) >= q
        BY <1>5, <2>1
      <3>2. QED
        BY <2>3, <3>1 DEF Good
    <2>5. h[q] = h[q - 1] \o u[q]
      BY <1>5 DEF Joins
    <2>6. h[q - 1] \in Seq(S)
      <3>1. q - 1 \in 0..Len(u)
        BY <1>3, <1>5, <2>1
      <3>2. QED
        BY <1>5, <3>1 DEF Joins
    <2>7. QED
      BY <2>4, <2>5, <2>6
  <1>6. f[Len(s)] = f[q - 1] \o s[q] /\ f[q - 1] \in Seq(S)
    BY <1>1, <1>5 DEF NothingAfter
  <1>7. g[Len(t)] = g[q - 1] \o t[q]
    BY <1>2, <1>5 DEF NothingAfter
  <1>8. QED
    BY <1>1, <1>2, <1>4, <1>6, <1>7

\* The events.
Event == ({"start", "end"} \X ({<<>>} \cup Tags)) \cup ({"char"} \X Characters) \cup {<<"comment">>}

\* Events of one token and of characters.
LEMMA EventIs ==
  /\ \A tag \in {<<>>} \cup Tags : <<"start", tag>> \in Event /\ <<"end", tag>> \in Event
  /\ \A char \in Characters : <<"char", char>> \in Event
  /\ <<"comment">> \in Event
  <1>1. \A tag \in {<<>>} \cup Tags : /\ <<"start", tag>> \in {"start", "end"} \X ({<<>>} \cup Tags)
                                        /\ <<"end", tag>> \in {"start", "end"} \X ({<<>>} \cup Tags)
    OBVIOUS
  <1>2. \A char \in Characters : <<"char", char>> \in {"char"} \X Characters
    OBVIOUS
  <1>3. QED
    BY <1>1, <1>2 DEF Event

\* The characters of a text.
CharsOf(text) == [k \in DOMAIN text |-> <<"char", text[k]>>]

\* They are events, one for each character.
LEMMA CharsType ==
  ASSUME NEW text \in Seq(Characters)
  PROVE  CharsOf(text) \in Seq(Event) /\ Len(CharsOf(text)) = Len(text)
  <1>1. DOMAIN text = 1..Len(text) /\ Len(text) \in Nat /\ \A k \in 1..Len(text) : text[k] \in Characters
    OBVIOUS
  <1>2. \A k \in 1..Len(text) : <<"char", text[k]>> \in Event
    BY <1>1, EventIs
  <1>3. QED
    BY <1>1, <1>2 DEF CharsOf

\* What texts tell is told in events.
LEMMA EventsOfType ==
  ASSUME NEW token \in AnyToken, NEW told, \A name \in DOMAIN told : told[name] \in Seq(Event)
  PROVE  EventsOf(token, told) \in Seq(Event)
  <1>1. /\ token.kind \in {"char", "charref", "ref", "cdata", "comment", "start", "empty", "end"}
        /\ token.kind \in {"char", "charref"} => token.char \in Characters
        /\ token.kind = "cdata" => token.text \in Seq(Characters)
        /\ token.kind \in {"start", "empty", "end"} => token.tag \in Tags
    BY DEF AnyToken
  <1>2. CASE token.kind \in {"char", "charref"}
    <2>1. <<"char", token.char>> \in Event
      BY <1>1, <1>2, EventIs
    <2>2. EventsOf(token, told) = << <<"char", token.char>> >>
      BY <1>2 DEF EventsOf
    <2>3. QED
      BY <2>1, <2>2
  <1>3. CASE token.kind = "cdata"
    <2>1. EventsOf(token, told) = CharsOf(token.text)
      BY <1>3 DEF EventsOf, CharsOf
    <2>2. QED
      BY <1>1, <1>3, <2>1, CharsType
  <1>4. CASE token.kind = "comment"
    <2>1. EventsOf(token, told) = << <<"comment">> >>
      BY <1>4 DEF EventsOf
    <2>2. QED
      BY <2>1, EventIs
  <1>5. CASE token.kind \in {"start", "empty", "end"}
    <2>1. PICK a \in Event, b \in Event : a = <<"start", token.tag>> /\ b = <<"end", token.tag>>
      BY <1>1, <1>5, EventIs
    <2>2. <<a>> \in Seq(Event) /\ <<a, b>> \in Seq(Event) /\ <<b>> \in Seq(Event)
      OBVIOUS
    <2>3. CASE token.kind = "start"
      <3>1. EventsOf(token, told) = << <<"start", token.tag>> >>
        BY <2>3 DEF EventsOf
      <3>2. QED
        BY ONLY <2>1, <2>2, <3>1
    <2>4. CASE token.kind = "empty"
      <3>1. EventsOf(token, told) = << <<"start", token.tag>>, <<"end", token.tag>> >>
        BY <2>4 DEF EventsOf
      <3>2. QED
        BY ONLY <2>1, <2>2, <3>1
    <2>5. CASE token.kind = "end"
      <3>1. EventsOf(token, told) = << <<"end", token.tag>> >>
        BY <2>5 DEF EventsOf
      <3>2. QED
        BY ONLY <2>1, <2>2, <3>1
    <2>6. QED
      BY <1>5, <2>3, <2>4, <2>5
  <1>6. CASE token.kind = "ref"
    <2>1. EventsOf(token, told) = IF token.name \in DOMAIN told THEN told[token.name] ELSE <<>>
      BY <1>6 DEF EventsOf
    <2>2. QED
      BY <2>1
  <1>7. QED
    BY <1>1, <1>2, <1>3, <1>4, <1>5, <1>6

\* The pieces that Events joins.
LEMMA EventsPieces ==
  ASSUME NEW text \in Seq(AnyToken), NEW told, \A name \in DOMAIN told : told[name] \in Seq(Event)
  PROVE  LET s == [i \in DOMAIN text |-> EventsOf(text[i], told)]
         IN  s \in Seq(Seq(Event)) /\ Len(s) = Len(text) /\ \A i \in 1..Len(text) : s[i] = EventsOf(text[i], told)
  <1>1. DOMAIN text = 1..Len(text) /\ Len(text) \in Nat /\ \A i \in 1..Len(text) : text[i] \in AnyToken
    OBVIOUS
  <1>2. \A i \in 1..Len(text) : EventsOf(text[i], told) \in Seq(Event)
    BY <1>1, EventsOfType
  <1>3. QED
    BY <1>1, <1>2

\* What a text tells is told in events.
LEMMA EventsType ==
  ASSUME NEW text \in Seq(AnyToken), NEW told, \A name \in DOMAIN told : told[name] \in Seq(Event)
  PROVE  Events(text, told) \in Seq(Event)
  <1> DEFINE s == [i \in DOMAIN text |-> EventsOf(text[i], told)]
  <1>1. s \in Seq(Seq(Event))
    BY EventsPieces
  <1> HIDE DEF s
  <1>2. FlattenSeq(s) \in Seq(Event)
    BY <1>1, FlattenType
  <1>3. QED
    BY <1>2 DEF Events, s

\* What is told of each entity, one level of references after another.
ToldBy(f) ==
  f[0] = [name \in DOMAIN Replacement |-> <<>>] /\ \A k \in 1..MaxDepth : f[k] = [name \in DOMAIN Replacement |-> Events(Replacement[name], f[k - 1])]

\* So it is: each level is a function of the one below it.
LEMMA ToldIsDefined == \E f : ToldBy(f) /\ Told = f[MaxDepth]
  <1> DEFINE N == MaxDepth
             T == [DOMAIN Replacement -> Seq(Event)]
             From(p) == [name \in DOMAIN Replacement |-> Events(Replacement[name], p)]
             Op == [x \in (1..N) \X T |-> From(x[2])]
             Step(f, k) == IF k = 0 THEN [name \in DOMAIN Replacement |-> <<>>] ELSE From(f[k - 1])
             it == CHOOSE f : f = [k \in 0..N |-> Step(f, k)]
  <1>1. N \in Nat
    BY DepthAssumption
  <1>2. Told = it[N]
    BY DEF Told
  <1>3. [name \in DOMAIN Replacement |-> <<>>] \in T /\ \A p \in T : From(p) \in T
    <2>1. ASSUME NEW p \in T, NEW name \in DOMAIN Replacement PROVE Events(Replacement[name], p) \in Seq(Event)
      BY ReplacementText, EventsType
    <2>2. QED
      BY <2>1
  <1> HIDE DEF From, N, T
  <1>4. \A k \in 1..N, p \in T : Op[<<k, p>>] = From(p)
    OBVIOUS
  <1> HIDE DEF Op
  <1>5. StaysIn(T, N, [name \in DOMAIN Replacement |-> <<>>], Op)
    BY <1>1, <1>3, <1>4 DEF StaysIn
  <1>6. PICK f : Recurses(f, T, N, [name \in DOMAIN Replacement |-> <<>>], Op)
    BY <1>5, RecursionUpto
  <1> DEFINE g == [k \in 0..N |-> f[k]]
  <1>7. g = [k \in 0..N |-> Step(g, k)]
    <2>1. ASSUME NEW k \in 0..N PROVE f[k] = Step(g, k)
      <3>1. k # 0 => k \in 1..N /\ k - 1 \in 0..N
        BY <1>1
      <3>2. QED
        BY <1>4, <1>6, <3>1 DEF Recurses
    <2>2. QED
      BY <2>1
  <1> HIDE DEF g, Step
  <1>8. it = [k \in 0..N |-> Step(it, k)]
    BY <1>7
  <1> HIDE DEF it
  <1>9. \A k \in 0..N : it[k] = Step(it, k)
    BY <1>8
  <1>10. it[0] = [name \in DOMAIN Replacement |-> <<>>] /\ \A k \in 1..N : it[k] = From(it[k - 1])
    <2>1. 0 \in 0..N /\ \A k \in 1..N : k \in 0..N /\ k # 0
      BY <1>1
    <2>2. QED
      BY <1>9, <2>1 DEF Step
  <1>11. QED
    BY <1>2, <1>10 DEF ToldBy, From, N

\* The entities that fit, one level of references after another.
FittingBy(f) ==
  f[0] = {} /\ \A k \in 1..MaxDepth : f[k] = {use \in (DOMAIN Replacement) \X SUBSET (Names \cup {"xml"}) :
           WellFormed(Replacement[use[1]], use[2], f[k - 1])}

\* So it is.
LEMMA FittingIsDefined == \E f : FittingBy(f) /\ Fitting = f[MaxDepth]
  <1> DEFINE N == MaxDepth
             T == SUBSET ((DOMAIN Replacement) \X SUBSET (Names \cup {"xml"}))
             From(p) == {use \in (DOMAIN Replacement) \X SUBSET (Names \cup {"xml"}) :
                          WellFormed(Replacement[use[1]], use[2], p)}
             Op == [x \in (1..N) \X T |-> From(x[2])]
             Step(f, k) == IF k = 0 THEN {} ELSE From(f[k - 1])
             it == CHOOSE f : f = [k \in 0..N |-> Step(f, k)]
  <1>1. N \in Nat
    BY DepthAssumption
  <1>2. Fitting = it[N]
    BY DEF Fitting
  <1>3. {} \in T /\ \A p \in T : From(p) \in T
    OBVIOUS
  <1> HIDE DEF From, N, T
  <1>4. \A k \in 1..N, p \in T : Op[<<k, p>>] = From(p)
    OBVIOUS
  <1> HIDE DEF Op
  <1>5. StaysIn(T, N, {}, Op)
    BY <1>1, <1>3, <1>4 DEF StaysIn
  <1>6. PICK f : Recurses(f, T, N, {}, Op)
    BY <1>5, RecursionUpto
  <1> DEFINE g == [k \in 0..N |-> f[k]]
  <1>7. g = [k \in 0..N |-> Step(g, k)]
    <2>1. ASSUME NEW k \in 0..N PROVE f[k] = Step(g, k)
      <3>1. k # 0 => k \in 1..N /\ k - 1 \in 0..N
        BY <1>1
      <3>2. QED
        BY <1>4, <1>6, <3>1 DEF Recurses
    <2>2. QED
      BY <2>1
  <1> HIDE DEF g, Step
  <1>8. it = [k \in 0..N |-> Step(it, k)]
    BY <1>7
  <1> HIDE DEF it
  <1>9. \A k \in 0..N : it[k] = Step(it, k)
    BY <1>8
  <1>10. it[0] = {} /\ \A k \in 1..N : it[k] = From(it[k - 1])
    <2>1. 0 \in 0..N /\ \A k \in 1..N : k \in 0..N /\ k # 0
      BY <1>1
    <2>2. QED
      BY <1>9, <2>1 DEF Step
  <1>11. QED
    BY <1>2, <1>10 DEF FittingBy, From, N

\* The entities that hold an element, one level after another.
HoldingBy(f) ==
  f[0] = {} /\ \A k \in 1..MaxDepth : f[k] = {name \in DOMAIN Replacement :
           \/ \E token \in Tokens(Replacement[name]) : IsTag(token)
           \/ Referred(Replacement[name]) \cap f[k - 1] # {}}

\* So it is.
LEMMA HoldingIsDefined == \E f : HoldingBy(f) /\ Holding = f[MaxDepth]
  <1> DEFINE N == MaxDepth
             T == SUBSET DOMAIN Replacement
             From(p) == {name \in DOMAIN Replacement :
                          \/ \E token \in Tokens(Replacement[name]) : IsTag(token)
                          \/ Referred(Replacement[name]) \cap p # {}}
             Op == [x \in (1..N) \X T |-> From(x[2])]
             Step(f, k) == IF k = 0 THEN {} ELSE From(f[k - 1])
             it == CHOOSE f : f = [k \in 0..N |-> Step(f, k)]
  <1>1. N \in Nat
    BY DepthAssumption
  <1>2. Holding = it[N]
    BY DEF Holding
  <1>3. {} \in T /\ \A p \in T : From(p) \in T
    OBVIOUS
  <1> HIDE DEF From, N, T
  <1>4. \A k \in 1..N, p \in T : Op[<<k, p>>] = From(p)
    OBVIOUS
  <1> HIDE DEF Op
  <1>5. StaysIn(T, N, {}, Op)
    BY <1>1, <1>3, <1>4 DEF StaysIn
  <1>6. PICK f : Recurses(f, T, N, {}, Op)
    BY <1>5, RecursionUpto
  <1> DEFINE g == [k \in 0..N |-> f[k]]
  <1>7. g = [k \in 0..N |-> Step(g, k)]
    <2>1. ASSUME NEW k \in 0..N PROVE f[k] = Step(g, k)
      <3>1. k # 0 => k \in 1..N /\ k - 1 \in 0..N
        BY <1>1
      <3>2. QED
        BY <1>4, <1>6, <3>1 DEF Recurses
    <2>2. QED
      BY <2>1
  <1> HIDE DEF g, Step
  <1>8. it = [k \in 0..N |-> Step(it, k)]
    BY <1>7
  <1> HIDE DEF it
  <1>9. \A k \in 0..N : it[k] = Step(it, k)
    BY <1>8
  <1>10. it[0] = {} /\ \A k \in 1..N : it[k] = From(it[k - 1])
    <2>1. 0 \in 0..N /\ \A k \in 1..N : k \in 0..N /\ k # 0
      BY <1>1
    <2>2. QED
      BY <1>9, <2>1 DEF Step
  <1>11. QED
    BY <1>2, <1>10 DEF HoldingBy, From, N

\* The entities that are reached, one level after another.
ReachedBy(f) ==
  f[0] = Referred(document) /\ \A k \in 1..MaxDepth : f[k] = f[k - 1] \cup UNION {Referred(Replacement[name]) : name \in f[k - 1]}

\* So it is.
LEMMA ReachedIsDefined == \E f : ReachedBy(f) /\ Reached = f[MaxDepth]
  <1> DEFINE N == MaxDepth
             T == SUBSET DOMAIN Replacement
             From(p) == p \cup UNION {Referred(Replacement[name]) : name \in p}
             Op == [x \in (1..N) \X T |-> From(x[2])]
             Step(f, k) == IF k = 0 THEN Referred(document) ELSE From(f[k - 1])
             it == CHOOSE f : f = [k \in 0..N |-> Step(f, k)]
  <1>1. N \in Nat
    BY DepthAssumption
  <1>2. Reached = it[N]
    BY DEF Reached
  <1>3. Referred(document) \in T /\ \A p \in T : From(p) \in T
    BY DEF Referred
  <1> HIDE DEF From, N, T
  <1>4. \A k \in 1..N, p \in T : Op[<<k, p>>] = From(p)
    OBVIOUS
  <1> HIDE DEF Op
  <1>5. StaysIn(T, N, Referred(document), Op)
    BY <1>1, <1>3, <1>4 DEF StaysIn
  <1>6. PICK f : Recurses(f, T, N, Referred(document), Op)
    BY <1>5, RecursionUpto
  <1> DEFINE g == [k \in 0..N |-> f[k]]
  <1>7. g = [k \in 0..N |-> Step(g, k)]
    <2>1. ASSUME NEW k \in 0..N PROVE f[k] = Step(g, k)
      <3>1. k # 0 => k \in 1..N /\ k - 1 \in 0..N
        BY <1>1
      <3>2. QED
        BY <1>4, <1>6, <3>1 DEF Recurses
    <2>2. QED
      BY <2>1
  <1> HIDE DEF g, Step
  <1>8. it = [k \in 0..N |-> Step(it, k)]
    BY <1>7
  <1> HIDE DEF it
  <1>9. \A k \in 0..N : it[k] = Step(it, k)
    BY <1>8
  <1>10. it[0] = Referred(document) /\ \A k \in 1..N : it[k] = From(it[k - 1])
    <2>1. 0 \in 0..N /\ \A k \in 1..N : k \in 0..N /\ k # 0
      BY <1>1
    <2>2. QED
      BY <1>9, <2>1 DEF Step
  <1>11. QED
    BY <1>2, <1>10 DEF ReachedBy, From, N

\* The open elements, one token after another.
OpenedBy(f, text, scope) ==
  f[0] = <<>> /\ \A k \in 1..Len(text) : f[k] = After(f[k - 1], text[k], scope)

\* So it is.
LEMMA OpenedIsDefined ==
  ASSUME NEW text, Len(text) \in Nat, NEW scope
  PROVE  OpenedBy(Opened(text, scope), text, scope)
  <1> DEFINE N == Len(text)
             From(p, k) == After(p, text[k], scope)
             Step(f, k) == IF k = 0 THEN <<>> ELSE From(f[k - 1], k)
             Defined == {n \in 0..N : \E f : f = [k \in 0..n |-> Step(f, k)]}
             it == CHOOSE f : f = [k \in 0..N |-> Step(f, k)]
  <1>1. N \in Nat
    OBVIOUS
  <1>2. ASSUME NEW f, NEW g, NEW k \in 0..N, k # 0 => f[k - 1] = g[k - 1]
        PROVE  Step(f, k) = Step(g, k)
    <2> HIDE DEF From
    <2>1. QED
      BY <1>2
  <1>3. Opened(text, scope) = it
    BY DEF Opened
  <1> HIDE DEF Step, From, N
  <1>4. 0 \in Defined
    <2> DEFINE g == [k \in 0..0 |-> Step(<<>>, k)]
    <2>1. ASSUME NEW k \in 0..0 PROVE g[k] = Step(g, k)
      <3>1. k = 0 /\ k \in 0..N
        BY <1>1
      <3>2. Step(<<>>, k) = Step(g, k)
        <4> HIDE DEF g
        <4>1. QED
          BY <1>2, <3>1
      <3>3. QED
        BY <3>2
    <2>2. g = [k \in 0..0 |-> Step(g, k)]
      BY <2>1
    <2> HIDE DEF g
    <2>3. QED
      BY <1>1, <2>2
  <1>5. ASSUME NEW n \in 1..N, n - 1 \in Defined PROVE n \in Defined
    <2>1. PICK f : f = [k \in 0..(n - 1) |-> Step(f, k)]
      BY <1>5
    <2> DEFINE g == [k \in 0..n |-> IF k = n THEN Step(f, n) ELSE f[k]]
    <2>2. ASSUME NEW k \in 0..n PROVE g[k] = Step(g, k)
      <3>1. k \in 0..N /\ (k # n => k \in 0..(n - 1)) /\ (k # 0 => k - 1 \in 0..n /\ k - 1 # n)
        BY <1>1
      <3>2. k # 0 => g[k - 1] = f[k - 1]
        BY <3>1
      <3>3. g[k] = IF k = n THEN Step(f, n) ELSE f[k]
        OBVIOUS
      <3> HIDE DEF g
      <3>4. Step(g, k) = Step(f, k)
        BY <1>2, <3>1, <3>2
      <3>5. k # n => f[k] = Step(f, k)
        BY <2>1, <3>1
      <3>6. QED
        BY <3>3, <3>4, <3>5
    <2>3. g = [k \in 0..n |-> Step(g, k)]
      BY <2>2
    <2>4. n \in 0..N
      BY <1>1
    <2> HIDE DEF g
    <2>5. QED
      BY <2>3, <2>4
  <1>6. \E f : f = [k \in 0..N |-> Step(f, k)]
    <2>1. N \in Defined
      <3> HIDE DEF Defined
      <3>1. 0..N \subseteq Defined
        BY <1>1, <1>4, <1>5, UptoInduction
      <3>2. QED
        BY <1>1, <3>1
    <2>2. QED
      BY <2>1
  <1>7. it = [k \in 0..N |-> Step(it, k)]
    BY <1>6
  <1> HIDE DEF it
  <1>8. \A k \in 0..N : it[k] = Step(it, k)
    BY <1>7
  <1>9. QED
    <2>1. it[0] = <<>>
      BY <1>1, <1>8 DEF Step
    <2>2. ASSUME NEW k \in 1..N PROVE it[k] = From(it[k - 1], k)
      <3>1. k \in 0..N /\ k # 0
        BY <1>1
      <3>2. QED
        BY <1>8, <3>1 DEF Step
    <2>3. QED
      BY <1>3, <2>1, <2>2 DEF OpenedBy, From, N

----------------------------------------
\* How deep the entities nest.

\* How deep the entities nest.
Ranks(rank) ==
  /\ rank \in [DOMAIN Replacement -> 1..MaxDepth]
  /\ \A name \in DOMAIN Replacement : \A inner \in Referred(Replacement[name]) :
       inner \in DOMAIN Replacement /\ rank[inner] < rank[name]

\* No entity is in itself.
LEMMA EntitiesNest == MaxDepth \in Nat /\ \E rank : Ranks(rank)
  <1>1. \A text : Referred(text) \subseteq DOMAIN Replacement
    BY DEF Referred
  <1>2. QED
    BY <1>1, DepthAssumption DEF Ranks

\* An entity referred to in a text.
LEMMA ReferredIs ==
  ASSUME NEW text, NEW i \in DOMAIN text, text[i].kind = "ref", text[i].name \in DOMAIN Replacement
  PROVE  text[i].name \in Referred(text)
  <1>1. text[i] \in {t \in Tokens(text) : t.kind = "ref"}
    BY DEF Tokens
  <1>2. QED
    BY <1>1 DEF Referred

\* What a text tells depends on the entities it refers to.
LEMMA EventsAgree ==
  ASSUME NEW text, NEW a, NEW b, DOMAIN a = DOMAIN Replacement, DOMAIN b = DOMAIN Replacement,
         \A name \in Referred(text) : a[name] = b[name]
  PROVE  Events(text, a) = Events(text, b)
  <1>1. ASSUME NEW i \in DOMAIN text PROVE EventsOf(text[i], a) = EventsOf(text[i], b)
    <2>1. CASE text[i].kind = "ref"
      <3>1. text[i].name \in DOMAIN Replacement => a[text[i].name] = b[text[i].name]
        BY <2>1, ReferredIs
      <3>2. QED
        BY <2>1, <3>1 DEF EventsOf
    <2>2. CASE text[i].kind # "ref"
      <3>1. /\ text[i].kind = "start" => EventsOf(text[i], a) = EventsOf(text[i], b)
            /\ text[i].kind = "empty" => EventsOf(text[i], a) = EventsOf(text[i], b)
            /\ text[i].kind = "end" => EventsOf(text[i], a) = EventsOf(text[i], b)
        BY DEF EventsOf
      <3>2. /\ text[i].kind \in {"char", "charref"} => EventsOf(text[i], a) = EventsOf(text[i], b)
            /\ text[i].kind = "cdata" => EventsOf(text[i], a) = EventsOf(text[i], b)
            /\ text[i].kind = "comment" => EventsOf(text[i], a) = EventsOf(text[i], b)
        BY DEF EventsOf
      <3>3. QED
        BY <2>2, <3>1, <3>2 DEF EventsOf
    <2>3. QED
      BY <2>1, <2>2
  <1>2. [i \in DOMAIN text |-> EventsOf(text[i], a)] = [i \in DOMAIN text |-> EventsOf(text[i], b)]
    BY <1>1
  <1>3. QED
    BY <1>2 DEF Events

\* Whether a text is well-formed depends on the entities it refers to.
LEMMA WellFormedAgree ==
  ASSUME NEW text, NEW scope, NEW a, NEW b,
         \A name \in Referred(text) : \A around : <<name, around>> \in a <=> <<name, around>> \in b
  PROVE  WellFormed(text, scope, a) <=> WellFormed(text, scope, b)
  <1>1. ASSUME NEW i \in DOMAIN text, NEW open
        PROVE  Legal(open, text[i], scope, a) <=> Legal(open, text[i], scope, b)
    <2>1. text[i].kind = "ref" /\ text[i].name \in DOMAIN Replacement =>
            (<<text[i].name, InScope(open, scope)>> \in a <=> <<text[i].name, InScope(open, scope)>> \in b)
      BY ReferredIs
    <2>2. QED
      BY <2>1 DEF Legal
  <1>2. QED
    BY <1>1 DEF WellFormed

\* What is told of an entity is what its text tells.
LEMMA ToldEquation ==
  Told = [name \in DOMAIN Replacement |-> Events(Replacement[name], Told)]
  <1>1. PICK f : ToldBy(f) /\ Told = f[MaxDepth]
    BY ToldIsDefined
  <1>2. MaxDepth \in Nat
    BY EntitiesNest
  <1>3. PICK rank : Ranks(rank)
    BY EntitiesNest
  <1> DEFINE Stable(k) == k < MaxDepth => \A name \in DOMAIN Replacement :
                            rank[name] <= k => f[k + 1][name] = f[k][name]
             Good == {k \in 0..MaxDepth : Stable(k)}
  <1>4. \A name \in DOMAIN Replacement : rank[name] \in 1..MaxDepth
    BY <1>3 DEF Ranks
  <1>5. ASSUME NEW k \in 0..MaxDepth PROVE DOMAIN f[k] = DOMAIN Replacement
    <2>1. k = 0 \/ k \in 1..MaxDepth
      BY <1>2
    <2>2. QED
      BY <1>1, <2>1 DEF ToldBy
  <1>6. ASSUME NEW k \in 1..MaxDepth, NEW name \in DOMAIN Replacement
        PROVE  f[k][name] = Events(Replacement[name], f[k - 1])
    BY <1>1 DEF ToldBy
  <1>7. ASSUME NEW k \in 1..MaxDepth, Stable(k - 1), NEW name \in DOMAIN Replacement, rank[name] <= k
        PROVE  Events(Replacement[name], f[k]) = f[k][name]
    <2>1. \A inner \in Referred(Replacement[name]) : inner \in DOMAIN Replacement /\ rank[inner] <= k - 1
      BY <1>3, <1>4, <1>7 DEF Ranks
    <2>2. k - 1 < MaxDepth /\ (k - 1) + 1 = k /\ k - 1 \in 0..MaxDepth /\ k \in 0..MaxDepth
      BY <1>2
    <2>3. \A inner \in Referred(Replacement[name]) : f[k][inner] = f[k - 1][inner]
      BY <1>7, <2>1, <2>2
    <2>4. Events(Replacement[name], f[k]) = Events(Replacement[name], f[k - 1])
      BY <1>5, <2>2, <2>3, EventsAgree
    <2>5. QED
      BY <1>6, <2>4
  <1>8. 0 \in Good
    BY <1>2, <1>4
  <1>9. ASSUME NEW k \in 1..MaxDepth, k - 1 \in Good PROVE k \in Good
    <2>1. ASSUME k < MaxDepth, NEW name \in DOMAIN Replacement, rank[name] <= k
          PROVE  f[k + 1][name] = f[k][name]
      <3>1. Stable(k - 1)
        BY <1>9
      <3>2. Events(Replacement[name], f[k]) = f[k][name]
        <4> HIDE DEF Stable
        <4>1. QED
          BY <1>7, <2>1, <3>1
      <3>3. k + 1 \in 1..MaxDepth /\ (k + 1) - 1 = k
        BY <1>2, <2>1
      <3>4. f[k + 1][name] = Events(Replacement[name], f[(k + 1) - 1])
        BY <1>6, <3>3
      <3>5. QED
        BY <3>2, <3>3, <3>4
    <2>2. QED
      BY <1>2, <2>1
  <1> HIDE DEF Good
  <1>10. 0..MaxDepth \subseteq Good
    BY <1>2, <1>8, <1>9, UptoInduction
  <1>11. ASSUME NEW name \in DOMAIN Replacement PROVE f[MaxDepth][name] = Events(Replacement[name], f[MaxDepth])
    <2>1. MaxDepth \in 1..MaxDepth /\ rank[name] <= MaxDepth /\ MaxDepth - 1 \in 0..MaxDepth
      BY <1>2, <1>4
    <2>2. Stable(MaxDepth - 1)
      BY <1>10, <2>1 DEF Good
    <2> HIDE DEF Stable
    <2>3. QED
      BY <1>7, <2>1, <2>2
  <1>12. DOMAIN f[MaxDepth] = DOMAIN Replacement /\ f[MaxDepth] = [name \in DOMAIN f[MaxDepth] |-> f[MaxDepth][name]]
    <2>1. MaxDepth \in 0..MaxDepth
      BY <1>2
    <2>2. MaxDepth = 0 \/ MaxDepth \in 1..MaxDepth
      BY <1>2
    <2>3. QED
      BY <1>1, <1>5, <2>1, <2>2 DEF ToldBy
  <1>13. QED
    BY <1>1, <1>11, <1>12

\* The uses of entities: a name, and the prefixes around it.
Uses == (DOMAIN Replacement) \X SUBSET (Names \cup {"xml"})

\* An entity fits just when its text is well-formed, with those that fit.
LEMMA FittingEquation ==
  \A name \in DOMAIN Replacement, around \in SUBSET (Names \cup {"xml"}) :
    <<name, around>> \in Fitting <=> WellFormed(Replacement[name], around, Fitting)
  <1>1. PICK f : FittingBy(f) /\ Fitting = f[MaxDepth]
    BY FittingIsDefined
  <1>2. MaxDepth \in Nat
    BY EntitiesNest
  <1>3. PICK rank : Ranks(rank)
    BY EntitiesNest
  <1> DEFINE Stable(k) == k < MaxDepth => \A name \in DOMAIN Replacement : rank[name] <= k =>
                            \A around : <<name, around>> \in f[k + 1] <=> <<name, around>> \in f[k]
             Good == {k \in 0..MaxDepth : Stable(k)}
  <1>4. \A name \in DOMAIN Replacement : rank[name] \in 1..MaxDepth
    BY <1>3 DEF Ranks
  <1>5. ASSUME NEW k \in 1..MaxDepth, NEW name \in DOMAIN Replacement, NEW around
        PROVE  <<name, around>> \in f[k] <=> /\ around \in SUBSET (Names \cup {"xml"})
                                            /\ WellFormed(Replacement[name], around, f[k - 1])
    <2>1. f[k] = {use \in Uses : WellFormed(Replacement[use[1]], use[2], f[k - 1])}
      BY <1>1 DEF FittingBy, Uses
    <2>2. <<name, around>> \in Uses <=> around \in SUBSET (Names \cup {"xml"})
      BY DEF Uses
    <2>3. QED
      BY <2>1, <2>2
  <1>6. ASSUME NEW k \in 1..MaxDepth, Stable(k - 1), NEW name \in DOMAIN Replacement, rank[name] <= k,
               NEW around \in SUBSET (Names \cup {"xml"})
        PROVE  WellFormed(Replacement[name], around, f[k]) <=> <<name, around>> \in f[k]
    <2>1. \A inner \in Referred(Replacement[name]) : inner \in DOMAIN Replacement /\ rank[inner] <= k - 1
      BY <1>3, <1>4, <1>6 DEF Ranks
    <2>2. k - 1 < MaxDepth /\ (k - 1) + 1 = k
      BY <1>2
    <2>3. \A inner \in Referred(Replacement[name]) : \A a : <<inner, a>> \in f[k] <=> <<inner, a>> \in f[k - 1]
      BY <1>6, <2>1, <2>2
    <2>4. WellFormed(Replacement[name], around, f[k]) <=> WellFormed(Replacement[name], around, f[k - 1])
      BY <2>3, WellFormedAgree
    <2>5. QED
      BY <1>5, <2>4
  <1>7. 0 \in Good
    BY <1>2, <1>4
  <1>8. ASSUME NEW k \in 1..MaxDepth, k - 1 \in Good PROVE k \in Good
    <2>1. ASSUME k < MaxDepth, NEW name \in DOMAIN Replacement, rank[name] <= k, NEW around
          PROVE  <<name, around>> \in f[k + 1] <=> <<name, around>> \in f[k]
      <3>1. Stable(k - 1)
        BY <1>8
      <3> HIDE DEF Stable
      <3>2. k + 1 \in 1..MaxDepth /\ (k + 1) - 1 = k
        BY <1>2, <2>1
      <3>3. <<name, around>> \in f[k + 1] <=> /\ around \in SUBSET (Names \cup {"xml"})
                                             /\ WellFormed(Replacement[name], around, f[(k + 1) - 1])
        BY <1>5, <3>2
      <3>4. around \in SUBSET (Names \cup {"xml"}) =>
              (WellFormed(Replacement[name], around, f[k]) <=> <<name, around>> \in f[k])
        BY <1>6, <2>1, <3>1
      <3>5. QED
        BY <1>5, <3>2, <3>3, <3>4
    <2>2. QED
      BY <1>2, <2>1
  <1> HIDE DEF Good
  <1>9. 0..MaxDepth \subseteq Good
    BY <1>2, <1>7, <1>8, UptoInduction
  <1>10. ASSUME NEW name \in DOMAIN Replacement, NEW around \in SUBSET (Names \cup {"xml"})
         PROVE  <<name, around>> \in f[MaxDepth] <=> WellFormed(Replacement[name], around, f[MaxDepth])
    <2>1. MaxDepth \in 1..MaxDepth /\ rank[name] <= MaxDepth /\ MaxDepth - 1 \in 0..MaxDepth
      BY <1>2, <1>4
    <2>2. Stable(MaxDepth - 1)
      BY <1>9, <2>1 DEF Good
    <2> HIDE DEF Stable
    <2>3. QED
      BY <1>6, <2>1, <2>2
  <1>11. QED
    BY <1>1, <1>10

\* An entity holds an element if its text has one or refers to an entity
\* that does.
LEMMA HoldingClosed ==
  \A name \in DOMAIN Replacement :
    \/ \E token \in Tokens(Replacement[name]) : IsTag(token)
    \/ Referred(Replacement[name]) \cap Holding # {}
    => name \in Holding
  <1>1. PICK f : HoldingBy(f) /\ Holding = f[MaxDepth]
    BY HoldingIsDefined
  <1>2. MaxDepth \in Nat
    BY EntitiesNest
  <1>3. PICK rank : Ranks(rank)
    BY EntitiesNest
  <1> DEFINE Stable(k) == k < MaxDepth => \A name \in DOMAIN Replacement :
                            rank[name] <= k => (name \in f[k + 1] => name \in f[k])
             Good == {k \in 0..MaxDepth : Stable(k)}
             Held(name, k) == \/ \E token \in Tokens(Replacement[name]) : IsTag(token)
                              \/ Referred(Replacement[name]) \cap f[k] # {}
  <1>4. \A name \in DOMAIN Replacement : rank[name] \in 1..MaxDepth
    BY <1>3 DEF Ranks
  <1>5. ASSUME NEW k \in 1..MaxDepth, NEW name \in DOMAIN Replacement
        PROVE  name \in f[k] <=> Held(name, k - 1)
    BY <1>1 DEF HoldingBy
  <1>6. ASSUME NEW k \in 1..MaxDepth, Stable(k - 1), NEW name \in DOMAIN Replacement, rank[name] <= k,
               Held(name, k)
        PROVE  name \in f[k]
    <2>1. \A inner \in Referred(Replacement[name]) : inner \in DOMAIN Replacement /\ rank[inner] <= k - 1
      BY <1>3, <1>4, <1>6 DEF Ranks
    <2>2. k - 1 < MaxDepth /\ (k - 1) + 1 = k
      BY <1>2
    <2>3. \A inner \in Referred(Replacement[name]) : inner \in f[k] => inner \in f[k - 1]
      BY <1>6, <2>1, <2>2
    <2>4. Held(name, k - 1)
      BY <1>6, <2>3
    <2> HIDE DEF Held
    <2>5. QED
      BY <1>5, <2>4
  <1>7. 0 \in Good
    BY <1>2, <1>4
  <1>8. ASSUME NEW k \in 1..MaxDepth, k - 1 \in Good PROVE k \in Good
    <2>1. ASSUME k < MaxDepth, NEW name \in DOMAIN Replacement, rank[name] <= k, name \in f[k + 1]
          PROVE  name \in f[k]
      <3>1. Stable(k - 1)
        BY <1>8
      <3> HIDE DEF Stable, Held
      <3>2. k + 1 \in 1..MaxDepth /\ (k + 1) - 1 = k
        BY <1>2, <2>1
      <3>3. Held(name, k)
        BY <1>5, <2>1, <3>2
      <3>4. QED
        BY <1>6, <2>1, <3>1, <3>3
    <2>2. QED
      BY <1>2, <2>1
  <1> HIDE DEF Good
  <1>9. 0..MaxDepth \subseteq Good
    BY <1>2, <1>7, <1>8, UptoInduction
  <1>10. ASSUME NEW name \in DOMAIN Replacement, Held(name, MaxDepth)
         PROVE  name \in f[MaxDepth]
    <2>1. MaxDepth \in 1..MaxDepth /\ rank[name] <= MaxDepth /\ MaxDepth - 1 \in 0..MaxDepth
      BY <1>2, <1>4
    <2>2. Stable(MaxDepth - 1)
      BY <1>9, <2>1 DEF Good
    <2> HIDE DEF Stable, Held
    <2>3. QED
      BY <1>6, <1>10, <2>1, <2>2
  <1>11. QED
    BY <1>1, <1>10

\* What a text that is reached refers to is reached.
LEMMA ReachedClosed ==
  /\ Referred(document) \subseteq Reached
  /\ \A name \in Reached : name \in DOMAIN Replacement /\ Referred(Replacement[name]) \subseteq Reached
  <1>1. PICK f : ReachedBy(f) /\ Reached = f[MaxDepth]
    BY ReachedIsDefined
  <1>2. MaxDepth \in Nat
    BY EntitiesNest
  <1>3. PICK rank : Ranks(rank)
    BY EntitiesNest
  <1>31. \A text : Referred(text) \subseteq DOMAIN Replacement
    BY DEF Referred
  <1>4. \A name \in DOMAIN Replacement : rank[name] \in 1..MaxDepth
    BY <1>3 DEF Ranks
  <1>5. ASSUME NEW k \in 1..MaxDepth
        PROVE  f[k] = f[k - 1] \cup UNION {Referred(Replacement[name]) : name \in f[k - 1]}
    BY <1>1 DEF ReachedBy
  \* Names that are new on a level nest so much less.
  <1> DEFINE Good == {k \in 0..MaxDepth : f[k] \subseteq DOMAIN Replacement /\ Referred(document) \subseteq f[k]
                        /\ \A name \in f[k] : (k > 0 => name \in f[k - 1]) \/ rank[name] + k <= MaxDepth}
  <1>6. 0 \in Good
    BY <1>1, <1>2, <1>4, <1>31 DEF ReachedBy
  <1>7. ASSUME NEW k \in 1..MaxDepth, k - 1 \in Good PROVE k \in Good
    <2>1. k \in 0..MaxDepth /\ k > 0 /\ k \in Nat /\ MaxDepth \in Nat
      BY <1>2
    <2>2. /\ f[k - 1] \subseteq DOMAIN Replacement /\ Referred(document) \subseteq f[k - 1]
          /\ \A name \in f[k - 1] : (k - 1 > 0 => name \in f[(k - 1) - 1]) \/ rank[name] + (k - 1) <= MaxDepth
      BY <1>7
    <2>3. f[k] \subseteq DOMAIN Replacement /\ Referred(document) \subseteq f[k]
      BY <1>5, <1>31, <2>2
    <2>4. ASSUME NEW name \in f[k], name \notin f[k - 1] PROVE rank[name] + k <= MaxDepth
      <3>1. PICK other \in f[k - 1] : name \in Referred(Replacement[other])
        BY <1>5, <2>4
      <3>2. rank[name] < rank[other] /\ rank[name] \in Nat /\ rank[other] \in Nat
        BY <1>3, <1>4, <2>2, <2>3, <3>1 DEF Ranks
      <3>3. ASSUME k - 1 > 0, other \in f[(k - 1) - 1] PROVE FALSE
        <4>1. k - 1 \in 1..MaxDepth
          BY <2>1, <3>3
        <4>2. f[k - 1] = f[(k - 1) - 1] \cup UNION {Referred(Replacement[n]) : n \in f[(k - 1) - 1]}
          BY <1>5, <4>1
        <4>3. QED
          BY <2>4, <3>1, <3>3, <4>2
      <3>4. rank[other] + (k - 1) <= MaxDepth
        BY <1>4, <2>1, <2>2, <3>3, <3>1
      <3>5. QED
        BY <2>1, <3>2, <3>4
    <2>5. QED
      BY <2>1, <2>3, <2>4
  <1> HIDE DEF Good
  <1>8. 0..MaxDepth \subseteq Good
    BY <1>2, <1>6, <1>7, UptoInduction
  <1>9. MaxDepth \in Good
    BY <1>2, <1>8
  <1>10. f[MaxDepth] \subseteq DOMAIN Replacement /\ Referred(document) \subseteq f[MaxDepth]
    BY <1>9 DEF Good
  <1>11. ASSUME NEW name \in f[MaxDepth] PROVE Referred(Replacement[name]) \subseteq f[MaxDepth]
    <2>1. rank[name] \in 1..MaxDepth
      BY <1>4, <1>10
    <2>2. name \in f[MaxDepth - 1]
      BY <1>2, <1>9, <2>1 DEF Good
    <2>3. QED
      BY <1>2, <1>5, <2>1, <2>2
  <1>12. QED
    BY <1>1, <1>10, <1>11

----------------------------------------
\* Open elements.

\* The rest of a text, read with some elements open.
Stacks(f, text, open, scope) ==
  f[0] = open /\ \A k \in 1..Len(text) : f[k] = After(f[k - 1], text[k], scope)
ReadTo(f, text, open, scope) ==
  /\ Stacks(f, text, open, scope)
  /\ \A k \in 1..Len(text) : Legal(f[k - 1], text[k], scope, Fitting)
  /\ f[Len(text)] = <<>>
Continues(text, open, scope) == \E f : ReadTo(f, text, open, scope)

\* A text is well-formed when it is read from its beginning.
LEMMA ContinuesFirst ==
  ASSUME NEW S, NEW text \in Seq(S), NEW scope
  PROVE  WellFormed(text, scope, Fitting) <=> Continues(text, <<>>, scope)
  <1>1. Len(text) \in Nat /\ DOMAIN text = 1..Len(text)
    OBVIOUS
  <1> DEFINE opened == Opened(text, scope)
  <1>2. Stacks(opened, text, <<>>, scope)
    BY <1>1, OpenedIsDefined DEF OpenedBy, Stacks
  <1>3. ASSUME NEW f, Stacks(f, text, <<>>, scope) PROVE \A k \in 0..Len(text) : f[k] = opened[k]
    <2> DEFINE Good == {k \in 0..Len(text) : f[k] = opened[k]}
    <2> HIDE DEF opened
    <2>1. 0 \in Good
      BY <1>1, <1>2, <1>3 DEF Stacks
    <2>2. ASSUME NEW k \in 1..Len(text), k - 1 \in Good PROVE k \in Good
      <3>1. f[k] = After(f[k - 1], text[k], scope) /\ opened[k] = After(opened[k - 1], text[k], scope)
        BY <1>2, <1>3 DEF Stacks
      <3>2. f[k - 1] = opened[k - 1]
        BY <2>2
      <3>3. QED
        BY <1>1, <3>1, <3>2
    <2> HIDE DEF Good
    <2>3. 0..Len(text) \subseteq Good
      BY <1>1, <2>1, <2>2, UptoInduction
    <2>4. QED
      BY <2>3 DEF Good
  <1>4. WellFormed(text, scope, Fitting) <=>
          /\ \A k \in 1..Len(text) : Legal(opened[k - 1], text[k], scope, Fitting)
          /\ opened[Len(text)] = <<>>
    BY <1>1 DEF WellFormed
  <1> HIDE DEF opened
  <1>5. ASSUME WellFormed(text, scope, Fitting) PROVE Continues(text, <<>>, scope)
    BY <1>2, <1>4, <1>5 DEF Continues, ReadTo
  <1>6. ASSUME Continues(text, <<>>, scope) PROVE WellFormed(text, scope, Fitting)
    <2>1. PICK f : ReadTo(f, text, <<>>, scope)
      BY <1>6 DEF Continues
    <2>2. \A k \in 0..Len(text) : f[k] = opened[k]
      BY <1>3, <2>1 DEF ReadTo
    <2>3. \A k \in 1..Len(text) : f[k - 1] = opened[k - 1]
      BY <1>1, <2>2
    <2>4. f[Len(text)] = opened[Len(text)]
      BY <1>1, <2>2
    <2>5. QED
      BY <1>4, <2>1, <2>3, <2>4 DEF ReadTo
  <1>7. QED
    BY <1>5, <1>6

\* Nothing is left to read.
LEMMA ContinuesEmpty ==
  ASSUME NEW open, NEW scope
  PROVE  Continues(<<>>, open, scope) <=> open = <<>>
  <1>1. Len(<<>>) = 0 /\ 1..0 = {}
    OBVIOUS
  <1>2. \A f : ReadTo(f, <<>>, open, scope) <=> f[0] = open /\ f[0] = <<>>
    BY <1>1 DEF ReadTo, Stacks
  <1>3. ASSUME open = <<>> PROVE Continues(<<>>, open, scope)
    <2> DEFINE f == [k \in {0} |-> open]
    <2>1. f[0] = open
      OBVIOUS
    <2> HIDE DEF f
    <2>2. ReadTo(f, <<>>, open, scope)
      BY <1>2, <1>3, <2>1
    <2>3. QED
      BY <2>2 DEF Continues
  <1>4. QED
    BY <1>2, <1>3 DEF Continues

\* One token, then the rest.
LEMMA ContinuesHead ==
  ASSUME NEW S, NEW text \in Seq(S), text # <<>>, NEW open, NEW scope
  PROVE  Continues(text, open, scope) <=>
           /\ Legal(open, Head(text), scope, Fitting)
           /\ Continues(Tail(text), After(open, Head(text), scope), scope)
  <1>1. PICK N \in Nat : N + 1 = Len(text) /\ Len(Tail(text)) = N
    <2>1. Len(text) \in Nat /\ Len(text) # 0 /\ Len(Tail(text)) = Len(text) - 1
      OBVIOUS
    <2>2. Len(text) - 1 \in Nat /\ (Len(text) - 1) + 1 = Len(text)
      BY <2>1
    <2>3. QED
      BY <2>1, <2>2
  <1>2. text[1] = Head(text) /\ \A k \in 1..N : Tail(text)[k] = text[k + 1]
    BY <1>1
  <1> DEFINE rest == Tail(text)
             next == After(open, Head(text), scope)
  <1>3. ASSUME Continues(text, open, scope)
        PROVE  Legal(open, Head(text), scope, Fitting) /\ Continues(rest, next, scope)
    <2>1. PICK f : ReadTo(f, text, open, scope)
      BY <1>3 DEF Continues
    <2>2. f[0] = open /\ \A k \in 1..(N + 1) : /\ f[k] = After(f[k - 1], text[k], scope)
                                               /\ Legal(f[k - 1], text[k], scope, Fitting)
      BY <1>1, <2>1 DEF ReadTo, Stacks
    <2>3. f[N + 1] = <<>>
      BY <1>1, <2>1 DEF ReadTo
    <2> DEFINE g == [k \in 0..N |-> f[k + 1]]
    <2>4. 1 \in 1..(N + 1) /\ 1 - 1 = 0
      BY <1>1
    <2>5. f[1] = next /\ Legal(open, Head(text), scope, Fitting)
      BY <1>2, <2>2, <2>4
    <2>6. g[0] = next
      <3>1. 0 \in 0..N /\ 0 + 1 = 1
        BY <1>1
      <3>2. QED
        BY <2>5, <3>1
    <2>7. ASSUME NEW k \in 1..N
          PROVE  g[k] = After(g[k - 1], rest[k], scope) /\ Legal(g[k - 1], rest[k], scope, Fitting)
      <3>1. k + 1 \in 1..(N + 1) /\ (k + 1) - 1 = k /\ k - 1 \in 0..N /\ (k - 1) + 1 = k /\ k \in 0..N
        BY <1>1
      <3>2. g[k] = f[k + 1] /\ g[k - 1] = f[k]
        BY <3>1
      <3> HIDE DEF g
      <3>3. f[k + 1] = After(f[(k + 1) - 1], text[k + 1], scope) /\ Legal(f[(k + 1) - 1], text[k + 1], scope, Fitting)
        BY <2>2, <3>1
      <3>4. rest[k] = text[k + 1]
        BY <1>2
      <3>5. QED
        BY <3>1, <3>2, <3>3, <3>4
    <2>8. g[N] = <<>>
      BY <1>1, <2>3
    <2> HIDE DEF g, rest, next
    <2>9. ReadTo(g, rest, next, scope)
      BY <1>1, <2>6, <2>7, <2>8 DEF ReadTo, Stacks, rest
    <2>10. QED
      BY <2>5, <2>9 DEF Continues
  <1>4. ASSUME Legal(open, Head(text), scope, Fitting), Continues(rest, next, scope)
        PROVE  Continues(text, open, scope)
    <2>1. PICK g : ReadTo(g, rest, next, scope)
      BY <1>4 DEF Continues
    <2>2. g[0] = next /\ g[N] = <<>>
          /\ \A k \in 1..N : /\ g[k] = After(g[k - 1], rest[k], scope)
                             /\ Legal(g[k - 1], rest[k], scope, Fitting)
      BY <1>1, <2>1 DEF ReadTo, Stacks
    <2> DEFINE f == [k \in 0..(N + 1) |-> IF k = 0 THEN open ELSE g[k - 1]]
    <2>3. f[0] = open /\ \A k \in 1..(N + 1) : f[k] = g[k - 1]
      BY <1>1
    <2> HIDE DEF f
    <2>4. f[N + 1] = <<>>
      <3>1. N + 1 \in 1..(N + 1) /\ (N + 1) - 1 = N
        BY <1>1
      <3>2. QED
        BY <2>2, <2>3, <3>1
    <2>5. ASSUME NEW k \in 1..(N + 1)
          PROVE  f[k] = After(f[k - 1], text[k], scope) /\ Legal(f[k - 1], text[k], scope, Fitting)
      <3>1. CASE k = 1
        <4>1. k - 1 = 0
          BY <3>1
        <4>2. f[k] = next /\ f[k - 1] = open /\ text[k] = Head(text)
          BY <1>2, <2>2, <2>3, <3>1, <4>1
        <4>3. QED
          BY <1>4, <4>2
      <3>2. CASE k # 1
        <4>1. k - 1 \in 1..N /\ k - 1 \in 1..(N + 1) /\ (k - 1) + 1 = k
          BY <1>1, <3>2
        <4>2. f[k] = g[k - 1] /\ f[k - 1] = g[(k - 1) - 1]
          BY <2>3, <4>1
        <4>3. rest[k - 1] = text[k]
          BY <1>2, <4>1
        <4> HIDE DEF rest, next
        <4>4. g[k - 1] = After(g[(k - 1) - 1], rest[k - 1], scope) /\ Legal(g[(k - 1) - 1], rest[k - 1], scope, Fitting)
          BY <2>2, <4>1
        <4>5. QED
          BY <4>2, <4>3, <4>4
      <3>3. QED
        BY <3>1, <3>2
    <2>6. ReadTo(f, text, open, scope)
      BY <1>1, <2>3, <2>4, <2>5 DEF ReadTo, Stacks
    <2>7. QED
      BY <2>6 DEF Continues
  <1>5. QED
    BY <1>3, <1>4

----------------------------------------
\* What is left to read, call by call.

\* The open elements and the prefixes around a text, after each call.
Scopes == SUBSET (Names \cup {"xml"})
OpenElement == [tag : {<<>>} \cup Tags, prefixes : Scopes]
Level == [open : Seq(OpenElement), scope : Scopes]

OpenIn(level) == InScope(level.open, level.scope)
NodeAt(k) == IF k = 0 THEN 1 ELSE calls[k].node

InElement(level, node) ==
  [open |-> Append(level.open, Element(node.tag, node.prefixes \cup {"xml"})), scope |-> level.scope]
InEntity(level) == [open |-> <<>>, scope |-> OpenIn(level)]
Entered(level, call) ==
  IF call.kind = "element" THEN InElement(level, nodes[call.node]) ELSE InEntity(level)

LevelsBy(l) ==
  /\ l[0] = [open |-> <<>>, scope |-> {"xml"}]
  /\ \A k \in 1..Len(calls) : l[k] = Entered(l[k - 1], calls[k])

\* An element has the prefixes that are declared where it is open.
LevelAt(level, i) ==
  /\ level \in Level
  /\ nodes[i].kind # "reference" => OpenIn(level) = nodes[i].prefixes \cup {"xml"}
Scoped(l) == \A k \in 0..Len(calls) : LevelAt(l[k], NodeAt(k))

\* What is left to read of each text makes the document well-formed.
RestsFit(l) ==
  /\ \A k \in 1..Len(calls) : calls[k].kind = "entity" =>
       Continues(calls[k].rest, l[k - 1].open, l[k - 1].scope)
  /\ Continues(input, l[Len(calls)].open, l[Len(calls)].scope)
Fits(l) ==
  /\ WellFormed(document, {"xml"}, Fitting) => RestsFit(l)
  /\ ~RootUnbound /\ RestsFit(l) => WellFormed(document, {"xml"}, Fitting)

\* What was read of the document itself.
At(rest, open, rooted) ==
  \E p \in 0..Len(document) :
    /\ rest = SubSeq(document, p + 1, Len(document)) /\ open = Opened(document, {"xml"})[p]
    /\ rooted => \E root \in 1..p : IsTag(document[root]) /\ \A i \in 1..p : i \in Outermost <=> i = root
    /\ ~rooted => \A i \in 1..p : Misc(document[i])
Inside(k) == \A j \in 1..k : calls[j].kind = "element"
Bottom(l) ==
  \A k \in 0..Len(calls) : Inside(k) =>
    /\ l[k].scope = {"xml"}
    /\ k = Len(calls) => At(input, l[k].open, HasRoot)
    /\ k < Len(calls) /\ calls[k + 1].kind = "entity" => At(calls[k + 1].rest, l[k].open, HasRoot)

ReadBy(l) == LevelsBy(l) /\ Scoped(l) /\ Fits(l) /\ Bottom(l)
ReadSoFar == document \in Seq(AnyToken) /\ (phase = "parsing" => \E l : ReadBy(l))

\* A token that opens, closes or replaces nothing.
LEMMA AfterStays ==
  ASSUME NEW token, token.kind \notin {"start", "end"}, NEW open, NEW scope
  PROVE  After(open, token, scope) = open
  BY DEF After

\* A comment or white space is nothing else.
LEMMA MiscIs ==
  ASSUME NEW token, Misc(token)
  PROVE  ~IsTag(token) /\ token.kind \notin {"start", "end", "empty", "ref"}
  BY DEF Misc, IsTag

\* One token of the document itself.
LEMMA AtNext ==
  ASSUME document \in Seq(AnyToken), NEW rest, rest # <<>>, NEW open,
         NEW rooted \in BOOLEAN, NEW after \in BOOLEAN, At(rest, open, rooted),
         \/ rooted /\ after /\ (open # <<>> \/ Misc(Head(rest)))
         \/ ~rooted /\ ~after /\ Misc(Head(rest))
         \/ ~rooted /\ after /\ open = <<>> /\ IsTag(Head(rest))
  PROVE  At(Tail(rest), After(open, Head(rest), {"xml"}), after)
  <1>1. PICK N \in Nat : N = Len(document) /\ DOMAIN document = 1..N
    OBVIOUS
  <1>2. PICK p \in 0..N :
          /\ rest = SubSeq(document, p + 1, N) /\ open = Opened(document, {"xml"})[p]
          /\ rooted => \E root \in 1..p : IsTag(document[root]) /\ \A i \in 1..p : i \in Outermost <=> i = root
          /\ ~rooted => \A i \in 1..p : Misc(document[i])
    BY <1>1 DEF At
  <1>3. p + 1 \in 1..N /\ p \in Nat /\ (p + 1) - 1 = p /\ p + 1 \in 0..N
    <2>1. p # N
      <3>1. p = N => SubSeq(document, p + 1, N) = <<>>
        BY <1>1
      <3>2. QED
        BY <1>2, <3>1
    <2>2. QED
      BY <1>1, <2>1
  <1>4. Head(rest) = document[p + 1] /\ Tail(rest) = SubSeq(document, (p + 1) + 1, N)
    BY <1>1, <1>2, <1>3
  <1> DEFINE opened == Opened(document, {"xml"})
  <1>5. \A k \in 1..N : opened[k] = After(opened[k - 1], document[k], {"xml"})
    BY <1>1, OpenedIsDefined DEF OpenedBy
  <1>6. opened[p + 1] = After(open, Head(rest), {"xml"})
    <2>1. opened[p + 1] = After(opened[(p + 1) - 1], document[p + 1], {"xml"})
      BY <1>3, <1>5
    <2>2. QED
      BY <1>2, <1>3, <1>4, <2>1
  <1>7. \A k \in 1..N : k \in Outermost <=> opened[k - 1] = <<>> /\ ~Misc(document[k])
    BY <1>1 DEF Outermost
  <1>8. p + 1 \in Outermost <=> open = <<>> /\ ~Misc(Head(rest))
    <2>1. p + 1 \in Outermost <=> opened[(p + 1) - 1] = <<>> /\ ~Misc(document[p + 1])
      BY <1>3, <1>7
    <2>2. QED
      BY <1>2, <1>3, <1>4, <2>1
  <1>9. \A i \in 1..(p + 1) : i \in 1..p \/ i = p + 1
    BY <1>3
  <1>10. after => \E root \in 1..(p + 1) : /\ IsTag(document[root])
                                          /\ \A i \in 1..(p + 1) : i \in Outermost <=> i = root
    <2>1. CASE rooted
      <3>1. PICK root \in 1..p : IsTag(document[root]) /\ \A i \in 1..p : i \in Outermost <=> i = root
        BY <1>2, <2>1
      <3>2. after => p + 1 \notin Outermost
        BY <1>8, <2>1
      <3>3. root \in 1..(p + 1) /\ root # p + 1
        BY <1>3
      <3>4. QED
        BY <1>9, <3>1, <3>2, <3>3
    <2>2. CASE ~rooted
      <3> SUFFICES ASSUME after
                   PROVE  \E root \in 1..(p + 1) : /\ IsTag(document[root])
                                                   /\ \A i \in 1..(p + 1) : i \in Outermost <=> i = root
        OBVIOUS
      <3>1. IsTag(document[p + 1]) /\ p + 1 \in Outermost
        BY <1>4, <1>8, <2>2, MiscIs
      <3>2. \A i \in 1..p : i \notin Outermost /\ i # p + 1
        <4>1. \A i \in 1..p : i \in 1..N /\ i # p + 1
          BY <1>1, <1>3
        <4>2. QED
          BY <1>2, <1>7, <2>2, <4>1
      <3>3. p + 1 \in 1..(p + 1)
        BY <1>3
      <3>4. QED
        BY <1>9, <3>1, <3>2, <3>3
    <2>3. QED
      BY <2>1, <2>2
  <1>11. ~after => \A i \in 1..(p + 1) : Misc(document[i])
    BY <1>2, <1>4, <1>9
  <1> HIDE DEF opened
  <1>12. QED
    BY <1>1, <1>3, <1>4, <1>6, <1>10, <1>11 DEF At, opened

\* It does not change with the tree.
LEMMA AtSame ==
  ASSUME UNCHANGED document
  PROVE  \A rest, open, rooted : At(rest, open, rooted)' <=> At(rest, open, rooted)
  <1>1. Outermost' = Outermost
    BY DEF Outermost, Opened, After, InScope, Element, Known, DeclaredBy, Misc
  <1>2. Opened(document, {"xml"})' = Opened(document, {"xml"})
    BY DEF Opened, After, InScope, Element, Known, DeclaredBy
  <1>3. QED
    BY <1>1, <1>2 DEF At, Misc, IsTag

\* The nodes keep what the calls and the levels depend on.
NodesSame ==
  /\ DOMAIN nodes \subseteq DOMAIN nodes'
  /\ \A i \in DOMAIN nodes : /\ nodes'[i].kind = nodes[i].kind /\ nodes'[i].tag = nodes[i].tag
                             /\ nodes'[i].prefixes = nodes[i].prefixes

\* The nodes of the calls.
LEMMA NodesAt ==
  ASSUME TypeInv, phase = "parsing"
  PROVE  /\ Len(calls) \in Nat /\ DOMAIN calls = 1..Len(calls) /\ calls \in Seq(CallIn(DOMAIN nodes))
         /\ \A k \in 0..Len(calls) : NodeAt(k) \in DOMAIN nodes
         /\ NodeAt(Len(calls)) = Target
         /\ calls = <<>> <=> Len(calls) = 0
         /\ Len(calls) > 0 => Last(calls) = calls[Len(calls)] /\ Target = calls[Len(calls)].node
  <1>1. calls \in Seq(CallIn(DOMAIN nodes))
    BY TypeFacts DEF CallType
  <1>2. Len(calls) \in Nat /\ DOMAIN calls = 1..Len(calls) /\ (calls = <<>> <=> Len(calls) = 0)
    BY <1>1
  <1>3. \A k \in 1..Len(calls) : calls[k].node \in DOMAIN nodes
    BY <1>1, <1>2, CallsShape
  <1>4. Target \in DOMAIN nodes /\ (calls = <<>> => Target = 1)
        /\ (calls # <<>> => Last(calls) = calls[Len(calls)] /\ Target = calls[Len(calls)].node)
    BY TargetIs
  <1>5. 1 \in DOMAIN nodes
    BY <1>4, TypeFacts
  <1>6. \A k \in 0..Len(calls) : NodeAt(k) \in DOMAIN nodes
    BY <1>2, <1>3, <1>5 DEF NodeAt
  <1>7. NodeAt(Len(calls)) = Target
    BY <1>2, <1>4 DEF NodeAt
  <1>8. QED
    BY <1>1, <1>2, <1>4, <1>6, <1>7

\* A level keeps its place.
LEMMA LevelStays ==
  ASSUME NodesSame, NEW level, NEW i \in DOMAIN nodes, LevelAt(level, i)
  PROVE  LevelAt(level, i)'
  BY DEF LevelAt, NodesSame

\* The prefixes at a level.
LEMMA OpenInType ==
  ASSUME NEW level \in Level
  PROVE  /\ OpenIn(level) \in Scopes /\ level.scope \in Scopes /\ level.open \in Seq(OpenElement)
         /\ OpenIn(level) = IF level.open = <<>> THEN level.scope ELSE Last(level.open).prefixes
  <1>1. level.scope \in Scopes /\ level.open \in Seq(OpenElement)
    BY DEF Level
  <1>2. OpenIn(level) = IF level.open = <<>> THEN level.scope ELSE Last(level.open).prefixes
    BY DEF OpenIn, InScope
  <1>3. level.open # <<>> => Last(level.open) \in OpenElement
    BY <1>1 DEF Last
  <1>4. QED
    BY <1>1, <1>2, <1>3 DEF OpenElement

\* What one more open element does to a level.
LEMMA ElementLevel ==
  ASSUME NEW level \in Level, NEW node \in Node
  PROVE  LET m == InElement(level, node)
         IN  /\ m \in Level /\ OpenIn(m) = node.prefixes \cup {"xml"} /\ m.scope = level.scope
             /\ m.open = Append(level.open, Element(node.tag, node.prefixes \cup {"xml"}))
             /\ m.open # <<>> /\ Last(m.open).tag = node.tag /\ Front(m.open) = level.open
  <1> DEFINE e == Element(node.tag, node.prefixes \cup {"xml"})
             m == InElement(level, node)
  <1>1. node.tag \in {<<>>} \cup Tags /\ node.prefixes \in SUBSET Names
    BY DEF Node
  <1>2. e \in OpenElement /\ e.prefixes = node.prefixes \cup {"xml"} /\ e.tag = node.tag
    BY <1>1 DEF Element, OpenElement, Scopes
  <1>3. level.scope \in Scopes /\ level.open \in Seq(OpenElement)
    BY DEF Level
  <1>4. PICK o \in Seq(OpenElement) : o = level.open
    BY <1>3
  <1> HIDE DEF e
  <1>5. m = [open |-> Append(o, e), scope |-> level.scope]
    BY <1>4 DEF InElement, e
  <1> HIDE DEF m
  <1>6. m.open = Append(o, e) /\ m.scope = level.scope /\ m \in Level
    BY <1>2, <1>3, <1>5 DEF Level
  <1>7. Append(o, e) # <<>> /\ Last(Append(o, e)) = e /\ Front(Append(o, e)) = o
    BY <1>2 DEF Last, Front
  <1>8. QED
    BY <1>2, <1>4, <1>6, <1>7 DEF OpenIn, InScope, m, e

\* A text of an entity in it.
LEMMA EntityLevel ==
  ASSUME NEW level \in Level
  PROVE  /\ InEntity(level) \in Level /\ OpenIn(InEntity(level)) = OpenIn(level)
         /\ InEntity(level).open = <<>> /\ InEntity(level).scope = OpenIn(level)
  <1>1. <<>> \in Seq(OpenElement)
    OBVIOUS
  <1>2. QED
    BY <1>1, OpenInType DEF InEntity, Level, OpenIn, InScope

\* The levels stay.
LEMMA LevelsStay ==
  ASSUME TypeInv, phase = "parsing", NodesSame, UNCHANGED calls, NEW l, LevelsBy(l), Scoped(l)
  PROVE  LevelsBy(l)' /\ Scoped(l)'
  <1>1. /\ Len(calls) \in Nat /\ \A k \in 0..Len(calls) : NodeAt(k) \in DOMAIN nodes
    BY NodesAt
  <1>2. ASSUME NEW k \in 1..Len(calls) PROVE Entered(l[k - 1], calls[k])' = Entered(l[k - 1], calls[k])
    <2>1. calls[k].node \in DOMAIN nodes
      BY <1>1 DEF NodeAt
    <2>2. QED
      BY <2>1 DEF Entered, InElement, InEntity, NodesSame, Element, OpenIn, InScope
  <1>3. LevelsBy(l)'
    BY <1>2 DEF LevelsBy
  <1>4. ASSUME NEW k \in 0..Len(calls) PROVE LevelAt(l[k], NodeAt(k))'
    <2>1. NodeAt(k)' = NodeAt(k)
      BY DEF NodeAt
    <2>2. LevelAt(l[k], NodeAt(k))
      BY DEF Scoped
    <2>3. PICK i \in DOMAIN nodes : i = NodeAt(k)
      BY <1>1
    <2>4. LevelAt(l[k], i)'
      BY <2>2, <2>3, LevelStays
    <2>5. QED
      BY <2>1, <2>3, <2>4 DEF LevelAt
  <1>5. QED
    BY <1>3, <1>4 DEF Scoped

\* The calls lose the last one.
LEMMA LevelsPopped ==
  ASSUME TypeInv, phase = "parsing", NodesSame, calls # <<>>, calls' = Front(calls),
         NEW l, LevelsBy(l), Scoped(l), NEW n \in Nat, n + 1 = Len(calls)
  PROVE  /\ LevelsBy(l)' /\ Scoped(l)'
         /\ Len(calls') = n /\ \A k \in 1..n : calls'[k] = calls[k]
  <1>1. /\ calls \in Seq(CallIn(DOMAIN nodes)) /\ \A k \in 0..(n + 1) : NodeAt(k) \in DOMAIN nodes
    BY NodesAt
  <1>2. Len(calls') = n /\ \A k \in 1..n : calls'[k] = calls[k]
    BY <1>1 DEF Front
  <1>3. ASSUME NEW k \in 1..n PROVE l[k] = Entered(l[k - 1], calls[k])'
    <2>1. k \in 1..(n + 1) /\ k \in 0..(n + 1)
      OBVIOUS
    <2>2. calls[k].node \in DOMAIN nodes
      BY <1>1, <2>1 DEF NodeAt
    <2>3. l[k] = Entered(l[k - 1], calls[k])
      BY <2>1 DEF LevelsBy
    <2>4. calls'[k] = calls[k]
      BY <1>2
    <2>5. QED
      BY <2>2, <2>3, <2>4 DEF Entered, InElement, InEntity, NodesSame, Element, OpenIn, InScope
  <1>4. LevelsBy(l)'
    BY <1>2, <1>3 DEF LevelsBy
  <1>5. ASSUME NEW k \in 0..n PROVE LevelAt(l[k], NodeAt(k))'
    <2>0. k \in 0..(n + 1) /\ (k # 0 => k \in 1..n)
      OBVIOUS
    <2>1. NodeAt(k)' = NodeAt(k)
      BY <1>2, <2>0 DEF NodeAt
    <2>2. LevelAt(l[k], NodeAt(k))
      BY <2>0 DEF Scoped
    <2>3. PICK i \in DOMAIN nodes : i = NodeAt(k)
      BY <1>1, <2>0
    <2>4. LevelAt(l[k], i)'
      BY <2>2, <2>3, LevelStays
    <2>5. QED
      BY <2>1, <2>3, <2>4 DEF LevelAt
  <1>6. QED
    BY <1>2, <1>4, <1>5 DEF Scoped

----------------------------------------
\* The calls get one more, or one less.

\* The calls get one more.
LEMMA LevelsPushed ==
  ASSUME TypeInv, phase = "parsing", NodesSame, NEW c, calls' = Append(calls, c),
         c \in CallIn(DOMAIN nodes'),
         NEW l, LevelsBy(l), Scoped(l), NEW n \in Nat, n = Len(calls),
         NEW level, level = Entered(l[n], c)', LevelAt(level, c.node)',
         NEW m, m[n + 1] = level, \A k \in 0..n : m[k] = l[k]
  PROVE  /\ LevelsBy(m)' /\ Scoped(m)'
         /\ Len(calls') = n + 1 /\ calls'[n + 1] = c /\ \A k \in 1..n : calls'[k] = calls[k]
  <1>1. /\ calls \in Seq(CallIn(DOMAIN nodes)) /\ \A k \in 0..n : NodeAt(k) \in DOMAIN nodes
    BY NodesAt
  <1>2. DOMAIN nodes \subseteq DOMAIN nodes'
    BY DEF NodesSame
  <1>3. calls \in Seq(CallIn(DOMAIN nodes'))
    BY <1>1, <1>2, CallsShape
  <1>4. /\ Len(calls') = n + 1 /\ calls'[n + 1] = c /\ \A k \in 1..n : calls'[k] = calls[k]
    BY <1>3
  <1>5. m[n + 1] = level /\ \A k \in 0..n : m[k] = l[k]
    OBVIOUS
  <1>6. ASSUME NEW k \in 1..(n + 1) PROVE m[k] = Entered(m[k - 1], calls[k])'
    <2>1. CASE k = n + 1
      <3>1. k - 1 = n /\ n \in 0..n
        BY <2>1
      <3>2. QED
        BY <1>4, <1>5, <2>1, <3>1
    <2>2. CASE k # n + 1
      <3>1. k \in 1..n /\ k \in 0..n /\ k - 1 \in 0..n
        BY <2>2
      <3>2. calls[k].node \in DOMAIN nodes
        BY <1>1, <3>1 DEF NodeAt
      <3>3. l[k] = Entered(l[k - 1], calls[k])
        BY <3>1 DEF LevelsBy
      <3>4. calls'[k] = calls[k] /\ m[k] = l[k] /\ m[k - 1] = l[k - 1]
        BY <1>4, <1>5, <3>1
      <3>6. QED
        BY <3>2, <3>3, <3>4 DEF Entered, InElement, InEntity, NodesSame, Element, OpenIn, InScope
    <2>3. QED
      BY <2>1, <2>2
  <1>7. m[0] = [open |-> <<>>, scope |-> {"xml"}]
    BY <1>5 DEF LevelsBy
  <1>8. LevelsBy(m)'
    BY <1>4, <1>6, <1>7 DEF LevelsBy
  <1>9. ASSUME NEW k \in 0..(n + 1) PROVE LevelAt(m[k], NodeAt(k))'
    <2>1. CASE k = n + 1
      <3>1. NodeAt(k)' = c.node
        BY <1>4, <2>1 DEF NodeAt
      <3>2. QED
        BY <1>5, <2>1, <3>1
    <2>2. CASE k # n + 1
      <3>0. k \in 0..n /\ (k # 0 => k \in 1..n)
        BY <2>2
      <3>1. NodeAt(k)' = NodeAt(k)
        BY <1>4, <3>0 DEF NodeAt
      <3>2. LevelAt(l[k], NodeAt(k))
        BY <3>0 DEF Scoped
      <3>3. PICK i \in DOMAIN nodes : i = NodeAt(k)
        BY <1>1, <3>0
      <3>4. LevelAt(l[k], i)'
        BY <3>2, <3>3, LevelStays
      <3>5. m[k] = l[k]
        BY <1>5, <3>0
      <3>6. QED
        BY <3>1, <3>3, <3>4, <3>5 DEF LevelAt
    <2>3. QED
      BY <2>1, <2>2
  <1>10. QED
    BY <1>4, <1>5, <1>8, <1>9 DEF Scoped

\* With calls in progress the root is there.
LEMMA RootWithin ==
  ASSUME TypeInv, phase = "parsing", calls # <<>>
  PROVE  HasRoot
  <1>1. 1 \in DOMAIN calls /\ 1 \in 1..Len(calls)
    BY NodesAt
  <1>2. calls[1].kind = "element" /\ nodes[calls[1].node].kind = "element"
    BY <1>1, TypeFacts DEF CallPath
  <1>3. NodeAt(1) = calls[1].node /\ NodeAt(1) \in DOMAIN nodes
    BY <1>1, NodesAt DEF NodeAt
  <1>4. QED
    BY <1>2, <1>3 DEF HasRoot

\* The root stays.
LEMMA RootStays ==
  ASSUME NodesSame, HasRoot
  PROVE  HasRoot'
  BY DEF NodesSame, HasRoot

\* The level of what is read.
LEMMA LevelNow ==
  ASSUME TypeInv, phase = "parsing", NEW l, LevelsBy(l), Scoped(l), NEW n \in Nat, n = Len(calls)
  PROVE  /\ LevelAt(l[n], Target) /\ l[n] \in Level
         /\ \A k \in 0..n : l[k] \in Level
         /\ n = 0 => l[n] = [open |-> <<>>, scope |-> {"xml"}]
         /\ n > 0 /\ calls[n].kind = "element" =>
              /\ l[n].scope = l[n - 1].scope /\ l[n].open # <<>>
              /\ Last(l[n].open).tag = nodes[Target].tag /\ Front(l[n].open) = l[n - 1].open
         /\ n > 0 /\ calls[n].kind = "entity" => l[n].open = <<>>
  <1>1. \A k \in 0..n : LevelAt(l[k], NodeAt(k)) /\ l[k] \in Level
    BY DEF Scoped, LevelAt
  <1>2. LevelAt(l[n], Target) /\ l[n] \in Level
    BY <1>1, NodesAt
  <1>3. n = 0 => l[n] = [open |-> <<>>, scope |-> {"xml"}]
    BY DEF LevelsBy
  <1>4. ASSUME n > 0
        PROVE  /\ calls[n].kind = "element" =>
                    /\ l[n].scope = l[n - 1].scope /\ l[n].open # <<>>
                    /\ Last(l[n].open).tag = nodes[Target].tag /\ Front(l[n].open) = l[n - 1].open
               /\ calls[n].kind = "entity" => l[n].open = <<>>
    <2>1. n \in 1..n /\ n - 1 \in 0..n
      BY <1>4
    <2>2. l[n] = Entered(l[n - 1], calls[n]) /\ l[n - 1] \in Level
      BY <1>1, <2>1 DEF LevelsBy
    <2>3. calls[n].node = Target /\ Target \in DOMAIN nodes /\ nodes \in Seq(Node)
      BY <1>4, NodesAt, TargetIs, TypeFacts
    <2>4. ASSUME calls[n].kind = "element"
          PROVE  /\ l[n].scope = l[n - 1].scope /\ l[n].open # <<>>
                 /\ Last(l[n].open).tag = nodes[Target].tag /\ Front(l[n].open) = l[n - 1].open
      <3>1. PICK node \in Node, below \in Level, now \in Level : node = nodes[Target] /\ below = l[n - 1] /\ now = l[n]
        BY <1>2, <2>2, <2>3
      <3>2. now = InElement(below, node)
        BY <2>2, <2>3, <2>4, <3>1 DEF Entered
      <3>3. now.scope = below.scope /\ now.open # <<>> /\ Last(now.open).tag = node.tag /\ Front(now.open) = below.open
        BY <3>2, ElementLevel
      <3>4. QED
        BY <3>1, <3>3
    <2>5. calls[n].kind = "entity" => l[n].open = <<>>
      BY <2>2, EntityLevel DEF Entered
    <2>6. QED
      BY <2>4, <2>5
  <1>5. QED
    BY <1>1, <1>2, <1>3, <1>4

\* In the document itself, something is open just when calls are.
LEMMA InsideOpen ==
  ASSUME TypeInv, phase = "parsing", NEW l, LevelsBy(l), Scoped(l), NEW n \in Nat, n = Len(calls), Inside(n)
  PROVE  l[n].open = <<>> <=> calls = <<>>
  <1>1. n > 0 => calls[n].kind = "element"
    BY DEF Inside
  <1>2. n = 0 <=> calls = <<>>
    BY NodesAt
  <1>3. n = 0 => l[n].open = <<>>
    BY LevelNow
  <1>4. n > 0 => l[n].open # <<>>
    BY <1>1, LevelNow
  <1>5. QED
    BY <1>2, <1>3, <1>4

\* A tag that is accepted is legal, but for the prefixes of the root.
LEMMA TagLegal ==
  ASSUME TypeInv, Parsing, document \in Seq(AnyToken), NEW l, ReadBy(l), NEW n \in Nat, n = Len(calls),
         IsTag(Token), TakesElements, LegalAttributes(Token), Bound(NewElement(Token), Token), ~RootUnbound
  PROVE  Legal(l[n].open, Token, l[n].scope, Fitting)
  <1>1. phase = "parsing" /\ LevelsBy(l) /\ Scoped(l) /\ Bottom(l)
    BY DEF Parsing, ReadBy
  <1>2. Token.kind # "end" /\ Token.kind # "ref"
    BY DEF IsTag
  <1>3. CASE calls = <<>>
    <2>1. n = 0 /\ l[n].open = <<>> /\ l[n].scope = {"xml"}
      BY <1>1, <1>3, NodesAt, LevelNow
    <2>2. ~HasRoot /\ Inside(0)
      BY <1>3 DEF TakesElements, AtTop, Inside
    <2>3. At(input, l[n].open, HasRoot)
      BY <1>1, <2>1, <2>2 DEF Bottom
    <2>4. PICK p \in 0..Len(document) : /\ input = SubSeq(document, p + 1, Len(document))
                                        /\ \A i \in 1..p : Misc(document[i])
      BY <2>2, <2>3 DEF At
    <2>5. p # Len(document)
      <3>1. SubSeq(document, Len(document) + 1, Len(document)) = <<>>
        OBVIOUS
      <3>2. QED
        BY <2>4, <3>1 DEF Parsing
    <2>6. p + 1 \in DOMAIN document /\ document[p + 1] = Token
      BY <2>4, <2>5 DEF Token
    <2>7. \A i \in 1..((p + 1) - 1) : ~IsTag(document[i])
      BY <2>4, MiscIs
    <2>8. UsedBy(Token) \subseteq Known(Token, {"xml"})
      BY <2>6, <2>7 DEF RootUnbound
    <2>9. QED
      BY <1>2, <2>1, <2>8 DEF Legal, LegalTag, InScope
  <1>4. CASE calls # <<>>
    <2>1. nodes[Target].kind = "element"
      BY <1>4 DEF TakesElements, AtTop
    <2>2. InScope(l[n].open, l[n].scope) = nodes[Target].prefixes \cup {"xml"}
      BY <1>1, <2>1, LevelNow DEF LevelAt, OpenIn
    <2>3. UsedBy(Token) \subseteq NewElement(Token).prefixes
      BY <1>4 DEF Bound, AtTop
    <2>4. NewElement(Token).prefixes = nodes[Target].prefixes \cup DeclaredBy(Token.attributes)
      BY DEF NewElement, MakeElement, MakeNode, Scope
    <2>5. QED
      BY <1>2, <2>2, <2>3, <2>4 DEF Legal, LegalTag, Known
  <1>5. QED
    BY <1>3, <1>4

\* What is said of the document does not change.
LEMMA DocumentSame ==
  ASSUME UNCHANGED document
  PROVE  /\ WellFormed(document, {"xml"}, Fitting)' <=> WellFormed(document, {"xml"}, Fitting)
         /\ RootUnbound' <=> RootUnbound
         /\ \A l : Fits(l)' <=> /\ WellFormed(document, {"xml"}, Fitting) => RestsFit(l)'
                                /\ ~RootUnbound /\ RestsFit(l)' => WellFormed(document, {"xml"}, Fitting)
  <1>1. WellFormed(document, {"xml"}, Fitting)' <=> WellFormed(document, {"xml"}, Fitting)
    OBVIOUS
  <1>2. RootUnbound' <=> RootUnbound
    BY DEF RootUnbound, IsTag, UsedBy, Known, DeclaredBy
  <1>3. QED
    BY <1>1, <1>2 DEF Fits

\* The next state's conditions in terms of the document as it is.
LEMMA BottomSame ==
  ASSUME UNCHANGED document
  PROVE  \A l : Bottom(l)' <=>
           \A k \in 0..Len(calls') : (\A j \in 1..k : calls'[j].kind = "element") =>
             /\ l[k].scope = {"xml"}
             /\ k = Len(calls') => At(input', l[k].open, HasRoot')
             /\ k < Len(calls') /\ calls'[k + 1].kind = "entity" => At(calls'[k + 1].rest, l[k].open, HasRoot')
  BY AtSame DEF Bottom, Inside

\* The same of what is left to read.
LEMMA RestsSame ==
  ASSUME NEW l
  PROVE  RestsFit(l)' <=>
           /\ \A k \in 1..Len(calls') : calls'[k].kind = "entity" =>
                Continues(calls'[k].rest, l[k - 1].open, l[k - 1].scope)
           /\ Continues(input', l[Len(calls')].open, l[Len(calls')].scope)
  BY DEF RestsFit

\* A token at the bottom.
LEMMA BottomNext ==
  ASSUME TypeInv, Parsing, document \in Seq(AnyToken), NEW l, ReadBy(l), NEW n \in Nat, n = Len(calls),
         Inside(n), NodesSame,
         calls = <<>> => \/ Misc(Token) /\ (HasRoot' <=> HasRoot)
                         \/ IsTag(Token) /\ ~HasRoot /\ HasRoot'
  PROVE  l[n].scope = {"xml"} /\ At(Tail(input), After(l[n].open, Token, l[n].scope), HasRoot')
  <1>1. phase = "parsing" /\ LevelsBy(l) /\ Scoped(l) /\ Bottom(l)
    BY DEF Parsing, ReadBy
  <1>2. n \in 0..n /\ input # <<>> /\ Token = Head(input)
    BY DEF Parsing, Token
  <1>3. l[n].scope = {"xml"} /\ At(input, l[n].open, HasRoot)
    BY <1>1, <1>2 DEF Bottom
  <1>4. l[n].open = <<>> <=> calls = <<>>
    BY <1>1, InsideOpen
  <1>5. PICK rooted \in BOOLEAN, after \in BOOLEAN : (rooted <=> HasRoot) /\ (after <=> HasRoot')
    OBVIOUS
  <1>6. At(input, l[n].open, rooted)
    BY <1>3, <1>5 DEF At
  <1>7. \/ rooted /\ after /\ (l[n].open # <<>> \/ Misc(Token))
        \/ ~rooted /\ ~after /\ Misc(Token)
        \/ ~rooted /\ after /\ l[n].open = <<>> /\ IsTag(Token)
    <2>1. CASE calls = <<>>
      BY <1>4, <1>5, <2>1
    <2>2. CASE calls # <<>>
      <3>1. HasRoot /\ HasRoot'
        BY <1>1, <2>2, RootWithin, RootStays
      <3>2. QED
        BY <1>4, <1>5, <2>2, <3>1
    <2>3. QED
      BY <2>1, <2>2
  <1>8. At(Tail(input), After(l[n].open, Token, {"xml"}), after)
    BY <1>2, <1>6, <1>7, AtNext
  <1>9. QED
    BY <1>3, <1>5, <1>8 DEF At

\* The rest around a reference keeps its place in the document.
LEMMA RestsAt ==
  ASSUME TypeInv, phase = "parsing", NodesSame, NEW l, Bottom(l), NEW n \in Nat, n = Len(calls),
         NEW k \in 0..n, k < n, Inside(k)
  PROVE  /\ l[k].scope = {"xml"}
         /\ calls[k + 1].kind = "entity" => At(calls[k + 1].rest, l[k].open, HasRoot')
  <1>1. calls # <<>>
    BY NodesAt
  <1>2. HasRoot /\ HasRoot'
    BY <1>1, RootWithin, RootStays
  <1>3. /\ l[k].scope = {"xml"}
        /\ calls[k + 1].kind = "entity" => At(calls[k + 1].rest, l[k].open, HasRoot)
    BY DEF Bottom
  <1>4. QED
    BY <1>2, <1>3 DEF At

\* A token that opens, closes or replaces nothing.
LEMMA ReadPlain ==
  ASSUME TypeInv, Parsing, ReadSoFar, NodesSame, input' = Tail(input),
         UNCHANGED <<document, phase, calls>>, Token.kind \notin {"start", "end"},
         \A l : ReadBy(l) /\ ~RootUnbound =>
           Legal(l[Len(calls)].open, Token, l[Len(calls)].scope, Fitting),
         calls = <<>> => \/ Misc(Token) /\ (HasRoot' <=> HasRoot)
                         \/ IsTag(Token) /\ ~HasRoot /\ HasRoot'
  PROVE  ReadSoFar'
  <1>1. PICK l : ReadBy(l)
    BY DEF ReadSoFar, Parsing
  <1>2. PICK n \in Nat : n = Len(calls) /\ Len(calls') = n
    BY NodesAt DEF Parsing
  <1>3. /\ phase = "parsing" /\ phase' = "parsing" /\ input \in Seq(AnyToken) /\ input # <<>> /\ Token = Head(input)
        /\ document \in Seq(AnyToken) /\ document' \in Seq(AnyToken)
        /\ LevelsBy(l) /\ Scoped(l) /\ Fits(l) /\ Bottom(l)
    BY <1>1, TypeFacts DEF Parsing, Token, ReadSoFar, ReadBy
  <1>4. LevelsBy(l)' /\ Scoped(l)'
    BY <1>3, LevelsStay
  <1>5. After(l[n].open, Token, l[n].scope) = l[n].open
    BY AfterStays
  <1>6. Continues(input, l[n].open, l[n].scope) <=>
          Legal(l[n].open, Token, l[n].scope, Fitting) /\ Continues(Tail(input), l[n].open, l[n].scope)
    BY <1>3, <1>5, ContinuesHead
  <1>7. Fits(l)'
    <2>1. RestsFit(l)' <=> /\ \A k \in 1..n : calls[k].kind = "entity" =>
                                Continues(calls[k].rest, l[k - 1].open, l[k - 1].scope)
                           /\ Continues(Tail(input), l[n].open, l[n].scope)
      BY <1>2, RestsSame
    <2>2. RestsFit(l) <=> /\ \A k \in 1..n : calls[k].kind = "entity" =>
                                Continues(calls[k].rest, l[k - 1].open, l[k - 1].scope)
                          /\ Continues(input, l[n].open, l[n].scope)
      BY <1>2 DEF RestsFit
    <2>3. (RestsFit(l) => RestsFit(l)') /\ (~RootUnbound /\ RestsFit(l)' => RestsFit(l))
      BY <1>1, <1>2, <1>6, <2>1, <2>2
    <2>4. QED
      BY <1>3, <2>3, DocumentSame DEF Fits
  <1>8. Bottom(l)'
    <2>1. ASSUME NEW k \in 0..n, \A j \in 1..k : calls[j].kind = "element"
          PROVE  /\ l[k].scope = {"xml"}
                 /\ k = n => At(Tail(input), l[k].open, HasRoot')
                 /\ k < n /\ calls[k + 1].kind = "entity" => At(calls[k + 1].rest, l[k].open, HasRoot')
      <3>1. Inside(k)
        BY <2>1 DEF Inside
      <3>2. CASE k = n
        <4>1. l[n].scope = {"xml"} /\ At(Tail(input), After(l[n].open, Token, l[n].scope), HasRoot')
          BY <1>1, <1>2, <1>3, <3>1, <3>2, BottomNext
        <4>2. QED
          BY <1>5, <3>2, <4>1
      <3>3. CASE k # n
        <4>1. k < n
          BY <3>3
        <4>2. QED
          BY <1>2, <1>3, <3>1, <3>3, <4>1, RestsAt
      <3>4. QED
        BY <3>2, <3>3
    <2>2. QED
      BY <1>2, <2>1, BottomSame
  <1>9. ReadBy(l)'
    BY <1>4, <1>7, <1>8 DEF ReadBy
  <1>10. QED
    BY <1>3, <1>9 DEF ReadSoFar

----------------------------------------
\* Tokens read.

\* An element is opened.
LEMMA ReadStart ==
  ASSUME TypeInv, Parsing, ReadSoFar, NodesSame, input' = Tail(input), UNCHANGED <<document, phase>>,
         Token.kind = "start", NEW c \in CallIn(DOMAIN nodes'), c.kind = "element", calls' = Append(calls, c),
         nodes[Target].kind # "reference", nodes'[c.node] \in Node, nodes'[c.node].tag = Token.tag,
         nodes'[c.node].prefixes = nodes[Target].prefixes \cup DeclaredBy(Token.attributes),
         \A l : ReadBy(l) /\ ~RootUnbound =>
           Legal(l[Len(calls)].open, Token, l[Len(calls)].scope, Fitting),
         calls = <<>> => ~HasRoot /\ HasRoot'
  PROVE  ReadSoFar'
  <1>1. PICK l : ReadBy(l)
    BY DEF ReadSoFar, Parsing
  <1>2. PICK n \in Nat : n = Len(calls)
    BY NodesAt DEF Parsing
  <1>3. /\ phase = "parsing" /\ phase' = "parsing" /\ input \in Seq(AnyToken) /\ input # <<>> /\ Token = Head(input)
        /\ document \in Seq(AnyToken) /\ document' \in Seq(AnyToken)
        /\ LevelsBy(l) /\ Scoped(l) /\ Fits(l) /\ Bottom(l)
    BY <1>1, TypeFacts DEF Parsing, Token, ReadSoFar, ReadBy
  <1>4. PICK node \in Node, level \in Level : node = nodes'[c.node] /\ level = l[n]
    BY <1>2, <1>3, LevelNow
  <1> DEFINE o == InElement(level, node)
             m == [k \in 0..(n + 1) |-> IF k <= n THEN l[k] ELSE o]
  <1>5. /\ o \in Level /\ OpenIn(o) = node.prefixes \cup {"xml"} /\ o.scope = level.scope
        /\ o.open = Append(level.open, Element(node.tag, node.prefixes \cup {"xml"}))
    BY ElementLevel
  <1>6. o = Entered(l[n], c)'
    BY <1>4 DEF Entered, InElement, Element
  <1>7. LevelAt(o, c.node)'
    <2> HIDE DEF o
    <2>1. QED
      BY <1>4, <1>5 DEF LevelAt, OpenIn, InScope
  <1>8. After(level.open, Token, level.scope) = o.open
    <2>1. OpenIn(level) = nodes[Target].prefixes \cup {"xml"}
      BY <1>2, <1>3, <1>4, LevelNow DEF LevelAt
    <2>2. Known(Token, InScope(level.open, level.scope)) = node.prefixes \cup {"xml"}
      BY <1>4, <2>1 DEF Known, OpenIn
    <2>3. After(level.open, Token, level.scope) = Append(level.open, Element(Token.tag, node.prefixes \cup {"xml"}))
      BY <2>2 DEF After
    <2>4. QED
      BY <1>4, <1>5, <2>3
  <1>9. m[n + 1] = o /\ \A k \in 0..n : m[k] = l[k]
    <2>1. n + 1 \in 0..(n + 1) /\ ~(n + 1 <= n) /\ \A k \in 0..n : k \in 0..(n + 1) /\ k <= n
      OBVIOUS
    <2>2. QED
      BY <2>1
  <1>10. PICK f : f[n + 1] = o /\ \A k \in 0..n : f[k] = l[k]
    BY <1>9
  <1>11. o.scope = l[n].scope /\ After(l[n].open, Token, l[n].scope) = o.open
    BY <1>4, <1>5, <1>8
  <1> HIDE DEF o, m
  <1>12. /\ LevelsBy(f)' /\ Scoped(f)'
         /\ Len(calls') = n + 1 /\ calls'[n + 1] = c /\ \A k \in 1..n : calls'[k] = calls[k]
         /\ f[n + 1] = o /\ \A k \in 0..n : f[k] = l[k]
    <2>1. PICK opened : opened = o
      OBVIOUS
    <2>2. opened = Entered(l[n], c)' /\ LevelAt(opened, c.node)' /\ f[n + 1] = opened
      BY <1>6, <1>7, <1>10, <2>1
    <2>3. QED
      BY <1>2, <1>3, <1>10, <2>2, LevelsPushed
  <1>13. \A k \in 1..(n + 1) : k = n + 1 \/ (k \in 1..n /\ k - 1 \in 0..n)
    OBVIOUS
  <1>14. Fits(f)'
    <2>1. RestsFit(f)' <=> /\ \A k \in 1..(n + 1) : calls'[k].kind = "entity" =>
                                Continues(calls'[k].rest, f[k - 1].open, f[k - 1].scope)
                           /\ Continues(Tail(input), f[n + 1].open, f[n + 1].scope)
      BY <1>12, RestsSame
    <2>2. RestsFit(l) <=> /\ \A k \in 1..n : calls[k].kind = "entity" =>
                                Continues(calls[k].rest, l[k - 1].open, l[k - 1].scope)
                          /\ Continues(input, l[n].open, l[n].scope)
      BY <1>2 DEF RestsFit
    <2>3. (\A k \in 1..(n + 1) : calls'[k].kind = "entity" =>
             Continues(calls'[k].rest, f[k - 1].open, f[k - 1].scope))
          <=> (\A k \in 1..n : calls[k].kind = "entity" =>
                 Continues(calls[k].rest, l[k - 1].open, l[k - 1].scope))
      <3>1. calls'[n + 1].kind # "entity"
        BY <1>12
      <3>2. \A k \in 1..n : k \in 1..(n + 1) /\ calls'[k] = calls[k] /\ f[k - 1] = l[k - 1]
        BY <1>12, <1>13
      <3>3. QED
        BY <1>13, <3>1, <3>2
    <2>4. Continues(input, l[n].open, l[n].scope) <=>
            Legal(l[n].open, Token, l[n].scope, Fitting) /\ Continues(Tail(input), o.open, o.scope)
      BY <1>3, <1>11, ContinuesHead
    <2>5. (RestsFit(l) => RestsFit(f)') /\ (~RootUnbound /\ RestsFit(f)' => RestsFit(l))
      BY <1>1, <1>2, <1>12, <2>1, <2>2, <2>3, <2>4
    <2>6. QED
      BY <1>3, <2>5, DocumentSame DEF Fits
  <1>15. Bottom(f)'
    <2>1. ASSUME NEW k \in 0..(n + 1), \A j \in 1..k : calls'[j].kind = "element"
          PROVE  /\ f[k].scope = {"xml"}
                 /\ k = n + 1 => At(Tail(input), f[k].open, HasRoot')
                 /\ k < n + 1 /\ calls'[k + 1].kind = "entity" => At(calls'[k + 1].rest, f[k].open, HasRoot')
      <3>1. CASE k = n + 1
        <4>1. Inside(n)
          BY <1>12, <2>1, <3>1 DEF Inside
        <4>2. calls = <<>> => ~HasRoot /\ HasRoot' /\ IsTag(Token)
          BY DEF IsTag
        <4>3. l[n].scope = {"xml"} /\ At(Tail(input), After(l[n].open, Token, l[n].scope), HasRoot')
          BY <1>1, <1>2, <1>3, <4>1, <4>2, BottomNext
        <4>4. QED
          BY <1>11, <1>12, <3>1, <4>3
      <3>2. CASE k \in 0..n
        <4>1. Inside(k)
          BY <1>12, <2>1, <3>2 DEF Inside
        <4>2. l[k].scope = {"xml"} /\ f[k] = l[k]
          BY <1>2, <1>3, <1>12, <3>2, <4>1 DEF Bottom
        <4>3. CASE k = n
          BY <1>12, <4>2, <4>3
        <4>4. CASE k # n
          <5>1. k < n /\ k + 1 \in 1..n
            BY <3>2, <4>4
          <5>2. calls[k + 1].kind = "entity" => At(calls[k + 1].rest, l[k].open, HasRoot')
            BY <1>2, <1>3, <3>2, <4>1, <5>1, RestsAt
          <5>3. QED
            BY <1>12, <4>2, <5>1, <5>2
        <4>5. QED
          BY <4>3, <4>4
      <3>3. k = n + 1 \/ k \in 0..n
        OBVIOUS
      <3>4. QED
        BY <3>1, <3>2, <3>3
    <2>2. QED
      BY <1>3, <1>12, <2>1, BottomSame
  <1>16. ReadBy(f)'
    BY <1>12, <1>14, <1>15 DEF ReadBy
  <1>17. QED
    BY <1>3, <1>16 DEF ReadSoFar

\* An element is closed.
LEMMA ReadEnd ==
  ASSUME TypeInv, Parsing, ReadSoFar, NodesSame, input' = Tail(input), UNCHANGED <<document, phase>>,
         Token.kind = "end", calls # <<>>, Last(calls).kind = "element", nodes[Target].tag = Token.tag,
         calls' = Front(calls)
  PROVE  ReadSoFar'
  <1>1. PICK l : ReadBy(l)
    BY DEF ReadSoFar, Parsing
  <1>2. PICK n \in Nat : n + 1 = Len(calls)
    <2>1. Len(calls) \in Nat /\ Len(calls) # 0
      BY NodesAt DEF Parsing
    <2>2. Len(calls) - 1 \in Nat /\ (Len(calls) - 1) + 1 = Len(calls)
      BY <2>1
    <2>3. QED
      BY <2>2
  <1>3. /\ phase = "parsing" /\ phase' = "parsing" /\ input \in Seq(AnyToken) /\ input # <<>> /\ Token = Head(input)
        /\ document \in Seq(AnyToken) /\ document' \in Seq(AnyToken)
        /\ LevelsBy(l) /\ Scoped(l) /\ Fits(l) /\ Bottom(l)
    BY <1>1, TypeFacts DEF Parsing, Token, ReadSoFar, ReadBy
  <1>4. /\ LevelsBy(l)' /\ Scoped(l)'
        /\ Len(calls') = n /\ \A k \in 1..n : calls'[k] = calls[k]
    BY <1>2, <1>3, LevelsPopped
  <1>5. calls[n + 1].kind = "element" /\ n + 1 > 0 /\ n + 1 \in Nat /\ (n + 1) - 1 = n
    BY <1>2, <1>3, NodesAt
  <1>6. /\ l[n + 1].scope = l[n].scope /\ l[n + 1].open # <<>>
        /\ Last(l[n + 1].open).tag = Token.tag /\ Front(l[n + 1].open) = l[n].open
    BY <1>2, <1>3, <1>5, LevelNow
  <1>7. After(l[n + 1].open, Token, l[n + 1].scope) = l[n].open
    BY <1>6 DEF After
  <1>8. Legal(l[n + 1].open, Token, l[n + 1].scope, Fitting)
    BY <1>6 DEF Legal, IsTag
  <1>9. Continues(input, l[n + 1].open, l[n + 1].scope) <=> Continues(Tail(input), l[n].open, l[n].scope)
    BY <1>3, <1>6, <1>7, <1>8, ContinuesHead
  <1>10. \A k \in 1..(n + 1) : k = n + 1 \/ k \in 1..n
    OBVIOUS
  <1>11. Fits(l)'
    <2>1. RestsFit(l)' <=> /\ \A k \in 1..n : calls[k].kind = "entity" =>
                                Continues(calls[k].rest, l[k - 1].open, l[k - 1].scope)
                           /\ Continues(Tail(input), l[n].open, l[n].scope)
      BY <1>4, RestsSame
    <2>2. RestsFit(l) <=> /\ \A k \in 1..(n + 1) : calls[k].kind = "entity" =>
                                Continues(calls[k].rest, l[k - 1].open, l[k - 1].scope)
                          /\ Continues(input, l[n + 1].open, l[n + 1].scope)
      BY <1>2 DEF RestsFit
    <2>3. \A k \in 1..n : k \in 1..(n + 1)
      OBVIOUS
    <2>4. RestsFit(l) <=> RestsFit(l)'
      BY <1>5, <1>9, <1>10, <2>1, <2>2, <2>3
    <2>5. QED
      BY <1>3, <2>4, DocumentSame DEF Fits
  <1>12. Bottom(l)'
    <2>1. ASSUME NEW k \in 0..n, \A j \in 1..k : calls'[j].kind = "element"
          PROVE  /\ l[k].scope = {"xml"}
                 /\ k = n => At(Tail(input), l[k].open, HasRoot')
                 /\ k < n /\ calls'[k + 1].kind = "entity" => At(calls'[k + 1].rest, l[k].open, HasRoot')
      <3>1. Inside(k) /\ k \in 0..(n + 1) /\ k < n + 1
        BY <1>4, <2>1 DEF Inside
      <3>2. CASE k = n
        <4>1. Inside(n + 1)
          BY <1>5, <1>10, <3>1, <3>2 DEF Inside
        <4>2. /\ l[n + 1].scope = {"xml"}
              /\ At(Tail(input), After(l[n + 1].open, Token, l[n + 1].scope), HasRoot')
          BY <1>1, <1>2, <1>3, <1>5, <4>1, BottomNext
        <4>3. QED
          BY <1>6, <1>7, <3>2, <4>2
      <3>3. CASE k # n
        <4>1. l[k].scope = {"xml"} /\ (calls[k + 1].kind = "entity" => At(calls[k + 1].rest, l[k].open, HasRoot'))
          BY <1>2, <1>3, <1>5, <3>1, RestsAt
        <4>2. k < n => calls'[k + 1] = calls[k + 1]
          BY <1>4
        <4>3. QED
          BY <3>3, <4>1, <4>2
      <3>4. QED
        BY <3>2, <3>3
    <2>2. QED
      BY <1>3, <1>4, <2>1, BottomSame
  <1>13. ReadBy(l)'
    BY <1>4, <1>11, <1>12 DEF ReadBy
  <1>14. QED
    BY <1>3, <1>13 DEF ReadSoFar

\* An entity is replaced.
LEMMA ReadEntity ==
  ASSUME TypeInv, Parsing, ReadSoFar, NodesSame, UNCHANGED <<document, phase>>,
         calls # <<>>, Token.kind = "ref", Token.name \in DOMAIN Replacement, input' = Replacement[Token.name],
         NEW c \in CallIn(DOMAIN nodes'), c.kind = "entity", c.rest = Tail(input), calls' = Append(calls, c),
         c.node = Target \/ nodes'[c.node].kind = "reference"
  PROVE  ReadSoFar'
  <1>1. PICK l : ReadBy(l)
    BY DEF ReadSoFar, Parsing
  <1>2. PICK n \in Nat : n = Len(calls)
    BY NodesAt DEF Parsing
  <1>3. /\ phase = "parsing" /\ phase' = "parsing" /\ input \in Seq(AnyToken) /\ input # <<>> /\ Token = Head(input)
        /\ document \in Seq(AnyToken) /\ document' \in Seq(AnyToken)
        /\ LevelsBy(l) /\ Scoped(l) /\ Fits(l) /\ Bottom(l)
    BY <1>1, TypeFacts DEF Parsing, Token, ReadSoFar, ReadBy
  <1>4. PICK level \in Level, text \in Seq(AnyToken) : level = l[n] /\ text = Replacement[Token.name]
    BY <1>2, <1>3, LevelNow, ReplacementText
  <1> DEFINE o == InEntity(level)
             m == [k \in 0..(n + 1) |-> IF k <= n THEN l[k] ELSE o]
  <1>5. o \in Level /\ OpenIn(o) = OpenIn(level) /\ o.open = <<>> /\ o.scope = OpenIn(level)
    BY EntityLevel
  <1>6. o = Entered(l[n], c)'
    BY <1>4 DEF Entered, InEntity, OpenIn, InScope
  <1>7. LevelAt(o, c.node)'
    <2> HIDE DEF o
    <2>1. LevelAt(level, Target) /\ Target \in DOMAIN nodes
      BY <1>2, <1>3, <1>4, LevelNow, TargetIs
    <2>2. CASE c.node = Target
      <3>1. nodes'[c.node].kind # "reference" => OpenIn(level) = nodes'[c.node].prefixes \cup {"xml"}
        BY <2>1, <2>2 DEF LevelAt, NodesSame
      <3>2. QED
        BY <1>5, <3>1 DEF LevelAt, OpenIn, InScope
    <2>3. CASE nodes'[c.node].kind = "reference"
      BY <1>5, <2>3 DEF LevelAt
    <2>4. QED
      BY <2>2, <2>3
  <1>8. After(level.open, Token, level.scope) = level.open
    BY AfterStays
  <1>9. m[n + 1] = o /\ \A k \in 0..n : m[k] = l[k]
    <2>1. n + 1 \in 0..(n + 1) /\ ~(n + 1 <= n) /\ \A k \in 0..n : k \in 0..(n + 1) /\ k <= n
      OBVIOUS
    <2>2. QED
      BY <2>1
  <1>10. PICK f : f[n + 1] = o /\ \A k \in 0..n : f[k] = l[k]
    BY <1>9
  <1>11. Legal(level.open, Token, level.scope, Fitting) <=> Continues(text, o.open, o.scope)
    <2>1. PICK around \in Scopes : around = OpenIn(level)
      BY OpenInType
    <2>2. Legal(level.open, Token, level.scope, Fitting) <=> <<Token.name, around>> \in Fitting
      BY <2>1 DEF Legal, IsTag, OpenIn
    <2>3. <<Token.name, around>> \in Fitting <=> WellFormed(text, around, Fitting)
      BY <1>4, <2>1, FittingEquation DEF Scopes
    <2>4. WellFormed(text, around, Fitting) <=> Continues(text, <<>>, around)
      BY ContinuesFirst
    <2>5. QED
      BY <1>5, <2>1, <2>2, <2>3, <2>4
  <1> HIDE DEF o, m
  <1>12. /\ LevelsBy(f)' /\ Scoped(f)'
         /\ Len(calls') = n + 1 /\ calls'[n + 1] = c /\ \A k \in 1..n : calls'[k] = calls[k]
         /\ f[n + 1] = o /\ \A k \in 0..n : f[k] = l[k]
    <2>1. PICK opened : opened = o
      OBVIOUS
    <2>2. opened = Entered(l[n], c)' /\ LevelAt(opened, c.node)' /\ f[n + 1] = opened
      BY <1>6, <1>7, <1>10, <2>1
    <2>3. /\ LevelsBy(f)' /\ Scoped(f)'
          /\ Len(calls') = n + 1 /\ calls'[n + 1] = c /\ \A k \in 1..n : calls'[k] = calls[k]
      <3>1. phase = "parsing" /\ LevelsBy(l) /\ Scoped(l) /\ n = Len(calls)
        BY <1>2, <1>3
      <3>2. opened = Entered(l[n], c)' /\ LevelAt(opened, c.node)' /\ f[n + 1] = opened /\ \A k \in 0..n : f[k] = l[k]
        BY <1>10, <2>2
      <3>3. QED
        BY ONLY TypeInv, NodesSame, c \in CallIn(DOMAIN nodes'), calls' = Append(calls, c), <3>1, <3>2, LevelsPushed, n \in Nat, SMTT(30)
    <2>4. QED
      BY <1>10, <2>3
  <1>13. /\ \A k \in 1..(n + 1) : k = n + 1 \/ (k \in 1..n /\ k - 1 \in 0..n)
         /\ n + 1 \in 1..(n + 1) /\ (n + 1) - 1 = n /\ n \in 0..n
    OBVIOUS
  <1>14. Fits(f)'
    <2>1. RestsFit(f)' <=> /\ \A k \in 1..(n + 1) : calls'[k].kind = "entity" =>
                                Continues(calls'[k].rest, f[k - 1].open, f[k - 1].scope)
                           /\ Continues(text, f[n + 1].open, f[n + 1].scope)
      BY <1>4, <1>12, RestsSame
    <2>2. RestsFit(l) <=> /\ \A k \in 1..n : calls[k].kind = "entity" =>
                                Continues(calls[k].rest, l[k - 1].open, l[k - 1].scope)
                          /\ Continues(input, l[n].open, l[n].scope)
      BY <1>2 DEF RestsFit
    <2>3. (\A k \in 1..(n + 1) : calls'[k].kind = "entity" =>
             Continues(calls'[k].rest, f[k - 1].open, f[k - 1].scope))
          <=> /\ \A k \in 1..n : calls[k].kind = "entity" =>
                   Continues(calls[k].rest, l[k - 1].open, l[k - 1].scope)
              /\ Continues(Tail(input), l[n].open, l[n].scope)
      <3>1. /\ calls'[n + 1].kind = "entity" /\ calls'[n + 1].rest = Tail(input)
            /\ f[(n + 1) - 1] = l[n]
        BY <1>12, <1>13
      <3>2. \A k \in 1..n : k \in 1..(n + 1) /\ calls'[k] = calls[k] /\ f[k - 1] = l[k - 1]
        BY <1>12, <1>13
      <3>3. QED
        BY <1>13, <3>1, <3>2
    <2>4. Continues(input, l[n].open, l[n].scope) <=>
            Legal(l[n].open, Token, l[n].scope, Fitting) /\ Continues(Tail(input), l[n].open, l[n].scope)
      BY <1>3, <1>4, <1>8, ContinuesHead
    <2>5. RestsFit(l) <=> RestsFit(f)'
      BY <1>4, <1>11, <1>12, <2>1, <2>2, <2>3, <2>4
    <2>6. QED
      BY <1>3, <2>5, DocumentSame DEF Fits
  <1>15. Bottom(f)'
    <2>1. ASSUME NEW k \in 0..(n + 1), \A j \in 1..k : calls'[j].kind = "element"
          PROVE  /\ f[k].scope = {"xml"}
                 /\ k = n + 1 => At(text, f[k].open, HasRoot')
                 /\ k < n + 1 /\ calls'[k + 1].kind = "entity" => At(calls'[k + 1].rest, f[k].open, HasRoot')
      <3>1. k # n + 1
        BY <1>12, <1>13, <2>1
      <3>2. k \in 0..n
        BY <3>1
      <3>3. Inside(k)
        BY <1>12, <2>1, <3>2 DEF Inside
      <3>4. l[k].scope = {"xml"} /\ f[k] = l[k]
        BY <1>2, <1>3, <1>12, <3>2, <3>3 DEF Bottom
      <3>5. CASE k = n
        <4>1. l[n].scope = {"xml"} /\ At(Tail(input), After(l[n].open, Token, l[n].scope), HasRoot')
          BY <1>1, <1>2, <1>3, <3>3, <3>5, BottomNext
        <4>2. calls'[k + 1].rest = Tail(input)
          BY <1>12, <3>5
        <4>3. QED
          BY <1>4, <1>8, <3>1, <3>4, <3>5, <4>1, <4>2
      <3>6. CASE k # n
        <4>1. k < n /\ k + 1 \in 1..n
          BY <3>2, <3>6
        <4>2. calls[k + 1].kind = "entity" => At(calls[k + 1].rest, l[k].open, HasRoot')
          BY <1>2, <1>3, <3>2, <3>3, <4>1, RestsAt
        <4>3. QED
          BY <1>12, <3>1, <3>4, <4>1, <4>2
      <3>7. QED
        BY <3>5, <3>6
    <2>2. Len(calls') = n + 1 /\ input' = text /\ UNCHANGED document
      BY <1>3, <1>4, <1>12
    <2>3. \A k \in 0..Len(calls') : (\A j \in 1..k : calls'[j].kind = "element") =>
             /\ f[k].scope = {"xml"}
             /\ k = Len(calls') => At(input', f[k].open, HasRoot')
             /\ k < Len(calls') /\ calls'[k + 1].kind = "entity" => At(calls'[k + 1].rest, f[k].open, HasRoot')
      BY ONLY <2>1, <2>2, Zenon
    <2>4. QED
      BY ONLY <2>2, <2>3, BottomSame
  <1>16. ReadBy(f)'
    BY <1>12, <1>14, <1>15 DEF ReadBy
  <1>17. QED
    BY <1>3, <1>16 DEF ReadSoFar

\* The text of an entity has ended.
LEMMA ReadEntityEnd ==
  ASSUME TypeInv, phase = "parsing", ReadSoFar, NodesSame, UNCHANGED <<document, phase>>,
         input = <<>>, calls # <<>>, Last(calls).kind = "entity", input' = Last(calls).rest,
         calls' = Front(calls)
  PROVE  ReadSoFar'
  <1>1. PICK l : ReadBy(l)
    BY DEF ReadSoFar
  <1>2. PICK n \in Nat : n + 1 = Len(calls)
    <2>1. Len(calls) \in Nat /\ Len(calls) # 0
      BY NodesAt
    <2>2. Len(calls) - 1 \in Nat /\ (Len(calls) - 1) + 1 = Len(calls)
      BY <2>1
    <2>3. QED
      BY <2>2
  <1>3. /\ phase' = "parsing" /\ document \in Seq(AnyToken) /\ document' \in Seq(AnyToken)
        /\ LevelsBy(l) /\ Scoped(l) /\ Fits(l) /\ Bottom(l)
    BY <1>1 DEF ReadSoFar, ReadBy
  <1>4. /\ LevelsBy(l)' /\ Scoped(l)'
        /\ Len(calls') = n /\ \A k \in 1..n : calls'[k] = calls[k]
    BY <1>2, <1>3, LevelsPopped
  <1>5. /\ calls[n + 1].kind = "entity" /\ input' = calls[n + 1].rest
        /\ n + 1 > 0 /\ n + 1 \in Nat /\ (n + 1) - 1 = n
    BY <1>2, <1>3, NodesAt
  <1>6. l[n + 1].open = <<>>
    BY <1>2, <1>3, <1>5, LevelNow
  <1>7. \A k \in 1..(n + 1) : k = n + 1 \/ k \in 1..n
    OBVIOUS
  <1>8. Fits(l)'
    <2>1. RestsFit(l)' <=> /\ \A k \in 1..n : calls[k].kind = "entity" =>
                                Continues(calls[k].rest, l[k - 1].open, l[k - 1].scope)
                           /\ Continues(calls[n + 1].rest, l[n].open, l[n].scope)
      BY <1>4, <1>5, RestsSame
    <2>2. RestsFit(l) <=> /\ \A k \in 1..(n + 1) : calls[k].kind = "entity" =>
                                Continues(calls[k].rest, l[k - 1].open, l[k - 1].scope)
                          /\ Continues(input, l[n + 1].open, l[n + 1].scope)
      BY <1>2 DEF RestsFit
    <2>3. \A k \in 1..n : k \in 1..(n + 1)
      OBVIOUS
    <2>4. Continues(input, l[n + 1].open, l[n + 1].scope)
      BY <1>6, ContinuesEmpty
    <2>5. n + 1 \in 1..(n + 1)
      OBVIOUS
    <2>6. RestsFit(l) <=> RestsFit(l)'
      BY <1>5, <1>7, <2>1, <2>2, <2>3, <2>4, <2>5
    <2>7. QED
      BY <1>3, <2>6, DocumentSame DEF Fits
  <1>9. Bottom(l)'
    <2>1. ASSUME NEW k \in 0..n, \A j \in 1..k : calls'[j].kind = "element"
          PROVE  /\ l[k].scope = {"xml"}
                 /\ k = n => At(calls[n + 1].rest, l[k].open, HasRoot')
                 /\ k < n /\ calls'[k + 1].kind = "entity" => At(calls'[k + 1].rest, l[k].open, HasRoot')
      <3>1. Inside(k) /\ k \in 0..(n + 1) /\ k < n + 1
        BY <1>4, <2>1 DEF Inside
      <3>2. l[k].scope = {"xml"} /\ (calls[k + 1].kind = "entity" => At(calls[k + 1].rest, l[k].open, HasRoot'))
        BY <1>2, <1>3, <1>5, <3>1, RestsAt
      <3>3. k < n => calls'[k + 1] = calls[k + 1]
        BY <1>4
      <3>4. QED
        BY <1>5, <3>2, <3>3
    <2>2. QED
      BY <1>3, <1>4, <1>5, <2>1, BottomSame
  <1>10. ReadBy(l)'
    BY <1>4, <1>8, <1>9 DEF ReadBy
  <1>11. QED
    BY <1>3, <1>10 DEF ReadSoFar

----------------------------------------
\* The tree as it is read.

\* A node is added: what is kept of the others, and when it is the root.
LEMMA GrownSame ==
  ASSUME TypeInv, NEW T \in Seq(Node), Len(T) = Len(nodes), \A i \in DOMAIN nodes : SameNode(T[i], nodes[i]),
         NEW n \in Node, nodes' = Append(T, n)
  PROVE  /\ NodesSame /\ Len(nodes) + 1 \in DOMAIN nodes' /\ nodes'[Len(nodes) + 1] = n
         /\ n.kind # "element" => (HasRoot' <=> HasRoot)
         /\ n.kind = "element" => HasRoot'
  <1>1. PICK N \in Nat : N = Len(nodes) /\ DOMAIN nodes = 1..N /\ DOMAIN T = 1..N
    BY TypeFacts
  <1>2. /\ DOMAIN nodes' = 1..(N + 1) /\ nodes'[N + 1] = n /\ \A i \in 1..N : nodes'[i] = T[i]
    BY <1>1
  <1>3. \A i \in 1..(N + 1) : i \in 1..N \/ i = N + 1
    BY <1>1
  <1>4. N + 1 \in 1..(N + 1) /\ 1..N \subseteq 1..(N + 1)
    BY <1>1
  <1>5. NodesSame
    BY <1>1, <1>2, <1>4 DEF NodesSame, SameNode
  <1>6. \A i \in 1..N : nodes'[i].kind = nodes[i].kind
    BY <1>1, <1>5 DEF NodesSame
  <1>7. n.kind # "element" => (HasRoot' <=> HasRoot)
    BY <1>1, <1>2, <1>3, <1>4, <1>6 DEF HasRoot
  <1>8. n.kind = "element" => HasRoot'
    BY <1>2, <1>4 DEF HasRoot
  <1>9. QED
    BY <1>1, <1>2, <1>4, <1>5, <1>7, <1>8

\* Only texts and marks change.
LEMMA MarkedSame ==
  ASSUME TypeInv, NEW T \in Seq(Node), Len(T) = Len(nodes), \A i \in DOMAIN nodes : SameNode(T[i], nodes[i]),
         nodes' = T
  PROVE  NodesSame /\ (HasRoot' <=> HasRoot)
  <1>1. DOMAIN nodes' = DOMAIN nodes
    BY TypeFacts
  <1>2. NodesSame
    BY <1>1 DEF NodesSame, SameNode
  <1>3. QED
    BY <1>1, <1>2 DEF NodesSame, HasRoot

\* The new element.
LEMMA NewElementTag ==
  /\ NewElement(Token).tag = Token.tag
  /\ NewElement(Token).prefixes = nodes[Target].prefixes \cup DeclaredBy(Token.attributes)
  BY DEF NewElement, MakeElement, MakeNode, Scope

\* A token of no consequence is legal anywhere.
LEMMA TextLegal ==
  ASSUME NEW token, token.kind \in {"char", "charref", "cdata", "comment"}
  PROVE  \A open, scope : Legal(open, token, scope, Fitting)
  BY DEF Legal, IsTag

----------------------------------------
\* What is accepted.

\* What is accepted is well-formed.
LEMMA AcceptedIs ==
  ASSUME TypeInv, ReadSoFar, EndOfDocument, ~RootUnbound
  PROVE  DocumentWellFormed
  <1>1. phase = "parsing" /\ input = <<>> /\ calls = <<>> /\ HasRoot /\ document \in Seq(AnyToken)
    BY DEF EndOfDocument, AtTop, ReadSoFar
  <1>2. PICK l : ReadBy(l)
    BY <1>1 DEF ReadSoFar
  <1>3. Len(calls) = 0 /\ l[0].open = <<>> /\ l[0].scope = {"xml"} /\ Fits(l) /\ Bottom(l)
    BY <1>1, <1>2, LevelNow DEF ReadBy
  <1>4. WellFormed(document, {"xml"}, Fitting)
    <2>1. Continues(input, l[0].open, l[0].scope)
      BY <1>1, <1>3, ContinuesEmpty
    <2>2. RestsFit(l)
      BY <1>3, <2>1 DEF RestsFit
    <2>3. QED
      BY <1>3, <2>2 DEF Fits
  <1>5. PICK N \in Nat : N = Len(document) /\ DOMAIN document = 1..N
    BY <1>1
  <1>6. At(input, <<>>, HasRoot)
    <2>1. 0 \in 0..Len(calls) /\ 1..0 = {}
      BY <1>3
    <2>2. Inside(0)
      BY <2>1 DEF Inside
    <2>3. QED
      BY <1>3, <2>1, <2>2 DEF Bottom
  <1>7. PICK p \in 0..N : /\ input = SubSeq(document, p + 1, N)
                          /\ \E root \in 1..p : IsTag(document[root]) /\ \A i \in 1..p : i \in Outermost <=> i = root
    BY <1>1, <1>5, <1>6 DEF At
  <1>8. p = N
    <2>1. p # N => Len(SubSeq(document, p + 1, N)) = N - p
      BY <1>1, <1>5
    <2>2. Len(input) = 0 /\ p \in Int /\ N \in Int
      BY <1>1
    <2>3. QED
      BY <1>7, <2>1, <2>2
  <1>9. PICK root \in 1..N : IsTag(document[root]) /\ \A i \in 1..N : i \in Outermost <=> i = root
    BY <1>7, <1>8
  <1>10. Outermost \subseteq 1..N
    BY <1>5 DEF Outermost
  <1>11. Outermost = {root}
    BY <1>9, <1>10
  <1>12. QED
    BY <1>4, <1>5, <1>9, <1>11 DEF DocumentWellFormed

\* The texts around what is read, after each call.
HasTags(text) == (\E token \in Tokens(text) : IsTag(token)) \/ Referred(text) \cap Holding # {}
Reaches(text) == text = document \/ \E name \in Reached : text = Replacement[name]
Unmixed(text, i) ==
  nodes[i].kind = "reference" =>
    \E name \in Reached : ~BeginsWithMarkup(Replacement[name]) /\ (HasTags(text) => name \in Holding)

Nested(inner, call, outer) ==
  /\ call.kind = "element" => inner = outer
  /\ call.kind = "entity" => /\ Tokens(call.rest) \subseteq Tokens(outer)
                             /\ \E name \in Referred(outer) : inner = Replacement[name]
TextsBy(t) == \A k \in 1..Len(calls) : Nested(t[k], calls[k], t[k - 1])
ReadIn(t) ==
  /\ TextsBy(t) /\ Tokens(input) \subseteq Tokens(t[Len(calls)])
  /\ \A k \in 0..Len(calls) : Reaches(t[k]) /\ Unmixed(t[k], NodeAt(k))
InTexts == phase = "parsing" => \E t : ReadIn(t)

\* The tokens of the rest of a text.
LEMMA TokensTail ==
  ASSUME NEW S, NEW text \in Seq(S), text # <<>>
  PROVE  Tokens(Tail(text)) \subseteq Tokens(text) /\ Head(text) \in Tokens(text)
  <1>1. PICK N \in Nat : N = Len(text) /\ DOMAIN text = 1..N /\ N # 0
    OBVIOUS
  <1>2. DOMAIN Tail(text) = 1..(N - 1) /\ \A i \in 1..(N - 1) : Tail(text)[i] = text[i + 1] /\ i + 1 \in 1..N
    BY <1>1
  <1>3. Head(text) = text[1] /\ 1 \in 1..N
    BY <1>1
  <1>4. QED
    BY <1>1, <1>2, <1>3 DEF Tokens

\* With the document and the nodes what is said of the texts stays.
LEMMA TextSame ==
  ASSUME UNCHANGED document, NodesSame
  PROVE  /\ Reached' = Reached
         /\ \A text : Reaches(text) => Reaches(text)'
         /\ \A text : \A i \in DOMAIN nodes : Unmixed(text, i) => Unmixed(text, i)'
  <1>1. Reached' = Reached
    BY DEF Reached, Referred, Tokens
  <1>2. \A text : Reaches(text) => Reaches(text)'
    BY <1>1 DEF Reaches
  <1>3. \A i \in DOMAIN nodes : nodes'[i].kind = nodes[i].kind
    BY DEF NodesSame
  <1>4. \A text : HasTags(text)' <=> HasTags(text)
    BY DEF HasTags, IsTag, Tokens, Referred
  <1>5. \A text : \A i \in DOMAIN nodes : Unmixed(text, i) => Unmixed(text, i)'
    BY <1>1, <1>3, <1>4 DEF Unmixed
  <1>6. QED
    BY <1>1, <1>2, <1>5

\* What an entity referred to is.
LEMMA TextOfEntity ==
  ASSUME NEW text, Reaches(text), NEW name \in Referred(text)
  PROVE  /\ name \in Reached /\ name \in DOMAIN Replacement /\ Reaches(Replacement[name])
         /\ HasTags(Replacement[name]) => name \in Holding
         /\ name \in Holding => HasTags(text)
  <1>1. name \in DOMAIN Replacement
    BY DEF Referred
  <1>2. name \in Reached
    BY ReachedClosed DEF Reaches
  <1>3. HasTags(Replacement[name]) => name \in Holding
    BY <1>1, HoldingClosed DEF HasTags
  <1>4. QED
    BY <1>1, <1>2, <1>3 DEF Reaches, HasTags

\* Something is read from the same text.
LEMMA TextPlain ==
  ASSUME TypeInv, phase = "parsing", InTexts, NodesSame, Tokens(input') \subseteq Tokens(input),
         UNCHANGED <<document, calls>>
  PROVE  InTexts'
  <1>1. PICK t : ReadIn(t)
    BY DEF InTexts
  <1>2. PICK n \in Nat : n = Len(calls) /\ Len(calls') = n /\ \A k \in 0..n : NodeAt(k) \in DOMAIN nodes
    BY NodesAt
  <1>3. \A k \in 0..n : NodeAt(k)' = NodeAt(k)
    BY DEF NodeAt
  <1>4. TextsBy(t)'
    <2>1. ASSUME NEW k \in 1..n PROVE Nested(t[k], calls'[k], t[k - 1])
      BY <1>1, <1>2 DEF ReadIn, TextsBy
    <2>2. QED
      BY ONLY <1>2, <2>1 DEF TextsBy, Nested, Tokens, Referred
  <1>5. Tokens(input)' \subseteq Tokens(t[n])
    BY <1>1, <1>2 DEF ReadIn, Tokens
  <1>6. ASSUME NEW k \in 0..n PROVE Reaches(t[k])' /\ Unmixed(t[k], NodeAt(k))'
    <2>1. PICK i \in DOMAIN nodes : i = NodeAt(k)
      BY <1>2
    <2>11. PICK text : text = t[k]
      OBVIOUS
    <2>2. Reaches(text) /\ Unmixed(text, i)
      BY <1>1, <1>2, <2>1, <2>11 DEF ReadIn
    <2>3. Reaches(text)' /\ Unmixed(text, i)'
      BY <2>2, TextSame
    <2>4. QED
      BY <1>3, <2>1, <2>11, <2>3 DEF Reaches, Unmixed
  <1>7. QED
    BY <1>2, <1>4, <1>5, <1>6 DEF InTexts, ReadIn, Tokens

\* A call is added, with its text.
LEMMA TextPushed ==
  ASSUME TypeInv, phase = "parsing", NodesSame, UNCHANGED document, NEW c \in CallIn(DOMAIN nodes'),
         calls' = Append(calls, c), NEW t, ReadIn(t), NEW n \in Nat, n = Len(calls),
         NEW text, Nested(text, c, t[n]), Tokens(input') \subseteq Tokens(text), Reaches(text), Unmixed(text, c.node)'
  PROVE  InTexts'
  <1>1. /\ calls \in Seq(CallIn(DOMAIN nodes)) /\ \A k \in 0..n : NodeAt(k) \in DOMAIN nodes
    BY NodesAt
  <1>2. DOMAIN nodes \subseteq DOMAIN nodes'
    BY DEF NodesSame
  <1>3. calls \in Seq(CallIn(DOMAIN nodes'))
    BY <1>1, <1>2, CallsShape
  <1>4. /\ Len(calls') = n + 1 /\ calls'[n + 1] = c /\ \A k \in 1..n : calls'[k] = calls[k]
    BY <1>3
  <1> DEFINE m == [k \in 0..(n + 1) |-> IF k <= n THEN t[k] ELSE text]
  <1>5. m[n + 1] = text /\ \A k \in 0..n : m[k] = t[k]
    <2>1. n + 1 \in 0..(n + 1) /\ ~(n + 1 <= n) /\ \A k \in 0..n : k \in 0..(n + 1) /\ k <= n
      OBVIOUS
    <2>2. QED
      BY <2>1
  <1> HIDE DEF m
  <1>6. ASSUME NEW k \in 1..(n + 1) PROVE Nested(m[k], calls'[k], m[k - 1])
    <2>1. CASE k = n + 1
      <3>1. k - 1 = n /\ n \in 0..n
        BY <2>1
      <3>2. QED
        BY <1>4, <1>5, <2>1, <3>1
    <2>2. CASE k # n + 1
      <3>1. k \in 1..n /\ k \in 0..n /\ k - 1 \in 0..n
        BY <2>2
      <3>2. QED
        BY <1>4, <1>5, <3>1 DEF ReadIn, TextsBy
    <2>3. QED
      BY <2>1, <2>2
  <1>7. TextsBy(m)'
    BY <1>4, <1>6 DEF TextsBy, Nested, Tokens, Referred
  <1>8. ASSUME NEW k \in 0..(n + 1) PROVE Reaches(m[k])' /\ Unmixed(m[k], NodeAt(k))'
    <2>1. CASE k = n + 1
      <3>1. NodeAt(k)' = c.node /\ m[k] = text
        BY <1>4, <1>5, <2>1 DEF NodeAt
      <3>2. Reaches(text)'
        BY TextSame
      <3>3. QED
        BY <3>1, <3>2 DEF Reaches, Unmixed
    <2>2. CASE k # n + 1
      <3>1. k \in 0..n /\ (k # 0 => k \in 1..n)
        BY <2>2
      <3>2. NodeAt(k)' = NodeAt(k) /\ m[k] = t[k]
        BY <1>4, <1>5, <3>1 DEF NodeAt
      <3>3. PICK i \in DOMAIN nodes : i = NodeAt(k)
        BY <1>1, <3>1
      <3>31. PICK outer : outer = t[k]
        OBVIOUS
      <3>4. Reaches(outer) /\ Unmixed(outer, i)
        BY <3>1, <3>3, <3>31 DEF ReadIn
      <3>5. Reaches(outer)' /\ Unmixed(outer, i)'
        BY <3>4, TextSame
      <3>6. QED
        BY <3>2, <3>3, <3>31, <3>5 DEF Reaches, Unmixed
    <2>3. QED
      BY <2>1, <2>2
  <1>9. Tokens(input)' \subseteq Tokens(m[n + 1])
    <2>1. Tokens(input') \subseteq Tokens(m[n + 1])
      BY <1>5
    <2>2. QED
      BY ONLY <2>1 DEF Tokens
  <1>10. ReadIn(m)'
    BY <1>4, <1>7, <1>8, <1>9 DEF ReadIn
  <1>11. QED
    BY <1>10 DEF InTexts

\* An element is opened.
LEMMA TextStart ==
  ASSUME TypeInv, Parsing, InTexts, NodesSame, input' = Tail(input), UNCHANGED document,
         NEW c \in CallIn(DOMAIN nodes'), c.kind = "element", calls' = Append(calls, c),
         nodes'[c.node].kind # "reference"
  PROVE  InTexts'
  <1>1. PICK t : ReadIn(t)
    BY DEF InTexts, Parsing
  <1>2. PICK n \in Nat : n = Len(calls)
    BY NodesAt DEF Parsing
  <1>3. Tokens(input') \subseteq Tokens(input)
    BY TokensTail, TypeFacts DEF Parsing
  <1>4. PICK text : text = t[n]
    OBVIOUS
  <1>5. Nested(text, c, t[n]) /\ Unmixed(text, c.node)' /\ Reaches(text) /\ Tokens(input') \subseteq Tokens(text)
    BY <1>1, <1>2, <1>3, <1>4 DEF Nested, Unmixed, ReadIn
  <1>6. phase = "parsing"
    BY DEF Parsing
  <1>7. QED
    BY <1>1, <1>2, <1>5, <1>6, TextPushed

\* An entity is replaced.
LEMMA TextEntity ==
  ASSUME TypeInv, Parsing, InTexts, NodesSame, UNCHANGED document,
         Token.kind = "ref", Token.name \in DOMAIN Replacement, input' = Replacement[Token.name],
         NEW c \in CallIn(DOMAIN nodes'), c.kind = "entity", c.rest = Tail(input), calls' = Append(calls, c),
         c.node = Target \/ ~BeginsWithMarkup(Replacement[Token.name])
  PROVE  InTexts'
  <1>1. PICK t : ReadIn(t)
    BY DEF InTexts, Parsing
  <1>21. phase = "parsing"
    BY DEF Parsing
  <1>22. Len(calls) \in Nat /\ NodeAt(Len(calls)) = Target
    BY <1>21, NodesAt
  <1>2. PICK n \in Nat : n = Len(calls) /\ NodeAt(n) = Target /\ n \in 0..n
    BY <1>22
  <1>3. Tokens(Tail(input)) \subseteq Tokens(input) /\ Token \in Tokens(input)
    BY TokensTail, TypeFacts DEF Parsing, Token
  <1>4. PICK text, outer : text = Replacement[Token.name] /\ outer = t[n]
    OBVIOUS
  <1>5. Tokens(input) \subseteq Tokens(outer) /\ Reaches(outer) /\ Unmixed(outer, Target)
    BY <1>1, <1>2, <1>4 DEF ReadIn
  <1>6. Token.name \in Referred(outer)
    BY <1>3, <1>5 DEF Referred
  <1>7. Nested(text, c, t[n])
    BY <1>3, <1>4, <1>5, <1>6 DEF Nested
  <1>8. /\ Token.name \in Reached /\ Reaches(text)
        /\ HasTags(text) => Token.name \in Holding
        /\ Token.name \in Holding => HasTags(outer)
    BY <1>4, <1>5, <1>6, TextOfEntity
  <1>9. Unmixed(text, c.node)'
    <2>0. phase = "parsing" /\ Reached' = Reached /\ (HasTags(text)' <=> HasTags(text))
      BY TextSame DEF Parsing, HasTags, IsTag, Tokens, Referred
    <2>1. CASE c.node = Target
      <3>1. Target \in DOMAIN nodes /\ nodes'[c.node].kind = nodes[Target].kind
        BY <2>0, <2>1, TargetIs DEF NodesSame
      <3>2. QED
        BY <1>5, <1>8, <2>0, <3>1 DEF Unmixed
    <2>2. CASE ~BeginsWithMarkup(Replacement[Token.name])
      BY <1>8, <2>0, <2>2 DEF Unmixed
    <2>3. QED
      BY <2>1, <2>2
  <1>10. phase = "parsing" /\ Tokens(input') \subseteq Tokens(text)
    BY <1>4 DEF Parsing
  <1>11. QED
    BY <1>1, <1>2, <1>7, <1>8, <1>9, <1>10, TextPushed

\* A call ends.
LEMMA TextPopped ==
  ASSUME TypeInv, phase = "parsing", InTexts, NodesSame, UNCHANGED document, calls # <<>>, calls' = Front(calls),
         \/ Last(calls).kind = "element" /\ Tokens(input') \subseteq Tokens(input)
         \/ Last(calls).kind = "entity" /\ input' = Last(calls).rest
  PROVE  InTexts'
  <1>1. PICK t : ReadIn(t)
    BY DEF InTexts
  <1>2. PICK n \in Nat : n + 1 = Len(calls)
    <2>1. Len(calls) \in Nat /\ Len(calls) # 0
      BY NodesAt
    <2>2. Len(calls) - 1 \in Nat /\ (Len(calls) - 1) + 1 = Len(calls)
      BY <2>1
    <2>3. QED
      BY <2>2
  <1>3. /\ calls \in Seq(CallIn(DOMAIN nodes)) /\ \A k \in 0..(n + 1) : NodeAt(k) \in DOMAIN nodes
        /\ Last(calls) = calls[n + 1]
    BY <1>2, NodesAt
  <1>4. Len(calls') = n /\ \A k \in 1..n : calls'[k] = calls[k]
    BY <1>2, <1>3 DEF Front
  <1>5. Nested(t[n + 1], calls[n + 1], t[n])
    <2>1. n + 1 \in 1..(n + 1) /\ (n + 1) - 1 = n
      OBVIOUS
    <2>2. QED
      BY <1>1, <1>2, <2>1 DEF ReadIn, TextsBy
  <1>6. Tokens(input') \subseteq Tokens(t[n])
    BY <1>1, <1>2, <1>3, <1>5 DEF ReadIn, Nested
  <1>7. ASSUME NEW k \in 1..n PROVE Nested(t[k], calls'[k], t[k - 1])
    <2>1. k \in 1..(n + 1)
      OBVIOUS
    <2>2. QED
      BY <1>1, <1>2, <1>4, <2>1 DEF ReadIn, TextsBy
  <1>8. TextsBy(t)'
    BY <1>4, <1>7 DEF TextsBy, Nested, Tokens, Referred
  <1>9. ASSUME NEW k \in 0..n PROVE Reaches(t[k])' /\ Unmixed(t[k], NodeAt(k))'
    <2>1. k \in 0..(n + 1) /\ (k # 0 => k \in 1..n)
      OBVIOUS
    <2>2. NodeAt(k)' = NodeAt(k)
      BY <1>4, <2>1 DEF NodeAt
    <2>3. PICK i \in DOMAIN nodes : i = NodeAt(k)
      BY <1>3, <2>1
    <2>31. PICK text : text = t[k]
      OBVIOUS
    <2>4. Reaches(text) /\ Unmixed(text, i)
      BY <1>1, <1>2, <2>1, <2>3, <2>31 DEF ReadIn
    <2>5. Reaches(text)' /\ Unmixed(text, i)'
      BY <2>4, TextSame
    <2>6. QED
      BY <2>2, <2>3, <2>31, <2>5 DEF Reaches, Unmixed
  <1>10. QED
    BY <1>4, <1>6, <1>8, <1>9 DEF InTexts, ReadIn, Tokens

----------------------------------------
\* One step after another.

\* A token is read from the text at hand.
LEMMA TextNext ==
  ASSUME TypeInv, Parsing, InTexts, NodesSame, input' = Tail(input), UNCHANGED <<document, calls>>
  PROVE  InTexts'
  <1>1. phase = "parsing" /\ Tokens(input') \subseteq Tokens(input)
    BY TokensTail, TypeFacts DEF Parsing
  <1>2. QED
    BY <1>1, TextPlain

\* Each step of the parse keeps what was read and the texts: a start tag,
LEMMA StartTagRead ==
  ASSUME TypeInv, ReadSoFar, InTexts, StartTag
  PROVE  ReadSoFar' /\ InTexts'
  <1> DEFINE n == NewElement(Token)
             c == Call("element", Len(nodes) + 1, <<>>)
  <1>0. /\ Parsing /\ phase = "parsing" /\ Token.kind = "start" /\ TakesElements
        /\ LegalAttributes(Token) /\ Bound(NewElement(Token), Token)
        /\ nodes' = Append(nodes, n) /\ calls' = Append(calls, c)
        /\ input' = Tail(input) /\ UNCHANGED <<document, phase>>
    BY DEF StartTag, Consume, ParseOnly, Parsing
  <1>1. n \in Node /\ n.kind = "element" /\ nodes[Target].kind \in {"prolog", "element"}
    BY <1>0, NewElementIs
  <1>2. n.tag = Token.tag /\ n.prefixes = nodes[Target].prefixes \cup DeclaredBy(Token.attributes)
    BY NewElementTag
  <1>3. \A l : ReadBy(l) /\ ~RootUnbound => Legal(l[Len(calls)].open, Token, l[Len(calls)].scope, Fitting)
    <2>1. IsTag(Token) /\ Len(calls) \in Nat /\ document \in Seq(AnyToken)
      BY <1>0, NodesAt DEF IsTag, ReadSoFar
    <2>2. QED
      BY <1>0, <2>1, TagLegal
  <1> HIDE DEF n
  <1>4. /\ NodesSame /\ Len(nodes) + 1 \in DOMAIN nodes' /\ nodes'[Len(nodes) + 1] = n /\ HasRoot'
    BY <1>0, <1>1, SameNodes, GrownSame
  <1>5. c \in CallIn(DOMAIN nodes') /\ c.kind = "element" /\ c.node = Len(nodes) + 1
    <2>1. <<>> \in Seq(AnyToken)
      OBVIOUS
    <2>2. QED
      BY <1>4, <2>1 DEF Call, CallIn
  <1>6. calls = <<>> => ~HasRoot /\ HasRoot'
    BY <1>0, <1>4 DEF TakesElements, AtTop
  <1> HIDE DEF c
  <1>7. nodes'[c.node] \in Node /\ nodes'[c.node].tag = Token.tag
        /\ nodes'[c.node].prefixes = nodes[Target].prefixes \cup DeclaredBy(Token.attributes)
    BY <1>1, <1>2, <1>4, <1>5
  <1>8. nodes[Target].kind # "reference"
    BY <1>1
  <1>9. nodes'[c.node].kind # "reference"
    BY <1>1, <1>4, <1>5
  <1>10. ReadSoFar'
    BY <1>0, <1>3, <1>4, <1>5, <1>6, <1>7, <1>8, ReadStart
  <1>11. InTexts'
    BY <1>0, <1>4, <1>5, <1>9, TextStart
  <1>12. QED
    BY <1>10, <1>11

\* an element that closes itself,
LEMMA EmptyTagRead ==
  ASSUME TypeInv, ReadSoFar, InTexts, EmptyTag
  PROVE  ReadSoFar' /\ InTexts'
  <1> DEFINE n == NewElement(Token)
  <1>0. /\ Parsing /\ phase = "parsing" /\ Token.kind = "empty" /\ TakesElements
        /\ LegalAttributes(Token) /\ Bound(NewElement(Token), Token)
        /\ nodes' = Append(nodes, n) /\ input' = Tail(input) /\ UNCHANGED <<document, phase, calls>>
    BY DEF EmptyTag, Consume, ParseOnly, Parsing
  <1>1. n \in Node /\ n.kind = "element"
    BY <1>0, NewElementIs
  <1>2. IsTag(Token) /\ Len(calls) \in Nat /\ document \in Seq(AnyToken)
    BY <1>0, NodesAt DEF IsTag, ReadSoFar
  <1>3. \A l : ReadBy(l) /\ ~RootUnbound => Legal(l[Len(calls)].open, Token, l[Len(calls)].scope, Fitting)
    BY <1>0, <1>2, TagLegal
  <1> HIDE DEF n
  <1>4. NodesSame /\ HasRoot'
    BY <1>0, <1>1, SameNodes, GrownSame
  <1>5. calls = <<>> => ~HasRoot /\ HasRoot'
    BY <1>0, <1>4 DEF TakesElements, AtTop
  <1>6. QED
    BY <1>0, <1>2, <1>3, <1>4, <1>5, ReadPlain, TextNext

\* an end tag,
LEMMA EndTagRead ==
  ASSUME TypeInv, ReadSoFar, InTexts, EndTag
  PROVE  ReadSoFar' /\ InTexts'
  <1>1. /\ Parsing /\ calls # <<>> /\ Token.kind = "end" /\ Last(calls).kind = "element"
        /\ nodes[Target].tag = Token.tag /\ calls' = Front(calls)
        /\ input' = Tail(input) /\ UNCHANGED <<nodes, phase, document>>
    BY DEF EndTag, Within, AtTop, Closes, Consume, ParseOnly
  <1>2. NodesSame
    BY <1>1, SameNodes, MarkedSame
  <1>3. QED
    <2>1. phase = "parsing" /\ input \in Seq(AnyToken) /\ input # <<>>
      BY <1>1, TypeFacts DEF Parsing
    <2>2. Tokens(input') \subseteq Tokens(input)
      BY <1>1, <2>1, TokensTail
    <2>3. InTexts'
      BY <1>1, <1>2, <2>1, <2>2, TextPopped
    <2>4. QED
      BY <1>1, <1>2, <2>3, ReadEnd

\* a character,
LEMMA CharacterRead ==
  ASSUME TypeInv, ReadSoFar, InTexts, Character
  PROVE  ReadSoFar' /\ InTexts'
  <1> DEFINE T == AddCharacter(Target, Token.char)
             last == LastChild(Target)
             white == Token.char \in White
                      /\ (ChildSet(Target) = {} \/ nodes[last].kind \notin {"cdata", "reference"})
             n == MakeContent(Target, <<Token.char>>, white)
  <1>1. /\ Parsing /\ phase = "parsing" /\ Token.kind = "char" /\ input' = Tail(input) /\ nodes' = T
        /\ UNCHANGED <<phase, calls, document>>
        /\ calls = <<>> => Token.char \in White
    BY DEF Character, Consume, ParseOnly, AtTop, Parsing
  <1>2. Token.char \in Characters /\ <<Token.char>> \in Seq(Characters)
    BY <1>1, TokenRead, TokenShape
  <1>3. TreeOrdered /\ Target \in DOMAIN nodes /\ Target \in Nat
    BY <1>1, TypeFacts, TargetIs
  <1>4. \/ T = Append(nodes, n)
        \/ T \in Seq(Node) /\ Len(T) = Len(nodes) /\ \A i \in DOMAIN nodes : SameNode(T[i], nodes[i])
    BY <1>2, <1>3, CharacterAdded
  <1>5. NodesSame /\ (HasRoot' <=> HasRoot)
    <2>1. CASE T = Append(nodes, n)
      <3>1. PICK w \in BOOLEAN : w = white
        OBVIOUS
      <3>2. PICK p \in Nat, text \in Seq(Characters) : p = Target /\ text = <<Token.char>>
        BY <1>2, <1>3
      <3>3. n \in Node /\ n.kind = "content"
        <4> DEFINE m == MakeContent(p, text, w)
        <4>1. m \in Node /\ m.kind = "content" /\ m.parent = p /\ m.count = Unfilled
          BY MakeContentType
        <4>2. n = m
          BY <3>1, <3>2
        <4> HIDE DEF m, n
        <4>3. QED
          BY <4>1, <4>2
      <3>4. nodes' = Append(nodes, n)
        BY <1>1, <2>1
      <3> HIDE DEF n
      <3>5. QED
        BY <3>3, <3>4, SameNodes, GrownSame
    <2>2. CASE T \in Seq(Node) /\ Len(T) = Len(nodes) /\ \A i \in DOMAIN nodes : SameNode(T[i], nodes[i])
      <3> HIDE DEF T
      <3>1. QED
        BY <1>1, <2>2, MarkedSame
    <2>3. QED
      BY <1>4, <2>1, <2>2
  <1>6. calls = <<>> => Misc(Token)
    BY <1>1 DEF Misc
  <1>7. \A open, scope : Legal(open, Token, scope, Fitting)
    BY <1>1, TextLegal
  <1> HIDE DEF T
  <1>8. QED
    BY <1>1, <1>5, <1>6, <1>7, ReadPlain, TextNext

\* a reference of a character,
LEMMA CharacterReferenceRead ==
  ASSUME TypeInv, ReadSoFar, InTexts, CharacterReference
  PROVE  ReadSoFar' /\ InTexts'
  <1> DEFINE n == MakeNode("reference", Target, <<Token.char>>)
  <1>1. /\ Parsing /\ phase = "parsing" /\ Token.kind = "charref" /\ input' = Tail(input)
        /\ UNCHANGED <<phase, calls, document>> /\ calls # <<>>
        /\ nodes' = Append(nodes, n)
    BY DEF CharacterReference, Within, Consume, ParseOnly, AtTop, Parsing
  <1>2. <<Token.char>> \in Seq(Characters)
    BY <1>1, TokenRead, TokenShape
  <1>3. n \in Node
    BY <1>1, <1>2, TextNodeIs
  <1> HIDE DEF n
  <1>4. NodesSame
    BY <1>1, <1>3, SameNodes, GrownSame
  <1>5. \A open, scope : Legal(open, Token, scope, Fitting)
    BY <1>1, TextLegal
  <1>6. QED
    BY <1>1, <1>4, <1>5, ReadPlain, TextNext

\* a comment,
LEMMA CommentRead ==
  ASSUME TypeInv, ReadSoFar, InTexts, CommentOrPI
  PROVE  ReadSoFar' /\ InTexts'
  <1> DEFINE n == MakeNode("comment", Target, <<>>)
  <1>1. /\ Parsing /\ phase = "parsing" /\ Token.kind = "comment" /\ input' = Tail(input)
        /\ UNCHANGED <<phase, calls, document>>
        /\ nodes' = Append(nodes, n)
    BY DEF CommentOrPI, Consume, ParseOnly, Parsing
  <1>2. <<>> \in Seq(Characters)
    OBVIOUS
  <1>3. n \in Node /\ n.kind # "element"
    BY <1>1, <1>2, TextNodeIs
  <1> HIDE DEF n
  <1>4. NodesSame /\ (HasRoot' <=> HasRoot)
    BY <1>1, <1>3, SameNodes, GrownSame
  <1>5. \A open, scope : Legal(open, Token, scope, Fitting)
    BY <1>1, TextLegal
  <1>6. Misc(Token)
    BY <1>1 DEF Misc
  <1>7. QED
    BY <1>1, <1>4, <1>5, <1>6, ReadPlain, TextNext

\* a CDATA section,
LEMMA CDataRead ==
  ASSUME TypeInv, ReadSoFar, InTexts, CDataSection
  PROVE  ReadSoFar' /\ InTexts'
  <1> DEFINE T == MarkTrailing(Target, Len(nodes) + 1)
             n == MakeNode("cdata", Target, Token.text)
  <1>1. /\ Parsing /\ phase = "parsing" /\ Token.kind = "cdata" /\ input' = Tail(input)
        /\ UNCHANGED <<phase, calls, document>> /\ calls # <<>>
        /\ nodes' = Append(T, n)
    BY DEF CDataSection, Within, Consume, ParseOnly, AtTop, Parsing
  <1>2. Token.text \in Seq(Characters)
    BY <1>1, TokenRead, TokenShape
  <1>3. n \in Node
    BY <1>1, <1>2, TextNodeIs
  <1>4. TreeOrdered /\ Target \in Nat /\ Len(nodes) + 1 \in Nat
    BY <1>1, TypeFacts, TargetIs
  <1>5. T \in Seq(Node) /\ Len(T) = Len(nodes) /\ \A i \in DOMAIN nodes : SameNode(T[i], nodes[i])
    BY <1>4, TrailingMarked
  <1> HIDE DEF n, T
  <1>6. NodesSame
    BY <1>1, <1>3, <1>5, GrownSame
  <1>7. \A open, scope : Legal(open, Token, scope, Fitting)
    BY <1>1, TextLegal
  <1>8. QED
    BY <1>1, <1>6, <1>7, ReadPlain, TextNext

\* a reference of an entity,
LEMMA EntityReferenceRead ==
  ASSUME TypeInv, ReadSoFar, InTexts, EntityReference
  PROVE  ReadSoFar' /\ InTexts'
  <1> DEFINE text == Replacement[Token.name]
             own == ~BeginsWithMarkup(text)
             n == MakeNode("reference", Target, <<>>)
             c == Call("entity", IF own THEN Len(nodes) + 1 ELSE Target, Tail(input))
  <1>1. /\ Parsing /\ phase = "parsing" /\ calls # <<>> /\ Token.kind = "ref" /\ Token.name \in DOMAIN Replacement
        /\ nodes' = IF own THEN Append(nodes, n) ELSE nodes
        /\ calls' = Append(calls, c) /\ input' = text
        /\ UNCHANGED <<document, phase>>
    BY DEF EntityReference, Within, AtTop, ParseOnly, Parsing
  <1>2. n \in Node /\ n.kind = "reference"
    <2>1. <<>> \in Seq(Characters)
      OBVIOUS
    <2>2. QED
      BY <1>1, <2>1, TextNodeIs
  <1>3. Tail(input) \in Seq(AnyToken) /\ Target \in DOMAIN nodes
    BY <1>1, TokenRead, TargetIs
  <1>4. c.kind = "entity" /\ c.rest = Tail(input) /\ c.node = IF own THEN Len(nodes) + 1 ELSE Target
    BY DEF Call
  <1>5. /\ NodesSame /\ c.node \in DOMAIN nodes' /\ (c.node = Target \/ nodes'[c.node].kind = "reference")
    <2> HIDE DEF n, c, text
    <2>1. CASE own
      <3>1. nodes' = Append(nodes, n)
        BY <1>1, <2>1
      <3>2. NodesSame /\ Len(nodes) + 1 \in DOMAIN nodes' /\ nodes'[Len(nodes) + 1] = n
        BY <1>2, <3>1, SameNodes, GrownSame
      <3>3. QED
        BY <1>2, <1>4, <2>1, <3>2
    <2>2. CASE ~own
      <3>1. nodes' = nodes
        BY <1>1, <2>2
      <3>2. NodesSame
        BY <3>1, SameNodes, MarkedSame
      <3>3. QED
        BY <1>3, <1>4, <2>2, <3>1, <3>2
    <2>3. QED
      BY <2>1, <2>2
  <1>6. c \in CallIn(DOMAIN nodes')
    BY <1>3, <1>4, <1>5 DEF Call, CallIn
  <1>7. c.node = Target \/ ~BeginsWithMarkup(Replacement[Token.name])
    BY <1>4
  <1> HIDE DEF c, n
  <1>8. ReadSoFar'
    BY <1>1, <1>4, <1>5, <1>6, ReadEntity
  <1>9. InTexts'
    BY <1>1, <1>4, <1>5, <1>6, <1>7, TextEntity
  <1>10. QED
    BY <1>8, <1>9

\* and the end of its text.
LEMMA EndOfEntityRead ==
  ASSUME TypeInv, ReadSoFar, InTexts, EndOfEntity
  PROVE  ReadSoFar' /\ InTexts'
  <1> DEFINE receiver == calls[Len(calls) - 1].node
             T == MarkTrailing(receiver, Target)
  <1>1. /\ phase = "parsing" /\ calls # <<>> /\ Last(calls).kind = "entity" /\ input = <<>>
        /\ nodes' = IF Target = receiver THEN nodes ELSE T
        /\ input' = Last(calls).rest /\ calls' = Front(calls)
        /\ UNCHANGED <<document, phase>>
    BY DEF EndOfEntity, AtTop, ParseOnly
  <1>2. NodesSame
    <2>1. CASE Target = receiver
      <3>1. nodes' = nodes
        BY <1>1, <2>1
      <3>2. QED
        BY <3>1, SameNodes, MarkedSame
    <2>2. CASE Target # receiver
      <3>1. /\ Len(calls) \in DOMAIN calls /\ Len(calls) \in Nat /\ Last(calls) = calls[Len(calls)]
            /\ Target \in Nat /\ calls \in Seq(CallIn(DOMAIN nodes)) /\ DOMAIN calls = 1..Len(calls)
            /\ TreeOrdered
        BY <1>1, TargetIs, NodesAt, TypeFacts
      <3>2. Len(calls) # 1
        BY <1>1, <3>1, TypeFacts DEF CallPath
      <3>3. Len(calls) - 1 \in DOMAIN calls
        BY <3>1, <3>2
      <3>4. receiver \in DOMAIN nodes /\ DOMAIN nodes \subseteq Nat
        BY <3>1, <3>3, CallsShape, TypeFacts
      <3>5. T \in Seq(Node) /\ Len(T) = Len(nodes) /\ \A i \in DOMAIN nodes : SameNode(T[i], nodes[i])
        BY <3>1, <3>4, TrailingMarked
      <3> HIDE DEF T
      <3>6. QED
        BY <1>1, <2>2, <3>5, MarkedSame
    <2>3. QED
      BY <2>1, <2>2
  <1>3. QED
    BY <1>1, <1>2, ReadEntityEnd, TextPopped

\* The beginning.
LEMMA InitRead == Init => ReadSoFar /\ InTexts
  <1> SUFFICES ASSUME Init PROVE ReadSoFar /\ InTexts
    OBVIOUS
  <1>1. document \in Seq(AnyToken) /\ input = document /\ calls = <<>> /\ phase = "parsing"
        /\ nodes = <<MakeNode("prolog", 0, <<>>)>>
    BY DocumentsAssumption DEF Init
  <1> DEFINE level == [open |-> <<>>, scope |-> {"xml"}]
             l == [k \in {0} |-> level]
  <1>2. l[0] = level /\ Len(calls) = 0 /\ 0..0 = {0} /\ 1..0 = {}
    BY <1>1
  <1>3. level \in Level /\ level.open = <<>> /\ level.scope = {"xml"}
    <2>1. <<>> \in Seq(OpenElement) /\ {"xml"} \in Scopes
      BY DEF Scopes
    <2>2. QED
      BY <2>1 DEF Level
  <1>4. nodes[1].kind = "prolog" /\ nodes[1].prefixes = {} /\ DOMAIN nodes = {1}
    BY <1>1 DEF MakeNode
  <1>5. ~HasRoot
    BY <1>4 DEF HasRoot
  <1> HIDE DEF l, level
  <1>6. LevelsBy(l)
    BY <1>2 DEF LevelsBy, level
  <1>7. Scoped(l)
    BY <1>2, <1>3, <1>4 DEF Scoped, NodeAt, LevelAt, OpenIn, InScope
  <1>8. Fits(l)
    <2>1. WellFormed(document, {"xml"}, Fitting) <=> Continues(document, <<>>, {"xml"})
      BY <1>1, ContinuesFirst
    <2>2. RestsFit(l) <=> Continues(document, <<>>, {"xml"})
      BY <1>1, <1>2, <1>3 DEF RestsFit
    <2>3. QED
      BY <2>1, <2>2 DEF Fits
  <1>9. At(input, <<>>, HasRoot)
    <2>1. 0 \in 0..Len(document) /\ SubSeq(document, 0 + 1, Len(document)) = document /\ 1..0 = {}
      BY <1>1
    <2>2. Opened(document, {"xml"})[0] = <<>>
      BY <1>1, OpenedIsDefined DEF OpenedBy
    <2>3. QED
      BY <1>1, <1>5, <2>1, <2>2 DEF At
  <1>10. Bottom(l)
    BY <1>2, <1>3, <1>9 DEF Bottom
  <1>11. ReadSoFar
    BY <1>1, <1>6, <1>7, <1>8, <1>10 DEF ReadSoFar, ReadBy
  <1>12. InTexts
    <2> DEFINE t == [k \in {0} |-> document]
    <2>1. t[0] = document
      OBVIOUS
    <2> HIDE DEF t
    <2>2. nodes[1].kind # "reference"
      BY <1>4
    <2>3. ReadIn(t)
      BY <1>1, <1>2, <2>1, <2>2 DEF ReadIn, TextsBy, Reaches, Unmixed, NodeAt
    <2>4. QED
      BY <2>3 DEF InTexts
  <1>13. QED
    BY <1>11, <1>12

\* Every step keeps it.
LEMMA NextRead == TypeInv /\ ReadSoFar /\ InTexts /\ [Next]_vars => ReadSoFar' /\ InTexts'
  <1> SUFFICES ASSUME TypeInv, ReadSoFar, InTexts, [Next]_vars PROVE ReadSoFar' /\ InTexts'
    OBVIOUS
  <1>1. CASE phase' # "parsing" /\ document' = document
    BY <1>1 DEF ReadSoFar, InTexts
  <1>2. EndOfDocument \/ Reject \/ ClientCall => phase' # "parsing" /\ document' = document
    BY DEF EndOfDocument, Reject, ClientCall, ParseOnly
  <1>3. ASSUME UNCHANGED vars PROVE ReadSoFar' /\ InTexts'
    <2>1. CASE phase # "parsing"
      BY <1>3, <2>1 DEF ReadSoFar, InTexts, vars
    <2>2. CASE phase = "parsing"
      <3>1. NodesSame /\ (HasRoot' <=> HasRoot) /\ UNCHANGED <<nodes, calls, input, document, phase>>
        BY <1>3 DEF NodesSame, vars, HasRoot
      <3>2. PICK l : ReadBy(l)
        BY <2>2 DEF ReadSoFar
      <3>3. LevelsBy(l)' /\ Scoped(l)'
        BY <2>2, <3>1, <3>2, LevelsStay DEF ReadBy
      <3>4. RestsFit(l)' <=> RestsFit(l)
        BY <3>1, RestsSame DEF RestsFit
      <3>5. Fits(l)'
        BY <3>1, <3>2, <3>4, DocumentSame DEF Fits, ReadBy
      <3>6. \A rest, open : At(rest, open, HasRoot') <=> At(rest, open, HasRoot)
        BY <3>1 DEF At
      <3>7. Bottom(l)'
        BY <3>1, <3>2, <3>6, BottomSame DEF Bottom, Inside, ReadBy
      <3>8. InTexts'
        BY <2>2, <3>1, TextPlain
      <3>9. QED
        BY <3>1, <3>2, <3>3, <3>5, <3>7, <3>8 DEF ReadSoFar, ReadBy
    <2>3. QED
      BY <2>1, <2>2
  <1>4. QED
    BY <1>1, <1>2, <1>3, StartTagRead, EmptyTagRead, EndTagRead, CharacterRead, CharacterReferenceRead,
       CommentRead, CDataRead, EntityReferenceRead, EndOfEntityRead DEF Next

----------------------------------------
\* The document and the tree.

\* What the code refuses though the document is well-formed.
Excused ==
  \/ PredeclaredUsed(document)
  \/ \E name \in Reached : PredeclaredUsed(Replacement[name]) \/ MixedEntity(name)

\* The prefix xml, and an element in the node of a reference.
LEMMA ExcusesIs ==
  ASSUME NEW text, Reaches(text), NEW token \in Tokens(text), IsTag(token)
  PROVE  /\ "xml" \in UsedBy(token) => Excused
         /\ \A i : Unmixed(text, i) /\ nodes[i].kind = "reference" => Excused
  <1>1. "xml" \in UsedBy(token) => PredeclaredUsed(text)
    BY DEF PredeclaredUsed
  <1>2. PredeclaredUsed(text) => Excused
    BY DEF Reaches, Excused
  <1>3. HasTags(text)
    BY DEF HasTags
  <1>4. \A i : Unmixed(text, i) /\ nodes[i].kind = "reference" => Excused
    BY <1>3 DEF Unmixed, Excused, MixedEntity
  <1>5. QED
    BY <1>1, <1>2, <1>4

\* Outside of every element there is one, and comments and white space.
LEMMA TopPlace ==
  ASSUME TypeInv, phase = "parsing", ReadSoFar, calls = <<>>, DocumentWellFormed
  PROVE  /\ input = <<>> => HasRoot
         /\ input # <<>> /\ ~Misc(Token) => IsTag(Token) /\ ~HasRoot
  <1>1. PICK l : ReadBy(l)
    BY DEF ReadSoFar
  <1>2. Len(calls) = 0 /\ l[0].open = <<>> /\ Bottom(l) /\ document \in Seq(AnyToken)
    BY <1>1, LevelNow DEF ReadBy, ReadSoFar
  <1>3. At(input, <<>>, HasRoot)
    <2>1. 0 \in 0..Len(calls) /\ 1..0 = {}
      BY <1>2
    <2>2. Inside(0)
      BY <2>1 DEF Inside
    <2>3. QED
      BY <1>2, <2>1, <2>2 DEF Bottom
  <1>4. PICK N \in Nat : N = Len(document) /\ DOMAIN document = 1..N
    BY <1>2
  <1> DEFINE opened == Opened(document, {"xml"})
  <1>5. PICK p \in 0..N :
          /\ input = SubSeq(document, p + 1, N) /\ <<>> = opened[p]
          /\ HasRoot => \E root \in 1..p : IsTag(document[root]) /\ \A i \in 1..p : i \in Outermost <=> i = root
          /\ ~HasRoot => \A i \in 1..p : Misc(document[i])
    BY <1>3, <1>4 DEF At
  <1>6. PICK only \in 1..N : Outermost = {only} /\ IsTag(document[only])
    BY <1>4 DEF DocumentWellFormed
  <1>7. \A k \in 1..N : k \in Outermost <=> opened[k - 1] = <<>> /\ ~Misc(document[k])
    BY <1>4 DEF Outermost
  <1>8. ASSUME input = <<>> PROVE HasRoot
    <2>1. p # N => Len(SubSeq(document, p + 1, N)) = N - p
      BY <1>2, <1>4
    <2>2. Len(input) = 0 /\ p \in Int /\ N \in Int
      BY <1>8
    <2>3. p = N
      BY <1>5, <2>1, <2>2
    <2>4. ~Misc(document[only])
      BY <1>6, <1>7
    <2>5. QED
      BY <1>5, <2>3, <2>4
  <1>9. ASSUME input # <<>>, ~Misc(Token) PROVE IsTag(Token) /\ ~HasRoot
    <2>1. p # N
      <3>1. p = N => SubSeq(document, p + 1, N) = <<>>
        BY <1>4
      <3>2. QED
        BY <1>5, <1>9, <3>1
    <2>2. p + 1 \in 1..N /\ (p + 1) - 1 = p
      BY <1>4, <2>1
    <2>3. Token = document[p + 1]
      BY <1>2, <1>4, <1>5, <2>2 DEF Token
    <2>4. p + 1 \in Outermost
      <3>1. p + 1 \in Outermost <=> opened[(p + 1) - 1] = <<>> /\ ~Misc(document[p + 1])
        BY <1>7, <2>2
      <3> HIDE DEF opened
      <3>2. QED
        BY <1>5, <1>9, <2>2, <2>3, <3>1
    <2>5. only = p + 1
      BY <1>6, <2>4
    <2>6. IsTag(Token)
      BY <1>6, <2>3, <2>5
    <2>7. ~HasRoot
      <3>1. ASSUME HasRoot PROVE FALSE
        <4>1. PICK root \in 1..p : \A i \in 1..p : i \in Outermost <=> i = root
          BY <1>5, <3>1
        <4>2. root \in Outermost /\ root # p + 1
          BY <4>1
        <4>3. QED
          BY <1>6, <2>5, <4>2
      <3>2. QED
        BY <3>1
    <2>8. QED
      BY <2>6, <2>7
  <1>10. QED
    BY <1>8, <1>9

\* An error in a document that is well-formed.
LEMMA RefusedIs ==
  ASSUME TypeInv, phase = "parsing", ReadSoFar, InTexts, Refused, DocumentWellFormed
  PROVE  Excused
  <1>1. PICK l : ReadBy(l)
    BY DEF ReadSoFar
  <1>2. PICK t : ReadIn(t)
    BY DEF InTexts
  <1>3. Len(calls) \in Nat /\ Len(calls) \in 0..Len(calls) /\ NodeAt(Len(calls)) = Target
    BY NodesAt
  <1>4. PICK n \in Nat : n = Len(calls)
    BY <1>3
  <1>5. /\ LevelsBy(l) /\ Scoped(l) /\ Fits(l) /\ input \in Seq(AnyToken)
        /\ calls # <<>> => n > 0 /\ Last(calls) = calls[n] /\ calls[n].kind \in {"element", "entity"}
    <2>1. calls \in Seq(CallIn(DOMAIN nodes))
      BY NodesAt
    <2>2. calls # <<>> => n > 0 /\ Last(calls) = calls[n] /\ calls[n] \in CallIn(DOMAIN nodes)
      BY <1>4, <2>1, NodesAt
    <2>3. QED
      BY <1>1, <2>2, TypeFacts, CallShape DEF ReadBy
  <1>6. PICK open, scope : open = l[n].open /\ scope = l[n].scope
    OBVIOUS
  <1>7. Continues(input, open, scope)
    BY <1>4, <1>5, <1>6 DEF DocumentWellFormed, Fits, RestsFit
  <1>8. /\ LevelAt(l[n], Target)
        /\ calls # <<>> /\ calls[n].kind = "element" => open # <<>> /\ Last(open).tag = nodes[Target].tag
        /\ calls # <<>> /\ calls[n].kind = "entity" => open = <<>>
        /\ calls = <<>> => open = <<>>
    <2>1. calls = <<>> => n = 0
      BY <1>4
    <2>2. QED
      BY <1>4, <1>5, <1>6, <2>1, LevelNow
  <1>9. PICK text : text = t[n] /\ Reaches(text) /\ Unmixed(text, Target) /\ Tokens(input) \subseteq Tokens(text)
    BY <1>2, <1>3, <1>4 DEF ReadIn
  <1>10. CASE input = <<>>
    <2>1. open = <<>>
      BY <1>7, <1>10, ContinuesEmpty
    <2>2. calls = <<>>
      BY <1>5, <1>8, <1>10, <2>1 DEF Refused, AtTop, Parsing, Within
    <2>3. HasRoot
      BY <1>10, <2>2, TopPlace
    <2>4. QED
      BY <1>10, <2>2, <2>3 DEF Refused, AtTop, Parsing, Within
  <1>11. CASE input # <<>>
    <2>1. Parsing /\ Token = Head(input) /\ Token \in Tokens(text)
      BY <1>5, <1>9, <1>11, TokensTail DEF Parsing, Token
    <2>2. Legal(open, Token, scope, Fitting)
      BY <1>5, <1>7, <1>11, <2>1, ContinuesHead
    <2>3. calls = <<>> /\ ~Misc(Token) => IsTag(Token) /\ ~HasRoot
      BY <1>11, TopPlace
    <2>4. CASE IsTag(Token)
      <3>1. ~Misc(Token) /\ Token.kind \in {"start", "empty"}
        BY <2>4, MiscIs DEF IsTag
      <3>2. RefusedElement(Token)
        BY <1>11, <2>1, <3>1 DEF Refused
      <3>3. LegalAttributes(Token) /\ UsedBy(Token) \subseteq Known(Token, InScope(open, scope))
        BY <2>2, <2>4 DEF Legal, LegalTag
      <3>4. CASE ~TakesElements
        <4>1. calls # <<>> /\ nodes[Target].kind # "element"
          BY <2>3, <3>1, <3>4 DEF TakesElements, AtTop
        <4>2. nodes[Target].kind = "reference"
          BY <4>1, TargetIs
        <4>3. QED
          BY <1>9, <2>1, <2>4, <4>2, ExcusesIs
      <3>5. CASE TakesElements
        <4>1. ~Bound(NewElement(Token), Token)
          BY <3>2, <3>3, <3>5 DEF RefusedElement
        <4>2. calls # <<>> /\ ~(UsedBy(Token) \subseteq NewElement(Token).prefixes)
          BY <4>1 DEF Bound, AtTop
        <4>3. nodes[Target].kind # "reference"
          BY <3>5, <4>2 DEF TakesElements, AtTop
        <4>4. InScope(open, scope) = nodes[Target].prefixes \cup {"xml"}
          BY <1>6, <1>8, <4>3 DEF LevelAt, OpenIn
        <4>5. "xml" \in UsedBy(Token)
          BY <3>3, <4>2, <4>4, NewElementTag DEF Known
        <4>6. QED
          BY <1>9, <2>1, <2>4, <4>5, ExcusesIs
      <3>6. QED
        BY <3>4, <3>5
    <2>5. CASE ~IsTag(Token)
      <3>1. Token.kind \notin {"start", "empty"}
        BY <2>5 DEF IsTag
      <3>2. \/ calls # <<>> /\ Token.kind = "end" /\ ~Closes(Token)
            \/ calls # <<>> /\ Token.kind = "ref" /\ Token.name \notin DOMAIN Replacement
            \/ calls = <<>> /\ RefusedAtTop(Token)
        BY <1>11, <2>1, <3>1 DEF Refused, Within, AtTop
      <3>3. CASE calls # <<>> /\ Token.kind = "end" /\ ~Closes(Token)
        <4>1. open # <<>> /\ Last(open).tag = Token.tag
          BY <2>2, <3>3 DEF Legal
        <4>2. calls[n].kind = "element"
          BY <1>5, <1>8, <3>3, <4>1
        <4>3. QED
          BY <1>5, <1>8, <3>3, <4>1, <4>2 DEF Closes
      <3>4. CASE calls # <<>> /\ Token.kind = "ref" /\ Token.name \notin DOMAIN Replacement
        BY <2>2, <3>4 DEF Legal
      <3>5. CASE calls = <<>> /\ RefusedAtTop(Token)
        <4>1. Token.kind # "end"
          BY <1>8, <2>2, <3>5 DEF Legal
        <4>2. ~Misc(Token)
          BY <3>5, <4>1 DEF RefusedAtTop, Misc
        <4>3. QED
          BY <2>3, <2>5, <3>5, <4>2
      <3>6. QED
        BY <3>2, <3>3, <3>4, <3>5
    <2>6. QED
      BY <2>4, <2>5
  <1>12. QED
    BY <1>10, <1>11

\* The verdict of the parse.
Accepted == phase = "parsed" /\ ~RootUnbound => DocumentWellFormed

\* The verdict depends on the document.
LEMMA VerdictSame ==
  ASSUME UNCHANGED document
  PROVE  (DocumentWellFormed' <=> DocumentWellFormed) /\ (Excused' <=> Excused) /\ (RootUnbound' <=> RootUnbound)
  <1>1. Outermost' = Outermost
    BY DEF Outermost, Opened, After, InScope, Element, Known, DeclaredBy, Misc
  <1>2. DocumentWellFormed' <=> DocumentWellFormed
    BY <1>1, DocumentSame DEF DocumentWellFormed, IsTag
  <1>3. Reached' = Reached
    BY DEF Reached, Referred, Tokens
  <1>4. Excused' <=> Excused
    BY <1>3 DEF Excused, PredeclaredUsed, MixedEntity, Tokens, IsTag, UsedBy
  <1>5. QED
    BY <1>2, <1>4, DocumentSame

\* Every step keeps the verdict right.
LEMMA VerdictKept ==
  TypeInv /\ ReadSoFar /\ InTexts /\ Accepted /\ WellFormedIsParsed /\ [Next]_vars => Accepted' /\ WellFormedIsParsed'
  <1> SUFFICES ASSUME TypeInv, ReadSoFar, InTexts, Accepted, WellFormedIsParsed, [Next]_vars
               PROVE  Accepted' /\ WellFormedIsParsed'
    OBVIOUS
  <1>1. document' = document
    BY DEF Next, vars, ParseOnly, StartTag, EmptyTag, EndTag, EndOfDocument, Character, CharacterReference,
           CDataSection, CommentOrPI, EntityReference, EndOfEntity, Reject, ClientCall
  <1>2. (phase' = phase) \/ EndOfDocument \/ Reject
    BY DEF Next, vars, StartTag, EmptyTag, EndTag, EndOfDocument, Character, CharacterReference,
           CDataSection, CommentOrPI, EntityReference, EndOfEntity, Reject, ClientCall
  <1>3. CASE phase' = phase
    BY <1>1, <1>3, VerdictSame DEF Accepted, WellFormedIsParsed, Excused
  <1>4. CASE EndOfDocument
    <2>1. phase' = "parsed"
      BY <1>4 DEF EndOfDocument
    <2>2. QED
      BY <1>1, <1>4, <2>1, VerdictSame, AcceptedIs DEF Accepted, WellFormedIsParsed
  <1>5. CASE Reject
    <2>1. phase' = "error" /\ phase = "parsing" /\ Refused
      BY <1>5 DEF Reject
    <2>2. QED
      BY <1>1, <2>1, VerdictSame, RefusedIs DEF Accepted, WellFormedIsParsed, Excused
  <1>6. QED
    BY <1>2, <1>3, <1>4, <1>5

\* All of it is invariant.
LEMMA VerdictInvariant == Spec => [](TypeInv /\ ReadSoFar /\ InTexts /\ Accepted /\ WellFormedIsParsed)
  <1>1. Init => Accepted /\ WellFormedIsParsed
    BY DEF Init, Accepted, WellFormedIsParsed
  <1>2. QED
    BY <1>1, InitType, NextType, InitRead, NextRead, VerdictKept, PTL DEF Spec

\* What is parsed is well-formed, namespaces and entities included.
THEOREM ParsedIsWellFormed == Spec => [](phase = "parsed" /\ ~RootUnbound => DocumentWellFormed)
  <1>1. Accepted <=> (phase = "parsed" /\ ~RootUnbound => DocumentWellFormed)
    BY DEF Accepted
  <1>2. QED
    BY <1>1, VerdictInvariant, PTL

\* And what is well-formed is parsed, but for what the code does not know.
THEOREM WellFormedParsed == Spec => []WellFormedIsParsed
  BY VerdictInvariant, PTL

----------------------------------------
\* What a text tells, and what a tree.

\* One token, then the rest.
LEMMA EventsHead ==
  ASSUME NEW text \in Seq(AnyToken), text # <<>>, NEW told, \A name \in DOMAIN told : told[name] \in Seq(Event)
  PROVE  /\ Events(text, told) = EventsOf(Head(text), told) \o Events(Tail(text), told)
         /\ EventsOf(Head(text), told) \in Seq(Event) /\ Events(Tail(text), told) \in Seq(Event)
  <1>1. PICK rest \in Seq(AnyToken) : rest = Tail(text)
    <2>1. Tail(text) \in Seq(AnyToken)
      OBVIOUS
    <2>2. QED
      BY <2>1
  <1>2. Len(text) = Len(rest) + 1 /\ \A k \in 1..Len(rest) : rest[k] = text[k + 1] /\ k + 1 \in 1..Len(text)
    BY <1>1
  <1>3. Head(text) = text[1] /\ 1 \in 1..Len(text) /\ Head(text) \in AnyToken
    OBVIOUS
  <1> DEFINE s == [i \in DOMAIN text |-> EventsOf(text[i], told)]
             t == [i \in DOMAIN rest |-> EventsOf(rest[i], told)]
  <1>4. /\ s \in Seq(Seq(Event)) /\ Len(s) = Len(text) /\ \A i \in 1..Len(text) : s[i] = EventsOf(text[i], told)
        /\ t \in Seq(Seq(Event)) /\ Len(t) = Len(rest) /\ \A i \in 1..Len(rest) : t[i] = EventsOf(rest[i], told)
    BY EventsPieces
  <1> HIDE DEF s, t
  <1>5. FlattenSeq(s) = s[1] \o FlattenSeq(t)
    <2>1. Len(s) = Len(t) + 1
      BY <1>2, <1>4
    <2>2. ASSUME NEW k \in 1..Len(t) PROVE s[k + 1] = t[k]
      BY <1>2, <1>4
    <2>3. QED
      BY ONLY <1>4, <2>1, <2>2, FlattenHead
  <1>6. Events(text, told) = EventsOf(Head(text), told) \o Events(Tail(text), told)
    BY <1>1, <1>3, <1>4, <1>5 DEF Events, s, t
  <1>7. QED
    BY <1>1, <1>3, <1>6, EventsOfType, EventsType

\* Nothing joined is nothing.
LEMMA FlattenNone == FlattenSeq(<<>>) = <<>>
  <1>1. <<>> \in Seq(Seq({})) /\ Len(<<>>) = 0
    OBVIOUS
  <1>2. PICK f : Joins(f, <<>>, {}) /\ FlattenSeq(<<>>) = f[0]
    BY <1>1, JoinsExist
  <1>3. QED
    BY <1>2 DEF Joins

\* An empty text tells nothing.
LEMMA EventsNone == \A told : Events(<<>>, told) = <<>>
  <1>1. \A told : [i \in DOMAIN <<>> |-> EventsOf(<<>>[i], told)] = <<>>
    OBVIOUS
  <1>2. QED
    BY <1>1, FlattenNone DEF Events

\* What is told of the entities is told in events.
LEMMA ToldType == DOMAIN Told = DOMAIN Replacement /\ \A name \in DOMAIN Told : Told[name] \in Seq(Event)
  <1>1. PICK f : ToldBy(f) /\ Told = f[MaxDepth]
    BY ToldIsDefined
  <1>2. MaxDepth \in Nat
    BY EntitiesNest
  <1> DEFINE Good == {k \in 0..MaxDepth : /\ DOMAIN f[k] = DOMAIN Replacement
                                          /\ \A name \in DOMAIN f[k] : f[k][name] \in Seq(Event)}
  <1>3. 0 \in Good
    <2>1. f[0] = [name \in DOMAIN Replacement |-> <<>>] /\ <<>> \in Seq(Event) /\ 0 \in 0..MaxDepth
      BY <1>1, <1>2 DEF ToldBy
    <2>2. QED
      BY <2>1
  <1>4. ASSUME NEW k \in 1..MaxDepth, k - 1 \in Good PROVE k \in Good
    <2>1. PICK below : below = f[k - 1] /\ \A name \in DOMAIN below : below[name] \in Seq(Event)
      BY <1>4
    <2>2. f[k] = [name \in DOMAIN Replacement |-> Events(Replacement[name], below)]
      BY <1>1, <2>1 DEF ToldBy
    <2>3. \A name \in DOMAIN Replacement : Events(Replacement[name], below) \in Seq(Event)
      BY <2>1, ReplacementText, EventsType
    <2>4. k \in 0..MaxDepth
      BY <1>2
    <2>5. QED
      BY <2>2, <2>3, <2>4
  <1> HIDE DEF Good
  <1>5. MaxDepth \in Good
    <2>1. 0..MaxDepth \subseteq Good
      BY <1>2, <1>3, <1>4, UptoInduction
    <2>2. QED
      BY <1>2, <2>1
  <1>6. QED
    BY <1>1, <1>5 DEF Good

\* What is told of a node, where walk has what is told of its children.
Walked(walk, i) ==
  LET inner == FlattenSeq([j \in DOMAIN nodes |-> IF nodes[j].parent = i THEN walk[j] ELSE <<>>])
      chars == [k \in DOMAIN nodes[i].text |-> <<"char", nodes[i].text[k]>>]
  IN  CASE nodes[i].kind = "element" ->
              << <<"start", nodes[i].tag>> >> \o inner \o << <<"end", nodes[i].tag>> >>
        [] nodes[i].kind = "comment" -> << <<"comment">> >>
        [] OTHER -> chars \o inner

\* It depends on what is told of nodes after it.
LEMMA WalkedAgree ==
  ASSUME TreeOrdered, NEW f, NEW g, NEW i \in DOMAIN nodes, \A c \in (i + 1)..Len(nodes) : f[c] = g[c]
  PROVE  Walked(f, i) = Walked(g, i)
  <1>1. Len(nodes) \in Nat /\ DOMAIN nodes = 1..Len(nodes)
    BY NodesInSequence
  <1>2. \A j \in DOMAIN nodes : nodes[j].parent = i => j \in (i + 1)..Len(nodes)
    BY <1>1 DEF TreeOrdered, Detached
  <1>3. \A j \in DOMAIN nodes : (IF nodes[j].parent = i THEN f[j] ELSE <<>>) = (IF nodes[j].parent = i THEN g[j] ELSE <<>>)
    BY <1>2
  <1>4. [j \in DOMAIN nodes |-> IF nodes[j].parent = i THEN f[j] ELSE <<>>]
        = [j \in DOMAIN nodes |-> IF nodes[j].parent = i THEN g[j] ELSE <<>>]
    BY <1>3
  <1>5. QED
    BY <1>4, Zenon DEF Walked

\* A function for the last nodes extends to the one before.
TraversedEquation == Traversed = [i \in DOMAIN nodes |-> Walked(Traversed, i)]

\* What is told of the nodes is what their equation says.
LEMMA TraversedIsDefined == TreeOrdered => TraversedEquation
  <1> SUFFICES ASSUME TreeOrdered PROVE Traversed = [i \in DOMAIN nodes |-> Walked(Traversed, i)]
    BY DEF TraversedEquation
  <1> DEFINE N == Len(nodes)
             Defined == {k \in 0..N : \E f : \A i \in (N - k + 1)..N : f[i] = Walked(f, i)}
  <1>1. N \in Nat /\ DOMAIN nodes = 1..N
    BY NodesInSequence
  <1>2. 0 \in Defined
    <2>1. (N - 0 + 1)..N = {}
      BY <1>1
    <2>2. QED
      BY <1>1, <2>1
  <1>3. ASSUME NEW k \in 1..N, k - 1 \in Defined PROVE k \in Defined
    <2>1. PICK f : \A i \in (N - (k - 1) + 1)..N : f[i] = Walked(f, i)
      BY <1>3
    <2>2. PICK m \in DOMAIN nodes : m = N - k + 1
      BY <1>1
    <2>3. m \in Nat /\ N - (k - 1) + 1 = m + 1 /\ k \in 0..N
      BY <1>1, <2>2
    <2> DEFINE g == [i \in m..N |-> IF i = m THEN Walked(f, m) ELSE f[i]]
    <2>4. ASSUME NEW i \in m..N PROVE g[i] = Walked(g, i)
      <3>1. i \in DOMAIN nodes /\ (i # m => i \in (m + 1)..N)
        BY <1>1, <2>2, <2>3
      <3>2. \A c \in (i + 1)..N : g[c] = f[c]
        BY <1>1, <2>3
      <3>3. g[i] = IF i = m THEN Walked(f, m) ELSE f[i]
        OBVIOUS
      <3> HIDE DEF g
      <3>4. Walked(g, i) = Walked(f, i)
        BY <3>1, <3>2, WalkedAgree
      <3>5. g[i] = Walked(f, i)
        BY <2>1, <2>3, <3>1, <3>3
      <3>6. QED
        BY <3>4, <3>5
    <2> HIDE DEF g
    <2>5. \A i \in (N - k + 1)..N : g[i] = Walked(g, i)
      BY <2>2, <2>4
    <2>6. QED
      BY <2>3, <2>5
  <1>4. PICK f : \A i \in 1..N : f[i] = Walked(f, i)
    <2> HIDE DEF Defined, N
    <2>1. 0..N \subseteq Defined
      BY <1>1, <1>2, <1>3, UptoInduction
    <2>2. N \in Defined /\ N - N + 1 = 1
      BY <1>1, <2>1
    <2>3. QED
      BY <2>2 DEF Defined
  <1> DEFINE h == [i \in DOMAIN nodes |-> f[i]]
             walk == CHOOSE w : w = [i \in DOMAIN nodes |-> Walked(w, i)]
  <1>5. h = [i \in DOMAIN nodes |-> Walked(h, i)]
    <2>1. ASSUME NEW i \in DOMAIN nodes PROVE h[i] = Walked(h, i)
      <3>1. \A c \in (i + 1)..N : h[c] = f[c]
        BY <1>1
      <3>2. h[i] = f[i] /\ f[i] = Walked(f, i)
        BY <1>1, <1>4
      <3> HIDE DEF h
      <3>3. Walked(h, i) = Walked(f, i)
        BY <3>1, WalkedAgree
      <3>4. QED
        BY <3>2, <3>3
    <2>2. QED
      BY <2>1
  <1>6. Traversed = walk
    BY Zenon DEF Traversed, Walked
  <1>7. walk = [i \in DOMAIN nodes |-> Walked(walk, i)]
    <2> HIDE DEF h
    <2>1. QED
      BY <1>5
  <1>8. QED
    BY <1>6, <1>7

\* What is told of a node begins and ends.
Begins(node) ==
  CASE node.kind = "element" -> << <<"start", node.tag>> >>
    [] node.kind = "comment" -> << <<"comment">> >>
    [] OTHER -> CharsOf(node.text)
Ends(node) == IF node.kind = "element" THEN << <<"end", node.tag>> >> ELSE <<>>

\* In between its children.
ToldIn(i, j) == IF nodes[j].parent = i THEN Traversed[j] ELSE <<>>
InnerTold(i) == FlattenSeq([j \in DOMAIN nodes |-> ToldIn(i, j)])

\* Both are told in events.
LEMMA BeginsType ==
  ASSUME NEW node \in Node
  PROVE  Begins(node) \in Seq(Event) /\ Ends(node) \in Seq(Event)
  <1>1. node.tag \in {<<>>} \cup Tags /\ node.text \in Seq(Characters)
    BY DEF Node
  <1>2. PICK a \in Event, b \in Event, c \in Event : a = <<"start", node.tag>> /\ b = <<"end", node.tag>> /\ c = <<"comment">>
    BY <1>1, EventIs
  <1>3. <<a>> \in Seq(Event) /\ <<b>> \in Seq(Event) /\ <<c>> \in Seq(Event) /\ <<>> \in Seq(Event)
    OBVIOUS
  <1>4. CharsOf(node.text) \in Seq(Event)
    BY <1>1, CharsType
  <1>5. Begins(node) \in Seq(Event)
    <2>1. CASE node.kind = "element"
      <3>1. Begins(node) = << <<"start", node.tag>> >>
        BY <2>1 DEF Begins
      <3>2. QED
        BY ONLY <1>2, <1>3, <3>1
    <2>2. CASE node.kind = "comment"
      <3>1. Begins(node) = << <<"comment">> >>
        BY <2>2 DEF Begins
      <3>2. QED
        BY ONLY <1>2, <1>3, <3>1
    <2>3. CASE node.kind \notin {"element", "comment"}
      <3>1. Begins(node) = CharsOf(node.text)
        BY <2>3 DEF Begins
      <3>2. QED
        BY ONLY <1>4, <3>1
    <2>4. QED
      BY <2>1, <2>2, <2>3
  <1>6. Ends(node) \in Seq(Event)
    <2>1. Ends(node) = IF node.kind = "element" THEN << <<"end", node.tag>> >> ELSE <<>>
      BY DEF Ends
    <2>2. QED
      BY ONLY <1>2, <1>3, <2>1
  <1>7. QED
    BY <1>5, <1>6

\* Nothing is joined to nothing.
LEMMA FlattenNothing ==
  ASSUME NEW S, NEW s \in Seq(Seq(S)), \A k \in 1..Len(s) : s[k] = <<>>
  PROVE  FlattenSeq(s) = <<>>
  <1>1. PICK f : Joins(f, s, S) /\ FlattenSeq(s) = f[Len(s)]
    BY JoinsExist
  <1> DEFINE Good == {k \in 0..Len(s) : f[k] = <<>>}
  <1>2. Len(s) \in Nat /\ 0 \in Good
    BY <1>1 DEF Joins
  <1>3. ASSUME NEW k \in 1..Len(s), k - 1 \in Good PROVE k \in Good
    <2>1. f[k] = f[k - 1] \o s[k]
      BY <1>1 DEF Joins
    <2>2. s[k] = <<>> /\ f[k - 1] = <<>> /\ k \in 0..Len(s)
      BY <1>2, <1>3
    <2>3. f[k] = <<>> \o <<>>
      BY <2>1, <2>2, Zenon
    <2>4. <<>> \o <<>> = <<>>
      OBVIOUS
    <2>5. QED
      BY <2>2, <2>3, <2>4
  <1> HIDE DEF Good
  <1>4. 0..Len(s) \subseteq Good
    BY <1>2, <1>3, UptoInduction
  <1>5. QED
    BY <1>1, <1>2, <1>4 DEF Good

\* The pieces that are told of the children of a node.
Pieces(i) == [j \in DOMAIN nodes |-> ToldIn(i, j)]

\* Joined they are what is told of the children.
LEMMA PiecesAre ==
  ASSUME TreeOrdered, NEW i \in Nat, \A j \in DOMAIN nodes : nodes[j].parent = i => Traversed[j] \in Seq(Event)
  PROVE  /\ Pieces(i) \in Seq(Seq(Event)) /\ Len(Pieces(i)) = Len(nodes)
         /\ \A j \in 1..Len(nodes) : Pieces(i)[j] = ToldIn(i, j)
         /\ InnerTold(i) = FlattenSeq(Pieces(i)) /\ InnerTold(i) \in Seq(Event)
  <1>1. Len(nodes) \in Nat /\ DOMAIN nodes = 1..Len(nodes)
    BY NodesInSequence
  <1>2. \A j \in DOMAIN nodes : ToldIn(i, j) \in Seq(Event)
    BY DEF ToldIn
  <1>3. /\ Pieces(i) \in Seq(Seq(Event)) /\ Len(Pieces(i)) = Len(nodes)
        /\ \A j \in 1..Len(nodes) : Pieces(i)[j] = ToldIn(i, j)
    BY <1>1, <1>2 DEF Pieces
  <1>4. InnerTold(i) = FlattenSeq(Pieces(i))
    BY DEF InnerTold, Pieces
  <1>5. FlattenSeq(Pieces(i)) \in Seq(Event)
    BY <1>3, FlattenType
  <1>6. QED
    BY <1>3, <1>4, <1>5

\* The equation in these terms.
LEMMA TraversedCases ==
  ASSUME TreeOrdered, NEW i \in DOMAIN nodes
  PROVE  /\ nodes[i].kind = "element" => Traversed[i] = Begins(nodes[i]) \o InnerTold(i) \o Ends(nodes[i])
         /\ nodes[i].kind = "comment" => Traversed[i] = Begins(nodes[i])
         /\ nodes[i].kind \notin {"element", "comment"} => Traversed[i] = Begins(nodes[i]) \o InnerTold(i)
  <1>1. Traversed[i] = Walked(Traversed, i)
    BY TraversedIsDefined DEF TraversedEquation
  <1>2. FlattenSeq([j \in DOMAIN nodes |-> IF nodes[j].parent = i THEN Traversed[j] ELSE <<>>]) = InnerTold(i)
    BY DEF InnerTold, ToldIn
  <1>3. CASE nodes[i].kind = "element"
    <2>1. Begins(nodes[i]) = << <<"start", nodes[i].tag>> >> /\ Ends(nodes[i]) = << <<"end", nodes[i].tag>> >>
      BY <1>3 DEF Begins, Ends
    <2>2. Walked(Traversed, i) = << <<"start", nodes[i].tag>> >> \o InnerTold(i) \o << <<"end", nodes[i].tag>> >>
      BY <1>2, <1>3 DEF Walked
    <2>3. QED
      BY <1>1, <1>3, <2>1, <2>2
  <1>4. CASE nodes[i].kind = "comment"
    BY <1>1, <1>4 DEF Walked, Begins
  <1>5. CASE nodes[i].kind \notin {"element", "comment"}
    <2>1. Begins(nodes[i]) = CharsOf(nodes[i].text)
      BY <1>5 DEF Begins
    <2>2. Walked(Traversed, i) = CharsOf(nodes[i].text) \o InnerTold(i)
      BY <1>2, <1>5 DEF Walked, CharsOf
    <2>3. QED
      BY <1>1, <1>5, <2>1, <2>2
  <1>6. QED
    BY <1>3, <1>4, <1>5

\* What is told of a node is told in events.
LEMMA TraversedType == TreeOrdered => \A i \in DOMAIN nodes : Traversed[i] \in Seq(Event)
  <1> SUFFICES ASSUME TreeOrdered, {i \in DOMAIN nodes : Traversed[i] \notin Seq(Event)} # {}
               PROVE  FALSE
    OBVIOUS
  <1> DEFINE T == {i \in DOMAIN nodes : Traversed[i] \notin Seq(Event)}
             N == Len(nodes)
  <1>1. N \in Nat /\ DOMAIN nodes = 1..N
    BY NodesInSequence
  <1>2. T \subseteq Nat /\ T # {} /\ \A i \in T : i <= N
    BY <1>1
  <1> HIDE DEF T, N
  <1>3. PICK i \in T : \A j \in T : j <= i
    BY <1>1, <1>2, Greatest
  <1>4. i \in DOMAIN nodes /\ i \in Nat /\ Traversed[i] \notin Seq(Event) /\ nodes[i] \in Node
    BY <1>1, <1>3, NodesInSequence DEF T
  <1>5. \A j \in DOMAIN nodes : nodes[j].parent = i => Traversed[j] \in Seq(Event)
    <2>1. \A j \in DOMAIN nodes : nodes[j].parent = i => j > i
      BY <1>1, <1>4 DEF TreeOrdered, Detached
    <2>2. QED
      BY <1>1, <1>3, <1>4, <2>1 DEF T
  <1>6. InnerTold(i) \in Seq(Event)
    BY <1>4, <1>5, PiecesAre
  <1>7. Begins(nodes[i]) \in Seq(Event) /\ Ends(nodes[i]) \in Seq(Event)
    BY <1>4, BeginsType
  <1>8. Traversed[i] \in Seq(Event)
    <2>1. PICK b \in Seq(Event), c \in Seq(Event), e \in Seq(Event) : b = Begins(nodes[i]) /\ c = InnerTold(i) /\ e = Ends(nodes[i])
      BY <1>6, <1>7
    <2>2. b \o c \o e \in Seq(Event) /\ b \o c \in Seq(Event)
      OBVIOUS
    <2>3. QED
      BY <1>4, <2>1, <2>2, TraversedCases
  <1>9. QED
    BY <1>4, <1>8

\* The pieces of a node, without more conditions.
LEMMA InnerIs ==
  ASSUME TreeOrdered, NEW i \in Nat
  PROVE  /\ Pieces(i) \in Seq(Seq(Event)) /\ Len(Pieces(i)) = Len(nodes)
         /\ \A j \in 1..Len(nodes) : Pieces(i)[j] = ToldIn(i, j)
         /\ InnerTold(i) = FlattenSeq(Pieces(i)) /\ InnerTold(i) \in Seq(Event)
         /\ ChildSet(i) = {} => InnerTold(i) = <<>>
  <1>1. \A j \in DOMAIN nodes : nodes[j].parent = i => Traversed[j] \in Seq(Event)
    BY TraversedType
  <1>2. /\ Pieces(i) \in Seq(Seq(Event)) /\ Len(Pieces(i)) = Len(nodes)
        /\ \A j \in 1..Len(nodes) : Pieces(i)[j] = ToldIn(i, j)
        /\ InnerTold(i) = FlattenSeq(Pieces(i)) /\ InnerTold(i) \in Seq(Event)
    BY <1>1, PiecesAre
  <1>3. ASSUME ChildSet(i) = {} PROVE InnerTold(i) = <<>>
    <2>1. \A j \in DOMAIN nodes : ToldIn(i, j) = <<>>
      BY <1>3 DEF ChildSet, ToldIn
    <2>2. \A j \in 1..Len(Pieces(i)) : Pieces(i)[j] = <<>>
      BY <1>2, <2>1, NodesInSequence
    <2>3. QED
      BY <1>2, <2>2, FlattenNothing
  <1>4. QED
    BY <1>2, <1>3

\* A node with no children but in the prolog, elements and references.
LEMMA TraversedIs ==
  ASSUME TreeOrdered, AllPlaced, NEW i \in DOMAIN nodes
  PROVE  /\ Begins(nodes[i]) \in Seq(Event) /\ InnerTold(i) \in Seq(Event) /\ Ends(nodes[i]) \in Seq(Event)
         /\ Traversed[i] = Begins(nodes[i]) \o InnerTold(i) \o Ends(nodes[i])
  <1>1. i \in Nat /\ nodes[i] \in Node /\ Len(nodes) \in Nat /\ DOMAIN nodes = 1..Len(nodes)
    BY NodesInSequence
  <1>2. Begins(nodes[i]) \in Seq(Event) /\ InnerTold(i) \in Seq(Event) /\ Ends(nodes[i]) \in Seq(Event)
    BY <1>1, InnerIs, BeginsType
  <1>3. nodes[i].kind # "element" => Ends(nodes[i]) = <<>>
    BY DEF Ends
  <1>4. nodes[i].kind = "comment" => InnerTold(i) = <<>>
    <2>1. nodes[i].kind = "comment" => ChildSet(i) = {}
      BY <1>1 DEF ChildSet, AllPlaced, Placed
    <2>2. QED
      BY <1>1, <2>1, InnerIs
  <1>5. PICK b \in Seq(Event), c \in Seq(Event), e \in Seq(Event) : b = Begins(nodes[i]) /\ c = InnerTold(i) /\ e = Ends(nodes[i])
    BY <1>2
  <1>6. b \o c \o <<>> = b \o c /\ b \o <<>> \o <<>> = b
    OBVIOUS
  <1>7. QED
    BY <1>2, <1>3, <1>4, <1>5, <1>6, TraversedCases

\* What the last two lemmas say of the whole tree.
TreeTold ==
  /\ \A i \in DOMAIN nodes :
       /\ Begins(nodes[i]) \in Seq(Event) /\ InnerTold(i) \in Seq(Event) /\ Ends(nodes[i]) \in Seq(Event)
       /\ Traversed[i] = Begins(nodes[i]) \o InnerTold(i) \o Ends(nodes[i])
  /\ \A i \in Nat :
       /\ Pieces(i) \in Seq(Seq(Event)) /\ Len(Pieces(i)) = Len(nodes)
       /\ \A j \in 1..Len(nodes) : Pieces(i)[j] = ToldIn(i, j)
       /\ InnerTold(i) = FlattenSeq(Pieces(i))
       /\ ChildSet(i) = {} => InnerTold(i) = <<>>

\* So it is, in this state and in the next.
LEMMA TreeIsTold == TreeOrdered /\ AllPlaced => TreeTold
  BY TraversedIs, InnerIs DEF TreeTold

\* In this state and in the next.
LEMMA TreesAreTold ==
  ASSUME TypeInv, TypeInv'
  PROVE  /\ TreeTold /\ TreeTold' /\ TreeOrdered /\ TreeOrdered' /\ AllPlaced /\ AllPlaced'
         /\ Len(nodes) \in Nat /\ DOMAIN nodes = 1..Len(nodes)
         /\ Len(nodes') \in Nat /\ DOMAIN nodes' = 1..Len(nodes')
  <1>1. TypeInv => TreeOrdered /\ AllPlaced /\ Len(nodes) \in Nat /\ DOMAIN nodes = 1..Len(nodes)
    BY TypeFacts
  <1>2. (TypeInv => TreeOrdered /\ AllPlaced /\ Len(nodes) \in Nat /\ DOMAIN nodes = 1..Len(nodes))'
    BY TypeFacts, PTL
  <1>3. (TreeOrdered /\ AllPlaced => TreeTold)'
    BY TreeIsTold, PTL
  <1>4. QED
    BY <1>1, <1>2, <1>3, TreeIsTold

\* More pieces, of which nothing is told.
LEMMA FlattenLonger ==
  ASSUME NEW S, NEW s \in Seq(Seq(S)), NEW t \in Seq(Seq(S)), s # <<>>, Len(s) <= Len(t),
         \A k \in 1..Len(s) : t[k] = s[k], \A k \in (Len(s) + 1)..Len(t) : t[k] = <<>>
  PROVE  FlattenSeq(t) = FlattenSeq(s)
  <1>1. PICK q \in 1..Len(s) : q = Len(s) /\ q \in 1..Len(t)
    <2>1. Len(s) \in Nat /\ Len(t) \in Nat /\ Len(s) # 0
      OBVIOUS
    <2>2. Len(s) \in 1..Len(s) /\ Len(s) \in 1..Len(t)
      BY <2>1
    <2>3. QED
      BY <2>2
  <1>2. SameBefore(s, t, q)
    BY <1>1 DEF SameBefore
  <1>3. NothingAfter(s, q)
    BY <1>1 DEF NothingAfter
  <1>4. NothingAfter(t, q)
    BY <1>1 DEF NothingAfter
  <1>5. q \in 1..Len(t)
    BY <1>1
  <1>6. \E a \in Seq(S) : FlattenSeq(s) = a \o s[q] /\ FlattenSeq(t) = a \o t[q]
    BY ONLY s \in Seq(Seq(S)), t \in Seq(Seq(S)), q \in 1..Len(s), <1>2, <1>3, <1>4, <1>5, FlattenParted
  <1>7. PICK a : FlattenSeq(s) = a \o s[q] /\ FlattenSeq(t) = a \o t[q]
    BY <1>6
  <1>8. s[q] = t[q]
    BY <1>1
  <1>9. QED
    BY <1>7, <1>8

\* The same is told of the children.
LEMMA InnerSame ==
  ASSUME TreeOrdered, TreeOrdered', TreeTold, TreeTold', nodes # <<>>, DOMAIN nodes \subseteq DOMAIN nodes',
         NEW i \in Nat, \A j \in DOMAIN nodes : ToldIn(i, j)' = ToldIn(i, j),
         \A j \in DOMAIN nodes' : j \notin DOMAIN nodes => nodes'[j].parent # i
  PROVE  InnerTold(i)' = InnerTold(i)
  <1>1. /\ Pieces(i) \in Seq(Seq(Event)) /\ Len(Pieces(i)) = Len(nodes) /\ InnerTold(i) = FlattenSeq(Pieces(i))
        /\ \A j \in 1..Len(nodes) : Pieces(i)[j] = ToldIn(i, j)
    BY DEF TreeTold
  <1>2. /\ Pieces(i)' \in Seq(Seq(Event)) /\ Len(Pieces(i)') = Len(nodes') /\ InnerTold(i)' = FlattenSeq(Pieces(i)')
        /\ \A j \in 1..Len(nodes') : Pieces(i)'[j] = ToldIn(i, j)'
    BY DEF TreeTold
  <1>3. /\ Len(nodes) \in Nat /\ DOMAIN nodes = 1..Len(nodes) /\ Len(nodes) # 0
        /\ Len(nodes') \in Nat /\ DOMAIN nodes' = 1..Len(nodes') /\ Len(nodes) <= Len(nodes')
    BY DEF TreeOrdered
  <1>4. \A j \in DOMAIN nodes' : j \notin DOMAIN nodes => ToldIn(i, j)' = <<>>
    BY DEF ToldIn
  <1>5. PICK s \in Seq(Seq(Event)), t \in Seq(Seq(Event)) : s = Pieces(i) /\ t = Pieces(i)'
    BY <1>1, <1>2
  <1>6. s # <<>> /\ Len(s) <= Len(t)
    BY <1>1, <1>2, <1>3, <1>5
  <1>7. \A k \in 1..Len(s) : t[k] = s[k]
    BY <1>1, <1>2, <1>3, <1>5
  <1>8. ASSUME NEW k \in (Len(s) + 1)..Len(t) PROVE t[k] = <<>>
    <2>1. k \in DOMAIN nodes' /\ k \notin DOMAIN nodes /\ k \in 1..Len(nodes')
      BY <1>1, <1>2, <1>3, <1>5
    <2>2. ToldIn(i, k)' = <<>> /\ t[k] = ToldIn(i, k)'
      BY <1>2, <1>4, <1>5, <2>1
    <2>3. QED
      BY <2>2
  <1>9. FlattenSeq(t) = FlattenSeq(s)
    BY <1>6, <1>7, <1>8, FlattenLonger
  <1>10. QED
    BY <1>1, <1>2, <1>5, <1>9

\* What is told of nodes that keep their tag, their text and their children
\* is the same.
LEMMA TraversedStays ==
  ASSUME TreeOrdered, TreeOrdered', TreeTold, TreeTold', nodes # <<>>, DOMAIN nodes \subseteq DOMAIN nodes',
         NEW K, K \subseteq DOMAIN nodes,
         \A i \in K : /\ nodes'[i].kind = nodes[i].kind /\ nodes'[i].text = nodes[i].text
                      /\ nodes'[i].tag = nodes[i].tag
                      /\ ChildSet(i)' = ChildSet(i) /\ ChildSet(i) \subseteq K
  PROVE  \A i \in K : Traversed'[i] = Traversed[i]
  <1> DEFINE T == {i \in K : Traversed'[i] # Traversed[i]}
             N == Len(nodes)
  <1> SUFFICES ASSUME T # {} PROVE FALSE
    OBVIOUS
  <1>1. N \in Nat /\ DOMAIN nodes = 1..N
    BY NodesInSequence
  <1>2. T \subseteq Nat /\ T # {} /\ \A i \in T : i <= N
    BY <1>1
  <1> HIDE DEF T, N
  <1>3. PICK i \in T : \A j \in T : j <= i
    BY <1>1, <1>2, Greatest
  <1>4. i \in K /\ i \in DOMAIN nodes /\ i \in DOMAIN nodes' /\ i \in Nat /\ Traversed'[i] # Traversed[i]
    BY <1>1, <1>3 DEF T
  <1>5. ChildSet(i) \subseteq (i + 1)..N
    BY <1>4, ChildrenListed DEF N
  <1>6. \A j \in ChildSet(i) : Traversed'[j] = Traversed[j]
    BY <1>1, <1>3, <1>4, <1>5 DEF T
  <1>7. \A j \in DOMAIN nodes' : nodes'[j].parent = i <=> j \in ChildSet(i)
    BY <1>4 DEF ChildSet
  <1>8. \A j \in DOMAIN nodes : nodes[j].parent = i <=> j \in ChildSet(i)
    BY <1>4 DEF ChildSet
  <1>9. \A j \in DOMAIN nodes : ToldIn(i, j)' = ToldIn(i, j)
    <2> TAKE j \in DOMAIN nodes
    <2>1. CASE j \in ChildSet(i)
      BY <1>6, <1>7, <1>8, <2>1 DEF ToldIn
    <2>2. CASE j \notin ChildSet(i)
      BY <1>7, <1>8, <2>2 DEF ToldIn
    <2>3. QED
      BY <2>1, <2>2
  <1>10. \A j \in DOMAIN nodes' : j \notin DOMAIN nodes => nodes'[j].parent # i
    BY <1>7 DEF ChildSet
  <1>11. InnerTold(i)' = InnerTold(i)
    BY <1>4, <1>9, <1>10, InnerSame
  <1>12. Begins(nodes'[i]) = Begins(nodes[i]) /\ Ends(nodes'[i]) = Ends(nodes[i])
    BY <1>4 DEF Begins, Ends, CharsOf
  <1>13. /\ Traversed[i] = Begins(nodes[i]) \o InnerTold(i) \o Ends(nodes[i])
         /\ Traversed'[i] = Begins(nodes'[i]) \o InnerTold(i)' \o Ends(nodes'[i])
    BY <1>4 DEF TreeTold
  <1>14. QED
    BY <1>4, <1>11, <1>12, <1>13

----------------------------------------
\* The open nodes.

\* The nodes that are open.
Path == {NodeAt(k) : k \in 0..Len(calls)}

\* Each of them is the last child of the one before.
OpenLast ==
  \A k \in DOMAIN calls : NodeAt(k) # NodeAt(k - 1) =>
    /\ nodes[NodeAt(k)].parent = NodeAt(k - 1)
    /\ \A j \in DOMAIN nodes : nodes[j].parent = NodeAt(k - 1) => j <= NodeAt(k)

\* What is known of the open nodes.
LEMMA PathFacts ==
  ASSUME TypeInv, phase = "parsing", OpenLast
  PROVE  /\ Len(calls) \in Nat /\ DOMAIN calls = 1..Len(calls)
         /\ NodeAt(0) = 1 /\ NodeAt(Len(calls)) = Target /\ Target \in Path
         /\ \A k \in 0..Len(calls) : NodeAt(k) \in DOMAIN nodes /\ NodeAt(k) \in Nat /\ NodeAt(k) \in Path
         /\ \A j, k \in 0..Len(calls) : j <= k => NodeAt(j) <= NodeAt(k)
         /\ \A k \in 1..Len(calls) :
              /\ NodeAt(k) # NodeAt(k - 1) => /\ nodes[NodeAt(k)].parent = NodeAt(k - 1) /\ NodeAt(k - 1) < NodeAt(k)
                                              /\ calls[k].kind = "entity" => nodes[NodeAt(k)].kind = "reference"
              /\ NodeAt(k) = NodeAt(k - 1) => calls[k].kind = "entity"
  <1>1. /\ nodes \in Seq(Node) /\ Len(nodes) \in Nat /\ DOMAIN nodes = 1..Len(nodes)
        /\ TreeOrdered /\ AllPlaced /\ CallType /\ CallPath
    BY TypeFacts
  <1>2. PICK n \in Nat : n = Len(calls) /\ DOMAIN calls = 1..n
    BY <1>1 DEF CallType
  <1>3. \A k \in 1..n : calls[k].node \in DOMAIN nodes /\ NodeAt(k) = calls[k].node
    <2>1. \A k \in DOMAIN calls : calls[k].node \in DOMAIN nodes
      BY <1>1, CallsShape DEF CallType
    <2>2. QED
      BY <1>2, <2>1 DEF NodeAt
  <1>4. NodeAt(0) = 1
    BY DEF NodeAt
  <1>5. NodeAt(n) = Target /\ 1 \in DOMAIN nodes
    <2>1. nodes # <<>>
      BY DEF TypeInv, Stages
    <2>2. calls = <<>> <=> n = 0
      BY <1>1, <1>2 DEF CallType
    <2>3. QED
      BY <1>1, <1>2, <1>3, <1>4, <2>1, <2>2, TargetIs
  <1>6. \A k \in 0..n : NodeAt(k) \in DOMAIN nodes /\ NodeAt(k) \in Nat /\ NodeAt(k) \in Path
    <2>1. \A k \in 0..n : k = 0 \/ k \in 1..n
      BY <1>2
    <2>2. \A k \in 0..n : NodeAt(k) \in DOMAIN nodes
      BY <1>3, <1>4, <1>5, <2>1
    <2>3. QED
      BY <1>1, <1>2, <2>2 DEF Path
  <1>7. \A j, k \in 0..n : j <= k => NodeAt(j) <= NodeAt(k)
    <2> TAKE j, k \in 0..n
    <2> HAVE j <= k
    <2>1. CASE j = 0
      BY <1>1, <1>4, <1>6, <2>1
    <2>2. CASE j # 0 /\ j < k
      <3>1. j \in 1..n /\ k \in 1..n
        BY <1>2, <2>2
      <3>2. calls[j].node <= calls[k].node
        BY <1>1, <1>2, <2>2, <3>1 DEF CallPath
      <3>3. QED
        BY <1>3, <3>1, <3>2
    <2>3. CASE j = k
      BY <1>6, <2>3
    <2>4. QED
      BY <1>2, <2>1, <2>2, <2>3
  <1>8. ASSUME NEW k \in 1..n
        PROVE  /\ NodeAt(k) # NodeAt(k - 1) => /\ nodes[NodeAt(k)].parent = NodeAt(k - 1) /\ NodeAt(k - 1) < NodeAt(k)
                                               /\ calls[k].kind = "entity" => nodes[NodeAt(k)].kind = "reference"
               /\ NodeAt(k) = NodeAt(k - 1) => calls[k].kind = "entity"
    <2>1. k \in DOMAIN calls /\ k \in 0..n /\ k - 1 \in 0..n
      BY <1>2
    <2>2. NodeAt(k) # NodeAt(k - 1) => nodes[NodeAt(k)].parent = NodeAt(k - 1)
      BY <2>1 DEF OpenLast
    <2>3. NodeAt(k) \in DOMAIN nodes /\ NodeAt(k - 1) \in DOMAIN nodes /\ NodeAt(k) = calls[k].node
      BY <1>3, <1>6, <2>1
    <2>4. nodes[NodeAt(k)].parent = NodeAt(k - 1) => NodeAt(k - 1) < NodeAt(k)
      BY <1>1, <2>3 DEF TreeOrdered, Detached
    <2>5. /\ calls[k].kind \in {"element", "entity"}
          /\ k = 1 => calls[k].kind = "element"
          /\ k > 1 => \/ /\ nodes[calls[k].node].parent = calls[k - 1].node
                         /\ calls[k].kind = "entity" => nodes[calls[k].node].kind = "reference"
                      \/ calls[k].kind = "entity" /\ calls[k].node = calls[k - 1].node
      <3>1. calls[k].kind \in {"element", "entity"}
        <4>1. calls[k] \in CallIn(DOMAIN nodes)
          BY <1>1, <2>1 DEF CallType
        <4>2. QED
          BY <4>1, CallShape
      <3>2. QED
        BY <1>1, <2>1, <3>1 DEF CallPath
    <2>6. k > 1 => NodeAt(k - 1) = calls[k - 1].node
      BY <1>2 DEF NodeAt
    <2>7. k = 1 => NodeAt(k) # NodeAt(k - 1)
      <3>1. k = 1 => nodes[NodeAt(k)].kind = "element"
        BY <1>1, <2>1, <2>3, <2>5 DEF CallPath
      <3>2. nodes[1].kind = "prolog"
        BY <1>1, <1>5 DEF AllPlaced, Placed
      <3>3. k = 1 => NodeAt(k - 1) = 1
        BY <1>4
      <3>4. QED
        BY <3>1, <3>2, <3>3
    <2>8. CASE k = 1
      BY <2>2, <2>4, <2>5, <2>7, <2>8
    <2>9. CASE k > 1
      <3>1. PICK a \in Nat, b \in Nat : a = NodeAt(k) /\ b = NodeAt(k - 1)
        BY <1>6, <2>1
      <3>2. \/ nodes[a].parent = b /\ (calls[k].kind = "entity" => nodes[a].kind = "reference")
            \/ calls[k].kind = "entity" /\ a = b
        BY <2>3, <2>5, <2>6, <2>9, <3>1
      <3>3. nodes[a].parent = b => b < a
        BY <2>4, <3>1
      <3>4. a # b => nodes[a].parent = b
        BY <2>2, <3>1
      <3>5. a # b => b < a /\ (calls[k].kind = "entity" => nodes[a].kind = "reference")
        BY <3>2, <3>3, <3>4
      <3>6. a = b => calls[k].kind = "entity"
        BY <3>2, <3>3
      <3>7. QED
        BY <3>1, <3>4, <3>5, <3>6
    <2>10. QED
      BY <1>2, <2>8, <2>9
  <1>9. QED
    BY <1>2, <1>4, <1>5, <1>6, <1>7, <1>8

\* Something is added below the target.
TreeGrew ==
  /\ DOMAIN nodes \subseteq DOMAIN nodes'
  /\ \A i \in DOMAIN nodes :
       /\ nodes'[i].kind = nodes[i].kind /\ nodes'[i].tag = nodes[i].tag /\ nodes'[i].parent = nodes[i].parent
       /\ nodes'[i].text # nodes[i].text => nodes[i].parent = Target /\ i \notin Path
  /\ \A j \in DOMAIN nodes' : j \notin DOMAIN nodes => nodes'[j].parent = Target

\* The nodes that are open have open parents.
LEMMA PathParents ==
  ASSUME TypeInv, phase = "parsing", OpenLast
  PROVE  \A i \in Path : nodes[i].parent \in {0} \cup Path
  <1>1. PICK n \in Nat : n = Len(calls)
    BY PathFacts
  <1> DEFINE Good == {k \in 0..n : nodes[NodeAt(k)].parent \in {0} \cup Path}
  <1>2. 0 \in Good
    <2>1. NodeAt(0) = 1 /\ 1 \in DOMAIN nodes /\ 0 \in 0..n
      BY <1>1, PathFacts
    <2>2. nodes[1].parent = 0
      BY <2>1, TypeFacts DEF AllPlaced, Placed
    <2>3. QED
      BY <2>1, <2>2
  <1>3. ASSUME NEW k \in 1..n, k - 1 \in Good PROVE k \in Good
    <2>1. k \in 0..n /\ k - 1 \in 0..n
      BY <1>1
    <2>2. NodeAt(k) # NodeAt(k - 1) => nodes[NodeAt(k)].parent = NodeAt(k - 1) /\ NodeAt(k - 1) \in Path
      BY <1>1, <2>1, PathFacts
    <2>3. nodes[NodeAt(k - 1)].parent \in {0} \cup Path
      BY <1>3
    <2>4. CASE NodeAt(k) = NodeAt(k - 1)
      BY <2>1, <2>3, <2>4
    <2>5. CASE NodeAt(k) # NodeAt(k - 1)
      BY <2>1, <2>2, <2>5
    <2>6. QED
      BY <2>4, <2>5
  <1> HIDE DEF Good
  <1>4. 0..n \subseteq Good
    BY <1>1, <1>2, <1>3, UptoInduction
  <1>5. \A k \in 0..n : nodes[NodeAt(k)].parent \in {0} \cup Path
    BY <1>4 DEF Good
  <1>6. QED
    BY <1>1, <1>5 DEF Path

\* The same is told of the nodes beside them.
LEMMA OffPath ==
  ASSUME TypeInv, TypeInv', phase = "parsing", OpenLast, TreeGrew
  PROVE  \A i \in DOMAIN nodes : i \notin Path /\ nodes'[i].text = nodes[i].text => Traversed'[i] = Traversed[i]
  <1> DEFINE K == {i \in DOMAIN nodes : i \notin Path /\ nodes'[i].text = nodes[i].text}
  <1>1. /\ TreeTold /\ TreeTold' /\ TreeOrdered /\ TreeOrdered' /\ AllPlaced /\ AllPlaced'
        /\ Len(nodes) \in Nat /\ DOMAIN nodes = 1..Len(nodes)
    BY TreesAreTold
  <1>2. nodes # <<>> /\ Target \in Path /\ Path \subseteq DOMAIN nodes
    <2>1. nodes # <<>>
      BY DEF TypeInv, Stages
    <2>2. QED
      BY <2>1, PathFacts DEF Path
  <1>3. ASSUME NEW i \in K
        PROVE  /\ nodes'[i].kind = nodes[i].kind /\ nodes'[i].text = nodes[i].text
               /\ nodes'[i].tag = nodes[i].tag
               /\ ChildSet(i)' = ChildSet(i) /\ ChildSet(i) \subseteq K
    <2>1. i \in DOMAIN nodes /\ i \notin Path /\ nodes'[i].text = nodes[i].text /\ i # Target /\ i # 0
      BY <1>1, <1>2
    <2>2. nodes'[i].kind = nodes[i].kind /\ nodes'[i].tag = nodes[i].tag
      BY <2>1 DEF TreeGrew
    <2>3. ChildSet(i)' = ChildSet(i)
      BY <2>1 DEF TreeGrew, ChildSet
    <2>4. ASSUME NEW j \in ChildSet(i) PROVE j \in K
      <3>1. j \in DOMAIN nodes /\ nodes[j].parent = i
        BY DEF ChildSet
      <3>2. j \notin Path
        BY <2>1, <3>1, PathParents
      <3>3. nodes'[j].text = nodes[j].text
        BY <2>1, <3>1 DEF TreeGrew
      <3>4. QED
        BY <3>1, <3>2, <3>3
    <2>5. QED
      BY <2>1, <2>2, <2>3, <2>4
  <1>4. K \subseteq DOMAIN nodes /\ DOMAIN nodes \subseteq DOMAIN nodes'
    BY DEF TreeGrew
  <1> HIDE DEF K
  <1>5. \A i \in K : Traversed'[i] = Traversed[i]
    BY <1>1, <1>2, <1>3, <1>4, TraversedStays
  <1>6. QED
    BY <1>5 DEF K

\* What is told of an open node so far.
OpenTold(i) == Begins(nodes[i]) \o InnerTold(i)

\* What is told before the child that is open.
LEMMA PathChild ==
  ASSUME TypeInv, TypeInv', phase = "parsing", OpenLast, TreeGrew,
         NEW k \in 1..Len(calls), NEW p, NEW c, p = NodeAt(k - 1), c = NodeAt(k), p # c
  PROVE  \E a \in Seq(Event) : InnerTold(p) = a \o Traversed[c] /\ InnerTold(p)' = a \o Traversed'[c]
  <1>1. /\ TreeTold /\ TreeTold' /\ TreeOrdered /\ TreeOrdered'
        /\ Len(nodes) \in Nat /\ DOMAIN nodes = 1..Len(nodes)
        /\ Len(nodes') \in Nat /\ DOMAIN nodes' = 1..Len(nodes')
    BY TreesAreTold
  <1>2. /\ p \in DOMAIN nodes /\ p \in Nat /\ c \in DOMAIN nodes /\ c \in Nat /\ p < c /\ nodes[c].parent = p
        /\ c \in DOMAIN nodes'
    <2>1. k \in 0..Len(calls) /\ k - 1 \in 0..Len(calls) /\ Len(calls) \in Nat
      BY PathFacts
    <2>2. QED
      BY <2>1, PathFacts DEF TreeGrew
  <1>3. Target # p
    <2>1. Len(calls) \in Nat /\ Len(calls) \in 0..Len(calls) /\ k \in 0..Len(calls) /\ k <= Len(calls)
      BY PathFacts
    <2>2. c <= NodeAt(Len(calls)) /\ NodeAt(Len(calls)) = Target /\ Target \in Nat
      BY <2>1, PathFacts
    <2>3. QED
      BY <1>2, <2>2
  <1>4. /\ \A j \in DOMAIN nodes : nodes'[j].parent = nodes[j].parent
        /\ \A j \in DOMAIN nodes' : nodes'[j].parent = p => j \in DOMAIN nodes /\ nodes[j].parent = p
    BY <1>3 DEF TreeGrew
  <1>5. \A j \in DOMAIN nodes : nodes[j].parent = p => j <= c
    <2>1. k \in DOMAIN calls
      BY PathFacts
    <2>2. QED
      BY <2>1 DEF OpenLast
  <1>6. ASSUME NEW j \in DOMAIN nodes, nodes[j].parent = p, j < c PROVE Traversed'[j] = Traversed[j]
    <2>1. j \in Nat /\ p < j
      BY <1>1, <1>2, <1>6 DEF TreeOrdered, Detached
    <2>2. j \notin Path
      <3> SUFFICES ASSUME NEW m \in 0..Len(calls), j = NodeAt(m) PROVE FALSE
        BY DEF Path
      <3>1. Len(calls) \in Nat /\ k \in 0..Len(calls) /\ k - 1 \in 0..Len(calls) /\ m \in Nat /\ k \in Nat
        BY PathFacts
      <3>2. m <= k - 1 => j <= p
        BY <3>1, PathFacts
      <3>3. k <= m => c <= j
        BY <3>1, PathFacts
      <3>4. QED
        BY <1>2, <1>6, <2>1, <3>1, <3>2, <3>3
    <2>3. nodes'[j].text = nodes[j].text
      BY <1>3, <1>6 DEF TreeGrew
    <2>4. QED
      BY <2>2, <2>3, OffPath
  <1>7. /\ \A i \in Nat : /\ Pieces(i) \in Seq(Seq(Event)) /\ Len(Pieces(i)) = Len(nodes)
                          /\ \A j \in 1..Len(nodes) : Pieces(i)[j] = ToldIn(i, j)
                          /\ InnerTold(i) = FlattenSeq(Pieces(i))
        /\ \A i \in Nat : /\ Pieces(i)' \in Seq(Seq(Event)) /\ Len(Pieces(i)') = Len(nodes')
                          /\ \A j \in 1..Len(nodes') : Pieces(i)'[j] = ToldIn(i, j)'
                          /\ InnerTold(i)' = FlattenSeq(Pieces(i)')
    BY <1>1 DEF TreeTold
  <1>8. PICK s \in Seq(Seq(Event)) : /\ Len(s) = Len(nodes) /\ InnerTold(p) = FlattenSeq(s)
                                     /\ \A j \in 1..Len(nodes) : s[j] = ToldIn(p, j)
    BY <1>2, <1>7, Zenon
  <1>9. PICK t \in Seq(Seq(Event)) : /\ Len(t) = Len(nodes') /\ InnerTold(p)' = FlattenSeq(t)
                                     /\ \A j \in 1..Len(nodes') : t[j] = ToldIn(p, j)'
    BY <1>2, <1>7, Zenon
  <1>10. c \in 1..Len(s) /\ c \in 1..Len(t) /\ s[c] = Traversed[c] /\ t[c] = Traversed'[c]
    BY <1>1, <1>2, <1>4, <1>8, <1>9 DEF ToldIn
  <1>11. SameBefore(s, t, c)
    <2>1. ASSUME NEW j \in 1..(c - 1) PROVE s[j] = t[j]
      <3>1. j < c /\ j \in 1..Len(nodes) /\ j \in 1..Len(nodes')
        <4>1. c \in Nat /\ c \in 1..Len(nodes) /\ c \in 1..Len(nodes') /\ Len(nodes) \in Nat /\ Len(nodes') \in Nat
          BY <1>1, <1>2
        <4>2. QED
          BY ONLY <4>1, j \in 1..(c - 1)
      <3>2. s[j] = ToldIn(p, j) /\ t[j] = ToldIn(p, j)'
        BY <1>8, <1>9, <3>1
      <3>3. ToldIn(p, j)' = ToldIn(p, j)
        BY <1>1, <1>4, <1>6, <3>1 DEF ToldIn
      <3>4. QED
        BY <3>2, <3>3
    <2>2. QED
      BY <2>1 DEF SameBefore
  <1>12. NothingAfter(s, c)
    <2>1. ASSUME NEW j \in (c + 1)..Len(s) PROVE s[j] = <<>>
      <3>1. j \in DOMAIN nodes /\ c < j /\ j \in 1..Len(nodes) /\ j \in Nat
        BY <1>1, <1>2, <1>8
      <3>2. nodes[j].parent # p
        BY <1>2, <1>5, <3>1
      <3>3. QED
        BY <1>8, <3>1, <3>2 DEF ToldIn
    <2>2. QED
      BY <2>1 DEF NothingAfter
  <1>13. NothingAfter(t, c)
    <2>1. ASSUME NEW j \in (c + 1)..Len(t) PROVE t[j] = <<>>
      <3>1. j \in DOMAIN nodes' /\ c < j /\ j \in 1..Len(nodes') /\ j \in Nat
        BY <1>1, <1>2, <1>9
      <3>2. nodes'[j].parent # p
        <4>1. nodes'[j].parent = p => j <= c
          BY <1>4, <1>5, <3>1
        <4>2. QED
          BY <1>2, <3>1, <4>1
      <3>3. QED
        BY <1>9, <3>1, <3>2 DEF ToldIn
    <2>2. QED
      BY <2>1 DEF NothingAfter
  <1>14. PICK a \in Seq(Event) : FlattenSeq(s) = a \o s[c] /\ FlattenSeq(t) = a \o t[c]
    BY <1>8, <1>9, <1>10, <1>11, <1>12, <1>13, FlattenParted
  <1>15. QED
    BY <1>8, <1>9, <1>10, <1>14

\* What closes the nodes of the calls, the innermost first.
Closing(call) == IF call.kind = "element" THEN Ends(nodes[call.node]) ELSE <<>>
ClosesBy(c) == c[0] = <<>> /\ \A k \in 1..Len(calls) : c[k] = Closing(calls[k]) \o c[k - 1]

\* What is told of an open node and what ends it are all of it.
LEMMA OpenNode ==
  ASSUME TreeTold, NEW i \in DOMAIN nodes
  PROVE  /\ OpenTold(i) \in Seq(Event) /\ Ends(nodes[i]) \in Seq(Event)
         /\ Traversed[i] = OpenTold(i) \o Ends(nodes[i])
         /\ OpenTold(i) = Begins(nodes[i]) \o InnerTold(i)
         /\ Begins(nodes[i]) \in Seq(Event) /\ InnerTold(i) \in Seq(Event)
  <1>1. PICK b \in Seq(Event), c \in Seq(Event), e \in Seq(Event) :
          /\ b = Begins(nodes[i]) /\ c = InnerTold(i) /\ e = Ends(nodes[i])
          /\ Traversed[i] = b \o c \o e
    BY DEF TreeTold
  <1>2. OpenTold(i) = b \o c /\ b \o c \in Seq(Event)
    BY <1>1 DEF OpenTold
  <1>3. QED
    BY <1>1, <1>2

\* The same of all nodes, in this state and the next.
AllOpen ==
  \A i \in DOMAIN nodes :
    /\ OpenTold(i) \in Seq(Event) /\ Ends(nodes[i]) \in Seq(Event)
    /\ Traversed[i] = OpenTold(i) \o Ends(nodes[i])
    /\ OpenTold(i) = Begins(nodes[i]) \o InnerTold(i)
    /\ Begins(nodes[i]) \in Seq(Event) /\ InnerTold(i) \in Seq(Event)

\* So it is.
LEMMA AllAreOpen == TreeTold => AllOpen
  BY OpenNode DEF AllOpen

\* An open node begins and ends with the same after a step.
LEMMA OpenNodes ==
  ASSUME TypeInv, TypeInv', TreeGrew, NEW i \in DOMAIN nodes, i \in Path
  PROVE  /\ OpenTold(i) \in Seq(Event) /\ OpenTold(i)' \in Seq(Event)
         /\ Begins(nodes[i]) \in Seq(Event) /\ Ends(nodes[i]) \in Seq(Event)
         /\ InnerTold(i) \in Seq(Event) /\ InnerTold(i)' \in Seq(Event)
         /\ OpenTold(i) = Begins(nodes[i]) \o InnerTold(i)
         /\ OpenTold(i)' = Begins(nodes[i]) \o InnerTold(i)'
         /\ Traversed[i] = OpenTold(i) \o Ends(nodes[i])
         /\ Traversed'[i] = OpenTold(i)' \o Ends(nodes[i])
  <1>1. TreeTold /\ TreeTold'
    BY TreesAreTold
  <1>2. i \in DOMAIN nodes' /\ nodes'[i].kind = nodes[i].kind /\ nodes'[i].tag = nodes[i].tag /\ nodes'[i].text = nodes[i].text
    BY DEF TreeGrew
  <1>3. Begins(nodes'[i]) = Begins(nodes[i]) /\ Ends(nodes'[i]) = Ends(nodes[i])
    BY <1>2 DEF Begins, Ends, CharsOf
  <1>4. (TreeTold => AllOpen)'
    BY AllAreOpen, PTL
  <1>5. AllOpen /\ AllOpen'
    BY <1>1, <1>4, AllAreOpen
  <1>6. QED
    BY <1>2, <1>3, <1>5 DEF AllOpen

\* Pieces of what is told, put together.
Regroups(b, a, t, e, g) == (b \o (a \o (t \o e))) \o g = (b \o a) \o t \o (e \o g)

\* They are the same.
LEMMA Regrouped ==
  ASSUME NEW b \in Seq(Event), NEW a \in Seq(Event), NEW t \in Seq(Event), NEW e \in Seq(Event), NEW g \in Seq(Event)
  PROVE  Regroups(b, a, t, e, g)
  <1>1. b \o a \in Seq(Event) /\ t \o e \in Seq(Event)
    OBVIOUS
  <1>2. (b \o a) \o t \in Seq(Event)
    BY ONLY <1>1, t \in Seq(Event)
  <1>3. Associates(b, a, t \o e)
    BY ONLY <1>1, b \in Seq(Event), a \in Seq(Event), AllAssociate
  <1>4. Associates(b \o a, t, e)
    BY ONLY <1>1, t \in Seq(Event), e \in Seq(Event), AllAssociate
  <1>5. Associates((b \o a) \o t, e, g)
    BY ONLY <1>2, e \in Seq(Event), g \in Seq(Event), AllAssociate
  <1>6. QED
    BY <1>3, <1>4, <1>5 DEF Associates, Regroups

\* One call further in, more has been told, and more is to be closed.
LEMMA PathStep ==
  ASSUME TypeInv, TypeInv', phase = "parsing", OpenLast, TreeGrew,
         NEW f, ClosesBy(f), \A k \in 0..Len(calls) : f[k] \in Seq(Event),
         NEW k \in 1..Len(calls), NEW p, NEW c, p = NodeAt(k - 1), c = NodeAt(k)
  PROVE  \E x \in Seq(Event) : /\ OpenTold(p) \o f[k - 1] = x \o OpenTold(c) \o f[k]
                               /\ OpenTold(p)' \o f[k - 1] = x \o OpenTold(c)' \o f[k]
  <1>1. k \in 0..Len(calls) /\ k - 1 \in 0..Len(calls) /\ k # 0
    BY PathFacts
  <1>2. p \in DOMAIN nodes /\ p \in Path /\ c \in DOMAIN nodes /\ c \in Path
    BY <1>1, PathFacts
  <1>3. PICK g \in Seq(Event) : g = f[k - 1] /\ f[k] = Closing(calls[k]) \o g
    BY <1>1 DEF ClosesBy
  <1>4. CASE p = c
    <2>1. Closing(calls[k]) = <<>>
      <3>1. calls[k].kind = "entity"
        BY <1>1, <1>4, PathFacts
      <3>2. QED
        BY <3>1 DEF Closing
    <2>2. f[k] = g
      BY <1>3, <2>1
    <2>3. PICK t \in Seq(Event), u \in Seq(Event) : t = OpenTold(c) /\ u = OpenTold(c)'
      BY <1>2, OpenNodes
    <2>4. t \o g = <<>> \o t \o g /\ u \o g = <<>> \o u \o g /\ <<>> \in Seq(Event)
      OBVIOUS
    <2>5. OpenTold(p) = t /\ OpenTold(p)' = u
      BY <1>4, <2>3
    <2>6. QED
      BY <1>3, <2>2, <2>3, <2>4, <2>5
  <1>5. CASE p # c
    <2>1. PICK a \in Seq(Event) : InnerTold(p) = a \o Traversed[c] /\ InnerTold(p)' = a \o Traversed'[c]
      BY <1>5, PathChild
    <2>2. PICK b \in Seq(Event) : /\ b = Begins(nodes[p])
                                  /\ OpenTold(p) = b \o InnerTold(p) /\ OpenTold(p)' = b \o InnerTold(p)'
      BY <1>2, OpenNodes
    <2>3. PICK t \in Seq(Event), u \in Seq(Event), e \in Seq(Event) :
            /\ t = OpenTold(c) /\ u = OpenTold(c)' /\ e = Ends(nodes[c])
            /\ Traversed[c] = t \o e /\ Traversed'[c] = u \o e
      <3>1. /\ OpenTold(c) \in Seq(Event) /\ OpenTold(c)' \in Seq(Event) /\ Ends(nodes[c]) \in Seq(Event)
            /\ Traversed[c] = OpenTold(c) \o Ends(nodes[c]) /\ Traversed'[c] = OpenTold(c)' \o Ends(nodes[c])
        BY <1>2, OpenNodes
      <3>2. QED
        BY <3>1, Zenon
    <2>4. Closing(calls[k]) = e
      <3>1. c = calls[k].node
        BY <1>1 DEF NodeAt
      <3>2. calls[k].kind = "entity" => nodes[c].kind = "reference"
        BY <1>1, <1>5, PathFacts
      <3>3. calls[k].kind # "element" => calls[k].kind = "entity"
        <4>1. calls \in Seq(CallIn(DOMAIN nodes)) /\ k \in DOMAIN calls
          BY TypeFacts, PathFacts DEF CallType
        <4>2. calls[k] \in CallIn(DOMAIN nodes)
          BY <4>1
        <4>3. QED
          BY <4>2, CallShape
      <3>4. CASE calls[k].kind = "element"
        BY <2>3, <3>1, <3>4 DEF Closing
      <3>5. CASE calls[k].kind # "element"
        <4>1. nodes[c].kind = "reference"
          BY <3>2, <3>3, <3>5
        <4>2. Ends(nodes[c]) = <<>>
          BY <4>1 DEF Ends
        <4>3. QED
          BY <2>3, <3>5, <4>2 DEF Closing
      <3>6. QED
        BY <3>4, <3>5
    <2>5. /\ OpenTold(p) \o f[k - 1] = (b \o (a \o (t \o e))) \o g
          /\ OpenTold(p)' \o f[k - 1] = (b \o (a \o (u \o e))) \o g
          /\ f[k] = e \o g
      BY <1>3, <2>1, <2>2, <2>3, <2>4
    <2>6. Regroups(b, a, t, e, g) /\ Regroups(b, a, u, e, g)
      BY <1>3, <2>1, <2>2, <2>3, Regrouped
    <2>7. /\ (b \o (a \o (t \o e))) \o g = (b \o a) \o t \o (e \o g)
          /\ (b \o (a \o (u \o e))) \o g = (b \o a) \o u \o (e \o g)
      BY <2>6 DEF Regroups
    <2>8. PICK x \in Seq(Event) : x = b \o a
      <3>1. b \o a \in Seq(Event)
        BY <2>1, <2>2
      <3>2. QED
        BY <3>1
    <2>9. QED
      BY <2>3, <2>5, <2>6, <2>7, <2>8
  <1>6. QED
    BY <1>4, <1>5

\* Three or four pieces, put together.
Joins3(a, b, c) == (a \o b) \o c = a \o (b \o c)
Joins4(a, b, c, d) == a \o (b \o c \o d) = (a \o b) \o c \o d

\* They are the same.
LEMMA Joined ==
  ASSUME NEW a \in Seq(Event), NEW b \in Seq(Event), NEW c \in Seq(Event)
  PROVE  /\ Joins3(a, b, c) /\ a \o b \in Seq(Event)
         /\ \A d \in Seq(Event) : Joins4(a, b, c, d)
  <1>1. Joins3(a, b, c) /\ a \o b \in Seq(Event)
    BY DEF Joins3
  <1>2. ASSUME NEW d \in Seq(Event) PROVE Joins4(a, b, c, d)
    BY DEF Joins4
  <1>3. QED
    BY <1>1, <1>2

\* What is told of the tree, and what of it is told of the target: all the
\* rest stays.
LEMMA PathGrows ==
  ASSUME TypeInv, TypeInv', phase = "parsing", OpenLast, TreeGrew,
         NEW f, ClosesBy(f), \A k \in 0..Len(calls) : f[k] \in Seq(Event),
         NEW n, n = Len(calls), NEW t, t = Target
  PROVE  \E x \in Seq(Event) : /\ Traversed[1] = x \o OpenTold(t) \o f[n]
                               /\ Traversed'[1] = x \o OpenTold(t)' \o f[n]
  <1>1. n \in Nat /\ NodeAt(0) = 1 /\ NodeAt(n) = t
    BY PathFacts
  <1>2. PICK at : \A k \in 0..n : at[k] = NodeAt(k)
    <2>1. \A k \in 0..n : [m \in 0..n |-> NodeAt(m)][k] = NodeAt(k)
      OBVIOUS
    <2>2. QED
      BY <2>1
  <1>3. \A k \in 0..n : at[k] \in DOMAIN nodes /\ at[k] \in Path
    BY <1>1, <1>2, PathFacts
  <1> DEFINE Good == {m \in 0..n : \E x \in Seq(Event) :
                        /\ OpenTold(at[n - m]) \o f[n - m] = x \o OpenTold(t) \o f[n]
                        /\ OpenTold(at[n - m])' \o f[n - m] = x \o OpenTold(t)' \o f[n]}
  <1>4. PICK o \in Seq(Event), u \in Seq(Event), h \in Seq(Event) : o = OpenTold(t) /\ u = OpenTold(t)' /\ h = f[n]
    <2>1. n \in 0..n
      BY <1>1
    <2>2. OpenTold(t) \in Seq(Event) /\ OpenTold(t)' \in Seq(Event) /\ f[n] \in Seq(Event)
      BY <1>1, <1>2, <1>3, <2>1, OpenNodes
    <2>3. QED
      BY <2>2, Zenon
  <1>5. 0 \in Good
    <2>1. 0 \in 0..n /\ n - 0 = n /\ n \in 0..n
      BY <1>1
    <2>2. at[n] = t
      BY <1>1, <1>2, <2>1
    <2>3. o \o h = <<>> \o o \o h /\ u \o h = <<>> \o u \o h /\ <<>> \in Seq(Event)
      BY <1>4
    <2>4. /\ OpenTold(at[n - 0]) \o f[n - 0] = <<>> \o OpenTold(t) \o f[n]
          /\ OpenTold(at[n - 0])' \o f[n - 0] = <<>> \o OpenTold(t)' \o f[n]
      BY <1>4, <2>1, <2>2, <2>3
    <2>5. QED
      BY <2>1, <2>3, <2>4
  <1>6. ASSUME NEW m \in 1..n, m - 1 \in Good PROVE m \in Good
    <2>1. PICK k \in 1..n : k = n - (m - 1) /\ k - 1 = n - m
      <3>1. n - (m - 1) \in 1..n /\ (n - (m - 1)) - 1 = n - m
        BY <1>1
      <3>2. QED
        BY <3>1
    <2>2. PICK x \in Seq(Event) : /\ OpenTold(at[k]) \o f[k] = x \o o \o h
                                  /\ OpenTold(at[k])' \o f[k] = x \o u \o h
      BY <1>4, <1>6, <2>1
    <2>3. k \in 0..n /\ k - 1 \in 0..n /\ m \in 0..n
      BY <1>1
    <2>4. PICK p, c : p = at[k - 1] /\ c = at[k] /\ p = NodeAt(k - 1) /\ c = NodeAt(k)
      BY <1>2, <2>3
    <2>5. PICK y \in Seq(Event) : /\ OpenTold(p) \o f[k - 1] = y \o OpenTold(c) \o f[k]
                                  /\ OpenTold(p)' \o f[k - 1] = y \o OpenTold(c)' \o f[k]
      <3>1. k \in 1..Len(calls) /\ \A j \in 0..Len(calls) : f[j] \in Seq(Event)
        OBVIOUS
      <3>2. QED
        BY ONLY TypeInv, TypeInv', phase = "parsing", OpenLast, TreeGrew, ClosesBy(f), <2>4, <3>1, PathStep
    <2>6. PICK v \in Seq(Event), w \in Seq(Event), g \in Seq(Event) : v = OpenTold(c) /\ w = OpenTold(c)' /\ g = f[k]
      <3>1. OpenTold(c) \in Seq(Event) /\ OpenTold(c)' \in Seq(Event) /\ f[k] \in Seq(Event)
        BY <1>3, <2>3, <2>4, OpenNodes
      <3>2. QED
        BY <3>1, Zenon
    <2>7. v \o g = x \o o \o h /\ w \o g = x \o u \o h
      BY <2>2, <2>4, <2>6
    <2>8. y \o v \o g = y \o (v \o g) /\ y \o w \o g = y \o (w \o g)
      <3>1. Joins3(y, v, g) /\ Joins3(y, w, g)
        BY <2>5, <2>6, Joined
      <3>2. QED
        BY <3>1 DEF Joins3
    <2>9. y \o (x \o o \o h) = (y \o x) \o o \o h /\ y \o (x \o u \o h) = (y \o x) \o u \o h
      <3>1. Joins4(y, x, o, h) /\ Joins4(y, x, u, h)
        BY <1>4, <2>2, <2>5, Joined
      <3>2. QED
        BY <3>1 DEF Joins4
    <2>10. PICK z \in Seq(Event) : z = y \o x
      <3>1. y \o x \in Seq(Event)
        BY <2>2, <2>5
      <3>2. QED
        BY <3>1
    <2>11. /\ OpenTold(p) \o f[k - 1] = z \o o \o h
           /\ OpenTold(p)' \o f[k - 1] = z \o u \o h
      BY <2>5, <2>6, <2>7, <2>8, <2>9, <2>10
    <2>12. /\ OpenTold(at[n - m]) \o f[n - m] = z \o OpenTold(t) \o f[n]
           /\ OpenTold(at[n - m])' \o f[n - m] = z \o OpenTold(t)' \o f[n]
      BY <1>4, <2>1, <2>4, <2>11
    <2>13. QED
      BY <2>3, <2>10, <2>12
  <1>7. n \in Good
    <2> HIDE DEF Good
    <2>1. 0..n \subseteq Good
      BY <1>1, <1>5, <1>6, UptoInduction
    <2>2. QED
      BY <1>1, <2>1
  <1>8. PICK x \in Seq(Event) : /\ OpenTold(1) \o <<>> = x \o o \o h
                                /\ OpenTold(1)' \o <<>> = x \o u \o h
    <2>1. n - n = 0 /\ 0 \in 0..n
      BY <1>1
    <2>2. at[n - n] = 1 /\ f[n - n] = <<>>
      BY <1>1, <1>2, <2>1 DEF ClosesBy
    <2>3. QED
      BY <1>4, <1>7, <2>2
  <1>9. /\ Traversed[1] = OpenTold(1) \o <<>> /\ Traversed'[1] = OpenTold(1)' \o <<>>
    <2>1. 1 \in DOMAIN nodes /\ 1 \in Path
      BY <1>1, PathFacts
    <2>2. Ends(nodes[1]) = <<>>
      <3>1. nodes[1].kind = "prolog"
        BY <2>1, TypeFacts DEF AllPlaced, Placed
      <3>2. QED
        BY <3>1 DEF Ends
    <2>3. QED
      BY <2>1, <2>2, OpenNodes
  <1>10. QED
    BY <1>4, <1>8, <1>9

----------------------------------------
\* The tree as it is told so far.

\* What is left to read when a call ends.
Resting(call) == IF call.kind = "entity" THEN Events(call.rest, Told) ELSE <<>>

\* What the calls keep: their nodes are the last children of one another,
\* f has what closes them, and r what is told when they have ended.
Kept(f, r, k) ==
  /\ NodeAt(k) # NodeAt(k - 1) =>
       /\ nodes[NodeAt(k)].parent = NodeAt(k - 1)
       /\ \A j \in DOMAIN nodes : nodes[j].parent = NodeAt(k - 1) => j <= NodeAt(k)
  /\ f[k] = Closing(calls[k]) \o f[k - 1]
  /\ r[k] = Resting(calls[k]) \o r[k - 1]

PathWritten(f, r) ==
  /\ f[0] = <<>> /\ r[0] = <<>>
  /\ \A k \in 0..Len(calls) : f[k] \in Seq(Event) /\ r[k] \in Seq(Event)
  /\ \A k \in 1..Len(calls) : Kept(f, r, k)

\* The tree has what was read of the document.
WrittenBy(f, r, told) ==
  /\ told \in Seq(Event)
  /\ Traversed[1] = told \o f[Len(calls)]
  /\ Events(document, Told) = told \o Events(input, Told) \o r[Len(calls)]

WrittenSoFar ==
  /\ document \in Seq(AnyToken)
  /\ phase = "parsing" => \E f, r, told : PathWritten(f, r) /\ WrittenBy(f, r, told)

\* What the lemmas on open nodes ask for.
LEMMA PathWrittenIs ==
  ASSUME TypeInv, phase = "parsing", NEW f, NEW r, PathWritten(f, r)
  PROVE  OpenLast /\ ClosesBy(f) /\ \A k \in 0..Len(calls) : f[k] \in Seq(Event) /\ r[k] \in Seq(Event)
  <1>1. DOMAIN calls = 1..Len(calls)
    BY TypeFacts DEF CallType
  <1>2. OpenLast
    BY <1>1 DEF PathWritten, Kept, OpenLast
  <1>3. ClosesBy(f)
    BY DEF PathWritten, Kept, ClosesBy
  <1>4. QED
    BY <1>2, <1>3 DEF PathWritten

\* A call that goes on keeps this.
LEMMA KeptNext ==
  ASSUME TypeInv, phase = "parsing", OpenLast, TreeGrew, NEW f, NEW r, NEW k \in 1..Len(calls), Kept(f, r, k),
         calls'[k] = calls[k], k > 1 => calls'[k - 1] = calls[k - 1]
  PROVE  Kept(f, r, k)'
  <1>1. k \in 0..Len(calls) /\ k - 1 \in 0..Len(calls) /\ k # 0 /\ k \in Nat /\ Len(calls) \in Nat
    BY PathFacts
  <1>2. NodeAt(k)' = NodeAt(k) /\ NodeAt(k - 1)' = NodeAt(k - 1)
    BY <1>1 DEF NodeAt
  <1>3. PICK p \in DOMAIN nodes, c \in DOMAIN nodes : p = NodeAt(k - 1) /\ c = NodeAt(k)
    BY <1>1, PathFacts
  <1>4. p \in Nat /\ c \in Nat /\ p <= c /\ c <= Target /\ Target \in Nat
    <2>1. Len(calls) \in 0..Len(calls) /\ k - 1 <= k /\ k <= Len(calls)
      BY <1>1
    <2>2. p \in Nat /\ c \in Nat /\ p <= c
      BY <1>1, <1>3, <2>1, PathFacts
    <2>3. c <= Target /\ Target \in Nat
      BY <1>1, <1>3, <2>1, PathFacts
    <2>4. QED
      BY <2>2, <2>3
  <1>5. p # c => Target # p
    BY <1>4
  <1>6. NodeAt(k)' # NodeAt(k - 1)' =>
          /\ nodes'[NodeAt(k)'].parent = NodeAt(k - 1)'
          /\ \A j \in DOMAIN nodes' : nodes'[j].parent = NodeAt(k - 1)' => j <= NodeAt(k)'
    <2> SUFFICES ASSUME p # c
                 PROVE  nodes'[c].parent = p /\ \A j \in DOMAIN nodes' : nodes'[j].parent = p => j <= c
      BY <1>2, <1>3
    <2>1. nodes[c].parent = p /\ \A j \in DOMAIN nodes : nodes[j].parent = p => j <= c
      BY <1>3 DEF Kept
    <2>2. QED
      BY <1>5, <2>1 DEF TreeGrew
  <1>7. PICK call \in CallIn(DOMAIN nodes) : call = calls[k]
    <2>1. calls \in Seq(CallIn(DOMAIN nodes)) /\ k \in DOMAIN calls
      BY TypeFacts, PathFacts DEF CallType
    <2>2. calls[k] \in CallIn(DOMAIN nodes)
      BY <2>1
    <2>3. QED
      BY <2>2
  <1>8. Closing(call)' = Closing(call)
    <2>1. call.node \in DOMAIN nodes
      BY CallShape
    <2>2. nodes'[call.node].kind = nodes[call.node].kind /\ nodes'[call.node].tag = nodes[call.node].tag
      BY <2>1 DEF TreeGrew
    <2>3. QED
      BY <2>2 DEF Closing, Ends
  <1>9. f[k] = Closing(call) \o f[k - 1] /\ r[k] = Resting(call) \o r[k - 1]
    BY <1>7 DEF Kept
  <1>10. f[k] = Closing(call)' \o f[k - 1] /\ calls'[k] = call
    BY <1>7, <1>8, <1>9
  <1>11. QED
    BY <1>6, <1>9, <1>10 DEF Kept, Resting

\* The calls stay.
LEMMA PathStays ==
  ASSUME TypeInv, phase = "parsing", TreeGrew, NEW f, NEW r, PathWritten(f, r), calls' = calls
  PROVE  PathWritten(f, r)'
  <1>1. OpenLast
    BY PathWrittenIs
  <1>2. ASSUME NEW k \in 1..Len(calls) PROVE Kept(f, r, k)'
    BY <1>1, KeptNext DEF PathWritten
  <1>3. QED
    BY <1>2 DEF PathWritten

\* The innermost call ends.
LEMMA PathPopped ==
  ASSUME TypeInv, phase = "parsing", TreeGrew, NEW f, NEW r, PathWritten(f, r), calls # <<>>, calls' = Front(calls),
         NEW n, n = Len(calls)
  PROVE  PathWritten(f, r)' /\ Len(calls') = n - 1 /\ n \in 1..n /\ Kept(f, r, n)
  <1>1. OpenLast
    BY PathWrittenIs
  <1>2. n \in Nat /\ n # 0 /\ calls' = SubSeq(calls, 1, n - 1)
    BY TypeFacts DEF CallType, Front
  <1>3. Len(calls') = n - 1 /\ \A k \in 1..(n - 1) : calls'[k] = calls[k]
    BY <1>2, TypeFacts DEF CallType
  <1>4. ASSUME NEW k \in 1..(n - 1) PROVE Kept(f, r, k)'
    <2>1. k \in 1..Len(calls) /\ (k > 1 => k - 1 \in 1..(n - 1))
      BY <1>2
    <2>2. Kept(f, r, k) /\ calls'[k] = calls[k] /\ (k > 1 => calls'[k - 1] = calls[k - 1])
      BY <1>3, <2>1 DEF PathWritten
    <2>3. QED
      BY <1>1, <2>1, <2>2, KeptNext
  <1>5. \A k \in 0..(n - 1) : f[k] \in Seq(Event) /\ r[k] \in Seq(Event)
    BY <1>2 DEF PathWritten
  <1>6. PathWritten(f, r)'
    BY <1>3, <1>4, <1>5 DEF PathWritten
  <1>7. QED
    BY <1>2, <1>3, <1>6 DEF PathWritten

\* What a new call adds: what ends its node, and the rest around.
OneMore(g, s, f, r, n, end, rest) == g[n + 1] = end \o f[n] /\ s[n + 1] = rest \o r[n]

\* It receives what is read as the target does, or below it as its last child.
Receives(c) == c.node # Target => nodes'[c.node].parent = Target /\ \A j \in DOMAIN nodes' : j <= c.node

\* The calls get one more.
LEMMA PathPushed ==
  ASSUME TypeInv, phase = "parsing", TreeGrew, NEW f, NEW r, PathWritten(f, r),
         NEW c \in CallIn(DOMAIN nodes'), calls' = Append(calls, c), NEW n, n = Len(calls),
         Receives(c),
         NEW end \in Seq(Event), end = Closing(c)', NEW rest \in Seq(Event), rest = Resting(c)
  PROVE  \E g, s : PathWritten(g, s)' /\ Len(calls') = n + 1 /\ OneMore(g, s, f, r, n, end, rest)
  <1>0. c.node # Target => nodes'[c.node].parent = Target /\ \A j \in DOMAIN nodes' : j <= c.node
    BY DEF Receives
  <1>1. OpenLast
    BY PathWrittenIs
  <1>2. n \in Nat /\ NodeAt(n) = Target /\ calls \in Seq(CallIn(DOMAIN nodes))
    BY <1>1, PathFacts, TypeFacts DEF CallType
  <1>3. Len(calls') = n + 1 /\ calls'[n + 1] = c /\ \A k \in 1..n : calls'[k] = calls[k]
    <2>1. DOMAIN nodes \subseteq DOMAIN nodes'
      BY DEF TreeGrew
    <2>2. calls \in Seq(CallIn(DOMAIN nodes'))
      BY <1>2, <2>1, CallsShape
    <2>3. QED
      BY <1>2, <2>2
  <1> DEFINE g == [k \in 0..(n + 1) |-> IF k = n + 1 THEN end \o f[n] ELSE f[k]]
             s == [k \in 0..(n + 1) |-> IF k = n + 1 THEN rest \o r[n] ELSE r[k]]
  <1>4. /\ g[n + 1] = end \o f[n] /\ s[n + 1] = rest \o r[n]
        /\ \A k \in 0..n : g[k] = f[k] /\ s[k] = r[k]
    <2>1. n + 1 \in 0..(n + 1) /\ \A k \in 0..n : k \in 0..(n + 1) /\ k # n + 1
      BY ONLY <1>2
    <2>2. QED
      BY <2>1
  <1> HIDE DEF g, s
  <1>5. ASSUME NEW k \in 0..(n + 1) PROVE g[k] \in Seq(Event) /\ s[k] \in Seq(Event)
    <2>1. f[n] \in Seq(Event) /\ r[n] \in Seq(Event)
      BY <1>2 DEF PathWritten
    <2>2. end \o f[n] \in Seq(Event) /\ rest \o r[n] \in Seq(Event)
      BY <2>1
    <2>3. k # n + 1 => k \in 0..n
      BY <1>2
    <2>4. k \in 0..n => f[k] \in Seq(Event) /\ r[k] \in Seq(Event)
      BY DEF PathWritten
    <2>5. QED
      BY <1>4, <2>2, <2>3, <2>4
  <1>6. g[0] = <<>> /\ s[0] = <<>>
    <2>1. 0 \in 0..n
      BY <1>2
    <2>2. QED
      BY <1>4, <2>1 DEF PathWritten
  <1>7. ASSUME NEW k \in 1..(n + 1) PROVE Kept(g, s, k)'
    <2>1. CASE k = n + 1
      <3>1. k - 1 = n /\ n \in 0..n
        BY <1>2, <2>1
      <3>2. NodeAt(k)' = c.node
        BY <1>2, <1>3, <2>1 DEF NodeAt
      <3>3. NodeAt(k - 1)' = Target
        <4>1. NodeAt(n)' = NodeAt(n)
          BY <1>2, <1>3 DEF NodeAt
        <4>2. QED
          BY <1>2, <3>1, <4>1
      <3>4. g[k] = Closing(c)' \o g[k - 1] /\ s[k] = Resting(c) \o s[k - 1]
        BY <1>4, <2>1, <3>1
      <3>5. QED
        BY <1>0, <1>3, <2>1, <3>2, <3>3, <3>4 DEF Kept, Resting
    <2>2. CASE k # n + 1
      <3>1. k \in 1..n /\ k \in 0..n /\ k - 1 \in 0..n /\ (k > 1 => k - 1 \in 1..n)
        BY <1>2, <2>2
      <3>2. Kept(f, r, k) /\ calls'[k] = calls[k] /\ (k > 1 => calls'[k - 1] = calls[k - 1])
        BY <1>3, <3>1 DEF PathWritten
      <3>3. Kept(f, r, k)'
        BY <1>1, <3>1, <3>2, KeptNext
      <3>4. g[k] = f[k] /\ g[k - 1] = f[k - 1] /\ s[k] = r[k] /\ s[k - 1] = r[k - 1]
        BY <1>4, <3>1
      <3>5. QED
        BY <3>3, <3>4 DEF Kept
    <2>3. QED
      BY <2>1, <2>2
  <1>8. PathWritten(g, s)'
    BY <1>3, <1>5, <1>6, <1>7 DEF PathWritten
  <1>9. OneMore(g, s, f, r, n, end, rest)
    BY <1>4 DEF OneMore
  <1>10. QED
    BY <1>3, <1>8, <1>9

\* What is told of the tree, and what the target tells more.
Tells(told, f, n) == Traversed[1] = told \o f[n]
MoreTold(t, more) == InnerTold(t)' = InnerTold(t) \o more

\* The tree tells more when the target does.
LEMMA TreeTellsMore ==
  ASSUME TypeInv, TypeInv', phase = "parsing", TreeGrew, NEW f, NEW r, PathWritten(f, r),
         NEW told \in Seq(Event), NEW n, n = Len(calls), Tells(told, f, n),
         NEW t, t = Target, NEW more \in Seq(Event), MoreTold(t, more)
  PROVE  Tells(told \o more, f, n)' /\ told \o more \in Seq(Event)
  <1>0. Traversed[1] = told \o f[n] /\ InnerTold(t)' = InnerTold(t) \o more
    BY DEF Tells, MoreTold
  <1>1. OpenLast /\ ClosesBy(f) /\ \A k \in 0..Len(calls) : f[k] \in Seq(Event)
    BY PathWrittenIs
  <1>2. PICK x \in Seq(Event) : Traversed[1] = x \o OpenTold(t) \o f[n] /\ Traversed'[1] = x \o OpenTold(t)' \o f[n]
    BY <1>1, PathGrows
  <1>3. t \in DOMAIN nodes /\ t \in Path /\ n \in 0..Len(calls)
    <2>1. Len(calls) \in Nat /\ NodeAt(Len(calls)) = Target /\ Len(calls) \in 0..Len(calls)
      BY <1>1, PathFacts
    <2>2. QED
      BY <1>1, <2>1, PathFacts
  <1>4. PICK b \in Seq(Event), i \in Seq(Event), h \in Seq(Event) :
          /\ OpenTold(t) = b \o i /\ OpenTold(t)' = b \o InnerTold(t)' /\ i = InnerTold(t) /\ h = f[n]
    <2>1. /\ OpenTold(t) = Begins(nodes[t]) \o InnerTold(t) /\ OpenTold(t)' = Begins(nodes[t]) \o InnerTold(t)'
          /\ Begins(nodes[t]) \in Seq(Event) /\ InnerTold(t) \in Seq(Event) /\ f[n] \in Seq(Event)
      BY <1>1, <1>3, OpenNodes
    <2>2. QED
      BY <2>1, Zenon
  <1>5. PICK o \in Seq(Event) : o = OpenTold(t) /\ OpenTold(t)' = o \o more
    <2>1. Joins3(b, i, more) /\ b \o i \in Seq(Event)
      BY <1>4, Joined
    <2>2. b \o (i \o more) = (b \o i) \o more
      BY <2>1 DEF Joins3
    <2>3. QED
      BY <1>0, <1>4, <2>1, <2>2
  <1>6. x \o o \in Seq(Event) /\ x \o o = told
    <2>1. x \o o \in Seq(Event)
      BY <1>2, <1>5
    <2>2. (x \o o) \o h = told \o h
      BY <1>0, <1>2, <1>4, <1>5
    <2>3. PICK y \in Seq(Event) : y = x \o o
      BY <2>1, Zenon
    <2>4. y \o h = told \o h
      BY <2>2, <2>3, Zenon
    <2>5. y = told
      BY ONLY <2>4, Cancels
    <2>6. QED
      BY <2>1, <2>3, <2>5, Zenon
  <1>7. x \o (o \o more) = (x \o o) \o more
    <2>1. Joins3(x, o, more)
      BY <1>2, <1>5, Joined
    <2>2. QED
      BY <2>1 DEF Joins3
  <1>8. Traversed'[1] = (told \o more) \o f[n]
    BY <1>2, <1>5, <1>6, <1>7
  <1>9. told \o more \in Seq(Event)
    OBVIOUS
  <1>10. QED
    BY <1>8, <1>9 DEF Tells

----------------------------------------
\* What the target tells more.

\* The children of the target stay, but for one whose text is changed.
LEMMA TargetChildren ==
  ASSUME TypeInv, TypeInv', phase = "parsing", OpenLast, TreeGrew, NEW t, t = Target
  PROVE  /\ t \in Nat /\ t \in DOMAIN nodes
         /\ \A j \in DOMAIN nodes : nodes[j].parent = t /\ nodes'[j].text = nodes[j].text => Traversed'[j] = Traversed[j]
         /\ \A j \in DOMAIN nodes : nodes'[j].text = nodes[j].text => ToldIn(t, j)' = ToldIn(t, j)
  <1>1. Len(calls) \in Nat /\ NodeAt(Len(calls)) = t /\ Len(calls) \in 0..Len(calls)
    BY PathFacts
  <1>2. t \in Nat /\ t \in DOMAIN nodes
    BY <1>1, PathFacts
  <1>3. ASSUME NEW j \in DOMAIN nodes, nodes[j].parent = t PROVE j \notin Path
    <2>1. t < j /\ j \in Nat
      BY <1>2, <1>3, TypeFacts DEF TreeOrdered, Detached
    <2>2. \A k \in 0..Len(calls) : NodeAt(k) <= t /\ NodeAt(k) \in Nat
      BY <1>1, PathFacts
    <2>3. QED
      BY <1>2, <2>1, <2>2 DEF Path
  <1>4. ASSUME NEW j \in DOMAIN nodes, nodes[j].parent = t, nodes'[j].text = nodes[j].text PROVE Traversed'[j] = Traversed[j]
    BY <1>3, <1>4, OffPath
  <1>5. ASSUME NEW j \in DOMAIN nodes, nodes'[j].text = nodes[j].text PROVE ToldIn(t, j)' = ToldIn(t, j)
    <2>1. nodes'[j].parent = nodes[j].parent
      BY DEF TreeGrew
    <2>2. QED
      BY <1>4, <1>5, <2>1 DEF ToldIn
  <1>6. QED
    BY <1>2, <1>4, <1>5

\* The pieces of a node, in this state and the next.
LEMMA TwoPieces ==
  ASSUME TypeInv, TypeInv', NEW i \in Nat
  PROVE  \E s \in Seq(Seq(Event)), u \in Seq(Seq(Event)) :
           /\ Len(s) = Len(nodes) /\ InnerTold(i) = FlattenSeq(s) /\ \A j \in 1..Len(nodes) : s[j] = ToldIn(i, j)
           /\ Len(u) = Len(nodes') /\ InnerTold(i)' = FlattenSeq(u) /\ \A j \in 1..Len(nodes') : u[j] = ToldIn(i, j)'
  <1>1. TreeTold /\ TreeTold'
    BY TreesAreTold
  <1>2. /\ \A k \in Nat : /\ Pieces(k) \in Seq(Seq(Event)) /\ Len(Pieces(k)) = Len(nodes)
                          /\ \A j \in 1..Len(nodes) : Pieces(k)[j] = ToldIn(k, j)
                          /\ InnerTold(k) = FlattenSeq(Pieces(k))
        /\ \A k \in Nat : /\ Pieces(k)' \in Seq(Seq(Event)) /\ Len(Pieces(k)') = Len(nodes')
                          /\ \A j \in 1..Len(nodes') : Pieces(k)'[j] = ToldIn(k, j)'
                          /\ InnerTold(k)' = FlattenSeq(Pieces(k)')
    BY <1>1 DEF TreeTold
  <1>3. PICK s \in Seq(Seq(Event)) : Len(s) = Len(nodes) /\ InnerTold(i) = FlattenSeq(s) /\ \A j \in 1..Len(nodes) : s[j] = ToldIn(i, j)
    BY <1>2, Zenon
  <1>4. PICK u \in Seq(Seq(Event)) : Len(u) = Len(nodes') /\ InnerTold(i)' = FlattenSeq(u) /\ \A j \in 1..Len(nodes') : u[j] = ToldIn(i, j)'
    BY <1>2, Zenon
  <1>5. QED
    BY <1>3, <1>4, Zenon

\* The target gets a child.
LEMMA InnerAppended ==
  ASSUME TypeInv, TypeInv', phase = "parsing", OpenLast, TreeGrew, NEW t, t = Target,
         NEW new, new = Len(nodes) + 1, Len(nodes') = new,
         \A j \in DOMAIN nodes : nodes'[j].text = nodes[j].text
  PROVE  /\ InnerTold(t)' = InnerTold(t) \o (Begins(nodes'[new]) \o Ends(nodes'[new]))
         /\ Begins(nodes'[new]) \o Ends(nodes'[new]) \in Seq(Event)
  <1>1. /\ TreeTold' /\ TreeOrdered' /\ Len(nodes) \in Nat /\ DOMAIN nodes = 1..Len(nodes) /\ DOMAIN nodes' = 1..new
        /\ new \in 1..new /\ new \in Nat
    BY TreesAreTold
  <1>2. t \in Nat /\ \A j \in DOMAIN nodes : ToldIn(t, j)' = ToldIn(t, j)
    BY TargetChildren
  <1>3. PICK s \in Seq(Seq(Event)), u \in Seq(Seq(Event)) :
          /\ Len(s) = Len(nodes) /\ InnerTold(t) = FlattenSeq(s) /\ \A j \in 1..Len(nodes) : s[j] = ToldIn(t, j)
          /\ Len(u) = new /\ InnerTold(t)' = FlattenSeq(u) /\ \A j \in 1..new : u[j] = ToldIn(t, j)'
    BY <1>2, TwoPieces
  <1>4. Len(u) = Len(s) + 1
    BY <1>3
  <1>5. ASSUME NEW j \in 1..Len(s) PROVE u[j] = s[j]
    <2>1. j \in 1..Len(nodes) /\ j \in 1..new
      BY <1>1, <1>3
    <2>2. QED
      BY <1>1, <1>2, <1>3, <2>1
  <1>6. FlattenSeq(u) = FlattenSeq(s) \o u[Len(u)]
    BY <1>4, <1>5, FlattenAppend
  <1>7. u[Len(u)] = Traversed'[new]
    <2>1. nodes'[new].parent = t
      BY <1>1 DEF TreeGrew
    <2>2. QED
      BY <1>1, <1>3, <2>1 DEF ToldIn
  <1>8. ChildSet(new)' = {}
    <2>1. ASSUME NEW j \in DOMAIN nodes' PROVE nodes'[j].parent # new
      <3>1. j \in 1..new /\ nodes'[j].parent \in {-1} \cup 0..(j - 1)
        BY <1>1 DEF TreeOrdered, Detached
      <3>2. QED
        BY <1>1, <3>1
    <2>2. QED
      BY <2>1 DEF ChildSet
  <1>9. /\ Traversed'[new] = Begins(nodes'[new]) \o InnerTold(new)' \o Ends(nodes'[new])
        /\ Begins(nodes'[new]) \in Seq(Event) /\ Ends(nodes'[new]) \in Seq(Event)
        /\ InnerTold(new)' = <<>>
    BY <1>1, <1>8 DEF TreeTold
  <1>10. PICK b \in Seq(Event), e \in Seq(Event) : b = Begins(nodes'[new]) /\ e = Ends(nodes'[new])
    BY <1>9
  <1>11. b \o <<>> \o e = b \o e /\ b \o e \in Seq(Event)
    BY <1>10
  <1>12. QED
    BY <1>3, <1>6, <1>7, <1>9, <1>10, <1>11

\* Nothing is added.
LEMMA InnerUnchanged ==
  ASSUME TypeInv, TypeInv', phase = "parsing", OpenLast, TreeGrew, NEW t, t = Target,
         DOMAIN nodes' = DOMAIN nodes, \A j \in DOMAIN nodes : nodes'[j].text = nodes[j].text
  PROVE  InnerTold(t)' = InnerTold(t) \o <<>>
  <1>1. /\ TreeTold /\ TreeTold' /\ TreeOrdered /\ TreeOrdered' /\ nodes # <<>>
    BY TreesAreTold DEF TypeInv, Stages
  <1>2. t \in Nat /\ t \in DOMAIN nodes /\ \A j \in DOMAIN nodes : ToldIn(t, j)' = ToldIn(t, j)
    BY TargetChildren
  <1>3. InnerTold(t)' = InnerTold(t)
    BY <1>1, <1>2, InnerSame
  <1>4. PICK i \in Seq(Event) : i = InnerTold(t)
    BY <1>1, <1>2 DEF TreeTold
  <1>5. i \o <<>> = i
    BY <1>4
  <1>6. QED
    BY <1>3, <1>4, <1>5

\* The text of the last child is longer.
LEMMA InnerLengthened ==
  ASSUME TypeInv, TypeInv', phase = "parsing", OpenLast, TreeGrew, NEW t, t = Target,
         NEW last \in DOMAIN nodes, nodes[last].parent = t, nodes[last].kind = "content",
         \A j \in DOMAIN nodes : nodes[j].parent = t => j <= last,
         DOMAIN nodes' = DOMAIN nodes, \A j \in DOMAIN nodes : j # last => nodes'[j].text = nodes[j].text,
         NEW char \in Characters, nodes'[last].text = Append(nodes[last].text, char)
  PROVE  InnerTold(t)' = InnerTold(t) \o << <<"char", char>> >>
  <1>1. /\ TreeTold /\ TreeTold' /\ TreeOrdered /\ TreeOrdered' /\ AllPlaced
        /\ Len(nodes) \in Nat /\ DOMAIN nodes = 1..Len(nodes) /\ Len(nodes') = Len(nodes)
    BY TreesAreTold
  <1>2. t \in Nat /\ t \in DOMAIN nodes /\ \A j \in DOMAIN nodes : j # last => ToldIn(t, j)' = ToldIn(t, j)
    BY TargetChildren
  <1>3. PICK s \in Seq(Seq(Event)), u \in Seq(Seq(Event)) :
          /\ Len(s) = Len(nodes) /\ InnerTold(t) = FlattenSeq(s) /\ \A j \in 1..Len(nodes) : s[j] = ToldIn(t, j)
          /\ Len(u) = Len(nodes) /\ InnerTold(t)' = FlattenSeq(u) /\ \A j \in 1..Len(nodes) : u[j] = ToldIn(t, j)'
    BY <1>1, <1>2, TwoPieces
  <1>4. last \in 1..Len(s) /\ last \in 1..Len(u) /\ last \in Nat
    BY <1>1, <1>3
  <1>5. \A j \in DOMAIN nodes : nodes'[j].parent = nodes[j].parent
    BY DEF TreeGrew
  <1>6. SameBefore(s, u, last)
    <2>1. ASSUME NEW j \in 1..(last - 1) PROVE s[j] = u[j]
      <3>1. j \in DOMAIN nodes /\ j # last /\ j \in 1..Len(nodes)
        <4>1. j \in 1..Len(s) /\ j # last
          BY ONLY <1>4, j \in 1..(last - 1), Len(s) \in Nat
        <4>2. QED
          BY <1>1, <1>3, <4>1
      <3>2. QED
        BY <1>2, <1>3, <3>1
    <2>2. QED
      BY <2>1 DEF SameBefore
  <1>7. ASSUME NEW j \in (last + 1)..Len(nodes) PROVE s[j] = <<>> /\ u[j] = <<>>
    <2>1. j \in DOMAIN nodes /\ j # last /\ j \in 1..Len(nodes) /\ ~(j <= last)
      BY <1>1, <1>4
    <2>2. nodes[j].parent # t
      BY <2>1
    <2>3. ToldIn(t, j) = <<>>
      BY <2>2 DEF ToldIn
    <2>4. QED
      BY <1>2, <1>3, <2>1, <2>3
  <1>8. NothingAfter(s, last) /\ NothingAfter(u, last)
    BY <1>3, <1>7 DEF NothingAfter
  <1>9. PICK a \in Seq(Event) : FlattenSeq(s) = a \o s[last] /\ FlattenSeq(u) = a \o u[last]
    BY ONLY s \in Seq(Seq(Event)), u \in Seq(Seq(Event)), <1>4, <1>6, <1>8, FlattenParted
  <1>10. s[last] = Traversed[last] /\ u[last] = Traversed'[last]
    BY <1>1, <1>3, <1>5 DEF ToldIn
  <1>11. ChildSet(last) = {} /\ ChildSet(last)' = {}
    <2>1. ASSUME NEW j \in DOMAIN nodes PROVE nodes[j].parent # last
      <3>1. nodes[j].parent > 0 => nodes[nodes[j].parent].kind \in {"prolog", "element", "reference"}
        BY <1>1 DEF AllPlaced, Placed
      <3>2. last > 0
        BY <1>1, <1>4
      <3>3. QED
        BY <3>1, <3>2
    <2>2. QED
      BY <1>5, <2>1 DEF ChildSet
  <1>12. /\ Traversed[last] = Begins(nodes[last]) \o InnerTold(last) \o Ends(nodes[last]) /\ InnerTold(last) = <<>>
         /\ Traversed'[last] = Begins(nodes'[last]) \o InnerTold(last)' \o Ends(nodes'[last]) /\ InnerTold(last)' = <<>>
    BY <1>1, <1>4, <1>11 DEF TreeTold
  <1>13. PICK text \in Seq(Characters) : text = nodes[last].text
    <2>1. nodes[last] \in Node
      BY <1>1 DEF TreeOrdered
    <2>2. QED
      BY <2>1 DEF Node
  <1>14. nodes'[last].kind = "content"
    BY DEF TreeGrew
  <1>15. /\ Begins(nodes[last]) = CharsOf(text) /\ Ends(nodes[last]) = <<>>
         /\ Begins(nodes'[last]) = CharsOf(Append(text, char)) /\ Ends(nodes'[last]) = <<>>
    BY <1>13, <1>14 DEF Begins, Ends
  <1>16. PICK b \in Seq(Event), e \in Event : b = CharsOf(text) /\ e = <<"char", char>>
    BY CharsType, EventIs
  <1>17. CharsOf(Append(text, char)) = Append(b, e)
    <2>1. Len(text) \in Nat /\ Append(text, char) \in Seq(Characters) /\ Len(Append(text, char)) = Len(text) + 1
      OBVIOUS
    <2>2. PICK c \in Seq(Event) : c = CharsOf(Append(text, char)) /\ Len(c) = Len(text) + 1
      BY <2>1, CharsType
    <2>3. Len(b) = Len(text)
      BY <1>16, CharsType
    <2>4. \A k \in 1..(Len(text) + 1) : c[k] = <<"char", Append(text, char)[k]>>
      BY <2>1, <2>2 DEF CharsOf
    <2>5. \A k \in 1..Len(text) : b[k] = <<"char", text[k]>>
      BY <1>16 DEF CharsOf
    <2>6. \A k \in 1..Len(text) : Append(text, char)[k] = text[k]
      OBVIOUS
    <2>7. Append(text, char)[Len(text) + 1] = char
      OBVIOUS
    <2>8. \A k \in 1..(Len(text) + 1) : c[k] = Append(b, e)[k]
      <3> TAKE k \in 1..(Len(text) + 1)
      <3>1. CASE k = Len(text) + 1
        <4>1. Append(b, e)[Len(b) + 1] = e
          BY <1>16
        <4>2. QED
          BY <1>16, <2>1, <2>3, <2>4, <2>7, <3>1, <4>1
      <3>2. CASE k # Len(text) + 1
        <4>1. k \in 1..Len(text)
          BY <2>1, <3>2
        <4>2. Append(b, e)[k] = b[k]
          BY <1>16, <2>3, <4>1
        <4>3. QED
          BY <2>4, <2>5, <2>6, <4>1, <4>2
      <3>3. QED
        BY <3>1, <3>2
    <2>9. Append(b, e) \in Seq(Event) /\ Len(Append(b, e)) = Len(text) + 1
      BY <1>16, <2>3
    <2>10. QED
      BY <2>2, <2>8, <2>9, SeqEqual
  <1>18. /\ FlattenSeq(s) = a \o (b \o <<>> \o <<>>)
         /\ FlattenSeq(u) = a \o (Append(b, e) \o <<>> \o <<>>)
    BY <1>9, <1>10, <1>12, <1>15, <1>16, <1>17
  <1>19. a \o (Append(b, e) \o <<>> \o <<>>) = (a \o (b \o <<>> \o <<>>)) \o <<e>>
    <2>1. PICK d \in Seq(Event) : d = <<e>>
      <3>1. <<e>> \in Seq(Event)
        OBVIOUS
      <3>2. QED
        BY <3>1
    <2>2. Append(b, e) = b \o d
      <3>1. Append(b, e) = b \o <<e>>
        BY <1>16, AppendIsConcat
      <3>2. QED
        BY <2>1, <3>1
    <2>3. b \o <<>> \o <<>> = b /\ (b \o d) \o <<>> \o <<>> = b \o d
      BY <1>16, <2>1
    <2>4. Joins3(a, b, d)
      BY <1>9, <1>16, <2>1, Joined
    <2>5. QED
      BY <2>1, <2>2, <2>3, <2>4 DEF Joins3
  <1>20. QED
    BY <1>3, <1>16, <1>18, <1>19

\* Pieces of what is told, put together: g is what closes the calls, h what
\* is told when they have ended.
Entering(a, b, e, g) == (a \o (b \o e)) \o g = (a \o b) \o (e \o g)
EnteringText(a, b, i, r, h) == a \o ((b \o i) \o r) \o h = (a \o b) \o i \o (r \o h)
Leaving(a, i, r, h) == a \o i \o (r \o h) = a \o (i \o r) \o h
Going(a, b, i, h) == a \o (b \o i) \o h = (a \o b) \o i \o h

\* They are the same.
LEMMA Rearranged ==
  ASSUME NEW a \in Seq(Event), NEW b \in Seq(Event), NEW c \in Seq(Event), NEW d \in Seq(Event)
  PROVE  /\ Entering(a, b, c, d) /\ Leaving(a, b, c, d) /\ Going(a, b, c, d)
         /\ \A e \in Seq(Event) : EnteringText(a, b, c, d, e)
  <1>1. a \o b \in Seq(Event) /\ b \o c \in Seq(Event)
    OBVIOUS
  <1>2. (a \o b) \o c \in Seq(Event)
    BY ONLY <1>1, c \in Seq(Event)
  <1>3. Associates(a, b, c)
    BY AllAssociate
  <1>4. Associates(a \o b, c, d)
    BY ONLY <1>1, c \in Seq(Event), d \in Seq(Event), AllAssociate
  <1>5. Entering(a, b, c, d) /\ Leaving(a, b, c, d) /\ Going(a, b, c, d)
    BY <1>3, <1>4 DEF Associates, Entering, Leaving, Going
  <1>6. ASSUME NEW e \in Seq(Event) PROVE EnteringText(a, b, c, d, e)
    <2>1. Associates(a, b \o c, d)
      BY ONLY <1>1, a \in Seq(Event), d \in Seq(Event), AllAssociate
    <2>2. Associates((a \o b) \o c, d, e)
      BY ONLY <1>2, d \in Seq(Event), e \in Seq(Event), AllAssociate
    <2>3. QED
      BY <1>3, <2>1, <2>2 DEF Associates, EnteringText
  <1>7. QED
    BY <1>5, <1>6

\* What the invariant gives.
Written(f, r, told, g, h) ==
  /\ PathWritten(f, r) /\ told \in Seq(Event) /\ g \in Seq(Event) /\ h \in Seq(Event)
  /\ g = f[Len(calls)] /\ h = r[Len(calls)]
  /\ Traversed[1] = told \o g
  /\ Events(document, Told) = told \o Events(input, Told) \o h

\* It is what the invariant gives.
LEMMA WrittenIs ==
  ASSUME TypeInv, phase = "parsing", WrittenSoFar
  PROVE  \E f, r, told, g, h : Written(f, r, told, g, h)
  <1>1. PICK f, r, told : PathWritten(f, r) /\ WrittenBy(f, r, told)
    BY DEF WrittenSoFar
  <1>2. Len(calls) \in 0..Len(calls)
    BY TypeFacts DEF CallType
  <1>3. f[Len(calls)] \in Seq(Event) /\ r[Len(calls)] \in Seq(Event)
    BY <1>1, <1>2 DEF PathWritten
  <1>4. Written(f, r, told, f[Len(calls)], r[Len(calls)])
    BY <1>1, <1>3 DEF Written, WrittenBy
  <1>5. QED
    BY <1>4

\* What is told of texts is told in events.
LEMMA InputTold ==
  ASSUME NEW text \in Seq(AnyToken)
  PROVE  /\ Events(text, Told) \in Seq(Event)
         /\ text # <<>> => /\ Events(text, Told) = EventsOf(Head(text), Told) \o Events(Tail(text), Told)
                           /\ EventsOf(Head(text), Told) \in Seq(Event) /\ Events(Tail(text), Told) \in Seq(Event)
  <1>1. \A name \in DOMAIN Told : Told[name] \in Seq(Event)
    BY ToldType
  <1>2. Events(text, Told) \in Seq(Event)
    BY <1>1, EventsType
  <1>3. text # <<>> => /\ Events(text, Told) = EventsOf(Head(text), Told) \o Events(Tail(text), Told)
                       /\ EventsOf(Head(text), Told) \in Seq(Event) /\ Events(Tail(text), Told) \in Seq(Event)
    BY <1>1, EventsHead
  <1>4. QED
    BY <1>2, <1>3

\* A token is read.
LEMMA WrittenRead ==
  ASSUME TypeInv, TypeInv', Parsing, WrittenSoFar, TreeGrew, UNCHANGED <<document, calls, phase>>, input' = Tail(input),
         NEW t, t = Target, NEW more, more = EventsOf(Token, Told), MoreTold(t, more)
  PROVE  WrittenSoFar'
  <1>1. phase = "parsing" /\ input \in Seq(AnyToken) /\ input # <<>> /\ Token = Head(input)
    BY TypeFacts DEF Parsing, Token
  <1>2. PICK f, r, told, g, h : Written(f, r, told, g, h)
    BY <1>1, WrittenIs
  <1>3. /\ PathWritten(f, r) /\ told \in Seq(Event) /\ g \in Seq(Event) /\ h \in Seq(Event)
        /\ g = f[Len(calls)] /\ h = r[Len(calls)] /\ Traversed[1] = told \o g
    BY <1>2 DEF Written
  <1>4. PICK i \in Seq(Event) : i = Events(input', Told) /\ Events(input, Told) = more \o i /\ more \in Seq(Event)
    BY <1>1, InputTold, Zenon
  <1>5. PICK n : n = Len(calls)
    OBVIOUS
  <1>6. Traversed'[1] = (told \o more) \o g /\ told \o more \in Seq(Event)
    <2>1. PathWritten(f, r) /\ told \in Seq(Event) /\ more \in Seq(Event) /\ Traversed[1] = told \o f[n]
      BY <1>3, <1>4, <1>5
    <2>2. Tells(told, f, n) /\ MoreTold(t, more)
      BY <2>1 DEF Tells
    <2>3. Tells(told \o more, f, n)' /\ told \o more \in Seq(Event)
      BY <1>1, <1>5, <2>1, <2>2, TreeTellsMore
    <2>4. QED
      BY <1>3, <1>5, <2>3 DEF Tells
  <1>7. Events(document, Told) = told \o (more \o i) \o h
    BY <1>2, <1>4 DEF Written
  <1>8. Events(document, Told) = (told \o more) \o i \o h
    <2>1. Going(told, more, i, h)
      BY <1>3, <1>4, Rearranged
    <2>2. QED
      BY <1>7, <2>1 DEF Going
  <1>9. PathWritten(f, r)'
    BY <1>1, <1>3, PathStays
  <1>10. WrittenBy(f, r, told \o more)'
    <2>1. PICK all : all = told \o more /\ all \in Seq(Event)
      BY <1>6
    <2>2. Traversed'[1] = all \o f[Len(calls')]
      BY <1>3, <1>6, <2>1
    <2>3. Events(document', Told) = all \o Events(input', Told) \o r[Len(calls')]
      BY <1>3, <1>4, <1>8, <2>1
    <2>4. QED
      BY <2>1, <2>2, <2>3 DEF WrittenBy
  <1>11. \E s, q, all : PathWritten(s, q)' /\ WrittenBy(s, q, all)'
    BY <1>9, <1>10
  <1>12. QED
    BY <1>11 DEF WrittenSoFar

----------------------------------------
\* A call begins, or ends.

\* What is told so far, with the innermost call.
WrittenAt(f, r, told, g, h, n) ==
  /\ PathWritten(f, r) /\ told \in Seq(Event) /\ g \in Seq(Event) /\ h \in Seq(Event)
  /\ g = f[n] /\ h = r[n] /\ Tells(told, f, n)
  /\ Events(document, Told) = told \o Events(input, Told) \o h

\* It is what the invariant gives.
LEMMA WrittenFacts ==
  ASSUME TypeInv, phase = "parsing", WrittenSoFar, NEW n, n = Len(calls)
  PROVE  \E f, r, told, g, h : WrittenAt(f, r, told, g, h, n)
  <1>1. PICK f, r, told, g, h : Written(f, r, told, g, h)
    BY WrittenIs
  <1>2. Tells(told, f, n)
    BY <1>1 DEF Written, Tells
  <1>3. WrittenAt(f, r, told, g, h, n)
    BY <1>1, <1>2 DEF Written, WrittenAt
  <1>4. QED
    BY <1>3

\* An element begins, or the text of an entity: b is what it begins with,
\* e what ends it, j what the text at hand tells then, and rest what is
\* told when the call has ended.
LEMMA WrittenPushed ==
  ASSUME TypeInv, TypeInv', phase = "parsing", WrittenSoFar, TreeGrew, UNCHANGED <<document, phase>>,
         NEW c \in CallIn(DOMAIN nodes'), calls' = Append(calls, c),
         Receives(c),
         NEW t, t = Target, NEW b \in Seq(Event), NEW e \in Seq(Event), e = Closing(c)', MoreTold(t, b \o e),
         NEW rest \in Seq(Event), rest = Resting(c), NEW j \in Seq(Event), j = Events(input', Told),
         Events(input, Told) = (b \o j) \o rest
  PROVE  WrittenSoFar'
  <1>1. PICK n : n = Len(calls)
    OBVIOUS
  <1>0. PICK f, r, told, g, h : WrittenAt(f, r, told, g, h, n)
    BY <1>1, WrittenFacts
  <1>2. /\ PathWritten(f, r) /\ told \in Seq(Event) /\ g \in Seq(Event) /\ h \in Seq(Event)
        /\ g = f[n] /\ h = r[n] /\ Tells(told, f, n)
        /\ Events(document, Told) = told \o Events(input, Told) \o h
    BY <1>0 DEF WrittenAt
  <1>3. Tells(told \o (b \o e), f, n)'
    <2>1. b \o e \in Seq(Event)
      OBVIOUS
    <2>2. QED
      BY <1>1, <1>2, <2>1, TreeTellsMore
  <1>3a. PICK v, s : PathWritten(v, s)' /\ Len(calls') = n + 1 /\ OneMore(v, s, f, r, n, e, rest)
    <2>1. PathWritten(f, r)
      BY <1>2
    <2>2. QED
      BY <1>1, <2>1, PathPushed
  <1>4. PathWritten(v, s)' /\ Len(calls') = n + 1 /\ v[n + 1] = e \o f[n] /\ s[n + 1] = rest \o r[n]
    BY <1>3a DEF OneMore
  <1>5. PICK all \in Seq(Event) : all = told \o b
    <2>1. told \o b \in Seq(Event)
      BY <1>2
    <2>2. QED
      BY <2>1
  <1>6. Traversed'[1] = all \o v[n + 1]
    <2>1. Traversed'[1] = (told \o (b \o e)) \o g
      BY <1>2, <1>3 DEF Tells
    <2>2. (told \o (b \o e)) \o g = (told \o b) \o (e \o g)
      <3>1. Entering(told, b, e, g)
        BY <1>2, Rearranged
      <3>2. QED
        BY <3>1 DEF Entering
    <2>3. v[n + 1] = e \o g
      BY <1>2, <1>4
    <2>4. QED
      BY <1>5, <2>1, <2>2, <2>3
  <1>7. Events(document', Told) = all \o Events(input', Told) \o s[n + 1]
    <2>1. Events(document, Told) = told \o ((b \o j) \o rest) \o h
      BY <1>2
    <2>2. told \o ((b \o j) \o rest) \o h = (told \o b) \o j \o (rest \o h)
      <3>1. EnteringText(told, b, j, rest, h)
        BY <1>2, Rearranged
      <3>2. QED
        BY <3>1 DEF EnteringText
    <2>3. s[n + 1] = rest \o h
      BY <1>2, <1>4
    <2>4. QED
      BY <1>5, <2>1, <2>2, <2>3
  <1>8. WrittenBy(v, s, all)'
    BY <1>4, <1>5, <1>6, <1>7 DEF WrittenBy
  <1>9. \E v1, s1, all1 : PathWritten(v1, s1)' /\ WrittenBy(v1, s1, all1)'
    BY <1>4, <1>8
  <1>10. QED
    BY <1>9 DEF WrittenSoFar

\* An element ends, or the text of an entity: e is what ends it, i what is
\* told of the text at hand before, j after, and q of the rest of the text
\* around.
LEMMA WrittenPopped ==
  ASSUME TypeInv, TypeInv', phase = "parsing", WrittenSoFar, TreeGrew, UNCHANGED <<document, phase>>,
         calls # <<>>, calls' = Front(calls), NEW t, t = Target, MoreTold(t, <<>>),
         NEW call, call = Last(calls), NEW e \in Seq(Event), e = Closing(call), NEW q \in Seq(Event), q = Resting(call),
         NEW i \in Seq(Event), i = Events(input, Told), NEW j \in Seq(Event), j = Events(input', Told),
         i \o q = e \o j
  PROVE  WrittenSoFar'
  <1>1. PICK n : n = Len(calls)
    OBVIOUS
  <1>0. PICK f, r, told, g, h : WrittenAt(f, r, told, g, h, n)
    BY <1>1, WrittenFacts
  <1>2. /\ PathWritten(f, r) /\ told \in Seq(Event) /\ g \in Seq(Event) /\ h \in Seq(Event)
        /\ g = f[n] /\ h = r[n] /\ Tells(told, f, n)
        /\ Events(document, Told) = told \o Events(input, Told) \o h
    BY <1>0 DEF WrittenAt
  <1>3. Tells(told \o <<>>, f, n)'
    <2>1. <<>> \in Seq(Event)
      OBVIOUS
    <2>2. QED
      BY <1>1, <1>2, <2>1, TreeTellsMore
  <1>4. PathWritten(f, r)' /\ Len(calls') = n - 1 /\ n \in 1..n /\ Kept(f, r, n)
    BY <1>1, <1>2, PathPopped
  <1>5. PICK v \in Seq(Event), s \in Seq(Event) : v = f[n - 1] /\ s = r[n - 1] /\ g = e \o v /\ h = q \o s
    <2>1. f[n - 1] \in Seq(Event) /\ r[n - 1] \in Seq(Event)
      <3>1. n - 1 \in 0..n
        BY <1>4
      <3>2. QED
        BY <1>1, <1>2, <3>1 DEF PathWritten
    <2>2. calls[n] = call
      BY <1>1 DEF Last
    <2>3. g = e \o f[n - 1] /\ h = q \o r[n - 1]
      BY <1>2, <1>4, <2>2 DEF Kept
    <2>4. QED
      BY <2>1, <2>3, Zenon
  <1>6. PICK all \in Seq(Event) : all = told \o e
    <2>1. told \o e \in Seq(Event)
      BY <1>2
    <2>2. QED
      BY <2>1
  <1>7. Traversed'[1] = all \o v
    <2>1. Traversed'[1] = (told \o <<>>) \o g /\ told \o <<>> = told
      BY <1>2, <1>3 DEF Tells
    <2>2. (told \o e) \o v = told \o (e \o v)
      <3>1. Joins3(told, e, v)
        BY <1>2, <1>5, Joined
      <3>2. QED
        BY <3>1 DEF Joins3
    <2>3. QED
      BY <1>5, <1>6, <2>1, <2>2
  <1>8. Events(document', Told) = all \o Events(input', Told) \o s
    <2>1. Events(document, Told) = told \o i \o (q \o s)
      BY <1>2, <1>5
    <2>2. told \o i \o (q \o s) = told \o (i \o q) \o s
      <3>1. Leaving(told, i, q, s)
        BY <1>2, <1>5, Rearranged
      <3>2. QED
        BY <3>1 DEF Leaving
    <2>3. told \o (e \o j) \o s = (told \o e) \o j \o s
      <3>1. Going(told, e, j, s)
        BY <1>2, <1>5, Rearranged
      <3>2. QED
        BY <3>1 DEF Going
    <2>4. QED
      BY <1>6, <2>1, <2>2, <2>3
  <1>9. WrittenBy(f, r, all)'
    <2>1. f[Len(calls')] = v /\ r[Len(calls')] = s
      BY <1>4, <1>5
    <2>2. QED
      BY <1>6, <1>7, <1>8, <2>1 DEF WrittenBy
  <1>10. \E v1, s1, all1 : PathWritten(v1, s1)' /\ WrittenBy(v1, s1, all1)'
    BY <1>4, <1>9
  <1>11. QED
    BY <1>10 DEF WrittenSoFar

\* The open nodes are the last children of one another.
LEMMA OpenPath ==
  ASSUME TypeInv, phase = "parsing", WrittenSoFar
  PROVE  OpenLast
  <1>1. PICK f, r, told : PathWritten(f, r) /\ WrittenBy(f, r, told)
    BY DEF WrittenSoFar
  <1>2. QED
    BY <1>1, PathWrittenIs

\* The target gets a child.
LEMMA TargetGrown ==
  ASSUME TypeInv, TypeInv', phase = "parsing", WrittenSoFar,
         NEW T \in Seq(Node), Len(T) = Len(nodes),
         \A i \in DOMAIN nodes : SameNode(T[i], nodes[i]) /\ T[i].text = nodes[i].text,
         NEW n \in Node, nodes' = Append(T, n), NEW t, t = Target, n.parent = t
  PROVE  /\ TreeGrew /\ MoreTold(t, Begins(n) \o Ends(n)) /\ Begins(n) \o Ends(n) \in Seq(Event)
         /\ Begins(n) \in Seq(Event) /\ Ends(n) \in Seq(Event)
         /\ nodes'[Len(nodes) + 1] = n /\ Len(nodes) + 1 \in DOMAIN nodes'
         /\ \A j \in DOMAIN nodes' : j <= Len(nodes) + 1
  <1>1. PICK N \in Nat : N = Len(nodes) /\ DOMAIN nodes = 1..N
    BY TypeFacts
  <1>2. /\ DOMAIN nodes' = 1..(N + 1) /\ nodes'[N + 1] = n /\ \A i \in 1..N : nodes'[i] = T[i]
        /\ \A i \in DOMAIN nodes' : i \in 1..N \/ i = N + 1
    BY <1>1, Appended
  <1>3. \A i \in DOMAIN nodes : /\ nodes'[i].kind = nodes[i].kind /\ nodes'[i].tag = nodes[i].tag
                                /\ nodes'[i].parent = nodes[i].parent /\ nodes'[i].text = nodes[i].text
    BY <1>1, <1>2 DEF SameNode
  <1>4. DOMAIN nodes \subseteq DOMAIN nodes'
    BY <1>1, <1>2
  <1>5. \A j \in DOMAIN nodes' : j \notin DOMAIN nodes => nodes'[j].parent = Target
    BY <1>1, <1>2
  <1>6. TreeGrew
    BY <1>3, <1>4, <1>5 DEF TreeGrew
  <1>7. PICK new \in Nat : new = N + 1 /\ Len(nodes') = new /\ nodes'[new] = n
    <2>1. Len(nodes') \in Nat /\ DOMAIN nodes' = 1..Len(nodes')
      BY TypeFacts
    <2>2. Len(nodes') = N + 1
      BY <1>1, <1>2, <2>1
    <2>3. QED
      BY <1>1, <1>2, <2>2
  <1>8. /\ InnerTold(t)' = InnerTold(t) \o (Begins(nodes'[new]) \o Ends(nodes'[new]))
        /\ Begins(nodes'[new]) \o Ends(nodes'[new]) \in Seq(Event)
    <2>1. \A j \in DOMAIN nodes : nodes'[j].text = nodes[j].text
      BY <1>3
    <2>2. new = Len(nodes) + 1 /\ Len(nodes') = new
      BY <1>1, <1>7
    <2>3. QED
      BY <1>6, <2>1, <2>2, OpenPath, InnerAppended
  <1>9. MoreTold(t, Begins(n) \o Ends(n)) /\ Begins(n) \o Ends(n) \in Seq(Event)
    BY <1>7, <1>8 DEF MoreTold
  <1>10. Begins(n) \in Seq(Event) /\ Ends(n) \in Seq(Event)
    BY BeginsType
  <1>11. \A j \in DOMAIN nodes' : j <= N + 1
    BY <1>1, <1>2
  <1>12. N + 1 \in DOMAIN nodes'
    BY <1>1, <1>2
  <1>13. QED
    BY <1>1, <1>2, <1>6, <1>9, <1>10, <1>11, <1>12

\* Nothing is added: only marks of white space change.
LEMMA TargetStays ==
  ASSUME TypeInv, TypeInv', phase = "parsing", WrittenSoFar,
         NEW T \in Seq(Node), Len(T) = Len(nodes),
         \A i \in DOMAIN nodes : SameNode(T[i], nodes[i]) /\ T[i].text = nodes[i].text,
         nodes' = T, NEW t, t = Target
  PROVE  TreeGrew /\ MoreTold(t, <<>>)
  <1>1. DOMAIN nodes' = DOMAIN nodes
    BY TypeFacts
  <1>2. \A i \in DOMAIN nodes : /\ nodes'[i].kind = nodes[i].kind /\ nodes'[i].tag = nodes[i].tag
                                /\ nodes'[i].parent = nodes[i].parent /\ nodes'[i].text = nodes[i].text
    BY DEF SameNode
  <1>3. TreeGrew
    BY <1>1, <1>2 DEF TreeGrew
  <1>4. InnerTold(t)' = InnerTold(t) \o <<>>
    BY <1>1, <1>2, <1>3, OpenPath, InnerUnchanged
  <1>5. QED
    BY <1>3, <1>4 DEF MoreTold

\* The last child of the target gets a character.
LEMMA TargetLengthened ==
  ASSUME TypeInv, TypeInv', phase = "parsing", WrittenSoFar,
         NEW T \in Seq(Node), Len(T) = Len(nodes),
         \A i \in DOMAIN nodes : SameNode(T[i], nodes[i]), nodes' = T,
         NEW t, t = Target, NEW last \in DOMAIN nodes, nodes[last].parent = t, nodes[last].kind = "content",
         \A j \in DOMAIN nodes : nodes[j].parent = t => j <= last,
         \A j \in DOMAIN nodes : j # last => T[j] = nodes[j],
         NEW char \in Characters, T[last].text = Append(nodes[last].text, char)
  PROVE  TreeGrew /\ MoreTold(t, << <<"char", char>> >>)
  <1>1. DOMAIN nodes' = DOMAIN nodes
    BY TypeFacts
  <1>2. \A i \in DOMAIN nodes : /\ nodes'[i].kind = nodes[i].kind /\ nodes'[i].tag = nodes[i].tag
                                /\ nodes'[i].parent = nodes[i].parent
                                /\ i # last => nodes'[i].text = nodes[i].text
    BY DEF SameNode
  <1>3. last \notin Path
    <2>1. PICK n \in Nat : n = Len(calls) /\ DOMAIN calls = 1..n /\ NodeAt(0) = 1
      BY OpenPath, PathFacts
    <2>2. nodes[1].kind = "prolog"
      <3>1. nodes # <<>>
        BY DEF TypeInv, Stages
      <3>2. 1 \in DOMAIN nodes
        BY <3>1, TypeFacts
      <3>3. QED
        BY <3>2, TypeFacts DEF AllPlaced, Placed
    <2>3. ASSUME NEW k \in 1..n PROVE nodes[NodeAt(k)].kind # "content"
      <3>1. NodeAt(k) = calls[k].node /\ k \in DOMAIN calls
        BY <2>1 DEF NodeAt
      <3>2. nodes[calls[k].node].kind \in {"element", "reference"}
        BY <3>1, TypeFacts DEF CallPath
      <3>3. QED
        BY <3>1, <3>2
    <2>4. \A k \in 0..n : k = 0 \/ k \in 1..n
      BY <2>1
    <2>5. \A k \in 0..n : nodes[NodeAt(k)].kind # "content"
      BY <2>1, <2>2, <2>3, <2>4
    <2>6. QED
      BY <2>1, <2>5 DEF Path
  <1>4. TreeGrew
    BY <1>1, <1>2, <1>3 DEF TreeGrew
  <1>5. InnerTold(t)' = InnerTold(t) \o << <<"char", char>> >>
    <2>1. /\ DOMAIN nodes' = DOMAIN nodes /\ \A j \in DOMAIN nodes : j # last => nodes'[j].text = nodes[j].text
          /\ nodes'[last].text = Append(nodes[last].text, char)
      BY <1>1, <1>2
    <2>2. QED
      BY <1>4, <2>1, OpenPath, InnerLengthened
  <1>6. QED
    BY <1>4, <1>5 DEF MoreTold

----------------------------------------
\* Each step tells what it reads.

\* What is told of a character.
LEMMA OneChar ==
  ASSUME NEW char \in Characters
  PROVE  CharsOf(<<char>>) = << <<"char", char>> >>
  <1>1. <<char>> \in Seq(Characters) /\ Len(<<char>>) = 1 /\ <<char>>[1] = char
    OBVIOUS
  <1>2. CharsOf(<<char>>) \in Seq(Event) /\ Len(CharsOf(<<char>>)) = 1
    BY <1>1, CharsType
  <1>3. CharsOf(<<char>>)[1] = <<"char", char>>
    BY DEF CharsOf
  <1>4. <<"char", char>> \in Event
    BY EventIs
  <1>5. QED
    BY <1>2, <1>3, <1>4

\* What is told of a node without children.
LEMMA BeginsOf ==
  ASSUME NEW n \in Node
  PROVE  /\ n.kind = "element" => Begins(n) = << <<"start", n.tag>> >> /\ Ends(n) = << <<"end", n.tag>> >>
         /\ n.kind = "comment" => Begins(n) \o Ends(n) = << <<"comment">> >>
         /\ n.kind \notin {"element", "comment"} => Begins(n) \o Ends(n) = CharsOf(n.text)
  <1>1. Begins(n) \in Seq(Event) /\ n.kind # "element" => Begins(n) \o Ends(n) = Begins(n)
    BY DEF Ends
  <1>2. Begins(n) \in Seq(Event)
    BY BeginsType
  <1>3. n.kind = "element" => Begins(n) = << <<"start", n.tag>> >> /\ Ends(n) = << <<"end", n.tag>> >>
    BY DEF Begins, Ends
  <1>4. n.kind = "comment" => Begins(n) = << <<"comment">> >>
    BY DEF Begins
  <1>5. n.kind \notin {"element", "comment"} => Begins(n) = CharsOf(n.text)
    BY DEF Begins
  <1>6. QED
    BY <1>1, <1>2, <1>3, <1>4, <1>5

\* What is told of a token.
LEMMA TokenTold ==
  ASSUME NEW token \in AnyToken
  PROVE  /\ token.kind = "start" => EventsOf(token, Told) = << <<"start", token.tag>> >>
         /\ token.kind = "empty" => EventsOf(token, Told) = << <<"start", token.tag>> >> \o << <<"end", token.tag>> >>
         /\ token.kind = "end" => EventsOf(token, Told) = << <<"end", token.tag>> >>
         /\ token.kind \in {"char", "charref"} => EventsOf(token, Told) = << <<"char", token.char>> >>
         /\ token.kind = "cdata" => EventsOf(token, Told) = CharsOf(token.text)
         /\ token.kind = "comment" => EventsOf(token, Told) = << <<"comment">> >>
         /\ token.kind = "ref" /\ token.name \in DOMAIN Replacement =>
               EventsOf(token, Told) = Events(Replacement[token.name], Told)
  <1>1. token.kind = "start" => EventsOf(token, Told) = << <<"start", token.tag>> >>
    BY DEF EventsOf
  <1>2. token.kind = "empty" => EventsOf(token, Told) = << <<"start", token.tag>> >> \o << <<"end", token.tag>> >>
    <2>1. token.kind = "empty" => EventsOf(token, Told) = << <<"start", token.tag>>, <<"end", token.tag>> >>
      BY DEF EventsOf
    <2>2. ASSUME NEW a, NEW b PROVE <<a>> \o <<b>> = <<a, b>>
      <3>1. <<a>> \in Seq({a, b}) /\ <<b>> \in Seq({a, b}) /\ <<a, b>> \in Seq({a, b})
        OBVIOUS
      <3>2. PICK s \in Seq({a, b}), p \in Seq({a, b}), q \in Seq({a, b}) : s = <<a>> /\ p = <<b>> /\ q = <<a, b>>
        BY <3>1, Zenon
      <3>3. Len(s) = 1 /\ Len(p) = 1 /\ Len(q) = 2 /\ s[1] = a /\ p[1] = b /\ q[1] = a /\ q[2] = b
        BY <3>2
      <3>4. Len(s \o p) = 2 /\ (s \o p)[1] = a /\ (s \o p)[2] = b /\ s \o p \in Seq({a, b})
        BY ONLY <3>3, s \in Seq({a, b}), p \in Seq({a, b}), SMTT(30)
      <3>5. \A k \in 1..2 : (s \o p)[k] = q[k]
        BY <3>3, <3>4
      <3>6. s \o p = q
        BY <3>3, <3>4, <3>5, SeqEqual
      <3>7. QED
        BY <3>2, <3>6
    <2>3. QED
      BY <2>1, <2>2
  <1>3. token.kind = "end" => EventsOf(token, Told) = << <<"end", token.tag>> >>
    BY DEF EventsOf
  <1>4. token.kind \in {"char", "charref"} => EventsOf(token, Told) = << <<"char", token.char>> >>
    BY DEF EventsOf
  <1>5. token.kind = "cdata" => EventsOf(token, Told) = CharsOf(token.text)
    BY DEF EventsOf, CharsOf
  <1>6. token.kind = "comment" => EventsOf(token, Told) = << <<"comment">> >>
    BY DEF EventsOf
  <1>7. token.kind = "ref" /\ token.name \in DOMAIN Replacement =>
               EventsOf(token, Told) = Events(Replacement[token.name], Told)
    <2>1. token.kind = "ref" /\ token.name \in DOMAIN Told => EventsOf(token, Told) = Told[token.name]
      BY DEF EventsOf
    <2>2. DOMAIN Told = DOMAIN Replacement
      BY ToldType
    <2>3. \A name \in DOMAIN Replacement : Told[name] = Events(Replacement[name], Told)
      BY ToldEquation
    <2>4. QED
      BY <2>1, <2>2, <2>3
  <1>8. QED
    BY <1>1, <1>2, <1>3, <1>4, <1>5, <1>6, <1>7

\* Each step of the parse keeps it: an element that closes itself,
LEMMA EmptyTagWritten ==
  ASSUME TypeInv, TypeInv', WrittenSoFar, EmptyTag
  PROVE  WrittenSoFar'
  <1>0. /\ Parsing /\ phase = "parsing" /\ Token.kind = "empty" /\ TakesElements
        /\ nodes' = Append(nodes, NewElement(Token)) /\ input' = Tail(input) /\ UNCHANGED <<document, phase, calls>>
    BY DEF EmptyTag, Consume, ParseOnly, Parsing
  <1>1. NewElement(Token) \in Node /\ NewElement(Token).kind = "element" /\ NewElement(Token).parent = Target
    BY <1>0, NewElementIs
  <1>2. PICK n \in Node : /\ n = NewElement(Token) /\ n.kind = "element" /\ n.parent = Target /\ n.tag = Token.tag
                          /\ nodes' = Append(nodes, n)
    BY <1>0, <1>1, NewElementTag
  <1>3. PICK t : t = Target
    OBVIOUS
  <1>4. TreeGrew /\ MoreTold(t, Begins(n) \o Ends(n))
    <2>1. nodes \in Seq(Node) /\ \A i \in DOMAIN nodes : SameNode(nodes[i], nodes[i]) /\ nodes[i].text = nodes[i].text
      BY SameNodes
    <2>2. n.parent = t
      BY <1>2, <1>3
    <2>3. QED
      BY <1>0, <1>2, <1>3, <2>1, <2>2, TargetGrown
  <1>5. Begins(n) \o Ends(n) = EventsOf(Token, Told)
    <2>1. Token \in AnyToken
      BY <1>0, TokenRead
    <2>2. EventsOf(Token, Told) = << <<"start", Token.tag>> >> \o << <<"end", Token.tag>> >>
      BY <1>0, <2>1, TokenTold
    <2>3. Begins(n) = << <<"start", n.tag>> >> /\ Ends(n) = << <<"end", n.tag>> >>
      BY <1>2, BeginsOf
    <2>4. QED
      BY <1>2, <2>2, <2>3
  <1>6. PICK more : more = EventsOf(Token, Told) /\ MoreTold(t, more)
    BY <1>4, <1>5
  <1>7. QED
    BY <1>0, <1>3, <1>4, <1>6, WrittenRead

\* a node of text or a comment,
LEMMA TextNodeWritten ==
  ASSUME TypeInv, TypeInv', WrittenSoFar, Parsing, input' = Tail(input), UNCHANGED <<document, phase, calls>>,
         NEW T \in Seq(Node), Len(T) = Len(nodes),
         \A i \in DOMAIN nodes : SameNode(T[i], nodes[i]) /\ T[i].text = nodes[i].text,
         NEW n \in Node, n.kind # "element", n.parent = Target, nodes' = Append(T, n),
         \/ n.kind = "comment" /\ Token.kind = "comment"
         \/ n.kind # "comment" /\ EventsOf(Token, Told) = CharsOf(n.text)
  PROVE  WrittenSoFar'
  <1>1. phase = "parsing" /\ Token \in AnyToken
    BY TokenRead
  <1>2. PICK t : t = Target
    OBVIOUS
  <1>3. TreeGrew /\ MoreTold(t, Begins(n) \o Ends(n))
    <2>1. n.parent = t
      BY <1>2
    <2>2. QED
      BY <1>1, <1>2, <2>1, TargetGrown
  <1>4. Begins(n) \o Ends(n) = EventsOf(Token, Told)
    BY <1>1, BeginsOf, TokenTold
  <1>5. PICK more : more = EventsOf(Token, Told) /\ MoreTold(t, more)
    BY <1>3, <1>4
  <1>6. QED
    BY <1>2, <1>3, <1>5, WrittenRead

\* a reference of a character,
LEMMA CharacterReferenceWritten ==
  ASSUME TypeInv, TypeInv', WrittenSoFar, CharacterReference
  PROVE  WrittenSoFar'
  <1> DEFINE n == MakeNode("reference", Target, <<Token.char>>)
  <1>1. /\ Parsing /\ phase = "parsing" /\ Token.kind = "charref" /\ input' = Tail(input)
        /\ UNCHANGED <<phase, calls, document>>
        /\ nodes' = Append(nodes, n)
    BY DEF CharacterReference, Within, Consume, ParseOnly, Parsing
  <1>2. Token.char \in Characters /\ <<Token.char>> \in Seq(Characters) /\ Token \in AnyToken
    BY <1>1, TokenRead, TokenShape
  <1>3. n \in Node /\ n.kind = "reference" /\ n.parent = Target
    BY <1>1, <1>2, TextNodeIs
  <1>4. n.text = <<Token.char>>
    BY DEF MakeNode
  <1>5. EventsOf(Token, Told) = CharsOf(n.text)
    BY <1>1, <1>2, <1>4, TokenTold, OneChar
  <1> HIDE DEF n
  <1>6. nodes \in Seq(Node) /\ \A i \in DOMAIN nodes : SameNode(nodes[i], nodes[i]) /\ nodes[i].text = nodes[i].text
    BY SameNodes
  <1>7. QED
    BY <1>1, <1>3, <1>5, <1>6, TextNodeWritten

\* a comment,
LEMMA CommentWritten ==
  ASSUME TypeInv, TypeInv', WrittenSoFar, CommentOrPI
  PROVE  WrittenSoFar'
  <1> DEFINE n == MakeNode("comment", Target, <<>>)
  <1>1. /\ Parsing /\ phase = "parsing" /\ Token.kind = "comment" /\ input' = Tail(input)
        /\ UNCHANGED <<phase, calls, document>>
        /\ nodes' = Append(nodes, n)
    BY DEF CommentOrPI, Consume, ParseOnly, Parsing
  <1>2. <<>> \in Seq(Characters)
    OBVIOUS
  <1>3. n \in Node /\ n.kind = "comment" /\ n.parent = Target
    BY <1>1, <1>2, TextNodeIs
  <1> HIDE DEF n
  <1>4. nodes \in Seq(Node) /\ \A i \in DOMAIN nodes : SameNode(nodes[i], nodes[i]) /\ nodes[i].text = nodes[i].text
    BY SameNodes
  <1>5. QED
    BY <1>1, <1>3, <1>4, TextNodeWritten

\* a CDATA section,
LEMMA CDataWritten ==
  ASSUME TypeInv, TypeInv', WrittenSoFar, CDataSection
  PROVE  WrittenSoFar'
  <1> DEFINE T == MarkTrailing(Target, Len(nodes) + 1)
             n == MakeNode("cdata", Target, Token.text)
  <1>1. /\ Parsing /\ phase = "parsing" /\ Token.kind = "cdata" /\ input' = Tail(input)
        /\ UNCHANGED <<phase, calls, document>>
        /\ nodes' = Append(T, n)
    BY DEF CDataSection, Within, Consume, ParseOnly, Parsing
  <1>2. Token.text \in Seq(Characters) /\ Token \in AnyToken
    BY <1>1, TokenRead, TokenShape
  <1>3. n \in Node /\ n.kind = "cdata" /\ n.parent = Target
    BY <1>1, <1>2, TextNodeIs
  <1>4. n.text = Token.text
    BY DEF MakeNode
  <1>5. EventsOf(Token, Told) = CharsOf(n.text)
    BY <1>1, <1>2, <1>4, TokenTold
  <1>6. TreeOrdered /\ Target \in Nat /\ Len(nodes) + 1 \in Nat
    BY <1>1, TypeFacts, TargetIs
  <1>7. /\ T \in Seq(Node) /\ Len(T) = Len(nodes)
        /\ \A i \in DOMAIN nodes : SameNode(T[i], nodes[i]) /\ T[i].text = nodes[i].text
    BY <1>6, TrailingMarked
  <1> HIDE DEF n, T
  <1>8. QED
    BY <1>1, <1>3, <1>5, <1>7, TextNodeWritten

\* a character,
LEMMA CharacterWritten ==
  ASSUME TypeInv, TypeInv', WrittenSoFar, Character
  PROVE  WrittenSoFar'
  <1> DEFINE T == AddCharacter(Target, Token.char)
             last == LastChild(Target)
             white == Token.char \in White
                      /\ (ChildSet(Target) = {} \/ nodes[last].kind \notin {"cdata", "reference"})
             n == MakeContent(Target, <<Token.char>>, white)
  <1>1. /\ Parsing /\ phase = "parsing" /\ Token.kind = "char" /\ input' = Tail(input) /\ nodes' = T
        /\ UNCHANGED <<phase, calls, document>>
    BY DEF Character, Consume, ParseOnly, Parsing
  <1>2. Token.char \in Characters /\ <<Token.char>> \in Seq(Characters) /\ Token \in AnyToken
    BY <1>1, TokenRead, TokenShape
  <1>3. TreeOrdered /\ Target \in DOMAIN nodes /\ Target \in Nat
    BY <1>1, TypeFacts, TargetIs
  <1>4. \/ T = Append(nodes, n)
        \/ /\ last \in ChildSet(Target) /\ nodes[last].kind = "content"
           /\ T \in Seq(Node) /\ Len(T) = Len(nodes)
           /\ \A i \in DOMAIN nodes : /\ SameNode(T[i], nodes[i])
                                      /\ i # last => T[i] = nodes[i]
           /\ T[last].text = Append(nodes[last].text, Token.char)
    BY <1>2, <1>3, CharacterAdded, SMTT(30)
  <1>5. EventsOf(Token, Told) = << <<"char", Token.char>> >>
    BY <1>1, <1>2, TokenTold
  <1>6. CASE T = Append(nodes, n)
    <2>1. PICK w \in BOOLEAN : w = white
      OBVIOUS
    <2>2. PICK p \in Nat, text \in Seq(Characters) : p = Target /\ text = <<Token.char>>
      BY <1>2, <1>3
    <2>3. n \in Node /\ n.kind = "content" /\ n.parent = Target /\ n.text = <<Token.char>>
      <3> DEFINE m == MakeContent(p, text, w)
      <3>1. m \in Node /\ m.kind = "content" /\ m.parent = p /\ m.text = text
        BY MakeContentType
      <3>2. n = m
        BY <2>1, <2>2
      <3> HIDE DEF m, n
      <3>3. QED
        BY <2>2, <3>1, <3>2
    <2>4. nodes' = Append(nodes, n)
      BY <1>1, <1>6
    <2> HIDE DEF n, T
    <2>5. EventsOf(Token, Told) = CharsOf(n.text)
      BY <1>2, <1>5, <2>3, OneChar
    <2>6. nodes \in Seq(Node) /\ \A i \in DOMAIN nodes : SameNode(nodes[i], nodes[i]) /\ nodes[i].text = nodes[i].text
      BY SameNodes
    <2>7. QED
      BY <1>1, <2>3, <2>4, <2>5, <2>6, TextNodeWritten
  <1>7. CASE /\ last \in ChildSet(Target) /\ nodes[last].kind = "content"
             /\ T \in Seq(Node) /\ Len(T) = Len(nodes)
             /\ \A i \in DOMAIN nodes : /\ SameNode(T[i], nodes[i])
                                        /\ i # last => T[i] = nodes[i]
             /\ T[last].text = Append(nodes[last].text, Token.char)
    <2>1. PICK t \in Nat : t = Target
      BY <1>3
    <2>2. last \in DOMAIN nodes /\ nodes[last].parent = t
      BY <1>7, <2>1 DEF ChildSet
    <2>3. \A j \in DOMAIN nodes : nodes[j].parent = t => j <= last
      <3>1. ChildSet(t) # {} => \A j \in ChildSet(t) : j <= LastChild(t)
        BY <1>3, LastChildIs
      <3>2. \A j \in ChildSet(t) : j <= last
        BY <1>7, <2>1, <3>1
      <3>3. QED
        BY <3>2 DEF ChildSet
    <2>4. PICK l \in DOMAIN nodes : l = last
      BY <2>2
    <2> HIDE DEF last, T, n
    <2>5. /\ nodes[l].parent = t /\ nodes[l].kind = "content"
          /\ \A j \in DOMAIN nodes : nodes[j].parent = t => j <= l
          /\ \A j \in DOMAIN nodes : j # l => T[j] = nodes[j]
          /\ T[l].text = Append(nodes[l].text, Token.char)
          /\ \A i \in DOMAIN nodes : SameNode(T[i], nodes[i])
          /\ T \in Seq(Node) /\ Len(T) = Len(nodes) /\ nodes' = T
      BY <1>1, <1>7, <2>2, <2>3, <2>4
    <2>6. TreeGrew /\ MoreTold(t, << <<"char", Token.char>> >>)
      BY <1>1, <1>2, <2>1, <2>5, TargetLengthened
    <2>7. PICK more : more = EventsOf(Token, Told) /\ MoreTold(t, more)
      BY <1>5, <2>6
    <2>8. QED
      BY <1>1, <2>1, <2>6, <2>7, WrittenRead
  <1>8. QED
    BY <1>4, <1>6, <1>7

\* a start tag,
LEMMA StartTagWritten ==
  ASSUME TypeInv, TypeInv', WrittenSoFar, StartTag
  PROVE  WrittenSoFar'
  <1>0. /\ Parsing /\ phase = "parsing" /\ Token.kind = "start" /\ TakesElements
        /\ nodes' = Append(nodes, NewElement(Token)) /\ calls' = Append(calls, Call("element", Len(nodes) + 1, <<>>))
        /\ input' = Tail(input) /\ UNCHANGED <<document, phase>>
    BY DEF StartTag, Consume, ParseOnly, Parsing
  <1>1. NewElement(Token) \in Node /\ NewElement(Token).kind = "element" /\ NewElement(Token).parent = Target
    BY <1>0, NewElementIs
  <1>2. PICK n \in Node : /\ n = NewElement(Token) /\ n.kind = "element" /\ n.parent = Target /\ n.tag = Token.tag
                          /\ nodes' = Append(nodes, n)
    BY <1>0, <1>1, NewElementTag
  <1>3. PICK t : t = Target
    OBVIOUS
  <1>4. /\ TreeGrew /\ MoreTold(t, Begins(n) \o Ends(n))
        /\ Begins(n) \in Seq(Event) /\ Ends(n) \in Seq(Event)
        /\ nodes'[Len(nodes) + 1] = n /\ Len(nodes) + 1 \in DOMAIN nodes'
        /\ \A j \in DOMAIN nodes' : j <= Len(nodes) + 1
    <2>1. nodes \in Seq(Node) /\ \A i \in DOMAIN nodes : SameNode(nodes[i], nodes[i]) /\ nodes[i].text = nodes[i].text
      BY SameNodes
    <2>2. n.parent = t
      BY <1>2, <1>3
    <2>3. QED
      BY <1>0, <1>2, <1>3, <2>1, <2>2, TargetGrown
  <1>5. PICK c \in CallIn(DOMAIN nodes') :
          c.kind = "element" /\ c.node = Len(nodes) + 1 /\ c.rest = <<>> /\ calls' = Append(calls, c)
    <2>1. <<>> \in Seq(AnyToken)
      OBVIOUS
    <2>2. Call("element", Len(nodes) + 1, <<>>) \in CallIn(DOMAIN nodes')
      BY <1>4, <2>1 DEF Call, CallIn
    <2>3. QED
      BY <1>0, <2>2 DEF Call
  <1>6. Receives(c)
    BY <1>2, <1>4, <1>5 DEF Receives
  <1>7. PICK b \in Seq(Event), e \in Seq(Event) : b = Begins(n) /\ e = Ends(n)
    BY <1>4
  <1>8. e = Closing(c)' /\ MoreTold(t, b \o e)
    <2>1. Closing(c)' = Ends(nodes'[c.node])
      BY <1>5 DEF Closing
    <2>2. QED
      BY <1>4, <1>5, <1>7, <2>1
  <1>9. Resting(c) = <<>>
    BY <1>5 DEF Resting
  <1>10. input \in Seq(AnyToken) /\ input # <<>> /\ Token \in AnyToken /\ Token = Head(input)
    BY <1>0, TypeFacts, TokenRead DEF Parsing, Token
  <1>11. PICK j \in Seq(Event), a \in Seq(Event) :
           j = Events(input', Told) /\ a = EventsOf(Token, Told) /\ Events(input, Told) = a \o j
    <2>1. /\ Events(input, Told) = EventsOf(Head(input), Told) \o Events(Tail(input), Told)
          /\ EventsOf(Head(input), Told) \in Seq(Event) /\ Events(Tail(input), Told) \in Seq(Event)
      BY <1>10, InputTold
    <2>2. QED
      BY <1>0, <1>10, <2>1, Zenon
  <1>12. a = b
    <2>1. EventsOf(Token, Told) = << <<"start", Token.tag>> >>
      BY <1>0, <1>10, TokenTold
    <2>2. Begins(n) = << <<"start", n.tag>> >>
      BY <1>2, BeginsOf
    <2>3. QED
      BY <1>2, <1>7, <1>11, <2>1, <2>2
  <1>13. PICK rest \in Seq(Event) : rest = <<>>
    <2>1. <<>> \in Seq(Event)
      OBVIOUS
    <2>2. QED
      BY <2>1, Zenon
  <1>14. Events(input, Told) = (b \o j) \o rest
    <2>1. (b \o j) \o <<>> = b \o j
      OBVIOUS
    <2>2. QED
      BY <1>11, <1>12, <1>13, <2>1
  <1>15. rest = Resting(c)
    BY <1>9, <1>13
  <1>16. QED
    BY <1>0, <1>3, <1>4, <1>5, <1>6, <1>8, <1>11, <1>14, <1>15, WrittenPushed

\* an end tag,
LEMMA EndTagWritten ==
  ASSUME TypeInv, TypeInv', WrittenSoFar, EndTag
  PROVE  WrittenSoFar'
  <1>0. /\ Parsing /\ phase = "parsing" /\ calls # <<>> /\ Token.kind = "end" /\ Last(calls).kind = "element"
        /\ nodes[Target].tag = Token.tag /\ calls' = Front(calls)
        /\ input' = Tail(input) /\ UNCHANGED <<nodes, phase, document>>
    BY DEF EndTag, Within, AtTop, Closes, Consume, ParseOnly, Parsing
  <1>1. PICK t : t = Target
    OBVIOUS
  <1>2. TreeGrew /\ MoreTold(t, <<>>)
    <2>1. nodes \in Seq(Node) /\ \A i \in DOMAIN nodes : SameNode(nodes[i], nodes[i]) /\ nodes[i].text = nodes[i].text
      BY SameNodes
    <2>2. QED
      BY <1>0, <1>1, <2>1, TargetStays
  <1>3. PICK call : call = Last(calls) /\ call.kind = "element" /\ call.node = Target
    BY <1>0, TargetIs
  <1>4. Closing(call) = << <<"end", Token.tag>> >>
    <2>1. nodes[Target].kind = "element" /\ nodes[Target] \in Node
      <3>1. Len(calls) \in DOMAIN calls /\ Last(calls) = calls[Len(calls)] /\ Target \in DOMAIN nodes
        BY <1>0, TargetIs
      <3>2. QED
        BY <1>3, <3>1, TypeFacts DEF CallPath
    <2>2. Ends(nodes[Target]) = << <<"end", nodes[Target].tag>> >>
      BY <2>1, BeginsOf
    <2>3. QED
      BY <1>0, <1>3, <2>2 DEF Closing
  <1>5. Resting(call) = <<>>
    BY <1>3 DEF Resting
  <1>6. input \in Seq(AnyToken) /\ input # <<>> /\ Token \in AnyToken /\ Token = Head(input)
    BY <1>0, TypeFacts, TokenRead DEF Parsing, Token
  <1>7. PICK i \in Seq(Event), j \in Seq(Event), e \in Seq(Event) :
           i = Events(input, Told) /\ j = Events(input', Told) /\ e = EventsOf(Token, Told) /\ i = e \o j
    <2>1. /\ Events(input, Told) = EventsOf(Head(input), Told) \o Events(Tail(input), Told)
          /\ EventsOf(Head(input), Told) \in Seq(Event) /\ Events(Tail(input), Told) \in Seq(Event)
          /\ Events(input, Told) \in Seq(Event)
      BY <1>6, InputTold
    <2>2. QED
      BY <1>0, <1>6, <2>1, Zenon
  <1>8. e = Closing(call)
    <2>1. EventsOf(Token, Told) = << <<"end", Token.tag>> >>
      BY <1>0, <1>6, TokenTold
    <2>2. QED
      BY <1>4, <1>7, <2>1
  <1>9. PICK q \in Seq(Event) : q = <<>>
    <2>1. <<>> \in Seq(Event)
      OBVIOUS
    <2>2. QED
      BY <2>1, Zenon
  <1>10. i \o q = e \o j
    BY <1>7, <1>9
  <1>11. q = Resting(call)
    BY <1>5, <1>9
  <1>12. QED
    BY <1>0, <1>1, <1>2, <1>3, <1>7, <1>8, <1>10, <1>11, WrittenPopped

\* a reference of an entity,
LEMMA EntityReferenceWritten ==
  ASSUME TypeInv, TypeInv', WrittenSoFar, EntityReference
  PROVE  WrittenSoFar'
  <1>0. PICK own, text :
          /\ own = ~BeginsWithMarkup(Replacement[Token.name]) /\ text = Replacement[Token.name]
          /\ Parsing /\ phase = "parsing" /\ calls # <<>> /\ Token.kind = "ref" /\ Token.name \in DOMAIN Replacement
          /\ nodes' = IF own THEN Append(nodes, MakeNode("reference", Target, <<>>)) ELSE nodes
          /\ calls' = Append(calls, Call("entity", IF own THEN Len(nodes) + 1 ELSE Target, Tail(input)))
          /\ input' = text
          /\ UNCHANGED <<document, phase>>
    BY Zenon DEF EntityReference, Within, AtTop, ParseOnly, Parsing
  <1>1. text \in Seq(AnyToken)
    BY <1>0, ReplacementText
  <1>2. Tail(input) \in Seq(AnyToken) /\ Target \in DOMAIN nodes /\ Target \in Nat
    BY <1>0, TokenRead, TargetIs
  <1>3. PICK t : t = Target
    OBVIOUS
  <1>4. nodes \in Seq(Node) /\ \A i \in DOMAIN nodes : SameNode(nodes[i], nodes[i]) /\ nodes[i].text = nodes[i].text
    BY SameNodes
  <1>5. PICK place : place = IF own THEN Len(nodes) + 1 ELSE Target
    OBVIOUS
  <1>6. /\ TreeGrew /\ MoreTold(t, <<>>) /\ place \in DOMAIN nodes'
        /\ place # Target => nodes'[place].parent = Target /\ \A j \in DOMAIN nodes' : j <= place
    <2>1. CASE own
      <3>1. <<>> \in Seq(Characters)
        OBVIOUS
      <3>2. PICK n \in Node : /\ n.kind = "reference" /\ n.parent = Target /\ n.text = <<>>
                              /\ nodes' = Append(nodes, n)
        <4> DEFINE m == MakeNode("reference", Target, <<>>)
        <4>1. m \in Node /\ m.kind = "reference" /\ m.parent = Target
          BY <1>0, <3>1, TextNodeIs
        <4>2. m.text = <<>>
          BY DEF MakeNode
        <4>3. nodes' = Append(nodes, m)
          BY <1>0, <2>1
        <4> HIDE DEF m
        <4>4. QED
          BY <4>1, <4>2, <4>3
      <3>3. /\ TreeGrew /\ MoreTold(t, Begins(n) \o Ends(n))
            /\ nodes'[Len(nodes) + 1] = n /\ Len(nodes) + 1 \in DOMAIN nodes'
            /\ \A j \in DOMAIN nodes' : j <= Len(nodes) + 1
        <4>1. n.parent = t
          BY <1>3, <3>2
        <4>2. QED
          BY <1>0, <1>3, <1>4, <3>2, <4>1, TargetGrown
      <3>4. Begins(n) \o Ends(n) = <<>>
        <4>1. Begins(n) \o Ends(n) = CharsOf(<<>>)
          BY <3>2, BeginsOf
        <4>2. CharsOf(<<>>) \in Seq(Event) /\ Len(CharsOf(<<>>)) = 0
          BY <3>1, CharsType
        <4>3. QED
          BY <4>1, <4>2
      <3>5. QED
        BY <1>5, <2>1, <3>2, <3>3, <3>4
    <2>2. CASE ~own
      <3>1. nodes' = nodes /\ place = Target
        BY <1>0, <1>5, <2>2
      <3>2. TreeGrew /\ MoreTold(t, <<>>)
        BY <1>0, <1>3, <1>4, <3>1, TargetStays
      <3>3. QED
        BY <1>2, <3>1, <3>2
    <2>3. QED
      BY <2>1, <2>2
  <1>7. PICK c \in CallIn(DOMAIN nodes') :
          c.kind = "entity" /\ c.node = place /\ c.rest = Tail(input) /\ calls' = Append(calls, c)
    <2>1. Call("entity", place, Tail(input)) \in CallIn(DOMAIN nodes')
      BY <1>2, <1>6 DEF Call, CallIn
    <2>2. calls' = Append(calls, Call("entity", place, Tail(input)))
      BY <1>0, <1>5
    <2>3. /\ Call("entity", place, Tail(input)).kind = "entity" /\ Call("entity", place, Tail(input)).node = place
          /\ Call("entity", place, Tail(input)).rest = Tail(input)
      BY DEF Call
    <2>4. QED
      BY <2>1, <2>2, <2>3, Zenon
  <1>8. Receives(c)
    BY <1>6, <1>7 DEF Receives
  <1>9. PICK b \in Seq(Event) : b = <<>> /\ b \o b = <<>>
    <2>1. <<>> \in Seq(Event) /\ <<>> \o <<>> = <<>>
      OBVIOUS
    <2>2. QED
      BY <2>1, Zenon
  <1>10. b = Closing(c)' /\ MoreTold(t, b \o b)
    <2>1. Closing(c)' = <<>>
      BY <1>7 DEF Closing
    <2>2. QED
      BY <1>6, <1>9, <2>1
  <1>11. input \in Seq(AnyToken) /\ input # <<>> /\ Token \in AnyToken /\ Token = Head(input)
    BY <1>0, TypeFacts, TokenRead DEF Parsing, Token
  <1>12. PICK j \in Seq(Event), rest \in Seq(Event) :
           j = Events(input', Told) /\ rest = Events(Tail(input), Told) /\ Events(input, Told) = j \o rest
    <2>1. /\ Events(input, Told) = EventsOf(Head(input), Told) \o Events(Tail(input), Told)
          /\ EventsOf(Head(input), Told) \in Seq(Event) /\ Events(Tail(input), Told) \in Seq(Event)
      BY <1>11, InputTold
    <2>2. EventsOf(Token, Told) = Events(text, Told)
      BY <1>0, <1>11, TokenTold
    <2>3. EventsOf(Head(input), Told) = Events(input', Told)
      BY <1>0, <1>11, <2>2
    <2>4. QED
      BY <2>1, <2>3, Zenon
  <1>13. rest = Resting(c)
    BY <1>7, <1>12 DEF Resting
  <1>14. Events(input, Told) = (b \o j) \o rest
    <2>1. b \o j = j
      BY <1>9
    <2>2. QED
      BY <1>12, <2>1
  <1>15. QED
    BY <1>0, <1>3, <1>6, <1>7, <1>8, <1>9, <1>10, <1>12, <1>13, <1>14, WrittenPushed

\* and the end of its text.
LEMMA EndOfEntityWritten ==
  ASSUME TypeInv, TypeInv', WrittenSoFar, EndOfEntity
  PROVE  WrittenSoFar'
  <1> DEFINE receiver == calls[Len(calls) - 1].node
             T == MarkTrailing(receiver, Target)
  <1>0. /\ phase = "parsing" /\ calls # <<>> /\ Last(calls).kind = "entity" /\ input = <<>>
        /\ nodes' = IF Target = receiver THEN nodes ELSE T
        /\ input' = Last(calls).rest /\ calls' = Front(calls)
        /\ UNCHANGED <<document, phase>>
    BY DEF EndOfEntity, AtTop, ParseOnly
  <1>1. PICK t : t = Target
    OBVIOUS
  <1>2. /\ Len(calls) \in DOMAIN calls /\ Len(calls) \in Nat /\ Last(calls) = calls[Len(calls)]
        /\ Target \in Nat /\ calls \in Seq(CallIn(DOMAIN nodes)) /\ DOMAIN calls = 1..Len(calls)
        /\ TreeOrdered
    BY <1>0, TargetIs, NodesAt, TypeFacts
  <1>3. TreeGrew /\ MoreTold(t, <<>>)
    <2>1. CASE Target = receiver
      <3>1. nodes' = nodes
        BY <1>0, <2>1
      <3>2. nodes \in Seq(Node) /\ \A i \in DOMAIN nodes : SameNode(nodes[i], nodes[i]) /\ nodes[i].text = nodes[i].text
        BY SameNodes
      <3>3. QED
        BY <1>0, <1>1, <3>1, <3>2, TargetStays
    <2>2. CASE Target # receiver
      <3>1. Len(calls) # 1
        BY <1>0, <1>2, TypeFacts DEF CallPath
      <3>2. Len(calls) - 1 \in DOMAIN calls
        BY <1>2, <3>1
      <3>3. receiver \in DOMAIN nodes /\ DOMAIN nodes \subseteq Nat
        BY <1>2, <3>2, CallsShape, TypeFacts
      <3>4. /\ T \in Seq(Node) /\ Len(T) = Len(nodes)
            /\ \A i \in DOMAIN nodes : SameNode(T[i], nodes[i]) /\ T[i].text = nodes[i].text
        BY <1>2, <3>3, TrailingMarked
      <3> HIDE DEF T
      <3>5. QED
        BY <1>0, <1>1, <2>2, <3>4, TargetStays
    <2>3. QED
      BY <2>1, <2>2
  <1>4. PICK call : call = Last(calls) /\ call.kind = "entity" /\ call.rest \in Seq(AnyToken) /\ input' = call.rest
    <2>1. Last(calls).rest \in Seq(AnyToken)
      BY <1>2, CallsShape
    <2>2. QED
      BY <1>0, <2>1
  <1>5. Closing(call) = <<>> /\ Resting(call) = Events(call.rest, Told)
    BY <1>4 DEF Closing, Resting
  <1>6. Events(call.rest, Told) \in Seq(Event)
    BY <1>4, InputTold
  <1>7. PICK e \in Seq(Event), q \in Seq(Event) : e = Closing(call) /\ q = Resting(call) /\ e = <<>>
    <2>1. <<>> \in Seq(Event)
      OBVIOUS
    <2>2. QED
      BY <1>5, <1>6, <2>1, Zenon
  <1>8. e = Events(input, Told) /\ q = Events(input', Told)
    BY <1>0, <1>4, <1>5, <1>7, EventsNone
  <1>9. e \o q = e \o q
    OBVIOUS
  <1> HIDE DEF T, receiver
  <1>10. QED
    BY <1>0, <1>1, <1>3, <1>4, <1>7, <1>8, <1>9, WrittenPopped

----------------------------------------
\* The tree and the document.

\* The beginning.
LEMMA InitWritten == Init => WrittenSoFar
  <1> SUFFICES ASSUME Init PROVE WrittenSoFar
    OBVIOUS
  <1>1. /\ document \in Seq(AnyToken) /\ input = document /\ calls = <<>> /\ phase = "parsing"
        /\ nodes = <<MakeNode("prolog", 0, <<>>)>>
    BY DocumentsAssumption DEF Init
  <1>2. TypeInv
    BY InitType
  <1>3. /\ DOMAIN nodes = {1} /\ nodes[1].kind = "prolog" /\ nodes[1].parent = 0 /\ nodes[1].text = <<>>
        /\ nodes[1] \in Node
    <2>1. DOMAIN nodes = {1} /\ nodes[1].kind = "prolog" /\ nodes[1].parent = 0 /\ nodes[1].text = <<>>
      BY <1>1 DEF MakeNode
    <2>2. QED
      BY <1>2, <2>1, TypeFacts
  <1>4. Traversed[1] = <<>>
    <2>1. /\ Begins(nodes[1]) \in Seq(Event) /\ InnerTold(1) \in Seq(Event) /\ Ends(nodes[1]) \in Seq(Event)
          /\ Traversed[1] = Begins(nodes[1]) \o InnerTold(1) \o Ends(nodes[1])
      BY <1>2, <1>3, TypeFacts, TraversedIs
    <2>2. InnerTold(1) = <<>>
      <3>1. ChildSet(1) = {}
        BY <1>3 DEF ChildSet
      <3>2. QED
        BY <1>2, <3>1, TypeFacts, InnerIs
    <2>3. Begins(nodes[1]) \o Ends(nodes[1]) = CharsOf(<<>>)
      BY <1>3, BeginsOf
    <2>4. CharsOf(<<>>) = <<>>
      <3>1. <<>> \in Seq(Characters) /\ Len(<<>>) = 0
        OBVIOUS
      <3>2. CharsOf(<<>>) \in Seq(Event) /\ Len(CharsOf(<<>>)) = 0
        BY <3>1, CharsType
      <3>3. QED
        BY <3>2
    <2>5. QED
      BY <2>1, <2>2, <2>3, <2>4
  <1> DEFINE f == [k \in {0} |-> <<>>]
  <1>5. f[0] = <<>> /\ <<>> \in Seq(Event) /\ Len(calls) = 0 /\ 0..0 = {0} /\ 1..0 = {}
    BY <1>1
  <1> HIDE DEF f
  <1>6. PathWritten(f, f)
    BY <1>5 DEF PathWritten
  <1>7. WrittenBy(f, f, <<>>)
    <2>1. Traversed[1] = <<>> \o f[Len(calls)]
      BY <1>4, <1>5
    <2>2. PICK s \in Seq(Event) : s = Events(document, Told)
      BY <1>1, InputTold
    <2>3. Events(document, Told) = <<>> \o Events(input, Told) \o f[Len(calls)]
      BY <1>1, <1>5, <2>2
    <2>4. QED
      BY <1>5, <2>1, <2>3 DEF WrittenBy
  <1>8. QED
    BY <1>1, <1>6, <1>7 DEF WrittenSoFar

\* Every step keeps it.
LEMMA NextWritten == TypeInv /\ WrittenSoFar /\ [Next]_vars => WrittenSoFar'
  <1> SUFFICES ASSUME TypeInv, WrittenSoFar, [Next]_vars PROVE WrittenSoFar'
    OBVIOUS
  <1>1. TypeInv'
    BY NextType
  <1>2. CASE phase' # "parsing" /\ document' = document
    BY <1>2 DEF WrittenSoFar
  <1>3. EndOfDocument \/ Reject \/ ClientCall => phase' # "parsing" /\ document' = document
    BY DEF EndOfDocument, Reject, ClientCall, ParseOnly
  <1>4. ASSUME UNCHANGED vars, phase = "parsing" PROVE WrittenSoFar'
    <2>1. UNCHANGED <<nodes, calls, input, document, phase>>
      BY <1>4 DEF vars
    <2>2. TreeGrew
      BY <2>1 DEF TreeGrew
    <2>3. PICK f, r, told : PathWritten(f, r) /\ WrittenBy(f, r, told)
      BY <1>4 DEF WrittenSoFar
    <2>4. PathWritten(f, r)'
      BY <1>4, <2>1, <2>2, <2>3, PathStays
    <2>5. Traversed' = Traversed
      BY <2>1 DEF Traversed
    <2>6. WrittenBy(f, r, told)'
      BY <2>1, <2>3, <2>5 DEF WrittenBy
    <2>7. QED
      BY <2>1, <2>4, <2>6 DEF WrittenSoFar
  <1>5. ASSUME UNCHANGED vars, phase # "parsing" PROVE WrittenSoFar'
    BY <1>2, <1>5 DEF vars
  <1>6. QED
    BY <1>1, <1>2, <1>3, <1>4, <1>5, StartTagWritten, EmptyTagWritten, EndTagWritten, CharacterWritten,
       CharacterReferenceWritten, CommentWritten, CDataWritten, EntityReferenceWritten, EndOfEntityWritten DEF Next

\* The tree tells the document.
TreeTells == phase = "parsed" /\ edited = {} /\ grown = {} => Traversed[1] = Events(document, Told)

\* So it does when the parse ends,
LEMMA EndTells ==
  ASSUME TypeInv, WrittenSoFar, EndOfDocument
  PROVE  TreeTells'
  <1>1. /\ phase = "parsing" /\ input = <<>> /\ calls = <<>> /\ UNCHANGED <<nodes, document>>
    BY DEF EndOfDocument, AtTop, ParseOnly
  <1>2. PICK f, r, told, g, h : WrittenAt(f, r, told, g, h, 0)
    <2>1. 0 = Len(calls)
      BY <1>1
    <2>2. QED
      BY <1>1, <2>1, WrittenFacts
  <1>3. told \in Seq(Event) /\ g = <<>> /\ h = <<>> /\ Traversed[1] = told \o g
        /\ Events(document, Told) = told \o <<>> \o h
    <2>1. f[0] = <<>> /\ r[0] = <<>>
      BY <1>2 DEF WrittenAt, PathWritten
    <2>2. Events(input, Told) = <<>>
      BY <1>1, EventsNone
    <2>3. QED
      BY <1>2, <2>1, <2>2 DEF WrittenAt, Tells
  <1>4. Traversed[1] = Events(document, Told)
    BY <1>3
  <1>5. Traversed' = Traversed
    BY <1>1 DEF Traversed
  <1>6. QED
    BY <1>1, <1>4, <1>5 DEF TreeTells

\* and while the client reads it.
LEMMA ClientTells ==
  ASSUME TypeInv, TypeInv', TreeTells, ClientCall
  PROVE  TreeTells'
  <1>1. phase = "parsed" /\ UNCHANGED document
    BY DEF ClientCall
  <1>2. PICK i \in DOMAIN nodes : \/ GetContents(i) \/ RemoveLastChild(i)
                                  \/ \E char \in Characters : AddChild(i, char) \/ AddContent(i, char)
    BY DEF ClientCall
  <1>3. CASE GetContents(i)
    <2> DEFINE T == Filled(i)
    <2>1. nodes' = T /\ UNCHANGED <<edited, grown>>
      BY <1>3 DEF GetContents
    <2>2. /\ TreeTold /\ TreeTold' /\ TreeOrdered /\ TreeOrdered'
          /\ Len(nodes) \in Nat /\ DOMAIN nodes = 1..Len(nodes)
      BY TreesAreTold
    <2>3. \A j \in DOMAIN nodes : T[j].tag = nodes[j].tag
      BY DEF Filled
    <2>4. /\ T \in Seq(Node) /\ Len(T) = Len(nodes)
          /\ \A j \in DOMAIN nodes : T[j].kind = nodes[j].kind /\ T[j].parent = nodes[j].parent /\ T[j].text = nodes[j].text
      BY <2>2, FilledIs
    <2> HIDE DEF T
    <2>5. DOMAIN nodes' = DOMAIN nodes
      BY <2>1, <2>2, <2>4
    <2>6. PICK K : K = DOMAIN nodes
      OBVIOUS
    <2>7. \A j \in K : /\ nodes'[j].kind = nodes[j].kind /\ nodes'[j].text = nodes[j].text
                       /\ nodes'[j].tag = nodes[j].tag
                       /\ ChildSet(j)' = ChildSet(j) /\ ChildSet(j) \subseteq K
      BY <2>1, <2>3, <2>4, <2>5, <2>6 DEF ChildSet
    <2>8. nodes # <<>>
      BY <1>2
    <2>9. \A j \in K : Traversed'[j] = Traversed[j]
      BY <2>2, <2>5, <2>6, <2>7, <2>8, TraversedStays
    <2>10. 1 \in K
      BY <1>2, <2>2, <2>6
    <2>11. QED
      BY <1>1, <2>1, <2>9, <2>10 DEF TreeTells
  <1>4. ASSUME ~GetContents(i) PROVE edited' # {} \/ grown' # {}
    BY <1>2, <1>4 DEF RemoveLastChild, AddChild, AddContent
  <1>5. QED
    BY <1>3, <1>4 DEF TreeTells

\* Every step keeps it.
LEMMA NextTells == TypeInv /\ WrittenSoFar /\ TreeTells /\ [Next]_vars => TreeTells'
  <1> SUFFICES ASSUME TypeInv, WrittenSoFar, TreeTells, [Next]_vars PROVE TreeTells'
    OBVIOUS
  <1>1. TypeInv'
    BY NextType
  <1>2. CASE phase' # "parsed"
    BY <1>2 DEF TreeTells
  <1>3. StartTag \/ EmptyTag \/ EndTag \/ Character \/ CharacterReference \/ CDataSection \/ CommentOrPI
           \/ EntityReference \/ EndOfEntity \/ Reject => phase' # "parsed"
    BY DEF StartTag, EmptyTag, EndTag, Character, CharacterReference, CDataSection, CommentOrPI,
           EntityReference, EndOfEntity, Reject, Parsing, Within
  <1>4. CASE UNCHANGED vars
    <2>1. UNCHANGED <<nodes, document, phase, edited, grown>>
      BY <1>4 DEF vars
    <2>2. Traversed' = Traversed
      BY <2>1 DEF Traversed
    <2>3. QED
      BY <2>1, <2>2 DEF TreeTells
  <1>5. QED
    BY <1>1, <1>2, <1>3, <1>4, EndTells, ClientTells DEF Next

\* The tree is the one that is written: TreeAsWritten, for every document.
THEOREM TreeWritten == Spec => []TreeAsWritten
  <1>1. Init => TreeTells
    BY DEF Init, TreeTells
  <1>2. Spec => []TreeTells
    BY <1>1, InitType, NextType, InitWritten, NextWritten, NextTells, PTL DEF Spec
  <1>3. Accepted /\ TreeTells => TreeAsWritten
    BY DEF Accepted, TreeTells, TreeAsWritten
  <1>4. QED
    BY <1>2, <1>3, VerdictInvariant, PTL

=============================================================================
