-------------------------- MODULE Document_proofs --------------------------
(***************************************************************************)
(* Proofs about Document, for every set of objects, every set of options   *)
(* and every word size.  Without further assumptions: the shared state is  *)
(* well-typed, and a parse that fails keeps the trees.  When no resolver   *)
(* callback uses another XML object: the shared counters are those of the  *)
(* parse that runs, a document has one root, and a successful parse binds  *)
(* the validator to its own DTD.  When an object is on its own and its     *)
(* documents are accepted: validate() is about its own DTD, which lives.   *)
(***************************************************************************)
EXTENDS Document, FiniteSetTheorems, SequenceTheorems, TLAPS

-----------------------------------------------------------------------------
(* Counting with the width of a size_t stays within that width.            *)
LEMMA CounterType ==
  ASSUME NEW n \in 0 .. Word - 1
  PROVE  /\ Increment(n) \in 0 .. Word - 1
         /\ Decrement(n) \in 0 .. Word - 1
  BY ConstantsAssumption DEF Increment, Decrement, ConstantsAssumption

(* Changing and leaving the innermost call of a stack of calls.            *)
LEMMA StackType ==
  ASSUME calls \in Seq(Call), calls # <<>>
  PROVE  /\ Top \in Call
         /\ Below \in Seq(Call)
         /\ \A c \in Call : Replace(c) \in Seq(Call)
  BY DEF Top, Below, Replace

(* A parse starts with a well-typed call.                                  *)
LEMMA BeginParseType ==
  ASSUME TypeOK, NEW d \in Docs \cup {Schema}, NEW options \in Options,
         BeginParse(d, options)
  PROVE  TypeOK'
  <1>1. [doc |-> d, opts |-> options, stage |-> "prolog", open |-> <<>>,
         dtds |-> {}, roots |-> 0] \in Call
    BY DEF Call
  <1>2. calls' \in Seq(Call)
    BY <1>1 DEF TypeOK, BeginParse
  <1>3. 0 \in 0 .. Word - 1
    BY ConstantsAssumption DEF ConstantsAssumption
  <1>4. QED
    BY <1>2, <1>3 DEF TypeOK, BeginParse, SetLimits, ClearCounters, DropDtd

(* The program starts with well-typed state.                               *)
LEMMA InitType == Init => TypeOK
  <1> SUFFICES ASSUME Init PROVE TypeOK
    OBVIOUS
  <1>1. /\ tree \in [Docs -> Tree \cup {NoTree}]
        /\ mapper \in [Docs -> Dtds \cup {NoDtd}]
    BY DEF Init
  <1>2. 0 \in 0 .. Word - 1
    BY ConstantsAssumption DEF ConstantsAssumption
  <1>3. calls \in Seq(Call)
    BY DEF Init
  <1>4. QED
    BY <1>1, <1>2, <1>3, ConstantsAssumption DEF Init, TypeOK, ConstantsAssumption

(* Every operation, whatever callback is running, leaves the state well-   *)
(* typed.                                                                  *)
LEMMA NextType == TypeOK /\ [Next]_vars => TypeOK'
  <1> SUFFICES ASSUME TypeOK, [Next]_vars PROVE TypeOK'
    OBVIOUS
  <1> USE DEF TypeOK
  <1>1. ASSUME NEW d \in Docs, NEW options \in Options, Parse(d, options)
        PROVE  TypeOK'
    BY <1>1, BeginParseType DEF Parse
  <1>2. ASSUME NEW d \in Validated, ValidateXsd(d) PROVE TypeOK'
    BY <1>2, BeginParseType, ConstantsAssumption
    DEF ValidateXsd, ConstantsAssumption
  <1>3. ASSUME NEW d \in Docs, Destroy(d) PROVE TypeOK'
    BY <1>3 DEF Destroy
  <1>4. ASSUME NEW dtd \in Dtds, Doctype(dtd) PROVE TypeOK'
    <2>1. [Top EXCEPT !.stage = "dtd", !.dtds = @ \cup {dtd}] \in Call
      BY <1>4, StackType DEF Doctype, At, Call
    <2>2. calls' \in Seq(Call)
      BY <1>4, <2>1, StackType DEF Doctype, At
    <2>3. QED
      BY <1>4, <2>2 DEF Doctype
  <1>5. ASSUME DoctypeEnd PROVE TypeOK'
    <2>1. [Top EXCEPT !.stage = "prolog"] \in Call
      BY <1>5, StackType DEF DoctypeEnd, At, Call
    <2>2. calls' \in Seq(Call)
      BY <1>5, <2>1, StackType DEF DoctypeEnd, At
    <2>3. QED
      BY <1>5, <2>2 DEF DoctypeEnd
  <1>6. ASSUME StartTag PROVE TypeOK'
    <2>1. Top \in Call /\ calls # <<>>
      BY <1>6, StackType DEF StartTag, TagComes, At
    <2>2. /\ MoreRoots(Top.roots) \in 0 .. 2
          /\ Append(Top.open, "element") \in Seq(Construct)
      BY <2>1 DEF Call, MoreRoots, Construct
    <2>3. [Top EXCEPT !.stage = "body", !.open = Append(@, "element"),
                      !.roots = IF hasRoot THEN @ ELSE MoreRoots(@)] \in Call
      BY <2>1, <2>2 DEF Call
    <2>4. calls' \in Seq(Call)
      BY <1>6, <2>1, <2>3, StackType DEF StartTag
    <2>5. QED
      BY <1>6, <2>4, CounterType DEF StartTag
  <1>7. ASSUME EmptyRootTag PROVE TypeOK'
    <2>1. Top \in Call /\ calls # <<>>
      BY <1>7, StackType DEF EmptyRootTag, At
    <2>2. MoreRoots(Top.roots) \in 0 .. 2
      BY <2>1 DEF Call, MoreRoots
    <2>3. [Top EXCEPT !.stage = "epilog", !.roots = MoreRoots(@)] \in Call
      BY <2>1, <2>2 DEF Call
    <2>4. calls' \in Seq(Call)
      BY <1>7, <2>1, <2>3, StackType DEF EmptyRootTag
    <2>5. QED
      BY <1>7, <2>4 DEF EmptyRootTag
  <1>8. ASSUME EndTag PROVE TypeOK'
    <2>1. Top \in Call /\ calls # <<>>
      BY <1>8, StackType DEF EndTag, At
    <2>2. Leave(Top.open) \in Seq(Construct)
      BY <2>1 DEF Call, Leave
    <2>3. [Top EXCEPT !.open = Leave(@),
                      !.stage = IF Len(Top.open) = 1 THEN "epilog" ELSE "body"]
            \in Call
      BY <2>1, <2>2 DEF Call
    <2>4. calls' \in Seq(Call)
      BY <1>8, <2>1, <2>3, StackType DEF EndTag
    <2>5. QED
      BY <1>8, <2>4, CounterType DEF EndTag
  <1>9. ASSUME NEW kind \in {"entity", "inline"}, EntityReference(kind)
        PROVE  TypeOK'
    <2>1. Top \in Call /\ calls # <<>>
      BY <1>9, StackType DEF EntityReference, ReferenceComes, At
    <2>2. Append(Top.open, kind) \in Seq(Construct)
      BY <2>1 DEF Call, Construct
    <2>3. [Top EXCEPT !.open = Append(@, kind)] \in Call
      BY <2>1, <2>2 DEF Call
    <2>4. calls' \in Seq(Call)
      BY <1>9, <2>1, <2>3, StackType DEF EntityReference
    <2>5. QED
      BY <1>9, <2>4, CounterType DEF EntityReference
  <1>10. ASSUME EntityEnd PROVE TypeOK'
    <2>1. Top \in Call /\ calls # <<>>
      BY <1>10, StackType DEF EntityEnd, At
    <2>2. Leave(Top.open) \in Seq(Construct)
      BY <2>1 DEF Call, Leave
    <2>3. [Top EXCEPT !.open = Leave(@)] \in Call
      BY <2>1, <2>2 DEF Call
    <2>4. calls' \in Seq(Call)
      BY <1>10, <2>1, <2>3, StackType DEF EntityEnd
    <2>5. QED
      BY <1>10, <2>4, CounterType DEF EntityEnd
  <1>11. ASSUME EndParse PROVE TypeOK'
    <2>1. Top \in Call /\ Below \in Seq(Call)
      BY <1>11, StackType DEF EndParse, At
    <2>2. [dtds |-> Top.dtds, roots |-> Top.roots] \in Tree
      BY <2>1 DEF Call, Tree
    <2>3. QED
      BY <1>11, <2>1, <2>2 DEF EndParse
  <1>12. ASSUME calls # <<>>, Unwind PROVE calls' \in Seq(Call)
    BY <1>12, StackType DEF Unwind
  <1>13. CASE Malformed \/ SecondDoctype \/ TooDeep \/ TooManyExpansions
    BY <1>12, <1>13
    DEF Malformed, SecondDoctype, TooDeep, TooManyExpansions, TagComes,
        ReferenceComes, At, Unwind
  <1>14. CASE WrongEndTag
    BY <1>12, <1>14, CounterType DEF WrongEndTag, At, Unwind
  <1>15. CASE UNCHANGED vars
    BY <1>15 DEF vars
  <1>16. QED
    BY <1>1, <1>2, <1>3, <1>4, <1>5, <1>6, <1>7, <1>8, <1>9, <1>10, <1>11,
       <1>13, <1>14, <1>15 DEF Next

(* The shared state of the parsers is well-typed in every behaviour.       *)
THEOREM TypeCorrect == Spec => []TypeOK
  BY InitType, NextType, PTL DEF Spec

-----------------------------------------------------------------------------
(* How many constructs of some kinds are open, when one opens or closes.   *)
LEMMA CountOpen ==
  ASSUME NEW s \in Seq(Construct), NEW kinds
  PROVE  /\ Count(s, kinds) \in Nat
         /\ s = <<>> => Count(s, kinds) = 0
         /\ \A k \in Construct :
              Count(Append(s, k), kinds) = IF k \in kinds THEN Count(s, kinds) + 1
                                                          ELSE Count(s, kinds)
         /\ s # <<>> =>
              Count(Leave(s), kinds) = IF Innermost(s) \in kinds
                                         THEN Count(s, kinds) - 1
                                         ELSE Count(s, kinds)
  <1> DEFINE Places(t) == {i \in DOMAIN t : t[i] \in kinds}
  <1>1. IsFiniteSet(Places(s)) /\ Count(s, kinds) \in Nat
    <2>1. IsFiniteSet(1 .. Len(s)) /\ Places(s) \in SUBSET (1 .. Len(s))
      BY FS_Interval
    <2>2. QED
      BY <2>1, FS_Subset, FS_CardinalityType DEF Count
  <1>2. s = <<>> => Count(s, kinds) = 0
    <2>1. s = <<>> => Places(s) = {}
      OBVIOUS
    <2>2. QED
      BY <2>1, FS_EmptySet DEF Count
  <1>3. ASSUME NEW k \in Construct
        PROVE  Count(Append(s, k), kinds) = IF k \in kinds THEN Count(s, kinds) + 1
                                                           ELSE Count(s, kinds)
    <2>1. Places(Append(s, k)) = IF k \in kinds THEN Places(s) \cup {Len(s) + 1}
                                                ELSE Places(s)
      OBVIOUS
    <2>2. Len(s) + 1 \notin Places(s)
      OBVIOUS
    <2>3. QED
      BY <1>1, <2>1, <2>2, FS_AddElement DEF Count
  <1>4. ASSUME s # <<>>
        PROVE  Count(Leave(s), kinds) = IF Innermost(s) \in kinds
                                          THEN Count(s, kinds) - 1
                                          ELSE Count(s, kinds)
    <2>1. Places(Leave(s)) = Places(s) \ {Len(s)}
      BY <1>4 DEF Leave
    <2>2. Len(s) \in Places(s) <=> Innermost(s) \in kinds
      BY <1>4 DEF Innermost
    <2>3. QED
      BY <1>1, <2>1, <2>2, FS_RemoveElement DEF Count
  <1>5. QED
    BY <1>1, <1>2, <1>3, <1>4

(* Leaving the innermost construct keeps the outermost one.               *)
LEMMA LeaveKeepsFirst ==
  ASSUME NEW s \in Seq(Construct), s # <<>>
  PROVE  /\ Leave(s) \in Seq(Construct)
         /\ Leave(s) = <<>> <=> Len(s) = 1
         /\ Len(s) # 1 => Leave(s) # <<>> /\ Leave(s)[1] = s[1]
  <1>1. Len(s) \in Nat /\ Len(s) >= 1
    OBVIOUS
  <1>2. Leave(s) \in Seq(Construct)
    BY DEF Leave
  <1>3. /\ Len(Leave(s)) = Len(s) - 1
        /\ Len(s) # 1 => Leave(s)[1] = s[1]
    <2> DEFINE n == Len(s) - 1
    <2>1. n \in Int /\ \A i \in 1 .. n : s[i] \in Construct
      BY <1>1
    <2>2. /\ Len(SubSeq(s, 1, n)) = IF 1 <= n THEN n - 1 + 1 ELSE 0
          /\ \A i \in 1 .. n - 1 + 1 : SubSeq(s, 1, n)[i] = s[1 + i - 1]
      BY <2>1, SubSeqProperties
    <2>3. 1 <= n => SubSeq(s, 1, n)[1] = s[1]
      BY <2>1, <2>2
    <2>4. n \in Nat /\ (Len(s) # 1 => 1 <= n)
      <3>1. \A k \in Nat : k >= 1 => k - 1 \in Nat /\ (k = 1 \/ 1 <= k - 1)
        OBVIOUS
      <3>2. QED
        BY <1>1, <3>1
    <2> HIDE DEF n
    <2>5. Len(SubSeq(s, 1, n)) = n
      BY <2>2, <2>4
    <2>6. Leave(s) = SubSeq(s, 1, n)
      BY DEF Leave, n
    <2>7. n = Len(s) - 1
      BY DEF n
    <2>8. QED
      BY <2>3, <2>4, <2>5, <2>6, <2>7
  <1>4. Leave(s) = <<>> <=> Len(s) = 1
    BY <1>1, <1>2, <1>3
  <1>5. QED
    BY <1>2, <1>3, <1>4

-----------------------------------------------------------------------------
(* What holds of the one parse that runs when no callback parses.  The     *)
(* counters, the root flag and the validator are static: that they belong  *)
(* to the call on the stack is the point.                                  *)
ParseState(call) ==
  /\ limits = call.opts
  /\ elementNestingDepth = Count(call.open, {"element"})
  /\ entityExpansionDepth = Count(call.open, {"entity", "inline"})
  /\ elementNestingDepth <= call.opts.nesting
  /\ entityExpansionDepth <= call.opts.expansion
  /\ call.stage \in {"prolog", "dtd"} =>
       ~hasRoot /\ call.roots = 0 /\ call.open = <<>>
  /\ call.stage = "body" => hasRoot /\ call.roots = 1 /\ call.open # <<>>
  /\ call.stage = "epilog" => call.roots = 1 /\ call.open = <<>>
  /\ call.open # <<>> => call.open[1] = "element"
  /\ call.dtds = {validator} \ {NoDtd}
  /\ call.doc \in Docs => mapper[call.doc] = validator

OneParse == calls # <<>> => Len(calls) = 1 /\ ParseState(Top)

IInv == TypeOK /\ OneParse /\ OneRoot

(* The only call on the stack, and what a step makes of it.                *)
LEMMA OnlyCall ==
  ASSUME TypeOK, OneParse, calls # <<>>
  PROVE  /\ Top \in Call /\ ParseState(Top)
         /\ Top.open \in Seq(Construct) /\ Top.opts \in Options
         /\ Top.opts.nesting \in 0 .. Word - 1
         /\ Top.opts.expansion \in 0 .. Word - 1
         /\ Below = <<>>
         /\ \A c : calls' = Replace(c) => Len(calls') = 1 /\ Top' = c
  <1>1. calls \in Seq(Call) /\ Len(calls) = 1
    BY DEF TypeOK, OneParse
  <1>2. Top \in Call /\ ParseState(Top)
    BY StackType, <1>1 DEF OneParse
  <1>3. Top.open \in Seq(Construct) /\ Top.opts \in Options
    BY <1>2 DEF Call
  <1>4. /\ Top.opts.nesting \in 0 .. Word - 1
        /\ Top.opts.expansion \in 0 .. Word - 1
    BY <1>3, ConstantsAssumption DEF ConstantsAssumption
  <1>5. Below = <<>>
    BY <1>1 DEF Below
  <1>6. ASSUME NEW c, calls' = Replace(c) PROVE Len(calls') = 1 /\ Top' = c
    <2>1. Len(calls') = 1 /\ calls'[1] = c
      BY <1>1, <1>6 DEF Replace
    <2>2. Top' = calls'[Len(calls')]
      BY DEF Top
    <2>3. QED
      BY <2>1, <2>2
  <1>7. QED
    BY <1>2, <1>3, <1>4, <1>5, <1>6

(* A parse begun when no other runs has the counters, the flag and the     *)
(* validator of its first stage.                                           *)
LEMMA BeginParseState ==
  ASSUME IInv, calls = <<>>, NEW d \in Docs \cup {Schema}, NEW options \in Options,
         BeginParse(d, options)
  PROVE  OneParse'
  <1> DEFINE new == [doc |-> d, opts |-> options, stage |-> "prolog",
                     open |-> <<>>, dtds |-> {}, roots |-> 0]
  <1>1. Len(calls') = 1 /\ calls'[1] = new
    BY DEF BeginParse
  <1>2. Top' = new
    BY <1>1 DEF Top
  <1>3. /\ Top'.opts = options /\ Top'.open = <<>> /\ Top'.stage = "prolog"
        /\ Top'.dtds = {} /\ Top'.roots = 0 /\ Top'.doc = d
    BY <1>2
  <1>4. <<>> \in Seq(Construct)
    OBVIOUS
  <1>5. Count(<<>>, {"element"}) = 0 /\ Count(<<>>, {"entity", "inline"}) = 0
    BY <1>4, CountOpen
  <1>6. options.nesting \in Nat /\ options.expansion \in Nat
    BY ConstantsAssumption DEF ConstantsAssumption
  <1>7. ParseState(Top)'
    BY <1>3, <1>5, <1>6
    DEF BeginParse, SetLimits, ClearCounters, DropDtd, ParseState
  <1>8. QED
    BY <1>1, <1>7 DEF OneParse

(* Before the first parse nothing is open and no document exists.          *)
LEMMA InitInv == Init => IInv
  BY InitType DEF Init, IInv, OneParse, OneRoot

(* Without callbacks that use other objects every step keeps the shared    *)
(* state that of the one parse.                                            *)
LEMMA NextInv ==
  ASSUME Resolvers = {}
  PROVE  IInv /\ [Next]_vars => IInv'
  <1> SUFFICES ASSUME IInv, [Next]_vars PROVE OneParse' /\ OneRoot'
    BY NextType DEF IInv
  <1> TypeOK /\ OneParse /\ OneRoot
    BY DEF IInv
  <1> TypeOK'
    BY NextType
  <1>0. ASSUME UNCHANGED tree PROVE OneRoot'
    BY <1>0 DEF OneRoot
  <1>1. ASSUME NEW d \in Docs, NEW options \in Options, Parse(d, options)
        PROVE  OneParse' /\ OneRoot'
    <2>1. calls = <<>>
      BY <1>1 DEF Parse, ClientRuns
    <2>2. QED
      BY <1>0, <1>1, <2>1, BeginParseState DEF Parse, BeginParse
  <1>2. ASSUME NEW d \in Validated, ValidateXsd(d) PROVE OneParse' /\ OneRoot'
    <2>1. calls = <<>>
      BY <1>2 DEF ValidateXsd, ClientRuns
    <2>2. DefaultOptions \in Options
      BY ConstantsAssumption DEF ConstantsAssumption
    <2>3. QED
      BY <1>0, <1>2, <2>1, <2>2, BeginParseState DEF ValidateXsd, BeginParse
  <1>3. ASSUME NEW d \in Docs, Destroy(d) PROVE OneParse' /\ OneRoot'
    <2>1. calls = <<>>
      BY <1>3 DEF Destroy, ClientRuns
    <2>2. OneRoot'
      BY <1>3 DEF Destroy, OneRoot, TypeOK
    <2>3. QED
      BY <1>3, <2>1, <2>2 DEF Destroy, OneParse
  <1>4. ASSUME NEW dtd \in Dtds, Doctype(dtd) PROVE OneParse' /\ OneRoot'
    <2>1. /\ Top \in Call /\ ParseState(Top) /\ Top.stage = "prolog"
          /\ Len(calls') = 1
          /\ Top' = [Top EXCEPT !.stage = "dtd", !.dtds = Top.dtds \cup {dtd}]
      BY <1>4, OnlyCall DEF Doctype, At
    <2>2. /\ Top'.stage = "dtd" /\ Top'.dtds = Top.dtds \cup {dtd}
          /\ Top'.opts = Top.opts /\ Top'.open = Top.open
          /\ Top'.roots = Top.roots /\ Top'.doc = Top.doc
      BY <2>1 DEF Call
    <2>3. Top'.dtds = {validator'} \ {NoDtd}
      BY <1>4, <2>1, <2>2, ConstantsAssumption
      DEF Doctype, FirstDoctype, ParseState, ConstantsAssumption
    <2>4. Top.doc \in Docs => mapper'[Top.doc] = validator'
      BY <1>4 DEF Doctype
    <2>5. ParseState(Top)'
      BY <1>4, <2>1, <2>2, <2>3, <2>4 DEF Doctype, FirstDoctype, ParseState
    <2>6. QED
      BY <1>0, <1>4, <2>1, <2>5 DEF OneParse, Doctype
  <1>5. ASSUME DoctypeEnd PROVE OneParse' /\ OneRoot'
    <2>1. /\ Top \in Call /\ ParseState(Top) /\ Top.stage = "dtd"
          /\ Len(calls') = 1 /\ Top' = [Top EXCEPT !.stage = "prolog"]
      BY <1>5, OnlyCall DEF DoctypeEnd, At
    <2>2. /\ Top'.stage = "prolog" /\ Top'.dtds = Top.dtds
          /\ Top'.opts = Top.opts /\ Top'.open = Top.open
          /\ Top'.roots = Top.roots /\ Top'.doc = Top.doc
      BY <2>1 DEF Call
    <2>3. ParseState(Top)'
      BY <1>5, <2>1, <2>2 DEF DoctypeEnd, ParseState
    <2>4. QED
      BY <1>0, <1>5, <2>1, <2>3 DEF OneParse, DoctypeEnd
  <1>6. ASSUME StartTag PROVE OneParse' /\ OneRoot'
    <2>1. /\ Top \in Call /\ ParseState(Top) /\ calls # <<>>
          /\ Top.stage \in {"prolog", "body"}
          /\ Len(calls') = 1
          /\ Top' = [Top EXCEPT !.stage = "body",
                                !.open = Append(Top.open, "element"),
                                !.roots = IF hasRoot THEN Top.roots
                                                     ELSE MoreRoots(Top.roots)]
      BY <1>6, OnlyCall DEF StartTag, TagComes, At
    <2>2. /\ Top.open \in Seq(Construct)
          /\ Top.opts.nesting \in 0 .. Word - 1
      BY <2>1, OnlyCall
    <2>3. (IF hasRoot THEN Top.roots ELSE MoreRoots(Top.roots)) = 1
      BY <2>1 DEF ParseState, MoreRoots
    <2>4. /\ Top'.stage = "body" /\ Top'.open = Append(Top.open, "element")
          /\ Top'.dtds = Top.dtds /\ Top'.opts = Top.opts
          /\ Top'.roots = 1 /\ Top'.doc = Top.doc
      BY <2>1, <2>3 DEF Call
    <2>5. /\ Count(Top'.open, {"element"}) = Count(Top.open, {"element"}) + 1
          /\ Count(Top'.open, {"entity", "inline"})
               = Count(Top.open, {"entity", "inline"})
      BY <2>2, <2>4, CountOpen DEF Construct
    <2>6. Top'.open # <<>> /\ Top'.open[1] = "element"
      BY <2>1, <2>2, <2>4 DEF ParseState
    <2>7. /\ elementNestingDepth \in Nat
          /\ elementNestingDepth < Top.opts.nesting
      BY <1>6, <2>1, ConstantsAssumption
      DEF StartTag, TypeOK, ParseState, ConstantsAssumption
    <2>8. elementNestingDepth' = elementNestingDepth + 1
      BY <1>6, <2>2, <2>7, ConstantsAssumption
      DEF StartTag, Increment, ConstantsAssumption
    <2>9. ParseState(Top)'
      BY <1>6, <2>1, <2>2, <2>4, <2>5, <2>6, <2>7, <2>8 DEF StartTag, ParseState
    <2>10. QED
      BY <1>0, <1>6, <2>1, <2>9 DEF OneParse, StartTag
  <1>7. ASSUME EmptyRootTag PROVE OneParse' /\ OneRoot'
    <2>1. /\ Top \in Call /\ ParseState(Top) /\ calls # <<>>
          /\ Top.stage = "prolog" /\ Len(calls') = 1
          /\ Top' = [Top EXCEPT !.stage = "epilog", !.roots = MoreRoots(Top.roots)]
      BY <1>7, OnlyCall DEF EmptyRootTag, At
    <2>2. MoreRoots(Top.roots) = 1
      BY <2>1 DEF ParseState, MoreRoots
    <2>3. /\ Top'.stage = "epilog" /\ Top'.roots = 1 /\ Top'.open = Top.open
          /\ Top'.dtds = Top.dtds /\ Top'.opts = Top.opts /\ Top'.doc = Top.doc
      BY <2>1, <2>2 DEF Call
    <2>4. ParseState(Top)'
      BY <1>7, <2>1, <2>3 DEF EmptyRootTag, ParseState
    <2>5. QED
      BY <1>0, <1>7, <2>1, <2>4 DEF OneParse, EmptyRootTag
  <1>8. ASSUME EndTag PROVE OneParse' /\ OneRoot'
    <2>1. /\ Top \in Call /\ ParseState(Top) /\ calls # <<>>
          /\ Top.stage = "body" /\ Innermost(Top.open) = "element"
          /\ Len(calls') = 1
          /\ Top' = [Top EXCEPT !.open = Leave(Top.open),
                                !.stage = IF Len(Top.open) = 1 THEN "epilog"
                                                               ELSE "body"]
      BY <1>8, OnlyCall DEF EndTag, At
    <2>2. /\ Top.open \in Seq(Construct) /\ Top.open # <<>>
          /\ Top.roots = 1 /\ hasRoot /\ Top.open[1] = "element"
          /\ Top.opts.nesting \in 0 .. Word - 1
      BY <2>1, OnlyCall DEF ParseState
    <2>3. /\ Top'.stage = IF Len(Top.open) = 1 THEN "epilog" ELSE "body"
          /\ Top'.open = Leave(Top.open) /\ Top'.roots = 1
          /\ Top'.dtds = Top.dtds /\ Top'.opts = Top.opts /\ Top'.doc = Top.doc
      BY <2>1, <2>2 DEF Call
    <2>4. /\ Leave(Top.open) \in Seq(Construct)
          /\ Leave(Top.open) = <<>> <=> Len(Top.open) = 1
          /\ Leave(Top.open) # <<>> => Leave(Top.open)[1] = Top.open[1]
      BY <2>2, LeaveKeepsFirst
    <2>5. /\ Count(Top'.open, {"element"}) = Count(Top.open, {"element"}) - 1
          /\ Count(Top'.open, {"entity", "inline"})
               = Count(Top.open, {"entity", "inline"})
      BY <2>1, <2>2, <2>3, CountOpen
    <2>6. Count(Top'.open, {"element"}) \in Nat
      BY <2>3, <2>4, CountOpen
    <2>7. /\ elementNestingDepth \in Nat
          /\ elementNestingDepth' = elementNestingDepth - 1
      BY <1>8, <2>1, <2>5, <2>6 DEF EndTag, Decrement, TypeOK, ParseState
    <2>8. ParseState(Top)'
      BY <1>8, <2>1, <2>2, <2>3, <2>4, <2>5, <2>7 DEF EndTag, ParseState
    <2>9. QED
      BY <1>0, <1>8, <2>1, <2>8 DEF OneParse, EndTag
  <1>9. ASSUME NEW kind \in {"entity", "inline"}, EntityReference(kind)
        PROVE  OneParse' /\ OneRoot'
    <2>1. /\ Top \in Call /\ ParseState(Top) /\ calls # <<>>
          /\ Top.stage = "body" /\ Len(calls') = 1
          /\ Top' = [Top EXCEPT !.open = Append(Top.open, kind)]
      BY <1>9, OnlyCall DEF EntityReference, ReferenceComes, At
    <2>2. /\ Top.open \in Seq(Construct) /\ Top.open # <<>>
          /\ Top.open[1] = "element"
          /\ Top.opts.expansion \in 0 .. Word - 1
      BY <2>1, OnlyCall DEF ParseState
    <2>3. /\ Top'.stage = "body" /\ Top'.open = Append(Top.open, kind)
          /\ Top'.dtds = Top.dtds /\ Top'.opts = Top.opts
          /\ Top'.roots = Top.roots /\ Top'.doc = Top.doc
      BY <2>1 DEF Call
    <2>4. /\ Count(Top'.open, {"entity", "inline"})
               = Count(Top.open, {"entity", "inline"}) + 1
          /\ Count(Top'.open, {"element"}) = Count(Top.open, {"element"})
      BY <2>2, <2>3, CountOpen DEF Construct
    <2>5. Top'.open # <<>> /\ Top'.open[1] = "element"
      BY <2>2, <2>3
    <2>6. /\ entityExpansionDepth \in Nat
          /\ entityExpansionDepth < Top.opts.expansion
      BY <1>9, <2>1, ConstantsAssumption
      DEF EntityReference, TypeOK, ParseState, ConstantsAssumption
    <2>7. entityExpansionDepth' = entityExpansionDepth + 1
      BY <1>9, <2>2, <2>6, ConstantsAssumption
      DEF EntityReference, Increment, ConstantsAssumption
    <2>8. ParseState(Top)'
      BY <1>9, <2>1, <2>2, <2>3, <2>4, <2>5, <2>6, <2>7
      DEF EntityReference, ParseState
    <2>9. QED
      BY <1>0, <1>9, <2>1, <2>8 DEF OneParse, EntityReference
  <1>10. ASSUME EntityEnd PROVE OneParse' /\ OneRoot'
    <2>1. /\ Top \in Call /\ ParseState(Top) /\ calls # <<>>
          /\ Top.stage = "body" /\ Innermost(Top.open) \in {"entity", "inline"}
          /\ Len(calls') = 1 /\ Top' = [Top EXCEPT !.open = Leave(Top.open)]
      BY <1>10, OnlyCall DEF EntityEnd, At
    <2>2. /\ Top.open \in Seq(Construct) /\ Top.open # <<>>
          /\ Top.open[1] = "element"
          /\ Top.opts.expansion \in 0 .. Word - 1
      BY <2>1, OnlyCall DEF ParseState
    <2>3. /\ Top'.stage = "body" /\ Top'.open = Leave(Top.open)
          /\ Top'.dtds = Top.dtds /\ Top'.opts = Top.opts
          /\ Top'.roots = Top.roots /\ Top'.doc = Top.doc
      BY <2>1 DEF Call
    <2>4. Len(Top.open) # 1
      BY <2>1, <2>2 DEF Innermost
    <2>5. /\ Leave(Top.open) \in Seq(Construct) /\ Leave(Top.open) # <<>>
          /\ Leave(Top.open)[1] = Top.open[1]
      BY <2>2, <2>4, LeaveKeepsFirst
    <2>6. /\ Count(Top'.open, {"entity", "inline"})
               = Count(Top.open, {"entity", "inline"}) - 1
          /\ Count(Top'.open, {"element"}) = Count(Top.open, {"element"})
      BY <2>1, <2>2, <2>3, CountOpen
    <2>7. Count(Top'.open, {"entity", "inline"}) \in Nat
      BY <2>3, <2>5, CountOpen
    <2>8. /\ entityExpansionDepth \in Nat
          /\ entityExpansionDepth' = entityExpansionDepth - 1
      BY <1>10, <2>1, <2>6, <2>7 DEF EntityEnd, Decrement, TypeOK, ParseState
    <2>9. ParseState(Top)'
      BY <1>10, <2>1, <2>2, <2>3, <2>5, <2>6, <2>8 DEF EntityEnd, ParseState
    <2>10. QED
      BY <1>0, <1>10, <2>1, <2>9 DEF OneParse, EntityEnd
  <1>11. ASSUME EndParse PROVE OneParse' /\ OneRoot'
    <2>1. /\ Top \in Call /\ ParseState(Top) /\ calls' = <<>>
          /\ Top.stage = "epilog"
      BY <1>11, OnlyCall DEF EndParse, At
    <2>2. Top.roots = 1 /\ Cardinality(Top.dtds) <= 1
      <3>1. Top.dtds = {} \/ Top.dtds = {validator}
        BY <2>1 DEF ParseState
      <3>2. Cardinality({}) = 0 /\ Cardinality({validator}) = 1
        BY FS_EmptySet, FS_Singleton
      <3>3. Top.roots = 1
        BY <2>1 DEF ParseState
      <3>4. CASE Top.dtds = {}
        BY <3>2, <3>3, <3>4
      <3>5. CASE Top.dtds = {validator}
        BY <3>2, <3>3, <3>5
      <3>6. QED
        BY <3>1, <3>4, <3>5
    <2>3. OneRoot'
      BY <1>11, <2>2 DEF EndParse, OneRoot
    <2>4. QED
      BY <2>1, <2>3 DEF OneParse
  <1>12. ASSUME calls # <<>>, Unwind PROVE OneParse' /\ OneRoot'
    BY <1>12, OnlyCall DEF Unwind, OneParse, OneRoot
  <1>13. CASE \/ Malformed \/ WrongEndTag \/ SecondDoctype \/ TooDeep
              \/ TooManyExpansions
    BY <1>12, <1>13
    DEF Malformed, WrongEndTag, SecondDoctype, TooDeep, TooManyExpansions,
        TagComes, ReferenceComes, At
  <1>14. CASE UNCHANGED vars
    BY <1>14 DEF vars, OneParse, OneRoot, ParseState, Top
  <1>15. QED
    BY <1>1, <1>2, <1>3, <1>4, <1>5, <1>6, <1>7, <1>8, <1>9, <1>10, <1>11,
       <1>13, <1>14 DEF Next

-----------------------------------------------------------------------------
(* When no callback parses, the invariant holds in every behaviour.        *)
THEOREM Invariant == ASSUME Resolvers = {} PROVE Spec => []IInv
  BY InitInv, NextInv, PTL DEF Spec

(* The static counters are the nesting of the parse that runs, and stay    *)
(* within the limits it was given, whatever earlier parses have left.      *)
THEOREM CountersCorrect ==
  ASSUME Resolvers = {} PROVE Spec => []CountersMatchNesting
  <1>1. IInv => CountersMatchNesting
    BY DEF IInv, OneParse, ParseState, CountersMatchNesting
  <1>2. QED
    BY <1>1, Invariant, PTL

(* Every document has one root node and at most one DTD node.              *)
THEOREM OneRootCorrect == ASSUME Resolvers = {} PROVE Spec => []OneRoot
  <1>1. IInv => OneRoot
    BY DEF IInv
  <1>2. QED
    BY <1>1, Invariant, PTL

(* A parse that succeeds leaves the validator and the entity mapper of its *)
(* own document in place.                                                  *)
THEOREM ParseBindsCorrect ==
  ASSUME Resolvers = {} PROVE Spec => ParseBindsValidator
  <1> DEFINE Binds == \A d \in Docs : EndParse /\ Top.doc = d =>
                        {validator', mapper'[d]} \ {NoDtd} = tree'[d].dtds
  <1>1. IInv /\ [Next]_vars => [Binds]_vars
    <2> SUFFICES ASSUME IInv, NEW d \in Docs, EndParse, Top.doc = d
                 PROVE  {validator', mapper'[d]} \ {NoDtd} = tree'[d].dtds
      OBVIOUS
    <2>1. ParseState(Top)
      BY OnlyCall DEF IInv, EndParse, At
    <2>2. tree'[d].dtds = Top.dtds /\ validator' = validator /\ mapper' = mapper
      BY DEF EndParse
    <2>3. QED
      BY <2>1, <2>2 DEF ParseState
  <1>2. QED
    BY <1>1, Invariant, PTL DEF Spec, ParseBindsValidator

-----------------------------------------------------------------------------
(* Callbacks that parse included: a call whose text is not in the body has *)
(* nothing open, whatever the calls above it did to the static members.    *)
NothingOpenOutsideBody ==
  \A i \in 1 .. Len(calls) : calls[i].stage # "body" => calls[i].open = <<>>

(* What pushing, replacing and popping a call does to the length and the   *)
(* other calls of the stack.                                               *)
LEMMA StackSteps ==
  ASSUME TypeOK
  PROVE  /\ Len(calls) \in Nat
         /\ calls # <<>> => Len(calls) \in Nat \ {0}
         /\ \A c : Len(Append(calls, c)) = Len(calls) + 1
         /\ \A c : \A i \in 1 .. Len(calls) : Append(calls, c)[i] = calls[i]
         /\ \A c : Append(calls, c)[Len(calls) + 1] = c
         /\ calls # <<>> =>
              /\ \A c : Len(Replace(c)) = Len(calls)
              /\ \A c : \A i \in 1 .. Len(calls) :
                   Replace(c)[i] = IF i = Len(calls) THEN c ELSE calls[i]
              /\ Len(Below) = Len(calls) - 1
              /\ \A i \in 1 .. Len(calls) - 1 : Below[i] = calls[i]
  <1> DEFINE L == Len(calls)
  <1>1. calls \in Seq(Call) /\ L \in Nat /\ (calls # <<>> => L \in Nat \ {0})
    BY DEF TypeOK
  <1>2. ASSUME NEW c
        PROVE  /\ Len(Append(calls, c)) = L + 1
               /\ \A i \in 1 .. L : Append(calls, c)[i] = calls[i]
               /\ Append(calls, c)[L + 1] = c
    BY <1>1
  <1>3. ASSUME calls # <<>>, NEW c
        PROVE  /\ Len(Replace(c)) = L
               /\ \A i \in 1 .. L : Replace(c)[i] = IF i = L THEN c ELSE calls[i]
    BY <1>1, <1>3 DEF Replace
  <1>4. ASSUME calls # <<>>
        PROVE  Len(Below) = L - 1 /\ \A i \in 1 .. L - 1 : Below[i] = calls[i]
    BY <1>1, <1>4 DEF Below
  <1>5. QED
    BY <1>1, <1>2, <1>3, <1>4

(* No step leaves a construct open in the prolog or in the epilog of a     *)
(* parse, at any depth of callbacks.                                       *)
LEMMA NextOpen ==
  ASSUME TypeOK, NothingOpenOutsideBody, [Next]_vars
  PROVE  NothingOpenOutsideBody'
  <1> DEFINE L == Len(calls)
  <1>1. ASSUME NEW d, NEW options, BeginParse(d, options) PROVE NothingOpenOutsideBody'
    <2> DEFINE new == [doc |-> d, opts |-> options, stage |-> "prolog",
                       open |-> <<>>, dtds |-> {}, roots |-> 0]
    <2>1. calls' = Append(calls, new) /\ new.open = <<>>
      BY <1>1 DEF BeginParse
    <2> HIDE DEF new
    <2>2. Len(calls') = L + 1 /\ calls'[L + 1] = new /\ \A i \in 1 .. L : calls'[i] = calls[i]
      BY <2>1, StackSteps
    <2>3. ASSUME NEW i \in 1 .. L + 1 PROVE i = L + 1 \/ i \in 1 .. L
      BY StackSteps
    <2>4. QED
      BY <2>1, <2>2, <2>3 DEF NothingOpenOutsideBody
  <1>2. ASSUME calls # <<>>, NEW c, calls' = Replace(c), c.stage # "body" => c.open = <<>>
        PROVE  NothingOpenOutsideBody'
    BY <1>2, StackSteps DEF NothingOpenOutsideBody
  <1>3. ASSUME calls # <<>>, calls' = Below PROVE NothingOpenOutsideBody'
    <2>1. Len(calls') = L - 1 /\ (\A i \in 1 .. L - 1 : calls'[i] = calls[i]) /\ L \in Nat
      BY <1>3, StackSteps
    <2>2. \A i \in 1 .. L - 1 : i \in 1 .. L
      BY <2>1
    <2>3. QED
      BY <2>1, <2>2 DEF NothingOpenOutsideBody
  <1>4. CASE UNCHANGED calls
    BY <1>4 DEF NothingOpenOutsideBody
  <1>5. calls # <<>> => /\ Top \in Call
                        /\ Top.stage # "body" => Top.open = <<>>
    BY StackType, StackSteps DEF TypeOK, Top, NothingOpenOutsideBody
  <1>6. ASSUME NEW dtd \in Dtds, Doctype(dtd) PROVE NothingOpenOutsideBody'
    <2> DEFINE call == [Top EXCEPT !.stage = "dtd", !.dtds = Top.dtds \cup {dtd}]
    <2>1. calls # <<>> /\ Top.stage = "prolog" /\ calls' = Replace(call)
      BY <1>6 DEF Doctype, At
    <2>2. call.open = <<>>
      BY <1>5, <2>1 DEF Call
    <2> HIDE DEF call
    <2>3. QED
      BY <1>2, <2>1, <2>2
  <1>7. CASE DoctypeEnd
    <2> DEFINE call == [Top EXCEPT !.stage = "prolog"]
    <2>1. calls # <<>> /\ Top.stage = "dtd" /\ calls' = Replace(call)
      BY <1>7 DEF DoctypeEnd, At
    <2>2. call.open = <<>>
      BY <1>5, <2>1 DEF Call
    <2> HIDE DEF call
    <2>3. QED
      BY <1>2, <2>1, <2>2
  <1>8. CASE StartTag
    <2> DEFINE call == [Top EXCEPT !.stage = "body", !.open = Append(Top.open, "element"),
                                   !.roots = IF hasRoot THEN Top.roots ELSE MoreRoots(Top.roots)]
    <2>1. calls # <<>> /\ calls' = Replace(call)
      BY <1>8 DEF StartTag, TagComes, At
    <2>2. call.stage = "body"
      BY <1>5, <2>1 DEF Call
    <2> HIDE DEF call
    <2>3. QED
      BY <1>2, <2>1, <2>2
  <1>9. CASE EmptyRootTag
    <2> DEFINE call == [Top EXCEPT !.stage = "epilog", !.roots = MoreRoots(Top.roots)]
    <2>1. calls # <<>> /\ Top.stage = "prolog" /\ calls' = Replace(call)
      BY <1>9 DEF EmptyRootTag, At
    <2>2. call.open = <<>>
      BY <1>5, <2>1 DEF Call
    <2> HIDE DEF call
    <2>3. QED
      BY <1>2, <2>1, <2>2
  <1>10. CASE EndTag
    <2> DEFINE call == [Top EXCEPT !.open = Leave(Top.open),
                                   !.stage = IF Len(Top.open) = 1 THEN "epilog" ELSE "body"]
    <2>1. calls # <<>> /\ calls' = Replace(call)
      BY <1>10 DEF EndTag, At
    <2>2. /\ call.stage = IF Len(Top.open) = 1 THEN "epilog" ELSE "body"
          /\ call.open = Leave(Top.open) /\ Top.open \in Seq(Construct)
      BY <1>5, <2>1 DEF Call
    <2>3. Len(Top.open) = 1 => Top.open # <<>> /\ Leave(Top.open) = <<>>
      BY <2>2, LeaveKeepsFirst
    <2> HIDE DEF call
    <2>4. QED
      BY <1>2, <2>1, <2>2, <2>3
  <1>11. ASSUME NEW kind \in {"entity", "inline"}, EntityReference(kind)
         PROVE  NothingOpenOutsideBody'
    <2> DEFINE call == [Top EXCEPT !.open = Append(Top.open, kind)]
    <2>1. calls # <<>> /\ Top.stage = "body" /\ calls' = Replace(call)
      BY <1>11 DEF EntityReference, ReferenceComes, At
    <2>2. call.stage = "body"
      BY <1>5, <2>1 DEF Call
    <2> HIDE DEF call
    <2>3. QED
      BY <1>2, <2>1, <2>2
  <1>12. CASE EntityEnd
    <2> DEFINE call == [Top EXCEPT !.open = Leave(Top.open)]
    <2>1. calls # <<>> /\ Top.stage = "body" /\ calls' = Replace(call)
      BY <1>12 DEF EntityEnd, At
    <2>2. call.stage = "body"
      BY <1>5, <2>1 DEF Call
    <2> HIDE DEF call
    <2>3. QED
      BY <1>2, <2>1, <2>2
  <1>13. CASE \/ EndParse \/ Malformed \/ WrongEndTag \/ SecondDoctype \/ TooDeep
              \/ TooManyExpansions
    BY <1>3, <1>13
    DEF EndParse, Malformed, WrongEndTag, SecondDoctype, TooDeep, TooManyExpansions,
        TagComes, ReferenceComes, At, Unwind
  <1>14. CASE (\E d \in Docs : Destroy(d)) \/ UNCHANGED vars
    BY <1>4, <1>14 DEF Destroy, vars
  <1>15. QED
    BY <1>1, <1>6, <1>7, <1>8, <1>9, <1>10, <1>11, <1>12, <1>13, <1>14
    DEF Next, Parse, ValidateXsd

(* A parse that throws, in a callback of whatever depth or outside of one, *)
(* leaves every document as it was: a tree is exchanged when the text of   *)
(* its own object has come to its end, or when its object is destroyed.    *)
THEOREM FailuresKeepTrees == Spec => FailedParseKeepsTree
  <1> DEFINE Inv == TypeOK /\ NothingOpenOutsideBody
  <1> DEFINE Keeps == \A d \in Docs : tree'[d] # tree[d] =>
                        \/ At("epilog") /\ Top.doc = d /\ Top.open = <<>>
                        \/ calls' = calls
  <1>1. Init => Inv
    <2>1. Init => NothingOpenOutsideBody
      <3> SUFFICES ASSUME Init PROVE NothingOpenOutsideBody
        OBVIOUS
      <3>1. 1 .. Len(calls) = {}
        BY EmptySeq DEF Init
      <3>2. QED
        BY <3>1 DEF NothingOpenOutsideBody
    <2>2. QED
      BY <2>1, InitType
  <1>2. Inv /\ [Next]_vars => Inv'
    BY NextType, NextOpen
  <1>3. Inv /\ [Next]_vars => [Keeps]_vars
    <2> SUFFICES ASSUME Inv, Next PROVE Keeps
      BY DEF vars
    <2>1. CASE EndParse
      <3>1. Top.open = <<>>
        BY <2>1, StackSteps DEF EndParse, At, Top, NothingOpenOutsideBody
      <3>2. \A d \in Docs : d # Top.doc => tree'[d] = tree[d]
        BY <2>1 DEF EndParse
      <3>3. QED
        BY <2>1, <3>1, <3>2 DEF EndParse
    <2>2. CASE \E d \in Docs : Destroy(d)
      BY <2>2 DEF Destroy
    <2>3. CASE UNCHANGED tree
      BY <2>3
    <2>4. QED
      BY <2>1, <2>2, <2>3
      DEF Next, Parse, ValidateXsd, BeginParse, Doctype, DoctypeEnd, StartTag, EmptyRootTag,
          EndTag, EntityReference, EntityEnd, Malformed, WrongEndTag, SecondDoctype, TooDeep,
          TooManyExpansions, Unwind
  <1> HIDE DEF Inv
  <1>4. QED
    BY <1>1, <1>2, <1>3, PTL DEF Spec, FailedParseKeepsTree

-----------------------------------------------------------------------------
(* One object on its own, with text that it accepts: the client of most    *)
(* programs that use the library.                                          *)
Alone == /\ \E d : Docs = {d}
         /\ Rejected = {} /\ Resolvers = {} /\ Validated = {}

(* Between two parses the validator refers to the DTD node of the tree, or *)
(* to none if the tree has none; no parse is ever left by an exception.    *)
TreeHasValidator ==
  /\ calls = <<>> => \A d \in Docs : tree[d] # NoTree => tree[d].dtds = {validator} \ {NoDtd}
  /\ calls # <<>> => Top.doc \in Docs

(* A document that the parser accepts takes none of the paths that throw.  *)
LEMMA NothingThrows ==
  ASSUME Alone, IInv, TreeHasValidator
  PROVE  ~(Malformed \/ WrongEndTag \/ SecondDoctype \/ TooDeep \/ TooManyExpansions)
  <1>1. ~Malformed /\ ~WrongEndTag /\ ~SecondDoctype
    BY DEF Alone, Malformed, WrongEndTag, SecondDoctype
  <1>2. CASE calls = <<>>
    BY <1>1, <1>2 DEF TooDeep, TooManyExpansions, TagComes, ReferenceComes, At
  <1>3. CASE calls # <<>>
    <2>1. ParseState(Top) /\ Top.open \in Seq(Construct)
      BY <1>3, OnlyCall DEF IInv
    <2>2. /\ Count(Top.open, {"element"}) \in Nat
          /\ Count(Top.open, {"entity", "inline"}) \in Nat
      BY <2>1, CountOpen
    <2>3. Top.opts.nesting \in Nat /\ Top.opts.expansion \in Nat
      BY <1>3, OnlyCall, ConstantsAssumption DEF IInv
    <2>4. ~TooDeep
      BY <2>1, <2>2, <2>3 DEF Alone, TooDeep, TagComes, ParseState
    <2>5. ~TooManyExpansions
      BY <2>1, <2>2, <2>3 DEF Alone, TooManyExpansions, ReferenceComes, ParseState
    <2>6. QED
      BY <1>1, <2>4, <2>5
  <1>4. QED
    BY <1>2, <1>3

(* The tree of the one object and the validator stay those of the same     *)
(* document.                                                               *)
LEMMA NextAlone ==
  ASSUME Alone, IInv, TreeHasValidator, [Next]_vars
  PROVE  TreeHasValidator'
  <1> TypeOK /\ OneParse /\ OneParse' /\ TypeOK'
    BY NextInv DEF IInv, Alone
  <1>1. ASSUME NEW d \in Docs, NEW options \in Options, Parse(d, options)
        PROVE  TreeHasValidator'
    <2> DEFINE new == [doc |-> d, opts |-> options, stage |-> "prolog",
                       open |-> <<>>, dtds |-> {}, roots |-> 0]
    <2>1. calls = <<>>
      BY <1>1 DEF Parse, ClientRuns, Alone
    <2>2. calls' = Append(calls, new) /\ new.doc = d
      BY <1>1 DEF Parse, BeginParse
    <2> HIDE DEF new
    <2>3. calls' = <<new>>
      BY <2>1, <2>2
    <2>4. calls' # <<>> /\ Top' = new
      BY <2>3 DEF Top
    <2>5. QED
      BY <2>2, <2>4 DEF TreeHasValidator
  <1>2. ~\E d \in Validated : ValidateXsd(d)
    BY DEF Alone
  <1>3. ASSUME NEW d \in Docs, Destroy(d) PROVE TreeHasValidator'
    <2>1. calls = <<>> /\ calls' = calls
      BY <1>3 DEF Destroy, ClientRuns, Alone
    <2>2. \A x \in Docs : tree'[x] = NoTree
      BY <1>3 DEF Destroy, TypeOK, Alone
    <2>3. QED
      BY <2>1, <2>2 DEF TreeHasValidator
  <1>4. ASSUME calls # <<>>, NEW c, calls' = Replace(c), c.doc = Top.doc
        PROVE  TreeHasValidator'
    <2>1. Len(calls') = 1 /\ Top' = c
      BY <1>4, OnlyCall
    <2>2. calls' # <<>>
      BY <2>1, EmptySeq
    <2>3. QED
      BY <1>4, <2>1, <2>2 DEF TreeHasValidator
  <1>5. calls # <<>> => Top \in Call
    BY OnlyCall
  <1>6. ASSUME NEW dtd \in Dtds, Doctype(dtd) PROVE TreeHasValidator'
    <2> DEFINE call == [Top EXCEPT !.stage = "dtd", !.dtds = Top.dtds \cup {dtd}]
    <2>1. calls # <<>> /\ calls' = Replace(call)
      BY <1>6 DEF Doctype, At
    <2>2. call.doc = Top.doc
      BY <1>5, <2>1 DEF Call
    <2> HIDE DEF call
    <2>3. QED
      BY <1>4, <2>1, <2>2
  <1>7. CASE DoctypeEnd
    <2> DEFINE call == [Top EXCEPT !.stage = "prolog"]
    <2>1. calls # <<>> /\ calls' = Replace(call)
      BY <1>7 DEF DoctypeEnd, At
    <2>2. call.doc = Top.doc
      BY <1>5, <2>1 DEF Call
    <2> HIDE DEF call
    <2>3. QED
      BY <1>4, <2>1, <2>2
  <1>8. CASE StartTag
    <2> DEFINE call == [Top EXCEPT !.stage = "body", !.open = Append(Top.open, "element"),
                                   !.roots = IF hasRoot THEN Top.roots ELSE MoreRoots(Top.roots)]
    <2>1. calls # <<>> /\ calls' = Replace(call)
      BY <1>8 DEF StartTag, TagComes, At
    <2>2. call.doc = Top.doc
      BY <1>5, <2>1 DEF Call
    <2> HIDE DEF call
    <2>3. QED
      BY <1>4, <2>1, <2>2
  <1>9. CASE EmptyRootTag
    <2> DEFINE call == [Top EXCEPT !.stage = "epilog", !.roots = MoreRoots(Top.roots)]
    <2>1. calls # <<>> /\ calls' = Replace(call)
      BY <1>9 DEF EmptyRootTag, At
    <2>2. call.doc = Top.doc
      BY <1>5, <2>1 DEF Call
    <2> HIDE DEF call
    <2>3. QED
      BY <1>4, <2>1, <2>2
  <1>10. CASE EndTag
    <2> DEFINE call == [Top EXCEPT !.open = Leave(Top.open),
                                   !.stage = IF Len(Top.open) = 1 THEN "epilog" ELSE "body"]
    <2>1. calls # <<>> /\ calls' = Replace(call)
      BY <1>10 DEF EndTag, At
    <2>2. call.doc = Top.doc
      BY <1>5, <2>1 DEF Call
    <2> HIDE DEF call
    <2>3. QED
      BY <1>4, <2>1, <2>2
  <1>11. ASSUME NEW kind \in {"entity", "inline"}, EntityReference(kind)
         PROVE  TreeHasValidator'
    <2> DEFINE call == [Top EXCEPT !.open = Append(Top.open, kind)]
    <2>1. calls # <<>> /\ calls' = Replace(call)
      BY <1>11 DEF EntityReference, ReferenceComes, At
    <2>2. call.doc = Top.doc
      BY <1>5, <2>1 DEF Call
    <2> HIDE DEF call
    <2>3. QED
      BY <1>4, <2>1, <2>2
  <1>12. CASE EntityEnd
    <2> DEFINE call == [Top EXCEPT !.open = Leave(Top.open)]
    <2>1. calls # <<>> /\ calls' = Replace(call)
      BY <1>12 DEF EntityEnd, At
    <2>2. call.doc = Top.doc
      BY <1>5, <2>1 DEF Call
    <2> HIDE DEF call
    <2>3. QED
      BY <1>4, <2>1, <2>2
  <1>13. CASE EndParse
    <2>1. calls # <<>> /\ calls' = Below /\ validator' = validator
      BY <1>13 DEF EndParse, At
    <2>2. calls' = <<>> /\ Top.dtds = {validator} \ {NoDtd} /\ Top.doc \in Docs
      BY <2>1, OnlyCall DEF ParseState, TreeHasValidator
    <2>3. \A d \in Docs : tree'[d].dtds = {validator'} \ {NoDtd}
      BY <1>13, <2>1, <2>2 DEF EndParse, Alone
    <2>4. QED
      BY <2>2, <2>3 DEF TreeHasValidator
  <1>14. CASE UNCHANGED vars
    BY <1>14 DEF vars, TreeHasValidator, Top
  <1>15. QED
    BY <1>1, <1>2, <1>3, <1>6, <1>7, <1>8, <1>9, <1>10, <1>11, <1>12, <1>13, <1>14,
       NothingThrows DEF Next

(* The one object, given documents it accepts, has a validator exactly for *)
(* the DTD of its tree.                                                    *)
THEOREM AloneInvariant == ASSUME Alone PROVE Spec => [](IInv /\ TreeHasValidator)
  <1>1. Init => IInv /\ TreeHasValidator
    <2>1. Init => TreeHasValidator
      BY DEF Init, TreeHasValidator
    <2>2. QED
      BY <2>1, InitInv
  <1>2. (IInv /\ TreeHasValidator) /\ [Next]_vars => (IInv /\ TreeHasValidator)'
    <2>1. Resolvers = {}
      BY DEF Alone
    <2>2. QED
      BY <2>1, NextInv, NextAlone
  <1>3. QED
    BY <1>1, <1>2, PTL DEF Spec

(* An object that is used on its own, with text that it accepts, is        *)
(* validated against the DTD that is embedded in its document, however     *)
(* often it parses, and whatever the options are.                          *)
THEOREM EmbeddedDtdCorrect == ASSUME Alone PROVE Spec => []EmbeddedDtdDecides
  <1>1. IInv /\ TreeHasValidator => EmbeddedDtdDecides
    BY DEF TreeHasValidator, EmbeddedDtdDecides
  <1>2. QED
    BY <1>1, AloneInvariant, PTL

(* validate() of an object on its own reads a DTD node that still exists.  *)
THEOREM LiveDtdCorrect == ASSUME Alone PROVE Spec => []ValidateReadsLiveDtd
  <1>1. IInv /\ TreeHasValidator => ValidateReadsLiveDtd
    BY DEF TreeHasValidator, ValidateReadsLiveDtd, InUse
  <1>2. QED
    BY <1>1, AloneInvariant, PTL
=============================================================================
