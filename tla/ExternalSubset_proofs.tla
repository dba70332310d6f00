------------------------ MODULE ExternalSubset_proofs ------------------------
(***************************************************************************)
(* Proofs about ExternalSubset, for every vocabulary and every pair of     *)
(* subsets: the state is well-typed.  Calls need room for one another, and  *)
(* nothing in the step that parses an included section asks for it: that    *)
(* there is room follows from where sections may be open (SectionsInBase).  *)
(***************************************************************************)
EXTENDS ExternalSubset, WellFoundedInduction, TLAPS

(* A text with no section in it.                                           *)
NoSections(text) == \A i \in DOMAIN text : text[i].kind # "open"

(* A call in progress at a depth of the stack: sections are open only in   *)
(* external content, an ignored one has collected nothing and none has     *)
(* collected another; only the call that the stack begins with meets any.  *)
SoundFrame(frame, depth) ==
    /\ frame \in Frames
    /\ frame.mode = "internal" => frame.sections = <<>>
    /\ \A j \in DOMAIN frame.sections :
          /\ ~frame.sections[j].including => frame.sections[j].collected = <<>>
          /\ NoSections(frame.sections[j].collected)
    /\ depth # 1 =>
          /\ frame.sections = <<>>
          /\ frame.mode = "external" => NoSections(frame.input)

(* The stack of calls.                                                     *)
StackSound(stack) ==
    /\ stack \in Seq(Frames) /\ Len(stack) \in 1 .. MaxFrames
    /\ \A i \in DOMAIN stack : SoundFrame(stack[i], i)

SectionsInBase == StackSound(frames)

(* And what has been declared.                                             *)
DeclaredSound ==
    /\ subset \in [internal : Seq(Vocabulary), external : Seq(Vocabulary)]
    /\ stage \in {"internal", "external"}
    /\ status \in {"parsing", "done", "error", "exhausted"}
    /\ elements \in [DOMAIN elements -> Specs] /\ attributes \subseteq DOMAIN elements
    /\ entities \in [DOMAIN entities -> Seq(Vocabulary)]

IInv == SectionsInBase /\ DeclaredSound

-----------------------------------------------------------------------------
(* Sequences and texts.                                                    *)

(* The least of some numbers; induction over texts rests on it.            *)
LEMMA Least ==
  ASSUME NEW T, T \subseteq Nat, T # {}
  PROVE  \E m \in T : \A n \in T : m <= n
  <1>1. PICK m \in T : \A n \in T : ~(<<n, m>> \in OpToRel(<, Nat))
    BY WFMin, NatLessThanWellFounded
  <1>2. \A n \in T : ~(n < m)
    BY <1>1 DEF OpToRel
  <1>3. QED
    BY <1>2

(* A sequence of texts, joined, is a text.                                 *)
LEMMA FlattenType ==
  ASSUME NEW S, NEW seqs \in Seq(Seq(S))
  PROVE  FlattenSeq(seqs) \in Seq(S)
  <1> DEFINE Step(f, i) == IF i = 1 THEN seqs[i] ELSE f[i - 1] \o seqs[i]
             Upto(k) == \E f : f = [i \in 1 .. k |-> Step(f, i)] /\ \A i \in 1 .. k : f[i] \in Seq(S)
             T == {k \in 1 .. Len(seqs) : ~Upto(k)}
  <1>1. CASE Len(seqs) = 0
    <2>1. seqs = <<>>
      BY <1>1
    <2>2. FlattenSeq(seqs) = <<>>
      BY <1>1, <2>1 DEF FlattenSeq
    <2>3. QED
      BY <2>2
  <1>2. CASE Len(seqs) # 0
    <2>1. T = {}
      <3> SUFFICES ASSUME T # {} PROVE FALSE
        OBVIOUS
      <3>1. PICK k \in T : \A j \in T : k <= j
        <4> HIDE DEF Upto
        <4>1. T \subseteq Nat
          OBVIOUS
        <4> HIDE DEF T
        <4>2. QED
          BY <4>1, Least
      <3>2. k \in 1 .. Len(seqs) /\ ~Upto(k) /\ \A j \in 1 .. Len(seqs) : ~Upto(j) => k <= j
        <4> HIDE DEF Upto
        <4>1. QED
          BY <3>1
      <3>21. k \in Nat /\ k >= 1 /\ k <= Len(seqs) /\ Len(seqs) \in Nat /\ seqs[k] \in Seq(S)
        BY <3>2
      <3>3. CASE k = 1
        <4> DEFINE f == [i \in 1 .. 1 |-> seqs[i]]
        <4>1. f = [i \in 1 .. 1 |-> Step(f, i)] /\ \A i \in 1 .. 1 : f[i] \in Seq(S)
          BY <3>2, <3>3
        <4>2. Upto(1)
          BY <4>1
        <4>3. QED
          BY <3>2, <3>3, <4>2
      <3>4. CASE k # 1
        <4>1. Upto(k - 1)
          <5> HIDE DEF Upto
          <5>1. k - 1 \in 1 .. Len(seqs)
            BY <3>21, <3>4
          <5>2. QED
            BY <3>2, <3>21, <5>1
        <4>2. PICK f : f = [i \in 1 .. (k - 1) |-> Step(f, i)] /\ \A i \in 1 .. (k - 1) : f[i] \in Seq(S)
          BY <4>1
        <4> DEFINE g == [i \in 1 .. k |-> IF i = k THEN f[k - 1] \o seqs[k] ELSE f[i]]
        <4>3. \A i \in 1 .. k : g[i] = Step(g, i)
          <5> SUFFICES ASSUME NEW i \in 1 .. k PROVE g[i] = Step(g, i)
            OBVIOUS
          <5>1. CASE i = k
            <6>1. g[k - 1] = f[k - 1] /\ g[k] = f[k - 1] \o seqs[k]
              <7>1. k \in 1 .. k /\ k - 1 \in 1 .. k /\ k - 1 # k
                BY <3>21, <3>4
              <7> HIDE DEF T
              <7>2. QED
                BY <7>1
            <6>2. QED
              BY <3>4, <5>1, <6>1
          <5>2. CASE i # k
            <6>1. i \in 1 .. (k - 1) /\ g[i] = f[i]
              BY <3>21, <5>2
            <6>2. f[i] = Step(f, i)
              <7> HIDE DEF Step
              <7>1. QED
                BY <4>2, <6>1
            <6>3. i # 1 => g[i - 1] = f[i - 1]
              BY <3>21, <6>1
            <6>4. Step(g, i) = Step(f, i)
              BY <6>3
            <6>5. QED
              BY <6>1, <6>2, <6>4
          <5>3. QED
            BY <5>1, <5>2
        <4>4. g = [i \in 1 .. k |-> Step(g, i)]
          <5> HIDE DEF Step
          <5>1. QED
            BY <4>3
        <4>5. \A i \in 1 .. k : g[i] \in Seq(S)
          <5>1. f[k - 1] \in Seq(S)
            BY <3>21, <3>4, <4>2
          <5>2. f[k - 1] \o seqs[k] \in Seq(S)
            BY <3>21, <5>1
          <5>3. QED
            BY <3>21, <4>2, <5>2
        <4>6. QED
          BY <3>2, <4>4, <4>5
      <3>5. QED
        BY <3>3, <3>4
    <2>2. Upto(Len(seqs)) /\ Len(seqs) \in 1 .. Len(seqs)
      <3> HIDE DEF Upto
      <3>1. Len(seqs) \in 1 .. Len(seqs)
        BY <1>2
      <3>2. QED
        BY <2>1, <3>1
    <2> DEFINE flatten == CHOOSE f : f = [i \in 1 .. Len(seqs) |-> Step(f, i)]
    <2>3. FlattenSeq(seqs) = flatten[Len(seqs)]
      BY <1>2 DEF FlattenSeq
    <2>4. PICK h : h = [i \in 1 .. Len(seqs) |-> Step(h, i)] /\ \A i \in 1 .. Len(seqs) : h[i] \in Seq(S)
      BY <2>2
    <2>5. flatten = [i \in 1 .. Len(seqs) |-> Step(flatten, i)]
      <3> HIDE DEF Step
      <3>1. QED
        BY <2>4
    <2>6. \A i \in 1 .. Len(seqs) : flatten[i] \in Seq(S)
      <3> DEFINE U == {i \in 1 .. Len(seqs) : flatten[i] \notin Seq(S)}
      <3> SUFFICES ASSUME U # {} PROVE FALSE
        OBVIOUS
      <3>1. PICK k \in U : \A j \in U : k <= j
        <4> HIDE DEF flatten
        <4>1. U \subseteq Nat
          OBVIOUS
        <4> HIDE DEF U
        <4>2. QED
          BY <4>1, Least
      <3> HIDE DEF flatten
      <3>2. flatten[k] = Step(flatten, k)
        <4> HIDE DEF Step
        <4>1. QED
          BY <2>5, <3>1
      <3>3. k # 1
        BY <3>1, <3>2
      <3>4. k - 1 \in 1 .. Len(seqs) /\ k - 1 \notin U
        BY <3>1, <3>3
      <3>5. flatten[k - 1] \in Seq(S) /\ seqs[k] \in Seq(S)
        BY <3>1, <3>4
      <3>6. flatten[k] = flatten[k - 1] \o seqs[k]
        BY <3>2, <3>3
      <3>7. flatten[k] \in Seq(S)
        BY <3>5, <3>6
      <3>8. QED
        BY <3>1, <3>7
    <2>7. QED
      BY <2>2, <2>3, <2>6
  <1>3. QED
    BY <1>1, <1>2

(* The members of the sets of records.                                     *)
LEMMA FrameType ==
  ASSUME NEW mode \in {"internal", "external"}, NEW input \in Seq(Vocabulary),
         NEW sections \in Seq(OpenSections)
  PROVE  [mode |-> mode, input |-> input, sections |-> sections] \in Frames
  BY DEF Frames

(* The fields of a call, and what replacing one of them leaves.            *)
LEMMA FrameFields ==
  ASSUME NEW frame \in Frames
  PROVE  /\ frame.mode \in {"internal", "external"}
         /\ frame.input \in Seq(Vocabulary) /\ frame.sections \in Seq(OpenSections)
         /\ \A input : [frame EXCEPT !.input = input] =
                         [mode |-> frame.mode, input |-> input, sections |-> frame.sections]
         /\ \A sections : [frame EXCEPT !.sections = sections] =
                            [mode |-> frame.mode, input |-> frame.input, sections |-> sections]
  <1>1. /\ frame.mode \in {"internal", "external"}
        /\ frame.input \in Seq(Vocabulary) /\ frame.sections \in Seq(OpenSections)
    BY DEF Frames
  <1>2. ASSUME NEW input
        PROVE  [frame EXCEPT !.input = input] =
                  [mode |-> frame.mode, input |-> input, sections |-> frame.sections]
    BY DEF Frames
  <1>3. ASSUME NEW sections
        PROVE  [frame EXCEPT !.sections = sections] =
                  [mode |-> frame.mode, input |-> frame.input, sections |-> sections]
    BY DEF Frames
  <1>4. QED
    BY <1>1, <1>2, <1>3

(* The fields of a section, and what collecting more leaves.               *)
LEMMA SectionFields ==
  ASSUME NEW section \in OpenSections
  PROVE  /\ section.including \in BOOLEAN /\ section.collected \in Seq(Vocabulary)
         /\ \A text \in Seq(Vocabulary) :
              LET after == [section EXCEPT !.collected = text]
              IN  /\ after \in OpenSections
                  /\ after.including = section.including /\ after.collected = text
  BY DEF OpenSections

(* What is left of a text is a text, and holds no section if it held none. *)
LEMMA TailText ==
  ASSUME NEW text \in Seq(Vocabulary), text # <<>>
  PROVE  /\ Head(text) \in Vocabulary /\ Tail(text) \in Seq(Vocabulary)
         /\ NoSections(text) => Head(text).kind # "open" /\ NoSections(Tail(text))
  BY DEF NoSections

(* translate gives a text for a text.                                      *)
LEMMA TranslatedType ==
  ASSUME NEW text \in Seq(Vocabulary), entities \in [DOMAIN entities -> Seq(Vocabulary)]
  PROVE  Translated(text) \in Seq(Vocabulary)
  <1> DEFINE texts == [i \in DOMAIN text |-> Replacement(text[i])]
  <1>1. \A i \in 1 .. Len(text) : Replacement(text[i]) \in Seq(Vocabulary)
    BY DEF Replacement
  <1>2. DOMAIN text = 1 .. Len(text) /\ Len(text) \in Nat
    OBVIOUS
  <1>3. texts \in Seq(Seq(Vocabulary))
    <2> HIDE DEF Replacement
    <2>1. texts \in [1 .. Len(text) -> Seq(Vocabulary)]
      BY <1>1, <1>2
    <2>2. QED
      BY <1>2, <2>1
  <1>4. QED
    BY <1>3, FlattenType DEF Translated

(* And so the body of a declaration is a text, wherever it is.             *)
LEMMA BodyType ==
  ASSUME NEW mode, NEW text \in Seq(Vocabulary), entities \in [DOMAIN entities -> Seq(Vocabulary)]
  PROVE  Body(mode, text) \in Seq(Vocabulary)
  BY TranslatedType DEF Body

-----------------------------------------------------------------------------
(* The stack of calls.                                                     *)

(* What holds of the call in progress while a token is before it.          *)
LEMMA TopIsSound ==
  ASSUME IInv
  PROVE  /\ Len(frames) \in Nat \ {0} /\ Top \in Frames /\ SoundFrame(Top, Len(frames))
         /\ Reading => /\ Token \in Vocabulary /\ SoundFrame(Consumed, Len(frames))
                       /\ Len(frames) # 1 /\ Top.mode = "external" => Token.kind # "open"
  <1>1. Len(frames) \in Nat \ {0} /\ Len(frames) \in DOMAIN frames /\ Top = frames[Len(frames)]
    BY DEF IInv, SectionsInBase, StackSound, Top, Last
  <1>2. SoundFrame(Top, Len(frames))
    BY <1>1 DEF IInv, SectionsInBase, StackSound
  <1>3. Top \in Frames
    BY <1>2 DEF SoundFrame
  <1>4. ASSUME Reading
        PROVE  /\ Token \in Vocabulary /\ SoundFrame(Consumed, Len(frames))
               /\ Len(frames) # 1 /\ Top.mode = "external" => Token.kind # "open"
    <2>1. Top.input \in Seq(Vocabulary) /\ Top.input # <<>>
      BY <1>3, <1>4, FrameFields DEF Reading
    <2>2. /\ Token \in Vocabulary /\ Tail(Top.input) \in Seq(Vocabulary)
          /\ NoSections(Top.input) => Token.kind # "open" /\ NoSections(Tail(Top.input))
      BY <2>1, TailText DEF Token
    <2>3. Consumed = [mode |-> Top.mode, input |-> Tail(Top.input), sections |-> Top.sections]
      BY <1>3, FrameFields DEF Consumed
    <2>4. Consumed \in Frames
      BY <1>3, <2>2, <2>3, FrameFields, FrameType
    <2>5. Consumed.mode = Top.mode /\ Consumed.input = Tail(Top.input) /\ Consumed.sections = Top.sections
      BY <2>3
    <2>6. SoundFrame(Consumed, Len(frames))
      BY <1>2, <2>2, <2>4, <2>5 DEF SoundFrame
    <2>7. QED
      BY <1>2, <2>2, <2>6 DEF SoundFrame
  <1>5. QED
    BY <1>1, <1>2, <1>3, <1>4

(* A step changes the stack in one of three ways: the call in progress     *)
(* goes on, makes another, or returns.                                     *)
LEMMA GoesOn ==
  ASSUME NEW stack, StackSound(stack), NEW frame, SoundFrame(frame, Len(stack))
  PROVE  /\ StackSound(ReplaceAt(stack, Len(stack), frame))
         /\ Len(ReplaceAt(stack, Len(stack), frame)) = Len(stack)
  <1> DEFINE next == ReplaceAt(stack, Len(stack), frame)
  <1>1. frame \in Frames
    BY DEF SoundFrame
  <1>2. stack \in Seq(Frames) /\ Len(stack) \in 1 .. MaxFrames /\ DOMAIN stack = 1 .. Len(stack)
    BY DEF StackSound
  <1>3. next \in Seq(Frames) /\ Len(next) = Len(stack) /\ DOMAIN next = DOMAIN stack
    BY <1>1, <1>2 DEF ReplaceAt
  <1>4. \A i \in DOMAIN stack : next[i] = IF i = Len(stack) THEN frame ELSE stack[i]
    BY <1>2 DEF ReplaceAt
  <1>5. \A i \in DOMAIN stack : SoundFrame(stack[i], i)
    BY DEF StackSound
  <1> HIDE DEF next
  <1>6. \A i \in DOMAIN next : SoundFrame(next[i], i)
    BY <1>3, <1>4, <1>5
  <1>7. StackSound(next)
    BY <1>2, <1>3, <1>6 DEF StackSound
  <1>8. QED
    BY <1>3, <1>7 DEF next

(* A call within the room for calls.                                       *)
LEMMA Calls ==
  ASSUME NEW stack, StackSound(stack), Len(stack) < MaxFrames,
         NEW callee, SoundFrame(callee, Len(stack) + 1)
  PROVE  StackSound(Append(stack, callee))
  <1> DEFINE next == Append(stack, callee)
  <1>1. callee \in Frames
    BY DEF SoundFrame
  <1>2. /\ stack \in Seq(Frames) /\ Len(stack) \in 1 .. MaxFrames
        /\ \A i \in DOMAIN stack : SoundFrame(stack[i], i)
    BY DEF StackSound
  <1>3. /\ next \in Seq(Frames) /\ Len(next) = Len(stack) + 1
        /\ \A i \in DOMAIN next : i \in DOMAIN stack \/ i = Len(stack) + 1
        /\ \A i \in DOMAIN stack : next[i] = stack[i]
        /\ next[Len(stack) + 1] = callee
    BY <1>1, <1>2
  <1>4. Len(next) \in 1 .. MaxFrames
    BY <1>2, <1>3, MaxFramesAssumption
  <1> HIDE DEF next
  <1>5. \A i \in DOMAIN next : SoundFrame(next[i], i)
    BY <1>2, <1>3
  <1>6. StackSound(next)
    BY <1>3, <1>4, <1>5 DEF StackSound
  <1>7. QED
    BY <1>6 DEF next

(* The end of a call.                                                      *)
LEMMA Returns ==
  ASSUME NEW stack, StackSound(stack), Len(stack) > 1
  PROVE  StackSound(Front(stack))
  <1> DEFINE next == Front(stack)
  <1>1. /\ stack \in Seq(Frames) /\ Len(stack) \in 1 .. MaxFrames
        /\ \A i \in DOMAIN stack : SoundFrame(stack[i], i)
    BY DEF StackSound
  <1>2. /\ next \in Seq(Frames) /\ Len(next) = Len(stack) - 1
        /\ \A i \in DOMAIN next : i \in DOMAIN stack /\ next[i] = stack[i]
    BY <1>1 DEF Front
  <1>3. Len(next) \in 1 .. MaxFrames
    BY <1>1, <1>2, MaxFramesAssumption
  <1> HIDE DEF next
  <1>4. \A i \in DOMAIN next : SoundFrame(next[i], i)
    BY <1>1, <1>2
  <1>5. StackSound(next)
    BY <1>2, <1>3, <1>4 DEF StackSound
  <1>6. QED
    BY <1>5 DEF next

(* A call begins with no section open.                                     *)
LEMMA CallBegins ==
  ASSUME NEW mode \in {"internal", "external"}, NEW text \in Seq(Vocabulary), NEW depth,
         depth = 1 \/ mode = "internal" \/ NoSections(text)
  PROVE  SoundFrame(Frame(mode, text), depth)
  <1>1. <<>> \in Seq(OpenSections) /\ DOMAIN <<>> = {}
    OBVIOUS
  <1>2. Frame(mode, text) \in Frames
    BY <1>1, FrameType DEF Frame
  <1>3. /\ Frame(mode, text).mode = mode /\ Frame(mode, text).input = text
        /\ Frame(mode, text).sections = <<>>
    BY DEF Frame
  <1>4. QED
    BY <1>1, <1>2, <1>3 DEF SoundFrame

(* Sections are opened, filled and closed in the call that the stack       *)
(* begins with.                                                            *)
SoundSections(sections) ==
    /\ sections \in Seq(OpenSections)
    /\ \A j \in DOMAIN sections :
          /\ ~sections[j].including => sections[j].collected = <<>>
          /\ NoSections(sections[j].collected)

(* A token that changes the sections of that call.                         *)
LEMMA SectionsChange ==
  ASSUME IInv, Reading, Top.mode = "external", Len(frames) = 1,
         NEW sections, SoundSections(sections)
  PROVE  SoundFrame(WithSections(sections), Len(frames))
  <1>1. Top \in Frames /\ SoundFrame(Consumed, Len(frames))
    BY TopIsSound
  <1>2. sections \in Seq(OpenSections)
    BY DEF SoundSections
  <1>3. WithSections(sections) = [mode |-> Top.mode, input |-> Tail(Top.input), sections |-> sections]
    <2>1. Consumed = [mode |-> Top.mode, input |-> Tail(Top.input), sections |-> Top.sections]
      BY <1>1, FrameFields DEF Consumed
    <2>2. WithSections(sections) =
             [mode |-> Consumed.mode, input |-> Consumed.input, sections |-> sections]
      BY <1>1, FrameFields DEF WithSections, SoundFrame
    <2>3. QED
      BY <2>1, <2>2
  <1>4. Tail(Top.input) \in Seq(Vocabulary)
    BY <1>1, FrameFields, TailText DEF Reading
  <1>5. WithSections(sections) \in Frames
    <2>1. Top.mode \in {"internal", "external"}
      OBVIOUS
    <2>2. QED
      BY <1>2, <1>3, <1>4, <2>1, FrameType
  <1>6. WithSections(sections).mode = "external" /\ WithSections(sections).sections = sections
    BY <1>3
  <1>7. QED
    BY <1>5, <1>6 DEF SoundFrame, SoundSections

(* An open section is one of the call that the stack begins with.          *)
LEMMA SectionsOfBase ==
  ASSUME IInv
  PROVE  /\ SoundSections(Top.sections)
         /\ ~Outside => /\ Len(frames) = 1 /\ Top.mode = "external"
                        /\ Inside \in OpenSections /\ NoSections(Inside.collected)
                        /\ ~Inside.including => Inside.collected = <<>>
                        /\ SoundSections(Front(Top.sections))
  <1>1. Top \in Frames /\ SoundFrame(Top, Len(frames))
    BY TopIsSound
  <1>2. Top.sections \in Seq(OpenSections) /\ Top.mode \in {"internal", "external"}
    BY <1>1, FrameFields
  <1>3. SoundSections(Top.sections)
    BY <1>1, <1>2 DEF SoundFrame, SoundSections
  <1>4. ASSUME ~Outside
        PROVE  /\ Len(frames) = 1 /\ Top.mode = "external"
               /\ Inside \in OpenSections /\ NoSections(Inside.collected)
               /\ ~Inside.including => Inside.collected = <<>>
               /\ SoundSections(Front(Top.sections))
    <2>1. Len(frames) = 1 /\ Top.mode = "external"
      BY <1>1, <1>2, <1>4 DEF SoundFrame, Outside
    <2> DEFINE sections == Top.sections
    <2>2. /\ Len(sections) \in DOMAIN sections /\ Inside = sections[Len(sections)]
          /\ Inside \in OpenSections
      BY <1>2, <1>4 DEF Outside, Inside, Last
    <2>3. NoSections(Inside.collected) /\ (~Inside.including => Inside.collected = <<>>)
      BY <1>3, <2>2 DEF SoundSections
    <2>4. /\ Front(sections) \in Seq(OpenSections)
          /\ \A j \in DOMAIN Front(sections) : j \in DOMAIN sections /\ Front(sections)[j] = sections[j]
      BY <1>2, <1>4 DEF Outside, Front
    <2>5. SoundSections(Front(sections))
      <3> HIDE DEF sections
      <3>1. SoundSections(sections)
        BY <1>3 DEF sections
      <3>2. QED
        BY <2>4, <3>1 DEF SoundSections
    <2>6. QED
      BY <2>1, <2>2, <2>3, <2>5
  <1>5. QED
    BY <1>3, <1>4

(* A sound section after sound sections.                                   *)
LEMMA SectionBegins ==
  ASSUME NEW sections, SoundSections(sections), NEW section \in OpenSections,
         NoSections(section.collected), ~section.including => section.collected = <<>>
  PROVE  SoundSections(Append(sections, section))
  <1> DEFINE next == Append(sections, section)
  <1>1. /\ sections \in Seq(OpenSections)
        /\ \A j \in DOMAIN sections :
              /\ ~sections[j].including => sections[j].collected = <<>>
              /\ NoSections(sections[j].collected)
    BY DEF SoundSections
  <1>2. /\ next \in Seq(OpenSections)
        /\ \A j \in DOMAIN next : \/ j \in DOMAIN sections /\ next[j] = sections[j]
                                  \/ next[j] = section
    BY <1>1
  <1> HIDE DEF next
  <1>3. SoundSections(next)
    BY <1>1, <1>2 DEF SoundSections
  <1>4. QED
    BY <1>3 DEF next

-----------------------------------------------------------------------------
(* Every step keeps what holds of the stack.                               *)

(* A token is passed over by the call in progress.                         *)
LEMMA AdvanceSound ==
  ASSUME IInv, Reading, Advance
  PROVE  SectionsInBase'
  <1>1. StackSound(frames)
    BY DEF IInv, SectionsInBase
  <1>2. SoundFrame(Consumed, Len(frames))
    BY TopIsSound
  <1>3. StackSound(frames')
    BY <1>1, <1>2, GoesOn DEF Advance
  <1>4. QED
    BY <1>3 DEF SectionsInBase

(* The invariant holds when the internal subset is about to be read.       *)
LEMMA InitInv == Init => IInv
  <1> SUFFICES ASSUME Init PROVE IInv
    OBVIOUS
  <1>1. PICK family \in Families :
          \E i \in family.internal, e \in family.external :
              subset = [internal |-> i, external |-> e]
    BY DEF Init
  <1>2. PICK i \in family.internal, e \in family.external :
          subset = [internal |-> i, external |-> e]
    BY <1>1
  <1>3. i \in Seq(Vocabulary) /\ e \in Seq(Vocabulary)
    BY FamiliesAssumption
  <1>4. subset \in [internal : Seq(Vocabulary), external : Seq(Vocabulary)] /\ subset.internal = i
    BY <1>2, <1>3
  <1> DEFINE base == Frame("internal", subset.internal)
  <1>5. SoundFrame(base, 1) /\ frames = <<base>>
    BY <1>3, <1>4, CallBegins DEF Init
  <1>6. StackSound(frames)
    <2> HIDE DEF base
    <2>1. base \in Frames
      BY <1>5 DEF SoundFrame
    <2>2. frames \in Seq(Frames) /\ Len(frames) = 1 /\ DOMAIN frames = {1} /\ frames[1] = base
      BY <1>5, <2>1
    <2>3. QED
      BY <1>5, <2>2, MaxFramesAssumption DEF StackSound
  <1>7. DeclaredSound
    BY <1>4 DEF Init, DeclaredSound
  <1>8. QED
    BY <1>6, <1>7 DEF IInv, SectionsInBase

(* The state is well-typed where the invariant holds.                      *)
LEMMA InvType == IInv => TypeOK
  <1> SUFFICES ASSUME IInv PROVE TypeOK
    OBVIOUS
  <1>1. \A i \in DOMAIN frames :
          /\ frames[i].mode = "internal" => frames[i].sections = <<>>
          /\ \A j \in DOMAIN frames[i].sections :
                ~frames[i].sections[j].including => frames[i].sections[j].collected = <<>>
    BY DEF IInv, SectionsInBase, StackSound, SoundFrame
  <1>2. QED
    BY <1>1 DEF IInv, SectionsInBase, StackSound, DeclaredSound, TypeOK

(* Every step keeps the invariant.  An included section is parsed by the   *)
(* second call of the stack, which has room for two.                       *)
LEMMA NextInv == IInv /\ [Next]_vars => IInv'
  <1> SUFFICES ASSUME IInv, [Next]_vars PROVE IInv'
    OBVIOUS
  <1>0. StackSound(frames) /\ DeclaredSound
    BY DEF IInv, SectionsInBase
  <1>1. CASE DeclareElement
    <2>1. SectionsInBase'
      BY <1>1, AdvanceSound DEF DeclareElement
    <2>2. PICK w \in Specs : Body(Top.mode, Token.spec) = <<Word(w)>>
      BY <1>1 DEF DeclareElement, LegalHere, IsSpecification
    <2>3. Head(Body(Top.mode, Token.spec)).word = w
      BY <2>2 DEF Word
    <2>4. elements' = [name \in DOMAIN elements \union {Token.name} |->
                         IF name \in DOMAIN elements THEN elements[name] ELSE w]
      BY <1>1, <2>3 DEF DeclareElement
    <2>5. elements' \in [DOMAIN elements' -> Specs] /\ DOMAIN elements \subseteq DOMAIN elements'
      BY <1>0, <2>4 DEF DeclaredSound
    <2>6. DeclaredSound'
      BY <1>0, <1>1, <2>5 DEF DeclaredSound, DeclareElement
    <2>7. QED
      BY <2>1, <2>6 DEF IInv
  <1>2. CASE DeclareAttributes
    <2>1. SectionsInBase'
      BY <1>2, AdvanceSound DEF DeclareAttributes
    <2>2. Token.name \in DOMAIN elements
      BY <1>2 DEF DeclareAttributes, LegalHere
    <2>3. DeclaredSound'
      BY <1>0, <1>2, <2>2 DEF DeclaredSound, DeclareAttributes
    <2>4. QED
      BY <2>1, <2>3 DEF IInv
  <1>3. CASE DeclareEntity
    <2>1. SectionsInBase'
      BY <1>3, AdvanceSound DEF DeclareEntity
    <2>2. Token.text \in Seq(Vocabulary)
      BY <1>3, TopIsSound, VocabularyAssumption DEF DeclareEntity
    <2>3. Body(Top.mode, Token.text) \in Seq(Vocabulary)
      BY <1>0, <2>2, BodyType DEF DeclaredSound
    <2> DEFINE text == Body(Top.mode, Token.text)
    <2>4. entities' = [name \in DOMAIN entities \union {Token.name} |->
                         IF name = Token.name THEN text ELSE entities[name]]
      BY <1>3 DEF DeclareEntity
    <2> HIDE DEF text
    <2>5. entities' \in [DOMAIN entities' -> Seq(Vocabulary)]
      BY <1>0, <2>3, <2>4 DEF DeclaredSound, text
    <2>6. DeclaredSound'
      BY <1>0, <1>3, <2>5 DEF DeclaredSound, DeclareEntity
    <2>7. QED
      BY <2>1, <2>6 DEF IInv
  <1>4. CASE SkipComment
    <2>1. SectionsInBase'
      BY <1>4, AdvanceSound DEF SkipComment
    <2>2. DeclaredSound'
      BY <1>0, <1>4 DEF DeclaredSound, SkipComment
    <2>3. QED
      BY <2>1, <2>2 DEF IInv
  <1>5. CASE Reference
    <2>1. Reading /\ Len(frames) < MaxFrames
      BY <1>5 DEF Reference
    <2> DEFINE callee == Frame("internal", Translated(<<Token>>))
               waiting == ReplaceAt(frames, Len(frames), Consumed)
    <2>2. Translated(<<Token>>) \in Seq(Vocabulary)
      <3>1. <<Token>> \in Seq(Vocabulary)
        BY <2>1, TopIsSound
      <3>2. QED
        BY <1>0, <3>1, TranslatedType DEF DeclaredSound
    <2>3. SoundFrame(callee, Len(frames) + 1)
      BY <2>2, CallBegins
    <2>4. StackSound(waiting) /\ Len(waiting) = Len(frames)
      BY <1>0, <2>1, TopIsSound, GoesOn
    <2>5. frames' = Append(waiting, callee)
      BY <1>5 DEF Reference, Call
    <2> HIDE DEF callee, waiting
    <2>6. SectionsInBase'
      BY <2>1, <2>3, <2>4, <2>5, Calls DEF SectionsInBase
    <2>7. DeclaredSound'
      BY <1>0, <1>5 DEF DeclaredSound, Reference
    <2>8. QED
      BY <2>6, <2>7 DEF IInv
  <1>6. CASE Exhaust
    <2>1. SectionsInBase'
      BY <1>0, <1>6 DEF SectionsInBase, Exhaust
    <2>2. DeclaredSound'
      BY <1>0, <1>6 DEF DeclaredSound, Exhaust
    <2>3. QED
      BY <2>1, <2>2 DEF IInv
  <1>7. CASE OpenSection
    <2>1. Reading /\ Token.kind = "open" /\ MayOpen
      BY <1>7 DEF OpenSection
    <2>2. Top.mode = "external" /\ Len(frames) = 1
      BY <2>1, SectionsOfBase, TopIsSound DEF MayOpen
    <2> DEFINE section == Section(SectionKind(Token) = "INCLUDE")
    <2>3. section \in OpenSections /\ section.collected = <<>>
      <3>1. <<>> \in Seq(Vocabulary) /\ (SectionKind(Token) = "INCLUDE") \in BOOLEAN
        OBVIOUS
      <3>2. \A b \in BOOLEAN : Section(b) \in OpenSections /\ Section(b).collected = <<>>
        BY <3>1 DEF Section, OpenSections
      <3>3. QED
        BY <3>1, <3>2
    <2>4. NoSections(section.collected)
      BY <2>3 DEF NoSections
    <2>5. frames' = ReplaceAt(frames, Len(frames), WithSections(Append(Top.sections, section)))
      BY <1>7 DEF OpenSection
    <2> HIDE DEF section
    <2>6. SoundSections(Append(Top.sections, section))
      BY <2>3, <2>4, SectionsOfBase, SectionBegins
    <2>7. SoundFrame(WithSections(Append(Top.sections, section)), Len(frames))
      BY <2>1, <2>2, <2>6, SectionsChange
    <2>8. SectionsInBase'
      BY <1>0, <2>5, <2>7, GoesOn DEF SectionsInBase
    <2>9. DeclaredSound'
      BY <1>0, <1>7 DEF DeclaredSound, OpenSection
    <2>10. QED
      BY <2>8, <2>9 DEF IInv
  <1>8. CASE Collect
    <2>1. Reading /\ ~Outside /\ Token.kind # "open" /\ Token \in Vocabulary
      BY <1>8, TopIsSound DEF Collect
    <2>2. /\ Len(frames) = 1 /\ Top.mode = "external"
          /\ Inside \in OpenSections /\ NoSections(Inside.collected)
          /\ ~Inside.including => Inside.collected = <<>>
          /\ SoundSections(Front(Top.sections))
      BY <2>1, SectionsOfBase
    <2> DEFINE after == Collected(Inside, Token)
    <2>3. /\ after \in OpenSections /\ NoSections(after.collected)
          /\ ~after.including => after.collected = <<>>
      <3>1. CASE Inside.including
        <4> DEFINE text == Append(Inside.collected, Token)
        <4>1. Inside.collected \in Seq(Vocabulary)
          BY <2>2, SectionFields
        <4>2. text \in Seq(Vocabulary) /\ NoSections(text)
          BY <2>1, <2>2, <4>1 DEF NoSections
        <4>3. after = [Inside EXCEPT !.collected = text]
          BY <3>1 DEF Collected
        <4> HIDE DEF after, text
        <4>4. after \in OpenSections /\ after.including = Inside.including /\ after.collected = text
          BY <2>2, <4>2, <4>3, SectionFields
        <4>5. QED
          BY <3>1, <4>2, <4>4
      <3>2. CASE ~Inside.including
        BY <2>2, <3>2 DEF Collected
      <3>3. QED
        BY <3>1, <3>2
    <2>4. frames' = ReplaceAt(frames, Len(frames), WithSections(Append(Front(Top.sections), after)))
      BY <1>8 DEF Collect
    <2> HIDE DEF after
    <2>5. SoundSections(Append(Front(Top.sections), after))
      BY <2>2, <2>3, SectionBegins
    <2>6. SoundFrame(WithSections(Append(Front(Top.sections), after)), Len(frames))
      BY <2>1, <2>2, <2>5, SectionsChange
    <2>7. SectionsInBase'
      BY <1>0, <2>4, <2>6, GoesOn DEF SectionsInBase
    <2>8. DeclaredSound'
      BY <1>0, <1>8 DEF DeclaredSound, Collect
    <2>9. QED
      BY <2>7, <2>8 DEF IInv
  <1>9. CASE CloseIncluded
    <2>1. Reading /\ ~Outside
      BY <1>9 DEF CloseIncluded
    <2>2. /\ Len(frames) = 1 /\ Top.mode = "external"
          /\ Inside.collected \in Seq(Vocabulary) /\ NoSections(Inside.collected)
          /\ SoundSections(Front(Top.sections))
      BY <2>1, SectionsOfBase, SectionFields
    <2> DEFINE callee == Frame("external", Inside.collected)
               waiting == ReplaceAt(frames, Len(frames), WithSections(Front(Top.sections)))
    <2>3. SoundFrame(callee, Len(frames) + 1)
      BY <2>2, CallBegins
    <2>4. SoundFrame(WithSections(Front(Top.sections)), Len(frames))
      BY <2>1, <2>2, SectionsChange
    <2>5. StackSound(waiting) /\ Len(waiting) = Len(frames)
      BY <1>0, <2>4, GoesOn
    <2>6. frames' = Append(waiting, callee)
      BY <1>9 DEF CloseIncluded, Call
    <2>7. Len(frames) < MaxFrames
      BY <2>2, MaxFramesAssumption
    <2> HIDE DEF callee, waiting
    <2>8. SectionsInBase'
      BY <2>3, <2>5, <2>6, <2>7, Calls DEF SectionsInBase
    <2>9. DeclaredSound'
      BY <1>0, <1>9 DEF DeclaredSound, CloseIncluded
    <2>10. QED
      BY <2>8, <2>9 DEF IInv
  <1>10. CASE CloseIgnored
    <2>1. Reading /\ ~Outside
      BY <1>10 DEF CloseIgnored
    <2>2. SoundFrame(WithSections(Front(Top.sections)), Len(frames))
      BY <2>1, SectionsOfBase, SectionsChange
    <2>3. SectionsInBase'
      BY <1>0, <1>10, <2>2, GoesOn DEF SectionsInBase, CloseIgnored
    <2>4. DeclaredSound'
      BY <1>0, <1>10 DEF DeclaredSound, CloseIgnored
    <2>5. QED
      BY <2>3, <2>4 DEF IInv
  <1>11. CASE EndOfText
    <2>1. SectionsInBase'
      BY <1>0, <1>11, Returns DEF SectionsInBase, EndOfText
    <2>2. DeclaredSound'
      BY <1>0, <1>11 DEF DeclaredSound, EndOfText
    <2>3. QED
      BY <2>1, <2>2 DEF IInv
  <1>12. CASE EndOfInternal
    <2> DEFINE base == Frame("external", subset.external)
    <2>1. subset.external \in Seq(Vocabulary)
      BY <1>0 DEF DeclaredSound
    <2>2. SoundFrame(base, 1)
      BY <2>1, CallBegins
    <2>3. frames' = <<base>>
      BY <1>12 DEF EndOfInternal
    <2> HIDE DEF base
    <2>4. frames' \in Seq(Frames) /\ Len(frames') = 1 /\ DOMAIN frames' = {1} /\ frames'[1] = base
      BY <2>2, <2>3 DEF SoundFrame
    <2>5. SectionsInBase'
      BY <2>2, <2>4, MaxFramesAssumption DEF SectionsInBase, StackSound
    <2>6. DeclaredSound'
      BY <1>0, <1>12 DEF DeclaredSound, EndOfInternal
    <2>7. QED
      BY <2>5, <2>6 DEF IInv
  <1>13. CASE EndOfExternal
    <2>1. SectionsInBase'
      BY <1>0, <1>13 DEF SectionsInBase, EndOfExternal
    <2>2. DeclaredSound'
      BY <1>0, <1>13 DEF DeclaredSound, EndOfExternal
    <2>3. QED
      BY <2>1, <2>2 DEF IInv
  <1>14. CASE Reject
    <2>1. SectionsInBase'
      BY <1>0, <1>14 DEF SectionsInBase, Reject
    <2>2. DeclaredSound'
      BY <1>0, <1>14 DEF DeclaredSound, Reject
    <2>3. QED
      BY <2>1, <2>2 DEF IInv
  <1>15. CASE EndInIncluded
    <2>1. ~Outside
      BY <1>15 DEF EndInIncluded
    <2>2. /\ Len(frames) = 1 /\ Top.mode = "external" /\ Top \in Frames
          /\ Inside.collected \in Seq(Vocabulary) /\ NoSections(Inside.collected)
          /\ SoundSections(Front(Top.sections))
      BY <2>1, SectionsOfBase, SectionFields, TopIsSound
    <2> DEFINE callee == Frame("external", Inside.collected)
               sections == Append(Front(Top.sections), Section(TRUE))
               caller == [Top EXCEPT !.sections = sections]
               waiting == ReplaceAt(frames, Len(frames), caller)
    <2>3. SoundFrame(callee, Len(frames) + 1)
      BY <2>2, CallBegins
    <2>4. SoundSections(sections)
      <3>1. \A b \in BOOLEAN : /\ Section(b) \in OpenSections
                               /\ Section(b).including = b /\ Section(b).collected = <<>>
        <4>1. <<>> \in Seq(Vocabulary)
          OBVIOUS
        <4>2. QED
          BY <4>1 DEF Section, OpenSections
      <3>2. NoSections(<<>>)
        BY DEF NoSections
      <3>3. QED
        BY <2>2, <3>1, <3>2, SectionBegins
    <2>5. SoundFrame(caller, Len(frames))
      <3> HIDE DEF sections
      <3>1. caller = [mode |-> Top.mode, input |-> Top.input, sections |-> sections]
        BY <2>2, FrameFields
      <3>2. caller \in Frames
        <4>1. Top.mode \in {"internal", "external"} /\ Top.input \in Seq(Vocabulary)
          BY <2>2, FrameFields
        <4>2. sections \in Seq(OpenSections)
          BY <2>4 DEF SoundSections
        <4>3. QED
          BY <3>1, <4>1, <4>2, FrameType
      <3>3. QED
        BY <2>2, <2>4, <3>1, <3>2 DEF SoundFrame, SoundSections
    <2>6. StackSound(waiting) /\ Len(waiting) = Len(frames)
      <3> HIDE DEF caller
      <3>1. QED
        BY <1>0, <2>5, GoesOn
    <2>7. frames' = Append(waiting, callee)
      BY <1>15 DEF EndInIncluded, Call
    <2>8. Len(frames) < MaxFrames
      BY <2>2, MaxFramesAssumption
    <2> HIDE DEF callee, waiting
    <2>9. SectionsInBase'
      BY <2>3, <2>6, <2>7, <2>8, Calls DEF SectionsInBase
    <2>10. DeclaredSound'
      BY <1>0, <1>15 DEF DeclaredSound, EndInIncluded
    <2>11. QED
      BY <2>9, <2>10 DEF IInv
  <1>16. CASE UNCHANGED vars
    <2>1. SectionsInBase'
      BY <1>0, <1>16 DEF SectionsInBase, vars
    <2>2. DeclaredSound'
      BY <1>0, <1>16 DEF DeclaredSound, vars
    <2>3. QED
      BY <2>1, <2>2 DEF IInv
  <1>17. QED
    BY <1>1, <1>2, <1>3, <1>4, <1>5, <1>6, <1>7, <1>8, <1>9, <1>10, <1>11, <1>12, <1>13,
       <1>14, <1>15, <1>16 DEF Next

-----------------------------------------------------------------------------

(* Whatever the subsets: sections are open in external content only and an *)
(* ignored one collects nothing, the calls never outgrow their room, and   *)
(* only declared elements have attributes, with specifications that are    *)
(* legal (parseConditional, parseElement, parseAttributeList).             *)
THEOREM TypeCorrect == Spec => []TypeOK
  <1>1. Spec => []IInv
    BY InitInv, NextInv, PTL DEF Spec
  <1>2. QED
    BY <1>1, InvType, PTL

===============================================================================
