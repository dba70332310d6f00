--------------------------- MODULE Entities_proofs ---------------------------
(***************************************************************************)
(* Proofs about Entities, for every set of names and texts.  The recursion *)
(* check is a depth-first walk: what it has left behind leads into no      *)
(* circle, and what is on its stack leads from one to the next.  That it   *)
(* misses no circle needs a table that does not rehash during the walk.    *)
(***************************************************************************)
EXTENDS Entities, SequenceTheorems, FiniteSetTheorems, TLAPS

-----------------------------------------------------------------------------
(* The names that a text refers to, and those that the text of a frame     *)
(* still leads to: behind its cursor, or being followed by the next frame. *)
Refs(text) == {text[i] : i \in DOMAIN text} \cap Names
Ahead(i) == Refs(frames[i].rest)
              \cup (IF i < Len(frames) THEN {frames[i + 1].name} ELSE {})

(* Entities from which references lead on without end.                     *)
LeadsToCircle(n) == \E C \in SUBSET Names :
  n \in C /\ \A m \in C : RefersTo(m) \cap C # {}

(* Only the first frame is not an entity's.                                *)
FramesAreEntities == \A i \in 1..Len(frames) : frames[i].name = NoName <=> i = 1

(* No declaration, no text.                                                *)
UndeclaredHasNoText ==
  \A n \in Names : kind[n] \in {"absent", "base"} => internal[n] = <<>>

(* A parse that failed stands before the reference that it failed on.      *)
PhasesOK ==
  /\ phase = "dtd" => frames = <<>> /\ current = {}
  /\ phase = "declaring" => pending.text \in Texts
  /\ phase \in Ended \ {"accepted"} => frames # <<>> /\ Top.rest # <<>>

(* During a check the frames are a path of references, and currentEntities *)
(* are on it.                                                              *)
ChecksFollowTexts == Checking =>
  /\ current \subseteq {frames[i].name : i \in 2..Len(frames)}
  /\ \A i \in 2..Len(frames) : Ahead(i) \subseteq RefersTo(frames[i].name)

WalkInv == TypeOK /\ FramesAreEntities /\ UndeclaredHasNoText /\ PhasesOK
             /\ ChecksFollowTexts /\ OnlyCirclesRejected

(* Depth first: an entity that the walk has left behind leads to no circle.*)
LeftBehindIsClean == phase = "checking" =>
  /\ \A n \in Present \ todo : LeadsToCircle(n) => frames # <<>> /\ n \in Ahead(1)
  /\ \A i \in 2..Len(frames) : \A m \in RefersTo(frames[i].name) :
       LeadsToCircle(m) => m \in Ahead(i)

CircleInv == WalkInv /\ LeftBehindIsClean /\ CirclesRejected

(* In the body, the frames of entities with a text are a path as well.     *)
BodyFollowsTexts == phase = "body" =>
  \A i \in 2..Len(frames) :
    /\ frames[i].name \notin CharRefs
    /\ kind[frames[i].name] = "internal" => Ahead(i) \subseteq RefersTo(frames[i].name)

InternalHasText == \A n \in Names : kind[n] = "internal" => internal[n] # <<>>

ExpandInv == CircleInv /\ BodyFollowsTexts /\ InternalHasText /\ InternalEntitiesExpand

-----------------------------------------------------------------------------
(* Texts.                                                                  *)
Text == Seq(Names \cup {Char})

(* Without its head a text refers to what it referred to, but the head.    *)
LEMMA RefsOfTail ==
  ASSUME NEW text \in Text, text # <<>>
  PROVE  /\ Head(text) \in Names \cup {Char} /\ Tail(text) \in Text
         /\ Refs(text) = Refs(Tail(text)) \cup ({Head(text)} \cap Names)
  <1>1. /\ Head(text) = text[1] /\ Len(text) \in Nat \ {0}
        /\ DOMAIN text = 1..Len(text)
    BY EmptySeq, LenProperties DEF Text
  <1>2. /\ Tail(text) \in Text /\ Len(Tail(text)) = Len(text) - 1
        /\ Head(text) \in Names \cup {Char}
        /\ \A i \in 1..Len(Tail(text)) : Tail(text)[i] = text[i + 1]
    BY HeadTailProperties DEF Text
  <1>3. DOMAIN Tail(text) = 1..(Len(text) - 1)
    BY <1>2, LenProperties DEF Text
  <1>4. ASSUME NEW m \in Refs(text) PROVE m \in Refs(Tail(text)) \cup ({Head(text)} \cap Names)
    <2>1. PICK i \in 1..Len(text) : m = text[i]
      BY <1>1 DEF Refs
    <2>2. CASE i = 1
      BY <1>1, <2>1, <2>2 DEF Refs
    <2>3. CASE i # 1
      <3>1. i - 1 \in 1..(Len(text) - 1) /\ Tail(text)[i - 1] = text[i]
        BY <1>1, <1>2, <2>3
      <3>2. QED
        BY <1>3, <2>1, <3>1 DEF Refs
    <2>4. QED
      BY <2>2, <2>3
  <1>5. ASSUME NEW m \in Refs(Tail(text)) PROVE m \in Refs(text)
    <2>1. PICK i \in 1..(Len(text) - 1) : m = Tail(text)[i]
      BY <1>3 DEF Refs
    <2>2. i + 1 \in 1..Len(text) /\ m = text[i + 1]
      BY <1>1, <1>2, <2>1
    <2>3. QED
      BY <1>1, <2>2 DEF Refs
  <1>6. {Head(text)} \cap Names \subseteq Refs(text)
    BY <1>1 DEF Refs
  <1>7. QED
    BY <1>2, <1>4, <1>5, <1>6

(* The shortest texts.                                                     *)
LEMMA RefsOfShort ==
  /\ Refs(<<>>) = {}
  /\ \A n \in Names : <<n>> \in Text /\ Refs(<<n>>) = {n}
  BY DEF Refs, Text

(* The texts that the model handles are texts.                             *)
LEMMA TextType ==
  ASSUME TypeOK
  PROVE  /\ \A n \in Names : internal[n] \in Text
         /\ Texts \subseteq Text /\ <<>> \in Text
  <1>1. Texts \subseteq Text
    BY EntitiesAssumption DEF Text
  <1>2. \A r \in CharRefs : <<r>> \in Text
    BY EntitiesAssumption, RefsOfShort
  <1>3. <<>> \in Text
    BY EmptySeq DEF Text
  <1>4. QED
    BY <1>1, <1>2, <1>3 DEF TypeOK

-----------------------------------------------------------------------------
(* The stack of frames: how Advance, Enter, Return and Start change it and *)
(* what is ahead of each frame.                                            *)
LEMMA FramesType ==
  ASSUME TypeOK
  PROVE  /\ Len(frames) \in Nat /\ DOMAIN frames = 1..Len(frames)
         /\ frames # <<>> <=> Len(frames) \in Nat \ {0}
         /\ \A i \in 1..Len(frames) : /\ frames[i] \in Frame
                                      /\ frames[i].name \in Names \cup {NoName}
                                      /\ frames[i].rest \in Text
  <1>1. frames \in Seq(Frame)
    BY DEF TypeOK
  <1>2. Len(frames) \in Nat /\ DOMAIN frames = 1..Len(frames) /\ frames \in [1..Len(frames) -> Frame]
    BY <1>1, LenProperties
  <1>3. frames # <<>> <=> Len(frames) \in Nat \ {0}
    BY <1>1, EmptySeq
  <1>4. QED
    BY <1>2, <1>3 DEF Frame, Text

(* Reading an item shortens the text of the innermost frame only.          *)
LEMMA AdvanceFrames ==
  ASSUME TypeOK, frames # <<>>, Top.rest # <<>>
  PROVE  /\ Advance \in Seq(Frame) /\ Len(Advance) = Len(frames)
         /\ \A i \in 1..Len(frames) : /\ Advance[i].name = frames[i].name
                                      /\ i < Len(frames) => Advance[i] = frames[i]
         /\ Advance[Len(frames)].rest = Tail(Top.rest)
  <1> DEFINE L == Len(frames)
  <1> DEFINE top == [frames[L] EXCEPT !.rest = Tail(@)]
  <1>1. frames \in Seq(Frame) /\ L \in 1..L /\ frames[L] \in Frame /\ frames[L].rest \in Text
    BY FramesType DEF TypeOK
  <1>2. /\ top \in Frame /\ top.name = frames[L].name /\ top.rest = Tail(frames[L].rest)
    BY <1>1, RefsOfTail DEF Frame, Text, Top
  <1>3. Advance = [frames EXCEPT ![L] = top]
    BY DEF Advance
  <1> HIDE DEF top
  <1>4. /\ Advance \in Seq(Frame) /\ Len(Advance) = L
        /\ \A j \in 1..L : Advance[j] = IF j = L THEN top ELSE frames[j]
    BY <1>1, <1>2, <1>3, ExceptSeq
  <1>5. QED
    BY <1>1, <1>2, <1>4 DEF Top

(* Entering an entity reads its reference and puts its text on top of the  *)
(* stack.                                                                  *)
LEMMA EnterFrames ==
  ASSUME TypeOK, frames # <<>>, Top.rest # <<>>, NEW n \in Names, NEW text \in Text
  PROVE  /\ Enter(n, text) \in Seq(Frame) /\ Len(Enter(n, text)) = Len(frames) + 1
         /\ \A i \in 1..Len(frames) : /\ Enter(n, text)[i].name = frames[i].name
                                      /\ i < Len(frames) => Enter(n, text)[i] = frames[i]
         /\ Enter(n, text)[Len(frames)].rest = Tail(Top.rest)
         /\ Enter(n, text)[Len(frames) + 1] = [name |-> n, rest |-> text]
  <1> DEFINE frame == [name |-> n, rest |-> text]
  <1>1. frame \in Frame
    BY DEF Frame, Text
  <1>2. Enter(n, text) = Append(Advance, frame)
    BY DEF Enter
  <1> HIDE DEF frame
  <1>3. Len(frames) \in Nat \ {0}
    BY FramesType
  <1>4. /\ Enter(n, text) \in Seq(Frame) /\ Len(Enter(n, text)) = Len(frames) + 1
        /\ \A i \in 1..Len(frames) : Enter(n, text)[i] = Advance[i]
        /\ Enter(n, text)[Len(frames) + 1] = frame
    BY <1>1, <1>2, AdvanceFrames, AppendProperties
  <1>5. QED
    BY <1>3, <1>4, AdvanceFrames DEF frame

(* Returning from an entity drops the innermost frame only.                *)
LEMMA BelowFrames ==
  ASSUME TypeOK, frames # <<>>
  PROVE  /\ Below \in Seq(Frame) /\ Len(Below) = Len(frames) - 1
         /\ \A i \in 1..(Len(frames) - 1) : Below[i] = frames[i]
  <1>1. frames \in Seq(Frame) /\ Len(frames) \in Nat \ {0}
    BY FramesType DEF TypeOK
  <1>2. \A i \in 1..(Len(frames) - 1) : frames[i] \in Frame
    BY FramesType
  <1> DEFINE L == Len(frames)
  <1> DEFINE below == SubSeq(frames, 1, L - 1)
  <1>3. /\ below \in Seq(Frame)
        /\ Len(below) = IF 1 <= L - 1 THEN L - 1 - 1 + 1 ELSE 0
        /\ \A i \in 1..(L - 1 - 1 + 1) : below[i] = frames[1 + i - 1]
    <2>1. 1 \in Int /\ L - 1 \in Int
      BY <1>1
    <2> HIDE DEF Frame
    <2>2. QED
      BY <1>2, <2>1, SubSeqProperties
  <1>4. Below = below
    BY DEF Below
  <1> HIDE DEF below, L
  <1>5. Len(below) = L - 1
    <2>1. L \in Nat /\ L # 0
      BY <1>1 DEF L
    <2>2. 1 <= L - 1 => L - 1 - 1 + 1 = L - 1
      BY <2>1
    <2>3. ~(1 <= L - 1) => L - 1 = 0
      BY <2>1
    <2>4. Len(below) = IF 1 <= L - 1 THEN L - 1 - 1 + 1 ELSE 0
      BY <1>3
    <2>5. QED
      BY <2>2, <2>3, <2>4
  <1>6. ASSUME NEW i \in 1..(L - 1) PROVE below[i] = frames[i]
    <2>1. i \in 1..(L - 1 - 1 + 1) /\ 1 + i - 1 = i
      BY <1>1 DEF L
    <2>2. QED
      BY <1>3, <2>1
  <1>7. QED
    BY <1>3, <1>4, <1>5, <1>6 DEF L

(* A check or an expansion starts with one frame, which is not that of an  *)
(* entity.                                                                 *)
LEMMA StartFrames ==
  ASSUME NEW text \in Text
  PROVE  /\ Start(text) \in Seq(Frame) /\ Len(Start(text)) = 1
         /\ Start(text)[1] = [name |-> NoName, rest |-> text]
  BY DEF Start, Frame, Text

(* What lies ahead of the top frame is what its text still refers to.      *)
LEMMA AheadOfTop ==
  ASSUME TypeOK, frames # <<>>
  PROVE  /\ Ahead(Len(frames)) = Refs(Top.rest)
         /\ Top.rest # <<>> =>
              Ahead(Len(frames)) = Refs(Tail(Top.rest)) \cup ({Head(Top.rest)} \cap Names)
         /\ Top.rest = <<>> => Ahead(Len(frames)) = {}
  <1>1. Len(frames) \in 1..Len(frames) /\ ~(Len(frames) < Len(frames))
    BY FramesType
  <1>2. Top.rest \in Text
    BY <1>1, FramesType DEF Top
  <1>3. Ahead(Len(frames)) = Refs(Top.rest)
    BY <1>1 DEF Ahead, Top
  <1>4. QED
    BY <1>2, <1>3, RefsOfTail, RefsOfShort

(* After an item is read, a frame has the references ahead that it had, the*)
(* innermost those of the rest.                                            *)
LEMMA AheadOfAdvance ==
  ASSUME TypeOK, frames # <<>>, Top.rest # <<>>, frames' = Advance
  PROVE  /\ Len(frames)' = Len(frames)
         /\ \A i \in 1..Len(frames) :
              /\ frames'[i].name = frames[i].name
              /\ Ahead(i)' = IF i < Len(frames) THEN Ahead(i) ELSE Refs(Tail(Top.rest))
  <1>0. /\ \A i \in 1..Len(frames) : /\ frames'[i].name = frames[i].name
                                     /\ i < Len(frames) => frames'[i] = frames[i]
        /\ frames'[Len(frames)].rest = Tail(Top.rest)
    BY AdvanceFrames
  <1>1. Len(frames) \in Nat \ {0} /\ Len(frames)' = Len(frames)
    BY FramesType, AdvanceFrames
  <1>2. ASSUME NEW i \in 1..Len(frames)
        PROVE  /\ frames'[i].name = frames[i].name
               /\ Ahead(i)' = IF i < Len(frames) THEN Ahead(i) ELSE Refs(Tail(Top.rest))
    <2>1. CASE i < Len(frames)
      <3>1. i + 1 \in 1..Len(frames)
        BY <1>1, <2>1
      <3>2. frames'[i] = frames[i] /\ frames'[i + 1].name = frames[i + 1].name
        BY <1>1, <2>1, <3>1, <1>0
      <3>3. QED
        BY <1>1, <2>1, <3>2 DEF Ahead
    <2>2. CASE i = Len(frames)
      <3>1. frames'[i].rest = Tail(Top.rest) /\ frames'[i].name = frames[i].name
        BY <1>1, <2>2, <1>0
      <3>2. QED
        BY <1>1, <2>2, <3>1 DEF Ahead
    <2>3. QED
      BY <1>1, <2>1, <2>2
  <1>3. QED
    BY <1>1, <1>2

(* After an entity is entered, its name is still ahead of the frame that   *)
(* refers to it.                                                           *)
LEMMA AheadOfEnter ==
  ASSUME TypeOK, frames # <<>>, Top.rest # <<>>, NEW n \in Names, NEW text \in Text,
         frames' = Enter(n, text)
  PROVE  /\ Len(frames)' = Len(frames) + 1
         /\ \A i \in 1..Len(frames) :
              /\ frames'[i].name = frames[i].name
              /\ Ahead(i)' = IF i < Len(frames) THEN Ahead(i)
                                                ELSE Refs(Tail(Top.rest)) \cup {n}
         /\ frames'[Len(frames) + 1].name = n
         /\ \A i : i = Len(frames) + 1 => Ahead(i)' = Refs(text)
  <1>0. /\ \A i \in 1..Len(frames) : /\ frames'[i].name = frames[i].name
                                     /\ i < Len(frames) => frames'[i] = frames[i]
        /\ frames'[Len(frames)].rest = Tail(Top.rest)
    BY EnterFrames
  <1>1. Len(frames) \in Nat \ {0} /\ Len(frames)' = Len(frames) + 1
    BY FramesType, EnterFrames
  <1>2. frames'[Len(frames) + 1] = [name |-> n, rest |-> text]
    BY EnterFrames
  <1>3. ASSUME NEW i \in 1..Len(frames)
        PROVE  /\ frames'[i].name = frames[i].name
               /\ Ahead(i)' = IF i < Len(frames) THEN Ahead(i)
                                                 ELSE Refs(Tail(Top.rest)) \cup {n}
    <2>1. CASE i < Len(frames)
      <3>1. i + 1 \in 1..Len(frames) /\ i < Len(frames) + 1
        BY <1>1, <2>1
      <3>2. frames'[i] = frames[i] /\ frames'[i + 1].name = frames[i + 1].name
        BY <1>1, <2>1, <3>1, <1>0
      <3>3. QED
        BY <1>1, <2>1, <3>1, <3>2 DEF Ahead
    <2>2. CASE i = Len(frames)
      <3>1. frames'[i].rest = Tail(Top.rest) /\ frames'[i].name = frames[i].name
        BY <1>1, <2>2, <1>0
      <3>2. i < Len(frames) + 1 /\ ~(i < Len(frames))
        BY <1>1, <2>2
      <3>3. QED
        BY <1>1, <1>2, <2>2, <3>1, <3>2 DEF Ahead
    <2>3. QED
      BY <1>1, <2>1, <2>2
  <1>4. ASSUME NEW i, i = Len(frames) + 1 PROVE Ahead(i)' = Refs(text)
    <2>1. ~(i < Len(frames)')
      BY <1>1, <1>4
    <2>2. QED
      BY <1>2, <1>4, <2>1 DEF Ahead
  <1>5. QED
    BY <1>1, <1>2, <1>3, <1>4

(* After an entity is left, the frame below has lost at most the name of   *)
(* that entity.                                                            *)
LEMMA AheadOfReturn ==
  ASSUME TypeOK, frames # <<>>, frames' = Below
  PROVE  /\ Len(frames)' = Len(frames) - 1
         /\ \A i \in 1..(Len(frames) - 1) :
              /\ frames'[i].name = frames[i].name
              /\ i < Len(frames) - 1 => Ahead(i)' = Ahead(i)
              /\ i = Len(frames) - 1 => Ahead(i) = Ahead(i)' \cup {Top.name}
  <1>1. Len(frames) \in Nat \ {0} /\ Len(frames)' = Len(frames) - 1
    BY FramesType, BelowFrames
  <1>2. ASSUME NEW i \in 1..(Len(frames) - 1)
        PROVE  /\ frames'[i] = frames[i]
               /\ i < Len(frames) - 1 => Ahead(i)' = Ahead(i)
               /\ i = Len(frames) - 1 => Ahead(i) = Ahead(i)' \cup {Top.name}
    <2>1. frames'[i] = frames[i] /\ i < Len(frames)
      BY <1>1, BelowFrames
    <2>2. CASE i < Len(frames) - 1
      <3>1. i + 1 \in 1..(Len(frames) - 1)
        BY <1>1, <2>2
      <3>2. frames'[i + 1] = frames[i + 1]
        BY <3>1, BelowFrames
      <3>3. QED
        BY <1>1, <2>1, <2>2, <3>2 DEF Ahead
    <2>3. CASE i = Len(frames) - 1
      <3>1. i + 1 = Len(frames) /\ ~(i < Len(frames) - 1)
        BY <1>1, <2>3
      <3>2. QED
        BY <1>1, <2>1, <2>3, <3>1 DEF Ahead, Top
    <2>4. QED
      BY <1>1, <2>1, <2>2, <2>3
  <1>3. QED
    BY <1>1, <1>2

(* The first frame has the references of its text ahead.                   *)
LEMMA AheadOfStart ==
  ASSUME NEW text \in Text, frames' = Start(text)
  PROVE  /\ Len(frames)' = 1 /\ frames'[1].name = NoName
         /\ Ahead(1)' = Refs(text)
  <1>1. Len(frames)' = 1 /\ frames'[1] = [name |-> NoName, rest |-> text] /\ ~(1 < 1)
    BY StartFrames
  <1>2. QED
    BY <1>1 DEF Ahead

(* A path of references that comes back to one of its entities is a circle.*)
LEMMA PathIsCircle ==
  ASSUME NEW first \in Nat, NEW last \in Nat, first <= last, NEW path,
         \A k \in first..last : path[k] \in Names,
         \A k \in first..(last - 1) : path[k + 1] \in RefersTo(path[k]),
         path[first] \in RefersTo(path[last])
  PROVE  Circular
  <1> DEFINE C == {path[k] : k \in first..last}
  <1>1. C \in SUBSET Names /\ C # {}
    <2>1. first \in first..last
      OBVIOUS
    <2>2. QED
      BY <2>1
  <1>2. ASSUME NEW k \in first..last PROVE RefersTo(path[k]) \cap C # {}
    <2>1. CASE k = last
      <3>1. path[first] \in C
        OBVIOUS
      <3>2. QED
        BY <2>1, <3>1
    <2>2. CASE k # last
      <3>1. k \in first..(last - 1) /\ k + 1 \in first..last
        BY <2>2
      <3>2. path[k + 1] \in C
        BY <3>1
      <3>3. QED
        BY <3>1, <3>2
    <2>3. QED
      BY <2>1, <2>2
  <1>3. \A n \in C : RefersTo(n) \cap C # {}
    BY <1>2
  <1> HIDE DEF C
  <1>4. QED
    BY <1>1, <1>3 DEF Circular

-----------------------------------------------------------------------------
(* Type correctness.                                                       *)
LEMMA InitType == Init => TypeOK
  <1> SUFFICES ASSUME Init PROVE TypeOK
    OBVIOUS
  <1>1. frames \in Seq(Frame)
    BY EmptySeq DEF Init
  <1>2. internal \in [Names -> Texts \cup {<<>>} \cup {<<r>> : r \in CharRefs}]
    BY DEF Init
  <1>3. QED
    BY <1>1, <1>2 DEF Init, TypeOK

(* Every step of the DTD, of the check and of the expansion leaves the     *)
(* state well-typed.                                                       *)
LEMMA NextType == TypeOK /\ [Next]_vars => TypeOK'
  <1> SUFFICES ASSUME TypeOK, [Next]_vars PROVE TypeOK'
    OBVIOUS
  <1>1. ASSUME NEW n \in Declarable, NEW text \in Texts, Declare(n, text) PROVE TypeOK'
    <2>1. frames' \in Seq(Frame)
      BY <1>1, TextType, StartFrames DEF Declare
    <2>2. pending' \in [name : Names \cup {NoName}, text : Texts \cup {<<>>}]
      BY <1>1, EntitiesAssumption DEF Declare
    <2>3. QED
      BY <1>1, <2>1, <2>2 DEF Declare, TypeOK
  <1>2. ASSUME NEW n \in Declarable, NEW type \in {"external", "notation"},
               DeclareExternal(n, type)
        PROVE  TypeOK'
    BY <1>2 DEF DeclareExternal, TypeOK
  <1>3. CASE EndDtd
    BY <1>3 DEF EndDtd, TypeOK, ToVisit, Present
  <1>4. CASE SetInternal
    BY <1>4 DEF SetInternal, TypeOK
  <1>5. ASSUME NEW n \in Names, Visit(n) PROVE TypeOK'
    <2>1. frames' \in Seq(Frame)
      BY <1>5, RefsOfShort, StartFrames DEF Visit
    <2>2. QED
      BY <1>5, <2>1 DEF Visit, TypeOK
  <1>6. ASSUME NEW n \in Names, Recursive(n) PROVE TypeOK'
    BY <1>6 DEF Recursive, TypeOK, Ended
  <1>7. ASSUME NEW n \in Names, Follow(n) PROVE TypeOK'
    <2>1. frames' \in Seq(Frame) /\ current' \subseteq Names
      <3>1. frames # <<>> /\ Top.rest # <<>>
        BY <1>7 DEF Follow, Meets
      <3>2. frames' = Enter(n, internal[n]) \/ frames' = Advance
        BY <1>7 DEF Follow
      <3>3. frames' \in Seq(Frame)
        BY <3>1, <3>2, TextType, EnterFrames, AdvanceFrames
      <3>4. QED
        BY <1>7, <3>3 DEF Follow, TypeOK
    <2>2. todo' \subseteq Names
      BY <1>7 DEF Follow, Iteration, TypeOK, Present
    <2>3. kind' \in [Names -> {"absent", "base", "internal", "external", "notation"}]
      BY <1>7 DEF Follow, TypeOK
    <2>4. QED
      BY <1>7, <2>1, <2>2, <2>3 DEF Follow, TypeOK
  <1>8. CASE Return
    <2>1. frames' \in Seq(Frame)
      BY <1>8, BelowFrames DEF Return
    <2>2. QED
      BY <1>8, <2>1 DEF Return, TypeOK, Leave, Ended
  <1>9. CASE Character
    <2>1. frames' \in Seq(Frame)
      BY <1>9, AdvanceFrames DEF Character, Meets
    <2>2. QED
      BY <1>9, <2>1 DEF Character, TypeOK
  <1>10. ASSUME NEW text \in Texts, StartBody(text) PROVE TypeOK'
    <2>1. frames' \in Seq(Frame)
      BY <1>10, TextType, StartFrames DEF StartBody
    <2>2. QED
      BY <1>10, <2>1 DEF StartBody, TypeOK
  <1>11. ASSUME NEW n \in Names \ CharRefs,
                Undeclared(n) \/ Unreadable(n) \/ TooManyExpansions(n)
         PROVE  TypeOK'
    BY <1>11 DEF Undeclared, Unreadable, TooManyExpansions, Fail, TypeOK, Ended
  <1>12. ASSUME NEW n \in Names \ CharRefs, Expand(n) PROVE TypeOK'
    <2>1. PICK text \in Replacements(n) : frames' = Enter(n, text)
      BY <1>12 DEF Expand
    <2>2. text \in Text
      BY <2>1, TextType, RefsOfShort DEF Replacements
    <2>3. frames' \in Seq(Frame)
      BY <1>12, <2>1, <2>2, EnterFrames DEF Expand, Meets
    <2>4. QED
      BY <1>12, <2>3 DEF Expand, TypeOK
  <1>13. CASE UNCHANGED vars
    BY <1>13 DEF vars, TypeOK
  <1>14. QED
    BY <1>1, <1>2, <1>3, <1>4, <1>5, <1>6, <1>7, <1>8, <1>9, <1>10, <1>11, <1>12, <1>13
    DEF Next, Dtd, Work

(* The table, the stack of the walk and its bookkeeping are well-typed.    *)
THEOREM TypeCorrect == Spec => []TypeOK
  BY InitType, NextType, PTL DEF Spec

-----------------------------------------------------------------------------
(* Steps that keep the texts keep what they refer to.                      *)
LEMMA SameTexts ==
  ASSUME UNCHANGED internal
  PROVE  /\ \A n : RefersTo(n)' = RefersTo(n) /\ LeadsToCircle(n)' = LeadsToCircle(n)
         /\ Circular' = Circular
  BY DEF RefersTo, Circular, LeadsToCircle

(* What is ahead and on top depends on the frames only.                    *)
LEMMA SameFrames ==
  ASSUME UNCHANGED frames
  PROVE  (\A i : Ahead(i)' = Ahead(i)) /\ Top' = Top
  BY DEF Ahead, Top

(* No frame: nothing is current, no frame to say anything of.              *)
LEMMA NoFrames ==
  ASSUME frames = <<>>
  PROVE  Len(frames) = 0 /\ 1..Len(frames) = {} /\ 2..Len(frames) = {}
  <1>1. Len(frames) = 0
    BY EmptySeq
  <1>2. QED
    BY <1>1

(* The first frame is that of a declaration, an entry or the body; each of *)
(* the others was pushed for an entity.                                    *)
LEMMA EntityFrames ==
  ASSUME TypeOK, FramesAreEntities, [Next]_vars
  PROVE  FramesAreEntities'
  <1> DEFINE L == Len(frames)
  <1>0. L \in Nat /\ (frames # <<>> => L \in Nat \ {0})
    BY FramesType
  <1>1. ASSUME NEW text \in Text, frames' = Start(text) PROVE FramesAreEntities'
    <2>1. Len(frames)' = 1 /\ frames'[1].name = NoName
      BY <1>1, AheadOfStart
    <2>2. QED
      BY <2>1 DEF FramesAreEntities
  <1>2. CASE frames # <<>> /\ Top.rest # <<>> /\ frames' = Advance
    <2>1. Len(frames)' = L /\ \A i \in 1..L : frames'[i].name = frames[i].name
      BY <1>2, AheadOfAdvance
    <2>2. QED
      BY <2>1 DEF FramesAreEntities
  <1>3. ASSUME frames # <<>>, Top.rest # <<>>,
               NEW n \in Names, NEW text \in Text, frames' = Enter(n, text)
        PROVE  FramesAreEntities'
    <2>1. /\ Len(frames)' = L + 1 /\ frames'[L + 1].name = n
          /\ \A i \in 1..L : frames'[i].name = frames[i].name
      BY <1>3, AheadOfEnter
    <2>2. n # NoName /\ L + 1 # 1
      BY <1>0, <1>3, EntitiesAssumption
    <2>3. ASSUME NEW i \in 1..(L + 1) PROVE frames'[i].name = NoName <=> i = 1
      <3>1. CASE i = L + 1
        BY <2>1, <2>2, <3>1
      <3>2. CASE i \in 1..L
        BY <2>1, <3>2 DEF FramesAreEntities
      <3>3. QED
        BY <1>0, <3>1, <3>2
    <2>4. QED
      BY <2>1, <2>3 DEF FramesAreEntities
  <1>4. CASE frames # <<>> /\ frames' = Below
    <2>1. Len(frames)' = L - 1 /\ \A i \in 1..(L - 1) : frames'[i].name = frames[i].name
      BY <1>4, AheadOfReturn
    <2>2. 1..(L - 1) \subseteq 1..L
      BY <1>0
    <2>3. QED
      BY <2>1, <2>2 DEF FramesAreEntities
  <1>5. CASE UNCHANGED frames
    BY <1>5 DEF FramesAreEntities
  <1>6. QED
    <2>1. ASSUME NEW n \in Declarable, NEW text \in Texts, Declare(n, text)
          PROVE  FramesAreEntities'
      BY <1>1, <2>1, TextType DEF Declare
    <2>2. ASSUME NEW n \in Names, Visit(n) PROVE FramesAreEntities'
      BY <1>1, <2>2, RefsOfShort DEF Visit
    <2>3. ASSUME NEW n \in Names, Follow(n) PROVE FramesAreEntities'
      <3>1. frames # <<>> /\ Top.rest # <<>> /\ internal[n] \in Text
        BY <2>3, TextType DEF Follow, Meets
      <3>2. frames' = Enter(n, internal[n]) \/ frames' = Advance
        BY <2>3 DEF Follow
      <3>3. QED
        BY <1>2, <1>3, <3>1, <3>2
    <2>4. ASSUME NEW text \in Texts, StartBody(text) PROVE FramesAreEntities'
      BY <1>1, <2>4, TextType DEF StartBody
    <2>5. ASSUME NEW n \in Names \ CharRefs, Expand(n) PROVE FramesAreEntities'
      <3>1. PICK text \in Replacements(n) : frames' = Enter(n, text)
        BY <2>5 DEF Expand
      <3>2. text \in Text
        BY <3>1, TextType, RefsOfShort DEF Replacements
      <3>3. QED
        BY <1>3, <2>5, <3>1, <3>2 DEF Expand, Meets
    <2>6. CASE Return
      BY <1>4, <2>6 DEF Return
    <2>7. CASE Character
      BY <1>2, <2>7 DEF Character, Meets
    <2>8. CASE \/ \E n \in Declarable, type \in {"external", "notation"} :
                    DeclareExternal(n, type)
               \/ EndDtd \/ SetInternal \/ \E n \in Names : Recursive(n)
               \/ \E n \in Names \ CharRefs :
                    Undeclared(n) \/ Unreadable(n) \/ TooManyExpansions(n)
               \/ UNCHANGED vars
      <3>1. UNCHANGED frames
        BY <2>8
        DEF DeclareExternal, EndDtd, SetInternal, Recursive, Undeclared, Unreadable,
            TooManyExpansions, Fail, vars
      <3>2. QED
        BY <1>5, <3>1
    <2>9. QED
      BY <2>1, <2>2, <2>3, <2>4, <2>5, <2>6, <2>7, <2>8 DEF Next, Dtd, Work

-----------------------------------------------------------------------------
(* The walk: one lemma for each of its steps that moves the frames.        *)

(* Two frames of one entity, or a frame of the entity that the top refers  *)
(* to: from the first of them on, the frames of a path are a circle.       *)
LEMMA BackOnPath ==
  ASSUME TypeOK, FramesAreEntities, NEW first \in 2..Len(frames), NEW last \in first..Len(frames),
         \A i \in first..last : Ahead(i) \subseteq RefersTo(frames[i].name),
         frames[first].name \in Ahead(last)
  PROVE  Circular
  <1> DEFINE path == [k \in Nat |-> frames[k].name]
  <1>0. Len(frames) \in Nat
    BY FramesType
  <1>1. first \in Nat /\ last \in Nat /\ first <= last /\ last <= Len(frames) /\ 2 <= first
    BY <1>0
  <1>2. ASSUME NEW k \in first..last PROVE path[k] \in Names /\ path[k] = frames[k].name
    <2>1. k \in Nat /\ k \in 1..Len(frames) /\ k # 1
      BY <1>1
    <2>2. QED
      BY <2>1, FramesType DEF FramesAreEntities
  <1>3. ASSUME NEW k \in first..(last - 1) PROVE path[k + 1] \in RefersTo(path[k])
    <2>1. k \in first..last /\ k + 1 \in first..last /\ k < Len(frames)
      BY <1>0, <1>1
    <2>2. frames[k + 1].name \in Ahead(k)
      BY <2>1 DEF Ahead
    <2>3. QED
      BY <1>2, <2>1, <2>2
  <1>4. path[first] \in RefersTo(path[last])
    <2>1. first \in first..last /\ last \in first..last
      BY <1>1
    <2>2. QED
      BY <1>2, <2>1
  <1> HIDE DEF path
  <1>5. QED
    BY <1>1, <1>2, <1>3, <1>4, PathIsCircle

(* The check throws only at a name on its path, and that path is a circle  *)
(* of the texts.                                                           *)
LEMMA RecursiveIsCircle ==
  ASSUME TypeOK, FramesAreEntities, ChecksFollowTexts, NEW n \in Names, Recursive(n)
  PROVE  Circular
  <1>1. /\ frames # <<>> /\ Top.rest # <<>> /\ Head(Top.rest) = n
        /\ Checking /\ n \in current
    BY DEF Recursive, Meets, IsCurrent
  <1>2. PICK first \in 2..Len(frames) : frames[first].name = n
    BY <1>1 DEF ChecksFollowTexts
  <1>3. Len(frames) \in first..Len(frames) /\ \A i \in first..Len(frames) : i \in 2..Len(frames)
    BY FramesType
  <1>4. n \in Ahead(Len(frames))
    BY <1>1, AheadOfTop
  <1>5. QED
    BY <1>1, <1>2, <1>3, <1>4, BackOnPath DEF ChecksFollowTexts

(* Following a reference adds to the path of the check an entity that its  *)
(* last text refers to.                                                    *)
LEMMA FollowWalks ==
  ASSUME TypeOK, ChecksFollowTexts, NEW n \in Names, Follow(n)
  PROVE  ChecksFollowTexts'
  <1> DEFINE L == Len(frames)
  <1>1. /\ Checking /\ UNCHANGED <<internal, phase>>
        /\ frames # <<>> /\ Top.rest # <<>> /\ Head(Top.rest) = n
    BY DEF Follow, Meets
  <1>2. L \in Nat \ {0}
    BY <1>1, FramesType
  <1>3. /\ current \subseteq {frames[i].name : i \in 2..L}
        /\ \A i \in 2..L : Ahead(i) \subseteq RefersTo(frames[i].name)
    BY <1>1 DEF ChecksFollowTexts
  <1>4. Ahead(L) = Refs(Tail(Top.rest)) \cup {n}
    BY <1>1, AheadOfTop
  <1>5. CASE frames' = Enter(n, internal[n]) /\ current' = current \cup {n}
    <2>1. /\ Len(frames)' = L + 1 /\ frames'[L + 1].name = n
          /\ \A i \in 1..L : /\ frames'[i].name = frames[i].name
                             /\ Ahead(i)' = IF i < L THEN Ahead(i)
                                                     ELSE Refs(Tail(Top.rest)) \cup {n}
          /\ \A i : i = L + 1 => Ahead(i)' = Refs(internal[n])
      BY <1>1, <1>5, TextType, AheadOfEnter
    <2>2. current' \subseteq {frames'[i].name : i \in 2..(L + 1)}
      <3>1. ASSUME NEW m \in current PROVE \E i \in 2..(L + 1) : m = frames'[i].name
        <4>1. PICK i \in 2..L : m = frames[i].name
          BY <1>3
        <4>2. i \in 1..L /\ i \in 2..(L + 1)
          BY <1>2
        <4>3. QED
          BY <2>1, <4>1, <4>2
      <3>2. L + 1 \in 2..(L + 1)
        BY <1>2
      <3>3. QED
        BY <1>5, <2>1, <3>1, <3>2
    <2>3. ASSUME NEW i \in 2..(L + 1) PROVE Ahead(i)' \subseteq RefersTo(frames[i].name)'
      <3>1. CASE i = L + 1
        BY <1>1, <2>1, <3>1, SameTexts DEF RefersTo, Refs
      <3>2. CASE i \in 2..L
        <4>1. i \in 1..L
          BY <1>2, <3>2
        <4>2. Ahead(i)' \subseteq Ahead(i)
          BY <1>2, <1>4, <2>1, <3>2, <4>1
        <4>3. frames'[i].name = frames[i].name
          BY <2>1, <4>1
        <4>4. QED
          BY <1>1, <1>3, <3>2, <4>2, <4>3 DEF RefersTo
      <3>3. QED
        BY <1>2, <3>1, <3>2
    <2>4. QED
      BY <2>1, <2>2, <2>3 DEF ChecksFollowTexts
  <1>6. CASE frames' = Advance /\ UNCHANGED current
    <2>1. /\ Len(frames)' = L
          /\ \A i \in 1..L : /\ frames'[i].name = frames[i].name
                             /\ Ahead(i)' = IF i < L THEN Ahead(i) ELSE Refs(Tail(Top.rest))
      BY <1>1, <1>6, AheadOfAdvance
    <2>2. \A i \in 2..L : /\ frames'[i].name = frames[i].name
                          /\ Ahead(i)' \subseteq Ahead(i)
      BY <1>2, <1>4, <2>1
    <2>3. ASSUME NEW i \in 2..L PROVE Ahead(i)' \subseteq RefersTo(frames[i].name)'
      BY <1>1, <1>3, <2>2 DEF RefersTo
    <2>4. current' \subseteq {frames'[i].name : i \in 2..L}
      BY <1>3, <1>6, <2>2
    <2>5. QED
      BY <2>1, <2>3, <2>4 DEF ChecksFollowTexts
  <1>7. QED
    BY <1>5, <1>6 DEF Follow

(* Leaving an entity keeps the rest of the path.                           *)
LEMMA ReturnWalks ==
  ASSUME TypeOK, ChecksFollowTexts, Return
  PROVE  ChecksFollowTexts'
  <1> DEFINE L == Len(frames)
  <1>1. /\ frames # <<>> /\ Top.rest = <<>> /\ frames' = Below
        /\ current' = current \ {Top.name} /\ UNCHANGED internal
        /\ Checking' => Checking
    BY DEF Return, Leave, Checking
  <1>2. L \in Nat \ {0}
    BY <1>1, FramesType
  <1>3. /\ Len(frames)' = L - 1
        /\ \A i \in 1..(L - 1) : /\ frames'[i].name = frames[i].name
                                 /\ i < L - 1 => Ahead(i)' = Ahead(i)
                                 /\ i = L - 1 => Ahead(i) = Ahead(i)' \cup {Top.name}
    BY <1>1, AheadOfReturn
  <1>4. SUFFICES ASSUME Checking
                 PROVE  /\ current' \subseteq {frames'[i].name : i \in 2..(L - 1)}
                        /\ \A i \in 2..(L - 1) : Ahead(i)' \subseteq RefersTo(frames[i].name)'
    BY <1>1, <1>3 DEF ChecksFollowTexts
  <1>5. ASSUME NEW m \in current' PROVE \E i \in 2..(L - 1) : m = frames'[i].name
    <2>1. PICK i \in 2..L : m = frames[i].name
      BY <1>1, <1>4 DEF ChecksFollowTexts
    <2>2. i # L
      BY <1>1, <2>1 DEF Top
    <2>3. i \in 2..(L - 1) /\ i \in 1..(L - 1)
      BY <1>2, <2>2
    <2>4. QED
      BY <1>3, <2>1, <2>3
  <1>6. ASSUME NEW i \in 2..(L - 1) PROVE Ahead(i)' \subseteq RefersTo(frames[i].name)'
    <2>1. i \in 2..L /\ i \in 1..(L - 1)
      BY <1>2
    <2>2. Ahead(i)' \subseteq Ahead(i) /\ frames'[i].name = frames[i].name
      BY <1>2, <1>3, <2>1
    <2>3. QED
      BY <1>1, <1>4, <2>1, <2>2 DEF ChecksFollowTexts, RefersTo
  <1>7. QED
    BY <1>5, <1>6

(* Reading a character keeps the path.                                     *)
LEMMA CharacterWalks ==
  ASSUME TypeOK, ChecksFollowTexts, Character
  PROVE  ChecksFollowTexts'
  <1> DEFINE L == Len(frames)
  <1>1. /\ frames # <<>> /\ Top.rest # <<>> /\ frames' = Advance
        /\ UNCHANGED <<internal, phase, current>>
    BY DEF Character, Meets
  <1>2. L \in Nat \ {0}
    BY <1>1, FramesType
  <1>3. Len(frames)' = L /\ \A i \in 1..L :
          /\ frames'[i].name = frames[i].name
          /\ Ahead(i)' = IF i < L THEN Ahead(i) ELSE Refs(Tail(Top.rest))
    BY <1>1, AheadOfAdvance
  <1>4. Refs(Tail(Top.rest)) \subseteq Ahead(L)
    BY <1>1, AheadOfTop
  <1>5. \A i \in 2..L : frames'[i].name = frames[i].name /\ Ahead(i)' \subseteq Ahead(i)
    BY <1>2, <1>3, <1>4
  <1>6. SUFFICES ASSUME Checking
                 PROVE  /\ current' \subseteq {frames'[i].name : i \in 2..L}
                        /\ \A i \in 2..L : Ahead(i)' \subseteq RefersTo(frames[i].name)'
    BY <1>1, <1>3 DEF ChecksFollowTexts, Checking
  <1>7. current' \subseteq {frames'[i].name : i \in 2..L}
    BY <1>1, <1>5, <1>6 DEF ChecksFollowTexts
  <1>8. ASSUME NEW i \in 2..L PROVE Ahead(i)' \subseteq RefersTo(frames[i].name)'
    BY <1>1, <1>5, <1>6 DEF ChecksFollowTexts, RefersTo
  <1>9. QED
    BY <1>7, <1>8

-----------------------------------------------------------------------------
(* The check rejects only circles.                                         *)
LEMMA InitWalk == Init => WalkInv
  <1> SUFFICES ASSUME Init PROVE WalkInv
    OBVIOUS
  <1>1. FramesAreEntities /\ ChecksFollowTexts
    BY NoFrames DEF Init, FramesAreEntities, ChecksFollowTexts
  <1>2. UndeclaredHasNoText
    BY DEF Init, UndeclaredHasNoText
  <1>3. PhasesOK /\ OnlyCirclesRejected
    BY DEF Init, PhasesOK, OnlyCirclesRejected, Ended
  <1>4. QED
    BY <1>1, <1>2, <1>3, InitType DEF WalkInv

(* Every step keeps the frames of the check a path of references.          *)
LEMMA NextWalk == WalkInv /\ [Next]_vars => WalkInv'
  <1> SUFFICES ASSUME WalkInv, [Next]_vars PROVE WalkInv'
    OBVIOUS
  <1>0. TypeOK' /\ FramesAreEntities'
    BY NextType, EntityFrames DEF WalkInv
  <1> SUFFICES UndeclaredHasNoText' /\ PhasesOK' /\ ChecksFollowTexts' /\ OnlyCirclesRejected'
    BY <1>0 DEF WalkInv
  <1> USE DEF WalkInv
  <1>1. ASSUME NEW n \in Declarable, NEW text \in Texts, Declare(n, text)
        PROVE  UndeclaredHasNoText' /\ PhasesOK' /\ ChecksFollowTexts' /\ OnlyCirclesRejected'
    <2>1. /\ phase = "dtd" /\ phase' = "declaring" /\ pending'.text = text
          /\ frames' = Start(text) /\ current' = {} /\ UNCHANGED <<kind, internal>>
      BY <1>1 DEF Declare, PhasesOK
    <2>2. Len(frames)' = 1
      BY <2>1, TextType, AheadOfStart
    <2>3. ChecksFollowTexts'
      BY <2>1, <2>2 DEF ChecksFollowTexts
    <2>4. QED
      BY <2>1, <2>3 DEF UndeclaredHasNoText, PhasesOK, OnlyCirclesRejected, Ended
  <1>2. ASSUME NEW n \in Declarable, NEW type \in {"external", "notation"},
               DeclareExternal(n, type)
        PROVE  UndeclaredHasNoText' /\ PhasesOK' /\ ChecksFollowTexts' /\ OnlyCirclesRejected'
    <2>1. UndeclaredHasNoText'
      BY <1>2 DEF DeclareExternal, UndeclaredHasNoText, TypeOK
    <2>2. QED
      BY <1>2, <2>1
      DEF DeclareExternal, PhasesOK, ChecksFollowTexts, OnlyCirclesRejected, Ended, Checking
  <1>3. CASE EndDtd
    <2>1. frames = <<>> /\ current = {} /\ phase' = "checking"
            /\ UNCHANGED <<kind, internal, frames, current>>
      BY <1>3 DEF EndDtd, PhasesOK
    <2>2. ChecksFollowTexts'
      BY <2>1, NoFrames DEF ChecksFollowTexts
    <2>3. QED
      BY <2>1, <2>2 DEF UndeclaredHasNoText, PhasesOK, OnlyCirclesRejected, Ended
  <1>4. CASE SetInternal
    <2>1. current = {} /\ frames = <<>>
      BY <1>4, NoFrames DEF SetInternal, ChecksFollowTexts, Checking
    <2>2. UndeclaredHasNoText'
      BY <1>4 DEF SetInternal, UndeclaredHasNoText, TypeOK
    <2>3. QED
      BY <1>4, <2>1, <2>2
      DEF SetInternal, PhasesOK, ChecksFollowTexts, OnlyCirclesRejected, Ended, Checking
  <1>5. ASSUME NEW n \in Names, Visit(n)
        PROVE  UndeclaredHasNoText' /\ PhasesOK' /\ ChecksFollowTexts' /\ OnlyCirclesRejected'
    <2>1. /\ phase = "checking" /\ frames = <<>> /\ frames' = Start(<<n>>)
          /\ UNCHANGED <<kind, internal, phase, current>>
      BY <1>5 DEF Visit
    <2>2. Len(frames)' = 1
      BY <2>1, RefsOfShort, AheadOfStart
    <2>3. current' = {}
      BY <2>1, NoFrames DEF ChecksFollowTexts, Checking
    <2>4. ChecksFollowTexts'
      BY <2>2, <2>3 DEF ChecksFollowTexts
    <2>5. QED
      BY <2>1, <2>4 DEF UndeclaredHasNoText, PhasesOK, OnlyCirclesRejected, Ended
  <1>6. ASSUME NEW n \in Names, Recursive(n)
        PROVE  UndeclaredHasNoText' /\ PhasesOK' /\ ChecksFollowTexts' /\ OnlyCirclesRejected'
    <2>1. /\ frames # <<>> /\ Top.rest # <<>> /\ phase' = "recursive"
          /\ UNCHANGED <<kind, internal, frames>>
      BY <1>6 DEF Recursive, Meets
    <2>2. OnlyCirclesRejected'
      BY <1>6, <2>1, RecursiveIsCircle, SameTexts DEF OnlyCirclesRejected
    <2>3. QED
      BY <2>1, <2>2, SameFrames
      DEF UndeclaredHasNoText, PhasesOK, ChecksFollowTexts, Checking
  <1>7. ASSUME NEW n \in Names, Follow(n)
        PROVE  UndeclaredHasNoText' /\ PhasesOK' /\ ChecksFollowTexts' /\ OnlyCirclesRejected'
    <2>1. UndeclaredHasNoText'
      BY <1>7 DEF Follow, UndeclaredHasNoText, TypeOK
    <2>2. phase \in {"declaring", "checking"} /\ UNCHANGED <<phase, pending>>
      BY <1>7 DEF Follow, Checking
    <2>3. QED
      BY <1>7, <2>1, <2>2, FollowWalks DEF PhasesOK, OnlyCirclesRejected, Ended
  <1>8. CASE Return
    <2>1. /\ phase \notin Ended \ {"accepted"} /\ phase # "dtd"
          /\ phase' \in {phase, "accepted"} /\ UNCHANGED <<kind, internal, pending>>
      BY <1>8 DEF Return, PhasesOK
    <2>2. QED
      BY <1>8, <2>1, ReturnWalks DEF UndeclaredHasNoText, PhasesOK, OnlyCirclesRejected, Ended
  <1>9. CASE Character
    <2>1. /\ phase \notin Ended /\ phase # "dtd"
          /\ UNCHANGED <<kind, internal, phase, pending>>
      BY <1>9 DEF Character, PhasesOK, Meets, Ended
    <2>2. QED
      BY <1>9, <2>1, CharacterWalks
      DEF UndeclaredHasNoText, PhasesOK, OnlyCirclesRejected, Ended
  <1>10. ASSUME NEW text \in Texts, StartBody(text)
         PROVE  UndeclaredHasNoText' /\ PhasesOK' /\ ChecksFollowTexts' /\ OnlyCirclesRejected'
    BY <1>10
    DEF StartBody, UndeclaredHasNoText, PhasesOK, ChecksFollowTexts, OnlyCirclesRejected,
        Ended, Checking
  <1>11. ASSUME NEW n \in Names \ CharRefs,
                Undeclared(n) \/ Unreadable(n) \/ TooManyExpansions(n)
         PROVE  UndeclaredHasNoText' /\ PhasesOK' /\ ChecksFollowTexts' /\ OnlyCirclesRejected'
    <2>1. /\ phase' \in {"undeclared", "unreadable", "limit"}
          /\ frames # <<>> /\ Top.rest # <<>> /\ UNCHANGED <<kind, internal, frames>>
      BY <1>11 DEF Undeclared, Unreadable, TooManyExpansions, Fail, Meets
    <2>2. QED
      BY <2>1, SameFrames
      DEF UndeclaredHasNoText, PhasesOK, ChecksFollowTexts, OnlyCirclesRejected, Checking
  <1>12. ASSUME NEW n \in Names \ CharRefs, Expand(n)
         PROVE  UndeclaredHasNoText' /\ PhasesOK' /\ ChecksFollowTexts' /\ OnlyCirclesRejected'
    BY <1>12
    DEF Expand, UndeclaredHasNoText, PhasesOK, ChecksFollowTexts, OnlyCirclesRejected,
        Ended, Checking
  <1>13. CASE UNCHANGED vars
    <2>1. UNCHANGED <<kind, internal, phase, pending, frames, current>>
      BY <1>13 DEF vars
    <2>2. ChecksFollowTexts'
      BY <2>1, SameFrames, SameTexts DEF ChecksFollowTexts, Checking
    <2>3. PhasesOK'
      BY <2>1, SameFrames DEF PhasesOK
    <2>4. QED
      BY <2>1, <2>2, <2>3, SameTexts DEF UndeclaredHasNoText, OnlyCirclesRejected
  <1>14. QED
    BY <1>1, <1>2, <1>3, <1>4, <1>5, <1>6, <1>7, <1>8, <1>9, <1>10, <1>11, <1>12, <1>13
    DEF Next, Dtd, Work

(* A DTD is rejected as recursive only for a circle of entities that is    *)
(* there: whatever was declared, again or not, and however the table's     *)
(* order changes during the walk.                                          *)
THEOREM OnlyCirclesCorrect == Spec => []OnlyCirclesRejected
  <1>1. WalkInv => OnlyCirclesRejected
    BY DEF WalkInv
  <1>2. QED
    BY InitWalk, NextWalk, <1>1, PTL DEF Spec

-----------------------------------------------------------------------------
(* The check finds every circle, in a table that has room for all names.   *)
NamesFit == IsFiniteSet(Names) /\ Cardinality(Names) <= Capacity

(* An entity that leads to a circle refers to one that does.               *)
LEMMA LeadsOn ==
  ASSUME NEW n, LeadsToCircle(n)
  PROVE  \E m \in RefersTo(n) : LeadsToCircle(m)
  BY DEF LeadsToCircle

(* An entity without a text refers to nothing.                             *)
LEMMA WithoutTextNoCircle ==
  ASSUME NEW n, internal[n] = <<>>
  PROVE  RefersTo(n) = {} /\ ~LeadsToCircle(n)
  <1>1. RefersTo(n) = {}
    BY RefsOfShort DEF RefersTo, Refs
  <1>2. QED
    BY <1>1, LeadsOn

(* A circle starts at some entity.                                         *)
LEMMA CircleLeads == Circular => \E n \in Names : LeadsToCircle(n)
  BY DEF Circular, LeadsToCircle

(* While the check runs, an entry that it adds is met or it is not, but no *)
(* other entry is lost.                                                    *)
LEMMA NoRehash ==
  ASSUME NamesFit, NEW n \in Names
  PROVE  Iteration(n) \subseteq {todo, todo \cup {n}}
  <1>1. CASE n \notin Present /\ Cardinality(Present) = Capacity
    <2>1. Present \in SUBSET Names /\ Present # Names
      BY <1>1 DEF Present
    <2>2. Cardinality(Present) # Cardinality(Names) /\ Cardinality(Present) <= Cardinality(Names)
      BY <2>1, FS_Subset DEF NamesFit
    <2>3. Cardinality(Names) \in Nat /\ Cardinality(Present) \in Nat
      BY <2>1, FS_Subset, FS_CardinalityType DEF NamesFit
    <2>4. QED
      BY <1>1, <2>2, <2>3, EntitiesAssumption DEF NamesFit
  <1>2. QED
    BY <1>1 DEF Iteration

(* The references that the check leaves behind when it follows one lead to *)
(* no circle.                                                              *)
LEMMA FollowMissesNothing ==
  ASSUME NamesFit, WalkInv, LeftBehindIsClean, NEW n \in Names, Follow(n)
  PROVE  LeftBehindIsClean'
  <1> DEFINE L == Len(frames)
  <1> USE DEF WalkInv
  <1>1. /\ UNCHANGED <<internal, phase>> /\ todo' \in {todo, todo \cup {n}}
        /\ frames # <<>> /\ Top.rest # <<>> /\ Head(Top.rest) = n
        /\ kind' = [kind EXCEPT ![n] = IF @ = "absent" THEN "base" ELSE @]
    BY NoRehash DEF Follow, Meets
  <1>2. L \in Nat \ {0}
    BY <1>1, FramesType
  <1>3. SUFFICES ASSUME phase = "checking" PROVE LeftBehindIsClean'
    BY <1>1 DEF LeftBehindIsClean
  <1>4. Ahead(L) = Refs(Tail(Top.rest)) \cup {n}
    BY <1>1, AheadOfTop
  <1>5. ASSUME NEW m \in Present' \ todo', LeadsToCircle(m) PROVE m \in Ahead(1)
    <2>1. m \in Names /\ internal[m] # <<>>
      BY <1>5, WithoutTextNoCircle DEF Present
    <2>2. m \in Present
      BY <2>1 DEF UndeclaredHasNoText, TypeOK, Present
    <2>3. m \notin todo
      BY <1>1, <1>5
    <2>4. QED
      BY <1>3, <1>5, <2>2, <2>3 DEF LeftBehindIsClean
  <1>6. CASE frames' = Enter(n, internal[n])
    <2>1. /\ Len(frames)' = L + 1 /\ frames'[L + 1].name = n
          /\ \A i \in 1..L : /\ frames'[i].name = frames[i].name
                             /\ Ahead(i)' = IF i < L THEN Ahead(i)
                                                     ELSE Refs(Tail(Top.rest)) \cup {n}
          /\ \A i : i = L + 1 => Ahead(i)' = Refs(internal[n])
      BY <1>1, <1>6, TextType, AheadOfEnter
    <2>2. ASSUME NEW i \in 1..L PROVE Ahead(i)' = Ahead(i)
      <3>1. CASE i < L
        BY <2>1, <3>1
      <3>2. CASE i = L
        BY <1>2, <1>4, <2>1, <3>2
      <3>3. QED
        BY <1>2, <3>1, <3>2
    <2>3. frames' # <<>> /\ \A m \in Present' \ todo' : LeadsToCircle(m) => m \in Ahead(1)'
      BY <1>2, <1>5, <2>1, <2>2, EmptySeq
    <2>4. ASSUME NEW i \in 2..(L + 1), NEW m \in RefersTo(frames'[i].name), LeadsToCircle(m)
          PROVE  m \in Ahead(i)'
      <3>1. CASE i = L + 1
        BY <2>1, <2>4, <3>1 DEF RefersTo, Refs
      <3>2. CASE i \in 2..L
        <4>1. i \in 1..L
          BY <1>2, <3>2
        <4>2. m \in RefersTo(frames[i].name) /\ Ahead(i)' = Ahead(i)
          BY <2>1, <2>2, <2>4, <4>1
        <4>3. QED
          BY <1>3, <2>4, <3>2, <4>2 DEF LeftBehindIsClean
      <3>3. QED
        BY <1>2, <3>1, <3>2
    <2>5. QED
      BY <1>1, <2>1, <2>3, <2>4, SameTexts DEF LeftBehindIsClean
  <1>7. CASE frames' = Advance /\ internal[n] = <<>>
    <2>1. /\ Len(frames)' = L
          /\ \A i \in 1..L : /\ frames'[i].name = frames[i].name
                             /\ Ahead(i)' = IF i < L THEN Ahead(i) ELSE Refs(Tail(Top.rest))
      BY <1>1, <1>7, AheadOfAdvance
    <2>2. ~LeadsToCircle(n)
      BY <1>7, WithoutTextNoCircle
    <2>3. ASSUME NEW i \in 1..L, NEW m \in Ahead(i), LeadsToCircle(m) PROVE m \in Ahead(i)'
      BY <1>2, <1>4, <2>1, <2>2, <2>3
    <2>4. frames' # <<>> /\ \A m \in Present' \ todo' : LeadsToCircle(m) => m \in Ahead(1)'
      <3>1. 1 \in 1..L
        BY <1>2
      <3>2. QED
        BY <1>2, <1>5, <2>1, <2>3, <3>1, EmptySeq
    <2>5. ASSUME NEW i \in 2..L, NEW m \in RefersTo(frames'[i].name), LeadsToCircle(m)
          PROVE  m \in Ahead(i)'
      <3>1. i \in 1..L
        BY <1>2
      <3>2. m \in RefersTo(frames[i].name)
        BY <2>1, <2>5, <3>1
      <3>3. m \in Ahead(i)
        BY <1>3, <2>5, <3>2 DEF LeftBehindIsClean
      <3>4. QED
        BY <2>3, <2>5, <3>1, <3>3
    <2>6. QED
      BY <1>1, <2>1, <2>4, <2>5, SameTexts DEF LeftBehindIsClean
  <1>8. QED
    BY <1>6, <1>7 DEF Follow

(* An entity that has been read to its end leads to no circle.             *)
LEMMA ReturnMissesNothing ==
  ASSUME WalkInv, LeftBehindIsClean, Return
  PROVE  LeftBehindIsClean'
  <1> DEFINE L == Len(frames)
  <1> USE DEF WalkInv
  <1>1. /\ frames # <<>> /\ Top.rest = <<>> /\ frames' = Below
        /\ UNCHANGED <<kind, internal, todo>> /\ phase' \in {phase, "accepted"}
    BY DEF Return
  <1>2. L \in Nat \ {0}
    BY <1>1, FramesType
  <1>3. SUFFICES ASSUME phase = "checking" PROVE LeftBehindIsClean'
    BY <1>1 DEF LeftBehindIsClean
  <1>4. /\ Len(frames)' = L - 1
        /\ \A i \in 1..(L - 1) : /\ frames'[i].name = frames[i].name
                                 /\ i < L - 1 => Ahead(i)' = Ahead(i)
                                 /\ i = L - 1 => Ahead(i) = Ahead(i)' \cup {Top.name}
    BY <1>1, AheadOfReturn
  <1>5. Ahead(L) = {}
    BY <1>1, AheadOfTop
  <1>6. Present' = Present
    BY <1>1 DEF Present
  <1>7. CASE L = 1
    <2>1. \A m \in Present \ todo : ~LeadsToCircle(m)
      BY <1>3, <1>5, <1>7 DEF LeftBehindIsClean
    <2>2. 2..Len(frames)' = {}
      BY <1>4, <1>7
    <2>3. QED
      BY <1>1, <1>6, <2>1, <2>2, SameTexts DEF LeftBehindIsClean
  <1>8. CASE L # 1
    <2>1. L \in 2..L /\ L - 1 \in Nat \ {0}
      <3> HIDE DEF L
      <3>1. L \in Nat /\ L >= 2
        BY <1>2, <1>8
      <3>2. QED
        BY <3>1
    <2>2. ~LeadsToCircle(Top.name)
      BY <1>3, <1>5, <2>1, LeadsOn DEF LeftBehindIsClean, Top
    <2>3. ASSUME NEW i \in 1..(L - 1), NEW m \in Ahead(i), LeadsToCircle(m)
          PROVE  m \in Ahead(i)'
      BY <2>1, <1>4, <2>2, <2>3
    <2>4. frames' # <<>>
      BY <1>4, <2>1, EmptySeq
    <2>5. ASSUME NEW m \in Present \ todo, LeadsToCircle(m) PROVE m \in Ahead(1)'
      <3>1. 1 \in 1..(L - 1)
        BY <2>1
      <3>2. m \in Ahead(1)
        BY <1>3, <2>5 DEF LeftBehindIsClean
      <3>3. QED
        BY <2>3, <2>5, <3>1, <3>2
    <2>6. ASSUME NEW i \in 2..(L - 1), NEW m \in RefersTo(frames'[i].name), LeadsToCircle(m)
          PROVE  m \in Ahead(i)'
      <3>1. i \in 1..(L - 1) /\ i \in 2..L
        BY <2>1
      <3>2. m \in RefersTo(frames[i].name)
        BY <1>4, <2>6, <3>1
      <3>3. m \in Ahead(i)
        BY <1>3, <2>6, <3>1, <3>2 DEF LeftBehindIsClean
      <3>4. QED
        BY <2>3, <2>6, <3>1, <3>3
    <2>7. QED
      BY <1>1, <1>4, <1>6, <2>4, <2>5, <2>6, SameTexts DEF LeftBehindIsClean
  <1>9. QED
    BY <1>7, <1>8

(* A character is not a reference, so nothing is left behind with it.      *)
LEMMA CharacterMissesNothing ==
  ASSUME WalkInv, LeftBehindIsClean, Character
  PROVE  LeftBehindIsClean'
  <1> DEFINE L == Len(frames)
  <1> USE DEF WalkInv
  <1>1. /\ frames # <<>> /\ Top.rest # <<>> /\ frames' = Advance
        /\ UNCHANGED <<kind, internal, todo, phase>>
        /\ phase = "checking" => Head(Top.rest) = Char
    BY DEF Character, Meets
  <1>2. L \in Nat \ {0}
    BY <1>1, FramesType
  <1>3. SUFFICES ASSUME phase = "checking" PROVE LeftBehindIsClean'
    BY <1>1 DEF LeftBehindIsClean
  <1>4. Len(frames)' = L /\ \A i \in 1..L :
          /\ frames'[i].name = frames[i].name
          /\ Ahead(i)' = IF i < L THEN Ahead(i) ELSE Refs(Tail(Top.rest))
    BY <1>1, AheadOfAdvance
  <1>5. Refs(Tail(Top.rest)) = Ahead(L)
    BY <1>1, <1>3, AheadOfTop, EntitiesAssumption
  <1>6. \A i \in 1..L : frames'[i].name = frames[i].name /\ Ahead(i)' = Ahead(i)
    BY <1>2, <1>4, <1>5
  <1>7. frames' # <<>> /\ 1 \in 1..L /\ \A i \in 2..L : i \in 1..L
    BY <1>2, <1>4, EmptySeq
  <1>8. Present' = Present
    BY <1>1 DEF Present
  <1>9. ASSUME NEW m \in Present \ todo, LeadsToCircle(m) PROVE m \in Ahead(1)'
    BY <1>3, <1>6, <1>7, <1>9 DEF LeftBehindIsClean
  <1>10. ASSUME NEW i \in 2..L, NEW m \in RefersTo(frames'[i].name), LeadsToCircle(m)
         PROVE  m \in Ahead(i)'
    BY <1>3, <1>6, <1>7, <1>10 DEF LeftBehindIsClean
  <1>11. QED
    BY <1>1, <1>4, <1>7, <1>8, <1>9, <1>10, SameTexts DEF LeftBehindIsClean

(* Before the first DTD nothing has been checked.                          *)
LEMMA InitCircle == Init => CircleInv
  <1>1. Init => LeftBehindIsClean /\ CirclesRejected
    BY DEF Init, LeftBehindIsClean, CirclesRejected
  <1>2. QED
    BY <1>1, InitWalk DEF CircleInv

(* When no insertion rehashes the table, no step lets the check pass over a*)
(* circle.                                                                 *)
LEMMA NextCircle ==
  ASSUME NamesFit, CircleInv, [Next]_vars
  PROVE  CircleInv'
  <1>0. WalkInv /\ WalkInv'
    BY NextWalk DEF CircleInv
  <1> SUFFICES LeftBehindIsClean' /\ CirclesRejected'
    BY <1>0 DEF CircleInv
  <1> USE <1>0 DEF CircleInv
  <1>1. CASE EndDtd
    <2>1. phase' = "checking" /\ todo' = Present /\ frames' = <<>> /\ UNCHANGED kind
      BY <1>1 DEF EndDtd, ToVisit, WalkInv, PhasesOK
    <2>2. Present' \ todo' = {} /\ 2..Len(frames') = {}
      BY <2>1, EmptySeq DEF Present
    <2>3. QED
      BY <2>1, <2>2 DEF LeftBehindIsClean, CirclesRejected
  <1>2. ASSUME NEW n \in Names, Visit(n) PROVE LeftBehindIsClean' /\ CirclesRejected'
    <2>1. /\ phase = "checking" /\ frames = <<>> /\ todo' = todo \ {n}
          /\ frames' = Start(<<n>>) /\ UNCHANGED <<kind, internal, phase>>
      BY <1>2 DEF Visit
    <2>2. Len(frames)' = 1 /\ Ahead(1)' = {n} /\ Present' = Present
      BY <2>1, RefsOfShort, AheadOfStart DEF Present
    <2>3. \A m \in Present \ todo : ~LeadsToCircle(m)
      BY <2>1 DEF LeftBehindIsClean
    <2>4. frames' # <<>> /\ 2..Len(frames)' = {}
      BY <2>2, EmptySeq
    <2>5. \A m \in Present' \ todo' : LeadsToCircle(m) => m \in Ahead(1)'
      BY <2>1, <2>2, <2>3
    <2>6. QED
      BY <2>1, <2>4, <2>5, SameTexts DEF LeftBehindIsClean, CirclesRejected
  <1>3. ASSUME NEW n \in Names, Follow(n) PROVE LeftBehindIsClean' /\ CirclesRejected'
    BY <1>3, FollowMissesNothing DEF Follow, Checking, CirclesRejected
  <1>4. CASE Return
    <2>1. CirclesRejected'
      BY <1>4, SameTexts DEF Return, CirclesRejected
    <2>2. QED
      BY <1>4, <2>1, ReturnMissesNothing
  <1>5. CASE Character
    <2>1. CirclesRejected'
      BY <1>5, SameTexts DEF Character, CirclesRejected
    <2>2. QED
      BY <1>5, <2>1, CharacterMissesNothing
  <1>6. ASSUME NEW text \in Texts, StartBody(text)
        PROVE  LeftBehindIsClean' /\ CirclesRejected'
    <2>1. phase = "checking" /\ frames = <<>> /\ todo = {} /\ phase' = "body" /\ UNCHANGED internal
      BY <1>6 DEF StartBody
    <2>2. \A n \in Present : ~LeadsToCircle(n)
      BY <2>1 DEF LeftBehindIsClean
    <2>3. \A n \in Names \ Present : ~LeadsToCircle(n)
      BY WithoutTextNoCircle DEF WalkInv, UndeclaredHasNoText, Present
    <2>4. ~Circular
      BY <2>2, <2>3, CircleLeads
    <2>5. QED
      BY <2>1, <2>4, SameTexts DEF LeftBehindIsClean, CirclesRejected
  <1>7. ASSUME NEW n \in Names \ CharRefs, Expand(n)
        PROVE  LeftBehindIsClean' /\ CirclesRejected'
    BY <1>7, SameTexts DEF Expand, LeftBehindIsClean, CirclesRejected
  <1>8. CASE \/ \E n \in Declarable, text \in Texts : Declare(n, text)
             \/ \E n \in Declarable, type \in {"external", "notation"} : DeclareExternal(n, type)
             \/ SetInternal \/ \E n \in Names : Recursive(n)
             \/ \E n \in Names \ CharRefs :
                  Undeclared(n) \/ Unreadable(n) \/ TooManyExpansions(n)
    <2>1. phase' \notin {"checking", "body"}
      BY <1>8
      DEF Declare, DeclareExternal, SetInternal, Recursive, Undeclared, Unreadable,
          TooManyExpansions, Fail
    <2>2. QED
      BY <2>1 DEF LeftBehindIsClean, CirclesRejected
  <1>9. CASE UNCHANGED vars
    <2>1. UNCHANGED <<kind, internal, phase, todo, frames>>
      BY <1>9 DEF vars
    <2>2. Present' = Present
      BY <2>1 DEF Present
    <2>3. QED
      BY <2>1, <2>2, SameTexts, SameFrames DEF LeftBehindIsClean, CirclesRejected
  <1>10. QED
    BY <1>1, <1>2, <1>3, <1>4, <1>5, <1>6, <1>7, <1>8, <1>9 DEF Next, Dtd, Work

(* No document gets past its DTD with entities that contain themselves, of *)
(* whatever length the circle is and however the entities were declared.   *)
(* It takes a table that does not rehash while the check iterates over it. *)
THEOREM CirclesCorrect == ASSUME NamesFit PROVE Spec => []CirclesRejected
  <1>1. CircleInv /\ [Next]_vars => CircleInv'
    BY NextCircle
  <1>2. CircleInv => CirclesRejected
    BY DEF CircleInv
  <1>3. QED
    BY InitCircle, <1>1, <1>2, PTL DEF Spec

-----------------------------------------------------------------------------
(* The limit on the expansion and entities with a text.                    *)
NoEmptyText == <<>> \notin Texts

(* Before the first DTD nothing is expanded.                               *)
LEMMA InitExpand == Init => ExpandInv
  <1> SUFFICES ASSUME Init PROVE ExpandInv
    OBVIOUS
  <1>1. CircleInv
    BY InitCircle
  <1>2. BodyFollowsTexts /\ InternalEntitiesExpand
    BY DEF Init, BodyFollowsTexts, InternalEntitiesExpand
  <1>3. InternalHasText
    BY DEF Init, InternalHasText
  <1>4. QED
    BY <1>1, <1>2, <1>3 DEF ExpandInv

(* Every entity that is declared internal has a text with something in it. *)
LEMMA NextHasText ==
  ASSUME NoEmptyText, WalkInv, InternalHasText, [Next]_vars
  PROVE  InternalHasText'
  <1> USE DEF WalkInv
  <1>1. CASE SetInternal
    <2>1. pending.text # <<>>
      BY <1>1 DEF SetInternal, PhasesOK, NoEmptyText
    <2>2. QED
      BY <1>1, <2>1 DEF SetInternal, InternalHasText, TypeOK
  <1>2. ASSUME NEW n \in Declarable, NEW type \in {"external", "notation"},
               DeclareExternal(n, type)
        PROVE  InternalHasText'
    BY <1>2 DEF DeclareExternal, InternalHasText, TypeOK
  <1>3. ASSUME NEW n \in Names, Follow(n) PROVE InternalHasText'
    BY <1>3 DEF Follow, InternalHasText, TypeOK
  <1>4. CASE UNCHANGED <<kind, internal>>
    BY <1>4 DEF InternalHasText
  <1>5. CASE \/ \E n \in Declarable, text \in Texts : Declare(n, text)
             \/ EndDtd \/ \E n \in Names : Visit(n) \/ Recursive(n)
             \/ Return \/ Character \/ \E text \in Texts : StartBody(text)
             \/ \E n \in Names \ CharRefs :
                  Undeclared(n) \/ Unreadable(n) \/ TooManyExpansions(n) \/ Expand(n)
             \/ UNCHANGED vars
    <2>1. UNCHANGED <<kind, internal>>
      BY <1>5
      DEF Declare, EndDtd, Visit, Recursive, Return, Character, StartBody, Undeclared,
          Unreadable, TooManyExpansions, Fail, Expand, vars
    <2>2. QED
      BY <1>4, <2>1
  <1>6. QED
    BY <1>1, <1>2, <1>3, <1>5 DEF Next, Dtd, Work

(* Expanding a reference puts on the stack an entity that the text below   *)
(* refers to.                                                              *)
LEMMA ExpandFollows ==
  ASSUME WalkInv, InternalHasText, BodyFollowsTexts, NEW n \in Names \ CharRefs, Expand(n)
  PROVE  BodyFollowsTexts'
  <1> DEFINE L == Len(frames)
  <1> USE DEF WalkInv
  <1>1. /\ phase = "body" /\ UNCHANGED <<kind, internal, phase>>
        /\ frames # <<>> /\ Top.rest # <<>> /\ Head(Top.rest) = n
    BY DEF Expand, Meets
  <1>2. L \in Nat \ {0}
    BY <1>1, FramesType
  <1>3. PICK text \in Replacements(n) : frames' = Enter(n, text)
    BY DEF Expand
  <1>4. text \in Text
    BY <1>3, TextType, RefsOfShort DEF Replacements
  <1>5. kind[n] = "internal" => text = internal[n]
    BY <1>3 DEF Replacements, InternalHasText
  <1>6. /\ Len(frames)' = L + 1 /\ frames'[L + 1].name = n
        /\ \A i \in 1..L : /\ frames'[i].name = frames[i].name
                           /\ Ahead(i)' = IF i < L THEN Ahead(i)
                                                   ELSE Refs(Tail(Top.rest)) \cup {n}
        /\ \A i : i = L + 1 => Ahead(i)' = Refs(text)
    BY <1>1, <1>3, <1>4, AheadOfEnter
  <1>7. Ahead(L) = Refs(Tail(Top.rest)) \cup {n}
    BY <1>1, AheadOfTop
  <1>8. ASSUME NEW i \in 2..(L + 1)
        PROVE  /\ frames'[i].name \notin CharRefs
               /\ kind[frames'[i].name] = "internal" => Ahead(i)' \subseteq RefersTo(frames'[i].name)
    <2>1. CASE i = L + 1
      BY <1>5, <1>6, <2>1 DEF RefersTo, Refs
    <2>2. CASE i \in 2..L
      <3>1. i \in 1..L /\ frames'[i].name = frames[i].name
        BY <1>2, <1>6, <2>2
      <3>2. Ahead(i)' = Ahead(i)
        <4>1. CASE i < L
          BY <1>6, <3>1, <4>1
        <4>2. CASE i = L
          BY <1>2, <1>6, <1>7, <3>1, <4>2
        <4>3. QED
          BY <1>2, <2>2, <4>1, <4>2
      <3>3. QED
        BY <1>1, <2>2, <3>1, <3>2 DEF BodyFollowsTexts
    <2>3. QED
      BY <1>2, <2>1, <2>2
  <1>9. QED
    BY <1>1, <1>6, <1>8, SameTexts DEF BodyFollowsTexts

(* Every step in the body keeps the frames a path of references.           *)
LEMMA NextFollows ==
  ASSUME WalkInv, InternalHasText, BodyFollowsTexts, [Next]_vars
  PROVE  BodyFollowsTexts'
  <1> DEFINE L == Len(frames)
  <1> USE DEF WalkInv
  <1>1. ASSUME NEW n \in Names \ CharRefs, Expand(n) PROVE BodyFollowsTexts'
    BY <1>1, ExpandFollows
  <1>2. CASE Return
    <2>1. /\ frames # <<>> /\ frames' = Below /\ UNCHANGED <<kind, internal>>
          /\ phase' = "body" => phase = "body"
      BY <1>2 DEF Return
    <2>2. L \in Nat \ {0}
      BY <2>1, FramesType
    <2>3. /\ Len(frames)' = L - 1
          /\ \A i \in 1..(L - 1) : /\ frames'[i].name = frames[i].name
                                   /\ i < L - 1 => Ahead(i)' = Ahead(i)
                                   /\ i = L - 1 => Ahead(i) = Ahead(i)' \cup {Top.name}
      BY <2>1, AheadOfReturn
    <2>4. ASSUME phase = "body", NEW i \in 2..(L - 1)
          PROVE  /\ frames'[i].name \notin CharRefs
                 /\ kind[frames'[i].name] = "internal" =>
                      Ahead(i)' \subseteq RefersTo(frames'[i].name)
      <3>1. i \in 1..(L - 1) /\ i \in 2..L
        BY <2>2
      <3>2. frames'[i].name = frames[i].name /\ Ahead(i)' \subseteq Ahead(i)
        BY <2>2, <2>3, <3>1
      <3>3. QED
        BY <2>4, <3>1, <3>2 DEF BodyFollowsTexts
    <2>5. QED
      BY <2>1, <2>3, <2>4, SameTexts DEF BodyFollowsTexts
  <1>3. CASE Character
    <2>1. /\ frames # <<>> /\ Top.rest # <<>> /\ frames' = Advance
          /\ UNCHANGED <<kind, internal, phase>>
      BY <1>3 DEF Character, Meets
    <2>2. L \in Nat \ {0}
      BY <2>1, FramesType
    <2>3. Len(frames)' = L /\ \A i \in 1..L :
            /\ frames'[i].name = frames[i].name
            /\ Ahead(i)' = IF i < L THEN Ahead(i) ELSE Refs(Tail(Top.rest))
      BY <2>1, AheadOfAdvance
    <2>4. Refs(Tail(Top.rest)) \subseteq Ahead(L)
      BY <2>1, AheadOfTop
    <2>5. ASSUME phase = "body", NEW i \in 2..L
          PROVE  /\ frames'[i].name \notin CharRefs
                 /\ kind[frames'[i].name] = "internal" =>
                      Ahead(i)' \subseteq RefersTo(frames'[i].name)
      <3>1. frames'[i].name = frames[i].name /\ Ahead(i)' \subseteq Ahead(i)
        BY <2>2, <2>3, <2>4
      <3>2. QED
        BY <2>5, <3>1 DEF BodyFollowsTexts
    <2>6. QED
      BY <2>1, <2>3, <2>5, SameTexts DEF BodyFollowsTexts
  <1>4. ASSUME NEW text \in Texts, StartBody(text) PROVE BodyFollowsTexts'
    <2>1. Len(frames)' = 1
      BY <1>4, TextType, AheadOfStart DEF StartBody
    <2>2. QED
      BY <2>1 DEF BodyFollowsTexts
  <1>5. CASE \/ \E n \in Declarable, text \in Texts : Declare(n, text)
             \/ \E n \in Declarable, type \in {"external", "notation"} : DeclareExternal(n, type)
             \/ EndDtd \/ SetInternal
             \/ \E n \in Names : Visit(n) \/ Recursive(n) \/ Follow(n)
             \/ \E n \in Names \ CharRefs :
                  Undeclared(n) \/ Unreadable(n) \/ TooManyExpansions(n)
    <2>1. phase' # "body"
      BY <1>5
      DEF Declare, DeclareExternal, EndDtd, SetInternal, Visit, Recursive, Follow, Checking,
          Undeclared, Unreadable, TooManyExpansions, Fail
    <2>2. QED
      BY <2>1 DEF BodyFollowsTexts
  <1>6. CASE UNCHANGED vars
    BY <1>6, SameFrames, SameTexts DEF vars, BodyFollowsTexts
  <1>7. QED
    BY <1>1, <1>2, <1>3, <1>4, <1>5, <1>6 DEF Next, Dtd, Work

(* At the limit the frames, and the entity that is refused, are more than  *)
(* there are entities: were all of them internal, two would be the same.   *)
LEMMA LimitMeansExternal ==
  ASSUME NamesFit, CircleInv, BodyFollowsTexts, NEW n \in Names \ CharRefs,
         TooManyExpansions(n), Cardinality(Names \ CharRefs) <= MaxExpansion
  PROVE  \E i \in DOMAIN frames : frames[i].name # NoName /\ kind[frames[i].name] # "internal"
  <1> DEFINE L == Len(frames)
  <1> USE DEF CircleInv, WalkInv
  <1>1. /\ phase = "body" /\ L - 1 >= MaxExpansion
        /\ frames # <<>> /\ Top.rest # <<>> /\ Head(Top.rest) = n
    BY DEF TooManyExpansions, Fail, Meets, AtLimit, Depth
  <1>2. L \in Nat \ {0} /\ DOMAIN frames = 1..L
    BY <1>1, FramesType
  <1>3. SUFFICES ASSUME \A i \in 2..L : kind[frames[i].name] = "internal" PROVE FALSE
    <2>1. \A i \in 2..L : i \in 1..L /\ frames[i].name # NoName
      BY <1>2 DEF FramesAreEntities
    <2>2. QED
      BY <1>2, <2>1
  <1>4. \A i \in 2..L : /\ frames[i].name \in Names \ CharRefs
                        /\ Ahead(i) \subseteq RefersTo(frames[i].name)
    <2>1. \A i \in 2..L : i \in 1..L /\ i # 1
      BY <1>2
    <2>2. \A i \in 2..L : frames[i].name \in Names
      BY <2>1, FramesType DEF FramesAreEntities
    <2>3. QED
      BY <1>1, <1>3, <2>2 DEF BodyFollowsTexts
  <1> DEFINE path == [k \in 1..L |-> IF k < L THEN frames[k + 1].name ELSE n]
  <1>5. path \in [1..L -> Names \ CharRefs]
    <2>1. ASSUME NEW k \in 1..L, k < L PROVE frames[k + 1].name \in Names \ CharRefs
      <3>1. k + 1 \in 2..L
        BY <1>2, <2>1
      <3>2. QED
        BY <1>4, <3>1
    <2>2. QED
      BY <2>1
  <1>6. ASSUME NEW k \in 1..L PROVE path[k] \in Ahead(k)
    <2>1. CASE k < L
      <3>1. path[k] = frames[k + 1].name
        BY <2>1
      <3> HIDE DEF path
      <3>2. QED
        BY <2>1, <3>1 DEF Ahead
    <2>2. CASE k = L
      <3>1. n \in Ahead(L)
        BY <1>1, AheadOfTop
      <3>2. path[k] = n
        BY <1>2, <2>2
      <3> HIDE DEF path
      <3>3. QED
        BY <2>2, <3>1, <3>2
    <2>3. k < L \/ k = L
      <3>1. L \in Nat
        BY <1>2
      <3> HIDE DEF L
      <3>2. QED
        BY <3>1
    <2>4. QED
      BY <2>1, <2>2, <2>3
  <1>7. /\ IsFiniteSet(1..L) /\ Cardinality(1..L) = L
        /\ IsFiniteSet(Names \ CharRefs) /\ Cardinality(Names \ CharRefs) < L
    <2>1. IsFiniteSet(1..L) /\ Cardinality(1..L) = L
      BY <1>2, FS_Interval
    <2>2. IsFiniteSet(Names \ CharRefs)
      BY FS_Difference DEF NamesFit
    <2>3. Cardinality(Names \ CharRefs) \in Nat
      BY <2>2, FS_CardinalityType
    <2>4. QED
      BY <1>1, <1>2, <2>1, <2>2, <2>3, EntitiesAssumption
  <1>8. PICK x \in 1..L, y \in 1..L : x # y /\ path[x] = path[y]
    <2> HIDE DEF path
    <2>1. QED
      BY <1>5, <1>7, FS_PigeonHole
  <1>9. ASSUME NEW j \in 1..L, NEW k \in 1..L, j < k, path[j] = path[k] PROVE FALSE
    <2>1. j + 1 \in 2..L /\ k \in (j + 1)..L /\ j < L
      BY <1>2, <1>9
    <2>2. path[j] = frames[j + 1].name
      BY <2>1
    <2>3. frames[j + 1].name \in Ahead(k)
      BY <1>6, <1>9, <2>1, <2>2
    <2>4. \A i \in (j + 1)..k : i \in 2..L
      BY <1>2
    <2>5. Circular
      BY <1>4, <2>1, <2>3, <2>4, BackOnPath
    <2>6. QED
      BY <1>1, <2>5 DEF CirclesRejected
  <1>10. x < y \/ y < x
    BY <1>8
  <1>11. QED
    BY <1>8, <1>9, <1>10

(* Every step keeps the invariant of the expansion.                        *)
LEMMA NextExpand ==
  ASSUME NamesFit, NoEmptyText, ExpandInv, [Next]_vars
  PROVE  ExpandInv'
  <1> USE DEF ExpandInv
  <1>1. CircleInv' /\ BodyFollowsTexts' /\ InternalHasText'
    BY NextCircle, NextFollows, NextHasText DEF CircleInv
  <1>2. ASSUME phase' = "limit" PROVE InternalEntitiesExpand'
    <2>1. ASSUME NEW n \in Names \ CharRefs, TooManyExpansions(n)
          PROVE  InternalEntitiesExpand'
      <3>1. UNCHANGED <<kind, frames>>
        BY <2>1 DEF TooManyExpansions, Fail
      <3>2. QED
        BY <2>1, <3>1, LimitMeansExternal DEF InternalEntitiesExpand
    <2>2. CASE UNCHANGED vars
      BY <2>2 DEF vars, InternalEntitiesExpand
    <2>3. ~Return /\ ~Character
      BY <1>2 DEF Return, Character, Meets, CircleInv, WalkInv, PhasesOK, Ended
    <2>4. QED
      BY <1>2, <2>1, <2>2, <2>3
      DEF Next, Dtd, Work, Declare, DeclareExternal, EndDtd, SetInternal, Visit, Recursive,
          Follow, Checking, StartBody, Undeclared, Unreadable, Fail, Expand
  <1>3. InternalEntitiesExpand'
    BY <1>2 DEF InternalEntitiesExpand
  <1>4. QED
    BY <1>1, <1>3

(* Entities that are declared with their text are never stopped by the     *)
(* limit on the expansion, when they nest no deeper than it: if it stops a *)
(* parse, an entity that is external, or a notation, or not declared is    *)
(* being expanded.  An entity with the empty text is an exception.         *)
THEOREM ExpansionCorrect ==
  ASSUME NamesFit, NoEmptyText PROVE Spec => []InternalEntitiesExpand
  <1>1. ExpandInv /\ [Next]_vars => ExpandInv'
    BY NextExpand
  <1>2. ExpandInv => InternalEntitiesExpand
    BY DEF ExpandInv
  <1>3. QED
    BY InitExpand, <1>1, <1>2, PTL DEF Spec
=============================================================================
