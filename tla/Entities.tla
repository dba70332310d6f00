------------------------------ MODULE Entities ------------------------------
(***************************************************************************)
(* General entities from their declarations to the end of the document:    *)
(* the recursion check of XML_EntityMapper and the expansion by the        *)
(* parser.  Both walk replacement texts depth first; the recursion is      *)
(* modelled as a stack of frames, a frame being an entity and the rest of  *)
(* its text.  A text is the sequence of what it is made of: references to  *)
(* entities and character data.                                            *)
(*                                                                         *)
(* The table also gets an entry, of type base, for every name the check    *)
(* meets and finds undeclared (getEntityMapping).  The check iterates over *)
(* the table while it does so; when an insertion makes the unordered_map   *)
(* rehash, the iterator is invalid by the standard, and in the build goes  *)
(* on in the new order of the nodes: entries may be missed or met again.   *)
(***************************************************************************)
EXTENDS Integers, Sequences, FiniteSets

CONSTANTS
  Names,        \* names that texts refer to, as the check reads them
  Declarable,   \* the names that a DTD declares
  Predefined,   \* the predefined entities
  CharRefs,     \* the character references in the texts of these
  Char,         \* character data in a text
  Texts,        \* replacement texts: sequences over Names and Char
  NoName,       \* the name of a frame that is not an entity's
  Capacity,     \* the table rehashes when it grows beyond this many entries
  MaxExpansion, \* ParseOptions::maxEntityExpansionDepth
  Readable      \* TRUE: external entities are allowed or have a resolver

ASSUME EntitiesAssumption ==
  /\ Texts \subseteq Seq(Names \cup {Char})
  /\ Char \notin Names /\ NoName \notin Names
  /\ Declarable \cup Predefined \subseteq Names \ CharRefs
  /\ CharRefs \subseteq Names /\ CharRefs # {}
  /\ Capacity \in Nat /\ MaxExpansion \in Nat /\ Readable \in BOOLEAN

VARIABLES
  kind,      \* the XML_EntityMapping::mappingType of each name
  internal,  \* its `internal' text; setExternal and setNotation keep it
  phase,     \* what the parse is doing, or how it ended
  pending,   \* the declaration whose text is being checked
  todo,      \* the entries that the iteration of checkForRecursion will meet
  frames,    \* the recursion: records [name, rest], the innermost last
  current    \* currentEntities of the check

vars == <<kind, internal, phase, pending, todo, frames, current>>

Ended == {"accepted", "recursive", "undeclared", "limit", "unreadable"}
Frame == [name : Names \cup {NoName}, rest : Seq(Names \cup {Char})]

Present == {n \in Names : kind[n] # "absent"}
Top == frames[Len(frames)]
Below == SubSeq(frames, 1, Len(frames) - 1)
AdvanceStays == frames
Advance == [frames EXCEPT ![Len(frames)].rest = Tail(@)]
Meets(n) == frames # <<>> /\ Top.rest # <<>> /\ Head(Top.rest) = n
Enter(n, text) == Append(Advance, [name |-> n, rest |-> text])
Start(text) == <<[name |-> NoName, rest |-> text]>>

-----------------------------------------------------------------------------
(* resetToDefault: the text of a predefined entity is a character          *)
(* reference, which the check takes for the name of an entity.             *)
Init ==
  /\ kind = [n \in Names |-> IF n \in Predefined THEN "internal" ELSE "absent"]
  /\ internal \in [Names -> {<<>>} \cup {<<r>> : r \in CharRefs}]
  /\ \A n \in Names : internal[n] = <<>> <=> n \notin Predefined
  /\ phase = "dtd"
  /\ pending = [name |-> NoName, text |-> <<>>]
  /\ todo = {}
  /\ frames = <<>>
  /\ current = {}

(* parseEntity with a value: the text is checked first (a text without     *)
(* references is not, which makes no difference).                          *)
Declare(n, text) ==
  /\ phase = "dtd"
  /\ phase' = "declaring"
  /\ pending' = [name |-> n, text |-> text]
  /\ frames' = Start(text)
  /\ UNCHANGED <<kind, internal, todo, current>>

SetInternal ==
  /\ phase = "declaring"
  /\ frames = <<>>
  /\ kind' = [kind EXCEPT ![pending.name] = "internal"]
  /\ internal' = [internal EXCEPT ![pending.name] = pending.text]
  /\ phase' = "dtd"
  /\ pending' = [name |-> NoName, text |-> <<>>]
  /\ UNCHANGED <<todo, frames, current>>

(* parseEntity with an external identifier, and with NDATA.                *)
DeclareExternal(n, type) ==
  /\ phase = "dtd"
  /\ kind' = [kind EXCEPT ![n] = type]
  /\ UNCHANGED <<internal, phase, pending, todo, frames, current>>

(* checkForRecursion: one round of its loop for each entry it meets.       *)
NoneToVisit == {}
ToVisit == Present

EndDtd ==
  /\ phase = "dtd"
  /\ phase' = "checking"
  /\ todo' = ToVisit
  /\ UNCHANGED <<kind, internal, pending, frames, current>>

Visit(n) ==
  /\ phase = "checking"
  /\ frames = <<>>
  /\ n \in todo
  /\ todo' = todo \ {n}
  /\ frames' = Start(<<n>>)
  /\ UNCHANGED <<kind, internal, phase, pending, current>>

(* The entries the iteration will still meet after getEntityMapping(n).    *)
Iteration(n) ==
  IF n \in Present \/ phase = "declaring" THEN {todo}
  ELSE IF Cardinality(Present) = Capacity THEN SUBSET (Present \cup {n})
  ELSE {todo, todo \cup {n}}

(* recurseOverEntityReference, and the same loop in checkRecursiveEntity.  *)
Checking == phase \in {"declaring", "checking"}

IsCurrent(n) == n \in current

Recursive(n) ==
  /\ Checking
  /\ Meets(n)
  /\ IsCurrent(n)
  /\ phase' = "recursive"
  /\ UNCHANGED <<kind, internal, pending, todo, frames, current>>

Follow(n) ==
  /\ Checking
  /\ Meets(n)
  /\ ~IsCurrent(n)
  /\ kind' = [kind EXCEPT ![n] = IF @ = "absent" THEN "base" ELSE @]
  /\ todo' \in Iteration(n)
  /\ \/ /\ internal[n] # <<>>
        /\ frames' = Enter(n, internal[n])
        /\ current' = current \cup {n}
     \/ /\ internal[n] = <<>>
        /\ frames' = Advance
        /\ UNCHANGED current
  /\ UNCHANGED <<internal, phase, pending>>

LeaveKeepsCurrent(names) == UNCHANGED current
LeaveAssigns(names) == current' = names
Leave(names) == current' = current \ names

Return ==
  /\ frames # <<>>
  /\ Top.rest = <<>>
  /\ frames' = Below
  /\ Leave({Top.name})
  /\ phase' = IF phase = "body" /\ Below = <<>> THEN "accepted" ELSE phase
  /\ UNCHANGED <<kind, internal, pending, todo>>

Character ==
  /\ \/ Meets(Char) /\ phase \notin Ended
     \/ phase = "body" /\ \E r \in CharRefs : Meets(r)
  /\ frames' = Advance
  /\ UNCHANGED <<kind, internal, phase, pending, todo, current>>

-----------------------------------------------------------------------------
(* The body of the document, a text as well, is parsed after the check.    *)
StartBody(text) ==
  /\ phase = "checking"
  /\ frames = <<>>
  /\ todo = {}
  /\ phase' = "body"
  /\ frames' = Start(text)
  /\ UNCHANGED <<kind, internal, pending, todo, current>>

(* XML_EntityMapper::map: a non-empty text comes before an external one;   *)
(* an entry with neither maps to the reference itself.                     *)
Replacements(n) ==
  IF internal[n] # <<>> THEN {internal[n]}
  ELSE IF kind[n] = "external" THEN Texts
  ELSE {<<n>>}

Fail(n, how) ==
  /\ phase = "body"
  /\ Meets(n)
  /\ phase' = how
  /\ UNCHANGED <<kind, internal, pending, todo, frames, current>>

Undeclared(n) == kind[n] = "absent" /\ Fail(n, "undeclared")

(* Not allowed, or no such file: the file system decides.                  *)
Unreadable(n) ==
  kind[n] = "external" /\ internal[n] = <<>> /\ Fail(n, "unreadable")

CanRead(n) == kind[n] = "external" /\ internal[n] = <<>> => Readable
Depth == Len(frames) - 1
AtLimitEarly == Depth + 1 >= MaxExpansion
AtLimit == Depth >= MaxExpansion

TooManyExpansions(n) ==
  kind[n] # "absent" /\ CanRead(n) /\ AtLimit /\ Fail(n, "limit")

(* appendEntityOrContent.                                                  *)
Expand(n) ==
  /\ phase = "body"
  /\ Meets(n)
  /\ kind[n] # "absent" /\ CanRead(n)
  /\ ~AtLimit
  /\ \E text \in Replacements(n) : frames' = Enter(n, text)
  /\ UNCHANGED <<kind, internal, phase, pending, todo, current>>

-----------------------------------------------------------------------------
Dtd ==
  \/ \E n \in Declarable, text \in Texts : Declare(n, text)
  \/ \E n \in Declarable, type \in {"external", "notation"} : DeclareExternal(n, type)

Work ==
  \/ SetInternal
  \/ \E n \in Names : Visit(n) \/ Recursive(n) \/ Follow(n)
  \/ Return
  \/ Character
  \/ \E text \in Texts : StartBody(text)
  \/ \E n \in Names \ CharRefs :
       Undeclared(n) \/ Unreadable(n) \/ TooManyExpansions(n) \/ Expand(n)

Next == Dtd \/ EndDtd \/ Work

Spec == Init /\ [][Next]_vars

(* The parser is one thread that runs until it is done, and a DTD ends.    *)
FairSpec == Spec /\ WF_vars(Work) /\ SF_vars(EndDtd)

-----------------------------------------------------------------------------
TypeOK ==
  /\ kind \in [Names -> {"absent", "base", "internal", "external", "notation"}]
  /\ internal \in [Names -> Texts \cup {<<>>} \cup {<<r>> : r \in CharRefs}]
  /\ phase \in {"dtd", "declaring", "checking", "body"} \cup Ended
  /\ pending \in [name : Names \cup {NoName}, text : Texts \cup {<<>>}]
  /\ todo \subseteq Names
  /\ frames \in Seq(Frame)
  /\ current \subseteq Names

(* The entities that n refers to with its own text, and whether some of    *)
(* them refer to each other in a circle.                                   *)
RefersTo(n) == {internal[n][i] : i \in DOMAIN internal[n]} \cap Names
Circular == \E C \in SUBSET Names :
  C # {} /\ \A n \in C : RefersTo(n) \cap C # {}

(* No document gets past its DTD with entities that contain themselves:    *)
(* checkForRecursion finds every circle, whichever way the entities were   *)
(* declared and declared again, and in whichever order the table is met.   *)
CirclesRejected == phase = "body" => ~Circular

(* A DTD is rejected as recursive only for a circle that is there, not for *)
(* an entity that is referred to twice or declared again.                  *)
OnlyCirclesRejected == phase = "recursive" => Circular

(* The limit on the expansion never stops entities that are declared with  *)
(* their text and nest no deeper than the limit: what it is for is what    *)
(* the check cannot see, above all the text of an external entity.         *)
InternalEntitiesExpand ==
  phase = "limit" /\ Cardinality(Names \ CharRefs) <= MaxExpansion =>
    \E i \in DOMAIN frames : /\ frames[i].name # NoName
                             /\ kind[frames[i].name] # "internal"

(* A reference to an entity without declaration ends the parse as one to   *)
(* an undeclared entity.                                                   *)
UndeclaredIsReported ==
  \A n \in Names : phase = "body" /\ Meets(n) => kind[n] # "base"

(* Every parse ends, whatever the entities refer to: itself through an     *)
(* external text, an undeclared entity, each other.                        *)
Terminates == <>(phase \in Ended)

=============================================================================
