----------------------------- MODULE EntityTable -----------------------------
(***************************************************************************)
(* What an entity mapper promises, without its caches: a table of entity   *)
(* declarations, and answers that are read from the table as it is.  The   *)
(* text of an external entity is that of its file when the mapper first    *)
(* read it.                                                                *)
(***************************************************************************)
CONSTANTS Names, Files, NoFile, Versions, Values, Empty, Undeclared, Unread,
          NoAnswer, Failure

VARIABLES
  table,   \* the declaration of each name, or Undeclared
  read,    \* the version of each file that the mapper has read, or Unread
  answer   \* the result of the last operation: what replaces each name

Declaration ==
  [kind : {"internal", "external", "notation"}, internal : Values \cup {Empty},
   external : Files \cup {NoFile}]

Init ==
  /\ table = [n \in Names |-> Undeclared]
  /\ read = [f \in Files |-> Unread]
  /\ answer = NoAnswer

Reset ==
  /\ table' = [n \in Names |-> Undeclared]
  /\ answer' = NoAnswer
  /\ UNCHANGED read

Declare(n) ==
  /\ \E d \in Declaration : table' = [table EXCEPT ![n] = d]
  /\ answer' = NoAnswer
  /\ UNCHANGED read

ReadFiles(files) ==
  /\ read' \in [Files -> Versions \cup {Unread}]
  /\ \A f \in Files : read[f] # Unread \/ f \notin files => read'[f] = read[f]

(* translate: a name with a text becomes that text, any other stays.       *)
Replacement(n, version) ==
  IF table[n] = Undeclared \/ table[n].kind = "notation" THEN n
  ELSE IF table[n].kind = "internal" THEN table[n].internal
  ELSE version[table[n].external]

FilesOf(names) == {table[n].external :
                     n \in {m \in names : table[m] # Undeclared
                                          /\ table[m].kind = "external"}}

Translate(names) ==
  /\ ReadFiles(FilesOf(names))
  /\ \A f \in FilesOf(names) : read'[f] # Unread
  /\ answer' = [n \in names |-> Replacement(n, read')]
  /\ UNCHANGED table

TranslateFails(names) ==
  /\ ReadFiles(FilesOf(names))
  /\ \E f \in FilesOf(names) : read'[f] = Unread
  /\ answer' = Failure
  /\ UNCHANGED table

(* map: of one name; a resolver may answer for an external entity, and an  *)
(* undeclared name is an error or stands for itself.                       *)
Meanings(n, version) ==
  IF table[n] = Undeclared THEN {n, Failure}
  ELSE IF table[n].internal # Empty THEN {table[n].internal}
  ELSE IF table[n].kind # "external" THEN {n}
  ELSE Values \cup {version[table[n].external], Failure}

Map(n) ==
  /\ ReadFiles(FilesOf({n}))
  /\ \E t \in Meanings(n, read') \ {Unread} :
       answer' = IF t = Failure THEN Failure ELSE [m \in {n} |-> t]
  /\ UNCHANGED table

Next ==
  \/ Reset
  \/ \E n \in Names : Declare(n) \/ Map(n)
  \/ \E names \in SUBSET Names : Translate(names) \/ TranslateFails(names)

Spec == Init /\ [][Next]_<<table, read, answer>>
=============================================================================
