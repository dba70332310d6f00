------------------------ MODULE EntityMapper_proofs ------------------------
(***************************************************************************)
(* Proofs about EntityMapper, for every set of names, files and texts: the *)
(* candidates that translate() keeps are never stale, and the mapper with  *)
(* its caches implements the plain table of EntityTable.                   *)
(***************************************************************************)
EXTENDS EntityMapper, TLAPS

-----------------------------------------------------------------------------
(* An entry without declaration has no text: "absent" stands for no entry, *)
(* "base" for the one that getEntityMapping makes.  translate() and map()  *)
(* of such an entry give its name back only because of that.               *)
UndeclaredIsBare ==
  \A n \in Names : n \notin Declared => entityMappings[n] \in {Absent, Base}

IInv == TypeOK /\ UndeclaredIsBare /\ CacheCoherent

(* The mapper starts without entries, candidates and texts of files.       *)
LEMMA InitInv == Init => IInv
  <1> SUFFICES ASSUME Init PROVE IInv
    OBVIOUS
  <1>1. TypeOK
    BY DEF Init, TypeOK, Entry, Absent
  <1>2. UndeclaredIsBare
    BY DEF Init, UndeclaredIsBare
  <1>3. CacheCoherent
    BY DEF Init, CacheCoherent
  <1>4. QED
    BY <1>1, <1>2, <1>3 DEF IInv

(* Setting one entry: the candidates are forgotten.                        *)
LEMMA SetInv ==
  ASSUME IInv, NEW n \in Names, NEW entry \in Entry, Set(n, entry),
         entry.kind \notin {"absent", "base"},
         entry.kind \in {"external", "notation"} => entry.external \in Files
  PROVE  IInv'
  <1> USE DEF IInv
  <1>1. TypeOK'
    BY DEF TypeOK, Set, InvalidateTranslationCache
  <1>2. UndeclaredIsBare'
    BY DEF TypeOK, UndeclaredIsBare, Set, Declared, Absent, Base
  <1>3. CacheCoherent'
    BY DEF CacheCoherent, Set, InvalidateTranslationCache
  <1>4. QED
    BY <1>1, <1>2, <1>3

(* An entry that is set again starts from the one that is there.           *)
LEMMA EnsuredType ==
  ASSUME TypeOK, NEW n \in Names
  PROVE  Ensured(n) \in Entry
  BY DEF TypeOK, Ensured, Entry, Base, Absent

(* A call that reads files keeps the type of what has been read.           *)
LEMMA ReadType ==
  ASSUME TypeOK, NEW files, Read(files), \A f \in files : CanRead(f)
  PROVE  externalFileCache' \in [Files -> Versions \cup {Unread}]
  BY DEF TypeOK, Read, CanRead

(* The candidates are, at every call, the entries of one type that exist,  *)
(* and every declared one is among them.                                   *)
LEMMA CandidatesCoherent ==
  ASSUME IInv, NEW type
  PROVE  /\ {n \in Declared : TypeOf[n] = type} \subseteq Candidates(type)
         /\ Candidates(type) \subseteq {n \in Present : TypeOf[n] = type}
  BY DEF IInv, CacheCoherent, Candidates, UsesCache, Declared, Present

(* Every call on the mapper keeps the entries, the candidates and the      *)
(* cached texts in agreement.                                              *)
LEMMA NextInv == IInv /\ [Next]_vars => IInv'
  <1> SUFFICES ASSUME IInv, [Next]_vars PROVE IInv'
    OBVIOUS
  <1> USE DEF IInv
  <1>1. CASE Reset
    BY <1>1
    DEF Reset, InvalidateTranslationCache, TypeOK, UndeclaredIsBare, CacheCoherent,
        Entry, Absent, Declared
  <1>2. ASSUME NEW n \in Names, NEW text \in Values \cup {Empty}, SetInternal(n, text)
        PROVE  IInv'
    <2>1. [Ensured(n) EXCEPT !.kind = "internal", !.internal = text] \in Entry
      BY EnsuredType DEF Entry
    <2>2. [Ensured(n) EXCEPT !.kind = "internal", !.internal = text].kind = "internal"
      BY EnsuredType DEF Entry
    <2>3. QED
      BY <1>2, <2>1, <2>2, SetInv DEF SetInternal
  <1>3. ASSUME NEW n \in Names, NEW f \in Files, SetExternal(n, f) PROVE IInv'
    <2> DEFINE entry == [Ensured(n) EXCEPT !.kind = "external", !.external = f]
    <2>1. entry \in Entry /\ entry.kind = "external" /\ entry.external = f
      BY EnsuredType DEF Entry
    <2>2. Set(n, entry)
      BY <1>3 DEF SetExternal
    <2> HIDE DEF entry
    <2>3. QED
      BY <2>1, <2>2, SetInv
  <1>4. ASSUME NEW n \in Names, SetNotation(n) PROVE IInv'
    <2> DEFINE entry == [entityMappings[n] EXCEPT !.kind = "notation"]
    <2>1. /\ entry \in Entry /\ entry.kind = "notation"
          /\ entry.external = entityMappings[n].external
      BY DEF TypeOK, Entry
    <2>2. entityMappings[n].external \in Files
      BY <1>4 DEF TypeOK, SetNotation
    <2>3. Set(n, entry)
      BY <1>4 DEF SetNotation
    <2> HIDE DEF entry
    <2>4. QED
      BY <2>1, <2>2, <2>3, SetInv
  <1>5. ASSUME NEW n \in Names, GetEntityMapping(n) PROVE IInv'
    <2>1. entityMappings' = [entityMappings EXCEPT ![n] = Base] /\ n \notin Present
      BY <1>5 DEF GetEntityMapping
    <2>2. Base \in Entry /\ Base.kind = "base"
      BY DEF Base, Absent, Entry
    <2>3. TypeOK'
      BY <1>5, <2>1, <2>2 DEF GetEntityMapping, KeepCache, cache, TypeOK
    <2>4. Declared' = Declared /\ Present \subseteq Present'
      BY <2>1, <2>2 DEF TypeOK, Declared, Present
    <2>5. UndeclaredIsBare'
      BY <2>1, <2>4 DEF TypeOK, UndeclaredIsBare
    <2>6. CacheCoherent'
      BY <1>5, <2>4 DEF GetEntityMapping, KeepCache, cache, CacheCoherent
    <2>7. QED
      BY <2>3, <2>5, <2>6
  <1>6. ASSUME NEW n \in Names, Map(n) \/ MapFails(n) PROVE IInv'
    <2>1. UNCHANGED <<entityMappings, cache, file>>
      BY <1>6 DEF Map, MapFails, KeepCache
    <2>2. externalFileCache' \in [Files -> Versions \cup {Unread}]
      <3>1. CASE UNCHANGED externalFileCache
        BY <3>1 DEF TypeOK
      <3>2. CASE Read({entityMappings[n].external}) /\ file[entityMappings[n].external] # Missing
        BY <3>2, ReadType DEF CanRead
      <3>3. QED
        BY <1>6, <3>1, <3>2 DEF Map, MapFails
    <2>3. QED
      BY <2>1, <2>2
      DEF cache, TypeOK, UndeclaredIsBare, CacheCoherent, Declared, Present
  <1>7. ASSUME NEW names \in SUBSET Names, NEW type \in Types,
               Translate(names, type) \/ TranslateFails(names, type)
        PROVE  IInv'
    <2>1. UNCHANGED <<entityMappings, file>> /\ GetTranslationCandidates(type)
      BY <1>7 DEF Translate, TranslateFails
    <2>2. externalFileCache' \in [Files -> Versions \cup {Unread}]
      BY <1>7, ReadType DEF Translate, TranslateFails
    <2>3. TypeOK'
      BY <2>1, <2>2, CandidatesCoherent DEF TypeOK, GetTranslationCandidates, Present
    <2>4. CacheCoherent'
      BY <2>1, CandidatesCoherent
      DEF GetTranslationCandidates, CacheCoherent, Declared, Present
    <2>5. QED
      BY <2>1, <2>3, <2>4 DEF UndeclaredIsBare, Declared
  <1>8. ASSUME NEW f \in Files, WriteFile(f) PROVE IInv'
    BY <1>8
    DEF WriteFile, KeepCache, cache, TypeOK, UndeclaredIsBare, CacheCoherent,
        Declared, Present
  <1>9. CASE UNCHANGED vars
    BY <1>9
    DEF vars, TypeOK, UndeclaredIsBare, CacheCoherent, Declared, Present
  <1>10. QED
    BY <1>1, <1>2, <1>3, <1>4, <1>5, <1>6, <1>7, <1>8, <1>9 DEF Next

(* The invariant holds in every behaviour.                                 *)
THEOREM Invariant == Spec => []IInv
  BY InitInv, NextInv, PTL DEF Spec

(* The state of the mapper is well-typed: an external entity or a notation *)
(* always has the file it was declared with.                               *)
THEOREM TypeCorrect == Spec => []TypeOK
  <1>1. IInv => TypeOK
    BY DEF IInv
  <1>2. QED
    BY <1>1, Invariant, PTL

(* The candidates of translate() are never stale.                          *)
THEOREM CacheCorrect == Spec => []CacheCoherent
  <1>1. IInv => CacheCoherent
    BY DEF IInv
  <1>2. QED
    BY <1>1, Invariant, PTL

-----------------------------------------------------------------------------
(* The mapper implements the table.                                        *)
AbstractTable ==
  [n \in Names |-> IF n \in Declared THEN entityMappings[n] ELSE Undeclared]

(* What the table holds is what was declared, and never "Undeclared".      *)
LEMMA DeclaredEntries ==
  ASSUME IInv, NEW n \in Names
  PROVE  /\ n \in Declared => /\ AbstractTable[n] = entityMappings[n]
                              /\ entityMappings[n] # Undeclared
                              /\ entityMappings[n] \in Table!Declaration
         /\ n \notin Declared => /\ AbstractTable[n] = Undeclared
                                 /\ entityMappings[n] \in {Absent, Base}
         /\ entityMappings[n].kind = "external" => n \in Declared
  <1>1. entityMappings[n] \in Entry
    BY DEF IInv, TypeOK
  <1>2. \A e \in Entry : e # Undeclared
    BY EntityMapperAssumption
  <1>3. n \in Declared => entityMappings[n].kind \in {"internal", "external", "notation"}
    BY <1>1 DEF Entry, Declared
  <1>4. n \in Declared => entityMappings[n] \in Table!Declaration
    BY <1>1, <1>3 DEF Entry, Table!Declaration
  <1>5. AbstractTable[n] = IF n \in Declared THEN entityMappings[n] ELSE Undeclared
    BY DEF AbstractTable
  <1>6. QED
    BY <1>1, <1>2, <1>4, <1>5 DEF IInv, UndeclaredIsBare, Declared

(* The external reference of an external entity is a file.                 *)
LEMMA ExternalFiles ==
  ASSUME IInv, NEW names \in SUBSET Names
  PROVE  FilesOf(names) \subseteq Files
  BY DEF IInv, TypeOK, FilesOf

(* The files that a set of names refers to are those of its candidates.    *)
LEMMA SameFiles ==
  ASSUME IInv, NEW type \in Types, NEW names \in SUBSET {n \in Names : TypeOf[n] = type}
  PROVE  FilesOf(names \cap Candidates(type)) = Table!FilesOf(names)
  <1> DEFINE external == {n \in names : n \in Declared /\ entityMappings[n].kind = "external"}
  <1>1. {m \in names \cap Candidates(type) : entityMappings[m].kind = "external"} = external
    BY CandidatesCoherent, DeclaredEntries
  <1>2. {m \in names : AbstractTable[m] # Undeclared /\ AbstractTable[m].kind = "external"}
          = external
    BY DeclaredEntries
  <1>3. \A n \in external : AbstractTable[n].external = entityMappings[n].external
    BY DeclaredEntries
  <1>4. FilesOf(names \cap Candidates(type)) = {entityMappings[n].external : n \in external}
    BY <1>1 DEF FilesOf
  <1>5. Table!FilesOf(names) = {AbstractTable[n].external : n \in external}
    BY <1>2 DEF Table!FilesOf, AbstractTable
  <1>6. QED
    BY <1>3, <1>4, <1>5

(* Files are read once.                                                    *)
LEMMA FilesReadOnce ==
  ASSUME IInv, IInv', NEW files, NEW more, Read(files), files \subseteq more
  PROVE  Table!ReadFiles(more)
  BY DEF IInv, TypeOK, Read, Table!ReadFiles

(* Without entries nothing is declared, as in the abstract table.          *)
LEMMA InitRefines == Init => Table!Init
  <1> SUFFICES ASSUME Init PROVE Table!Init
    OBVIOUS
  <1>1. Declared = {}
    BY DEF Init, Declared, Absent
  <1>2. QED
    BY <1>1 DEF Init, Table!Init

(* Setting an entry declares it.                                           *)
LEMMA SetRefines ==
  ASSUME IInv, NEW n \in Names, NEW entry \in Table!Declaration, Set(n, entry)
  PROVE  Table!Declare(n)
  <1>1. entityMappings' = [entityMappings EXCEPT ![n] = entry]
    BY DEF Set
  <1>2. Declared' = Declared \cup {n}
    BY <1>1 DEF IInv, TypeOK, Declared, Table!Declaration
  <1>3. AbstractTable' = [AbstractTable EXCEPT ![n] = entry]
    BY <1>1, <1>2 DEF IInv, TypeOK, AbstractTable
  <1>4. QED
    BY <1>3 DEF Set, Table!Declare, AbstractTable

(* While no entry changes, the table does not.                             *)
LEMMA SameTable ==
  ASSUME UNCHANGED entityMappings
  PROVE  UNCHANGED AbstractTable
  BY DEF AbstractTable, Declared

(* A name is replaced as the table says, although only the candidates are  *)
(* looked at.                                                              *)
LEMMA SameReplacement ==
  ASSUME IInv, NEW type \in Types, NEW n \in Names, TypeOf[n] = type
  PROVE  Replaced(n, Candidates(type)) = Table!Replacement(n, externalFileCache')
  <1>1. CASE n \in Declared
    <2>1. n \in Candidates(type) /\ AbstractTable[n] = entityMappings[n]
            /\ entityMappings[n] # Undeclared
      BY <1>1, CandidatesCoherent, DeclaredEntries
    <2>2. entityMappings[n].kind \in {"internal", "external", "notation"}
      BY <1>1 DEF IInv, TypeOK, Entry, Declared
    <2>3. QED
      BY <2>1, <2>2 DEF Replaced, Table!Replacement, AbstractTable
  <1>2. CASE n \notin Declared
    <2>1. AbstractTable[n] = Undeclared /\ entityMappings[n] \in {Absent, Base}
      BY <1>2, DeclaredEntries
    <2>2. Replaced(n, Candidates(type)) = n
      BY <2>1 DEF Replaced, Absent, Base
    <2>3. QED
      BY <2>1, <2>2 DEF Table!Replacement, AbstractTable
  <1>3. QED
    BY <1>1, <1>2

(* A translation reads each file at most once and replaces what the        *)
(* abstract table replaces.                                                *)
LEMMA TranslateRefines ==
  ASSUME IInv, IInv', NEW type \in Types,
         NEW names \in SUBSET {n \in Names : TypeOf[n] = type}, Translate(names, type)
  PROVE  Table!Translate(names)
  <1> DEFINE files == FilesOf(names \cap Candidates(type))
  <1>1. /\ \A f \in files : CanRead(f)
        /\ Read(files)
        /\ answer' = [n \in names |-> Replaced(n, Candidates(type))]
        /\ UNCHANGED <<entityMappings, file>>
    BY DEF Translate
  <1>2. files = Table!FilesOf(names)
    BY SameFiles
  <1>3. files \subseteq Files
    BY ExternalFiles
  <1>4. Table!ReadFiles(files)
    BY <1>1, FilesReadOnce
  <1>5. \A f \in files : externalFileCache'[f] # Unread
    <2> SUFFICES ASSUME NEW f \in files PROVE externalFileCache'[f] # Unread
      OBVIOUS
    <2>1. f \in Files /\ CanRead(f)
      BY <1>1, <1>3
    <2>2. externalFileCache'[f] = IF externalFileCache[f] = Unread THEN file[f]
                                                                  ELSE externalFileCache[f]
      BY <1>1, <2>1 DEF Read
    <2>3. file[f] \in Versions \cup {Missing}
      BY <2>1 DEF IInv, TypeOK
    <2>4. QED
      BY <2>1, <2>2, <2>3, EntityMapperAssumption DEF CanRead
  <1>6. answer' = [n \in names |-> Table!Replacement(n, externalFileCache')]
    BY <1>1, SameReplacement
  <1>7. QED
    BY <1>1, <1>2, <1>4, <1>5, <1>6, SameTable DEF Table!Translate, AbstractTable

(* A translation that throws has read what an abstract one that fails has  *)
(* read.                                                                   *)
LEMMA TranslateFailsRefines ==
  ASSUME IInv, IInv', NEW type \in Types,
         NEW names \in SUBSET {n \in Names : TypeOf[n] = type},
         TranslateFails(names, type)
  PROVE  Table!TranslateFails(names)
  <1> DEFINE files == FilesOf(names \cap Candidates(type))
  <1>1. /\ \E f \in files : ~CanRead(f)
        /\ answer' = Failure
        /\ UNCHANGED <<entityMappings, file>>
    BY DEF TranslateFails
  <1>2. PICK before \in SUBSET {f \in files : CanRead(f)} : Read(before)
    BY DEF TranslateFails
  <1>3. files = Table!FilesOf(names)
    BY SameFiles
  <1>4. files \subseteq Files
    BY ExternalFiles
  <1>5. Table!ReadFiles(files)
    BY <1>2, FilesReadOnce
  <1>6. \E f \in files : externalFileCache'[f] = Unread
    BY <1>1, <1>2, <1>4 DEF Read, CanRead
  <1>7. QED
    BY <1>1, <1>3, <1>5, <1>6, SameTable DEF Table!TranslateFails, AbstractTable

(* map() answers from the cache or from the file as the abstract table     *)
(* does.                                                                   *)
LEMMA MapRefines ==
  ASSUME IInv, IInv', NEW n \in Names, Map(n)
  PROVE  Table!Map(n)
  <1> DEFINE entry == entityMappings[n]
  <1>1. n \in Present /\ UNCHANGED <<entityMappings, file>>
    BY DEF Map
  <1>2. UNCHANGED AbstractTable
    BY <1>1, SameTable
  <1>3. n \notin Declared => entry = Base
    BY <1>1, DeclaredEntries DEF Present, Absent
  <1>4. Table!FilesOf({n}) = IF entry.kind = "external" THEN {entry.external} ELSE {}
    <2>1. CASE entry.kind = "external"
      <3>1. AbstractTable[n] = entry /\ entry # Undeclared
        BY <2>1, DeclaredEntries
      <3>2. {m \in {n} : AbstractTable[m] # Undeclared /\ AbstractTable[m].kind = "external"} = {n}
        BY <2>1, <3>1
      <3>3. QED
        BY <2>1, <3>1, <3>2 DEF Table!FilesOf, AbstractTable
    <2>2. CASE entry.kind # "external"
      <3>1. {m \in {n} : AbstractTable[m] # Undeclared /\ AbstractTable[m].kind = "external"} = {}
        BY <2>2, DeclaredEntries
      <3>2. QED
        BY <2>2, <3>1 DEF Table!FilesOf, AbstractTable
    <2>3. QED
      BY <2>1, <2>2
  <1>5. ASSUME UNCHANGED externalFileCache
        PROVE  Table!ReadFiles(Table!FilesOf({n}))
    BY <1>5 DEF IInv, TypeOK, Table!ReadFiles
  <1>6. Table!Meanings(n, externalFileCache') =
          IF n \notin Declared THEN {n, Failure}
          ELSE IF entry.internal # Empty THEN {entry.internal}
          ELSE IF entry.kind # "external" THEN {n}
          ELSE Values \cup {externalFileCache'[entry.external], Failure}
    BY DeclaredEntries DEF Table!Meanings, AbstractTable
  <1>7. SUFFICES /\ Table!ReadFiles(Table!FilesOf({n}))
                 /\ \E t \in Table!Meanings(n, externalFileCache') \ {Unread} :
                      t # Failure /\ answer' = [m \in {n} |-> t]
    BY <1>2 DEF Table!Map, AbstractTable
  <1>8. CASE entry.internal # Empty /\ answer' = [m \in {n} |-> entry.internal]
               /\ UNCHANGED externalFileCache
    <2>1. entry.internal \in Values
      BY <1>8 DEF IInv, TypeOK, Entry
    <2>2. n \in Declared
      BY <1>3, <1>8 DEF Base, Absent
    <2>3. QED
      BY <1>5, <1>6, <1>8, <2>1, <2>2, EntityMapperAssumption
  <1>9. CASE entry.internal = Empty /\ entry.kind # "external"
               /\ answer' = [m \in {n} |-> n] /\ UNCHANGED externalFileCache
    BY <1>5, <1>6, <1>9, EntityMapperAssumption
  <1>10. CASE entry.internal = Empty /\ entry.kind = "external"
                /\ (\E t \in Values : answer' = [m \in {n} |-> t])
                /\ UNCHANGED externalFileCache
    <2>1. n \in Declared
      BY <1>10, DeclaredEntries
    <2>2. QED
      BY <1>5, <1>6, <1>10, <2>1, EntityMapperAssumption
  <1>11. CASE /\ entry.internal = Empty /\ entry.kind = "external"
              /\ file[entry.external] # Missing /\ Read({entry.external})
              /\ answer' = [m \in {n} |-> externalFileCache'[entry.external]]
    <2>1. n \in Declared /\ entry.external \in Files
      BY <1>11, DeclaredEntries DEF IInv, TypeOK
    <2>2. Table!ReadFiles(Table!FilesOf({n}))
      BY <1>4, <1>11, FilesReadOnce
    <2>3. externalFileCache'[entry.external] \in Versions
      BY <1>11, <2>1 DEF IInv, TypeOK, Read
    <2>4. QED
      BY <1>6, <1>11, <2>1, <2>2, <2>3, EntityMapperAssumption
  <1>12. QED
    BY <1>8, <1>9, <1>10, <1>11 DEF Map

(* map() that throws gives an answer that the abstract table allows.       *)
LEMMA MapFailsRefines ==
  ASSUME IInv, IInv', NEW n \in Names, MapFails(n)
  PROVE  Table!Map(n)
  <1>1. UNCHANGED AbstractTable
    BY SameTable DEF MapFails
  <1>2. Table!ReadFiles(Table!FilesOf({n}))
    BY DEF MapFails, IInv, TypeOK, Table!ReadFiles
  <1>3. Failure \in Table!Meanings(n, externalFileCache')
    <2>1. CASE n \notin Declared
      BY <2>1, DeclaredEntries DEF Table!Meanings, AbstractTable
    <2>2. CASE n \in Declared
      <3>1. entityMappings[n].kind = "external" /\ entityMappings[n].internal = Empty
        BY <2>2 DEF MapFails, Present, Declared
      <3>2. QED
        BY <2>2, <3>1, DeclaredEntries DEF Table!Meanings, AbstractTable
    <2>3. QED
      BY <2>1, <2>2
  <1>4. answer' = Failure /\ Failure # Unread
    BY EntityMapperAssumption DEF MapFails
  <1>5. QED
    BY <1>1, <1>2, <1>3, <1>4 DEF Table!Map, AbstractTable

(* Every step of the mapper is a step of the table, or leaves it alone.    *)
LEMMA NextRefines ==
  IInv /\ IInv' /\ [Next]_vars => [Table!Next]_<<AbstractTable, externalFileCache, answer>>
  <1> SUFFICES ASSUME IInv, IInv', [Next]_vars
               PROVE  Table!Next \/ UNCHANGED <<AbstractTable, externalFileCache, answer>>
    OBVIOUS
  <1>1. CASE Reset
    <2>1. Declared' = {}
      BY <1>1 DEF Reset, Declared, Absent
    <2>2. AbstractTable' = [n \in Names |-> Undeclared]
      BY <2>1 DEF AbstractTable
    <2>3. Table!Reset
      BY <1>1, <2>2 DEF Reset, Table!Reset, AbstractTable
    <2>4. QED
      BY <2>3 DEF Table!Next
  <1>2. ASSUME NEW n \in Names, NEW text \in Values \cup {Empty}, SetInternal(n, text)
        PROVE  Table!Next
    <2> DEFINE entry == [Ensured(n) EXCEPT !.kind = "internal", !.internal = text]
    <2>1. entry \in Table!Declaration
      BY EnsuredType DEF IInv, Entry, Table!Declaration
    <2>2. Set(n, entry)
      BY <1>2 DEF SetInternal
    <2> HIDE DEF entry
    <2>3. QED
      BY <2>1, <2>2, SetRefines DEF Table!Next
  <1>3. ASSUME NEW n \in Names, NEW f \in Files, SetExternal(n, f)
        PROVE  Table!Next
    <2> DEFINE entry == [Ensured(n) EXCEPT !.kind = "external", !.external = f]
    <2>1. entry \in Table!Declaration
      BY EnsuredType DEF IInv, Entry, Table!Declaration
    <2>2. Set(n, entry)
      BY <1>3 DEF SetExternal
    <2> HIDE DEF entry
    <2>3. QED
      BY <2>1, <2>2, SetRefines DEF Table!Next
  <1>4. ASSUME NEW n \in Names, SetNotation(n) PROVE Table!Next
    <2> DEFINE entry == [entityMappings[n] EXCEPT !.kind = "notation"]
    <2>1. entry \in Table!Declaration
      <3>1. entityMappings[n] \in Entry
        BY DEF IInv, TypeOK
      <3>2. QED
        BY <3>1 DEF Entry, Table!Declaration
    <2>2. Set(n, entry)
      BY <1>4 DEF SetNotation
    <2> HIDE DEF entry
    <2>3. QED
      BY <2>1, <2>2, SetRefines DEF Table!Next
  <1>5. ASSUME NEW n \in Names, GetEntityMapping(n)
        PROVE  UNCHANGED <<AbstractTable, externalFileCache, answer>>
    <2>1. entityMappings' = [entityMappings EXCEPT ![n] = Base] /\ n \notin Present
      BY <1>5 DEF GetEntityMapping
    <2>2. Base.kind = "base" /\ n \notin Declared
      BY <2>1 DEF Base, Absent, Present, Declared
    <2>3. Declared' = Declared
      BY <2>1, <2>2 DEF IInv, TypeOK, Declared
    <2>4. UNCHANGED AbstractTable
      BY <2>1, <2>2, <2>3 DEF IInv, TypeOK, AbstractTable
    <2>5. QED
      BY <1>5, <2>4 DEF GetEntityMapping
  <1>6. ASSUME NEW n \in Names, Map(n) \/ MapFails(n) PROVE Table!Next
    BY <1>6, MapRefines, MapFailsRefines DEF Table!Next
  <1>7. ASSUME NEW names \in SUBSET Names, NEW type \in Types,
               names \subseteq {n \in Names : TypeOf[n] = type},
               Translate(names, type) \/ TranslateFails(names, type)
        PROVE  Table!Next
    BY <1>7, TranslateRefines, TranslateFailsRefines DEF Table!Next
  <1>8. ASSUME NEW f \in Files, WriteFile(f)
        PROVE  UNCHANGED <<AbstractTable, externalFileCache, answer>>
    BY <1>8, SameTable DEF WriteFile
  <1>9. CASE UNCHANGED vars
    BY <1>9, SameTable DEF vars
  <1>10. QED
    BY <1>1, <1>2, <1>3, <1>4, <1>5, <1>6, <1>7, <1>8, <1>9 DEF Next

(* With its caches, and with the entries that the recursion check adds,    *)
(* the mapper gives the answers of a plain table of declarations, whoever  *)
(* writes the files meanwhile.                                             *)
THEOREM Refinement == Spec => ImplementsTable
  <1>1. IInv /\ IInv' /\ [Next]_vars => [Table!Next]_<<AbstractTable, externalFileCache, answer>>
    BY NextRefines
  <1>2. QED
    BY InitRefines, <1>1, Invariant, PTL DEF Spec, ImplementsTable, Table!Spec, AbstractTable
=============================================================================
