---------------------------- MODULE EntityMapper ----------------------------
(***************************************************************************)
(* XML_EntityMapper with its caches.  translate() works on a list of       *)
(* candidates: pointers to the entries of one type (the first character of *)
(* the name), kept until an entry is set.  The contents of external files  *)
(* are kept for the life of the mapper.  What is translated is abstracted  *)
(* to the set of names it refers to, the result to what each is replaced   *)
(* by.  The calls of one parse are those between two resets.               *)
(***************************************************************************)
EXTENDS Naturals, FiniteSets

CONSTANTS
  Names,      \* names of entities, "&name;" or "%name;"
  TypeOf,     \* the first character of each name
  Types,      \* the types of translation
  Files,      \* system identifiers of files
  Versions,   \* what a file may contain
  Values,     \* non-empty internal texts, and the answers of a resolver
  Empty,      \* the empty text
  Undeclared, Unread, Missing, NoAnswer, Failure,
  NoFile,     \* no external reference
  Writes      \* TRUE: somebody else writes the files

Entry == [kind : {"absent", "base", "internal", "external", "notation"},
          internal : Values \cup {Empty}, external : Files \cup {NoFile}]

ASSUME EntityMapperAssumption ==
  /\ TypeOf \in [Names -> Types] /\ "" \notin Types
  /\ Undeclared \notin Entry
  /\ Unread \notin Names \cup Values \cup Versions \cup {Empty, Missing, Failure}
  /\ Failure \notin Names \cup Values \cup Versions
  /\ Missing \notin Versions
  /\ Empty \notin Values /\ NoFile \notin Files
  /\ Writes \in BOOLEAN

VARIABLES
  entityMappings,        \* entries [kind, internal, external]
  translationCandidates, \* the names whose entries are candidates
  translationType,
  translationCacheValid,
  externalFileCache,     \* what has been read of each file
  file,                  \* what the files contain now
  answer                 \* the result of the last call

vars == <<entityMappings, translationCandidates, translationType,
          translationCacheValid, externalFileCache, file, answer>>
cache == <<translationCandidates, translationType, translationCacheValid>>

-----------------------------------------------------------------------------
Absent == [kind |-> "absent", internal |-> Empty, external |-> NoFile]
Base == [Absent EXCEPT !.kind = "base"]
Present == {n \in Names : entityMappings[n].kind # "absent"}
Ensured(n) == IF n \in Present THEN entityMappings[n] ELSE Base

Init ==
  /\ entityMappings = [n \in Names |-> Absent]
  /\ translationCandidates = {}
  /\ translationType = ""
  /\ translationCacheValid = FALSE
  /\ externalFileCache = [f \in Files |-> Unread]
  /\ file \in [Files -> Versions \cup {Missing}]
  /\ answer = NoAnswer

KeepCache == UNCHANGED cache
InvalidateTranslationCache ==
  /\ translationCacheValid' = FALSE
  /\ translationCandidates' = {}
  /\ UNCHANGED translationType

(* The predefined entities are set at once, by the same call.              *)
Reset ==
  /\ entityMappings' = [n \in Names |-> Absent]
  /\ InvalidateTranslationCache
  /\ answer' = NoAnswer
  /\ UNCHANGED <<externalFileCache, file>>

Set(n, entry) ==
  /\ entityMappings' = [entityMappings EXCEPT ![n] = entry]
  /\ InvalidateTranslationCache
  /\ answer' = NoAnswer
  /\ UNCHANGED <<externalFileCache, file>>

SetInternal(n, text) == Set(n, [Ensured(n) EXCEPT !.kind = "internal", !.internal = text])
SetExternal(n, f) == Set(n, [Ensured(n) EXCEPT !.kind = "external", !.external = f])
SetNotation(n) ==
  /\ entityMappings[n].kind = "external"
  /\ Set(n, [entityMappings[n] EXCEPT !.kind = "notation"])

(* getEntityMapping of the recursion check: an entry, and no invalidation. *)
GetEntityMapping(n) ==
  /\ n \notin Present
  /\ entityMappings' = [entityMappings EXCEPT ![n] = Base]
  /\ KeepCache
  /\ UNCHANGED <<externalFileCache, file, answer>>

-----------------------------------------------------------------------------
(* getCachedFileMapping, for a set of files.                               *)
Read(files) ==
  externalFileCache' = [f \in Files |->
    IF f \in files /\ externalFileCache[f] = Unread THEN file[f]
                                                    ELSE externalFileCache[f]]
CanReadAlways(f) == TRUE
CanRead(f) == externalFileCache[f] # Unread \/ file[f] # Missing

UsesCacheOfAnyType(type) == translationCacheValid
UsesCache(type) == translationCacheValid /\ translationType = type

Candidates(type) ==
  IF UsesCache(type) THEN translationCandidates
                     ELSE {n \in Present : TypeOf[n] = type}

GetTranslationCandidates(type) ==
  /\ translationCandidates' = Candidates(type)
  /\ translationType' = type
  /\ translationCacheValid' = TRUE

FilesOf(names) == {entityMappings[n].external :
                     n \in {m \in names : entityMappings[m].kind = "external"}}

(* The entry of a candidate is read through the pointer.                   *)
Replaced(n, candidates) ==
  IF n \notin candidates THEN n
  ELSE CASE entityMappings[n].kind = "internal" -> entityMappings[n].internal
         [] entityMappings[n].kind = "external" ->
              externalFileCache'[entityMappings[n].external]
         [] OTHER -> n

Translate(names, type) ==
  LET candidates == Candidates(type)
      files == FilesOf(names \cap candidates)
  IN /\ GetTranslationCandidates(type)
     /\ \A f \in files : CanRead(f)
     /\ Read(files)
     /\ answer' = [n \in names |-> Replaced(n, candidates)]
     /\ UNCHANGED <<entityMappings, file>>

(* A file that cannot be opened ends the call; those before it are kept.   *)
TranslateFails(names, type) ==
  LET files == FilesOf(names \cap Candidates(type))
  IN /\ GetTranslationCandidates(type)
     /\ \E f \in files : ~CanRead(f)
     /\ \E before \in SUBSET {f \in files : CanRead(f)} : Read(before)
     /\ answer' = Failure
     /\ UNCHANGED <<entityMappings, file>>

(* map: does not look at the candidates.                                   *)
Map(n) ==
  /\ n \in Present
  /\ LET entry == entityMappings[n]
     IN \/ /\ entry.internal # Empty
           /\ answer' = [m \in {n} |-> entry.internal]
           /\ UNCHANGED externalFileCache
        \/ /\ entry.internal = Empty /\ entry.kind # "external"
           /\ answer' = [m \in {n} |-> n]
           /\ UNCHANGED externalFileCache
        \/ /\ entry.internal = Empty /\ entry.kind = "external"
           /\ \/ \E t \in Values : /\ answer' = [m \in {n} |-> t]
                                   /\ UNCHANGED externalFileCache
              \/ /\ file[entry.external] # Missing
                 /\ Read({entry.external})
                 /\ answer' = [m \in {n} |-> externalFileCache'[entry.external]]
  /\ KeepCache
  /\ UNCHANGED <<entityMappings, file>>

(* No such entity, external entities not allowed, or no such file.         *)
MapFails(n) ==
  /\ n \in Present => /\ entityMappings[n].kind = "external"
                      /\ entityMappings[n].internal = Empty
  /\ answer' = Failure
  /\ KeepCache
  /\ UNCHANGED <<entityMappings, externalFileCache, file>>

WriteFile(f) ==
  /\ Writes
  /\ file' \in {[file EXCEPT ![f] = v] : v \in Versions \cup {Missing}}
  /\ KeepCache
  /\ UNCHANGED <<entityMappings, externalFileCache, answer>>

Next ==
  \/ Reset
  \/ \E n \in Names, text \in Values \cup {Empty} : SetInternal(n, text)
  \/ \E n \in Names, f \in Files : SetExternal(n, f)
  \/ \E n \in Names : SetNotation(n) \/ GetEntityMapping(n) \/ Map(n) \/ MapFails(n)
  \/ \E names \in SUBSET Names \ {{}}, type \in Types :
       names \subseteq {n \in Names : TypeOf[n] = type}
         /\ (Translate(names, type) \/ TranslateFails(names, type))
  \/ \E f \in Files : WriteFile(f)

Spec == Init /\ [][Next]_vars

-----------------------------------------------------------------------------
TypeOK ==
  /\ entityMappings \in [Names -> Entry]
  /\ \A n \in Names : entityMappings[n].kind \in {"external", "notation"} =>
       entityMappings[n].external \in Files
  /\ translationCandidates \subseteq Names
  /\ translationType \in Types \cup {""}
  /\ translationCacheValid \in BOOLEAN
  /\ externalFileCache \in [Files -> Versions \cup {Unread}]
  /\ file \in [Files -> Versions \cup {Missing}]

Declared == {n \in Names : entityMappings[n].kind \notin {"absent", "base"}}

(* The candidates that translate() works on are entries that exist, and    *)
(* every declared entity of their type is among them: whatever was set,    *)
(* reset, or added by the recursion check since they were collected.       *)
CacheCoherent ==
  translationCacheValid =>
    /\ {n \in Declared : TypeOf[n] = translationType} \subseteq translationCandidates
    /\ translationCandidates \subseteq {n \in Present : TypeOf[n] = translationType}

(* With its caches the mapper gives the answers of a plain table, in which *)
(* the entries that the recursion check adds do not count.                 *)
Table == INSTANCE EntityTable WITH
  table <- [n \in Names |-> IF n \in Declared THEN entityMappings[n] ELSE Undeclared],
  read <- externalFileCache

ImplementsTable == Table!Spec

(* An entity keeps its first declaration when it is declared again.        *)
FirstDeclarationBinds ==
  [][\A n \in Declared : entityMappings'[n] # entityMappings[n] =>
        \/ n \notin Declared'
        \/ entityMappings[n].kind = "external" /\ entityMappings'[n].kind = "notation"]_vars

=============================================================================
