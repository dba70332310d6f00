--------------------------- MODULE ExternalSubset ---------------------------
(***************************************************************************)
(* DTD_Impl::parseDTD: the internal subset of a DTD, then its external one, *)
(* with parameter entities and conditional sections.                       *)
(*                                                                         *)
(* A text is a sequence of tokens: declarations, references %name;, the    *)
(* "<![ keyword [" and "]]>" of a section, comments and words.  White space *)
(* and the characters of declarations are left out.  frames is the stack   *)
(* of the calls of parseInternal and parseExternalContent, each with the   *)
(* text it has still to read; the calls of parseConditional within it are  *)
(* its sections, each with the text it has collected.                      *)
(***************************************************************************)
EXTENDS SequencesExt, Integers

CONSTANTS
    Vocabulary, \* the tokens of all texts, those in entities among them
    Families,   \* pairs of a set of internal and a set of external subsets
    Specs,      \* the words that are content specifications
    MaxFrames   \* the calls that the stack of the program has room for

ASSUME VocabularyAssumption ==
    \A token \in Vocabulary :
        /\ token.kind = "entity" => token.text \in Seq(Vocabulary)
        /\ token.kind = "element" => token.spec \in Seq(Vocabulary)

ASSUME FamiliesAssumption ==
    \A family \in Families : family.internal \union family.external \subseteq Seq(Vocabulary)

ASSUME MaxFramesAssumption == MaxFrames \in Nat \ {0, 1}

VARIABLES
    subset,     \* the pair that is parsed
    stage,      \* "internal", then "external"
    frames,     \* the calls in progress, the innermost last
    elements,   \* DTD::elements: the declared names with their specifications
    attributes, \* the elements that have been given an attribute
    entities,   \* the parameter entities of the mapper, with their texts
    status      \* "parsing", "done", "error" or "exhausted"

vars == <<subset, stage, frames, elements, attributes, entities, status>>

-----------------------------------------------------------------------------
(* Tokens *)

Word(w) == [kind |-> "word", word |-> w]
Ref(name) == [kind |-> "ref", name |-> name]
Element(name, spec) == [kind |-> "element", name |-> name, spec |-> spec]
AttList(name) == [kind |-> "attlist", name |-> name]
Entity(name, text) == [kind |-> "entity", name |-> name, text |-> text]
Open(keyword) == [kind |-> "open", keyword |-> keyword]
Close == [kind |-> "close"]
Comment == [kind |-> "comment"]

Declarations == {"element", "attlist", "entity"}

-----------------------------------------------------------------------------
(* XML_EntityMapper::translate *)

\* A reference is replaced by the text of its entity, once: the references in
\* that text stay, and so does one that is not declared.
Replacement(token) ==
    IF token.kind = "ref" /\ token.name \in DOMAIN entities
    THEN entities[token.name] ELSE <<token>>

Translated(text) == FlattenSeq([i \in DOMAIN text |-> Replacement(text[i])])

\* Fault: the body of every declaration is translated.
BodyOfEither(mode, text) == Translated(text)

\* The body of a declaration in external content is translated, one in
\* internal content is not.
Body(mode, text) == IF mode = "external" THEN Translated(text) ELSE text

-----------------------------------------------------------------------------
(* XML_EntityMapper::checkForRecursion *)

\* The names that a token refers to, within declarations as well: the check
\* reads texts as characters.
Mentioned[token \in Vocabulary] ==
    CASE token.kind = "ref" -> {token.name}
      [] token.kind = "element" -> UNION {Mentioned[t] : t \in ToSet(token.spec)}
      [] token.kind = "entity" -> UNION {Mentioned[t] : t \in ToSet(token.text)}
      [] token.kind = "open" /\ token.keyword.kind = "ref" -> {token.keyword.name}
      [] OTHER -> {}

\* From every entity in a circle some other one of it, or itself, is reached.
Circular(table) ==
    \E circle \in SUBSET DOMAIN table :
        /\ circle # {}
        /\ \A name \in circle : \E t \in ToSet(table[name]) : Mentioned[t] \intersect circle # {}

-----------------------------------------------------------------------------
(* The frame at the top of the stack *)

Frame(mode, input) == [mode |-> mode, input |-> input, sections |-> <<>>]

Section(including) == [including |-> including, collected |-> <<>>]

Top == Last(frames)
Reading == status = "parsing" /\ Top.input # <<>>
Token == Head(Top.input)
Consumed == [Top EXCEPT !.input = Tail(@)]

\* Between the sections of the top frame, or in one of them.
Outside == Top.sections = <<>>
Inside == Last(Top.sections)

Advance == frames' = ReplaceAt(frames, Len(frames), Consumed)

Call(caller, callee) ==
    frames' = Append(ReplaceAt(frames, Len(frames), caller), callee)

WithSections(sections) == [Consumed EXCEPT !.sections = sections]

-----------------------------------------------------------------------------
(* Declarations *)

\* parseTagBody reads up to the first '>', quoted or not: in external content
\* the text of an entity that holds one is cut and its quote does not end.
Uncut(text) ==
    \A i \in DOMAIN text : text[i].kind \notin Declarations \union {"comment", "close"}

IsSpecification(spec) ==
    \E w \in Specs : spec = <<Word(w)>>

\* Fault: an attribute list needs no declared element.
LegalHereAnywhere(token) ==
    CASE token.kind = "element" -> IsSpecification(Body(Top.mode, token.spec))
      [] token.kind = "attlist" -> TRUE
      [] token.kind = "entity" -> Top.mode = "internal" \/ Uncut(token.text)

LegalHere(token) ==
    CASE token.kind = "element" -> IsSpecification(Body(Top.mode, token.spec))
      [] token.kind = "attlist" -> token.name \in DOMAIN elements
      [] token.kind = "entity" -> Top.mode = "internal" \/ Uncut(token.text)

\* addElement emplaces: the first declaration of an element binds.
DeclareElement ==
    /\ Reading /\ Outside /\ Token.kind = "element" /\ LegalHere(Token)
    /\ elements' = [name \in DOMAIN elements \union {Token.name} |->
                       IF name \in DOMAIN elements THEN elements[name]
                       ELSE Head(Body(Top.mode, Token.spec)).word]
    /\ Advance
    /\ UNCHANGED <<subset, stage, attributes, entities, status>>

DeclareAttributes ==
    /\ Reading /\ Outside /\ Token.kind = "attlist" /\ LegalHere(Token)
    /\ attributes' = attributes \union {Token.name}
    /\ Advance
    /\ UNCHANGED <<subset, stage, elements, entities, status>>

\* setInternal assigns: the last declaration of an entity binds.
DeclareEntity ==
    /\ Reading /\ Outside /\ Token.kind = "entity" /\ LegalHere(Token)
    /\ entities' = [name \in DOMAIN entities \union {Token.name} |->
                       IF name = Token.name THEN Body(Top.mode, Token.text) ELSE entities[name]]
    /\ Advance
    /\ UNCHANGED <<subset, stage, elements, attributes, status>>

SkipComment ==
    /\ Reading /\ Outside /\ Token.kind = "comment"
    /\ Advance
    /\ UNCHANGED <<subset, stage, elements, attributes, entities, status>>

-----------------------------------------------------------------------------
(* References between declarations *)

\* parseParameterEntityReference: the text of the entity is internal content,
\* whatever the content around it.  A buffer of no characters is refused.
Reference ==
    /\ Reading /\ Outside /\ Token.kind = "ref"
    /\ Translated(<<Token>>) # <<>>
    /\ Len(frames) < MaxFrames
    /\ Call(Consumed, Frame("internal", Translated(<<Token>>)))
    /\ UNCHANGED <<subset, stage, elements, attributes, entities, status>>

\* The stack overflows.
Exhaust ==
    /\ Reading /\ Outside /\ Token.kind = "ref"
    /\ Translated(<<Token>>) # <<>>
    /\ Len(frames) = MaxFrames
    /\ status' = "exhausted"
    /\ UNCHANGED <<subset, stage, frames, elements, attributes, entities>>

-----------------------------------------------------------------------------
(* Conditional sections: parseConditional *)

\* The keyword may be a reference, which must be declared.
Keyword(keyword) ==
    CASE keyword.kind = "word" -> keyword.word
      [] keyword.kind = "ref" ->
            IF \E w \in {"INCLUDE", "IGNORE"} :
                  keyword.name \in DOMAIN entities /\ entities[keyword.name] = <<Word(w)>>
            THEN Head(entities[keyword.name]).word ELSE "neither"

\* Fault: the keyword is read wherever the section is.
SectionKindAlways(token) == Keyword(token.keyword)

\* A section in a section that is ignored is ignored, its keyword is not read.
SectionKind(token) ==
    IF ~Outside /\ ~Inside.including THEN "IGNORE" ELSE Keyword(token.keyword)

MayOpen == Top.mode = "external" \/ ~Outside

OpenSection ==
    /\ Reading /\ Token.kind = "open" /\ MayOpen
    /\ SectionKind(Token) \in {"INCLUDE", "IGNORE"}
    /\ frames' = ReplaceAt(frames, Len(frames),
                     WithSections(Append(Top.sections, Section(SectionKind(Token) = "INCLUDE"))))
    /\ UNCHANGED <<subset, stage, elements, attributes, entities, status>>

\* What an included section holds outside of the sections in it is collected.
Collected(section, token) ==
    IF section.including THEN [section EXCEPT !.collected = Append(@, token)] ELSE section

Collect ==
    /\ Reading /\ ~Outside /\ Token.kind \notin {"open", "close"}
    /\ frames' = ReplaceAt(frames, Len(frames),
                     WithSections(Append(Front(Top.sections), Collected(Inside, Token))))
    /\ UNCHANGED <<subset, stage, elements, attributes, entities, status>>

\* Only at its end is the text of an included section parsed, and so after the
\* sections in it.  As a buffer it must hold something.
CloseIncluded ==
    /\ Reading /\ ~Outside /\ Token.kind = "close" /\ Inside.including
    /\ Inside.collected # <<>>
    /\ Call(WithSections(Front(Top.sections)), Frame("external", Inside.collected))
    /\ UNCHANGED <<subset, stage, elements, attributes, entities, status>>

CloseIgnored ==
    /\ Reading /\ ~Outside /\ Token.kind = "close" /\ ~Inside.including
    /\ frames' = ReplaceAt(frames, Len(frames), WithSections(Front(Top.sections)))
    /\ UNCHANGED <<subset, stage, elements, attributes, entities, status>>

-----------------------------------------------------------------------------
(* Ends and errors *)

EndOfText ==
    /\ status = "parsing" /\ Top.input = <<>> /\ Outside
    /\ Len(frames) > 1
    /\ frames' = Front(frames)
    /\ UNCHANGED <<subset, stage, elements, attributes, entities, status>>

\* parseDTD reads the external subset when the internal one has ended.
EndOfInternal ==
    /\ status = "parsing" /\ Top.input = <<>> /\ Outside
    /\ Len(frames) = 1 /\ stage = "internal"
    /\ stage' = "external"
    /\ frames' = <<Frame("external", subset.external)>>
    /\ UNCHANGED <<subset, elements, attributes, entities, status>>

\* The last step of parseDTD is checkForRecursion.
EndOfExternal ==
    /\ status = "parsing" /\ Top.input = <<>> /\ Outside
    /\ Len(frames) = 1 /\ stage = "external"
    /\ status' = IF Circular(entities) THEN "error" ELSE "done"
    /\ UNCHANGED <<subset, stage, frames, elements, attributes, entities>>

\* When the text ends within an included section, what it has collected is
\* parsed before the missing "]]>" is noticed.
EndInIncluded ==
    /\ status = "parsing" /\ Top.input = <<>> /\ ~Outside
    /\ Inside.including /\ Inside.collected # <<>>
    /\ Call([Top EXCEPT !.sections = Append(Front(@), Section(TRUE))],
            Frame("external", Inside.collected))
    /\ UNCHANGED <<subset, stage, elements, attributes, entities, status>>

Refused(token) ==
    \/ Outside /\ token.kind \in Declarations /\ ~LegalHere(token)
    \/ Outside /\ token.kind \in {"word", "close"}
    \/ Outside /\ token.kind = "ref" /\ Translated(<<token>>) = <<>>
    \/ token.kind = "open" /\ (MayOpen => SectionKind(token) \notin {"INCLUDE", "IGNORE"})
    \/ ~Outside /\ token.kind = "close" /\ Inside.including /\ Inside.collected = <<>>

\* An exception leaves the parse, one for a missing "]]>" among others.
Reject ==
    /\ status = "parsing"
    /\ IF Top.input = <<>> THEN ~Outside /\ Inside.collected = <<>> ELSE Refused(Token)
    /\ status' = "error"
    /\ UNCHANGED <<subset, stage, frames, elements, attributes, entities>>

Init ==
    /\ \E family \in Families :
          \E i \in family.internal, e \in family.external :
              subset = [internal |-> i, external |-> e]
    /\ stage = "internal"
    /\ frames = <<Frame("internal", subset.internal)>>
    /\ elements = <<>> /\ attributes = {} /\ entities = <<>>
    /\ status = "parsing"

Next ==
    \/ DeclareElement \/ DeclareAttributes \/ DeclareEntity \/ SkipComment
    \/ Reference \/ Exhaust
    \/ OpenSection \/ Collect \/ CloseIncluded \/ CloseIgnored
    \/ EndOfText \/ EndOfInternal \/ EndOfExternal \/ EndInIncluded
    \/ Reject

Spec == Init /\ [][Next]_vars /\ WF_vars(Next)

-----------------------------------------------------------------------------
(* Calls in progress, with the sections that are open in each.             *)
OpenSections == [including : BOOLEAN, collected : Seq(Vocabulary)]
Frames == [mode : {"internal", "external"}, input : Seq(Vocabulary), sections : Seq(OpenSections)]

(* Sections are open in external content only, an ignored one collects      *)
(* nothing, attributes belong to declared elements and specifications are   *)
(* legal, whatever references they came from (parseConditional, parseElement *)
(* and parseAttributeList).                                                  *)
TypeOK ==
    /\ subset \in [internal : Seq(Vocabulary), external : Seq(Vocabulary)]
    /\ stage \in {"internal", "external"}
    /\ status \in {"parsing", "done", "error", "exhausted"}
    /\ frames \in Seq(Frames) /\ Len(frames) \in 1 .. MaxFrames
    /\ \A i \in DOMAIN frames :
          /\ frames[i].mode = "internal" => frames[i].sections = <<>>
          /\ \A j \in DOMAIN frames[i].sections :
                ~frames[i].sections[j].including => frames[i].sections[j].collected = <<>>
    /\ elements \in [DOMAIN elements -> Specs]
    /\ attributes \subseteq DOMAIN elements
    /\ entities \in [DOMAIN entities -> Seq(Vocabulary)]
=============================================================================
