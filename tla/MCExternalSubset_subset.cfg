SPECIFICATION Spec
CONSTANTS
    Vocabulary <- MCVocabulary
    Families <- MCFamilies
    Specs <- MCSpecs
    MaxFrames = 6
INVARIANTS
    TypeOK
    DeclaredAsWritten
    LegalIsRead
CHECK_DEADLOCK FALSE
