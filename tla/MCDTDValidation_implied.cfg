SPECIFICATION Spec

CONSTANTS
  ElementNames = {"a", "b", "c", "d"}
  AttributeNames = {"p", "q"}
  NoValue = NoValue
  EntityNames = {"x"}
  Notations = {"x"}
  Doctype = "a"
  MaxDeclarations = 4
  MaxCalls = 2
  MaxEdits = 0
  Redeclare = FALSE
  Tokens <- Words
  NameTokens <- Names
  NmTokens <- Names
  Values <- OneOrTwoWords
  MaxChildren = 3
  Contents <- AnyContent
  Attlists <- OneOptional
  Documents <- Pair

INVARIANTS
  RejectedMeansInvalid
