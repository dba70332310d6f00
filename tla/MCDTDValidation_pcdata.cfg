SPECIFICATION Spec

CONSTANTS
  ElementNames = {"a", "b", "c", "d"}
  AttributeNames = {"p", "q"}
  NoValue = NoValue
  EntityNames = {"x"}
  Notations = {"x"}
  Doctype = "a"
  MaxDeclarations = 4
  MaxCalls = 1
  MaxEdits = 0
  Redeclare = FALSE
  Tokens <- Words
  NameTokens <- Names
  NmTokens <- Names
  Values <- OneOrTwoWords
  MaxChildren = 3
  Contents <- Specifications
  Attlists <- OneOptional
  Documents <- Interspersed

INVARIANTS
  AcceptedMeansValid
