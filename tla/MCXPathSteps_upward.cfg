\* A path with a parent step.
SPECIFICATION Spec
CONSTANTS
  Names <- NameSet
  AttributeNames = {"k", "l"}
  Values = {"v", "w"}
  Documents <- SmallDocuments
  Expressions <- UpwardPaths
INVARIANTS PathsSelect
CHECK_DEADLOCK FALSE
