\* The evaluation of downward paths on every small document.
SPECIFICATION Spec
CONSTANTS
  Names <- NameSet
  AttributeNames = {"k", "l"}
  Values = {"v", "w"}
  Documents <- SmallDocuments
  Expressions <- SmallExpressions
INVARIANTS TypeOK DownwardPathsSelect ChildPathsInDocumentOrder
CHECK_DEADLOCK FALSE
