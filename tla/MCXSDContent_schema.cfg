SPECIFICATION Spec

CONSTANTS
  Names <- NameSet
  LocalName <- Local
  AttributeNames = {"k"}
  Texts = {"x", "y", "1", "20"}
  Length <- Lengths
  Number <- Numbers
  NaN = NaN
  NoText = NoText
  Builtins = {"word", "integer"}
  Accepts <- AcceptedTexts
  TypeNames = {"word", "integer", "string", "Outer", "Inner", "Short", "Base", "Missing"}
  NoType = NoType
  Unbounded = Unbounded
  Omitted = Omitted
  Schemas <- SmallSchemas
  Documents <- SmallTrees

INVARIANTS
  TypeOK
  RejectedMeansInvalid
  AcceptedMeansCounted

CHECK_DEADLOCK FALSE
