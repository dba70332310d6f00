\* Resolver callbacks of d1 that parse, validate or destroy the other object.
SPECIFICATION Spec
CONSTANTS
  d1 = d1
  d2 = d2
  Docs = {d1, d2}
  Schema = Schema
  Dtds = {x, y}
  NoDtd = NoDtd
  NoTree = NoTree
  Options <- MCOneOption
  DefaultOptions <- MCSmallest
  Word = 4
  MaxOpen = 3
  Rejected = {d1, d2, Schema}
  Resolvers = {d1}
  Validated = {d2}
SYMMETRY Symmetry
PROPERTIES FailedParseKeepsTree
