\* One XML object with a DTD, validated against a schema.
SPECIFICATION Spec
CONSTANTS
  d1 = d1
  d2 = d2
  Docs = {d1}
  Schema = Schema
  Dtds = {x, y}
  NoDtd = NoDtd
  NoTree = NoTree
  Options <- MCOptions
  DefaultOptions <- MCDefaultOptions
  Word = 4
  MaxOpen = 6
  Rejected = {}
  Resolvers = {}
  Validated = {d1}
SYMMETRY Symmetry
INVARIANTS EmbeddedDtdDecides
