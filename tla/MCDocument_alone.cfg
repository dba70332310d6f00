\* One XML object, used on its own with text that it accepts.
SPECIFICATION Spec
CONSTANTS
  d1 = d1
  d2 = d2
  Docs = {d1}
  Schema = Schema
  Dtds = {x, y}
  NoDtd = NoDtd
  NoTree = NoTree
  Options <- MCWideOptions
  DefaultOptions <- MCDefaultOptions
  Word = 8
  MaxOpen = 6
  Rejected = {}
  Resolvers = {}
  Validated = {}
SYMMETRY Symmetry
INVARIANTS EmbeddedDtdDecides ValidateReadsLiveDtd
