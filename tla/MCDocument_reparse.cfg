\* One XML object that is parsed again with malformed text.
SPECIFICATION Spec
CONSTANTS
  d1 = d1
  d2 = d2
  Docs = {d1}
  Schema = Schema
  Dtds = {x, y}
  NoDtd = NoDtd
  NoTree = NoTree
  Options <- MCOptions
  DefaultOptions <- MCDefaultOptions
  Word = 4
  MaxOpen = 6
  Rejected = {d1}
  Resolvers = {}
  Validated = {}
SYMMETRY Symmetry
INVARIANTS ValidateReadsLiveDtd
