\* Two XML objects, both with text that they accept.
SPECIFICATION Spec
CONSTANTS
  d1 = d1
  d2 = d2
  Docs = {d1, d2}
  Schema = Schema
  Dtds = {x, y}
  NoDtd = NoDtd
  NoTree = NoTree
  Options <- MCOptions
  DefaultOptions <- MCDefaultOptions
  Word = 4
  MaxOpen = 6
  Rejected = {}
  Resolvers = {}
  Validated = {}
SYMMETRY Symmetry
INVARIANTS EmbeddedDtdDecides
