\* Two XML objects, parses that throw, schema validation; no callback parses.
SPECIFICATION Spec
CONSTANTS
  d1 = d1
  d2 = d2
  Docs = {d1, d2}
  Schema = Schema
  Dtds = {x, y, z}
  NoDtd = NoDtd
  NoTree = NoTree
  Options <- MCOptions
  DefaultOptions <- MCDefaultOptions
  Word = 4
  MaxOpen = 6
  Rejected = {d1, d2, Schema}
  Resolvers = {}
  Validated = {d1, d2}
SYMMETRY Symmetry
INVARIANTS TypeOK CountersMatchNesting OneRoot
PROPERTIES ParseBindsValidator
