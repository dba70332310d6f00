\* A resolver callback of d1 that parses d2: with -continue, TLC finds both
\* invariants violated.
SPECIFICATION Spec
CONSTANTS
  d1 = d1
  d2 = d2
  Docs = {d1, d2}
  Schema = Schema
  Dtds = {x, y}
  NoDtd = NoDtd
  NoTree = NoTree
  Options <- MCOptions
  DefaultOptions <- MCDefaultOptions
  Word = 4
  MaxOpen = 6
  Rejected = {d1}
  Resolvers = {d1}
  Validated = {}
SYMMETRY Symmetry
INVARIANTS OneRoot NestingWithinLimit
