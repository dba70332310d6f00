\* Every order of the calls, with a file that changes.
SPECIFICATION Spec
CONSTANTS
  p = p
  q = q
  e = e
  v1 = v1
  v2 = v2
  Names = {p, q, e}
  TypeOf <- MCTypeOf
  Types = {"%", "&"}
  Files = {x}
  Versions = {v1, v2}
  Values = {t}
  Empty = Empty
  Undeclared = Undeclared
  Unread = Unread
  Missing = Missing
  NoAnswer = NoAnswer
  Failure = Failure
  NoFile = NoFile
  Writes = TRUE
SYMMETRY Symmetry
INVARIANTS TypeOK CacheCoherent
PROPERTIES ImplementsTable
