\* References to entities that are not declared.
SPECIFICATION Spec
CONSTANTS
  a = a
  b = b
  c = c
  amp = amp
  ref = ref
  Names = {a, b, amp, ref}
  Declarable = {a, b}
  Predefined = {amp}
  CharRefs = {ref}
  Char = Char
  NoName = NoName
  Texts <- MCPairs
  Capacity = 4
  MaxExpansion = 2
  Readable = FALSE
INVARIANTS UndeclaredIsReported
CHECK_DEADLOCK FALSE
