\* A table without room for the names the check adds.
SPECIFICATION Spec
CONSTANTS
  a = a
  b = b
  c = c
  amp = amp
  ref = ref
  Names = {a, b, amp, ref}
  Declarable = {a, b}
  Predefined = {amp}
  CharRefs = {ref}
  Char = Char
  NoName = NoName
  Texts <- MCPairs
  Capacity = 3
  MaxExpansion = 1
  Readable = FALSE
INVARIANTS CirclesRejected
CHECK_DEADLOCK FALSE
