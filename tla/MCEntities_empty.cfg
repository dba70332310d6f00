\* An entity declared with an empty text.
SPECIFICATION Spec
CONSTANTS
  a = a
  b = b
  c = c
  amp = amp
  ref = ref
  Names = {a, b, amp, ref}
  Declarable = {a, b}
  Predefined = {amp}
  CharRefs = {ref}
  Char = Char
  NoName = NoName
  Texts <- MCWithEmpty
  Capacity = 4
  MaxExpansion = 3
  Readable = FALSE
INVARIANTS InternalEntitiesExpand
CHECK_DEADLOCK FALSE
