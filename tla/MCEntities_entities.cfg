\* The check and the expansion of three entities, external ones included, with room in the table.
SPECIFICATION FairSpec
CONSTANTS
  a = a
  b = b
  c = c
  amp = amp
  ref = ref
  Names = {a, b, c, amp, ref}
  Declarable = {a, b, c}
  Predefined = {amp}
  CharRefs = {ref}
  Char = Char
  NoName = NoName
  Texts <- MCThree
  Capacity = 5
  MaxExpansion = 4
  Readable = TRUE
INVARIANTS TypeOK CirclesRejected OnlyCirclesRejected InternalEntitiesExpand
PROPERTIES Terminates
CHECK_DEADLOCK FALSE
