CONSTANTS
  Producers = {p1}
  Consumers = {c1}
  Items = {i1, i2, i3, i4, i5}
  NULL = NULL
  Junk = Junk
  Size = 3
  SP = TRUE
  SC = TRUE
  Guard = "size"
  InitSlots <- Unwritten
  Garbage <- MCGarbage
SPECIFICATION Spec
INVARIANTS OneOwner
PROPERTIES ImplementsQueue
