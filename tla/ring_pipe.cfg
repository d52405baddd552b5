CONSTANTS
  Producers = {p1}
  Consumers = {c1}
  Items = {i1, i2, i3, i4}
  NULL = NULL
  Junk = Junk
  Size = 3
  SP = TRUE
  SC = TRUE
  Guard = "pipe"
  InitSlots <- Unwritten
  Garbage <- MCGarbage
SPECIFICATION FairSpec
INVARIANTS NeverEmptyHanded
PROPERTIES AnnouncedIsDelivered
CHECK_DEADLOCK FALSE
