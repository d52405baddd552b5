SPECIFICATION Spec
CONSTANTS
  Keys = {"a", "b", "c"}
  Hash <- Hashes
  Primes <- Sizes
  MaxInserts = 4
  Receives = {r1, r2, r3}
  Timers = {0, 1}
  Latest = 2
  Nobody = Nobody
  StackLimit = 3
  LongArray = 2
  Indices = {0, 1, 2}
  Names <- TwoNames
  Scalars <- Assigned
  MaxCalls = 3
  IntBits = 3
  LargestBits = 6
  Mantissa = 4
  DoubleBits = 20
  BufferSize = 10
  Precision = 3
  Alphabet <- Letters
  MaxText = 3
  MaxNumber = 4
  MaxExponent = 3
  MaxString = 3
  MaxComment = 6
INVARIANTS TableKept ListSound TextsTaken ReadersAgree  TokensKept ValuesAsPromised StepDataCounted RequestsParsed
PROPERTY ShownOnce
CHECK_DEADLOCK FALSE
