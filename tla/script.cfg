CONSTANTS
  Workers = {w1, w2}
  MaxNodes = 4
  MaxUsed = 2
  MaxTrans = 1
  Modulus = 3
  AtFirst <- Largest
SPECIFICATION FairSpec
INVARIANTS ChainInOrder LoadsWhatIsSound UsingCounts NeverOvercounts
PROPERTIES EveryoneLeaves
CHECK_DEADLOCK FALSE
