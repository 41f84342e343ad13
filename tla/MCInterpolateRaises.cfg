CONSTANTS
  NRanks = 3
  Inputs <- MCRaisingInputs
SPECIFICATION Spec
CHECK_DEADLOCK FALSE
INVARIANT NoRankRaises
