CONSTANTS
  NRanks = 3
  Inputs <- MCInputs
  Labels <- MCLabels
  SearchDepths <- MCSearchDepths
INIT Init
NEXT Next
\* a rank holding a part node raises at discover.py:25 and the others
\* then wait in the allgather: the program really stops there
CHECK_DEADLOCK FALSE
INVARIANTS
  WalkerMatchesReference
  LevelSearchReference
  RequestIsFirst
