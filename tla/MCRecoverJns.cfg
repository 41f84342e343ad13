CONSTANTS
  NRanks = 2
  Scenarios <- MCScenarios
INIT Init
NEXT Next
INVARIANTS
  JoinBlocksPaired
  DonorCorrect
  SubJoinsMatch
