CONSTANTS
  NRanks = 3
  Scenarios <- MCScenarios
INIT Init
NEXT Next
INVARIANTS
  FieldsReported
  DistributionsMatch
