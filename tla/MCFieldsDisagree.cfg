CONSTANTS
  NRanks = 3
  Scenarios <- DisagreeScenarios
INIT Init
NEXT Next
INVARIANTS
  FieldsReported
