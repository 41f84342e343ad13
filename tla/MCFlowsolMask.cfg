CONSTANTS
  Scenarios <- MCScenarios
  RemeshChoices <- MCRemeshChoices
INIT Init
NEXT Next
INVARIANT
  FieldFollowsVertex
