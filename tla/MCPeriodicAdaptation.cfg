CONSTANTS
  Scenarios <- MCScenarios
  RemeshChoices <- MCRemeshChoices
INIT Init
NEXT Next
INVARIANTS
  TypeOK
  ZoneConsistent
  MeshConforming
  RoundTrip
PROPERTIES
  GeometryPreserved
