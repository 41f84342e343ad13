CONSTANTS
  NRanks = 3
  Zones <- MCZones
  Inputs <- MCInputs
INIT Init
NEXT Next
INVARIANTS
  PointListsAligned
  ElementsDistributed
  SubsetsAligned
  DistributionsAgree
  CleanRemovesAll
