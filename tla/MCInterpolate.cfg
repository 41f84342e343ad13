CONSTANTS
  NRanks = 3
  Inputs <- MCInputs
SPECIFICATION Spec
CHECK_DEADLOCK FALSE
INVARIANTS
  CollectivesMatch
  SlotsAligned
PROPERTY
  AllRanksReturn
