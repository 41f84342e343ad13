CONSTANTS
  NRanks = 3
  Inputs <- MCInputs
SPECIFICATION Spec
INVARIANT ZonesShared
INVARIANT PdmWeightsMatch
INVARIANT NoDanglingPdmPointer
PROPERTY ImplementsSequential
