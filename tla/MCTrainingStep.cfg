SPECIFICATION Spec
CONSTANTS
  Nothing = Nothing
  NumParams = 2
  Networks <- MCNetworks
  Heads <- MCHeads
  Epochs = 3
  Batches = 2
  MaxDeaths = 2
INVARIANTS
  StepTypeOK
  TrainsExactly
  EvaluatesWhatWasTrained
