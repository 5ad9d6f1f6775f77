SPECIFICATION Spec
CONSTANTS
  Nothing = Nothing
  NumParams = 2
  Networks <- MCNetworks
  Heads <- MCHeads
  Epochs = 1
  Batches = 1
  MaxDeaths = 0
INVARIANT
  ClippingWorks
