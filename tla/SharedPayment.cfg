SPECIFICATION Spec
CONSTANTS
  None = None
  Amount <- MCAmount
  Cased <- MCCased
  Decimals <- MCDecimals
  NotANumber = {"NaN"}
  Datasets <- MCDatasets
  Roots <- MCRoots
  Actions <- MCActions
  Doubtful <- MCDoubtful
INVARIANTS
  OneLifecyclePerRecord
CHECK_DEADLOCK FALSE
