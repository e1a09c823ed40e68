SPECIFICATION Spec
CONSTANTS
  None = None
  Amount <- MCAmount
  Cased <- MCCased
  Decimals <- MCDecimals
  NotANumber = {"NaN"}
  Datasets <- MCDatasets
  Roots <- MCRoots
  Actions <- MCActions
  Doubtful <- MCDoubtful
CHECK_DEADLOCK FALSE
INVARIANT ReconcileIsTotal
