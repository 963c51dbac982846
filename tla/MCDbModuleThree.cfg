SPECIFICATION DbSpec
CONSTANTS
  c1 = c1
  c2 = c2
  c3 = c3
  h1 = h1
  h2 = h2
  NoHandle = NoHandle
  Callers <- ThreeCallers
  Handles <- TwoHandles
  Clients <- ClientsOf3
  Reclaimers <- TwoHandles
  ReadLimit = 1
  MaxEpoch = 0
  MaxGeneration = 5
  SlowOpen = FALSE
  SlowClose = FALSE
SYMMETRY CallerSymmetry
INVARIANT DbTypeOK LockedStatementsSafe StatementsOnRequestedDatabase StatusTruthful OneOwner
