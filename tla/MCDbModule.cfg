SPECIFICATION FairDbSpec
CONSTANTS
  c1 = c1
  c2 = c2
  c3 = c3
  h1 = h1
  h2 = h2
  NoHandle = NoHandle
  Callers <- TwoCallers
  Handles <- TwoHandles
  Clients <- ClientsOf2
  Reclaimers <- TwoHandles
  ReadLimit = 1
  MaxEpoch = 0
  MaxGeneration = 4
  SlowOpen = FALSE
  SlowClose = FALSE
INVARIANT DbTypeOK LockedStatementsSafe StatementsOnRequestedDatabase StatusTruthful OneOwner
PROPERTY CallsReturn AbandonedHandleFreed
