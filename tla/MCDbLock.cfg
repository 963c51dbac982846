SPECIFICATION FairLockSpec
CONSTANTS
  c1 = c1
  c2 = c2
  c3 = c3
  w1 = w1
  w2 = w2
  Clients <- ThreeClients
  Reclaimers <- TwoReclaimers
  MaxEpoch = 2
INVARIANT LockTypeOK MutualExclusion ReclaimIsSafe
PROPERTY LockProgress ImplementsLock
