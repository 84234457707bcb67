SPECIFICATION SFairSpec
PROPERTIES
  BlockedAcquireReturns
CONSTANTS
  Threads = {t1, t2}
  t1 = t1
  t2 = t2
  Funcs = {f1}
  f1 = f1
  NULL = NULL
  EvalJitConcurrently = 0
  EvalJitThreads = 1
  EvalJitRequireWriteLease = TRUE
  MaxHolders = 2
  Kinds = {"Profile", "Live"}
  MayAcquire <- MCAny
  EvalNumSingleJitRequests = 1
  EvalJitProfileInterpRequests = 0
