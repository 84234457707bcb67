SPECIFICATION SSpec
INVARIANTS
  HoldersKeepTheirLocks
  TranslationsExclude
  JittingThreadsAreLimited
  LocksAreReturned
  SingleJitIsExact
  WarmUpIsLimited
CONSTANTS
  Threads = {t1, t2}
  t1 = t1
  t2 = t2
  Funcs = {f1, f2}
  f1 = f1
  f2 = f2
  NULL = NULL
  EvalJitConcurrently = 1
  EvalJitThreads = 1
  EvalJitRequireWriteLease = FALSE
  MaxHolders = 2
  Kinds = {"Profile", "Live"}
  MayAcquire <- MCAny
  EvalNumSingleJitRequests = 1
  EvalJitProfileInterpRequests = 1
SYMMETRY Symmetry
