SPECIFICATION FairSpec
CONSTANTS
  Main = main
  Clients = {}
  Workers = {w1, w2, w3}
  Tasks = {k1, k2}
  NULL = NULL
  nthreads0 = 2
  Quiet = TRUE
INVARIANT NoUseAfterFree
INVARIANT CheckTellsDestroyer
INVARIANT SignalSafe
INVARIANT TasksConserved
INVARIANT JoinChain
INVARIANT CountRight
PROPERTY ShutdownCompletes
PROPERTY TasksSettled
