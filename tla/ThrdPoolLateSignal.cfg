SPECIFICATION Spec
CONSTANTS
  Main = main
  Clients = {}
  Workers = {w1}
  Tasks = {k1}
  NULL = NULL
  nthreads0 = 1
  Quiet = FALSE
SYMMETRY Symmetry
INVARIANT NoUseAfterFree
