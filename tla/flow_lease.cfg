SPECIFICATION FairSpec
CONSTANTS
  k1 = k1
  k2 = k2
  c1 = c1
  c2 = c2
  c3 = c3
  Kernels = {k1, k2}
  Calls = {c1, c2, c3}
  Home <- MCHome
  None = None
INVARIANTS OneWriter LiveRunIsUndisturbed
PROPERTIES LeaseComesBack
