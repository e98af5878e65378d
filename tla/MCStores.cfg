SPECIFICATION Spec
CONSTANTS
  s1 = s1
  s2 = s2
  b1 = b1
  k1 = k1
  k2 = k2
  Companies = {1, 2}
  Facts <- Filed
  Early = {"a"}
  Years = 2
  Implausible = {99}
  Ingesters = {s1, s2, b1}
  Sessions = {s1, s2}
  Reconcilers = {k1, k2}
  MaxRuns = 1
  MaxFaults = 1
SYMMETRY Symmetry
CONSTRAINT TwoAtOnce
INVARIANTS
  TypeOK
  SuccessMeansCurrent
  CompletedRunIsDone
  RedoneForAReason
  CompletedRunReconciles
PROPERTY
  CurrentNeverGoesBack
CHECK_DEADLOCK FALSE
