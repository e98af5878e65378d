SPECIFICATION Spec
CONSTANTS
  c1 = c1
  c2 = c2
  Checks = {c1, c2}
  Threshold = 1
  Companies = 2
  Failures = {1, 2}
  MaxTime = 3
  MaxRuns = 2
  MaxMishaps = 1
INVARIANTS
  TypeOK
  ReportedTwiceForAReason
PROPERTIES
  SilencedForAReason
  OutagesAreReported
