SPECIFICATION Spec
CONSTANTS
  f1 = f1
  f2 = f2
  c1 = c1
  p1 = p1
  p2 = p2
  s1 = s1
  n1 = n1
  NoJob = NoJob
  Filings = {f1}
  Statements = {f1}
  AnnualReports = {}
  Companies = {c1}
  CompanyOf <- OneCompany
  Workers = {p1, p2, s1, n1}
  StageOf <- WorkerStage
  MaxDiscoveries = 2
  MaxStalls = 1
  MaxMishaps = 2
SYMMETRY Symmetry
INVARIANTS
  TypeOK
  AtMostOnce
  Accounted
  AbortIsFinal
PROPERTY
  ImplementsProgress
CHECK_DEADLOCK FALSE
