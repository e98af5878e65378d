SPECIFICATION Spec
CONSTANTS
  f1 = f1
  f2 = f2
  c1 = c1
  p1 = p1
  p2 = p2
  s1 = s1
  n1 = n1
  NoJob = NoJob
  Filings = {f1}
  Statements = {}
  AnnualReports = {}
  Companies = {c1}
  CompanyOf <- OneCompany
  Workers = {p1, p2, s1, n1}
  StageOf <- WorkerStage
  MaxDiscoveries = 1
  MaxStalls = 1
  MaxMishaps = 1
INVARIANT
  NoDataLoss
CHECK_DEADLOCK FALSE
