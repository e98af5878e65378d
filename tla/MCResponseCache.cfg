SPECIFICATION Spec
CONSTANTS
  r1 = r1
  r2 = r2
  parser = parser
  host = host
  Requests = {r1}
  Writers = {parser, host}
  Cached = {parser}
  Keys = {"company", "facts", "scores", "list"}
  TTL = 2
  Repeat = 1
  Cooldown = 1
  MaxLag = 1
  MaxSlow = 0
  MaxTime = 3
  MaxCommits = 3
  MaxFaults = 1
INVARIANTS
  TypeOK
  NothingStaleOutlivesTheRepeat
  EmptyListForAReason
PROPERTIES
  ImplementsBoundedStaleness
CHECK_DEADLOCK FALSE
