SPECIFICATION Spec
CONSTANTS
  t1 = t1
  a1 = a1
  p1 = p1
  p2 = p2
  c1 = c1
  c2 = c2
  c3 = c3
  r1 = r1
  r2 = r2
  j1 = j1
  j2 = j2
  None = None
  OneAtATime = TRUE
  References = {p1}
  Kinds = {"contribution"}
  Amounts = {1}
  Ids = {c1, c2}
  Requests = {r1, r2}
  Jobs = {j1}
  Treasurers = {}
  Admins = {a1}
  SnapshotIsolation = TRUE
  RepairRuns = FALSE
  HandlersMayFail = TRUE
  MaxManual = 1
SYMMETRY Symmetry
CHECK_DEADLOCK FALSE
INVARIANTS
  CreditedOnce
  RaisedMatches
PROPERTY
  NoCreditWhileClosed
