SPECIFICATION FairSpec
CONSTANTS
  t1 = t1
  a1 = a1
  p1 = p1
  p2 = p2
  c1 = c1
  c2 = c2
  c3 = c3
  r1 = r1
  r2 = r2
  j1 = j1
  j2 = j2
  None = None
  OneAtATime = TRUE
  References = {p1}
  Kinds = {"contribution", "subscription"}
  Amounts = {1}
  Ids = {c1, c2}
  Requests = {r1}
  Jobs = {j1}
  Treasurers = {t1}
  Admins = {}
  SnapshotIsolation = TRUE
  RepairRuns = FALSE
  HandlersMayFail = FALSE
  MaxManual = 1
CHECK_DEADLOCK FALSE
PROPERTY
  PaidIsSettled
