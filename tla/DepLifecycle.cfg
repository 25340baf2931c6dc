SPECIFICATION Spec
CONSTANTS
  t1 = t1
  a1 = a1
  p1 = p1
  p2 = p2
  c1 = c1
  c2 = c2
  c3 = c3
  r1 = r1
  r2 = r2
  j1 = j1
  j2 = j2
  None = None
  OneAtATime = FALSE
  References = {p1}
  Kinds = {"contribution", "subscription"}
  Amounts = {1}
  Ids = {c1, c2}
  Requests = {r1}
  Jobs = {j1, j2}
  Treasurers = {t1}
  Admins = {a1}
  SnapshotIsolation = TRUE
  RepairRuns = TRUE
  HandlersMayFail = TRUE
  MaxManual = 0
SYMMETRY Symmetry
CHECK_DEADLOCK FALSE
INVARIANTS
  FulfilledWasPaid
  CompletedWasFulfilled
  SuspensionRemembersStatus
PROPERTY
  ImplementsBook
