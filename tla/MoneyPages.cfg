SPECIFICATION Spec
CONSTANTS
  w1 = w1
  w2 = w2
  e1 = e1
  e2 = e2
  all = all
  None = None
  WithdrawalIds = {w1, w2}
  Events = {e1, e2}
  Amounts = {1}
  Contributions = {1}
  OpeningRaised <- Raised
  MinWithdraw = 1
  DefaultAmount = 1
  MaxPolls = 2
  MaxQueue = 2
  TransactionIds = {1, 2, 3}
  FilterEvents = {e1}
  AllEvents = all
  PageSize = 1
  MaxTime = 1
  MaxLate = 1
  References = {p1, p2}
  Entries = {m1}
  p1 = p1
  p2 = p2
  m1 = m1
  Prices = {1, 2}
  Nothing = Nothing
  MaxFormPolls = 1
  MaxSent = 2
CHECK_DEADLOCK FALSE
INVARIANTS SaidIsTrue ListIsWhole
 
