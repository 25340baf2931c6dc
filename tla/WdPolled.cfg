SPECIFICATION FairSpec
CONSTANTS
  w1 = w1
  w2 = w2
  w3 = w3
  e1 = e1
  e2 = e2
  r1 = r1
  r2 = r2
  k1 = k1
  None = None
  WithdrawalIds = {w1}
  Events = {e1, e2}
  Requests = {r1, r2}
  Keys = {}
  Amounts = {1}
  Contributions = {1}
  Rail <- AllMomo
  MaxOtpAttempts = 1
  FifoOrder <- TwoEvents
  OpeningRaised <- RaisedTwo
  LegacyPool = 1
  OpeningBalance = 3
  SnapshotIsolation = FALSE
  OneRequestPerWithdrawal = FALSE
  RequestsArriveLate = TRUE
  RequestsMayFail = FALSE
  MaxOtps = 1
  MaxDebits = 1
  MaxReversals = 4
  MaxRaised = 2
PROPERTY
  ProcessingSettles
