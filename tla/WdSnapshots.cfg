SPECIFICATION Spec
CONSTANTS
  w1 = w1
  w2 = w2
  w3 = w3
  e1 = e1
  e2 = e2
  r1 = r1
  r2 = r2
  k1 = k1
  None = None
  WithdrawalIds = {w1, w2}
  Events = {e1}
  Requests = {r1, r2}
  Keys = {}
  Amounts = {2}
  Contributions = {1}
  Rail <- OneByBank
  MaxOtpAttempts = 1
  FifoOrder <- OneEvent
  OpeningRaised <- RaisedThree
  LegacyPool = 0
  OpeningBalance = 3
  SnapshotIsolation = TRUE
  OneRequestPerWithdrawal = FALSE
  RequestsArriveLate = FALSE
  RequestsMayFail = TRUE
  MaxOtps = 1
  MaxDebits = 1
  MaxReversals = 1
  MaxRaised = 4
SYMMETRY RequestSymmetry
CHECK_DEADLOCK FALSE
INVARIANTS
  WalletNeverOverdrawn
  LedgerExplainsBalance
  PayoutBackedByDebit
