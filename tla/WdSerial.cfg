SPECIFICATION Spec
CONSTANTS
  w1 = w1
  w2 = w2
  w3 = w3
  e1 = e1
  e2 = e2
  r1 = r1
  r2 = r2
  k1 = k1
  None = None
  WithdrawalIds = {w1, w2}
  Events = {e1, e2}
  Requests = {r1, r2}
  Keys = {k1}
  Amounts = {1, 2}
  Contributions = {1}
  Rail <- AllPawapay
  MaxOtpAttempts = 1
  FifoOrder <- TwoEvents
  OpeningRaised <- RaisedTwo
  LegacyPool = 1
  OpeningBalance = 3
  SnapshotIsolation = FALSE
  OneRequestPerWithdrawal = TRUE
  RequestsArriveLate = FALSE
  RequestsMayFail = FALSE
  MaxOtps = 1
  MaxDebits = 2
  MaxReversals = 2
  MaxRaised = 2
SYMMETRY Symmetry
INVARIANTS
  TypeOK
  EventNotOverdrawn
  RowAgreesWithLedger
  KeyPaysOnce
  NeverPaidAndRefunded
PROPERTIES
  SettledStaysSettled
  ImplementsEscrow
