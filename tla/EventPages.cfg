SPECIFICATION FairSpec
CONSTANTS
  t1 = t1
  t2 = t2
  d1 = d1
  d2 = d2
  r1 = r1
  None = None
  Tabs = {t1, t2}
  Drafts = {d1, d2}
  Refs = {r1}
  MaxImages = 2
  SlugAttempts = 2
  MaxReports = 2
  MaxPolls = 2
CHECK_DEADLOCK FALSE
INVARIANTS OneEventPerPayment ActivatedWasPaid ReadyCanBeDownloaded OnePhotoPerSlot
PROPERTY WaitsEnd
