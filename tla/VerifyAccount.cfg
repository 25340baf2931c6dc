SPECIFICATION Spec
CONSTANTS
  d1 = d1
  m1 = m1
  s1 = s1
  s2 = s2
  p1 = p1
  t1 = t1
  r1 = r1
  a1 = a1
  l1 = l1
  None = None
  Details = {d1}
  MethodIds = {m1}
  Sessions = {s1, s2}
  Phones = {p1}
  Tabs = {t1}
  Desktops = {t1}
  Requests = {r1}
  Reviewers = {a1}
  Links = {l1}
  OneDecisionAtATime = TRUE
  HandlersMayFail = TRUE
  MaxSubmissions = 2
SYMMETRY Symmetry
CHECK_DEADLOCK FALSE
INVARIANTS
  
  DecidedAsShown
  SubmissionIsComplete
  WizardNeverBlank
PROPERTY
  VerifiedIsFinal
