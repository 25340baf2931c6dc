SPECIFICATION Spec
CONSTANTS
  k1 = k1
  k2 = k2
  k3 = k3
  r1 = r1
  s1 = s1
  s2 = s2
  t1 = t1
  t2 = t2
  None = None
  EmailTokens = {k1, k2, k3}
  ResetTokens = {r1}
  Sessions = {s1, s2}
  Callers = {t1, t2}
  Visited = {"login", "register", "forgot", "profile"}
  Failing = {"mailReset", "logout"}
SYMMETRY Symmetry
INVARIANTS NoRedirectLoop VerifiedPageIsTrue SomeLinkWorks VerifiedIsEnrolled
