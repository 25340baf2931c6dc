SPECIFICATION Spec
CONSTANTS
  i1 = i1
  i2 = i2
  g1 = g1
  g2 = g2
  owner = owner
  None = None
  Invites = {i1, i2}
  Guests = {g1, g2}
  Owner = owner
  Responses = {"accepted", "declined"}
  MaxHandlers = 2
  Scopes = {"card", "list", "guests"}
  MaxEdits = 2
  MaxQueue = 2
SYMMETRY Symmetry
VIEW View
INVARIANTS CountsAreRight   
