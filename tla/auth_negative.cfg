SPECIFICATION Spec
CONSTANTS
  Requests = {r1, r2}
  Emails = {e1}
  Elsewhere = Elsewhere
  Passwords = {p1}
  Deactivable = {}
  MaxId = 1
  Nil = Nil
CHECK_DEADLOCK FALSE
PROPERTIES SignedUpCanLogin
