SPECIFICATION Spec
SYMMETRY Symmetry
CONSTANTS
  Requests = {r1, r2}
  Emails = {e1}
  Elsewhere = Elsewhere
  Passwords = {p1, p2}
  Deactivable = {1}
  MaxId = 2
  Nil = Nil
CHECK_DEADLOCK FALSE
INVARIANTS AuthTypeOK TokenFindsCustomer TokensAreByOwner
