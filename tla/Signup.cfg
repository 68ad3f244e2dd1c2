SPECIFICATION Spec
CONSTANTS
  ann = ann
  bob = bob
  a = a
  b = b
  Browsers = {ann, bob}
  Ids = {x}
  Nicks = {n}
  Emails = {a, b}
  Owned <- MCOwned
  GoodNicks = {n}
  Passwords <- MCPasswords
  Slots = {s1, s2}
  MaxCodes = 2
  None = None
SYMMETRY MCSymmetry
INVARIANTS Unique OnlyOwners
CHECK_DEADLOCK FALSE
