SPECIFICATION Spec
CONSTANTS
  Caller = {r1}
  Person = {u1, u2}
  Content = {c1, c2}
  MaxHistory = 4
  None = None
PROPERTIES AllThreeOrNone
