SPECIFICATION Spec
CONSTANTS
  Caller = {r1, r2}
  Person = {u1, u2}
  Content = {c1, c2}
  MaxHistory = 4
  None = None
SYMMETRY Symmetry
INVARIANTS TypeOK StateNamesPackage HistoryLegal PublishedIsLocked PackageIsTheBooks
PROPERTIES PackageImmutable
