SPECIFICATION FairSpec
CONSTANTS
  Poster = {p1, p2}
  Key = {k1}
  Period = {m1}
  Body = {b1}
  Stamp = {s1}
  None = None
PROPERTIES LockedPeriodRejects
