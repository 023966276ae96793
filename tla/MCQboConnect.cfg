SPECIFICATION Spec
CONSTANTS
  c1 = c1
  c2 = c2
  c3 = c3
  web = web
  recorder = recorder
  Proc = {web, recorder}
  Caller = {c1, c2, c3}
  Home <- MCHome
  Grant = {g1, g2}
  MaxTok = 3
  MaxAged = 1
  MaxFaults = 1
  None = None
SYMMETRY Symmetry
INVARIANTS TypeOK NeedsReconnectIsTrue ConnectedIsUsable OwnerDecisionStands NoSelfInflictedRefusal
CHECK_DEADLOCK FALSE
