SPECIFICATION Spec
CONSTANTS
  self = self
  co = co
  Tier = {self, co}
  Multi = {co}
  Included <- MCIncluded
  Price <- MCPrice
  Request = {q1, q2}
  Tenant = {t1, t2}
  MaxSubs = 2
  MaxRestarts = 1
  MaxRequests = 5
  None = None
CHECK_DEADLOCK FALSE
SYMMETRY Symmetry
INVARIANTS TypeOK PlanHoldsTenants OncePerLifetime WindowHolds
