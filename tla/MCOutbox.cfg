SPECIFICATION FairSpec
CONSTANTS
  s1 = s1 s2 = s2 p1 = p1 x = x y = y t1 = t1 None = None
  Sweeper <- MCSweeper
  Endpoint <- MCEndpoint
  Event <- MCEvent
  Stamp <- MCStamp
  Max = 3
  MaxReplays = 1
  MaxFaults = 2
CHECK_DEADLOCK FALSE
INVARIANTS TypeOK TwiceOnlyExcused DeliveredMeansReceived DeadMeansExhausted QueuedUnlessLost
PROPERTIES EveryDeliverySettles
