SPECIFICATION Spec
CONSTANTS
  w1 = w1 w2 = w2 b1 = b1 r1 = r1 r2 = r2 c1 = c1 None = None
  Workers <- MCWorkers
  Briefing <- MCBriefing
  Report <- MCReport
  Condition <- MCCondition
  Phase0 <- MCPhase0
  Breach0 <- MCCondition
  TTL = 1
  Week = 2
  MaxTime = 1
  MaxFaults = 1
  MaxEdits = 1
SYMMETRY Symmetry
INVARIANTS TypeOK OneRunnerUnlessOverrun   EditStandsUnlessRaced AlertOncePerProcess QuietMeansAnnounced
