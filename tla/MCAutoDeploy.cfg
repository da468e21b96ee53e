SPECIFICATION FairSpec
CONSTANTS
  Threshold = 2
  Cooldown = 2
  FailureCap = 3
  Loops = {l1, l2}
  Handlers = {h1}
  first = l1
INVARIANTS TypeOK CountMatches TrialInFlight TripReportedOnce
PROPERTIES OneTrialPerCooldown Recovers
