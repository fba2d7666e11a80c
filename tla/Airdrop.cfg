CONSTANTS
  Lines <- MCLines
  BatchSize = 2
  Concurrency = 2
  Balance = 5
  MaxRuns = 3
  MaxKills = 2
  MaxRefusals = 1
  MaxLost = 1
  MaxTopUps = 1
SPECIFICATION Spec
INVARIANTS
    ListedIsMined
    OverpaymentBounded
PROPERTIES
    EndsOrGap
CHECK_DEADLOCK FALSE
