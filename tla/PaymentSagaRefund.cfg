SPECIFICATION Spec
CONSTANTS
  Attempts = {a1}
  Refunders = {r1, r2}
  Orders <- AllOrders
  MaxRetry = 1
  MaxCrashes = 0
  SchedulingEnabled = FALSE
  None = None
SYMMETRY Symmetry
INVARIANT RefundGivesBackWhatWasTaken
