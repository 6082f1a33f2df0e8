SPECIFICATION Spec
CONSTANTS
  Attempts = {a1, a2}
  Refunders = {}
  Orders <- AllOrders
  MaxRetry = 1
  MaxCrashes = 0
  SchedulingEnabled = FALSE
  None = None
SYMMETRY Symmetry
INVARIANT PaidOrderIsWhole
