SPECIFICATION FairSpec
CONSTANTS
  Attempts = {a1}
  Refunders = {}
  Orders <- AllOrders
  MaxRetry = 2
  MaxCrashes = 0
  SchedulingEnabled = FALSE
  None = None
PROPERTY PendingIsSettled
