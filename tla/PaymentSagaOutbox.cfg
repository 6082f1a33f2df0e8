SPECIFICATION FairSpec
CONSTANTS
  Attempts = {a1}
  Refunders = {}
  Orders <- WebOrders
  MaxRetry = 2
  MaxCrashes = 1
  SchedulingEnabled = TRUE
  None = None
INVARIANT RepeatsBounded
PROPERTIES
  SettledRowsStay
  PendingIsSettled
  KnownEffectsUndone
