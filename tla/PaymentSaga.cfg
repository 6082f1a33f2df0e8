SPECIFICATION Spec
CONSTANTS
  Attempts = {a1, a2}
  Refunders = {r1}
  Orders <- AllOrders
  MaxRetry = 1
  MaxCrashes = 1
  SchedulingEnabled = FALSE
  None = None
SYMMETRY Symmetry
INVARIANTS
  TypeOK
  CompletedIsPaid
  NeverOverCompensated
  KnownEffectsAccounted
  AnswerIsBacked
  PaidOnceInSequence
