SPECIFICATION FairSpec
CONSTANTS
  Clients = {c1, c2}
  Amounts = {1, 2}
  MaxRequests = 4
  None = None
  Orphan = Orphan
INVARIANTS
  TypeOK
  LedgerBalanced
  NoOverdraft
  LockedReadIsCurrent
PROPERTIES
  ImplementsPromise
  EveryRequestAnswered
