SPECIFICATION Spec
CONSTANTS
  Orders = {o1, o2}
  Quantities = {1}
  InitialStock = 2
  Restorers = {r1}
  Sellers = {}
  TypedStocks = {}
  Readers = {}
  None = None
INVARIANT NotOversold
