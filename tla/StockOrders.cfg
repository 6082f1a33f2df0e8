SPECIFICATION Spec
CONSTANTS
  Orders = {o1, o2}
  Quantities = {1, 2}
  InitialStock = 3
  Restorers = {r1, r2}
  Sellers = {s1}
  TypedStocks = {4}
  Readers = {v1}
  None = None
SYMMETRY Symmetry
INVARIANTS
  TypeOK
  StockConserved
  EventMeansSale
  CopyIsCurrent
