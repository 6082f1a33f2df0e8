SPECIFICATION CheckoutSpec
CONSTANTS
  Titles = {a, b}
  Price <- MCPrice
  MaxUnits = 2
  Balance = 2
  MaxCalls = 2
  Typed = {1}
  User = "u"
  Nothing = Nothing
SYMMETRY MCSymmetry
INVARIANTS CheckoutTypeOK CheckoutPaysWhatWasShown OneUnpaidOrderAtMost CartPageAgrees
CHECK_DEADLOCK FALSE
