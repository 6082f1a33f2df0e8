SPECIFICATION CardsSpec
CONSTANTS
  MaxCards = 1
  Numbers = {n1}
  CreditLimit = 1
  Amounts = {1}
  Requests = {r1, r2}
  NoCard = NoCard
INVARIANT ApprovedTogetherFit
CHECK_DEADLOCK FALSE
