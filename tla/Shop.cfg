SPECIFICATION MCSpec
CONSTANTS
  MinCounts <- MCMinCounts
  MaxCounted = 3
  MaxClicks = 3
  Offered <- MCOffered
  TestProducts <- MCTestProducts
  Now = 2
  SomeProduct = SomeProduct
  TypedFields = {"title"}
  MaxVersions = 2
  MaxSubmits = 1
  MaxCards = 2
  Numbers = {"n1", "n2"}
  CreditLimit = 1
  Amounts = {1}
  Requests = {r1, r2}
  NoCard = NoCard
  MaxEvents = 2
  MaxTries = 2
  MaxFaults = 1
  MaxRecords = 2
  MaxOpens = 1
  MaxFailures = 1
  NotCached = NotCached
  Notified = {o1, o2}
  MaxNotifications = 2
  MaxMessages = 4
  Keywords = {"k1", "k2"}
  Found = {"k1"}
  NothingTyped = NothingTyped
  NoResults = NoResults
  MaxTyped = 4
  SaleTitles = {"t1", "t2"}
  Sellers = {s1, s2}
  MaxDocuments = 2
  MaxWrites = 2
  NoDocument = NoDocument
  Pids = {p1, p2}
  Passwords = {typed}
  Blanked = Blanked
  Joiners = {j1, j2}
  MaxJoins = 2
  NoMember = NoMember
INVARIANTS ShopTypeOK ProductPageAgrees PagesShowTheProducts FormKeepsWhatWasMeant CardsWithinLimit CardsAgree MyPageListsTheCards EarnedByDeliveries DocumentsAgree
PROPERTY ShopSettles
CHECK_DEADLOCK FALSE
