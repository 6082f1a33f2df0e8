----------------------------- MODULE PagesProofs -----------------------------
(***************************************************************************)
(* What the pages of the web client list, which of them can take the       *)
(* application off the screen, what the page of one product shows, and     *)
(* what a form of a seller keeps, proved from the specifications of        *)
(* ProductLists, ProductPage and ProductForm for any products, dates,      *)
(* likes, clicks, fields and changes.                                      *)
(*                                                                         *)
(* App asks for the products once, so that a list made before they came is *)
(* empty, and a list made of what was there is made of what is there.  A   *)
(* full heart has a like that is there or on its way and that no call is   *)
(* about to delete: an unlike names what the list of likes brought, and a  *)
(* like posted later is another.                                           *)
(***************************************************************************)
EXTENDS ProductLists, ProductPage, ProductForm, FiniteSetTheorems, WellFoundedInduction, TLAPS

Products == Offered \cup TestProducts
Routes == Lists \cup Details
ListSet == [sale : SUBSET Products, quantity : SUBSET Products, finish : SUBSET Products]
Page == [route : Routes \cup {"gone"}, was : Routes, item : Products \cup {SomeProduct}, lists : ListSet,
         known : SUBSET Products, likes : {"none", "asked", "answered"}]

ListedIn(lists) == lists.sale \cup lists.quantity \cup lists.finish

InTime(products) == \A p \in products : p.startDate <= p.finishDate /\ Now \notin {p.startDate, p.finishDate}

(* No product is in two lists, if none starts or ends this moment. *)
Apart(lists) ==
  InTime(ListedIn(lists)) => /\ lists.sale \cap (lists.quantity \cup lists.finish) = {}
                             /\ lists.quantity \cap lists.finish = {}

Managed(products) == {p \in products : p.managed}

PageTypes ==
  /\ plAnswer \in [AppCalls -> {"asked", "answered", "failed"}]
  /\ plProduct \subseteq Products
  /\ plOrder \subseteq Offered
  /\ plPage \in Page
  /\ plAddress \in Routes

(* Until the products have come there are none, in no list either. *)
AskedOnce ==
  /\ plAnswer["products"] = "asked" => plProduct = {}
  /\ plPage.known \subseteq plProduct
  /\ ListedIn(plPage.lists) \subseteq plProduct

ListsSound ==
  /\ Apart(plPage.lists)
  /\ plPage.route = "home" => plPage.lists.sale = Running(plProduct)
  /\ plPage.route = "sale" /\ Cardinality(Managed(plPage.known)) > 1 => ListedIn(plPage.lists) = Managed(plPage.known)
  /\ plPage.route = "wish" => \A p \in plPage.lists.quantity : p.startDate > Now

GoneFor ==
  plPage.route = "gone" => \/ plPage.was = "check"
                           \/ plPage.was = plAddress /\ plAddress \in {"quantity", "gongguapply"}

(* A page that is there is the one it was, and only Wish waits for likes. *)
WasRoute ==
  /\ plPage.route # "gone" => plPage.was = plPage.route
  /\ plPage.likes = "asked" => plPage.route = "wish"

ListsInv == PageTypes /\ AskedOnce /\ ListsSound /\ GoneFor /\ WasRoute

LEMMA ProductsSold == \A p \in Products : p.startDate \in Int /\ p.finishDate \in Int
BY OfferedAssumption DEF Products, Sold

LEMMA AtMostOne ==
  ASSUME NEW products \in SUBSET Products, ~(Cardinality(products) > 1)
  PROVE  \A p, q \in products : p = q
<1>1. IsFiniteSet(Products)
  BY FiniteAssumption, FS_Union DEF Products
<1>2. IsFiniteSet(products)
  BY <1>1, FS_Subset
<1>3. Cardinality(products) \in Nat
  BY <1>2, FS_CardinalityType
<1>4. Cardinality(products) = 0 \/ Cardinality(products) = 1
  BY <1>3
<1>5. products = {} \/ \E p : products = {p}
  BY <1>2, <1>4, FS_EmptySet, FS_Singleton
<1> QED
  BY <1>5

-----------------------------------------------------------------------------
(* Lists *)

LEMMA OneList ==
  ASSUME NEW products \in SUBSET Products, NEW part \in SUBSET products,
         NEW lists \in {OnlySale(part), OnlyQuantity(part), OnlyFinish(part), Empty}
  PROVE  lists \in ListSet /\ ListedIn(lists) \subseteq products /\ Apart(lists)
<1>1. part \subseteq Products
  OBVIOUS
<1>2. CASE lists = OnlySale(part)
  BY <1>1, <1>2 DEF OnlySale, Empty, ListSet, ListedIn, Apart
<1>3. CASE lists = OnlyQuantity(part)
  BY <1>1, <1>3 DEF OnlyQuantity, Empty, ListSet, ListedIn, Apart
<1>4. CASE lists = OnlyFinish(part)
  BY <1>1, <1>4 DEF OnlyFinish, Empty, ListSet, ListedIn, Apart
<1>5. CASE lists = Empty
  BY <1>5 DEF Empty, ListSet, ListedIn, Apart
<1> QED
  BY <1>2, <1>3, <1>4, <1>5

(* Three lists of the running, the coming and the past. *)
LEMMA ThreeLists ==
  ASSUME NEW products \in SUBSET Products, NEW lists,
         lists = [sale |-> lists.sale, quantity |-> lists.quantity, finish |-> lists.finish],
         lists.sale \subseteq products, lists.quantity \subseteq products, lists.finish \subseteq products,
         \A p \in lists.sale : p.startDate <= Now /\ p.finishDate >= Now,
         \A p \in lists.quantity : p.startDate >= Now,
         \A p \in lists.finish : p.finishDate <= Now
  PROVE  lists \in ListSet /\ ListedIn(lists) \subseteq products /\ Apart(lists)
<1>1. lists \in ListSet
  BY DEF ListSet
<1>2. ListedIn(lists) \subseteq products
  BY DEF ListedIn
<1>3. Apart(lists)
  <2> SUFFICES ASSUME InTime(ListedIn(lists))
               PROVE  /\ lists.sale \cap (lists.quantity \cup lists.finish) = {}
                      /\ lists.quantity \cap lists.finish = {}
    BY DEF Apart
  <2>1. \A p \in ListedIn(lists) : /\ p.startDate \in Int /\ p.finishDate \in Int /\ p.startDate <= p.finishDate
                                   /\ p.startDate # Now /\ p.finishDate # Now
    BY <1>2, ProductsSold DEF InTime
  <2>2. \A p \in lists.sale : p \notin lists.quantity /\ p \notin lists.finish
    BY <2>1, NowAssumption DEF ListedIn
  <2>3. \A p \in lists.quantity : p \notin lists.finish
    BY <2>1, NowAssumption DEF ListedIn
  <2> QED
    BY <2>2, <2>3
<1> QED
  BY <1>1, <1>2, <1>3

LEMMA SaleFacts ==
  ASSUME NEW products \in SUBSET Products
  PROVE  /\ Sale(products) \in ListSet /\ ListedIn(Sale(products)) \subseteq products /\ Apart(Sale(products))
         /\ Cardinality(Managed(products)) > 1 => ListedIn(Sale(products)) = Managed(products)
<1> DEFINE mine == Managed(products)
           three == [sale |-> Running(mine), quantity |-> {p \in mine : p.startDate >= Now},
                     finish |-> {p \in mine : p.finishDate <= Now}]
<1>1. Sale(products) = IF Cardinality(mine) > 1 THEN three
                       ELSE IF Running(mine) # {} THEN OnlySale(mine)
                       ELSE IF \E p \in mine : p.startDate < Now THEN OnlyQuantity(mine)
                       ELSE OnlyFinish(mine)
  BY DEF Sale, Managed
<1>2. mine \in SUBSET products
  BY DEF Managed
<1>3. /\ three = [sale |-> three.sale, quantity |-> three.quantity, finish |-> three.finish]
      /\ three.sale = Running(mine) /\ three.quantity = {p \in mine : p.startDate >= Now}
      /\ three.finish = {p \in mine : p.finishDate <= Now}
  OBVIOUS
<1> HIDE DEF mine, three
<1>4. CASE Cardinality(mine) > 1
  <2>1. Sale(products) = three
    BY <1>1, <1>4
  <2>2. \A p \in three.sale : p \in mine /\ p.startDate <= Now /\ p.finishDate >= Now
    BY <1>3 DEF Running
  <2>3. /\ \A p \in three.quantity : p \in mine /\ p.startDate >= Now
        /\ \A p \in three.finish : p \in mine /\ p.finishDate <= Now
    BY <1>3
  <2>4. three \in ListSet /\ ListedIn(three) \subseteq products /\ Apart(three)
    BY <1>2, <1>3, <2>2, <2>3, ThreeLists
  <2>5. \A p \in mine : p \in three.sale \/ p \in three.quantity \/ p \in three.finish
    <3>1. \A p \in mine : p.startDate \in Int /\ p.finishDate \in Int
      BY <1>2, ProductsSold
    <3> QED
      BY <1>3, <3>1, NowAssumption DEF Running
  <2>6. ListedIn(three) = mine
    BY <2>2, <2>3, <2>5 DEF ListedIn
  <2> QED
    BY <2>1, <2>4, <2>6 DEF mine
<1>5. CASE ~(Cardinality(mine) > 1)
  <2>1. Sale(products) \in {OnlySale(mine), OnlyQuantity(mine), OnlyFinish(mine), Empty}
    BY <1>1, <1>5
  <2> QED
    BY <1>2, <1>5, <2>1, OneList DEF mine
<1> QED
  BY <1>4, <1>5

LEMMA OrderFacts ==
  ASSUME NEW products \in SUBSET Products, NEW ordered
  PROVE  Order(products, ordered) \in ListSet /\ ListedIn(Order(products, ordered)) \subseteq products
         /\ Apart(Order(products, ordered))
<1> DEFINE mine == products \cap ordered
           three == [sale |-> Running(mine), quantity |-> {}, finish |-> {p \in mine : p.finishDate <= Now}]
<1>1. Order(products, ordered) = IF ordered = {} THEN Empty
                                 ELSE IF Cardinality(mine) > 1 THEN three
                                 ELSE IF Running(mine) # {} THEN OnlySale(mine)
                                 ELSE OnlyFinish(mine)
  BY DEF Order
<1>2. mine \in SUBSET products
  OBVIOUS
<1>3. /\ three = [sale |-> three.sale, quantity |-> three.quantity, finish |-> three.finish]
      /\ three.sale = Running(mine) /\ three.quantity = {} /\ three.finish = {p \in mine : p.finishDate <= Now}
  OBVIOUS
<1> HIDE DEF mine, three
<1>4. three \in ListSet /\ ListedIn(three) \subseteq products /\ Apart(three)
  <2>1. \A p \in three.sale : p \in mine /\ p.startDate <= Now /\ p.finishDate >= Now
    BY <1>3 DEF Running
  <2>2. three.quantity = {} /\ \A p \in three.finish : p \in mine /\ p.finishDate <= Now
    BY <1>3
  <2> QED
    BY <1>2, <1>3, <2>1, <2>2, ThreeLists
<1>5. Order(products, ordered) \in {three, OnlySale(mine), OnlyQuantity(mine), OnlyFinish(mine), Empty}
  BY <1>1
<1> QED
  BY <1>2, <1>4, <1>5, OneList

LEMMA WishFacts ==
  ASSUME NEW products \in SUBSET Products, NEW liked
  PROVE  /\ Wish(products, liked) \in ListSet /\ ListedIn(Wish(products, liked)) \subseteq products
         /\ Apart(Wish(products, liked))
         /\ \A p \in Wish(products, liked).quantity : p.startDate > Now
<1> DEFINE mine == products \cap liked
           within == {p \in mine : p.finishDate > Now /\ p.startDate < Now}
           three == [sale |-> within, quantity |-> {p \in mine : p.startDate > Now},
                     finish |-> {p \in mine : p.finishDate < Now}]
<1>1. Wish(products, liked) = IF Cardinality(mine) > 1 THEN three
                              ELSE IF within # {} THEN OnlySale(mine)
                              ELSE IF \E p \in mine : p.startDate > Now THEN OnlyQuantity(mine)
                              ELSE OnlyFinish(mine)
  BY DEF Wish
<1>2. mine \in SUBSET products
  OBVIOUS
<1>3. /\ three = [sale |-> three.sale, quantity |-> three.quantity, finish |-> three.finish]
      /\ three.sale = within /\ three.quantity = {p \in mine : p.startDate > Now}
      /\ three.finish = {p \in mine : p.finishDate < Now}
      /\ \A p \in within : p \in mine /\ p.finishDate > Now /\ p.startDate < Now
  OBVIOUS
<1>4. \A p \in mine : p.startDate \in Int /\ p.finishDate \in Int
  BY <1>2, ProductsSold
<1> HIDE DEF mine, within, three
<1>5. CASE Cardinality(mine) > 1
  <2>1. \A p \in three.sale : p \in mine /\ p.startDate <= Now /\ p.finishDate >= Now
    BY <1>3, <1>4, NowAssumption
  <2>2. \A p \in three.quantity : p \in mine /\ p.startDate >= Now /\ p.startDate > Now
    BY <1>3, <1>4, NowAssumption
  <2>3. \A p \in three.finish : p \in mine /\ p.finishDate <= Now
    BY <1>3, <1>4, NowAssumption
  <2>4. three \in ListSet /\ ListedIn(three) \subseteq products /\ Apart(three)
    BY <1>2, <1>3, <2>1, <2>2, <2>3, ThreeLists
  <2> QED
    BY <1>1, <1>5, <2>2, <2>4
<1>6. CASE ~(Cardinality(mine) > 1)
  <2>1. Wish(products, liked) \in {OnlySale(mine), OnlyQuantity(mine), OnlyFinish(mine), Empty}
    BY <1>1, <1>6
  <2>2. /\ Wish(products, liked) \in ListSet /\ ListedIn(Wish(products, liked)) \subseteq products
        /\ Apart(Wish(products, liked))
    BY <1>2, <2>1, OneList
  <2>3. \A p \in Wish(products, liked).quantity : p.startDate > Now
    <3>1. \A p, q \in mine : p = q
      BY <1>2, <1>6, AtMostOne
    <3>2. CASE Wish(products, liked) = OnlyQuantity(mine) /\ \E p \in mine : p.startDate > Now
      BY <3>1, <3>2 DEF OnlyQuantity, Empty
    <3>3. CASE Wish(products, liked) \in {OnlySale(mine), OnlyFinish(mine)}
      <4>1. Wish(products, liked).quantity = {}
        BY <3>3 DEF OnlySale, OnlyFinish, Empty
      <4> QED
        BY <4>1
    <3> QED
      BY <1>1, <1>6, <3>2, <3>3
  <2> QED
    BY <2>2, <2>3
<1> QED
  BY <1>5, <1>6

LEMMA ListedFacts ==
  ASSUME NEW products \in SUBSET Products, NEW ordered, NEW route \in Lists
  PROVE  LET made == Listed(route, products, ordered) IN
         /\ made \in ListSet /\ ListedIn(made) \subseteq products /\ Apart(made)
         /\ route = "home" => made.sale = Running(products)
         /\ route = "sale" /\ Cardinality(Managed(products)) > 1 => ListedIn(made) = Managed(products)
         /\ route = "wish" => made = Empty
<1> DEFINE made == Listed(route, products, ordered)
<1>1. CASE route = "home"
  <2>1. Running(products) \in SUBSET products
    BY DEF Running
  <2>2. made = OnlySale(Running(products))
    BY <1>1 DEF Listed, Home
  <2>3. made.sale = Running(products)
    BY <2>2 DEF OnlySale, Empty
  <2> QED
    BY <1>1, <2>1, <2>2, <2>3, OneList
<1>2. CASE route \in {"clothes", "badge", "pouch", "mungu", "etc"}
  <2>1. PICK category : made = InCategory(products, category)
    BY <1>2 DEF Listed, Clothes, Badge, Pouch, Mungu, Etc
  <2> DEFINE part == {p \in Running(products) : p.category = category}
  <2>2. part \in SUBSET products
    BY DEF Running
  <2>3. made = OnlySale(part)
    BY <2>1 DEF InCategory
  <2> QED
    BY <1>2, <2>2, <2>3, OneList
<1>3. CASE route = "quantityinfo"
  <2> DEFINE part == {p \in products : p.finishResearch > Now}
  <2>1. part \in SUBSET products
    OBVIOUS
  <2>2. made = OnlyQuantity(part)
    BY <1>3 DEF Listed, Quantityinfo
  <2> QED
    BY <1>3, <2>1, <2>2, OneList
<1>4. CASE route = "sale"
  <2>1. made = Sale(products)
    BY <1>4 DEF Listed
  <2> QED
    BY <1>4, <2>1, SaleFacts
<1>5. CASE route = "order"
  <2>1. made = Order(products, ordered)
    BY <1>5 DEF Listed
  <2> QED
    BY <1>5, <2>1, OrderFacts
<1>6. CASE route = "wish"
  <2>1. made = Empty
    BY <1>6 DEF Listed
  <2>2. made \in ListSet /\ ListedIn(made) \subseteq products /\ Apart(made)
    BY <2>1, OneList
  <2> QED
    BY <1>6, <2>1, <2>2
<1> QED
  BY <1>1, <1>2, <1>3, <1>4, <1>5, <1>6 DEF Lists

LEMMA EmptyFacts ==
  /\ Empty \in ListSet /\ ListedIn(Empty) = {} /\ Empty.sale = {} /\ Empty.quantity = {} /\ Empty.finish = {}
  /\ Apart(Empty) /\ Running({}) = {} /\ Managed({}) = {} /\ ~(Cardinality(Managed({})) > 1)
<1>1. Empty.sale = {} /\ Empty.quantity = {} /\ Empty.finish = {} /\ Empty \in ListSet
  BY DEF Empty, ListSet
<1>2. ListedIn(Empty) = {} /\ Apart(Empty)
  BY <1>1 DEF ListedIn, Apart
<1>3. Running({}) = {} /\ Managed({}) = {}
  BY DEF Running, Managed
<1>4. Cardinality(Managed({})) = 0
  BY <1>3, FS_EmptySet
<1> QED
  BY <1>1, <1>2, <1>3, <1>4

-----------------------------------------------------------------------------
(* Steps *)

LEMMA PageIsOff ==
  ASSUME NEW page \in Page
  PROVE  /\ Gone(page) \in Page /\ Gone(page).route = "gone" /\ Gone(page).was = page.was
         /\ Gone(page).lists = Empty /\ Gone(page).known = page.known /\ Gone(page).likes = "none"
BY EmptyFacts DEF Page, Gone

LEMMA LoadKeeps ==
  ASSUME ListsInv, NEW route \in Routes, NEW item \in Products \cup {SomeProduct}, LoadTab(route, item)
  PROVE  ListsInv'
<1> DEFINE page == [PageAt(route, item, Empty) EXCEPT !.known = {}]
<1>1. /\ plAnswer' = [call \in AppCalls |-> "asked"] /\ plProduct' = {} /\ plOrder' = {}
      /\ plPage' = Shown(page, {}) /\ plAddress' = route
  BY DEF LoadTab
<1>2. /\ page = [route |-> route, was |-> route, item |-> item, lists |-> Empty, known |-> {},
                 likes |-> IF route = "wish" THEN "asked" ELSE "none"]
  BY DEF PageAt
<1>3. /\ page.route = route /\ page.was = route /\ page.lists = Empty /\ page.known = {} /\ page.item = item
      /\ page.likes = "asked" => route = "wish"
  BY <1>2
<1>4. page \in Page
  BY <1>2, EmptyFacts DEF Page
<1> HIDE DEF page
<1>5. Rendered(route, {}, item) = "exception" => route \in {"quantity", "check", "gongguapply"}
  BY DEF Rendered, Productpage, Routes, Lists, Details
<1>6. \/ plPage' = page
      \/ plPage' = Gone(page) /\ route \in {"quantity", "check", "gongguapply"}
  BY <1>1, <1>3, <1>5 DEF Shown
<1>7. plPage' \in Page /\ (plPage').known = {} /\ (plPage').lists = Empty /\ (plPage').was = route
  BY <1>3, <1>4, <1>6, PageIsOff
<1>8. (plPage').route = "gone" => route \in {"quantity", "check", "gongguapply"}
  BY <1>3, <1>6 DEF Routes, Lists, Details
<1>9. /\ (plPage').route # "gone" => (plPage').route = route
      /\ (plPage').likes = "asked" => (plPage').route = "wish"
  BY <1>3, <1>4, <1>6, PageIsOff
<1>10. PageTypes'
  BY <1>1, <1>7 DEF PageTypes
<1>11. AskedOnce'
  BY <1>1, <1>7, EmptyFacts DEF AskedOnce
<1>12. ListsSound'
  <2>1. Apart((plPage').lists)
    BY <1>7, EmptyFacts
  <2>2. (plPage').lists.sale = Running(plProduct') /\ (plPage').lists.quantity = {}
    BY <1>1, <1>7, EmptyFacts
  <2>3. ~(Cardinality(Managed((plPage').known)) > 1)
    BY <1>7, EmptyFacts
  <2> QED
    BY <2>1, <2>2, <2>3 DEF ListsSound
<1>13. GoneFor' /\ WasRoute'
  BY <1>1, <1>7, <1>8, <1>9 DEF GoneFor, WasRoute
<1> QED
  BY <1>10, <1>11, <1>12, <1>13 DEF ListsInv

LEMMA FollowKeeps ==
  ASSUME ListsInv, NEW route \in Routes, NEW item \in Products \cup {SomeProduct},
         route \in Details => item \in plProduct,
         Follow(route, item)
  PROVE  ListsInv'
<1> DEFINE made == Listed(route, plProduct, plOrder)
           page == PageAt(route, item, made)
<1>1. /\ plPage' = Shown(page, plProduct)
      /\ UNCHANGED <<plAnswer, plProduct, plOrder, plAddress>>
  BY DEF Follow
<1>2. page = [route |-> route, was |-> route, item |-> item, lists |-> made, known |-> plProduct,
              likes |-> IF route = "wish" THEN "asked" ELSE "none"]
  BY DEF PageAt
<1>3. /\ page.route = route /\ page.was = route /\ page.lists = made /\ page.known = plProduct /\ page.item = item
      /\ page.likes = "asked" => route = "wish"
  BY <1>2
<1>4. plProduct \in SUBSET Products
  BY DEF ListsInv, PageTypes
<1>5. /\ made \in ListSet /\ ListedIn(made) \subseteq plProduct /\ Apart(made)
      /\ route = "home" => made.sale = Running(plProduct)
      /\ route = "sale" /\ Cardinality(Managed(plProduct)) > 1 => ListedIn(made) = Managed(plProduct)
      /\ route = "wish" => made = Empty
  <2>1. CASE route \in Lists
    BY <1>4, <2>1, ListedFacts
  <2>2. CASE route \in Details
    <3>1. made = Empty
      BY <2>2 DEF Listed, Details
    <3> QED
      BY <2>2, <3>1, EmptyFacts DEF Details
  <2> QED
    BY <2>1, <2>2 DEF Routes
<1> HIDE DEF made
<1>6. page \in Page
  BY <1>2, <1>4, <1>5 DEF Page
<1> HIDE DEF page
<1>7. Rendered(route, plProduct, item) # "exception"
  <2>1. CASE route \in Details
    BY <2>1 DEF Rendered, Productpage, Quantitypage, Checkpage, Gongguapplypage, Details
  <2>2. CASE route \in Lists
    BY <2>2 DEF Rendered, Lists
  <2> QED
    BY <2>1, <2>2 DEF Routes
<1>8. plPage' = page
  BY <1>1, <1>3, <1>7 DEF Shown
<1>9. PageTypes'
  BY <1>1, <1>6, <1>8 DEF ListsInv, PageTypes
<1>10. AskedOnce'
  BY <1>1, <1>3, <1>5, <1>8 DEF ListsInv, AskedOnce
<1>11. ListsSound'
  BY <1>1, <1>3, <1>5, <1>8, EmptyFacts DEF ListsSound
<1>12. route # "gone"
  BY DEF Routes, Lists, Details
<1>13. GoneFor' /\ WasRoute'
  BY <1>1, <1>3, <1>8, <1>12 DEF GoneFor, WasRoute
<1> QED
  BY <1>9, <1>10, <1>11, <1>13 DEF ListsInv

(* A link leads to a product that App has. *)
LEMMA LinkFacts ==
  ASSUME ListsInv, NEW link \in Links
  PROVE  link[1] \in Details /\ link[2] \in plProduct
<1>1. ListedIn(plPage.lists) \subseteq plProduct
  BY DEF ListsInv, AskedOnce
<1>2. CASE link \in {<<"product", p>> : p \in plPage.lists.sale \cup plPage.lists.finish}
  BY <1>1, <1>2 DEF ListedIn, Details
<1>3. CASE link \in {<<"quantity", p>> : p \in plPage.lists.quantity}
  BY <1>1, <1>3 DEF ListedIn, Details
<1>4. CASE Rendered(plPage.route, plProduct, plPage.item) = "Product" /\ link = <<"gongguapply", plPage.item>>
  <2>1. plPage.item \in plProduct
    BY <1>4 DEF Rendered, Productpage, Quantitypage, Checkpage, Gongguapplypage
  <2> QED
    BY <1>4, <2>1 DEF Details
<1>5. CASE Rendered(plPage.route, plProduct, plPage.item) = "Productlead" /\ link = <<"check", plPage.item>>
  <2>1. plPage.item \in plProduct
    BY <1>5 DEF Rendered, Productpage, Quantitypage, Checkpage, Gongguapplypage
  <2> QED
    BY <1>5, <2>1 DEF Details
<1> QED
  BY <1>2, <1>3, <1>4, <1>5 DEF Links

LEMMA GetProductsKeeps ==
  ASSUME ListsInv, NEW served \in SUBSET Offered, GetProducts(served) PROVE ListsInv'
<1>1. /\ plPage.route # "gone" /\ plAnswer["products"] = "asked"
      /\ plAnswer' = [plAnswer EXCEPT !["products"] = "answered"]
      /\ plProduct' = IF served = {} THEN TestProducts ELSE served
      /\ plPage' = IF plPage.route = "home" THEN [plPage EXCEPT !.lists = Home(plProduct')] ELSE plPage
      /\ UNCHANGED <<plOrder, plAddress>>
  BY DEF GetProducts, Answered
<1>2. plPage \in Page /\ plAnswer \in [AppCalls -> {"asked", "answered", "failed"}]
  BY DEF ListsInv, PageTypes
<1>3. plProduct = {} /\ plPage.known = {} /\ ListedIn(plPage.lists) = {} /\ Apart(plPage.lists)
  BY <1>1 DEF ListsInv, AskedOnce, ListsSound
<1>4. plProduct' \in SUBSET Products
  BY <1>1 DEF Products
<1>5. Running(plProduct') \in SUBSET plProduct'
  BY DEF Running
<1>6. Home(plProduct') = OnlySale(Running(plProduct'))
  BY DEF Home
<1>7. Home(plProduct') \in ListSet /\ ListedIn(Home(plProduct')) \subseteq plProduct' /\ Apart(Home(plProduct'))
  BY <1>4, <1>5, <1>6, OneList
<1>8. Home(plProduct').sale = Running(plProduct')
  BY <1>6 DEF OnlySale, Empty
<1>9. /\ plPage' \in Page /\ (plPage').route = plPage.route /\ (plPage').was = plPage.was
      /\ (plPage').known = {} /\ (plPage').likes = plPage.likes
      /\ plPage.route = "home" => (plPage').lists = Home(plProduct')
      /\ plPage.route # "home" => (plPage').lists = plPage.lists
  BY <1>1, <1>2, <1>3, <1>7 DEF Page
<1>10. plAnswer' \in [AppCalls -> {"asked", "answered", "failed"}] /\ plAnswer'["products"] = "answered"
  BY <1>1, <1>2 DEF AppCalls
<1>11. PageTypes'
  BY <1>1, <1>4, <1>9, <1>10 DEF ListsInv, PageTypes
<1>12. AskedOnce'
  BY <1>3, <1>7, <1>9, <1>10 DEF AskedOnce
<1>13. Apart((plPage').lists)
  BY <1>3, <1>7, <1>9
<1>14. ~(Cardinality(Managed((plPage').known)) > 1)
  BY <1>9, EmptyFacts
<1>15. plPage.route # "home" => (plPage').lists.quantity = {}
  BY <1>3, <1>9 DEF ListedIn
<1>16. ListsSound'
  BY <1>8, <1>9, <1>13, <1>14, <1>15 DEF ListsSound
<1>17. GoneFor' /\ WasRoute'
  BY <1>1, <1>9 DEF ListsInv, GoneFor, WasRoute
<1> QED
  BY <1>11, <1>12, <1>16, <1>17 DEF ListsInv

(* Another call is answered or fails: neither a list nor a product changes. *)
LEMMA OtherAnswerKeeps ==
  ASSUME ListsInv, NEW call \in AppCalls, NEW answer \in {"answered", "failed"},
         plAnswer' = [plAnswer EXCEPT ![call] = answer],
         plOrder' \subseteq Offered, UNCHANGED <<plProduct, plPage, plAddress>>
  PROVE  ListsInv'
<1>1. plAnswer' \in [AppCalls -> {"asked", "answered", "failed"}]
  BY DEF ListsInv, PageTypes
<1>2. plAnswer'["products"] = "asked" => plAnswer["products"] = "asked"
  BY DEF ListsInv, PageTypes, AppCalls
<1> QED
  BY <1>1, <1>2 DEF ListsInv, PageTypes, AskedOnce, ListsSound, GoneFor, WasRoute

LEMMA WishAnsweredKeeps ==
  ASSUME ListsInv, NEW liked, WishAnswered(liked) PROVE ListsInv'
<1> DEFINE made == Wish(plPage.known, liked)
<1>1. /\ plPage' = [plPage EXCEPT !.likes = "answered", !.lists = made]
      /\ UNCHANGED <<plAnswer, plProduct, plOrder, plAddress>>
      /\ plPage.route = "wish"
  BY DEF WishAnswered, ListsInv, WasRoute
<1>2. plPage \in Page /\ plPage.known \in SUBSET Products /\ plPage.known \subseteq plProduct
  BY DEF ListsInv, PageTypes, AskedOnce, Page
<1>3. /\ made \in ListSet /\ ListedIn(made) \subseteq plPage.known /\ Apart(made)
      /\ \A p \in made.quantity : p.startDate > Now
  BY <1>2, WishFacts
<1> HIDE DEF made
<1>4. /\ plPage' \in Page /\ (plPage').route = plPage.route /\ (plPage').was = plPage.was
      /\ (plPage').known = plPage.known /\ (plPage').lists = made /\ (plPage').likes = "answered"
  BY <1>1, <1>2, <1>3 DEF Page
<1>5. PageTypes'
  BY <1>1, <1>4 DEF ListsInv, PageTypes
<1>6. AskedOnce'
  BY <1>1, <1>2, <1>3, <1>4 DEF ListsInv, AskedOnce
<1>7. ListsSound'
  BY <1>1, <1>3, <1>4 DEF ListsSound
<1>8. GoneFor' /\ WasRoute'
  BY <1>1, <1>4 DEF ListsInv, GoneFor, WasRoute
<1> QED
  BY <1>5, <1>6, <1>7, <1>8 DEF ListsInv

LEMMA CheckKeeps ==
  ASSUME ListsInv, CheckAnswered PROVE ListsInv'
<1>1. plPage.route = "check" /\ plPage' = Gone(plPage) /\ UNCHANGED <<plAnswer, plProduct, plOrder, plAddress>>
  BY DEF CheckAnswered
<1>2. plPage \in Page /\ plPage.was = "check"
  BY <1>1 DEF ListsInv, PageTypes, WasRoute
<1>3. /\ plPage' \in Page /\ (plPage').route = "gone" /\ (plPage').was = "check"
      /\ (plPage').lists = Empty /\ (plPage').known = plPage.known /\ (plPage').likes = "none"
  BY <1>1, <1>2, PageIsOff
<1>4. PageTypes'
  BY <1>1, <1>3 DEF ListsInv, PageTypes
<1>5. AskedOnce' /\ ListsSound'
  BY <1>1, <1>3, EmptyFacts DEF ListsInv, AskedOnce, ListsSound
<1> QED
  BY <1>3, <1>4, <1>5 DEF ListsInv, GoneFor, WasRoute

-----------------------------------------------------------------------------

LEMMA ListsInitially ==
  ASSUME ProductListsInit PROVE ListsInv
<1>1. /\ plAnswer = [call \in AppCalls |-> "asked"] /\ plProduct = {} /\ plOrder = {} /\ plAddress = "home"
      /\ plPage = [Off EXCEPT !.route = "home"]
  BY DEF ProductListsInit
<1>2. /\ plPage = [route |-> "home", was |-> "home", item |-> SomeProduct, lists |-> Empty, known |-> {},
                   likes |-> "none"]
  BY <1>1 DEF Off
<1>3. plPage \in Page
  BY <1>2, EmptyFacts DEF Page, Routes, Lists
<1>4. PageTypes
  BY <1>1, <1>3 DEF PageTypes, Routes, Lists
<1>5. plPage.lists = Empty /\ plPage.known = {} /\ plPage.route = "home" /\ plPage.was = "home" /\ plPage.likes = "none"
  BY <1>2
<1>6. AskedOnce /\ ListsSound /\ GoneFor /\ WasRoute
  BY <1>1, <1>5, EmptyFacts DEF AskedOnce, ListsSound, GoneFor, WasRoute
<1> QED
  BY <1>4, <1>6 DEF ListsInv

LEMMA ListsKept ==
  ASSUME ListsInv, [ProductListsNext]_plVars PROVE ListsInv'
<1>1. ASSUME NEW route \in Lists, LoadTab(route, SomeProduct) \/ Follow(route, SomeProduct) PROVE ListsInv'
  <2>1. route \in Routes /\ route \notin Details /\ SomeProduct \in Products \cup {SomeProduct}
    BY DEF Routes, Lists, Details
  <2> QED
    BY <1>1, <2>1, LoadKeeps, FollowKeeps
<1>2. ASSUME NEW route \in Details, NEW item \in Offered \cup TestProducts, LoadTab(route, item) PROVE ListsInv'
  BY <1>2, LoadKeeps DEF Routes, Products
<1>3. ASSUME NEW link \in Links, Follow(link[1], link[2]) PROVE ListsInv'
  <2>1. link[1] \in Details /\ link[2] \in plProduct
    BY LinkFacts
  <2>2. link[1] \in Routes /\ link[2] \in Products \cup {SomeProduct}
    BY <2>1 DEF Routes, ListsInv, PageTypes
  <2> QED
    BY <1>3, <2>1, <2>2, FollowKeeps
<1>4. ASSUME NEW served \in SUBSET Offered, GetProducts(served) \/ GetOrders(served) \/ WishAnswered(served)
      PROVE  ListsInv'
  <2>1. ASSUME GetOrders(served) PROVE ListsInv'
    <3>1. /\ plAnswer' = [plAnswer EXCEPT !["orders"] = "answered"] /\ plOrder' = served
          /\ UNCHANGED <<plProduct, plPage, plAddress>>
      BY <2>1 DEF GetOrders, Answered
    <3>2. "orders" \in AppCalls
      BY DEF AppCalls
    <3> QED
      BY <3>1, <3>2, OtherAnswerKeeps
  <2> QED
    BY <1>4, <2>1, GetProductsKeeps, WishAnsweredKeeps
<1>5. CASE GetFails
  <2>1. PICK call \in AppCalls : plAnswer' = [plAnswer EXCEPT ![call] = "failed"]
    BY <1>5 DEF GetFails
  <2>2. UNCHANGED <<plProduct, plOrder, plPage, plAddress>> /\ plOrder' \subseteq Offered
    BY <1>5 DEF GetFails, ListsInv, PageTypes
  <2> QED
    BY <2>1, <2>2, OtherAnswerKeeps
<1>6. CASE CheckAnswered
  BY <1>6, CheckKeeps
<1>7. CASE UNCHANGED plVars
  BY <1>7 DEF plVars, ListsInv, PageTypes, AskedOnce, ListsSound, GoneFor, WasRoute
<1> QED
  BY <1>1, <1>2, <1>3, <1>4, <1>5, <1>6, <1>7 DEF ProductListsNext

LEMMA ListsInvEnough == ListsInv => ProductListsTypeOK /\ PagesShowTheProducts
<1>1. ListsInv => PagesShowTheProducts
  <2> SUFFICES ASSUME ListsInv PROVE PagesShowTheProducts
    OBVIOUS
  <2>1. ListedIn(plPage.lists) \subseteq plProduct
    BY DEF ListsInv, AskedOnce
  <2>2. Apart(plPage.lists)
    BY DEF ListsInv, ListsSound
  <2>3. /\ plPage.route = "home" => plPage.lists.sale = Running(plProduct)
        /\ plPage.route = "sale" /\ Cardinality(Managed(plPage.known)) > 1 =>
             ListedIn(plPage.lists) = Managed(plPage.known)
        /\ plPage.route = "wish" => \A p \in plPage.lists.quantity : p.startDate > Now
    BY DEF ListsInv, ListsSound
  <2>4. GoneFor
    BY DEF ListsInv
  <2>5. plPage.route = "wish" =>
          \A p \in ListedIn(plPage.lists) : p \in plPage.lists.quantity => p.startDate > Now
    BY <2>3
  <2> QED
    BY <2>1, <2>2, <2>3, <2>4, <2>5 DEF PagesShowTheProducts, ListedIn, Apart, InTime, Managed, GoneFor
<1>2. ListsInv => ProductListsTypeOK
  BY DEF ListsInv, PageTypes, Products, Routes, Page, ListSet, ProductListsTypeOK
<1> QED
  BY <1>1, <1>2

(* Every page lists what App has, each product where its dates put it, and the  *)
(* application disappears only on a seller's list of buyers or on the page the  *)
(* tab was loaded with, whatever is answered and in whatever order (App.js, the *)
(* pages under routes/).                                                        *)
THEOREM PagesFaithful == ProductListsSpec => []PagesShowTheProducts
  BY ListsInvEnough, ListsInitially, ListsKept, PTL DEF ProductListsSpec

(* The state of App and of its pages is well formed (App.js, routes/). *)
THEOREM ListsTypeCorrect == ProductListsSpec => []ProductListsTypeOK
  BY ListsInvEnough, ListsInitially, ListsKept, PTL DEF ProductListsSpec

-----------------------------------------------------------------------------
(* The page of one product *)

HeartCall == [method : {"POST", "DELETE"}, id : 0..MaxClicks]

ProductPageState ==
  [open : BOOLEAN, heart : BOOLEAN, heartid : 0..MaxClicks, list : {"asked", "served", "answered"},
   ids : SUBSET (1..MaxClicks), count : 0..MaxCounted, has : Components, min : MinCounts \cup {0}, posted : BOOLEAN]

(* Likes are numbered by the clicks that posted them. *)
Numbered ==
  /\ \A k \in ppLikes \cup ppPage.ids : k \in 1..ppClicks
  /\ ppPage.heartid \in 0..ppClicks
  /\ \A call \in ppCalls : call.id \in 0..ppClicks /\ (call.method = "POST" => call.id \in 1..ppClicks)

(* Until the list is answered the page knows no id, and what was served stays. *)
ListFirst ==
  ppPage.list # "answered" =>
    /\ ppPage.heartid = 0
    /\ \A call \in ppCalls : call.method = "DELETE" => call.id = 0
    /\ ppPage.list = "served" => ppPage.ids \subseteq ppLikes

(* A full heart has a like, there or on its way, that nothing is about to delete. *)
HeartHasLike ==
  ppPage.heart => \E k \in 1..ppClicks : (k \in ppLikes \/ Like(k) \in ppCalls) /\ Unlike(k) \notin ppCalls

(* A page that has posted nothing has at most the like it found. *)
NothingPosted ==
  ~ppPage.posted =>
    /\ \A call \in ppCalls : call.method # "POST"
    /\ ppPage.list # "answered" => ~ppPage.heart /\ ppCalls = {}
    /\ ppPage.list = "served" => ppLikes = ppPage.ids /\ \A j, k \in ppLikes : j = k
    /\ ppPage.list = "answered" /\ ppPage.heart => ppLikes \subseteq {ppPage.heartid}
    /\ ppPage.list = "answered" /\ ~ppPage.heart => \A k \in ppLikes : Unlike(k) \in ppCalls

ProductPageTypes ==
  /\ ppLikes \subseteq 1..MaxClicks
  /\ ppUnits \in 0..MaxCounted
  /\ ppPage \in ProductPageState
  /\ ppCalls \subseteq HeartCall
  /\ ppClicks \in 0..MaxClicks
  /\ ppRaced \in BOOLEAN

Quiet == ppPage.open /\ ppPage.has.heart /\ ~ppRaced

PageInv ==
  /\ ProductPageTypes
  /\ Numbered
  /\ ppPage.count <= ppUnits
  /\ ~ppPage.open => ppPage.list = "answered" /\ ppPage.heartid = 0
  /\ Quiet => ListFirst /\ HeartHasLike /\ NothingPosted

(* A minimum that is met is 100 percent at least, and 100 percent misses less than one. *)
LEMMA CeilOfAchieved ==
  ASSUME NEW m \in Nat \ {0}, NEW n \in Nat
  PROVE  /\ Ceil(n * 100, m) \in Int
         /\ n >= m => Ceil(n * 100, m) >= 100
         /\ Ceil(n * 100, m) >= 100 => n * 100 > m * 99
<1> DEFINE a == n * 100 + m - 1
<1>1. a \in Nat /\ (n >= m => a >= 100 * m) /\ (a >= 100 * m => n * 100 > m * 99)
  OBVIOUS
<1>2. Ceil(n * 100, m) = a \div m
  BY DEF Ceil
<1> HIDE DEF a
<1>3. a \div m \in Int /\ (a >= 100 * m => a \div m >= 100)
  BY <1>1
<1>4. a \div m >= 100 => a >= 100 * m
  BY <1>1
<1> QED
  BY <1>1, <1>2, <1>3, <1>4

LEMMA FewLikes ==
  ASSUME NEW n \in Nat, NEW likes \in SUBSET (1..n), ~(Cardinality(likes) > 1)
  PROVE  \A j, k \in likes : j = k
<1>1. IsFiniteSet(likes)
  <2>1. IsFiniteSet(1..n)
    BY FS_Interval
  <2> QED
    BY <2>1, FS_Subset
<1>2. Cardinality(likes) = 0 \/ Cardinality(likes) = 1
  BY <1>1, FS_CardinalityType
<1> QED
  BY <1>1, <1>2, FS_EmptySet, FS_Singleton

LEMMA OldestIsOne ==
  ASSUME NEW ids \in SUBSET Nat, ids # {}
  PROVE  Oldest(ids) \in ids
<1> DEFINE Before == OpToRel(<, Nat)
<1>1. IsWellFoundedOn(Before, Nat)
  BY NatLessThanWellFounded
<1>2. \A i, j \in Nat : i < j => <<i, j>> \in Before
  BY DEF OpToRel
<1> HIDE DEF Before
<1>3. PICK i \in ids : \A j \in ids : <<j, i>> \notin Before
  BY <1>1, WFMin
<1>4. \A j \in ids : j \in Nat /\ i \in Nat
  OBVIOUS
<1>5. \A j \in ids : ~(j < i)
  BY <1>2, <1>3, <1>4, Zenon
<1>6. \A j \in ids : i <= j
  BY <1>4, <1>5
<1> QED
  BY <1>6 DEF Oldest

LEMMA CallFacts ==
  ASSUME NEW j, NEW k
  PROVE  /\ Like(j) # Unlike(k) /\ (Unlike(j) = Unlike(k) => j = k) /\ (Like(j) = Like(k) => j = k)
         /\ Like(j).method = "POST" /\ Like(j).id = j /\ Unlike(j).method = "DELETE" /\ Unlike(j).id = j
BY DEF Like, Unlike

LEMMA ClosedFacts ==
  /\ Closed \in ProductPageState /\ Closed.open = FALSE /\ Closed.heart = FALSE /\ Closed.heartid = 0
  /\ Closed.list = "answered" /\ Closed.ids = {} /\ Closed.count = 0 /\ Closed.posted = FALSE
<1>1. 0 \in 0..MaxClicks /\ 0 \in 0..MaxCounted
  BY ClicksAssumption
<1>2. Product \in Components
  BY DEF Components
<1> HIDE DEF Product, Components
<1> QED
  BY <1>1, <1>2 DEF Closed, NoId, ProductPageState

LEMMA MountKeeps ==
  ASSUME PageInv, NEW component \in Components, NEW m \in MinCounts, Mount(component, m) PROVE PageInv'
<1>1. /\ ppPage' = [Closed EXCEPT !.open = TRUE, !.has = component, !.min = m,
                                  !.list = IF component.heart THEN "asked" ELSE "answered"]
      /\ ppRaced' = (ppRaced \/ ppCalls # {})
      /\ UNCHANGED <<ppLikes, ppUnits, ppCalls, ppClicks>>
  BY DEF Mount
<1>2. /\ ppPage' \in ProductPageState /\ (ppPage').open = TRUE /\ (ppPage').heart = FALSE /\ (ppPage').heartid = 0
      /\ (ppPage').ids = {} /\ (ppPage').count = 0 /\ (ppPage').posted = FALSE /\ (ppPage').has = component
      /\ (ppPage').list = IF component.heart THEN "asked" ELSE "answered"
  BY <1>1, ClosedFacts DEF ProductPageState
<1>3. ProductPageTypes'
  BY <1>1, <1>2 DEF PageInv, ProductPageTypes
<1>4. Numbered'
  BY <1>1, <1>2 DEF PageInv, ProductPageTypes, Numbered
<1>5. (ppPage').count <= ppUnits'
  BY <1>1, <1>2 DEF PageInv, ProductPageTypes
<1>6. ASSUME Quiet' PROVE ListFirst' /\ HeartHasLike' /\ NothingPosted'
  <2>1. ppCalls = {} /\ (ppPage').list = "asked"
    BY <1>1, <1>2, <1>6 DEF Quiet
  <2> QED
    BY <1>1, <1>2, <2>1 DEF ListFirst, HeartHasLike, NothingPosted
<1> QED
  BY <1>2, <1>3, <1>4, <1>5, <1>6 DEF PageInv

LEMMA LeaveKeeps ==
  ASSUME PageInv, Leave PROVE PageInv'
<1>1. ppPage' = Closed /\ UNCHANGED <<ppLikes, ppUnits, ppCalls, ppClicks, ppRaced>>
  BY DEF Leave
<1>2. ProductPageTypes' /\ Numbered' /\ (ppPage').count <= ppUnits'
  BY <1>1, ClosedFacts DEF PageInv, ProductPageTypes, Numbered
<1> QED
  BY <1>1, <1>2, ClosedFacts DEF PageInv, Quiet

LEMMA FindByPidKeeps ==
  ASSUME PageInv, FindByPid PROVE PageInv'
<1>1. /\ ppPage.list = "asked"
      /\ ppPage' = [ppPage EXCEPT !.list = "served", !.ids = ppLikes]
      /\ ppRaced' = (ppRaced \/ Cardinality(ppLikes) > 1)
      /\ UNCHANGED <<ppLikes, ppUnits, ppCalls, ppClicks>>
  BY DEF FindByPid
<1>2. ppPage \in ProductPageState /\ ppLikes \in SUBSET (1..MaxClicks)
  BY DEF PageInv, ProductPageTypes
<1>3. /\ ppPage' \in ProductPageState /\ (ppPage').list = "served" /\ (ppPage').ids = ppLikes
      /\ (ppPage').open = ppPage.open /\ (ppPage').heart = ppPage.heart /\ (ppPage').heartid = ppPage.heartid
      /\ (ppPage').count = ppPage.count /\ (ppPage').has = ppPage.has /\ (ppPage').posted = ppPage.posted
  BY <1>1, <1>2 DEF ProductPageState
<1>4. ProductPageTypes'
  BY <1>1, <1>3 DEF PageInv, ProductPageTypes
<1>5. Numbered'
  BY <1>1, <1>3 DEF PageInv, Numbered
<1>6. ASSUME Quiet' PROVE ListFirst' /\ HeartHasLike' /\ NothingPosted'
  <2>1. Quiet /\ ~(Cardinality(ppLikes) > 1)
    BY <1>1, <1>3, <1>6 DEF Quiet
  <2>2. \A j, k \in ppLikes : j = k
    BY <1>2, <2>1, FewLikes, ClicksAssumption
  <2>3. ListFirst /\ HeartHasLike /\ NothingPosted
    BY <2>1 DEF PageInv
  <2>4. ListFirst'
    BY <1>1, <1>3, <2>3 DEF ListFirst
  <2>5. HeartHasLike'
    BY <1>1, <1>3, <2>3 DEF HeartHasLike
  <2>6. NothingPosted'
    BY <1>1, <1>3, <2>2, <2>3 DEF NothingPosted
  <2> QED
    BY <2>4, <2>5, <2>6
<1>7. (ppPage').open
  BY <1>1, <1>3 DEF PageInv
<1>8. (ppPage').count <= ppUnits'
  BY <1>1, <1>3 DEF PageInv
<1> QED
  BY <1>4, <1>5, <1>6, <1>7, <1>8 DEF PageInv

LEMMA HeartListsKeeps ==
  ASSUME PageInv, HeartLists PROVE PageInv'
<1> DEFINE id == Oldest(ppPage.ids)
<1>1. /\ ppPage.list = "served"
      /\ ppPage' = IF ppPage.ids = {}
                   THEN [ppPage EXCEPT !.list = "answered"]
                   ELSE [ppPage EXCEPT !.list = "answered", !.ids = {}, !.heartid = id, !.heart = TRUE]
      /\ UNCHANGED <<ppLikes, ppUnits, ppCalls, ppClicks, ppRaced>>
  BY DEF HeartLists
<1>2. ppPage \in ProductPageState /\ ppPage.ids \subseteq 1..ppClicks /\ ppClicks \in 0..MaxClicks
  BY DEF PageInv, ProductPageTypes, Numbered
<1>3. ASSUME ppPage.ids # {} PROVE id \in ppPage.ids
  <2>1. ppPage.ids \subseteq Nat
    BY <1>2
  <2> QED
    BY <1>3, <2>1, OldestIsOne
<1> HIDE DEF id
<1>4. /\ ppPage' \in ProductPageState /\ (ppPage').list = "answered" /\ (ppPage').ids = {}
      /\ (ppPage').open = ppPage.open /\ (ppPage').count = ppPage.count /\ (ppPage').has = ppPage.has
      /\ (ppPage').posted = ppPage.posted
      /\ ppPage.ids = {} => (ppPage').heart = ppPage.heart /\ (ppPage').heartid = ppPage.heartid
      /\ ppPage.ids # {} => (ppPage').heart = TRUE /\ (ppPage').heartid = id
  <2>1. CASE ppPage.ids = {}
    BY <1>1, <1>2, <2>1 DEF ProductPageState
  <2>2. CASE ppPage.ids # {}
    <3>1. id \in 0..MaxClicks
      <4>1. id \in 1..ppClicks
        BY <1>2, <1>3, <2>2
      <4> QED
        BY <1>2, <4>1, ClicksAssumption
    <3>2. ppPage' = [ppPage EXCEPT !.list = "answered", !.ids = {}, !.heartid = id, !.heart = TRUE]
      BY <1>1, <2>2
    <3>3. /\ (ppPage').list = "answered" /\ (ppPage').ids = {}
          /\ (ppPage').open = ppPage.open /\ (ppPage').count = ppPage.count /\ (ppPage').has = ppPage.has
          /\ (ppPage').posted = ppPage.posted /\ (ppPage').heart = TRUE /\ (ppPage').heartid = id
      BY <1>2, <3>2 DEF ProductPageState
    <3>4. ppPage' \in ProductPageState
      BY <1>2, <3>1, <3>2 DEF ProductPageState
    <3> QED
      BY <2>2, <3>3, <3>4
  <2> QED
    BY <2>1, <2>2
<1>5. ProductPageTypes'
  BY <1>1, <1>4 DEF PageInv, ProductPageTypes
<1>6. Numbered'
  <2>1. (ppPage').heartid \in 0..ppClicks
    BY <1>2, <1>3, <1>4 DEF PageInv, Numbered
  <2> QED
    BY <1>1, <1>4, <2>1 DEF PageInv, Numbered
<1>7. ASSUME Quiet' PROVE ListFirst' /\ HeartHasLike' /\ NothingPosted'
  <2>1. Quiet
    BY <1>1, <1>4, <1>7 DEF Quiet
  <2>2. ListFirst /\ HeartHasLike /\ NothingPosted
    BY <2>1 DEF PageInv
  <2>3. ListFirst'
    BY <1>4 DEF ListFirst
  <2>4. HeartHasLike'
    <3>1. CASE ppPage.ids = {}
      BY <1>1, <1>4, <2>2, <3>1 DEF HeartHasLike
    <3>2. CASE ppPage.ids # {}
      <4>1. id \in ppLikes /\ id \in 1..ppClicks
        BY <1>1, <1>2, <1>3, <2>2, <3>2 DEF ListFirst
      <4>2. Unlike(id) \notin ppCalls
        BY <1>1, <2>2, <4>1, CallFacts DEF ListFirst
      <4> QED
        BY <1>1, <4>1, <4>2 DEF HeartHasLike
    <3> QED
      BY <3>1, <3>2
  <2>5. NothingPosted'
    <3>1. CASE ppPage.posted
      BY <1>4, <3>1 DEF NothingPosted
    <3>2. CASE ~ppPage.posted
      <4>1. /\ ~ppPage.heart /\ ppCalls = {} /\ ppLikes = ppPage.ids /\ \A j, k \in ppLikes : j = k
        BY <1>1, <2>2, <3>2 DEF NothingPosted
      <4>2. ppPage.ids # {} => ppLikes \subseteq {id}
        BY <1>3, <4>1
      <4> QED
        BY <1>1, <1>4, <4>1, <4>2 DEF NothingPosted
    <3> QED
      BY <3>1, <3>2
  <2> QED
    BY <2>3, <2>4, <2>5
<1>8. (ppPage').open
  BY <1>1, <1>4 DEF PageInv
<1>9. (ppPage').count <= ppUnits'
  BY <1>1, <1>4 DEF PageInv
<1> QED
  BY <1>5, <1>6, <1>7, <1>8, <1>9 DEF PageInv

LEMMA ClickKeeps ==
  ASSUME PageInv, ClickLike PROVE PageInv'
<1> DEFINE n == ppClicks + 1
           call == IF ppPage.heart THEN Unlike(ppPage.heartid) ELSE Like(n)
<1>1. /\ ppPage.open /\ ppPage.has.heart /\ ppClicks < MaxClicks
      /\ ppClicks' = n
      /\ ppPage' = [ppPage EXCEPT !.heart = ~@, !.posted = @ \/ ~ppPage.heart]
      /\ ppCalls' = ppCalls \cup {call}
      /\ UNCHANGED <<ppLikes, ppUnits, ppRaced>>
  BY DEF ClickLike
<1>2. ppPage \in ProductPageState /\ ppClicks \in 0..MaxClicks /\ n \in 1..MaxClicks /\ ppClicks \in Nat
  BY <1>1, ClicksAssumption DEF PageInv, ProductPageTypes
<1>3. /\ \A k \in ppLikes \cup ppPage.ids : k \in 1..ppClicks
      /\ ppPage.heartid \in 0..ppClicks
      /\ \A c \in ppCalls : c.id \in 0..ppClicks /\ (c.method = "POST" => c.id \in 1..ppClicks)
  BY DEF PageInv, Numbered
<1>4. 0..ppClicks \subseteq 0..n /\ 1..ppClicks \subseteq 1..n /\ n \in 1..n /\ n \notin 0..ppClicks /\ 1..n \subseteq 0..n
  BY <1>2
<1>5. /\ ppPage' \in ProductPageState /\ (ppPage').open = ppPage.open /\ (ppPage').heartid = ppPage.heartid
      /\ (ppPage').list = ppPage.list /\ (ppPage').ids = ppPage.ids /\ (ppPage').count = ppPage.count
      /\ (ppPage').has = ppPage.has
      /\ (ppPage').heart = ~ppPage.heart /\ (ppPage').posted = (ppPage.posted \/ ~ppPage.heart)
  BY <1>1, <1>2 DEF ProductPageState
<1> HIDE DEF n
<1>6. ppPage.heart => call = Unlike(ppPage.heartid)
  OBVIOUS
<1>7. ~ppPage.heart => call = Like(n)
  OBVIOUS
<1> HIDE DEF call
<1>8. /\ ppPage.heart => call.method = "DELETE" /\ call.id = ppPage.heartid
      /\ ~ppPage.heart => call.method = "POST" /\ call.id = n
  BY <1>6, <1>7, CallFacts
<1>9. call.id \in 0..n /\ (call.method = "POST" => call.id \in 1..n)
  <2>1. CASE ppPage.heart
    BY <1>3, <1>4, <1>8, <2>1
  <2>2. CASE ~ppPage.heart
    BY <1>4, <1>8, <2>2
  <2> QED
    BY <2>1, <2>2
<1>10. call \in HeartCall
  <2>1. CASE ppPage.heart
    BY <1>2, <1>6, <2>1 DEF Unlike, HeartCall, ProductPageState
  <2>2. CASE ~ppPage.heart
    BY <1>2, <1>7, <2>2 DEF Like, HeartCall
  <2> QED
    BY <2>1, <2>2
<1>11. ProductPageTypes'
  <2>1. ppClicks' \in 0..MaxClicks /\ ppCalls' \subseteq HeartCall
    BY <1>1, <1>2, <1>10 DEF PageInv, ProductPageTypes
  <2> QED
    BY <1>1, <1>5, <2>1 DEF PageInv, ProductPageTypes
<1>12. Numbered'
  BY <1>1, <1>3, <1>4, <1>5, <1>9 DEF Numbered
<1>13. ASSUME Quiet' PROVE ListFirst' /\ HeartHasLike' /\ NothingPosted'
  <2>1. Quiet
    BY <1>1, <1>5, <1>13 DEF Quiet
  <2>2. ListFirst /\ HeartHasLike /\ NothingPosted
    BY <2>1 DEF PageInv
  <2>3. ListFirst'
    <3>1. ppPage.list # "answered" /\ call.method = "DELETE" => call.id = 0
      BY <1>8, <2>2 DEF ListFirst
    <3> QED
      BY <1>1, <1>5, <2>2, <3>1 DEF ListFirst
  <2>4. CASE ppPage.heart
    <3>1. ~(ppPage').heart /\ ((ppPage').posted <=> ppPage.posted)
      BY <1>5, <2>4
    <3>2. HeartHasLike'
      BY <3>1 DEF HeartHasLike
    <3>3. NothingPosted'
      <4> SUFFICES ASSUME ~ppPage.posted PROVE NothingPosted'
        BY <3>1 DEF NothingPosted
      <4>1. /\ ppPage.list = "answered" /\ ppLikes \subseteq {ppPage.heartid}
            /\ \A c \in ppCalls : c.method # "POST"
        BY <1>2, <2>2, <2>4 DEF NothingPosted, ProductPageState
      <4>2. \A c \in ppCalls' : c.method # "POST"
        BY <1>1, <1>8, <2>4, <4>1
      <4>3. \A k \in ppLikes' : Unlike(k) \in ppCalls'
        BY <1>1, <1>6, <2>4, <4>1
      <4> QED
        BY <1>5, <3>1, <4>1, <4>2, <4>3 DEF NothingPosted
    <3> QED
      BY <2>3, <3>2, <3>3
  <2>5. CASE ~ppPage.heart
    <3>1. (ppPage').posted
      BY <1>5, <2>5
    <3>2. Like(n) \in ppCalls'
      BY <1>1, <1>7, <2>5
    <3>3. Unlike(n) \notin ppCalls'
      <4>1. Unlike(n) \notin ppCalls
        BY <1>3, <1>4, CallFacts
      <4> QED
        BY <1>1, <1>7, <2>5, <4>1, CallFacts
    <3>4. HeartHasLike'
      BY <1>1, <1>4, <3>2, <3>3 DEF HeartHasLike
    <3> QED
      BY <2>3, <3>1, <3>4 DEF NothingPosted
  <2> QED
    BY <2>4, <2>5
<1>14. (ppPage').open /\ (ppPage').count <= ppUnits'
  BY <1>1, <1>5 DEF PageInv
<1> QED
  BY <1>11, <1>12, <1>13, <1>14 DEF PageInv

LEMMA ServeKeeps ==
  ASSUME PageInv, NEW call \in ppCalls, ServeLike(call) PROVE PageInv'
<1>1. /\ ppLikes' = IF call.method = "POST" THEN ppLikes \cup {call.id} ELSE ppLikes \ {call.id}
      /\ ppCalls' = ppCalls \ {call}
      /\ UNCHANGED <<ppUnits, ppPage, ppClicks, ppRaced>>
  BY DEF ServeLike
<1>2. call \in HeartCall /\ ppLikes \subseteq 1..MaxClicks /\ ppClicks \in 0..MaxClicks
  BY DEF PageInv, ProductPageTypes
<1>3. /\ \A k \in ppLikes \cup ppPage.ids : k \in 1..ppClicks
      /\ \A c \in ppCalls : c.id \in 0..ppClicks /\ (c.method = "POST" => c.id \in 1..ppClicks)
  BY DEF PageInv, Numbered
<1>4. \A k \in ppLikes' : k \in 1..ppClicks
  BY <1>1, <1>3
<1>5. 1..ppClicks \subseteq 1..MaxClicks /\ 0 \notin 1..ppClicks
  BY <1>2, ClicksAssumption
<1>6. ProductPageTypes'
  <2>1. ppLikes' \subseteq 1..MaxClicks
    BY <1>4, <1>5
  <2> QED
    BY <1>1, <2>1 DEF PageInv, ProductPageTypes
<1>7. Numbered'
  BY <1>1, <1>4 DEF PageInv, Numbered
<1>8. /\ call.method \in {"POST", "DELETE"}
      /\ call.method = "POST" => call = Like(call.id)
      /\ call.method = "DELETE" => call = Unlike(call.id)
  BY <1>2 DEF HeartCall, Like, Unlike
<1>9. ASSUME Quiet' PROVE ListFirst' /\ HeartHasLike' /\ NothingPosted'
  <2>1. Quiet
    BY <1>1, <1>9 DEF Quiet
  <2>2. ListFirst /\ HeartHasLike /\ NothingPosted
    BY <2>1 DEF PageInv
  <2>3. ListFirst'
    <3> SUFFICES ASSUME ppPage.list # "answered" PROVE ListFirst'
      BY <1>1 DEF ListFirst
    <3>1. /\ ppPage.heartid = 0
          /\ \A c \in ppCalls : c.method = "DELETE" => c.id = 0
          /\ ppPage.list = "served" => ppPage.ids \subseteq ppLikes
      BY <2>2 DEF ListFirst
    <3>2. ppLikes \subseteq ppLikes'
      BY <1>1, <1>3, <1>5, <1>8, <3>1
    <3> QED
      BY <1>1, <3>1, <3>2 DEF ListFirst
  <2>4. HeartHasLike'
    <3> SUFFICES ASSUME ppPage.heart
                 PROVE  \E k \in 1..ppClicks : (k \in ppLikes' \/ Like(k) \in ppCalls') /\ Unlike(k) \notin ppCalls'
      BY <1>1 DEF HeartHasLike
    <3>1. PICK k \in 1..ppClicks : (k \in ppLikes \/ Like(k) \in ppCalls) /\ Unlike(k) \notin ppCalls
      BY <2>2 DEF HeartHasLike
    <3>2. Unlike(k) \notin ppCalls'
      BY <1>1, <3>1
    <3>3. CASE call.method = "POST"
      <4>1. k \in ppLikes => k \in ppLikes'
        BY <1>1, <3>3
      <4>2. call = Like(k) => k \in ppLikes'
        BY <1>1, <3>3, CallFacts
      <4>3. call # Like(k) /\ Like(k) \in ppCalls => Like(k) \in ppCalls'
        BY <1>1
      <4> QED
        BY <3>1, <3>2, <4>1, <4>2, <4>3
    <3>4. CASE call.method = "DELETE"
      <4>1. call.id # k
        BY <1>8, <3>1, <3>4
      <4>2. k \in ppLikes => k \in ppLikes'
        BY <1>1, <3>4, <4>1
      <4>3. Like(k) \in ppCalls => Like(k) \in ppCalls'
        BY <1>1, <3>4, CallFacts
      <4> QED
        BY <3>1, <3>2, <4>2, <4>3
    <3> QED
      BY <1>8, <3>3, <3>4
  <2>5. NothingPosted'
    <3> SUFFICES ASSUME ~ppPage.posted PROVE NothingPosted'
      BY <1>1 DEF NothingPosted
    <3>1. call.method # "POST" /\ \A c \in ppCalls : c.method # "POST"
      BY <2>2 DEF NothingPosted
    <3>2. ppPage.list = "answered"
      BY <2>2 DEF NothingPosted
    <3>3. ppLikes' = ppLikes \ {call.id} /\ call = Unlike(call.id)
      BY <1>1, <1>8, <3>1
    <3>4. ppPage.heart => ppLikes \subseteq {ppPage.heartid}
      BY <2>2, <3>2 DEF NothingPosted
    <3>5. ~ppPage.heart => \A k \in ppLikes : Unlike(k) \in ppCalls
      BY <2>2, <3>2 DEF NothingPosted
    <3>6. ~ppPage.heart => \A k \in ppLikes' : Unlike(k) \in ppCalls'
      <4> SUFFICES ASSUME ~ppPage.heart, NEW k \in ppLikes' PROVE Unlike(k) \in ppCalls'
        OBVIOUS
      <4>1. k \in ppLikes /\ k # call.id
        BY <3>3
      <4>2. Unlike(k) \in ppCalls /\ Unlike(k) # call
        BY <3>3, <3>5, <4>1, CallFacts
      <4> QED
        BY <1>1, <4>2
    <3>7. ppPage.heart => ppLikes' \subseteq {ppPage.heartid}
      BY <3>3, <3>4
    <3>8. \A c \in ppCalls' : c.method # "POST"
      BY <1>1, <3>1
    <3> QED
      BY <1>1, <3>2, <3>6, <3>7, <3>8 DEF NothingPosted
  <2> QED
    BY <2>3, <2>4, <2>5
<1>10. (ppPage').count <= ppUnits' /\ (~(ppPage').open => (ppPage').list = "answered" /\ (ppPage').heartid = 0)
  BY <1>1 DEF PageInv
<1> QED
  BY <1>6, <1>7, <1>9, <1>10 DEF PageInv

LEMMA LikeFailsKeeps ==
  ASSUME PageInv, LikeFails PROVE PageInv'
<1>1. ppRaced' = TRUE /\ UNCHANGED <<ppLikes, ppUnits, ppClicks>>
  BY DEF LikeFails
<1>2. ppPage \in ProductPageState /\ ppCalls \subseteq HeartCall
  BY DEF PageInv, ProductPageTypes
<1>3. ppCalls' \subseteq ppCalls
  BY DEF LikeFails
<1>4. /\ ppPage' \in ProductPageState /\ (ppPage').open = ppPage.open /\ (ppPage').heartid = ppPage.heartid
      /\ (ppPage').ids \subseteq ppPage.ids /\ (ppPage').count = ppPage.count
      /\ (ppPage').list = ppPage.list \/ (ppPage').list = "answered"
  <2>1. CASE UNCHANGED ppPage
    BY <1>2, <2>1
  <2>2. CASE ppPage' = [ppPage EXCEPT !.list = "answered", !.ids = {}]
    BY <1>2, <2>2 DEF ProductPageState
  <2> QED
    BY <2>1, <2>2 DEF LikeFails
<1>5. ProductPageTypes'
  BY <1>1, <1>2, <1>3, <1>4 DEF PageInv, ProductPageTypes
<1>6. Numbered'
  BY <1>1, <1>3, <1>4 DEF PageInv, Numbered
<1>7. ~Quiet'
  BY <1>1 DEF Quiet
<1> QED
  BY <1>1, <1>4, <1>5, <1>6, <1>7 DEF PageInv

LEMMA UnitsKeeps ==
  ASSUME PageInv, NEW q \in 1..MaxCounted, UnitsAdded(q) PROVE PageInv'
<1>1. /\ ppUnits + q <= MaxCounted /\ ppUnits' = ppUnits + q
      /\ UNCHANGED <<ppLikes, ppPage, ppCalls, ppClicks, ppRaced>>
  BY DEF UnitsAdded
<1>2. ppUnits \in 0..MaxCounted /\ ppPage.count \in 0..MaxCounted
  BY DEF PageInv, ProductPageTypes, ProductPageState
<1>3. ppUnits' \in 0..MaxCounted /\ ppUnits <= ppUnits'
  BY <1>1, <1>2, ClicksAssumption
<1>4. (ppPage').count <= ppUnits'
  BY <1>1, <1>2, <1>3, ClicksAssumption DEF PageInv
<1> QED
  BY <1>1, <1>3, <1>4
     DEF PageInv, ProductPageTypes, Numbered, Quiet, ListFirst, HeartHasLike, NothingPosted

LEMMA RateKeeps ==
  ASSUME PageInv, CalculateRate PROVE PageInv'
<1>1. ppPage' = [ppPage EXCEPT !.count = ppUnits] /\ UNCHANGED <<ppLikes, ppUnits, ppCalls, ppClicks, ppRaced>>
  BY DEF CalculateRate
<1>2. ppPage \in ProductPageState /\ ppUnits \in 0..MaxCounted
  BY DEF PageInv, ProductPageTypes
<1>3. /\ ppPage' \in ProductPageState /\ (ppPage').open = ppPage.open /\ (ppPage').heartid = ppPage.heartid
      /\ (ppPage').list = ppPage.list /\ (ppPage').ids = ppPage.ids /\ (ppPage').count = ppUnits
      /\ (ppPage').has = ppPage.has /\ (ppPage').heart = ppPage.heart /\ (ppPage').posted = ppPage.posted
  BY <1>1, <1>2 DEF ProductPageState
<1>4. (ppPage').count <= ppUnits'
  BY <1>1, <1>2, <1>3, ClicksAssumption
<1> QED
  BY <1>1, <1>3, <1>4
     DEF PageInv, ProductPageTypes, Numbered, Quiet, ListFirst, HeartHasLike, NothingPosted

LEMMA PageInitially ==
  ASSUME ProductPageInit PROVE PageInv
<1>1. ppLikes = {} /\ ppUnits = 0 /\ ppPage = Closed /\ ppCalls = {} /\ ppClicks = 0 /\ ppRaced = FALSE
  BY DEF ProductPageInit
<1>2. ProductPageTypes
  <2>1. ppUnits \in 0..MaxCounted /\ ppClicks \in 0..MaxClicks
    BY <1>1, ClicksAssumption
  <2>2. ppPage \in ProductPageState
    BY <1>1, ClosedFacts, Zenon
  <2>3. ppLikes \subseteq 1..MaxClicks /\ ppCalls \subseteq HeartCall /\ ppRaced \in BOOLEAN
    BY <1>1
  <2> QED
    BY <2>1, <2>2, <2>3 DEF ProductPageTypes
<1>3. ppPage.ids = {} /\ ppPage.heartid = 0
  BY <1>1, ClosedFacts, Zenon
<1>4. \A k \in ppLikes \cup ppPage.ids : k \in 1..ppClicks
  BY <1>1, <1>3
<1>5. \A call \in ppCalls : call.id \in 0..ppClicks /\ (call.method = "POST" => call.id \in 1..ppClicks)
  BY <1>1
<1>6. Numbered
  BY <1>1, <1>3, <1>4, <1>5 DEF Numbered
<1> QED
  BY <1>1, <1>2, <1>6, ClosedFacts DEF PageInv, Quiet

LEMMA PageKept ==
  ASSUME PageInv, [ProductPageNext]_ppVars PROVE PageInv'
<1>1. CASE UNCHANGED ppVars
  BY <1>1 DEF ppVars, PageInv, ProductPageTypes, Numbered, Quiet, ListFirst, HeartHasLike, NothingPosted
<1>2. CASE ProductPageNext
  BY <1>2, MountKeeps, LeaveKeeps, FindByPidKeeps, HeartListsKeeps, LikeFailsKeeps, ClickKeeps, ServeKeeps,
     UnitsKeeps, RateKeeps DEF ProductPageNext, SendApply
<1> QED
  BY <1>1, <1>2

LEMMA PageInvEnough == PageInv => ProductPageTypeOK /\ ProductPageAgrees
<1>1. PageInv => ProductPageAgrees
  <2> SUFFICES ASSUME PageInv PROVE ProductPageAgrees
    OBVIOUS
  <2>1. ASSUME ppPage.open, ppPage.has.heart, ppPage.list = "answered", ppCalls = {}, ~ppRaced
        PROVE  /\ ppPage.heart => ppLikes # {}
               /\ ~ppPage.heart /\ ppLikes # {} => ppPage.posted
    BY <2>1 DEF PageInv, Quiet, HeartHasLike, NothingPosted
  <2>2. HeartAgrees
    BY <2>1 DEF HeartAgrees
  <2>3. /\ ppPage.count \in Nat /\ ppUnits \in Nat /\ ppPage.count <= ppUnits
        /\ ppPage.min \in Int /\ Least \in Int
    <3>1. ppPage \in ProductPageState /\ ppUnits \in 0..MaxCounted /\ ppPage.count <= ppUnits
      BY DEF PageInv, ProductPageTypes
    <3>2. ppPage.count \in 0..MaxCounted /\ ppPage.min \in MinCounts \cup {0}
      BY <3>1 DEF ProductPageState
    <3>3. ppPage.min \in Int
      <4>1. MinCounts \subseteq Int /\ 0 \in Int
        BY MinCountsAssumption
      <4> QED
        BY <3>2, <4>1, Zenon
    <3> QED
      BY <3>1, <3>2, <3>3, ClicksAssumption DEF Least
  <2>4. ASSUME IsAchieved PROVE ppPage.count >= Least /\ ppUnits >= Least
    BY <2>3, <2>4 DEF IsAchieved
  <2>5. ASSUME Least > 0
        PROVE  /\ IsAchieved => Percent >= 100 /\ (ppPage.has.capped => Percent = 100)
               /\ Percent >= 100 => ppUnits * 100 > Least * 99
    <3> DEFINE up == Ceil(ppPage.count * 100, Least)
    <3>1. /\ up \in Int /\ (ppPage.count >= Least => up >= 100)
          /\ up >= 100 => ppPage.count * 100 > Least * 99
      BY <2>3, <2>5, CeilOfAchieved
    <3>2. Percent = IF ppPage.has.capped THEN AtMost100(up) ELSE up
      BY <2>3, <2>5 DEF Percent
    <3> HIDE DEF up
    <3>3. /\ up >= 100 => Percent >= 100 /\ (ppPage.has.capped => Percent = 100)
          /\ Percent >= 100 => up >= 100
      BY <3>1, <3>2 DEF AtMost100
    <3> QED
      BY <2>3, <2>4, <3>1, <3>3
  <2>6. RateAgrees
    BY <2>4, <2>5 DEF RateAgrees
  <2> QED
    BY <2>2, <2>6 DEF ProductPageAgrees
<1>2. PageInv => ProductPageTypeOK
  BY DEF PageInv, ProductPageTypes, ProductPageState, HeartCall, ProductPageTypeOK
<1> QED
  BY <1>1, <1>2

(* Without overlapping calls a full heart means a like, and an empty one that    *)
(* there is none unless it was posted from this very page; and a product said    *)
(* to be achieved is, at 100 percent or, where it is not capped, more, for every *)
(* min_count above zero (clickLike, heartlists, calculateRate, isAchieved).      *)
THEOREM ProductPageFaithful == ProductPageSpec => []ProductPageAgrees
  BY PageInvEnough, PageInitially, PageKept, PTL DEF ProductPageSpec

(* The state of the page of one product is well formed: likes and the ids *)
(* of calls are numbers of clicks, counts are of what was ordered or       *)
(* surveyed (Product.js, Quantity.js).                                     *)
THEOREM ProductPageTypeCorrect == ProductPageSpec => []ProductPageTypeOK
  BY PageInvEnough, PageInitially, PageKept, PTL DEF ProductPageSpec

-----------------------------------------------------------------------------
(* The forms of a seller.  Without a race at most one thing is awaited.    *)
(* While a file is read, the newform of its render is still the form's,    *)
(* and what the user meant is that newform with the photo in its place; so *)
(* the callback that spreads the old newform undoes nothing.               *)

(* What is awaited belongs to a form. *)
NothingAwaitedWithoutForm == pfForm = "none" => pfReads = {} /\ ~pfFetch

(* Without a race: one file, or the product, or nothing. *)
OneAwaited ==
  /\ pfFetch => pfReads = {}
  /\ \A r, s \in pfReads : r = s

(* Without a race: what is awaited completes the form. *)
AwaitedCompletes ==
  /\ pfReads = {} => pfMeant = pfNewform
  /\ \A read \in pfReads :
       /\ read.newform = pfNewform
       /\ pfMeant = [pfNewform EXCEPT ![read.field] = read.value]

FormInv ==
  /\ ProductFormTypeOK
  /\ NothingAwaitedWithoutForm
  /\ pfForm # "none" /\ ~pfRaced => OneAwaited /\ AwaitedCompletes

Read == [field : Photos, value : 1..MaxVersions, newform : [Fields -> Values]]

LEMMA ValuesFacts ==
  /\ Values = 0..(MaxVersions + 1) /\ 0 \in Values /\ 1 \in Values
  /\ Fetched \in Values
  /\ 1..MaxVersions \subseteq Values
  /\ Blank \in [Fields -> Values]
  /\ "managerId" \in Fields /\ Photos \subseteq Fields /\ TypedFields \subseteq Fields
  /\ "mainPhoto" \in Photos /\ "sizePhoto" \in Photos
<1>1. Values = 0..(MaxVersions + 1) /\ Fetched = MaxVersions + 1
  BY DEF Values, Fetched
<1>2. 0 \in Values /\ 1 \in Values /\ Fetched \in Values /\ 1..MaxVersions \subseteq Values
  BY <1>1, VersionsAssumption
<1>3. Blank \in [Fields -> Values]
  BY <1>2 DEF Blank
<1>4. /\ "managerId" \in Fields /\ Photos \subseteq Fields /\ TypedFields \subseteq Fields
      /\ "mainPhoto" \in Photos /\ "sizePhoto" \in Photos
  BY DEF Fields, Photos
<1> QED
  BY <1>1, <1>2, <1>3, <1>4

LEMMA NextVersionFacts ==
  ASSUME ProductFormTypeOK, NEW f \in Fields, NextVersion(f) <= MaxVersions
  PROVE  NextVersion(f) \in 1..MaxVersions /\ NextVersion(f) \in Values
<1>1. pfMeant[f] \in Values
  BY DEF ProductFormTypeOK
<1>2. pfMeant[f] \in 0..(MaxVersions + 1)
  BY <1>1, ValuesFacts
<1>3. NextVersion(f) \in Int /\ NextVersion(f) >= 1
  BY <1>2, VersionsAssumption DEF NextVersion, Fetched
<1> QED
  BY <1>3, ValuesFacts, VersionsAssumption

LEMMA FormInitially ==
  ASSUME ProductFormInit PROVE FormInv
<1>1. ProductFormTypeOK
  <2>1. 0 \in 0..MaxSubmits
    BY VersionsAssumption
  <2>2. pfNewform \in [Fields -> Values] /\ pfMeant \in [Fields -> Values]
    BY ValuesFacts DEF ProductFormInit
  <2> QED
    BY <2>1, <2>2 DEF ProductFormInit, ProductFormTypeOK
<1> QED
  BY <1>1 DEF ProductFormInit, FormInv, NothingAwaitedWithoutForm

-----------------------------------------------------------------------------
(* One lemma for each kind of step *)

LEMMA OpenKeeps ==
  ASSUME FormInv, Newgonggu \/ Editgonggu PROVE FormInv'
<1>0. pfForm = "none" /\ pfReads = {} /\ ~pfFetch
  BY DEF FormInv, NothingAwaitedWithoutForm, Newgonggu, Editgonggu
<1>1. CASE Newgonggu
  <2>1. pfNewform' \in [Fields -> Values] /\ pfMeant' = pfNewform'
    BY <1>1, ValuesFacts DEF Newgonggu
  <2>2. /\ pfForm' = "Newgonggu" /\ pfRaced' = FALSE
        /\ pfReads' = {} /\ pfFetch' = pfFetch /\ pfPosts' = pfPosts
    BY <1>0, <1>1 DEF Newgonggu
  <2>3. ProductFormTypeOK'
    BY <2>1, <2>2 DEF FormInv, ProductFormTypeOK
  <2> QED
    BY <1>0, <2>1, <2>2, <2>3 DEF FormInv, NothingAwaitedWithoutForm, OneAwaited, AwaitedCompletes
<1>2. CASE Editgonggu
  <2>1. pfNewform' \in [Fields -> Values] /\ pfMeant' = pfNewform'
    BY <1>2, ValuesFacts DEF Editgonggu
  <2>2. /\ pfForm' = "Editgonggu" /\ pfRaced' = FALSE
        /\ pfReads' = {} /\ pfFetch' = TRUE /\ pfPosts' = pfPosts
    BY <1>0, <1>2 DEF Editgonggu
  <2>3. ProductFormTypeOK'
    BY <2>1, <2>2 DEF FormInv, ProductFormTypeOK
  <2> QED
    BY <2>1, <2>2, <2>3 DEF FormInv, NothingAwaitedWithoutForm, OneAwaited, AwaitedCompletes
<1> QED
  BY <1>1, <1>2

LEMMA CloseKeeps ==
  ASSUME FormInv, Close, pfPosts' \in 0..MaxSubmits, UNCHANGED <<pfMeant, pfRaced>> PROVE FormInv'
<1>1. ProductFormTypeOK'
  BY ValuesFacts DEF FormInv, ProductFormTypeOK, Close
<1> QED
  BY <1>1 DEF FormInv, Close, NothingAwaitedWithoutForm

LEMMA FetchDataKeeps ==
  ASSUME FormInv, FetchData PROVE FormInv'
<1>1. pfFetch /\ UNCHANGED <<pfPosts, pfRaced>>
  BY DEF FetchData
<1>2. CASE Close /\ UNCHANGED pfMeant
  BY <1>1, <1>2, CloseKeeps DEF FormInv, ProductFormTypeOK
<1>3. CASE /\ pfNewform' = [f \in Fields |-> Fetched]
           /\ pfMeant' = IF pfRaced THEN pfMeant ELSE pfNewform'
           /\ pfFetch' = FALSE
           /\ UNCHANGED <<pfForm, pfReads>>
  <2>1. pfNewform' \in [Fields -> Values]
    BY <1>3, ValuesFacts
  <2>2. pfMeant' \in [Fields -> Values]
    BY <1>3, <2>1 DEF FormInv, ProductFormTypeOK
  <2>3. ProductFormTypeOK'
    BY <1>1, <1>3, <2>1, <2>2 DEF FormInv, ProductFormTypeOK
  <2>4. ASSUME pfForm' # "none", ~pfRaced' PROVE OneAwaited' /\ AwaitedCompletes'
    <3>1. pfReads = {}
      BY <1>1, <1>3, <2>4 DEF FormInv, OneAwaited
    <3>2. pfReads' = {} /\ pfMeant' = pfNewform'
      BY <1>1, <1>3, <2>4, <3>1
    <3> QED
      BY <3>2 DEF OneAwaited, AwaitedCompletes
  <2> QED
    BY <1>1, <1>3, <2>3, <2>4 DEF FormInv, NothingAwaitedWithoutForm
<1> QED
  BY <1>2, <1>3 DEF FetchData

LEMMA OnChangeKeeps ==
  ASSUME FormInv, NEW f \in TypedFields, OnChange(f) PROVE FormInv'
<1> DEFINE v == NextVersion(f)
<1>1. f \in Fields /\ v \in Values
  BY ValuesFacts, NextVersionFacts DEF OnChange, FormInv
<1>2. /\ pfForm # "none"
      /\ pfNewform' = [pfNewform EXCEPT ![f] = v]
      /\ pfMeant' = [pfMeant EXCEPT ![f] = v]
      /\ pfRaced' = (pfRaced \/ Awaiting)
      /\ UNCHANGED <<pfForm, pfReads, pfFetch, pfPosts>>
  BY DEF OnChange
<1> HIDE DEF v
<1>3. Awaiting \in BOOLEAN
  BY DEF Awaiting, FormInv, ProductFormTypeOK
<1>4. ProductFormTypeOK'
  BY <1>1, <1>2, <1>3 DEF FormInv, ProductFormTypeOK
<1>5. ASSUME ~pfRaced' PROVE OneAwaited' /\ AwaitedCompletes'
  <2>1. ~pfRaced /\ pfReads = {} /\ ~pfFetch
    BY <1>2, <1>5 DEF Awaiting
  <2>2. pfMeant = pfNewform
    BY <1>2, <2>1 DEF FormInv, AwaitedCompletes
  <2>3. pfMeant' = pfNewform' /\ pfReads' = {}
    BY <1>2, <2>1, <2>2
  <2> QED
    BY <2>3 DEF OneAwaited, AwaitedCompletes
<1> QED
  BY <1>2, <1>4, <1>5 DEF FormInv, NothingAwaitedWithoutForm

LEMMA ChooseFileKeeps ==
  ASSUME FormInv, NEW f \in Photos, ChooseFile(f) PROVE FormInv'
<1> DEFINE v == NextVersion(f)
           new == [field |-> f, value |-> v, newform |-> pfNewform]
<1>1. f \in Fields /\ v \in Values /\ v \in 1..MaxVersions
  BY ValuesFacts, NextVersionFacts DEF ChooseFile, FormInv
<1>2. /\ pfForm # "none"
      /\ pfReads' = pfReads \cup {new}
      /\ pfMeant' = [pfMeant EXCEPT ![f] = v]
      /\ pfRaced' = (pfRaced \/ Awaiting)
      /\ UNCHANGED <<pfForm, pfNewform, pfFetch, pfPosts>>
  BY DEF ChooseFile
<1> HIDE DEF v
<1>3. Awaiting \in BOOLEAN
  BY DEF Awaiting, FormInv, ProductFormTypeOK
<1>4. new \in Read
  BY <1>1 DEF FormInv, ProductFormTypeOK, Read
<1>5. ProductFormTypeOK'
  <2>1. pfReads' \subseteq Read
    BY <1>2, <1>4 DEF FormInv, ProductFormTypeOK, Read
  <2>2. pfMeant' \in [Fields -> Values]
    BY <1>1, <1>2 DEF FormInv, ProductFormTypeOK
  <2> QED
    BY <1>2, <1>3, <2>1, <2>2 DEF FormInv, ProductFormTypeOK, Read
<1>6. ASSUME ~pfRaced' PROVE OneAwaited' /\ AwaitedCompletes'
  <2>1. ~pfRaced /\ pfReads = {} /\ ~pfFetch
    BY <1>2, <1>6 DEF Awaiting
  <2>2. pfMeant = pfNewform
    BY <1>2, <2>1 DEF FormInv, AwaitedCompletes
  <2>3. pfReads' = {new} /\ ~pfFetch'
    BY <1>2, <2>1
  <2>4. pfMeant' = [pfNewform' EXCEPT ![f] = v] /\ pfNewform' = pfNewform
    BY <1>2, <2>2
  <2>5. new.newform = pfNewform /\ new.field = f /\ new.value = v
    OBVIOUS
  <2> HIDE DEF new
  <2> QED
    BY <2>3, <2>4, <2>5 DEF OneAwaited, AwaitedCompletes
<1> QED
  BY <1>2, <1>5, <1>6 DEF FormInv, NothingAwaitedWithoutForm

(* What both callbacks do with a file that was read, and with one that was not. *)
LEMMA EncodedKeeps ==
  ASSUME FormInv, NEW read \in pfReads, NEW ok \in BOOLEAN,
         ok => pfNewform' = [read.newform EXCEPT ![read.field] = read.value],
         pfNewform' \in [Fields -> Values],
         pfReads' = pfReads \ {read},
         pfRaced' = (pfRaced \/ ~ok),
         UNCHANGED <<pfForm, pfFetch, pfPosts, pfMeant>>
  PROVE  FormInv'
<1>1. ProductFormTypeOK'
  <2>1. pfRaced' \in BOOLEAN
    BY DEF FormInv, ProductFormTypeOK
  <2> QED
    BY <2>1 DEF FormInv, ProductFormTypeOK
<1>2. ASSUME pfForm # "none", ~pfRaced' PROVE OneAwaited' /\ AwaitedCompletes'
  <2>1. ok /\ ~pfRaced
    BY <1>2
  <2>2. pfReads' = {}
    BY <1>2, <2>1 DEF FormInv, OneAwaited
  <2>3. pfMeant = [pfNewform EXCEPT ![read.field] = read.value] /\ read.newform = pfNewform
    BY <1>2, <2>1 DEF FormInv, AwaitedCompletes
  <2>4. pfMeant' = pfNewform'
    BY <2>1, <2>3
  <2> QED
    BY <2>2, <2>4 DEF OneAwaited, AwaitedCompletes
<1> QED
  BY <1>1, <1>2 DEF FormInv, NothingAwaitedWithoutForm

LEMMA EncodeKeeps ==
  ASSUME FormInv, EncodeFileToBase64 \/ EncodeInfoToBase64 PROVE FormInv'
<1>1. CASE EncodeFileToBase64
  <2>1. PICK read \in pfReads, ok \in BOOLEAN :
          /\ read.field = "mainPhoto"
          /\ pfNewform' = [read.newform EXCEPT !.mainPhoto = IF ok THEN read.value ELSE 0]
          /\ pfReads' = pfReads \ {read}
          /\ pfRaced' = (pfRaced \/ ~ok)
          /\ UNCHANGED <<pfForm, pfFetch, pfPosts, pfMeant>>
    BY <1>1 DEF EncodeFileToBase64
  <2>2. read.newform \in [Fields -> Values] /\ read.value \in 1..MaxVersions
    BY DEF FormInv, ProductFormTypeOK
  <2>3. read.value \in Values /\ 0 \in Values
    BY <2>2, ValuesFacts
  <2>4. pfNewform' \in [Fields -> Values]
    BY <2>1, <2>2, <2>3
  <2>5. ok => pfNewform' = [read.newform EXCEPT ![read.field] = read.value]
    BY <2>1
  <2> QED
    BY <2>1, <2>4, <2>5, EncodedKeeps
<1>2. CASE EncodeInfoToBase64
  <2>1. PICK read \in pfReads, ok \in BOOLEAN :
          /\ read.field = "sizePhoto"
          /\ pfNewform' = IF ok THEN [read.newform EXCEPT !.sizePhoto = read.value] ELSE pfNewform
          /\ pfReads' = pfReads \ {read}
          /\ pfRaced' = (pfRaced \/ ~ok)
          /\ UNCHANGED <<pfForm, pfFetch, pfPosts, pfMeant>>
    BY <1>2 DEF EncodeInfoToBase64
  <2>2. read.newform \in [Fields -> Values] /\ read.value \in 1..MaxVersions
    BY DEF FormInv, ProductFormTypeOK
  <2>3. read.value \in Values /\ pfNewform \in [Fields -> Values]
    BY <2>2, ValuesFacts DEF FormInv, ProductFormTypeOK
  <2>4. pfNewform' \in [Fields -> Values]
    BY <2>1, <2>2, <2>3
  <2>5. ok => pfNewform' = [read.newform EXCEPT ![read.field] = read.value]
    BY <2>1
  <2> QED
    BY <2>1, <2>4, <2>5, EncodedKeeps
<1> QED
  BY <1>1, <1>2

LEMMA ResetKeeps ==
  ASSUME FormInv, ResetFields PROVE FormInv'
<1>1. /\ pfForm = "Newgonggu"
      /\ pfMeant' = [Blank EXCEPT !.managerId = pfMeant.managerId]
      /\ pfRaced' = (pfRaced \/ Awaiting \/ pfMeant' # pfMeant)
      /\ UNCHANGED <<pfForm, pfNewform, pfReads, pfFetch, pfPosts>>
  BY DEF ResetFields
<1>2. pfMeant.managerId \in Values
  BY ValuesFacts DEF FormInv, ProductFormTypeOK
<1>3. pfMeant' \in [Fields -> Values]
  BY <1>1, <1>2, ValuesFacts
<1>4. pfRaced' \in BOOLEAN
  BY <1>1
<1>5. ProductFormTypeOK'
  BY <1>1, <1>3, <1>4 DEF FormInv, ProductFormTypeOK
<1>6. ASSUME ~pfRaced' PROVE OneAwaited' /\ AwaitedCompletes'
  <2>1. ~pfRaced /\ pfMeant' = pfMeant
    BY <1>1, <1>6
  <2> QED
    BY <1>1, <2>1 DEF FormInv, OneAwaited, AwaitedCompletes
<1> QED
  BY <1>1, <1>5, <1>6 DEF FormInv, NothingAwaitedWithoutForm

LEMMA SubmitKeeps ==
  ASSUME FormInv, HandleSubmit PROVE FormInv'
<1>1. /\ pfPosts < MaxSubmits /\ pfPosts' = pfPosts + 1
      /\ pfRaced' = (pfRaced \/ Awaiting)
      /\ UNCHANGED <<pfForm, pfNewform, pfReads, pfFetch, pfMeant>>
  BY DEF HandleSubmit
<1>2. pfPosts' \in 0..MaxSubmits
  BY <1>1, VersionsAssumption DEF FormInv, ProductFormTypeOK
<1>3. pfRaced' \in BOOLEAN
  BY <1>1 DEF Awaiting, FormInv, ProductFormTypeOK
<1>4. ProductFormTypeOK'
  BY <1>1, <1>2, <1>3 DEF FormInv, ProductFormTypeOK
<1>5. ASSUME pfForm # "none", ~pfRaced' PROVE OneAwaited' /\ AwaitedCompletes'
  <2>1. ~pfRaced
    BY <1>1, <1>5
  <2> QED
    BY <1>1, <1>5, <2>1 DEF FormInv, OneAwaited, AwaitedCompletes
<1> QED
  BY <1>1, <1>4, <1>5 DEF FormInv, NothingAwaitedWithoutForm

LEMMA AnswerKeeps ==
  ASSUME FormInv, SubmitAnswered PROVE FormInv'
<1>1. PICK ok \in BOOLEAN :
        /\ pfPosts > 0
        /\ pfPosts' = pfPosts - 1
        /\ IF ok THEN Close ELSE UNCHANGED <<pfForm, pfNewform, pfReads, pfFetch>>
        /\ UNCHANGED <<pfMeant, pfRaced>>
  BY DEF SubmitAnswered
<1>2. pfPosts' \in 0..MaxSubmits
  BY <1>1, VersionsAssumption DEF FormInv, ProductFormTypeOK
<1>3. CASE ok
  BY <1>1, <1>2, <1>3, CloseKeeps
<1>4. CASE ~ok
  <2>1. UNCHANGED <<pfForm, pfNewform, pfReads, pfFetch, pfMeant, pfRaced>>
    BY <1>1, <1>4
  <2> QED
    BY <1>2, <2>1 DEF FormInv, ProductFormTypeOK, NothingAwaitedWithoutForm, OneAwaited, AwaitedCompletes
<1> QED
  BY <1>3, <1>4

LEMMA FormKept ==
  ASSUME FormInv, [ProductFormNext]_pfVars PROVE FormInv'
<1>1. CASE Newgonggu \/ Editgonggu
  BY <1>1, OpenKeeps
<1>2. CASE LeaveForm
  BY <1>2, CloseKeeps DEF LeaveForm, FormInv, ProductFormTypeOK
<1>3. CASE NewgongguForm \/ EditgongguForm
  BY <1>3, OnChangeKeeps, ChooseFileKeeps, SubmitKeeps, ResetKeeps, CloseKeeps
     DEF NewgongguForm, EditgongguForm, FormFields, LeaveForm, FormInv, ProductFormTypeOK
<1>4. CASE FetchData
  BY <1>4, FetchDataKeeps
<1>5. CASE EncodeFileToBase64 \/ EncodeInfoToBase64
  BY <1>5, EncodeKeeps
<1>6. CASE SubmitAnswered
  BY <1>6, AnswerKeeps
<1>7. CASE UNCHANGED pfVars
  BY <1>7 DEF pfVars, FormInv, ProductFormTypeOK, NothingAwaitedWithoutForm, OneAwaited, AwaitedCompletes
<1> QED
  BY <1>1, <1>2, <1>3, <1>4, <1>5, <1>6, <1>7 DEF ProductFormNext

-----------------------------------------------------------------------------

LEMMA FormInvEnough == FormInv => ProductFormTypeOK /\ FormKeepsWhatWasMeant
<1>1. FormInv => FormKeepsWhatWasMeant
  <2> SUFFICES ASSUME FormInv, pfForm # "none", ~pfRaced, NEW f \in Fields,
                      \A read \in pfReads : read.field # f
               PROVE  pfNewform[f] = pfMeant[f]
    BY DEF FormKeepsWhatWasMeant
  <2>1. CASE pfReads = {}
    BY <2>1 DEF FormInv, AwaitedCompletes
  <2>2. CASE pfReads # {}
    <3>1. PICK read \in pfReads : TRUE
      BY <2>2
    <3>2. pfMeant = [pfNewform EXCEPT ![read.field] = read.value] /\ read.field # f
      BY <3>1 DEF FormInv, AwaitedCompletes
    <3> QED
      BY <3>2 DEF FormInv, ProductFormTypeOK
  <2> QED
    BY <2>1, <2>2
<1> QED
  BY <1>1 DEF FormInv

(* A seller's form holds and sends what its seller last put into each field, *)
(* a photo being read excepted, unless the seller went on while something    *)
(* was awaited (Newgonggu.js, Editgonggu.js).                                *)
THEOREM FormFaithful == ProductFormSpec => []FormKeepsWhatWasMeant
  BY FormInvEnough, FormInitially, FormKept, PTL DEF ProductFormSpec

(* The state of a seller's form is well formed: a file being read is one of *)
(* a photo, with the newform of its render (Newgonggu.js, Editgonggu.js).   *)
THEOREM FormTypeCorrect == ProductFormSpec => []ProductFormTypeOK
  BY FormInvEnough, FormInitially, FormKept, PTL DEF ProductFormSpec
=============================================================================
