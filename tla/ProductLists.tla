---------------------------- MODULE ProductLists ----------------------------
(***************************************************************************)
(* The web client's lists of products and the pages they lead to: App asks *)
(* for all products and orders once, when the tab is loaded, and hands     *)
(* them to the page of the route.  Home lists them again when they arrive; *)
(* every other list is made when its page is mounted and stays as it was.  *)
(* A page that reads a product that is not found there, or shows an answer *)
(* as what it is not, is an exception of a render: React takes the whole   *)
(* application off the screen.                                             *)
(*                                                                         *)
(* A list is the set of the products in it: the sorting is left out.  A    *)
(* date is its order relative to Now, the moment in which pages are used.  *)
(***************************************************************************)
EXTENDS Integers, FiniteSets

CONSTANTS Offered,      \* products the service may answer with
          TestProducts, \* shown instead, when the service has none
          Now,          \* the moment
          SomeProduct   \* no product

(* manager: is the user of the tab its managerId. *)
Sold == [id : STRING, startDate : Int, finishDate : Int, finishResearch : Int, category : STRING, managed : BOOLEAN]

ASSUME OfferedAssumption == Offered \subseteq Sold /\ TestProducts \subseteq Sold /\ TestProducts # {}
ASSUME FiniteAssumption == IsFiniteSet(Offered) /\ IsFiniteSet(TestProducts)
ASSUME NowAssumption == Now \in Int

VARIABLES
  plAnswer,   \* App's calls of GET /sell/all and GET /order/all: "asked", "answered", "failed"
  plProduct,  \* App's state product
  plOrder,    \* App's state order: the products the user ordered
  plPage,     \* the page that is mounted
  plAddress   \* history: the route the tab was loaded with

plVars == <<plAnswer, plProduct, plOrder, plPage, plAddress>>

AppCalls == {"products", "orders"}
Empty == [sale |-> {}, quantity |-> {}, finish |-> {}]

(* sale, quantity and finish: its lists.  likes: Wish's call, "asked" until answered.  *)
(* known: what App handed it when it was mounted.  was: the page that is gone.         *)
PageAt(route, item, lists) ==
  [route |-> route, was |-> route, item |-> item, lists |-> lists, known |-> plProduct,
   likes |-> IF route = "wish" THEN "asked" ELSE "none"]

Running(products) == {p \in products : p.finishDate >= Now /\ p.startDate <= Now}
OnlySale(products) == [Empty EXCEPT !.sale = products]
OnlyQuantity(products) == [Empty EXCEPT !.quantity = products]
OnlyFinish(products) == [Empty EXCEPT !.finish = products]

-----------------------------------------------------------------------------
(* The lists *)

Home(products) == OnlySale(Running(products))

InCategory(products, category) == OnlySale({p \in Running(products) : p.category = category})
Clothes(products) == InCategory(products, "clothes")
Badge(products) == InCategory(products, "badge")
Pouch(products) == InCategory(products, "pouch")
Mungu(products) == InCategory(products, "mungu")
Etc(products) == InCategory(products, "etc")

Quantityinfo(products) == OnlyQuantity({p \in products : p.finishResearch > Now})

(* A seller's products; a single one is sorted by other conditions than several. *)
Sale(products) ==
  LET salefilter == {p \in products : p.managed} IN
  IF Cardinality(salefilter) > 1
  THEN [sale |-> Running(salefilter),
        quantity |-> {p \in salefilter : p.startDate >= Now},
        finish |-> {p \in salefilter : p.finishDate <= Now}]
  ELSE IF Running(salefilter) # {} THEN OnlySale(salefilter)
  ELSE IF \E p \in salefilter : p.startDate < Now THEN OnlyQuantity(salefilter)
  ELSE OnlyFinish(salefilter)

(* The products the user ordered. *)
Order(products, ordered) ==
  LET filter == products \cap ordered IN
  IF ordered = {} THEN Empty
  ELSE IF Cardinality(filter) > 1
  THEN [sale |-> Running(filter), quantity |-> {}, finish |-> {p \in filter : p.finishDate <= Now}]
  ELSE IF Running(filter) # {} THEN OnlySale(filter)
  ELSE OnlyFinish(filter)

(* The products the user likes. *)
Wish(products, liked) ==
  LET wishfilter == products \cap liked
      within == {p \in wishfilter : p.finishDate > Now /\ p.startDate < Now}
  IN IF Cardinality(wishfilter) > 1
     THEN [sale |-> within,
           quantity |-> {p \in wishfilter : p.startDate > Now},
           finish |-> {p \in wishfilter : p.finishDate < Now}]
     ELSE IF within # {} THEN OnlySale(wishfilter)
     ELSE IF \E p \in wishfilter : p.startDate > Now THEN OnlyQuantity(wishfilter)
     ELSE OnlyFinish(wishfilter)

Lists == {"home", "clothes", "badge", "pouch", "mungu", "etc", "quantityinfo", "sale", "order", "wish"}

(* What the effect of a list's page makes of what App hands it. *)
Listed(route, products, ordered) ==
  CASE route = "home" -> Home(products)
    [] route = "clothes" -> Clothes(products)
    [] route = "badge" -> Badge(products)
    [] route = "pouch" -> Pouch(products)
    [] route = "mungu" -> Mungu(products)
    [] route = "etc" -> Etc(products)
    [] route = "quantityinfo" -> Quantityinfo(products)
    [] route = "sale" -> Sale(products)
    [] route = "order" -> Order(products, ordered)
    [] OTHER -> Empty

-----------------------------------------------------------------------------
(* The pages of one product: what each renders *)

ProductpageUnguarded(products, item) ==   \* without the test for a product that is not there, for mutation
  IF item \notin products THEN "exception" ELSE IF item.managed THEN "Productlead" ELSE "Product"

Productpage(products, item) ==
  IF item \notin products THEN "not found" ELSE IF item.managed THEN "Productlead" ELSE "Product"

Quantitypage(products, item) ==
  IF item \notin products THEN "exception" ELSE IF item.managed THEN "Quantitylead" ELSE "Quantity"

Checkpage(products, item) == IF item \notin products THEN "exception" ELSE "Check"

(* With something stored in the session; else it is the login form. *)
Gongguapplypage(products, item) == IF item \notin products THEN "exception" ELSE "Gongguapply"

Details == {"product", "quantity", "check", "gongguapply"}

Rendered(route, products, item) ==
  CASE route = "product" -> Productpage(products, item)
    [] route = "quantity" -> Quantitypage(products, item)
    [] route = "check" -> Checkpage(products, item)
    [] route = "gongguapply" -> Gongguapplypage(products, item)
    [] OTHER -> "list"

(* The links a page shows to pages of one product. *)
Links ==
  {<<"product", p>> : p \in plPage.lists.sale \cup plPage.lists.finish}
    \cup {<<"quantity", p>> : p \in plPage.lists.quantity}
    \cup CASE Rendered(plPage.route, plProduct, plPage.item) = "Product" -> {<<"gongguapply", plPage.item>>}
           [] Rendered(plPage.route, plProduct, plPage.item) = "Productlead" -> {<<"check", plPage.item>>}
           [] OTHER -> {}

-----------------------------------------------------------------------------
(* Steps *)

Gone(page) == [page EXCEPT !.route = "gone", !.lists = Empty, !.item = SomeProduct, !.likes = "none"]

(* A page as React renders it, or nothing any more. *)
Shown(page, products) ==
  IF Rendered(page.route, products, page.item) = "exception" THEN Gone(page) ELSE page

Off == [route |-> "gone", was |-> "home", item |-> SomeProduct, lists |-> Empty, known |-> {}, likes |-> "none"]

ProductListsInit ==
  /\ plAnswer = [call \in AppCalls |-> "asked"]
  /\ plProduct = {} /\ plOrder = {}
  /\ plPage = [Off EXCEPT !.route = "home"]
  /\ plAddress = "home"

(* The tab is loaded with the address of a page: App starts anew. *)
LoadTab(route, item) ==
  /\ plAnswer' = [call \in AppCalls |-> "asked"]
  /\ plProduct' = {} /\ plOrder' = {}
  /\ plPage' = Shown([PageAt(route, item, Empty) EXCEPT !.known = {}], {})
  /\ plAddress' = route

(* A link within the application. *)
Follow(route, item) ==
  /\ plPage.route # "gone"
  /\ plPage' = Shown(PageAt(route, item, Listed(route, plProduct, plOrder)), plProduct)
  /\ UNCHANGED <<plAnswer, plProduct, plOrder, plAddress>>

Answered(call) ==
  /\ plPage.route # "gone" /\ plAnswer[call] = "asked"
  /\ plAnswer' = [plAnswer EXCEPT ![call] = "answered"]

(* An empty answer is replaced by the test products; Home's effect runs again. *)
GetProducts(served) ==
  /\ Answered("products")
  /\ plProduct' = IF served = {} THEN TestProducts ELSE served
  /\ plPage' = IF plPage.route = "home" THEN [plPage EXCEPT !.lists = Home(plProduct')] ELSE plPage
  /\ UNCHANGED <<plOrder, plAddress>>

GetOrders(served) ==
  /\ Answered("orders")
  /\ plOrder' = served
  /\ UNCHANGED <<plProduct, plPage, plAddress>>

(* A failure is an unhandled rejection. *)
GetFails ==
  /\ \E call \in AppCalls : plPage.route # "gone" /\ plAnswer[call] = "asked"
                          /\ plAnswer' = [plAnswer EXCEPT ![call] = "failed"]
  /\ UNCHANGED <<plProduct, plOrder, plPage, plAddress>>

(* Wish's likes, for the products of the render that asked. *)
WishAnswered(liked) ==
  /\ plPage.likes = "asked"
  /\ plPage' = [plPage EXCEPT !.likes = "answered", !.lists = Wish(plPage.known, liked)]
  /\ UNCHANGED <<plAnswer, plProduct, plOrder, plAddress>>

(* Check shows the answer of GET /sell as a number, and the sizeCount of every   *)
(* order: a list of products, or an order of the client's forms, which has none, *)
(* is an exception; an empty list is none.                                       *)
CheckAnswered ==
  /\ plPage.route = "check"
  /\ plPage' = Gone(plPage)
  /\ UNCHANGED <<plAnswer, plProduct, plOrder, plAddress>>

ProductListsNext ==
  \/ \E route \in Lists : LoadTab(route, SomeProduct) \/ Follow(route, SomeProduct)
  \/ \E route \in Details, item \in Offered \cup TestProducts : LoadTab(route, item)
  \/ \E link \in Links : Follow(link[1], link[2])
  \/ \E served \in SUBSET Offered : GetProducts(served) \/ GetOrders(served) \/ WishAnswered(served)
  \/ GetFails \/ CheckAnswered

ProductListsSpec == ProductListsInit /\ [][ProductListsNext]_plVars

-----------------------------------------------------------------------------
(* Properties *)

ProductListsTypeOK ==
  /\ plAnswer \in [AppCalls -> {"asked", "answered", "failed"}]
  /\ plProduct \subseteq Offered \cup TestProducts
  /\ plOrder \subseteq Offered
  /\ plPage \in [route : Lists \cup Details \cup {"gone"}, was : Lists \cup Details, item : Offered \cup TestProducts \cup {SomeProduct},
                 lists : [sale : SUBSET (Offered \cup TestProducts), quantity : SUBSET (Offered \cup TestProducts),
                          finish : SUBSET (Offered \cup TestProducts)],
                 known : SUBSET (Offered \cup TestProducts), likes : {"none", "asked", "answered"}]
  /\ plAddress \in Lists \cup Details

(* What a page lists is of the products App has now, and no product is in two of   *)
(* its lists unless it starts or ends this moment; Home is never behind them, and   *)
(* a seller who opens Sale after they arrived finds each of several products in     *)
(* one of its lists; what is liked and not yet sold is with those, even a single    *)
(* one.  The application disappears by a link only on a seller's list of buyers:    *)
(* the other pages of one product must have been the address the tab was loaded     *)
(* with, whatever was answered (App.js, the pages under routes/, Check.js).         *)
PagesShowTheProducts ==
  LET lists == plPage.lists
      listed == lists.sale \cup lists.quantity \cup lists.finish
      mine == {p \in plPage.known : p.managed}
      inTime(products) == \A p \in products : p.startDate <= p.finishDate /\ Now \notin {p.startDate, p.finishDate}
  IN /\ listed \subseteq plProduct
     /\ inTime(listed) => /\ lists.sale \cap (lists.quantity \cup lists.finish) = {}
                          /\ lists.quantity \cap lists.finish = {}
     /\ plPage.route = "home" => lists.sale = Running(plProduct)
     /\ plPage.route = "sale" /\ Cardinality(mine) > 1 => listed = mine
     /\ plPage.route = "wish" => \A p \in listed : p \in lists.quantity => p.startDate > Now
     /\ plPage.route = "gone" => \/ plPage.was = "check"
                                 \/ plPage.was = plAddress /\ plAddress \in {"quantity", "gongguapply"}
=============================================================================
