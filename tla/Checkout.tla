------------------------------ MODULE Checkout ------------------------------
(***************************************************************************)
(* The shopping cart of the web client, in one browser tab: the cart in    *)
(* sessionStorage, the cart page (components/Cart.js) with its payment     *)
(* panel, the two ways to put a product in it and the order form.          *)
(*                                                                         *)
(* handlePay orders and pays the items one after the other, over the       *)
(* cartItems of the render in which it was pressed.  It goes on while the  *)
(* page is used, after the page was left and beside a second handlePay of  *)
(* a page opened again; a reload of the tab ends it between two steps.     *)
(* The list of a page shares its item objects with the handlePay pressed   *)
(* on it: updateQuantity copies the list and not the objects.              *)
(***************************************************************************)
EXTENDS Integers, Sequences, SequencesExt, FiniteSets

CONSTANTS Titles,       \* products, each found by its title
          Price,        \* the price of each
          MaxUnits,     \* bound: units of all titles in a cart
          Balance,      \* what GET /point answers when it succeeds
          Typed,        \* what may be typed into the field for points
          MaxCalls,     \* bound: items that all calls of handlePay go through
          User,         \* who logs in
          Nothing       \* no user_id, no cart in sessionStorage

ASSUME PriceAssumption == Price \in [Titles -> Nat]
ASSUME QuantityAssumption == MaxUnits \in Nat \ {0}
ASSUME BalanceAssumption == Balance \in Nat
ASSUME TypedAssumption == Typed \subseteq Int
ASSUME CallsAssumption == MaxCalls \in Nat
ASSUME NothingAssumption == Nothing \notin Seq([title : Titles, quantity : Nat])   \* no cart is not a cart

VARIABLES
  coUser,    \* sessionStorage user_id
  coCart,    \* sessionStorage cart
  coOpen,    \* is the cart page the one that is mounted
  coItems,   \* its cartItems
  coPanel,   \* the rest of its state
  coRun      \* the calls of handlePay

coVars == <<coUser, coCart, coOpen, coItems, coPanel, coRun>>

(* The calls of handlePay, by the order in which they are pressed. *)
Presses == 1..MaxCalls

CartItem == [title : Titles, quantity : 1..MaxUnits]

(* useState of Cart. *)
FreshPanel == [shown |-> FALSE, method |-> "POINT", loading |-> FALSE, points |-> 0,
               card |-> FALSE, withCard |-> FALSE, entered |-> 0]

(* A call of handlePay.  live: its page is still mounted.  entry: the points it   *)
(* set aside.  The rest is history: what the services did for it, and whether its *)
(* items were changed since.                                                      *)
NoRun ==
         [calls |-> 0, step |-> "idle", live |-> FALSE, items |-> <<>>, at |-> 0, method |-> "POINT",
          remaining |-> 0, entry |-> 0, sent |-> 0, ordered |-> [t \in Titles |-> 0],
          paid |-> [t \in Titles |-> 0], points |-> 0, meddled |-> FALSE]

CheckoutInit ==
  /\ coUser = Nothing /\ coCart = Nothing
  /\ coOpen = FALSE /\ coItems = <<>> /\ coPanel = FreshPanel
  /\ coRun = [c \in Presses |-> NoRun]

Least(a, b) == IF a <= b THEN a ELSE b

(* JSON.parse(sessionStorage.getItem('cart') || '[]') *)
StoredCart == IF coCart = Nothing THEN <<>> ELSE coCart

TotalPrice(items) == FoldSeq(LAMBDA item, sum : sum + Price[item.title] * item.quantity, 0, items)

(* Items that the calls pressed so far were to go through. *)
Calls == FoldFunction(LAMBDA run, sum : sum + run.calls, 0, coRun)

Units(items) == FoldSeq(LAMBDA item, sum : sum + item.quantity, 0, items)

TitlesOf(items) == {items[i].title : i \in DOMAIN items}

Paying(run) == run.step \in {"order", "payment"}

(* sessionStorage.length !== 0 *)
SomethingStored == coUser # Nothing \/ coCart # Nothing

Unmounted(runs) == [c \in Presses |-> [runs[c] EXCEPT !.live = FALSE]]

-----------------------------------------------------------------------------
(* What goes into the cart *)

Added(cart, t, q) ==
  IF t \in TitlesOf(cart)
  THEN [i \in DOMAIN cart |-> IF cart[i].title = t THEN [cart[i] EXCEPT !.quantity = @ + q] ELSE cart[i]]
  ELSE Append(cart, [title |-> t, quantity |-> q])

PutInCart(t, q) ==
  /\ ~coOpen
  /\ Units(StoredCart) + q <= MaxUnits
  /\ coCart' = Added(StoredCart, t, q)
  /\ UNCHANGED <<coUser, coOpen, coItems, coPanel, coRun>>

(* The cart button of a product in a list. *)
AddOne(t) == PutInCart(t, 1)

(* The cart button of the order form, which is shown when anything is stored; *)
(* its quantity is kept within 1..maxQuantity.                                *)
AddFromForm(t, q) == SomethingStored /\ PutInCart(t, q)

(* A call of handlePay that ends early.  What is on its way may be served. *)
Ended(run, served) ==
  IF ~Paying(run) THEN run
  ELSE LET t == run.items[run.at].title IN
       [NoRun EXCEPT
          !.step = "ended", !.calls = run.calls,
          !.ordered = [run.ordered EXCEPT ![t] = IF served /\ run.step = "order" THEN run.sent ELSE @],
          !.paid = [run.paid EXCEPT ![t] = IF served /\ run.step = "payment" THEN run.sent ELSE @]]

(* A reload: sessionStorage stays, every page and every call of the tab is gone. *)
Reload(servedRuns) ==
  /\ coRun' = [c \in Presses |-> Ended(coRun[c], c \in servedRuns)]
  /\ coOpen' = FALSE /\ coItems' = <<>> /\ coPanel' = FreshPanel

(* The tab is reloaded by its user.  Whatever page the address names is       *)
(* mounted again; for the cart page that is OpenCart.                         *)
ReloadTab ==
  /\ \E served \in SUBSET Presses : Reload(served)
  /\ UNCHANGED <<coUser, coCart>>

(* Gongguapply's handleSubmit: an order, no payment; user_id as it is stored, *)
(* or undefined.  A success reloads the tab, an error is only shown.          *)
SubmitOrderForm ==
  /\ SomethingStored /\ ~coOpen
  /\ \/ \E served \in SUBSET Presses : Reload(served)
     \/ UNCHANGED <<coRun, coOpen, coItems, coPanel>>
  /\ UNCHANGED <<coUser, coCart>>

-----------------------------------------------------------------------------
(* Moving between pages *)

(* routes/Cart.js shows Cart when anything is stored; Cart's effect loads the  *)
(* cart and, for a user, asks for points and cards.                            *)
OpenCart ==
  /\ ~coOpen /\ SomethingStored
  /\ coOpen' = TRUE
  /\ coItems' = StoredCart
  /\ coPanel' = FreshPanel
  /\ UNCHANGED <<coUser, coCart, coRun>>

Unmount == coOpen' = FALSE /\ coItems' = <<>> /\ coPanel' = FreshPanel

LeaveCart ==
  /\ coOpen
  /\ Unmount /\ coRun' = Unmounted(coRun)
  /\ UNCHANGED <<coUser, coCart>>

Login ==
  /\ coUser = Nothing /\ ~coOpen
  /\ coUser' = User
  /\ UNCHANGED <<coCart, coOpen, coItems, coPanel, coRun>>

(* onLogout goes to the start page; the cart stays stored. *)
Logout ==
  /\ coUser # Nothing
  /\ coUser' = Nothing
  /\ Unmount /\ coRun' = Unmounted(coRun)
  /\ UNCHANGED <<coCart>>

-----------------------------------------------------------------------------
(* The cart page *)

(* The answers its effect asked for on behalf of a user.  A failure leaves what *)
(* the page starts with: no points, no card.                                    *)
LoadUserPoints == coPanel.points = 0 /\ coPanel' = [coPanel EXCEPT !.points = Balance]

LoadUserCards == ~coPanel.card /\ coPanel' = [coPanel EXCEPT !.card = TRUE]

PageAnswered ==
  /\ coOpen /\ coUser # Nothing
  /\ LoadUserPoints \/ LoadUserCards
  /\ UNCHANGED <<coUser, coCart, coOpen, coItems, coRun>>

SaveCart(items) == coCart' = items /\ coItems' = items

SetQuantity(items, t, q) ==
  [i \in DOMAIN items |-> IF items[i].title = t THEN [items[i] EXCEPT !.quantity = q] ELSE items[i]]

AnyQuantity(quantity) == quantity   \* without the test for zero, for mutation

AtLeastOne(quantity) == IF quantity < 1 THEN 1 ELSE quantity

(* The objects of the list are those of the calls pressed on this page. *)
UpdateQuantity(i, delta) ==
  LET t == coItems[i].title
      q == AtLeastOne(coItems[i].quantity + delta)
  IN /\ Units(SetQuantity(coItems, t, q)) <= MaxUnits
     /\ SaveCart(SetQuantity(coItems, t, q))
     /\ coRun' = [c \in Presses |-> IF coRun[c].live
                                    THEN [coRun[c] EXCEPT !.items = SetQuantity(@, t, q), !.meddled = TRUE]
                                    ELSE coRun[c]]
     /\ UNCHANGED <<coUser, coOpen, coPanel>>

RemoveItem(i) ==
  /\ SaveCart(RemoveAt(coItems, i))
  /\ UNCHANGED <<coUser, coOpen, coPanel, coRun>>

(* The buttons beside the items of the list. *)
CartList ==
  /\ coOpen
  /\ \E i \in DOMAIN coItems : RemoveItem(i) \/ \E delta \in {-1, 1} : UpdateQuantity(i, delta)

(* Without a user, handleCheckout goes to the login page instead. *)
HandleCheckout ==
  /\ ~coPanel.shown
  /\ IF coUser = Nothing
     THEN Unmount /\ coRun' = Unmounted(coRun)
     ELSE /\ coPanel' = [coPanel EXCEPT !.shown = TRUE]
          /\ UNCHANGED <<coOpen, coItems, coRun>>

(* Choosing CARD resets the points; while POINT is chosen nothing reads them. *)
ChooseMethod ==
  \E m \in {"POINT", "CARD"} :
    coPanel' = [coPanel EXCEPT !.method = m, !.withCard = FALSE, !.entered = 0]

(* The checkbox and the number field under the card, for a user with points. *)
EnterPoints ==
  /\ coPanel.method = "CARD" /\ coPanel.points > 0
  /\ \/ \E on \in BOOLEAN :
          coPanel' = [coPanel EXCEPT !.withCard = on, !.entered = IF on THEN @ ELSE 0]
     \/ /\ coPanel.withCard
        /\ \E typed \in Typed :
             coPanel' = [coPanel EXCEPT !.entered = Least(typed, Least(coPanel.points, TotalPrice(coItems)))]

PayDisabled ==
  \/ coPanel.loading
  \/ coPanel.method = "POINT" /\ coPanel.points < TotalPrice(coItems)
  \/ coPanel.method = "CARD" /\ ~coPanel.card

PointsSetAside ==
  IF coPanel.method = "POINT" THEN TotalPrice(coItems)
  ELSE IF coPanel.withCard
       THEN Least(coPanel.entered, Least(coPanel.points, TotalPrice(coItems)))
       ELSE 0

(* handlePay, up to its first call of POST /order. *)
HandlePay(c) ==
  /\ ~PayDisabled
  /\ coRun[c].step = "idle" /\ \A b \in 1..(c - 1) : coRun[b].step # "idle"
  /\ Calls + Len(coItems) <= MaxCalls
  /\ coRun' = [coRun EXCEPT ![c] =
       [NoRun EXCEPT !.calls = Len(coItems), !.step = "order", !.live = TRUE, !.items = coItems, !.at = 1,
                     !.method = coPanel.method, !.remaining = PointsSetAside, !.entry = PointsSetAside,
                     !.sent = coItems[1].quantity]]
  /\ coPanel' = [coPanel EXCEPT !.loading = TRUE]

(* Below the list: the button to check out, or the payment panel. *)
CartSummary ==
  /\ coOpen /\ coItems # <<>>
  /\ \/ HandleCheckout
     \/ /\ coPanel.shown
        /\ \/ \E c \in Presses : HandlePay(c) /\ UNCHANGED <<coOpen, coItems>>
           \/ /\ \/ ChooseMethod
                 \/ EnterPoints
                 \/ coPanel' = [coPanel EXCEPT !.shown = FALSE]
              /\ UNCHANGED <<coOpen, coItems, coRun>>
  /\ UNCHANGED <<coUser, coCart>>

-----------------------------------------------------------------------------
(* handlePay's answers *)

FinallyForgotten(run) == UNCHANGED coPanel   \* no finally clause, for mutation

(* The setLoading of the finally clause reaches the page if it is still mounted. *)
Finally(run) == coPanel' = [coPanel EXCEPT !.loading = IF run.live THEN FALSE ELSE @]

CaughtInTheLoop(c) ==   \* a catch clause per item, for mutation
  LET run == coRun[c] IN
  /\ Paying(run) /\ run.at < Len(run.items)
  /\ coRun' = [coRun EXCEPT ![c] = [run EXCEPT !.step = "order", !.at = @ + 1, !.sent = run.items[run.at + 1].quantity]]
  /\ UNCHANGED <<coUser, coCart, coOpen, coItems, coPanel>>

(* The catch clause: an alert.  The service may have served the call all the same. *)
Caught(c) ==
  /\ Paying(coRun[c])
  /\ \E served \in BOOLEAN :
       coRun' = [coRun EXCEPT ![c] = Ended(@, served)]
  /\ Finally(coRun[c])
  /\ UNCHANGED <<coUser, coCart, coOpen, coItems>>

(* How the item after the order is paid: pointUsed, and what remains. *)
PointUsed(run, itemTotal) ==
  IF run.method = "POINT" THEN itemTotal
  ELSE IF run.remaining > 0 THEN Least(run.remaining, itemTotal) ELSE 0

NothingTaken(run, used) == run.remaining   \* remainingPoints not counted down, for mutation

LeftOver(run, used) == IF run.method = "POINT" THEN run.remaining ELSE run.remaining - used

(* The order is there: POST /payment for the item as it is now. *)
Ordered(c) ==
  LET run == coRun[c]
      item == run.items[run.at]
      used == PointUsed(run, Price[item.title] * item.quantity)
  IN /\ run.step = "order"
     /\ coRun' = [coRun EXCEPT ![c] =
          [run EXCEPT !.step = "payment", !.ordered[item.title] = run.sent, !.sent = item.quantity,
                      !.points = @ + used,
                      !.remaining = LeftOver(run, used)]]
     /\ UNCHANGED <<coUser, coCart, coOpen, coItems, coPanel>>

PaidRun(run) == [run EXCEPT !.paid[run.items[run.at].title] = run.sent]

(* The item is paid and there is another. *)
PaidOne(c) ==
  LET run == coRun[c] IN
  /\ run.step = "payment" /\ run.at < Len(run.items)
  /\ coRun' = [coRun EXCEPT ![c] = [PaidRun(run) EXCEPT !.step = "order", !.at = @ + 1,
                                                        !.sent = run.items[run.at + 1].quantity]]
  /\ UNCHANGED <<coUser, coCart, coOpen, coItems, coPanel>>

(* The last item is paid: the whole cart goes, and the tab to the start page. *)
PaidAll(c) ==
  LET run == coRun[c] IN
  /\ run.step = "payment" /\ run.at = Len(run.items)
  /\ coCart' = Nothing
  /\ coRun' = Unmounted([coRun EXCEPT ![c] = [PaidRun(run) EXCEPT !.step = "done"]])
  /\ Unmount
  /\ UNCHANGED <<coUser>>

HandlePayAnswered == \E c \in Presses : Ordered(c) \/ PaidOne(c) \/ PaidAll(c) \/ Caught(c)

(* The tab is followed until the last call it may press has ended. *)
Followed == Calls < MaxCalls \/ \E c \in Presses : Paying(coRun[c])

CheckoutNext ==
  /\ Followed
  /\ \/ \E t \in Titles : AddOne(t) \/ \E q \in 1..MaxUnits : AddFromForm(t, q)
     \/ SubmitOrderForm
     \/ OpenCart \/ LeaveCart \/ ReloadTab \/ Login \/ Logout
     \/ PageAnswered
     \/ CartList
     \/ CartSummary
     \/ HandlePayAnswered

CheckoutSpec == CheckoutInit /\ [][CheckoutNext]_coVars

-----------------------------------------------------------------------------
(* Properties *)

CheckoutTypeOK ==
  /\ coUser \in {User, Nothing}
  /\ coCart = Nothing \/ coCart \in Seq(CartItem)
  /\ coOpen \in BOOLEAN
  /\ coItems \in Seq(CartItem)
  /\ coPanel \in [shown : BOOLEAN, method : {"POINT", "CARD"}, loading : BOOLEAN, points : {0, Balance},
                  card : BOOLEAN, withCard : BOOLEAN, entered : Int]
  /\ coRun \in [Presses -> [calls : 0..MaxCalls, step : {"idle", "order", "payment", "done", "ended"}, live : BOOLEAN,
                            items : Seq(CartItem), at : Nat, method : {"POINT", "CARD"}, remaining : Int,
                            entry : Int, sent : 0..MaxUnits, ordered : [Titles -> 0..MaxUnits],
                            paid : [Titles -> 0..MaxUnits], points : Int, meddled : BOOLEAN]]

(* A checkout that announces success has ordered and paid each item of the cart   *)
(* it was pressed on, in the quantity shown, and used exactly the points that     *)
(* were set aside for it, unless quantities were changed on the page meanwhile.   *)
(* With a card it never asks for more points than were set aside, and what it     *)
(* asked for and what is left always add up (Cart.js handlePay).                  *)
CheckoutPaysWhatWasShown ==
  \A c \in Presses :
    LET run == coRun[c] IN
    /\ run.method = "CARD" => run.points + run.remaining = run.entry /\ (run.points > 0 => run.remaining >= 0)
    /\ run.step = "done" /\ ~run.meddled =>
         /\ run.paid = run.ordered
         /\ \A i \in DOMAIN run.items : run.paid[run.items[i].title] = run.items[i].quantity
         /\ {t \in Titles : run.paid[t] > 0} = TitlesOf(run.items)
         /\ run.entry > 0 => run.points = run.entry

(* However a call of handlePay ends, and in whatever order its answers, the use   *)
(* of the page and a reload come, at most one order of it is left unpaid, and     *)
(* none when it announces success; nothing is paid that was not ordered           *)
(* (Cart.js handlePay, one item after the other).                                 *)
OneUnpaidOrderAtMost ==
  \A c \in Presses :
    LET run == coRun[c]
        unpaid == {t \in Titles : run.ordered[t] > 0 /\ run.paid[t] = 0}
    IN /\ \A s, t \in unpaid : s = t
       /\ run.step = "done" => unpaid = {}
       /\ \A t \in Titles : run.paid[t] > 0 => run.ordered[t] > 0

(* While the cart page is open it lists what the session stores, although calls   *)
(* of handlePay of this and of earlier pages end in between; its pay button is    *)
(* disabled exactly while a call pressed on this page is running, and its payment *)
(* panel is open only for a user (Cart.js loadCart, saveCart, handlePay).         *)
CartPageAgrees ==
  /\ coOpen => coItems = StoredCart
  /\ coPanel.loading <=> \E c \in Presses : coRun[c].live
  /\ coPanel.shown => coOpen /\ coUser # Nothing
=============================================================================
