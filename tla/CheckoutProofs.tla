---------------------------- MODULE CheckoutProofs ----------------------------
(***************************************************************************)
(* Proofs about Checkout, for any products, prices, carts, balances and    *)
(* numbers of calls of handlePay: at most one order of a call is left      *)
(* unpaid, the cart page shows what the session stores and is disabled     *)
(* exactly while a call of its own is running, and a call that announces   *)
(* success paid what was shown with the points set aside.                  *)
(*                                                                         *)
(* The first is an invariant of each call by itself: before an order       *)
(* everything ordered is paid, between an order and its payment all but    *)
(* the item of the moment.  The second needs that a page has at most one   *)
(* call, and that a call whose page is mounted has not ended.  The third   *)
(* needs that no product is twice in a cart, and follows the items one by  *)
(* one: what is paid, and what the items so far are worth.                 *)
(***************************************************************************)
EXTENDS Checkout, SequenceTheorems, FiniteSetTheorems, WellFoundedInduction, TLAPS

Item == [title : Titles, quantity : Nat \ {0}]

RunFields == {"calls", "step", "live", "items", "at", "method", "remaining", "entry", "sent", "ordered", "paid",
              "points", "meddled"}
PanelFields == {"shown", "method", "loading", "points", "card", "withCard", "entered"}

Unpaid(run) == {t \in Titles : run.ordered[t] > 0 /\ run.paid[t] = 0}

(* What a call has done by the time of each step. *)
Sound(run) ==
  /\ DOMAIN run = RunFields
  /\ run.step \in {"idle", "order", "payment", "done", "ended"}
  /\ run.live \in BOOLEAN /\ (run.live => Paying(run))
  /\ run.ordered \in [Titles -> Nat] /\ run.paid \in [Titles -> Nat]
  /\ Paying(run) => run.items \in Seq(Item) /\ run.at \in DOMAIN run.items /\ run.sent \in Nat \ {0}
  /\ \A t \in Titles : run.paid[t] > 0 => run.ordered[t] > 0
  /\ run.step \in {"idle", "order", "done"} => Unpaid(run) = {}
  /\ run.step = "payment" => /\ Unpaid(run) \subseteq {run.items[run.at].title}
                             /\ run.ordered[run.items[run.at].title] > 0
  /\ run.step = "ended" => \A s, t \in Unpaid(run) : s = t

CartInv ==
  /\ coCart = Nothing \/ coCart \in Seq(Item)
  /\ coItems \in Seq(Item)
  /\ coOpen \in BOOLEAN
  /\ coOpen => coItems = StoredCart

RunsInv ==
  /\ DOMAIN coRun = Presses
  /\ \A c \in Presses : Sound(coRun[c])

(* At most one call belongs to the page that is mounted, and its button knows. *)
PageInv ==
  /\ DOMAIN coPanel = PanelFields /\ coPanel.shown \in BOOLEAN /\ coPanel.loading \in BOOLEAN
  /\ ~coOpen => coPanel = FreshPanel
  /\ coPanel.shown => coUser # Nothing
  /\ coPanel.loading <=> \E c \in Presses : coRun[c].live
  /\ \A b, c \in Presses : coRun[b].live /\ coRun[c].live => b = c

CheckoutInv == CartInv /\ RunsInv /\ PageInv

-----------------------------------------------------------------------------
(* Carts *)

LEMMA CartIsSomething ==
  ASSUME NEW items \in Seq(Item) PROVE items # Nothing
<1>1. Item \subseteq [title : Titles, quantity : Nat]
  BY DEF Item
<1>2. items \in Seq([title : Titles, quantity : Nat])
  BY <1>1, SeqMonotonic
<1> QED
  BY <1>2, NothingAssumption

LEMMA StoredIsCart ==
  ASSUME CartInv PROVE StoredCart \in Seq(Item)
BY EmptySeq DEF CartInv, StoredCart

LEMMA MappedIsCart ==
  ASSUME NEW items \in Seq(Item), NEW mapped, DOMAIN mapped = DOMAIN items,
         mapped = [i \in DOMAIN items |-> mapped[i]],
         \A i \in DOMAIN items : mapped[i] \in Item
  PROVE  mapped \in Seq(Item)
<1>1. DOMAIN items = 1..Len(items) /\ Len(items) \in Nat
  BY LenProperties
<1>2. mapped \in [1..Len(items) -> Item]
  BY <1>1
<1> QED
  BY <1>1, <1>2, SeqDef

LEMMA SetQuantityIsCart ==
  ASSUME NEW items \in Seq(Item), NEW t, NEW q \in Nat \ {0}
  PROVE  /\ SetQuantity(items, t, q) \in Seq(Item)
         /\ DOMAIN SetQuantity(items, t, q) = DOMAIN items
         /\ \A i \in DOMAIN items : SetQuantity(items, t, q)[i].title = items[i].title
<1> DEFINE mapped == SetQuantity(items, t, q)
<1>1. /\ DOMAIN mapped = DOMAIN items
      /\ mapped = [i \in DOMAIN items |-> mapped[i]]
  BY DEF SetQuantity
<1>2. ASSUME NEW i \in DOMAIN items PROVE mapped[i] \in Item /\ mapped[i].title = items[i].title
  <2>1. items[i] \in Item
    BY LenProperties, ElementOfSeq
  <2>2. mapped[i] = IF items[i].title = t THEN [items[i] EXCEPT !.quantity = q] ELSE items[i]
    BY <1>2 DEF SetQuantity
  <2> QED
    BY <2>1, <2>2 DEF Item
<1> HIDE DEF mapped
<1>3. mapped \in Seq(Item)
  BY <1>1, <1>2, MappedIsCart
<1> QED
  BY <1>1, <1>2, <1>3 DEF mapped

LEMMA AddedIsCart ==
  ASSUME NEW cart \in Seq(Item), NEW t \in Titles, NEW q \in Nat \ {0}
  PROVE  Added(cart, t, q) \in Seq(Item)
<1> DEFINE mapped == [i \in DOMAIN cart |-> IF cart[i].title = t THEN [cart[i] EXCEPT !.quantity = @ + q] ELSE cart[i]]
<1>1. ASSUME NEW i \in DOMAIN cart PROVE mapped[i] \in Item
  <2>1. cart[i] \in Item
    BY LenProperties, ElementOfSeq
  <2>2. cart[i].quantity + q \in Nat \ {0}
    BY <2>1 DEF Item
  <2>3. mapped[i] = IF cart[i].title = t THEN [cart[i] EXCEPT !.quantity = cart[i].quantity + q] ELSE cart[i]
    OBVIOUS
  <2> HIDE DEF mapped
  <2> QED
    BY <2>1, <2>2, <2>3 DEF Item
<1>2. DOMAIN mapped = DOMAIN cart /\ mapped = [i \in DOMAIN cart |-> mapped[i]]
  OBVIOUS
<1>3. Added(cart, t, q) = IF t \in TitlesOf(cart) THEN mapped ELSE Append(cart, [title |-> t, quantity |-> q])
  BY DEF Added
<1> HIDE DEF mapped
<1>4. mapped \in Seq(Item)
  BY <1>1, <1>2, MappedIsCart
<1>5. Append(cart, [title |-> t, quantity |-> q]) \in Seq(Item)
  <2>1. [title |-> t, quantity |-> q] \in Item
    BY DEF Item
  <2> QED
    BY <2>1
<1> QED
  BY <1>3, <1>4, <1>5

LEMMA RemovedIsCart ==
  ASSUME NEW items \in Seq(Item), NEW i \in DOMAIN items
  PROVE  RemoveAt(items, i) \in Seq(Item)
<1>1. DOMAIN items = 1..Len(items) /\ Len(items) \in Nat /\ i \in 1..Len(items)
  BY LenProperties
<1>2. \A j \in 1..Len(items) : items[j] \in Item
  BY ElementOfSeq
<1>3. SubSeq(items, 1, i - 1) \in Seq(Item)
  <2>1. \A j \in 1..(i - 1) : items[j] \in Item
    BY <1>1, <1>2
  <2>2. 1 \in Int /\ i - 1 \in Int
    BY <1>1
  <2> QED
    BY <2>1, <2>2, SubSeqProperties
<1>4. SubSeq(items, i + 1, Len(items)) \in Seq(Item)
  <2>1. \A j \in (i + 1)..Len(items) : items[j] \in Item
    BY <1>1, <1>2
  <2>2. i + 1 \in Int /\ Len(items) \in Int
    BY <1>1
  <2> QED
    BY <2>1, <2>2, SubSeqProperties
<1> QED
  BY <1>3, <1>4, ConcatProperties DEF RemoveAt

LEMMA CartSaved ==
  ASSUME CartInv, NEW items \in Seq(Item), SaveCart(items), coOpen' = coOpen
  PROVE  CartInv'
<1>1. items # Nothing
  BY CartIsSomething
<1>2. coCart' = items /\ coItems' = items
  BY DEF SaveCart
<1>3. StoredCart' = items
  BY <1>1, <1>2 DEF StoredCart
<1> QED
  BY <1>2, <1>3 DEF CartInv

LEMMA CartUnmounted ==
  ASSUME CartInv, Unmount, coCart' = coCart \/ coCart' = Nothing
  PROVE  CartInv'
BY EmptySeq DEF CartInv, Unmount

-----------------------------------------------------------------------------
(* Calls of handlePay, each by itself *)

LEMMA NoRunSound == Sound(NoRun) /\ ~NoRun.live
<1>1. NoRun.ordered = [t \in Titles |-> 0] /\ NoRun.paid = [t \in Titles |-> 0]
  BY DEF NoRun
<1>2. DOMAIN NoRun = RunFields /\ NoRun.step = "idle" /\ NoRun.live = FALSE
  BY DEF NoRun, RunFields
<1>3. Unpaid(NoRun) = {}
  BY <1>1 DEF Unpaid
<1>4. NoRun.ordered \in [Titles -> Nat] /\ NoRun.paid \in [Titles -> Nat]
  BY <1>1
<1>5. \A t \in Titles : NoRun.paid[t] > 0 => NoRun.ordered[t] > 0
  BY <1>1
<1> QED
  BY <1>2, <1>3, <1>4, <1>5 DEF Sound, Paying

LEMMA EndedSound ==
  ASSUME NEW run, Sound(run), NEW served \in BOOLEAN
  PROVE  Sound(Ended(run, served)) /\ ~Ended(run, served).live
<1> DEFINE t == run.items[run.at].title
           ended == Ended(run, served)
<1>1. CASE ~Paying(run)
  BY <1>1 DEF Ended, Sound
<1>2. CASE Paying(run)
  <2>1. t \in Titles /\ run.sent \in Nat \ {0}
    <3>1. run.items[run.at] \in Item
      BY <1>2, LenProperties, ElementOfSeq DEF Sound
    <3> QED
      BY <1>2, <3>1 DEF Sound, Item
  <2>2. /\ DOMAIN ended = RunFields
        /\ ended.step = "ended" /\ ended.live = FALSE
        /\ ended.ordered = [run.ordered EXCEPT ![t] = IF served /\ run.step = "order" THEN run.sent ELSE @]
        /\ ended.paid = [run.paid EXCEPT ![t] = IF served /\ run.step = "payment" THEN run.sent ELSE @]
    BY <1>2 DEF Ended, NoRun, RunFields
  <2> HIDE DEF ended, t
  <2>3. run.ordered \in [Titles -> Nat] /\ run.paid \in [Titles -> Nat]
    BY DEF Sound
  <2>4. ended.ordered \in [Titles -> Nat] /\ ended.paid \in [Titles -> Nat]
    BY <2>1, <2>2, <2>3
  <2>5. \A u \in Titles : u # t => ended.ordered[u] = run.ordered[u] /\ ended.paid[u] = run.paid[u]
    BY <2>2, <2>3
  <2>6. \A u \in Unpaid(run) : u = t
    BY <1>2 DEF Sound, Paying, t
  <2>7. \A u \in Unpaid(ended) : u = t
    BY <2>5, <2>6 DEF Unpaid
  <2>8. ended.paid[t] > 0 => ended.ordered[t] > 0
    <3>1. CASE run.step = "order"
      <4>1. /\ ended.ordered[t] = IF served THEN run.sent ELSE run.ordered[t]
            /\ ended.paid[t] = run.paid[t]
        BY <2>1, <2>2, <2>3, <3>1
      <4> QED
        BY <2>1, <4>1 DEF Sound
    <3>2. CASE run.step = "payment"
      <4>1. ended.ordered[t] = run.ordered[t] /\ run.ordered[t] > 0
        BY <2>1, <2>2, <2>3, <3>2 DEF Sound, t
      <4> QED
        BY <4>1
    <3> QED
      BY <1>2, <3>1, <3>2 DEF Paying
  <2>9. \A u \in Titles : ended.paid[u] > 0 => ended.ordered[u] > 0
    BY <2>5, <2>8 DEF Sound
  <2> HIDE DEF Unpaid
  <2>10. Sound(ended)
    BY <2>2, <2>4, <2>7, <2>9 DEF Sound, Paying
  <2> QED
    BY <2>2, <2>10 DEF ended
<1> QED
  BY <1>1, <1>2

LEMMA UnmountedSound ==
  ASSUME NEW run, Sound(run)
  PROVE  Sound([run EXCEPT !.live = FALSE]) /\ ~[run EXCEPT !.live = FALSE].live
<1> DEFINE left == [run EXCEPT !.live = FALSE]
<1>1. DOMAIN run = RunFields
  BY DEF Sound
<1>2. /\ DOMAIN left = RunFields /\ left.live = FALSE
      /\ left.step = run.step /\ left.ordered = run.ordered /\ left.paid = run.paid
      /\ left.items = run.items /\ left.at = run.at /\ left.sent = run.sent
  BY <1>1 DEF RunFields
<1> HIDE DEF left
<1>3. Unpaid(left) = Unpaid(run) /\ (Paying(left) <=> Paying(run))
  BY <1>2 DEF Unpaid, Paying
<1>4. Sound(left)
  BY <1>2, <1>3 DEF Sound
<1> QED
  BY <1>2, <1>4 DEF left

LEMMA MeddledSound ==
  ASSUME NEW run, Sound(run), run.live, NEW t, NEW q \in Nat \ {0}
  PROVE  /\ Sound([run EXCEPT !.items = SetQuantity(@, t, q), !.meddled = TRUE])
         /\ [run EXCEPT !.items = SetQuantity(@, t, q), !.meddled = TRUE].live = run.live
<1> DEFINE changed == [run EXCEPT !.items = SetQuantity(@, t, q), !.meddled = TRUE]
<1>1. DOMAIN run = RunFields /\ Paying(run)
  BY DEF Sound
<1>2. /\ DOMAIN changed = RunFields /\ changed.live = run.live
      /\ changed.step = run.step /\ changed.ordered = run.ordered /\ changed.paid = run.paid
      /\ changed.items = SetQuantity(run.items, t, q) /\ changed.at = run.at /\ changed.sent = run.sent
  BY <1>1 DEF RunFields
<1> HIDE DEF changed
<1>3. run.items \in Seq(Item) /\ run.at \in DOMAIN run.items
  BY <1>1 DEF Sound
<1>4. /\ changed.items \in Seq(Item) /\ changed.at \in DOMAIN changed.items
      /\ changed.items[changed.at].title = run.items[run.at].title
  BY <1>2, <1>3, SetQuantityIsCart
<1>5. Unpaid(changed) = Unpaid(run) /\ (Paying(changed) <=> Paying(run))
  BY <1>2 DEF Unpaid, Paying
<1>6. Sound(changed)
  BY <1>2, <1>4, <1>5 DEF Sound
<1> QED
  BY <1>2, <1>6 DEF changed

LEMMA PressedSound ==
  ASSUME NEW items \in Seq(Item), items # <<>>, NEW run,
         run.ordered = [t \in Titles |-> 0], run.paid = [t \in Titles |-> 0],
         DOMAIN run = RunFields, run.step = "order", run.live = TRUE,
         run.items = items, run.at = 1, run.sent = items[1].quantity
  PROVE  Sound(run)
<1>1. DOMAIN items = 1..Len(items) /\ Len(items) \in Nat \ {0}
  BY LenProperties, EmptySeq
<1>2. 1 \in DOMAIN items
  BY <1>1
<1>3. items[1] \in Item
  BY <1>1, <1>2, ElementOfSeq
<1>4. run.sent \in Nat \ {0}
  BY <1>3 DEF Item
<1>5. Unpaid(run) = {}
  BY DEF Unpaid
<1>6. run.ordered \in [Titles -> Nat] /\ run.paid \in [Titles -> Nat]
  OBVIOUS
<1>7. \A t \in Titles : run.paid[t] > 0 => run.ordered[t] > 0
  OBVIOUS
<1>8. Paying(run)
  BY DEF Paying
<1> QED
  BY <1>2, <1>4, <1>5, <1>6, <1>7, <1>8 DEF Sound

(* The order of an item is there, and its payment is sent. *)
LEMMA OrderedSound ==
  ASSUME NEW run, Sound(run), run.step = "order", NEW after,
         DOMAIN after = RunFields, after.step = "payment", after.live = run.live,
         after.items = run.items, after.at = run.at, after.paid = run.paid,
         after.sent = run.items[run.at].quantity,
         after.ordered = [run.ordered EXCEPT ![run.items[run.at].title] = run.sent]
  PROVE  Sound(after)
<1> DEFINE t == run.items[run.at].title
<1>1. Paying(run) /\ Paying(after)
  BY DEF Paying
<1>2. run.items \in Seq(Item) /\ run.at \in DOMAIN run.items /\ run.sent \in Nat \ {0}
  BY <1>1 DEF Sound
<1>3. run.items[run.at] \in Item
  BY <1>2, LenProperties, ElementOfSeq
<1>4. t \in Titles /\ after.sent \in Nat \ {0}
  BY <1>3 DEF Item
<1>5. run.ordered \in [Titles -> Nat] /\ run.paid \in [Titles -> Nat] /\ run.live \in BOOLEAN
  BY DEF Sound
<1>6. after.items[after.at].title = t /\ after.ordered = [run.ordered EXCEPT ![t] = run.sent]
  OBVIOUS
<1> HIDE DEF t
<1>7. after.ordered \in [Titles -> Nat] /\ after.ordered[t] > 0
  BY <1>2, <1>4, <1>5, <1>6
<1>8. \A u \in Titles : u # t => after.ordered[u] = run.ordered[u]
  BY <1>5, <1>6
<1>9. Unpaid(run) = {} /\ \A u \in Titles : run.paid[u] > 0 => run.ordered[u] > 0
  BY DEF Sound
<1>10. Unpaid(after) \subseteq {t}
  BY <1>8, <1>9 DEF Unpaid
<1>11. \A u \in Titles : after.paid[u] > 0 => after.ordered[u] > 0
  BY <1>7, <1>8, <1>9
<1> QED
  BY <1>1, <1>2, <1>4, <1>5, <1>6, <1>7, <1>10, <1>11 DEF Sound

LEMMA PaidFacts ==
  ASSUME NEW run, Sound(run), run.step = "payment"
  PROVE  /\ Paying(run) /\ DOMAIN PaidRun(run) = RunFields
         /\ PaidRun(run).paid \in [Titles -> Nat]
         /\ PaidRun(run).ordered = run.ordered /\ PaidRun(run).items = run.items /\ PaidRun(run).at = run.at
         /\ PaidRun(run).live = run.live
         /\ \A t \in Titles : run.ordered[t] > 0 => PaidRun(run).paid[t] > 0
         /\ \A t \in Titles : PaidRun(run).paid[t] > 0 => run.ordered[t] > 0
<1> DEFINE t == run.items[run.at].title
           after == PaidRun(run)
<1>1. Paying(run)
  BY DEF Paying
<1>2. run.items \in Seq(Item) /\ run.at \in DOMAIN run.items /\ run.sent \in Nat \ {0}
  BY <1>1 DEF Sound
<1>3. run.items[run.at] \in Item
  BY <1>2, LenProperties, ElementOfSeq
<1>4. t \in Titles
  BY <1>3 DEF Item
<1>5. DOMAIN run = RunFields /\ run.ordered \in [Titles -> Nat] /\ run.paid \in [Titles -> Nat]
  BY DEF Sound
<1>6. /\ DOMAIN after = RunFields /\ after.paid = [run.paid EXCEPT ![t] = run.sent]
      /\ after.ordered = run.ordered /\ after.items = run.items /\ after.at = run.at /\ after.live = run.live
  BY <1>5 DEF PaidRun, RunFields
<1>7. Unpaid(run) \subseteq {t} /\ run.ordered[t] > 0 /\ \A u \in Titles : run.paid[u] > 0 => run.ordered[u] > 0
  BY DEF Sound
<1> HIDE DEF t, after
<1>8. after.paid \in [Titles -> Nat] /\ after.paid[t] > 0
  BY <1>2, <1>4, <1>5, <1>6
<1>9. \A u \in Titles : u # t => after.paid[u] = run.paid[u]
  BY <1>5, <1>6
<1>10. \A u \in Titles : u # t /\ run.ordered[u] > 0 => run.paid[u] > 0
  BY <1>5, <1>7 DEF Unpaid
<1>11. \A u \in Titles : run.ordered[u] > 0 => after.paid[u] > 0
  BY <1>8, <1>9, <1>10
<1>12. \A u \in Titles : after.paid[u] > 0 => run.ordered[u] > 0
  BY <1>7, <1>9
<1> QED
  BY <1>1, <1>6, <1>8, <1>11, <1>12 DEF after

(* An item is paid and the next is ordered, or there is none. *)
LEMMA PaidSound ==
  ASSUME NEW run, Sound(run), run.step = "payment", NEW after,
         DOMAIN after = RunFields, after.step \in {"order", "done"}, after.live \in BOOLEAN,
         after.live => after.step = "order",
         after.ordered = run.ordered, after.paid = PaidRun(run).paid, after.items = run.items,
         after.step = "order" => /\ after.at \in DOMAIN run.items
                                 /\ after.sent = run.items[after.at].quantity
  PROVE  Sound(after)
<1>1. Paying(run) /\ run.items \in Seq(Item)
  BY PaidFacts DEF Sound
<1>2. after.ordered \in [Titles -> Nat] /\ after.paid \in [Titles -> Nat]
  BY PaidFacts DEF Sound
<1>3. \A t \in Titles : after.ordered[t] > 0 => after.paid[t] > 0
  BY PaidFacts
<1>4. \A t \in Titles : after.paid[t] > 0 => after.ordered[t] > 0
  BY PaidFacts
<1>5. Unpaid(after) = {}
  BY <1>2, <1>3 DEF Unpaid
<1>6. Paying(after) <=> after.step = "order"
  BY DEF Paying
<1>7. after.step = "order" => after.sent \in Nat \ {0}
  <2> SUFFICES ASSUME after.step = "order" PROVE after.sent \in Nat \ {0}
    OBVIOUS
  <2>1. run.items[after.at] \in Item
    BY <1>1, LenProperties, ElementOfSeq
  <2> QED
    BY <2>1 DEF Item
<1> QED
  BY <1>1, <1>2, <1>4, <1>5, <1>6, <1>7 DEF Sound

-----------------------------------------------------------------------------
(* The page and its calls *)

LEMMA PanelFacts == /\ DOMAIN FreshPanel = PanelFields /\ FreshPanel.shown = FALSE /\ FreshPanel.loading = FALSE
BY DEF FreshPanel, PanelFields

(* The page is gone, and no call has a page. *)
LEMMA PageUnmounted ==
  ASSUME Unmount, DOMAIN coRun' = Presses, \A c \in Presses : ~(coRun'[c]).live
  PROVE  PageInv'
BY PanelFacts DEF Unmount, PageInv

LEMMA RunsUnmounted ==
  ASSUME RunsInv, coRun' = Unmounted(coRun)
  PROVE  RunsInv' /\ \A c \in Presses : ~(coRun'[c]).live
<1>1. DOMAIN coRun' = Presses
  BY DEF Unmounted
<1>2. ASSUME NEW c \in Presses PROVE Sound(coRun'[c]) /\ ~(coRun'[c]).live
  <2>1. coRun'[c] = [coRun[c] EXCEPT !.live = FALSE]
    BY DEF Unmounted
  <2> QED
    BY <2>1, UnmountedSound DEF RunsInv
<1> QED
  BY <1>1, <1>2 DEF RunsInv

LEMMA LeftKeeps ==
  ASSUME CheckoutInv, Unmount, coRun' = Unmounted(coRun), coCart' = coCart \/ coCart' = Nothing
  PROVE  CheckoutInv'
BY CartUnmounted, RunsUnmounted, PageUnmounted DEF CheckoutInv, RunsInv

LEMMA ReloadKeeps ==
  ASSUME CheckoutInv, NEW served \in SUBSET Presses, Reload(served), UNCHANGED <<coUser, coCart>>
  PROVE  CheckoutInv'
<1>1. Unmount
  BY DEF Reload, Unmount
<1>2. DOMAIN coRun' = Presses
  BY DEF Reload
<1>3. ASSUME NEW c \in Presses PROVE Sound(coRun'[c]) /\ ~(coRun'[c]).live
  <2>1. coRun'[c] = Ended(coRun[c], c \in served)
    BY DEF Reload
  <2>2. (c \in served) \in BOOLEAN
    OBVIOUS
  <2> QED
    BY <2>1, <2>2, EndedSound DEF CheckoutInv, RunsInv
<1> QED
  BY <1>1, <1>2, <1>3, CartUnmounted, PageUnmounted DEF CheckoutInv, RunsInv

LEMMA PutInCartKeeps ==
  ASSUME CheckoutInv, NEW t \in Titles, NEW q \in 1..MaxUnits, PutInCart(t, q)
  PROVE  CheckoutInv'
<1>1. q \in Nat \ {0}
  OBVIOUS
<1>2. coCart' \in Seq(Item)
  BY <1>1, StoredIsCart, AddedIsCart DEF PutInCart, CheckoutInv
<1>3. ~coOpen /\ UNCHANGED <<coUser, coOpen, coItems, coPanel, coRun>>
  BY DEF PutInCart
<1>4. CartInv'
  BY <1>2, <1>3 DEF CheckoutInv, CartInv
<1> QED
  BY <1>3, <1>4 DEF CheckoutInv, RunsInv, PageInv

LEMMA OpenCartKeeps ==
  ASSUME CheckoutInv, OpenCart PROVE CheckoutInv'
<1>1. /\ ~coOpen /\ coOpen' = TRUE /\ coItems' = StoredCart /\ coPanel' = FreshPanel
      /\ UNCHANGED <<coUser, coCart, coRun>>
  BY DEF OpenCart
<1>2. CartInv'
  <2>1. StoredCart' = StoredCart /\ StoredCart \in Seq(Item)
    BY <1>1, StoredIsCart DEF StoredCart, CheckoutInv
  <2> QED
    BY <1>1, <2>1 DEF CheckoutInv, CartInv
<1>3. coPanel = FreshPanel
  BY <1>1 DEF CheckoutInv, PageInv
<1>4. PageInv'
  BY <1>1, <1>3, PanelFacts DEF CheckoutInv, PageInv
<1> QED
  BY <1>1, <1>2, <1>4 DEF CheckoutInv, RunsInv

(* Only the panel changes, and neither its button nor whether it is shown. *)
LEMMA PanelKeeps ==
  ASSUME CheckoutInv, coOpen, UNCHANGED <<coUser, coCart, coOpen, coItems, coRun>>,
         DOMAIN coPanel' = PanelFields, (coPanel').loading = coPanel.loading,
         (coPanel').shown = coPanel.shown \/ (coPanel').shown = FALSE
                                          \/ ((coPanel').shown = TRUE /\ coUser # Nothing)
  PROVE  CheckoutInv'
<1>1. CartInv'
  BY DEF CheckoutInv, CartInv, StoredCart
<1>2. PageInv'
  BY DEF CheckoutInv, PageInv
<1> QED
  BY <1>1, <1>2 DEF CheckoutInv, RunsInv

LEMMA CartListKeeps ==
  ASSUME CheckoutInv, CartList PROVE CheckoutInv'
<1>1. PICK i \in DOMAIN coItems : RemoveItem(i) \/ \E delta \in {-1, 1} : UpdateQuantity(i, delta)
  BY DEF CartList
<1>2. coOpen /\ coItems \in Seq(Item)
  BY DEF CartList, CheckoutInv, CartInv
<1>3. CASE RemoveItem(i)
  <2>1. SaveCart(RemoveAt(coItems, i)) /\ UNCHANGED <<coUser, coOpen, coPanel, coRun>>
    BY <1>3 DEF RemoveItem
  <2>2. RemoveAt(coItems, i) \in Seq(Item)
    BY <1>2, RemovedIsCart
  <2>3. CartInv'
    BY <2>1, <2>2, CartSaved DEF CheckoutInv
  <2> QED
    BY <2>1, <2>3 DEF CheckoutInv, RunsInv, PageInv
<1>4. ASSUME NEW delta \in {-1, 1}, UpdateQuantity(i, delta) PROVE CheckoutInv'
  <2> DEFINE t == coItems[i].title
             q == AtLeastOne(coItems[i].quantity + delta)
  <2>1. q \in Nat \ {0}
    <3>1. coItems[i] \in Item
      BY <1>2, LenProperties, ElementOfSeq
    <3>2. coItems[i].quantity + delta \in Int
      BY <3>1 DEF Item
    <3> QED
      BY <3>2 DEF AtLeastOne
  <2>2. /\ SaveCart(SetQuantity(coItems, t, q)) /\ UNCHANGED <<coUser, coOpen, coPanel>>
        /\ coRun' = [c \in Presses |-> IF coRun[c].live
                                       THEN [coRun[c] EXCEPT !.items = SetQuantity(@, t, q), !.meddled = TRUE]
                                       ELSE coRun[c]]
    BY <1>4 DEF UpdateQuantity
  <2> HIDE DEF t, q
  <2>3. CartInv'
    BY <1>2, <2>1, <2>2, SetQuantityIsCart, CartSaved DEF CheckoutInv
  <2>4. ASSUME NEW c \in Presses PROVE Sound(coRun'[c]) /\ (coRun'[c]).live = coRun[c].live
    <3>1. Sound(coRun[c])
      BY DEF CheckoutInv, RunsInv
    <3>2. CASE coRun[c].live
      <4> DEFINE run == coRun[c]
      <4>1. coRun'[c] = [run EXCEPT !.items = SetQuantity(@, t, q), !.meddled = TRUE]
        BY <2>2, <3>2
      <4>2. Sound(run) /\ run.live
        BY <3>1, <3>2
      <4> HIDE DEF run
      <4> DEFINE changed == [run EXCEPT !.items = SetQuantity(@, t, q), !.meddled = TRUE]
      <4>3. Sound(changed) /\ changed.live = run.live
        BY <2>1, <4>2, MeddledSound
      <4>4. coRun'[c] = changed
        BY <4>1
      <4> HIDE DEF changed
      <4> QED
        BY <4>3, <4>4 DEF run
    <3>3. CASE ~coRun[c].live
      BY <2>2, <3>1, <3>3
    <3> QED
      BY <3>2, <3>3
  <2>5. DOMAIN coRun' = Presses
    BY <2>2
  <2>6. PageInv'
    BY <2>2, <2>4 DEF CheckoutInv, PageInv
  <2> QED
    BY <2>3, <2>4, <2>5, <2>6 DEF CheckoutInv, RunsInv
<1> QED
  BY <1>1, <1>3, <1>4

LEMMA HandlePayKeeps ==
  ASSUME CheckoutInv, NEW c \in Presses, HandlePay(c), coOpen, coItems # <<>>,
         UNCHANGED <<coUser, coCart, coOpen, coItems>>
  PROVE  CheckoutInv'
<1> DEFINE run == [NoRun EXCEPT !.calls = Len(coItems), !.step = "order", !.live = TRUE, !.items = coItems, !.at = 1,
                     !.method = coPanel.method, !.remaining = PointsSetAside, !.entry = PointsSetAside,
                     !.sent = coItems[1].quantity]
<1>1. /\ coRun' = [coRun EXCEPT ![c] = run]
      /\ coPanel' = [coPanel EXCEPT !.loading = TRUE]
      /\ ~coPanel.loading
  BY DEF HandlePay, PayDisabled
<1>2. /\ DOMAIN run = RunFields /\ run.step = "order" /\ run.live = TRUE
      /\ run.items = coItems /\ run.at = 1 /\ run.sent = coItems[1].quantity
      /\ run.ordered = [t \in Titles |-> 0] /\ run.paid = [t \in Titles |-> 0]
  BY DEF NoRun, RunFields
<1> HIDE DEF run
<1>3. coItems \in Seq(Item)
  BY DEF CheckoutInv, CartInv
<1>4. Sound(run)
  BY <1>2, <1>3, PressedSound
<1>5. DOMAIN coRun = Presses /\ DOMAIN coRun' = Presses
  BY <1>1 DEF CheckoutInv, RunsInv
<1>6. coRun'[c] = run /\ \A b \in Presses : b # c => coRun'[b] = coRun[b]
  BY <1>1, <1>5
<1>7. RunsInv'
  BY <1>4, <1>5, <1>6 DEF CheckoutInv, RunsInv
<1>8. \A b \in Presses : (coRun'[b]).live <=> b = c
  BY <1>1, <1>2, <1>6 DEF CheckoutInv, PageInv
<1>9. /\ DOMAIN coPanel' = PanelFields /\ (coPanel').loading = TRUE
      /\ (coPanel').shown = coPanel.shown
  BY <1>1 DEF CheckoutInv, PageInv, PanelFields
<1>10. PageInv'
  BY <1>8, <1>9 DEF CheckoutInv, PageInv
<1>11. CartInv'
  BY DEF CheckoutInv, CartInv, StoredCart
<1> QED
  BY <1>7, <1>10, <1>11 DEF CheckoutInv

LEMMA CartSummaryKeeps ==
  ASSUME CheckoutInv, CartSummary PROVE CheckoutInv'
<1>1. coOpen /\ coItems # <<>> /\ UNCHANGED <<coUser, coCart>>
  BY DEF CartSummary
<1>2. DOMAIN coPanel = PanelFields
  BY DEF CheckoutInv, PageInv
<1>3. CASE HandleCheckout
  <2>1. CASE coUser = Nothing
    BY <1>1, <1>3, <2>1, LeftKeeps DEF HandleCheckout
  <2>2. CASE coUser # Nothing
    <3>1. coPanel' = [coPanel EXCEPT !.shown = TRUE] /\ UNCHANGED <<coOpen, coItems, coRun>>
      BY <1>3, <2>2 DEF HandleCheckout
    <3>2. DOMAIN coPanel' = PanelFields /\ (coPanel').loading = coPanel.loading /\ (coPanel').shown = TRUE
      BY <1>2, <3>1 DEF PanelFields
    <3> QED
      BY <1>1, <2>2, <3>1, <3>2, PanelKeeps
  <2> QED
    BY <2>1, <2>2
<1>4. CASE \E c \in Presses : HandlePay(c) /\ UNCHANGED <<coOpen, coItems>>
  BY <1>1, <1>4, HandlePayKeeps
<1>5. CASE /\ \/ ChooseMethod
              \/ EnterPoints
              \/ coPanel' = [coPanel EXCEPT !.shown = FALSE]
           /\ UNCHANGED <<coOpen, coItems, coRun>>
  <2>1. /\ DOMAIN coPanel' = PanelFields /\ (coPanel').loading = coPanel.loading
        /\ (coPanel').shown = coPanel.shown \/ (coPanel').shown = FALSE
    <3>1. CASE ChooseMethod
      BY <1>2, <3>1 DEF ChooseMethod, PanelFields
    <3>2. CASE EnterPoints
      BY <1>2, <3>2 DEF EnterPoints, PanelFields
    <3>3. CASE coPanel' = [coPanel EXCEPT !.shown = FALSE]
      BY <1>2, <3>3 DEF PanelFields
    <3> QED
      BY <1>5, <3>1, <3>2, <3>3
  <2> QED
    BY <1>1, <1>5, <2>1, PanelKeeps
<1> QED
  BY <1>3, <1>4, <1>5 DEF CartSummary

-----------------------------------------------------------------------------
(* Answers *)

(* One call goes on, and its page does not notice. *)
LEMMA RunGoesOn ==
  ASSUME CheckoutInv, NEW c \in Presses, NEW run, coRun' = [coRun EXCEPT ![c] = run],
         Sound(run), run.live = coRun[c].live,
         UNCHANGED <<coUser, coCart, coOpen, coItems, coPanel>>
  PROVE  CheckoutInv'
<1>1. DOMAIN coRun = Presses /\ DOMAIN coRun' = Presses
  BY DEF CheckoutInv, RunsInv
<1>2. coRun'[c] = run /\ \A b \in Presses : b # c => coRun'[b] = coRun[b]
  BY <1>1
<1>3. RunsInv'
  BY <1>1, <1>2 DEF CheckoutInv, RunsInv
<1>4. \A b \in Presses : (coRun'[b]).live = coRun[b].live
  BY <1>2
<1>5. PageInv'
  BY <1>4 DEF CheckoutInv, PageInv
<1>6. CartInv'
  BY DEF CheckoutInv, CartInv, StoredCart
<1> QED
  BY <1>3, <1>5, <1>6 DEF CheckoutInv

LEMMA OrderedKeeps ==
  ASSUME CheckoutInv, NEW c \in Presses, Ordered(c) PROVE CheckoutInv'
<1> DEFINE run == coRun[c]
           item == run.items[run.at]
           used == PointUsed(run, Price[item.title] * item.quantity)
           after == [run EXCEPT !.step = "payment", !.ordered[item.title] = run.sent, !.sent = item.quantity,
                                !.points = @ + used, !.remaining = LeftOver(run, used)]
<1>1. /\ run.step = "order" /\ coRun' = [coRun EXCEPT ![c] = after]
      /\ UNCHANGED <<coUser, coCart, coOpen, coItems, coPanel>>
  BY DEF Ordered
<1>2. Sound(run) /\ DOMAIN run = RunFields
  BY DEF CheckoutInv, RunsInv, Sound
<1> HIDE DEF run, used
<1>3. /\ DOMAIN after = RunFields /\ after.step = "payment" /\ after.live = run.live
      /\ after.items = run.items /\ after.at = run.at /\ after.paid = run.paid
      /\ after.sent = run.items[run.at].quantity
      /\ after.ordered = [run.ordered EXCEPT ![run.items[run.at].title] = run.sent]
  BY <1>2 DEF RunFields
<1> HIDE DEF after, item
<1>4. Sound(after)
  BY <1>1, <1>2, <1>3, OrderedSound
<1>5. after.live = coRun[c].live
  BY <1>3 DEF run
<1> QED
  BY <1>1, <1>4, <1>5, RunGoesOn

LEMMA PaidOneKeeps ==
  ASSUME CheckoutInv, NEW c \in Presses, PaidOne(c) PROVE CheckoutInv'
<1> DEFINE run == coRun[c]
           paid == PaidRun(run)
           after == [paid EXCEPT !.step = "order", !.at = @ + 1, !.sent = run.items[run.at + 1].quantity]
<1>1. /\ run.step = "payment" /\ run.at < Len(run.items) /\ coRun' = [coRun EXCEPT ![c] = after]
      /\ UNCHANGED <<coUser, coCart, coOpen, coItems, coPanel>>
  BY DEF PaidOne
<1>2. Sound(run) /\ Paying(run)
  BY <1>1 DEF CheckoutInv, RunsInv, Paying
<1>3. run.items \in Seq(Item) /\ run.at \in DOMAIN run.items /\ run.live \in BOOLEAN
  BY <1>2 DEF Sound
<1>4. run.at + 1 \in DOMAIN run.items
  BY <1>1, <1>3, LenProperties
<1> HIDE DEF run
<1>5. /\ DOMAIN paid = RunFields /\ paid.ordered = run.ordered /\ paid.items = run.items /\ paid.at = run.at
      /\ paid.live = run.live
  BY <1>1, <1>2, PaidFacts
<1> HIDE DEF paid
<1>6. /\ DOMAIN after = RunFields /\ after.step = "order" /\ after.live = run.live
      /\ after.ordered = run.ordered /\ after.paid = paid.paid /\ after.items = run.items
      /\ after.at = run.at + 1 /\ after.sent = run.items[after.at].quantity
  BY <1>5 DEF RunFields
<1> HIDE DEF after
<1>7. Sound(after)
  BY <1>1, <1>2, <1>3, <1>4, <1>6, PaidSound DEF paid
<1>8. after.live = coRun[c].live
  BY <1>6 DEF run
<1> QED
  BY <1>1, <1>7, <1>8, RunGoesOn

LEMMA PaidAllKeeps ==
  ASSUME CheckoutInv, NEW c \in Presses, PaidAll(c) PROVE CheckoutInv'
<1> DEFINE run == coRun[c]
           paid == PaidRun(run)
           done == [paid EXCEPT !.step = "done"]
           after == [done EXCEPT !.live = FALSE]
           runs == [coRun EXCEPT ![c] = done]
<1>1. /\ run.step = "payment" /\ coRun' = Unmounted(runs) /\ coCart' = Nothing /\ Unmount
  BY DEF PaidAll
<1>2. Sound(run) /\ DOMAIN coRun = Presses
  BY DEF CheckoutInv, RunsInv
<1>3. runs[c] = done /\ \A b \in Presses : b # c => runs[b] = coRun[b]
  BY <1>2
<1>4. coRun'[c] = after
  BY <1>1, <1>3 DEF Unmounted
<1>5. \A b \in Presses : b # c => coRun'[b] = [coRun[b] EXCEPT !.live = FALSE]
  BY <1>1, <1>3 DEF Unmounted
<1>6. DOMAIN coRun' = Presses
  BY <1>1 DEF Unmounted
<1> HIDE DEF run, runs
<1>7. DOMAIN paid = RunFields /\ paid.ordered = run.ordered /\ paid.items = run.items
  BY <1>1, <1>2, PaidFacts
<1> HIDE DEF paid
<1>8. /\ DOMAIN after = RunFields /\ after.step = "done" /\ after.live = FALSE
      /\ after.ordered = run.ordered /\ after.paid = paid.paid /\ after.items = run.items
  BY <1>7 DEF RunFields
<1> HIDE DEF after, done
<1>9. Sound(after)
  BY <1>1, <1>2, <1>8, PaidSound DEF paid
<1>10. ASSUME NEW b \in Presses PROVE Sound(coRun'[b]) /\ ~(coRun'[b]).live
  <2>1. CASE b = c
    BY <1>4, <1>8, <1>9, <2>1
  <2>2. CASE b # c
    <3> DEFINE other == coRun[b]
    <3>1. Sound(other) /\ coRun'[b] = [other EXCEPT !.live = FALSE]
      BY <1>5, <2>2 DEF CheckoutInv, RunsInv
    <3> HIDE DEF other
    <3> QED
      BY <3>1, UnmountedSound
  <2> QED
    BY <2>1, <2>2
<1>11. RunsInv' /\ PageInv'
  BY <1>1, <1>6, <1>10, PageUnmounted DEF RunsInv
<1> QED
  BY <1>1, <1>11, CartUnmounted DEF CheckoutInv

LEMMA CaughtKeeps ==
  ASSUME CheckoutInv, NEW c \in Presses, Caught(c) PROVE CheckoutInv'
<1>1. PICK served \in BOOLEAN : coRun' = [coRun EXCEPT ![c] = Ended(@, served)]
  BY DEF Caught
<1>2. /\ coPanel' = [coPanel EXCEPT !.loading = IF coRun[c].live THEN FALSE ELSE @]
      /\ UNCHANGED <<coUser, coCart, coOpen, coItems>>
  BY DEF Caught, Finally
<1>3. DOMAIN coRun = Presses /\ DOMAIN coRun' = Presses
  BY <1>1 DEF CheckoutInv, RunsInv
<1>4. coRun'[c] = Ended(coRun[c], served) /\ \A b \in Presses : b # c => coRun'[b] = coRun[b]
  BY <1>1, <1>3
<1>5. Sound(coRun'[c]) /\ ~(coRun'[c]).live
  BY <1>4, EndedSound DEF CheckoutInv, RunsInv
<1>6. RunsInv'
  BY <1>3, <1>4, <1>5 DEF CheckoutInv, RunsInv
<1>7. /\ DOMAIN coPanel' = PanelFields
      /\ (coPanel').shown = coPanel.shown
      /\ (coPanel').loading = IF coRun[c].live THEN FALSE ELSE coPanel.loading
  BY <1>2 DEF CheckoutInv, PageInv, PanelFields
<1>8. PageInv'
  <2>1. (coPanel').loading \in BOOLEAN /\ (coPanel').shown \in BOOLEAN
    BY <1>7 DEF CheckoutInv, PageInv
  <2>2. (coPanel').loading <=> \E b \in Presses : (coRun'[b]).live
    <3>1. CASE coRun[c].live
      <4>1. \A b \in Presses : ~(coRun'[b]).live
        BY <1>4, <1>5, <3>1 DEF CheckoutInv, PageInv
      <4> QED
        BY <1>7, <3>1, <4>1
    <3>2. CASE ~coRun[c].live
      <4>1. (\E b \in Presses : (coRun'[b]).live) <=> \E b \in Presses : coRun[b].live
        BY <1>4, <1>5, <3>2
      <4> QED
        BY <1>7, <3>2, <4>1 DEF CheckoutInv, PageInv
    <3> QED
      BY <3>1, <3>2
  <2>3. \A a, b \in Presses : (coRun'[a]).live /\ (coRun'[b]).live => a = b
    BY <1>4, <1>5 DEF CheckoutInv, PageInv
  <2>4. ~coOpen' => coPanel' = FreshPanel
    <3> SUFFICES ASSUME ~coOpen PROVE coPanel' = FreshPanel
      BY <1>2
    <3>1. coPanel = FreshPanel /\ ~coPanel.loading
      BY PanelFacts DEF CheckoutInv, PageInv
    <3>2. ~coRun[c].live
      BY <3>1 DEF CheckoutInv, PageInv
    <3> QED
      BY <1>2, <3>1, <3>2 DEF FreshPanel
  <2>5. (coPanel').shown => coUser' # Nothing
    BY <1>2, <1>7 DEF CheckoutInv, PageInv
  <2> QED
    BY <1>7, <2>1, <2>2, <2>3, <2>4, <2>5 DEF PageInv
<1>9. CartInv'
  BY <1>2 DEF CheckoutInv, CartInv, StoredCart
<1> QED
  BY <1>6, <1>8, <1>9 DEF CheckoutInv

-----------------------------------------------------------------------------

LEMMA CheckoutInitially ==
  ASSUME CheckoutInit PROVE CheckoutInv
<1>1. CartInv
  BY EmptySeq DEF CheckoutInit, CartInv
<1>2. RunsInv
  BY NoRunSound DEF CheckoutInit, RunsInv
<1>3. \A c \in Presses : ~coRun[c].live
  BY NoRunSound DEF CheckoutInit
<1>4. PageInv
  BY <1>3, PanelFacts DEF CheckoutInit, PageInv
<1> QED
  BY <1>1, <1>2, <1>4 DEF CheckoutInv

LEMMA CheckoutKept ==
  ASSUME CheckoutInv, [CheckoutNext]_coVars PROVE CheckoutInv'
<1>1. ASSUME NEW t \in Titles, AddOne(t) \/ \E q \in 1..MaxUnits : AddFromForm(t, q) PROVE CheckoutInv'
  <2>1. 1 \in 1..MaxUnits
    BY QuantityAssumption
  <2> QED
    BY <1>1, <2>1, PutInCartKeeps DEF AddOne, AddFromForm
<1>2. CASE SubmitOrderForm
  <2>1. CASE \E served \in SUBSET Presses : Reload(served)
    BY <1>2, <2>1, ReloadKeeps DEF SubmitOrderForm
  <2>2. CASE UNCHANGED <<coRun, coOpen, coItems, coPanel>>
    BY <1>2, <2>2 DEF SubmitOrderForm, CheckoutInv, CartInv, StoredCart, RunsInv, PageInv
  <2> QED
    BY <1>2, <2>1, <2>2 DEF SubmitOrderForm
<1>3. CASE OpenCart
  BY <1>3, OpenCartKeeps
<1>4. CASE LeaveCart
  BY <1>4, LeftKeeps DEF LeaveCart
<1>5. CASE ReloadTab
  BY <1>5, ReloadKeeps DEF ReloadTab
<1>6. CASE Login
  <2>1. ~coOpen /\ UNCHANGED <<coCart, coOpen, coItems, coPanel, coRun>>
    BY <1>6 DEF Login
  <2>2. ~coPanel.shown
    BY <2>1, PanelFacts DEF CheckoutInv, PageInv
  <2> QED
    BY <2>1, <2>2 DEF CheckoutInv, CartInv, StoredCart, RunsInv, PageInv
<1>7. CASE Logout
  BY <1>7, LeftKeeps DEF Logout
<1>8. CASE PageAnswered
  <2>1. /\ coOpen /\ UNCHANGED <<coUser, coCart, coOpen, coItems, coRun>>
        /\ LoadUserPoints \/ LoadUserCards
    BY <1>8 DEF PageAnswered
  <2>2. /\ DOMAIN coPanel' = PanelFields /\ (coPanel').loading = coPanel.loading
        /\ (coPanel').shown = coPanel.shown
    BY <2>1 DEF LoadUserPoints, LoadUserCards, CheckoutInv, PageInv, PanelFields
  <2> QED
    BY <2>1, <2>2, PanelKeeps
<1>9. CASE CartList
  BY <1>9, CartListKeeps
<1>10. CASE CartSummary
  BY <1>10, CartSummaryKeeps
<1>11. CASE HandlePayAnswered
  BY <1>11, OrderedKeeps, PaidOneKeeps, PaidAllKeeps, CaughtKeeps DEF HandlePayAnswered
<1>12. CASE UNCHANGED coVars
  BY <1>12 DEF coVars, CheckoutInv, CartInv, StoredCart, RunsInv, PageInv
<1> QED
  BY <1>1, <1>2, <1>3, <1>4, <1>5, <1>6, <1>7, <1>8, <1>9, <1>10, <1>11, <1>12 DEF CheckoutNext

(* Whatever answers come and whenever the tab is reloaded, a call of handlePay *)
(* leaves at most one order unpaid, and none when it announces success         *)
(* (Cart.js handlePay).                                                        *)
THEOREM AtMostOneUnpaid == CheckoutSpec => []OneUnpaidOrderAtMost
<1>1. CheckoutInv => OneUnpaidOrderAtMost
  <2> SUFFICES ASSUME CheckoutInv, NEW c \in Presses
               PROVE  /\ \A s, t \in Unpaid(coRun[c]) : s = t
                      /\ coRun[c].step = "done" => Unpaid(coRun[c]) = {}
                      /\ \A t \in Titles : coRun[c].paid[t] > 0 => coRun[c].ordered[t] > 0
    BY DEF OneUnpaidOrderAtMost, Unpaid
  <2>1. Sound(coRun[c])
    BY DEF CheckoutInv, RunsInv
  <2> QED
    BY <2>1 DEF Sound
<1> QED
  BY <1>1, CheckoutInitially, CheckoutKept, PTL DEF CheckoutSpec

(* The cart page lists what the session stores, its pay button is disabled    *)
(* exactly while a call pressed on it runs, and its panel is open only for a  *)
(* user (Cart.js loadCart, saveCart, handlePay).                              *)
THEOREM CartPageFaithful == CheckoutSpec => []CartPageAgrees
<1>1. CheckoutInv => CartPageAgrees
  BY PanelFacts DEF CheckoutInv, CartInv, PageInv, CartPageAgrees
<1> QED
  BY <1>1, CheckoutInitially, CheckoutKept, PTL DEF CheckoutSpec

-----------------------------------------------------------------------------
(* Totals.  TotalPrice, Units and Calls are folds.  A function of natural   *)
(* numbers has a cell <<x, k>> for every k from 1 to its value at x, and    *)
(* the fold over a finite domain is the number of cells.                    *)

Cells(f, s) == UNION {{x} \X (1..f[x]) : x \in s}

CountOf(f, s) == Cardinality(Cells(f, s))

(* What a fold chooses: a function that sums every subset. *)
Sums(f, S, sum) ==
  sum = [s \in SUBSET S |-> IF s = {} THEN 0
           ELSE LET x == CHOOSE x \in s : TRUE IN sum[s \ {x}] + f[x]]

(* There is one such function, as a smallest set of two sums shows. *)
LEMMA SumsOnce ==
  ASSUME NEW f, NEW S, IsFiniteSet(S), NEW g, NEW h, Sums(f, S, g), Sums(f, S, h)
  PROVE  g[S] = h[S]
<1> SUFFICES ASSUME g[S] # h[S] PROVE FALSE
  OBVIOUS
<1> DEFINE Differ == {s \in SUBSET S : g[s] # h[s]}
<1>1. IsWellFoundedOn(StrictSubsetOrdering(S), SUBSET S)
  BY FS_StrictSubsetOrderingWellFounded, FS_FiniteSubsetsOfFinite
<1>2. Differ \subseteq SUBSET S /\ Differ # {}
  OBVIOUS
<1>3. PICK s \in Differ : \A u \in Differ : <<u, s>> \notin StrictSubsetOrdering(S)
  <2> HIDE DEF Differ
  <2> QED
    BY <1>1, <1>2, WFMin
<1>4. \A u \in SUBSET S : u \subseteq s /\ u # s => g[u] = h[u]
  BY <1>3 DEF StrictSubsetOrdering
<1>5. s # {}
  BY <1>3 DEF Sums
<1> DEFINE x == CHOOSE x \in s : TRUE
<1>6. x \in s
  BY <1>5
<1>7. g[s \ {x}] = h[s \ {x}]
  BY <1>3, <1>4, <1>6
<1>8. g[s] = g[s \ {x}] + f[x] /\ h[s] = h[s \ {x}] + f[x]
  BY <1>3, <1>5 DEF Sums
<1> QED
  BY <1>3, <1>7, <1>8

LEMMA CellsOfOne ==
  ASSUME NEW x, NEW n \in Nat
  PROVE  IsFiniteSet({x} \X (1..n)) /\ Cardinality({x} \X (1..n)) = n
<1>1. 1 \in Int /\ n \in Int
  OBVIOUS
<1>2. IsFiniteSet(1..n) /\ Cardinality(1..n) = n
  BY <1>1, FS_Interval
<1>3. IsFiniteSet({x}) /\ Cardinality({x}) = 1
  BY FS_Singleton
<1>4. IsFiniteSet({x} \X (1..n)) /\ Cardinality({x} \X (1..n)) = Cardinality({x}) * Cardinality(1..n)
  BY <1>2, <1>3, FS_Product
<1> QED
  BY <1>2, <1>3, <1>4

LEMMA CountNone ==
  ASSUME NEW f PROVE CountOf(f, {}) = 0
<1>1. Cells(f, {}) = {}
  BY DEF Cells
<1> QED
  BY <1>1, FS_EmptySet DEF CountOf

LEMMA CellsFinite ==
  ASSUME NEW s, IsFiniteSet(s), NEW f, \A x \in s : f[x] \in Nat
  PROVE  IsFiniteSet(Cells(f, s)) /\ CountOf(f, s) \in Nat
<1> DEFINE parts == {{x} \X (1..f[x]) : x \in s}
           part == [x \in s |-> {x} \X (1..f[x])]
<1>1. IsFiniteSet(parts)
  <2>1. part \in Surjection(s, parts)
    BY DEF Surjection
  <2> HIDE DEF part, parts
  <2> QED
    BY <2>1, FS_Surjection
<1>2. ASSUME NEW any \in parts PROVE IsFiniteSet(any)
  <2>1. PICK x \in s : any = {x} \X (1..f[x])
    OBVIOUS
  <2> QED
    BY <2>1, CellsOfOne
<1> HIDE DEF parts
<1>3. IsFiniteSet(UNION parts)
  BY <1>1, <1>2, FS_UNION
<1> QED
  BY <1>3, FS_CardinalityType DEF parts, Cells, CountOf

LEMMA CountAdded ==
  ASSUME NEW s, IsFiniteSet(s), NEW f, \A y \in s : f[y] \in Nat, NEW x, x \notin s, f[x] \in Nat
  PROVE  CountOf(f, s \cup {x}) = CountOf(f, s) + f[x]
<1> DEFINE more == {x} \X (1..f[x])
           before == Cells(f, s)
<1>1. Cells(f, s \cup {x}) = before \cup more
  BY DEF Cells
<1>2. before \cap more = {}
  BY DEF Cells
<1>3. IsFiniteSet(more) /\ Cardinality(more) = f[x]
  BY CellsOfOne
<1>4. IsFiniteSet(before) /\ CountOf(f, s) = Cardinality(before) /\ Cardinality(before) \in Nat
  BY CellsFinite DEF CountOf
<1> HIDE DEF more, before
<1>5. Cardinality(before \cup more) = Cardinality(before) + Cardinality(more) - Cardinality(before \cap more)
  BY <1>3, <1>4, FS_Union
<1>6. Cardinality(before \cap more) = 0
  BY <1>2, FS_EmptySet
<1>7. Cardinality(before \cup more) = Cardinality(before) + f[x]
  BY <1>3, <1>4, <1>5, <1>6
<1>8. CountOf(f, s \cup {x}) = Cardinality(before \cup more)
  BY <1>1 DEF CountOf
<1> QED
  BY <1>4, <1>7, <1>8

LEMMA CountBounds ==
  ASSUME NEW s, IsFiniteSet(s), NEW f, \A y \in s : f[y] \in Nat, NEW x \in s
  PROVE  f[x] <= CountOf(f, s)
<1> DEFINE rest == s \ {x}
<1>1. s = rest \cup {x} /\ x \notin rest /\ \A y \in rest : f[y] \in Nat
  OBVIOUS
<1>2. IsFiniteSet(rest)
  BY FS_Subset
<1> HIDE DEF rest
<1>3. CountOf(f, s) = CountOf(f, rest) + f[x]
  BY <1>1, <1>2, CountAdded
<1>4. CountOf(f, rest) \in Nat
  BY <1>1, <1>2, CellsFinite
<1> QED
  BY <1>3, <1>4

LEMMA CountSums ==
  ASSUME NEW S, IsFiniteSet(S), NEW f, \A y \in S : f[y] \in Nat
  PROVE  Sums(f, S, [s \in SUBSET S |-> CountOf(f, s)])
<1> DEFINE count == [s \in SUBSET S |-> CountOf(f, s)]
<1>1. ASSUME NEW s \in SUBSET S
      PROVE  CountOf(f, s) = IF s = {} THEN 0
                             ELSE LET x == CHOOSE x \in s : TRUE IN count[s \ {x}] + f[x]
  <2>1. CASE s = {}
    BY <2>1, CountNone
  <2>2. CASE s # {}
    <3> DEFINE x == CHOOSE x \in s : TRUE
               rest == s \ {x}
    <3>1. x \in s
      BY <2>2
    <3>2. count[rest] = CountOf(f, rest) /\ IsFiniteSet(rest)
      BY FS_Subset
    <3>3. s = rest \cup {x} /\ x \notin rest /\ (\A y \in rest : f[y] \in Nat) /\ f[x] \in Nat
      BY <3>1
    <3> HIDE DEF rest, x, count
    <3>4. CountOf(f, s) = CountOf(f, rest) + f[x]
      BY <3>2, <3>3, CountAdded
    <3> QED
      BY <2>2, <3>2, <3>4 DEF rest, x
  <2> QED
    BY <2>1, <2>2
<1>2. count = [s \in SUBSET S |-> IF s = {} THEN 0
                 ELSE LET x == CHOOSE x \in s : TRUE IN count[s \ {x}] + f[x]]
  BY <1>1
<1> HIDE DEF count
<1>3. Sums(f, S, count)
  BY <1>2 DEF Sums
<1> QED
  BY <1>3 DEF count

LEMMA SumsCount ==
  ASSUME NEW S, IsFiniteSet(S), NEW f, \A y \in S : f[y] \in Nat, NEW sum, Sums(f, S, sum)
  PROVE  sum[S] = CountOf(f, S)
<1> DEFINE count == [s \in SUBSET S |-> CountOf(f, s)]
<1>1. Sums(f, S, count) /\ count[S] = CountOf(f, S)
  BY CountSums
<1> HIDE DEF count
<1> QED
  BY <1>1, SumsOnce

Worth(items) == [i \in DOMAIN items |-> Price[items[i].title] * items[i].quantity]
Quantities(items) == [i \in DOMAIN items |-> items[i].quantity]

TotalPriceSums(items, sum) ==
  sum = [s \in SUBSET DOMAIN items |-> IF s = {} THEN 0
           ELSE LET x == CHOOSE x \in s : TRUE IN sum[s \ {x}] + Price[items[x].title] * items[x].quantity]

(* Each of the three folds, as it is expanded, is such a sum. *)
LEMMA TotalPriceChooses ==
  ASSUME NEW items
  PROVE  TotalPrice(items) = (CHOOSE sum : TotalPriceSums(items, sum))[DOMAIN items]
BY DEF TotalPrice, FoldSeq, FoldFunction, FoldFunctionOnSet, MapThenFoldSet, TotalPriceSums

LEMMA TotalPriceCounts ==
  ASSUME NEW items, IsFiniteSet(DOMAIN items), \A i \in DOMAIN items : Worth(items)[i] \in Nat
  PROVE  TotalPrice(items) = CountOf(Worth(items), DOMAIN items)
<1> DEFINE S == DOMAIN items
           f == Worth(items)
           count == [s \in SUBSET S |-> CountOf(f, s)]
           sum == CHOOSE sum : TotalPriceSums(items, sum)
<1>1. \A i \in S : f[i] = Price[items[i].title] * items[i].quantity
  BY DEF Worth
<1>2. \A any : TotalPriceSums(items, any) <=> Sums(f, S, any)
  <2> HIDE DEF f
  <2>1. ASSUME NEW any
        PROVE  [s \in SUBSET S |-> IF s = {} THEN 0
                  ELSE LET x == CHOOSE x \in s : TRUE IN any[s \ {x}] + Price[items[x].title] * items[x].quantity]
               = [s \in SUBSET S |-> IF s = {} THEN 0
                  ELSE LET x == CHOOSE x \in s : TRUE IN any[s \ {x}] + f[x]]
    BY <1>1
  <2> QED
    BY <2>1 DEF TotalPriceSums, Sums
<1>3. Sums(f, S, count)
  BY CountSums
<1>4. TotalPriceSums(items, sum)
  <2> HIDE DEF count
  <2> QED
    BY <1>2, <1>3
<1> HIDE DEF sum, f
<1>5. sum[S] = CountOf(f, S)
  BY <1>2, <1>4, SumsCount DEF f
<1> QED
  BY <1>5, TotalPriceChooses DEF sum, f

UnitsSums(items, sum) ==
  sum = [s \in SUBSET DOMAIN items |-> IF s = {} THEN 0
           ELSE LET x == CHOOSE x \in s : TRUE IN sum[s \ {x}] + items[x].quantity]

LEMMA UnitsChooses ==
  ASSUME NEW items
  PROVE  Units(items) = (CHOOSE sum : UnitsSums(items, sum))[DOMAIN items]
BY DEF Units, FoldSeq, FoldFunction, FoldFunctionOnSet, MapThenFoldSet, UnitsSums

LEMMA UnitsCount ==
  ASSUME NEW items, IsFiniteSet(DOMAIN items), \A i \in DOMAIN items : Quantities(items)[i] \in Nat
  PROVE  Units(items) = CountOf(Quantities(items), DOMAIN items)
<1> DEFINE S == DOMAIN items
           f == Quantities(items)
           count == [s \in SUBSET S |-> CountOf(f, s)]
           sum == CHOOSE sum : UnitsSums(items, sum)
<1>1. \A i \in S : f[i] = items[i].quantity
  BY DEF Quantities
<1>2. \A any : UnitsSums(items, any) <=> Sums(f, S, any)
  <2> HIDE DEF f
  <2>1. ASSUME NEW any
        PROVE  [s \in SUBSET S |-> IF s = {} THEN 0
                  ELSE LET x == CHOOSE x \in s : TRUE IN any[s \ {x}] + items[x].quantity]
               = [s \in SUBSET S |-> IF s = {} THEN 0
                  ELSE LET x == CHOOSE x \in s : TRUE IN any[s \ {x}] + f[x]]
    BY <1>1
  <2> QED
    BY <2>1 DEF UnitsSums, Sums
<1>3. Sums(f, S, count)
  BY CountSums
<1>4. UnitsSums(items, sum)
  <2> HIDE DEF count
  <2> QED
    BY <1>2, <1>3
<1> HIDE DEF sum, f
<1>5. sum[S] = CountOf(f, S)
  BY <1>2, <1>4, SumsCount DEF f
<1> QED
  BY <1>5, UnitsChooses DEF sum, f

CallsOf(runs) == [c \in DOMAIN runs |-> runs[c].calls]

CallsSums(runs, sum) ==
  sum = [s \in SUBSET DOMAIN runs |-> IF s = {} THEN 0
           ELSE LET x == CHOOSE x \in s : TRUE IN sum[s \ {x}] + runs[x].calls]

LEMMA CallsChooses ==
  Calls = (CHOOSE sum : CallsSums(coRun, sum))[DOMAIN coRun]
BY DEF Calls, FoldFunction, FoldFunctionOnSet, MapThenFoldSet, CallsSums

LEMMA CallsCount ==
  ASSUME IsFiniteSet(DOMAIN coRun), \A i \in DOMAIN coRun : CallsOf(coRun)[i] \in Nat
  PROVE  Calls = CountOf(CallsOf(coRun), DOMAIN coRun)
<1> DEFINE S == DOMAIN coRun
           f == CallsOf(coRun)
           count == [s \in SUBSET S |-> CountOf(f, s)]
           sum == CHOOSE sum : CallsSums(coRun, sum)
<1>1. \A i \in S : f[i] = coRun[i].calls
  BY DEF CallsOf
<1>2. \A any : CallsSums(coRun, any) <=> Sums(f, S, any)
  <2> HIDE DEF f
  <2>1. ASSUME NEW any
        PROVE  [s \in SUBSET S |-> IF s = {} THEN 0
                  ELSE LET x == CHOOSE x \in s : TRUE IN any[s \ {x}] + coRun[x].calls]
               = [s \in SUBSET S |-> IF s = {} THEN 0
                  ELSE LET x == CHOOSE x \in s : TRUE IN any[s \ {x}] + f[x]]
    BY <1>1
  <2> QED
    BY <2>1 DEF CallsSums, Sums
<1>3. Sums(f, S, count)
  BY CountSums
<1>4. CallsSums(coRun, sum)
  <2> HIDE DEF count
  <2> QED
    BY <1>2, <1>3
<1> HIDE DEF sum, f
<1>5. sum[S] = CountOf(f, S)
  BY <1>2, <1>4, SumsCount DEF f
<1> QED
  BY <1>5, CallsChooses DEF sum, f
-----------------------------------------------------------------------------
(* What is in a cart, and what it is worth *)

OneOfEach(items) == \A i, j \in DOMAIN items : items[i].title = items[j].title => i = j

IsCart(items) == items \in Seq(CartItem) /\ OneOfEach(items)

(* What the first items of a cart are worth. *)
WorthOf(items, k) == CountOf(Worth(items), 1..k)

LEMMA ItemFacts ==
  ASSUME NEW items \in Seq(Item)
  PROVE  /\ DOMAIN items = 1..Len(items) /\ Len(items) \in Nat /\ IsFiniteSet(DOMAIN items)
         /\ \A i \in DOMAIN items : /\ items[i] \in Item /\ items[i].title \in Titles
                                    /\ items[i].quantity \in Nat \ {0}
                                    /\ Worth(items)[i] = Price[items[i].title] * items[i].quantity
                                    /\ Worth(items)[i] \in Nat
                                    /\ Quantities(items)[i] = items[i].quantity
<1>1. DOMAIN items = 1..Len(items) /\ Len(items) \in Nat
  BY LenProperties
<1>2. IsFiniteSet(DOMAIN items)
  <2>1. 1 \in Int /\ Len(items) \in Int
    BY <1>1
  <2>2. IsFiniteSet(1..Len(items))
    BY <2>1, FS_Interval
  <2> QED
    BY <1>1, <2>2
<1>3. ASSUME NEW i \in DOMAIN items
      PROVE  /\ items[i] \in Item /\ items[i].title \in Titles
             /\ items[i].quantity \in Nat \ {0}
             /\ Worth(items)[i] = Price[items[i].title] * items[i].quantity
             /\ Worth(items)[i] \in Nat
             /\ Quantities(items)[i] = items[i].quantity
  <2>1. items[i] \in Item
    BY <1>1, ElementOfSeq
  <2>2. items[i].title \in Titles /\ items[i].quantity \in Nat \ {0}
    BY <2>1 DEF Item
  <2>3. Price[items[i].title] \in Nat
    BY <2>2, PriceAssumption
  <2>4. Price[items[i].title] * items[i].quantity \in Nat
    BY <2>2, <2>3
  <2> QED
    BY <2>1, <2>2, <2>4 DEF Worth, Quantities
<1> QED
  BY <1>1, <1>2, <1>3

LEMMA UnitsBound ==
  ASSUME NEW items \in Seq(Item)
  PROVE  /\ Units(items) \in Nat
         /\ \A i \in DOMAIN items : items[i].quantity <= Units(items)
<1> DEFINE S == DOMAIN items
           f == Quantities(items)
<1>1. IsFiniteSet(S) /\ \A i \in S : f[i] = items[i].quantity /\ f[i] \in Nat
  BY ItemFacts
<1>2. Units(items) = CountOf(f, S)
  BY <1>1, UnitsCount
<1> HIDE DEF f, S
<1>3. CountOf(f, S) \in Nat
  BY <1>1, CellsFinite
<1>4. \A i \in S : f[i] <= CountOf(f, S)
  BY <1>1, CountBounds
<1>5. \A i \in S : items[i].quantity <= Units(items)
  BY <1>1, <1>2, <1>4
<1> QED
  BY <1>2, <1>3, <1>5 DEF S

LEMMA WorthNone == \A items : WorthOf(items, 0) = 0
<1> SUFFICES ASSUME NEW items PROVE WorthOf(items, 0) = 0
  OBVIOUS
<1>1. 1..0 = {}
  OBVIOUS
<1> QED
  BY <1>1, CountNone DEF WorthOf

LEMMA WorthNat ==
  ASSUME NEW items \in Seq(Item), NEW k \in 0..Len(items)
  PROVE  IsFiniteSet(1..k) /\ (\A i \in 1..k : Worth(items)[i] \in Nat) /\ WorthOf(items, k) \in Nat
<1>1. \A i \in 1..k : Worth(items)[i] \in Nat
  BY ItemFacts
<1>2. 1 \in Int /\ k \in Int
  OBVIOUS
<1>3. IsFiniteSet(1..k)
  BY <1>2, FS_Interval
<1> QED
  BY <1>1, <1>3, CellsFinite DEF WorthOf

LEMMA WorthGrows ==
  ASSUME NEW items \in Seq(Item), NEW k \in DOMAIN items
  PROVE  WorthOf(items, k) = WorthOf(items, k - 1) + Price[items[k].title] * items[k].quantity
<1>1. DOMAIN items = 1..Len(items) /\ Len(items) \in Nat /\ k \in 1..Len(items)
  BY ItemFacts
<1> DEFINE s == 1..(k - 1)
           f == Worth(items)
<1>2. k - 1 \in 0..Len(items)
  BY <1>1
<1>3. IsFiniteSet(s) /\ \A i \in s : f[i] \in Nat
  BY <1>2, WorthNat
<1>4. k \notin s /\ 1..k = s \cup {k}
  BY <1>1
<1>5. f[k] = Price[items[k].title] * items[k].quantity /\ f[k] \in Nat
  BY ItemFacts
<1> HIDE DEF s, f
<1>6. CountOf(f, s \cup {k}) = CountOf(f, s) + f[k]
  BY <1>3, <1>4, <1>5, CountAdded
<1>7. WorthOf(items, k) = CountOf(f, s \cup {k})
  BY <1>4 DEF WorthOf, f
<1>8. WorthOf(items, k - 1) = CountOf(f, s)
  BY DEF WorthOf, f, s
<1> QED
  BY <1>5, <1>6, <1>7, <1>8

LEMMA TotalIsWorth ==
  ASSUME NEW items \in Seq(Item)
  PROVE  TotalPrice(items) = WorthOf(items, Len(items)) /\ TotalPrice(items) \in Nat
<1>1. /\ DOMAIN items = 1..Len(items) /\ Len(items) \in Nat /\ IsFiniteSet(DOMAIN items)
      /\ \A i \in DOMAIN items : Worth(items)[i] \in Nat
  BY ItemFacts
<1>2. TotalPrice(items) = CountOf(Worth(items), DOMAIN items)
  BY <1>1, TotalPriceCounts
<1>3. TotalPrice(items) = WorthOf(items, Len(items))
  BY <1>1, <1>2 DEF WorthOf
<1>4. Len(items) \in 0..Len(items)
  BY <1>1
<1> QED
  BY <1>3, <1>4, WorthNat

LEMMA CartItemIsItem == CartItem \subseteq Item /\ Seq(CartItem) \subseteq Seq(Item)
<1>1. 1..MaxUnits \subseteq Nat \ {0}
  BY QuantityAssumption
<1>2. CartItem \subseteq Item
  BY <1>1 DEF CartItem, Item
<1> QED
  BY <1>2, SeqMonotonic

LEMMA BoundedIsCart ==
  ASSUME NEW items \in Seq(Item), \A i \in DOMAIN items : items[i].quantity <= MaxUnits
  PROVE  items \in Seq(CartItem)
<1>1. DOMAIN items = 1..Len(items) /\ Len(items) \in Nat
  BY ItemFacts
<1>2. ASSUME NEW i \in 1..Len(items) PROVE items[i] \in CartItem
  <2>1. items[i] \in Item /\ items[i].quantity <= MaxUnits
    BY <1>1, ItemFacts
  <2>2. items[i].quantity \in 1..MaxUnits
    BY <2>1, QuantityAssumption DEF Item
  <2> QED
    BY <2>1, <2>2 DEF Item, CartItem
<1> QED
  BY <1>1, <1>2, LenProperties, SeqDef

LEMMA WithinUnits ==
  ASSUME NEW items \in Seq(Item), Units(items) <= MaxUnits
  PROVE  items \in Seq(CartItem)
<1>1. \A i \in DOMAIN items : items[i].quantity <= MaxUnits
  <2> SUFFICES ASSUME NEW i \in DOMAIN items PROVE items[i].quantity <= MaxUnits
    OBVIOUS
  <2>1. items[i].quantity <= Units(items) /\ Units(items) \in Nat /\ items[i].quantity \in Nat
    BY UnitsBound, ItemFacts
  <2> QED
    BY <2>1, QuantityAssumption
<1> QED
  BY <1>1, BoundedIsCart

LEMMA NoItems == IsCart(<<>>)
<1>1. <<>> \in Seq(CartItem) /\ DOMAIN <<>> = {}
  BY EmptySeq
<1> QED
  BY <1>1 DEF IsCart, OneOfEach

LEMMA CartSet ==
  ASSUME NEW items, items \in Seq(CartItem), NEW t, NEW q \in 1..MaxUnits
  PROVE  /\ SetQuantity(items, t, q) \in Seq(CartItem)
         /\ OneOfEach(items) => OneOfEach(SetQuantity(items, t, q))
<1> DEFINE mapped == SetQuantity(items, t, q)
<1>1. items \in Seq(Item) /\ q \in Nat \ {0}
  BY CartItemIsItem
<1>2. /\ mapped \in Seq(Item) /\ DOMAIN mapped = DOMAIN items
      /\ \A i \in DOMAIN items : mapped[i].title = items[i].title
  BY <1>1, SetQuantityIsCart
<1>3. ASSUME NEW i \in DOMAIN items PROVE mapped[i].quantity <= MaxUnits
  <2>1. items[i] \in CartItem
    BY LenProperties, ElementOfSeq
  <2>2. mapped[i] = IF items[i].title = t THEN [items[i] EXCEPT !.quantity = q] ELSE items[i]
    BY DEF SetQuantity
  <2> QED
    BY <2>1, <2>2, QuantityAssumption DEF CartItem
<1> HIDE DEF mapped
<1>4. mapped \in Seq(CartItem)
  BY <1>2, <1>3, BoundedIsCart
<1>5. OneOfEach(items) => OneOfEach(mapped)
  BY <1>2 DEF OneOfEach
<1> QED
  BY <1>4, <1>5 DEF mapped

LEMMA CartAdded ==
  ASSUME NEW cart, IsCart(cart), NEW t \in Titles, NEW q \in 1..MaxUnits, Units(cart) + q <= MaxUnits
  PROVE  IsCart(Added(cart, t, q))
<1> DEFINE mapped == [i \in DOMAIN cart |-> IF cart[i].title = t THEN [cart[i] EXCEPT !.quantity = @ + q] ELSE cart[i]]
           item == [title |-> t, quantity |-> q]
<1>1. cart \in Seq(CartItem) /\ cart \in Seq(Item) /\ OneOfEach(cart) /\ q \in Nat \ {0}
  BY CartItemIsItem DEF IsCart
<1>2. DOMAIN cart = 1..Len(cart) /\ Len(cart) \in Nat
  BY <1>1, ItemFacts
<1>3. CASE t \in TitlesOf(cart)
  <2>1. Added(cart, t, q) = mapped /\ mapped \in Seq(Item)
    BY <1>1, <1>3, AddedIsCart DEF Added
  <2>2. DOMAIN mapped = DOMAIN cart
    OBVIOUS
  <2>3. ASSUME NEW i \in DOMAIN cart PROVE mapped[i].quantity <= MaxUnits /\ mapped[i].title = cart[i].title
    <3>1. cart[i] \in CartItem
      BY <1>1, <1>2, ElementOfSeq
    <3>2. mapped[i] = IF cart[i].title = t THEN [cart[i] EXCEPT !.quantity = cart[i].quantity + q] ELSE cart[i]
      OBVIOUS
    <3>3. cart[i].quantity <= Units(cart) /\ Units(cart) \in Nat
      BY <1>1, UnitsBound
    <3>4. cart[i].quantity \in 1..MaxUnits
      BY <3>1 DEF CartItem
    <3>5. cart[i].quantity + q <= MaxUnits
      BY <3>3, <3>4, QuantityAssumption
    <3> HIDE DEF mapped
    <3> QED
      BY <3>1, <3>2, <3>4, <3>5, QuantityAssumption DEF CartItem
  <2> HIDE DEF mapped
  <2>4. mapped \in Seq(CartItem)
    BY <2>1, <2>2, <2>3, BoundedIsCart
  <2>5. OneOfEach(mapped)
    BY <1>1, <2>2, <2>3 DEF OneOfEach
  <2> QED
    BY <2>1, <2>4, <2>5 DEF IsCart
<1>4. CASE t \notin TitlesOf(cart)
  <2> DEFINE longer == Append(cart, item)
  <2>1. Added(cart, t, q) = longer
    BY <1>4 DEF Added
  <2>2. item \in CartItem /\ item.title = t
    BY DEF CartItem
  <2> HIDE DEF item
  <2>3. /\ longer \in Seq(CartItem) /\ Len(longer) = Len(cart) + 1
        /\ \A i \in 1..Len(cart) : longer[i] = cart[i]
        /\ longer[Len(cart) + 1] = item
    BY <1>1, <2>2, AppendProperties
  <2>4. DOMAIN longer = 1..(Len(cart) + 1)
    BY <2>3, LenProperties
  <2> HIDE DEF longer
  <2>5. \A i \in 1..Len(cart) : cart[i].title # t
    BY <1>2, <1>4 DEF TitlesOf
  <2>6. ASSUME NEW i \in DOMAIN longer, NEW j \in DOMAIN longer, longer[i].title = longer[j].title PROVE i = j
    <3>1. CASE i = Len(cart) + 1
      BY <1>2, <2>2, <2>3, <2>4, <2>5, <2>6, <3>1
    <3>2. CASE j = Len(cart) + 1
      BY <1>2, <2>2, <2>3, <2>4, <2>5, <2>6, <3>2
    <3>3. CASE i # Len(cart) + 1 /\ j # Len(cart) + 1
      BY <1>1, <1>2, <2>3, <2>4, <2>6, <3>3 DEF OneOfEach
    <3> QED
      BY <3>1, <3>2, <3>3
  <2> QED
    BY <2>1, <2>3, <2>6 DEF IsCart, OneOfEach
<1> QED
  BY <1>3, <1>4

LEMMA CartRemoved ==
  ASSUME NEW items, IsCart(items), NEW i \in DOMAIN items
  PROVE  IsCart(RemoveAt(items, i))
<1> DEFINE n == Len(items)
           before == SubSeq(items, 1, i - 1)
           behind == SubSeq(items, i + 1, n)
           rest == before \o behind
<1>1. items \in Seq(CartItem) /\ OneOfEach(items)
  BY DEF IsCart
<1>2. DOMAIN items = 1..n /\ n \in Nat /\ i \in 1..n
  BY <1>1, LenProperties
<1>3. \A j \in 1..n : items[j] \in CartItem
  BY <1>1, ElementOfSeq
<1>4. /\ before \in Seq(CartItem) /\ Len(before) = i - 1
      /\ \A j \in 1..(i - 1) : before[j] = items[j]
  <2>1. \A j \in 1..(i - 1) : items[j] \in CartItem
    BY <1>2, <1>3
  <2>2. 1 \in Int /\ i - 1 \in Int /\ 1 <= (i - 1) + 1
    BY <1>2
  <2>3. /\ before \in Seq(CartItem)
        /\ Len(before) = IF 1 <= i - 1 THEN (i - 1) - 1 + 1 ELSE 0
        /\ \A j \in 1..((i - 1) - 1 + 1) : before[j] = items[1 + j - 1]
    BY <2>1, <2>2, SubSeqProperties
  <2> HIDE DEF before
  <2> QED
    BY <1>2, <2>3
<1>5. /\ behind \in Seq(CartItem) /\ Len(behind) = n - i
      /\ \A j \in 1..(n - i) : behind[j] = items[j + i]
  <2>1. \A j \in (i + 1)..n : items[j] \in CartItem
    BY <1>2, <1>3
  <2>2. i + 1 \in Int /\ n \in Int
    BY <1>2
  <2>3. /\ behind \in Seq(CartItem)
        /\ Len(behind) = IF i + 1 <= n THEN n - (i + 1) + 1 ELSE 0
        /\ \A j \in 1..(n - (i + 1) + 1) : behind[j] = items[(i + 1) + j - 1]
    BY <2>1, <2>2, SubSeqProperties
  <2> HIDE DEF behind, n
  <2>4. ASSUME NEW j \in 1..(n - i) PROVE behind[j] = items[j + i]
    <3>1. j \in 1..(n - (i + 1) + 1) /\ (i + 1) + j - 1 = j + i
      BY <1>2
    <3>2. behind[j] = items[(i + 1) + j - 1]
      BY <2>3, <3>1
    <3> QED
      BY <3>1, <3>2
  <2>5. Len(behind) = n - i
    BY <1>2, <2>3
  <2> QED
    BY <2>3, <2>4, <2>5
<1>6. RemoveAt(items, i) = rest
  BY DEF RemoveAt
<1> HIDE DEF before, behind, n
<1>7. /\ rest \in Seq(CartItem) /\ Len(rest) = Len(before) + Len(behind)
      /\ \A j \in 1..(Len(before) + Len(behind)) :
           rest[j] = IF j <= Len(before) THEN before[j] ELSE behind[j - Len(before)]
  BY <1>4, <1>5, ConcatProperties
<1>8. DOMAIN rest = 1..Len(rest)
  BY <1>7, LenProperties
<1> HIDE DEF rest
<1>9. DOMAIN rest = 1..(n - 1)
  BY <1>2, <1>4, <1>5, <1>7, <1>8
<1>10. \A j \in 1..(n - 1) : rest[j] = items[IF j < i THEN j ELSE j + 1]
  <2> SUFFICES ASSUME NEW j \in 1..(n - 1) PROVE rest[j] = items[IF j < i THEN j ELSE j + 1]
    OBVIOUS
  <2>1. CASE j < i
    <3>1. j \in 1..(Len(before) + Len(behind)) /\ j <= Len(before) /\ j \in 1..(i - 1)
      BY <1>2, <1>4, <1>5, <2>1
    <3> QED
      BY <1>4, <1>7, <2>1, <3>1
  <2>2. CASE ~(j < i)
    <3>1. /\ j \in 1..(Len(before) + Len(behind)) /\ ~(j <= Len(before))
          /\ j - Len(before) = (j - i) + 1
      BY <1>2, <1>4, <1>5, <2>2
    <3>2. rest[j] = behind[(j - i) + 1]
      BY <1>7, <3>1
    <3>3. (j - i) + 1 \in 1..(n - i) /\ ((j - i) + 1) + i = j + 1
      BY <1>2, <2>2
    <3>4. behind[(j - i) + 1] = items[j + 1]
      BY <1>5, <3>3
    <3> QED
      BY <2>2, <3>2, <3>4
  <2> QED
    BY <2>1, <2>2
<1>11. OneOfEach(rest)
  <2> SUFFICES ASSUME NEW j \in 1..(n - 1), NEW k \in 1..(n - 1), rest[j].title = rest[k].title
               PROVE  j = k
    BY <1>9 DEF OneOfEach
  <2> DEFINE jj == IF j < i THEN j ELSE j + 1
             kk == IF k < i THEN k ELSE k + 1
  <2>1. rest[j] = items[jj] /\ rest[k] = items[kk]
    BY <1>10
  <2>2. jj \in 1..n /\ kk \in 1..n /\ (jj = kk => j = k)
    BY <1>2
  <2> HIDE DEF jj, kk
  <2>3. items[jj].title = items[kk].title
    BY <2>1
  <2> QED
    BY <1>1, <1>2, <2>2, <2>3 DEF OneOfEach
<1> QED
  BY <1>6, <1>7, <1>11 DEF IsCart

-----------------------------------------------------------------------------
(* What a call has paid and used by the time of each step *)

RunRecord ==
  [calls : 0..MaxCalls, step : {"idle", "order", "payment", "done", "ended"}, live : BOOLEAN,
   items : Seq(CartItem), at : Nat, method : {"POINT", "CARD"}, remaining : Int,
   entry : Int, sent : 0..MaxUnits, ordered : [Titles -> 0..MaxUnits],
   paid : [Titles -> 0..MaxUnits], points : Int, meddled : BOOLEAN]

(* With a card, points are asked for only while some of those set aside are left. *)
CardAddsUp(run) ==
  run.method = "CARD" => /\ run.points + run.remaining = run.entry /\ run.points >= 0
                         /\ run.points > 0 => run.remaining >= 0

(* The last item that is paid, and the last for which points were asked. *)
PaidTo(run) == IF run.step = "done" THEN run.at ELSE run.at - 1

UsedTo(run) == IF run.step = "order" THEN run.at - 1 ELSE run.at

BoughtSoFar(run) ==
  /\ \A i \in 1..PaidTo(run) : run.paid[run.items[i].title] = run.items[i].quantity
  /\ \A t \in Titles : run.paid[t] > 0 => \E i \in 1..PaidTo(run) : run.items[i].title = t
  /\ run.step = "payment" => run.ordered = [run.paid EXCEPT ![run.items[run.at].title] = run.items[run.at].quantity]
  /\ run.step # "payment" => run.ordered = run.paid
  /\ run.step # "done" => run.sent = run.items[run.at].quantity

(* By points, everything so far; with a card, everything so far unless the   *)
(* points set aside are used up.                                             *)
UsedSoFar(run) ==
  /\ run.method = "POINT" => /\ run.entry = TotalPrice(run.items)
                             /\ run.points = WorthOf(run.items, UsedTo(run))
  /\ run.method = "CARD" => /\ run.entry <= TotalPrice(run.items)
                            /\ run.remaining > 0 => run.points = WorthOf(run.items, UsedTo(run))

AsShown(run) ==
  /\ OneOfEach(run.items) /\ run.at \in DOMAIN run.items
  /\ run.step = "done" => run.at = Len(run.items)
  /\ BoughtSoFar(run) /\ UsedSoFar(run)

GoesWell(run) == run.step \in {"order", "payment", "done"}

Pays(run) ==
  /\ run \in RunRecord
  /\ CardAddsUp(run)
  /\ GoesWell(run) /\ ~run.meddled => AsShown(run)

LEMMA BoundsFacts ==
  0 \in 0..MaxCalls /\ 0 \in 0..MaxUnits /\ 1..MaxUnits \subseteq 0..MaxUnits
BY CallsAssumption, QuantityAssumption

LEMMA NoRunPays == Pays(NoRun)
<1>1. <<>> \in Seq(CartItem)
  BY EmptySeq
<1> DEFINE zero == 0
           none == [t \in Titles |-> zero]
<1>2. zero \in 0..MaxCalls /\ zero \in 0..MaxUnits /\ zero \in Nat /\ zero \in Int
  BY BoundsFacts
<1>3. none \in [Titles -> 0..MaxUnits]
  BY <1>2
<1>4. NoRun = [calls |-> zero, step |-> "idle", live |-> FALSE, items |-> <<>>, at |-> zero, method |-> "POINT",
               remaining |-> zero, entry |-> zero, sent |-> zero, ordered |-> none, paid |-> none,
               points |-> zero, meddled |-> FALSE]
  BY DEF NoRun
<1> HIDE DEF zero, none
<1>5. NoRun \in RunRecord
  BY <1>1, <1>2, <1>3, <1>4 DEF RunRecord
<1>6. NoRun.method = "POINT" /\ NoRun.step = "idle"
  BY DEF NoRun
<1> QED
  BY <1>5, <1>6 DEF Pays, CardAddsUp, GoesWell

LEMMA EndedPays ==
  ASSUME NEW run, Pays(run), Sound(run), NEW served \in BOOLEAN
  PROVE  Pays(Ended(run, served))
<1> DEFINE t == run.items[run.at].title
           ordered == [run.ordered EXCEPT ![t] = IF served /\ run.step = "order" THEN run.sent ELSE @]
           paid == [run.paid EXCEPT ![t] = IF served /\ run.step = "payment" THEN run.sent ELSE @]
           ended == [NoRun EXCEPT !.step = "ended", !.calls = run.calls, !.ordered = ordered, !.paid = paid]
<1>1. CASE ~Paying(run)
  BY <1>1 DEF Ended
<1>2. CASE Paying(run)
  <2>1. Ended(run, served) = ended
    BY <1>2 DEF Ended
  <2>2. run \in RunRecord /\ NoRun \in RunRecord
    BY NoRunPays DEF Pays
  <2>3. /\ run.ordered \in [Titles -> 0..MaxUnits] /\ run.paid \in [Titles -> 0..MaxUnits]
        /\ run.sent \in 0..MaxUnits /\ run.calls \in 0..MaxCalls
    BY <2>2 DEF RunRecord
  <2> HIDE DEF t
  <2>4. ordered \in [Titles -> 0..MaxUnits] /\ paid \in [Titles -> 0..MaxUnits]
    BY <2>3
  <2> HIDE DEF ordered, paid
  <2>5. ended \in RunRecord
    BY <2>2, <2>3, <2>4 DEF RunRecord
  <2>6. ended.step = "ended" /\ ended.method = "POINT"
    BY DEF NoRun
  <2> HIDE DEF ended
  <2>7. Pays(ended)
    BY <2>5, <2>6 DEF Pays, CardAddsUp, GoesWell
  <2> QED
    BY <2>1, <2>7
<1> QED
  BY <1>1, <1>2

(* Nothing here is about the page of a call. *)
LEMMA LeftPays ==
  ASSUME NEW run, Pays(run)
  PROVE  Pays([run EXCEPT !.live = FALSE])
<1> DEFINE left == [run EXCEPT !.live = FALSE]
<1>1. run \in RunRecord
  BY DEF Pays
<1>2. left \in RunRecord
  BY <1>1 DEF RunRecord
<1>3. /\ left.step = run.step /\ left.items = run.items /\ left.at = run.at /\ left.method = run.method
      /\ left.remaining = run.remaining /\ left.entry = run.entry /\ left.sent = run.sent
      /\ left.ordered = run.ordered /\ left.paid = run.paid /\ left.points = run.points
      /\ left.meddled = run.meddled
  BY <1>1 DEF RunRecord
<1> HIDE DEF left
<1>4. PaidTo(left) = PaidTo(run) /\ UsedTo(left) = UsedTo(run)
  BY <1>3 DEF PaidTo, UsedTo
<1>5. CardAddsUp(left) /\ (GoesWell(left) <=> GoesWell(run))
  BY <1>3 DEF Pays, CardAddsUp, GoesWell
<1>6. AsShown(run) => AsShown(left)
  <2>1. BoughtSoFar(run) => BoughtSoFar(left)
    BY <1>3, <1>4 DEF BoughtSoFar
  <2>2. UsedSoFar(run) => UsedSoFar(left)
    BY <1>3, <1>4 DEF UsedSoFar
  <2> QED
    BY <1>3, <2>1, <2>2 DEF AsShown
<1>7. Pays(left)
  BY <1>2, <1>3, <1>5, <1>6 DEF Pays
<1> QED
  BY <1>7 DEF left

LEMMA MeddledPays ==
  ASSUME NEW run, Pays(run), NEW t, NEW q \in 1..MaxUnits
  PROVE  Pays([run EXCEPT !.items = SetQuantity(@, t, q), !.meddled = TRUE])
<1> DEFINE items == SetQuantity(run.items, t, q)
           changed == [run EXCEPT !.items = items, !.meddled = TRUE]
<1>1. run \in RunRecord
  BY DEF Pays
<1>2. run.items \in Seq(CartItem)
  BY <1>1 DEF RunRecord
<1>3. items \in Seq(CartItem)
  BY <1>2, CartSet
<1> HIDE DEF items
<1>4. changed \in RunRecord
  BY <1>1, <1>3 DEF RunRecord
<1>5. /\ changed.meddled = TRUE /\ changed.method = run.method /\ changed.points = run.points
      /\ changed.remaining = run.remaining /\ changed.entry = run.entry
  BY <1>1 DEF RunRecord
<1> HIDE DEF changed
<1>6. Pays(changed)
  BY <1>4, <1>5 DEF Pays, CardAddsUp
<1> QED
  BY <1>6 DEF changed, items

(* A call as it is pressed: what it sets aside is at most what is shown. *)
LEMMA PressedPays ==
  ASSUME NEW items, IsCart(items), items # <<>>, NEW run \in RunRecord,
         run.step = "order", run.items = items, run.at = 1, run.sent = items[1].quantity,
         run.points = 0, run.remaining = run.entry, run.entry <= TotalPrice(items),
         run.method = "POINT" => run.entry = TotalPrice(items),
         run.ordered = [t \in Titles |-> 0], run.paid = [t \in Titles |-> 0]
  PROVE  Pays(run)
<1>1. items \in Seq(CartItem) /\ OneOfEach(items)
  BY DEF IsCart
<1>2. DOMAIN items = 1..Len(items) /\ Len(items) \in Nat \ {0}
  BY <1>1, LenProperties, EmptySeq
<1>3. 1 \in DOMAIN items
  BY <1>2
<1>4. PaidTo(run) = 0 /\ UsedTo(run) = 0
  BY DEF PaidTo, UsedTo
<1>5. BoughtSoFar(run)
  <2>1. \A i \in 1..PaidTo(run) : FALSE
    BY <1>4
  <2>2. \A t \in Titles : ~(run.paid[t] > 0)
    OBVIOUS
  <2>3. run.ordered = run.paid
    OBVIOUS
  <2> QED
    BY <2>1, <2>2, <2>3 DEF BoughtSoFar
<1>6. UsedSoFar(run)
  BY <1>4, WorthNone DEF UsedSoFar
<1>7. CardAddsUp(run)
  <2>1. run.entry \in Int
    BY DEF RunRecord
  <2> QED
    BY <2>1 DEF CardAddsUp
<1> QED
  BY <1>1, <1>3, <1>5, <1>6, <1>7 DEF Pays, AsShown

(* What an item takes of the points set aside. *)
LEMMA PointsAddUp ==
  ASSUME NEW run, run \in RunRecord, CardAddsUp(run), NEW total \in Nat
  PROVE  LET used == PointUsed(run, total)
             points == run.points + used
             remaining == LeftOver(run, used)
         IN /\ points \in Int /\ remaining \in Int
            /\ run.method = "POINT" => points = run.points + total
            /\ run.method = "CARD" => /\ points + remaining = run.entry /\ points >= 0
                                      /\ points > 0 => remaining >= 0
                                      /\ remaining > 0 => run.remaining > 0 /\ points = run.points + total
<1>1. /\ run.points \in Int /\ run.remaining \in Int /\ run.entry \in Int
      /\ run.method \in {"POINT", "CARD"}
  BY DEF RunRecord
<1>2. CASE run.method = "POINT"
  BY <1>1, <1>2 DEF PointUsed, LeftOver
<1>3. CASE run.method = "CARD"
  <2>1. /\ run.points + run.remaining = run.entry /\ run.points >= 0
        /\ run.points > 0 => run.remaining >= 0
    BY <1>3 DEF CardAddsUp
  <2>2. CASE run.remaining > 0
    BY <1>1, <1>3, <2>1, <2>2 DEF PointUsed, LeftOver, Least
  <2>3. CASE ~(run.remaining > 0)
    BY <1>1, <1>3, <2>1, <2>3 DEF PointUsed, LeftOver
  <2> QED
    BY <2>2, <2>3
<1> QED
  BY <1>1, <1>2, <1>3

LEMMA OrderedPays ==
  ASSUME NEW run, Pays(run), Sound(run), run.step = "order"
  PROVE  LET item == run.items[run.at]
             used == PointUsed(run, Price[item.title] * item.quantity)
         IN Pays([run EXCEPT !.step = "payment", !.ordered[item.title] = run.sent, !.sent = item.quantity,
                             !.points = @ + used, !.remaining = LeftOver(run, used)])
<1> DEFINE item == run.items[run.at]
           total == Price[item.title] * item.quantity
           used == PointUsed(run, total)
           ordered == [run.ordered EXCEPT ![item.title] = run.sent]
           points == run.points + used
           remaining == LeftOver(run, used)
           after == [run EXCEPT !.step = "payment", !.ordered = ordered, !.sent = item.quantity,
                                !.points = points, !.remaining = remaining]
<1>1. run \in RunRecord /\ CardAddsUp(run)
  BY DEF Pays
<1>2. /\ run.items \in Seq(CartItem) /\ run.at \in Nat /\ run.sent \in 0..MaxUnits
      /\ run.ordered \in [Titles -> 0..MaxUnits] /\ run.paid \in [Titles -> 0..MaxUnits]
      /\ run.method \in {"POINT", "CARD"} /\ run.points \in Int /\ run.meddled \in BOOLEAN
  BY <1>1 DEF RunRecord
<1>3. run.at \in DOMAIN run.items
  BY DEF Sound, Paying
<1>4. run.items \in Seq(Item)
  BY <1>2, CartItemIsItem
<1>5. item \in CartItem
  BY <1>2, <1>3, LenProperties, ElementOfSeq
<1>6. item.title \in Titles /\ item.quantity \in 0..MaxUnits
  BY <1>5, BoundsFacts DEF CartItem
<1>7. total \in Nat
  BY <1>3, <1>4, ItemFacts
<1>8. WorthOf(run.items, run.at) = WorthOf(run.items, run.at - 1) + total
  BY <1>3, <1>4, WorthGrows
<1> HIDE DEF total
<1>9. /\ points \in Int /\ remaining \in Int
      /\ run.method = "POINT" => points = run.points + total
      /\ run.method = "CARD" => /\ points + remaining = run.entry /\ points >= 0
                                /\ points > 0 => remaining >= 0
                                /\ remaining > 0 => run.remaining > 0 /\ points = run.points + total
  BY <1>1, <1>7, PointsAddUp
<1> HIDE DEF used, points, remaining
<1>10. ordered \in [Titles -> 0..MaxUnits]
  BY <1>2, <1>6
<1> HIDE DEF ordered
<1>11. after \in RunRecord
  BY <1>1, <1>6, <1>9, <1>10 DEF RunRecord
<1>12. /\ after.step = "payment" /\ after.ordered = ordered /\ after.sent = item.quantity
       /\ after.points = points /\ after.remaining = remaining
       /\ after.items = run.items /\ after.at = run.at /\ after.method = run.method
       /\ after.entry = run.entry /\ after.paid = run.paid /\ after.meddled = run.meddled
  BY <1>1 DEF RunRecord
<1> HIDE DEF after
<1>13. CardAddsUp(after)
  BY <1>9, <1>12 DEF CardAddsUp
<1>14. ASSUME ~run.meddled PROVE AsShown(after)
  <2>1. AsShown(run)
    BY <1>14 DEF Pays, GoesWell
  <2>2. PaidTo(after) = run.at - 1 /\ PaidTo(run) = run.at - 1
    BY <1>12 DEF PaidTo
  <2>3. UsedTo(after) = run.at /\ UsedTo(run) = run.at - 1
    BY <1>12 DEF UsedTo
  <2>4. BoughtSoFar(run) /\ UsedSoFar(run)
    BY <2>1 DEF AsShown
  <2>5. ordered = [run.paid EXCEPT ![item.title] = item.quantity]
    BY <2>4 DEF BoughtSoFar, ordered
  <2>6. BoughtSoFar(after)
    BY <1>12, <2>2, <2>4, <2>5 DEF BoughtSoFar
  <2>7. UsedSoFar(after)
    BY <1>8, <1>9, <1>12, <2>3, <2>4 DEF UsedSoFar
  <2> QED
    BY <1>3, <1>12, <2>1, <2>6, <2>7 DEF AsShown
<1>15. Pays(after)
  BY <1>11, <1>12, <1>13, <1>14 DEF Pays
<1> QED
  BY <1>15 DEF after, ordered, points, remaining, used, total

(* The item is paid, and the next is ordered or there is none. *)
LEMMA PaidPays ==
  ASSUME NEW run, Pays(run), Sound(run), run.step = "payment", NEW after, after \in RunRecord,
         after.paid = PaidRun(run).paid, after.ordered = run.ordered, after.items = run.items,
         after.method = run.method, after.remaining = run.remaining, after.entry = run.entry,
         after.points = run.points, after.meddled = run.meddled,
         \/ /\ after.step = "done" /\ after.at = run.at /\ run.at = Len(run.items)
         \/ /\ after.step = "order" /\ after.at = run.at + 1 /\ after.at \in DOMAIN run.items
            /\ after.sent = run.items[after.at].quantity
  PROVE  Pays(after)
<1> DEFINE item == run.items[run.at]
<1>1. run \in RunRecord /\ CardAddsUp(run)
  BY DEF Pays
<1>2. /\ run.items \in Seq(CartItem) /\ run.at \in Nat
      /\ run.paid \in [Titles -> 0..MaxUnits] /\ run.meddled \in BOOLEAN
  BY <1>1 DEF RunRecord
<1>3. run.at \in DOMAIN run.items /\ DOMAIN run.items = 1..Len(run.items) /\ Len(run.items) \in Nat
  BY <1>2, LenProperties DEF Sound, Paying
<1>4. \A i \in DOMAIN run.items : run.items[i] \in CartItem
  BY <1>2, LenProperties, ElementOfSeq
<1>5. item.title \in Titles /\ item.quantity \in 1..MaxUnits
  BY <1>3, <1>4 DEF CartItem
<1>6. CardAddsUp(after)
  BY <1>1 DEF CardAddsUp
<1>7. after.paid = [run.paid EXCEPT ![item.title] = run.sent]
  BY <1>1 DEF PaidRun, RunRecord
<1>8. ASSUME ~run.meddled PROVE AsShown(after)
  <2>1. OneOfEach(run.items) /\ BoughtSoFar(run) /\ UsedSoFar(run)
    BY <1>8 DEF Pays, GoesWell, AsShown
  <2>2. PaidTo(after) = run.at /\ PaidTo(run) = run.at - 1
    BY <1>2 DEF PaidTo
  <2>3. UsedTo(after) = run.at /\ UsedTo(run) = run.at
    BY <1>2 DEF UsedTo
  <2>4. run.sent = item.quantity
    BY <2>1 DEF BoughtSoFar
  <2>5. after.paid[item.title] = item.quantity
    BY <1>2, <1>5, <1>7, <2>4
  <2>6. \A t \in Titles : t # item.title => after.paid[t] = run.paid[t]
    BY <1>2, <1>7
  <2>7. ASSUME NEW i \in 1..run.at PROVE after.paid[run.items[i].title] = run.items[i].quantity
    <3>1. CASE i = run.at
      BY <2>5, <3>1
    <3>2. CASE i # run.at
      <4>1. i \in 1..(run.at - 1) /\ i \in DOMAIN run.items
        BY <1>2, <1>3, <3>2
      <4>2. run.items[i].title # item.title /\ run.items[i].title \in Titles
        BY <1>3, <1>4, <2>1, <3>2, <4>1 DEF OneOfEach, CartItem
      <4>3. run.paid[run.items[i].title] = run.items[i].quantity
        BY <2>1, <2>2, <4>1 DEF BoughtSoFar
      <4> QED
        BY <2>6, <4>2, <4>3
    <3> QED
      BY <3>1, <3>2
  <2>8. ASSUME NEW t \in Titles, after.paid[t] > 0 PROVE \E i \in 1..run.at : run.items[i].title = t
    <3>1. CASE t = item.title
      <4>1. run.at \in 1..run.at
        BY <1>3
      <4> QED
        BY <3>1, <4>1
    <3>2. CASE t # item.title
      <4>1. run.paid[t] > 0
        BY <2>6, <2>8, <3>2
      <4>2. PICK i \in 1..(run.at - 1) : run.items[i].title = t
        BY <2>1, <2>2, <4>1 DEF BoughtSoFar
      <4>3. i \in 1..run.at
        BY <1>2
      <4> QED
        BY <4>2, <4>3
    <3> QED
      BY <3>1, <3>2
  <2>9. after.ordered = after.paid
    BY <1>7, <2>1, <2>4 DEF BoughtSoFar
  <2>10. BoughtSoFar(after)
    BY <2>2, <2>7, <2>8, <2>9 DEF BoughtSoFar
  <2>11. UsedSoFar(after)
    BY <2>1, <2>3 DEF UsedSoFar
  <2> QED
    BY <1>3, <2>1, <2>10, <2>11 DEF AsShown
<1> QED
  BY <1>6, <1>8 DEF Pays

-----------------------------------------------------------------------------
(* The page, its cart and its calls *)

PanelRecord ==
  [shown : BOOLEAN, method : {"POINT", "CARD"}, loading : BOOLEAN, points : {0, Balance},
   card : BOOLEAN, withCard : BOOLEAN, entered : Int]

TabInv ==
  /\ coUser \in {User, Nothing}
  /\ coCart = Nothing \/ IsCart(coCart)
  /\ IsCart(coItems)
  /\ coPanel \in PanelRecord

CallsInv ==
  /\ coRun \in [Presses -> RunRecord]
  /\ \A c \in Presses : Pays(coRun[c])

PaysInv == TabInv /\ CallsInv

LEMMA FreshPanelRecord == FreshPanel \in PanelRecord
<1> DEFINE zero == 0
<1>1. zero \in {0, Balance} /\ zero \in Int
  OBVIOUS
<1>2. FreshPanel = [shown |-> FALSE, method |-> "POINT", loading |-> FALSE, points |-> zero,
                    card |-> FALSE, withCard |-> FALSE, entered |-> zero]
  BY DEF FreshPanel
<1> HIDE DEF zero
<1> QED
  BY <1>1, <1>2 DEF PanelRecord

LEMMA StoredIsOfEach ==
  ASSUME PaysInv PROVE IsCart(StoredCart)
BY NoItems DEF PaysInv, TabInv, StoredCart

LEMMA CallsBound ==
  ASSUME CallsInv PROVE Calls \in Nat
<1> DEFINE f == CallsOf(coRun)
<1>1. DOMAIN coRun = Presses
  BY DEF CallsInv
<1>2. \A c \in Presses : f[c] \in Nat
  <2> SUFFICES ASSUME NEW c \in Presses PROVE f[c] \in Nat
    OBVIOUS
  <2>1. coRun[c].calls \in 0..MaxCalls
    BY DEF CallsInv, RunRecord
  <2> QED
    BY <1>1, <2>1 DEF CallsOf
<1>3. IsFiniteSet(Presses)
  <2>1. 1 \in Int /\ MaxCalls \in Int
    BY CallsAssumption
  <2> QED
    BY <2>1, FS_Interval DEF Presses
<1>4. Calls = CountOf(f, Presses)
  BY <1>1, <1>2, <1>3, CallsCount
<1> HIDE DEF f
<1> QED
  BY <1>2, <1>3, <1>4, CellsFinite

(* Calls that all still pay, each as itself, are calls as before. *)
LEMMA CallsKeep ==
  ASSUME coRun' = [c \in Presses |-> coRun'[c]], \A c \in Presses : Pays(coRun'[c])
  PROVE  CallsInv'
<1>1. \A c \in Presses : coRun'[c] \in RunRecord
  BY DEF Pays
<1>2. coRun' \in [Presses -> RunRecord]
  BY <1>1
<1> QED
  BY <1>2 DEF CallsInv

LEMMA CallGoesOn ==
  ASSUME CallsInv, NEW c \in Presses, NEW run, Pays(run), coRun' = [coRun EXCEPT ![c] = run]
  PROVE  CallsInv'
<1>1. run \in RunRecord /\ coRun' \in [Presses -> RunRecord]
  BY DEF CallsInv, Pays
<1>2. \A b \in Presses : coRun'[b] = IF b = c THEN run ELSE coRun[b]
  BY DEF CallsInv
<1>3. \A b \in Presses : Pays(coRun'[b])
  BY <1>2 DEF CallsInv
<1> QED
  BY <1>1, <1>3 DEF CallsInv

LEMMA CallsLeft ==
  ASSUME CallsInv, coRun' = Unmounted(coRun)
  PROVE  CallsInv'
<1>1. coRun' = [c \in Presses |-> [coRun[c] EXCEPT !.live = FALSE]]
  BY DEF Unmounted
<1>2. ASSUME NEW c \in Presses PROVE Pays(coRun'[c])
  <2>1. coRun'[c] = [coRun[c] EXCEPT !.live = FALSE]
    BY <1>1
  <2>2. Pays(coRun[c])
    BY DEF CallsInv
  <2> QED
    BY <2>1, <2>2, LeftPays
<1>3. coRun' = [c \in Presses |-> coRun'[c]]
  BY <1>1
<1> QED
  BY <1>2, <1>3, CallsKeep

LEMMA TabLeft ==
  ASSUME TabInv, Unmount, coUser' \in {coUser, Nothing, User}, coCart' = coCart \/ coCart' = Nothing
  PROVE  TabInv'
BY NoItems, FreshPanelRecord DEF TabInv, Unmount

LEMMA ReloadPays ==
  ASSUME CheckoutInv, PaysInv, NEW served \in SUBSET Presses, Reload(served), UNCHANGED <<coUser, coCart>>
  PROVE  PaysInv'
<1>1. Unmount
  BY DEF Reload, Unmount
<1>2. coRun' = [c \in Presses |-> Ended(coRun[c], c \in served)]
  BY DEF Reload
<1>3. ASSUME NEW c \in Presses PROVE Pays(coRun'[c])
  <2>1. coRun'[c] = Ended(coRun[c], c \in served) /\ (c \in served) \in BOOLEAN
    BY <1>2
  <2>2. Pays(coRun[c]) /\ Sound(coRun[c])
    BY DEF PaysInv, CallsInv, CheckoutInv, RunsInv
  <2> QED
    BY <2>1, <2>2, EndedPays
<1>4. coRun' = [c \in Presses |-> coRun'[c]]
  BY <1>2
<1>5. CallsInv'
  BY <1>3, <1>4, CallsKeep
<1> QED
  BY <1>1, <1>5, TabLeft DEF PaysInv

LEMMA PutInCartPays ==
  ASSUME PaysInv, NEW t \in Titles, NEW q \in 1..MaxUnits, PutInCart(t, q)
  PROVE  PaysInv'
<1>1. Units(StoredCart) + q <= MaxUnits /\ coCart' = Added(StoredCart, t, q)
  BY DEF PutInCart
<1>2. IsCart(coCart')
  BY <1>1, StoredIsOfEach, CartAdded
<1>3. UNCHANGED <<coUser, coItems, coPanel, coRun>>
  BY DEF PutInCart
<1> QED
  BY <1>2, <1>3 DEF PaysInv, TabInv, CallsInv

LEMMA CartListPays ==
  ASSUME PaysInv, CartList PROVE PaysInv'
<1>1. PICK i \in DOMAIN coItems : RemoveItem(i) \/ \E delta \in {-1, 1} : UpdateQuantity(i, delta)
  BY DEF CartList
<1>2. IsCart(coItems)
  BY DEF PaysInv, TabInv
<1>3. CASE RemoveItem(i)
  <2>1. /\ coCart' = RemoveAt(coItems, i) /\ coItems' = RemoveAt(coItems, i)
        /\ UNCHANGED <<coUser, coPanel, coRun>>
    BY <1>3 DEF RemoveItem, SaveCart
  <2>2. IsCart(RemoveAt(coItems, i))
    BY <1>2, CartRemoved
  <2> QED
    BY <2>1, <2>2 DEF PaysInv, TabInv, CallsInv
<1>4. ASSUME NEW delta \in {-1, 1}, UpdateQuantity(i, delta) PROVE PaysInv'
  <2> DEFINE t == coItems[i].title
             q == AtLeastOne(coItems[i].quantity + delta)
             items == SetQuantity(coItems, t, q)
  <2>1. /\ Units(items) <= MaxUnits /\ coCart' = items /\ coItems' = items /\ UNCHANGED <<coUser, coPanel>>
        /\ coRun' = [c \in Presses |-> IF coRun[c].live
                                       THEN [coRun[c] EXCEPT !.items = SetQuantity(@, t, q), !.meddled = TRUE]
                                       ELSE coRun[c]]
    BY <1>4 DEF UpdateQuantity, SaveCart
  <2>2. coItems \in Seq(CartItem) /\ coItems \in Seq(Item) /\ OneOfEach(coItems)
    BY <1>2, CartItemIsItem DEF IsCart
  <2>3. q \in Nat \ {0}
    <3>1. coItems[i].quantity + delta \in Int
      BY <2>2, ItemFacts
    <3> QED
      BY <3>1 DEF AtLeastOne
  <2>4. coItems[i] \in Item
    BY <2>2, ItemFacts
  <2>5. items[i].quantity = q
    <3>1. items[i] = [coItems[i] EXCEPT !.quantity = q]
      BY DEF SetQuantity
    <3> HIDE DEF items, q
    <3> QED
      BY <2>4, <3>1 DEF Item
  <2>6. items \in Seq(Item) /\ DOMAIN items = DOMAIN coItems
    BY <2>2, <2>3, SetQuantityIsCart
  <2> HIDE DEF q
  <2>7. q \in 1..MaxUnits
    <3>1. Units(items) <= MaxUnits
      BY <2>1
    <3> HIDE DEF items
    <3>2. items[i].quantity <= Units(items) /\ Units(items) \in Nat
      BY <2>6, UnitsBound
    <3>3. q <= Units(items)
      BY <2>5, <3>2
    <3> QED
      BY <2>3, <3>1, <3>2, <3>3, QuantityAssumption
  <2>8. IsCart(items)
    BY <2>2, <2>7, CartSet DEF IsCart
  <2> HIDE DEF items, t
  <2>9. ASSUME NEW c \in Presses PROVE Pays(coRun'[c])
    <3> DEFINE run == coRun[c]
    <3>1. Pays(run)
      BY DEF PaysInv, CallsInv
    <3>2. coRun'[c] = IF run.live THEN [run EXCEPT !.items = SetQuantity(@, t, q), !.meddled = TRUE] ELSE run
      BY <2>1
    <3> HIDE DEF run
    <3>3. Pays([run EXCEPT !.items = SetQuantity(@, t, q), !.meddled = TRUE])
      BY <2>7, <3>1, MeddledPays
    <3> QED
      BY <3>1, <3>2, <3>3
  <2>10. coRun' = [c \in Presses |-> coRun'[c]]
    BY <2>1
  <2>11. CallsInv'
    BY <2>9, <2>10, CallsKeep
  <2> QED
    BY <2>1, <2>8, <2>11 DEF PaysInv, TabInv
<1> QED
  BY <1>1, <1>3, <1>4

LEMMA HandlePayPays ==
  ASSUME CheckoutInv, PaysInv, NEW c \in Presses, HandlePay(c), coItems # <<>>,
         UNCHANGED <<coUser, coCart, coItems>>
  PROVE  PaysInv'
<1> DEFINE aside == PointsSetAside
           run == [NoRun EXCEPT !.calls = Len(coItems), !.step = "order", !.live = TRUE, !.items = coItems, !.at = 1,
                     !.method = coPanel.method, !.remaining = aside, !.entry = aside,
                     !.sent = coItems[1].quantity]
<1>1. /\ coRun' = [coRun EXCEPT ![c] = run]
      /\ coPanel' = [coPanel EXCEPT !.loading = TRUE]
      /\ Calls + Len(coItems) <= MaxCalls
  BY DEF HandlePay
<1>2. IsCart(coItems) /\ coItems \in Seq(CartItem) /\ coItems \in Seq(Item)
  BY CartItemIsItem DEF PaysInv, TabInv, IsCart
<1>3. coPanel \in PanelRecord
  BY DEF PaysInv, TabInv
<1>4. /\ coPanel.method \in {"POINT", "CARD"} /\ coPanel.entered \in Int
      /\ coPanel.points \in {0, Balance}
  BY <1>3 DEF PanelRecord
<1>5. coPanel.points \in Int
  BY <1>4, BalanceAssumption
<1>6. TotalPrice(coItems) \in Nat
  BY <1>2, TotalIsWorth
<1>7. /\ aside \in Int /\ aside <= TotalPrice(coItems)
      /\ coPanel.method = "POINT" => aside = TotalPrice(coItems)
  BY <1>4, <1>5, <1>6 DEF PointsSetAside, Least
<1> HIDE DEF aside
<1>8. DOMAIN coItems = 1..Len(coItems) /\ Len(coItems) \in Nat \ {0}
  BY <1>2, LenProperties, EmptySeq
<1>9. Len(coItems) \in 0..MaxCalls
  BY <1>1, <1>8, CallsBound, CallsAssumption DEF PaysInv
<1>10. coItems[1].quantity \in 0..MaxUnits
  <2>1. 1 \in 1..Len(coItems)
    BY <1>8
  <2>2. coItems[1] \in CartItem
    BY <1>2, <2>1, ElementOfSeq
  <2> QED
    BY <2>2, BoundsFacts DEF CartItem
<1>11. NoRun \in RunRecord
  BY NoRunPays DEF Pays
<1>12. run \in RunRecord
  BY <1>2, <1>4, <1>7, <1>9, <1>10, <1>11 DEF RunRecord
<1>13. /\ run.step = "order" /\ run.items = coItems /\ run.at = 1 /\ run.sent = coItems[1].quantity
       /\ run.points = 0 /\ run.remaining = aside /\ run.entry = aside /\ run.method = coPanel.method
       /\ run.ordered = [t \in Titles |-> 0] /\ run.paid = [t \in Titles |-> 0]
  BY DEF NoRun
<1> HIDE DEF run
<1>14. Pays(run)
  BY <1>2, <1>7, <1>12, <1>13, PressedPays
<1>15. CallsInv'
  BY <1>1, <1>14, CallGoesOn DEF PaysInv
<1>16. coPanel' \in PanelRecord
  BY <1>1, <1>3 DEF PanelRecord
<1> QED
  BY <1>15, <1>16 DEF PaysInv, TabInv

LEMMA CartSummaryPays ==
  ASSUME CheckoutInv, PaysInv, CartSummary PROVE PaysInv'
<1>1. coItems # <<>> /\ UNCHANGED <<coUser, coCart>>
  BY DEF CartSummary
<1>2. coPanel \in PanelRecord
  BY DEF PaysInv, TabInv
<1>3. CASE HandleCheckout
  <2>1. CASE coUser = Nothing
    BY <1>1, <1>3, <2>1, TabLeft, CallsLeft DEF HandleCheckout, PaysInv
  <2>2. CASE coUser # Nothing
    <3>1. coPanel' = [coPanel EXCEPT !.shown = TRUE] /\ UNCHANGED <<coItems, coRun>>
      BY <1>3, <2>2 DEF HandleCheckout
    <3>2. coPanel' \in PanelRecord
      BY <1>2, <3>1 DEF PanelRecord
    <3> QED
      BY <1>1, <3>1, <3>2 DEF PaysInv, TabInv, CallsInv
  <2> QED
    BY <2>1, <2>2
<1>4. CASE \E c \in Presses : HandlePay(c) /\ UNCHANGED <<coOpen, coItems>>
  BY <1>1, <1>4, HandlePayPays
<1>5. CASE /\ \/ ChooseMethod
              \/ EnterPoints
              \/ coPanel' = [coPanel EXCEPT !.shown = FALSE]
           /\ UNCHANGED <<coOpen, coItems, coRun>>
  <2>1. coPanel' \in PanelRecord
    <3>1. CASE ChooseMethod
      <4>1. PICK m \in {"POINT", "CARD"} :
              coPanel' = [coPanel EXCEPT !.method = m, !.withCard = FALSE, !.entered = 0]
        BY <3>1 DEF ChooseMethod
      <4> DEFINE zero == 0
      <4>2. zero \in Int /\ coPanel' = [coPanel EXCEPT !.method = m, !.withCard = FALSE, !.entered = zero]
        BY <4>1
      <4> HIDE DEF zero
      <4> QED
        BY <1>2, <4>2 DEF PanelRecord
    <3>2. CASE EnterPoints
      <4>1. CASE \E on \in BOOLEAN :
                   coPanel' = [coPanel EXCEPT !.withCard = on, !.entered = IF on THEN @ ELSE 0]
        <5>1. PICK on \in BOOLEAN :
                coPanel' = [coPanel EXCEPT !.withCard = on, !.entered = IF on THEN @ ELSE 0]
          BY <4>1
        <5> DEFINE entered == IF on THEN coPanel.entered ELSE 0
        <5>2. coPanel' = [coPanel EXCEPT !.withCard = on, !.entered = entered]
          BY <5>1
        <5>3. entered \in Int
          BY <1>2 DEF PanelRecord
        <5> HIDE DEF entered
        <5> QED
          BY <1>2, <5>2, <5>3 DEF PanelRecord
      <4>2. CASE \E typed \in Typed :
                   coPanel' = [coPanel EXCEPT !.entered = Least(typed, Least(coPanel.points, TotalPrice(coItems)))]
        <5>1. PICK typed \in Typed :
                coPanel' = [coPanel EXCEPT !.entered = Least(typed, Least(coPanel.points, TotalPrice(coItems)))]
          BY <4>2
        <5>2. coItems \in Seq(Item)
          BY CartItemIsItem DEF PaysInv, TabInv, IsCart
        <5>3. TotalPrice(coItems) \in Int /\ typed \in Int
          BY <5>2, TotalIsWorth, TypedAssumption
        <5>4. coPanel.points \in Int
          BY <1>2, BalanceAssumption DEF PanelRecord
        <5>5. Least(typed, Least(coPanel.points, TotalPrice(coItems))) \in Int
          BY <5>3, <5>4 DEF Least
        <5> QED
          BY <1>2, <5>1, <5>5 DEF PanelRecord
      <4> QED
        BY <3>2, <4>1, <4>2 DEF EnterPoints
    <3>3. CASE coPanel' = [coPanel EXCEPT !.shown = FALSE]
      BY <1>2, <3>3 DEF PanelRecord
    <3> QED
      BY <1>5, <3>1, <3>2, <3>3
  <2> QED
    BY <1>1, <1>5, <2>1 DEF PaysInv, TabInv, CallsInv
<1> QED
  BY <1>3, <1>4, <1>5 DEF CartSummary

LEMMA AnsweredPays ==
  ASSUME CheckoutInv, PaysInv, NEW c \in Presses, Ordered(c) \/ PaidOne(c) \/ PaidAll(c) \/ Caught(c)
  PROVE  PaysInv'
<1> DEFINE run == coRun[c]
<1>1. Pays(run) /\ Sound(run) /\ run \in RunRecord
  BY DEF PaysInv, CallsInv, CheckoutInv, RunsInv, Pays
<1>2. CASE Ordered(c)
  <2> DEFINE item == run.items[run.at]
             used == PointUsed(run, Price[item.title] * item.quantity)
             after == [run EXCEPT !.step = "payment", !.ordered[item.title] = run.sent, !.sent = item.quantity,
                                  !.points = @ + used, !.remaining = LeftOver(run, used)]
  <2>1. /\ run.step = "order" /\ coRun' = [coRun EXCEPT ![c] = after]
        /\ UNCHANGED <<coUser, coCart, coItems, coPanel>>
    BY <1>2 DEF Ordered
  <2> HIDE DEF run
  <2>2. Pays(after)
    BY <1>1, <2>1, OrderedPays
  <2> HIDE DEF after
  <2>3. CallsInv'
    BY <2>1, <2>2, CallGoesOn DEF PaysInv
  <2> QED
    BY <2>1, <2>3 DEF PaysInv, TabInv
<1>3. CASE PaidOne(c) \/ PaidAll(c)
  <2> DEFINE paid == PaidRun(run)
  <2>1. run.step = "payment"
    BY <1>3 DEF PaidOne, PaidAll
  <2>2. /\ run.items \in Seq(CartItem) /\ run.at \in DOMAIN run.items /\ run.sent \in 0..MaxUnits
        /\ run.at \in 1..Len(run.items) /\ Len(run.items) \in Nat /\ DOMAIN run.items = 1..Len(run.items)
    BY <1>1, <2>1, LenProperties DEF RunRecord, Sound, Paying
  <2> HIDE DEF run
  <2>3. paid \in RunRecord
    <3> DEFINE t == run.items[run.at].title
               paidNow == [run.paid EXCEPT ![t] = run.sent]
    <3>1. run.paid \in [Titles -> 0..MaxUnits]
      BY <1>1 DEF RunRecord
    <3>2. paidNow \in [Titles -> 0..MaxUnits]
      BY <2>2, <3>1
    <3>3. paid = [run EXCEPT !.paid = paidNow]
      BY DEF PaidRun
    <3> HIDE DEF paidNow, paid
    <3> QED
      BY <1>1, <3>2, <3>3 DEF RunRecord
  <2>4. /\ paid.ordered = run.ordered /\ paid.items = run.items /\ paid.method = run.method
        /\ paid.remaining = run.remaining /\ paid.entry = run.entry /\ paid.points = run.points
        /\ paid.meddled = run.meddled /\ paid.at = run.at
    BY <1>1 DEF PaidRun, RunRecord
  <2> HIDE DEF paid
  <2>5. CASE PaidOne(c)
    <3> DEFINE after == [paid EXCEPT !.step = "order", !.at = @ + 1, !.sent = run.items[run.at + 1].quantity]
    <3>1. /\ run.at < Len(run.items) /\ coRun' = [coRun EXCEPT ![c] = after]
          /\ UNCHANGED <<coUser, coCart, coItems, coPanel>>
      BY <2>5 DEF PaidOne, run, paid
    <3>2. run.at + 1 \in DOMAIN run.items
      BY <2>2, <3>1
    <3>3. run.items[run.at + 1].quantity \in 0..MaxUnits
      <4>1. run.items[run.at + 1] \in CartItem
        BY <2>2, <3>2, ElementOfSeq
      <4> QED
        BY <4>1, BoundsFacts DEF CartItem
    <3>4. after \in RunRecord
      <4> DEFINE next == paid.at + 1
                 units == run.items[run.at + 1].quantity
      <4>1. after = [paid EXCEPT !.step = "order", !.at = next, !.sent = units]
        OBVIOUS
      <4>2. next \in Nat
        BY <2>3 DEF RunRecord
      <4>3. units \in 0..MaxUnits
        BY <3>3
      <4> HIDE DEF next, units, after
      <4> QED
        BY <2>3, <4>1, <4>2, <4>3 DEF RunRecord
    <3>5. /\ after.step = "order" /\ after.at = run.at + 1 /\ after.sent = run.items[after.at].quantity
          /\ after.paid = paid.paid /\ after.ordered = run.ordered /\ after.items = run.items
          /\ after.method = run.method /\ after.remaining = run.remaining /\ after.entry = run.entry
          /\ after.points = run.points /\ after.meddled = run.meddled
      BY <2>3, <2>4 DEF RunRecord
    <3> HIDE DEF after
    <3>6. Pays(after)
      BY <1>1, <2>1, <3>2, <3>4, <3>5, PaidPays DEF paid
    <3>7. CallsInv'
      BY <3>1, <3>6, CallGoesOn DEF PaysInv
    <3> QED
      BY <3>1, <3>7 DEF PaysInv, TabInv
  <2>6. CASE PaidAll(c)
    <3> DEFINE done == [paid EXCEPT !.step = "done"]
               runs == [coRun EXCEPT ![c] = done]
    <3>1. /\ run.at = Len(run.items) /\ coRun' = Unmounted(runs)
          /\ coCart' = Nothing /\ Unmount /\ coUser' = coUser
      BY <2>6 DEF PaidAll, run, paid
    <3>2. done \in RunRecord
      BY <2>3 DEF RunRecord
    <3>3. /\ done.step = "done" /\ done.at = run.at
          /\ done.paid = paid.paid /\ done.ordered = run.ordered /\ done.items = run.items
          /\ done.method = run.method /\ done.remaining = run.remaining /\ done.entry = run.entry
          /\ done.points = run.points /\ done.meddled = run.meddled
      BY <2>3, <2>4 DEF RunRecord
    <3> HIDE DEF done
    <3>4. Pays(done)
      BY <1>1, <2>1, <3>1, <3>2, <3>3, PaidPays DEF paid
    <3>5. \A b \in Presses : Pays(runs[b])
      BY <3>4 DEF PaysInv, CallsInv
    <3> HIDE DEF runs
    <3>6. ASSUME NEW b \in Presses PROVE Pays(coRun'[b])
      <4>1. coRun'[b] = [runs[b] EXCEPT !.live = FALSE]
        BY <3>1 DEF Unmounted
      <4> QED
        BY <3>5, <4>1, LeftPays
    <3>7. coRun' = [b \in Presses |-> coRun'[b]]
      BY <3>1 DEF Unmounted
    <3>8. CallsInv'
      BY <3>6, <3>7, CallsKeep
    <3> QED
      BY <3>1, <3>8, TabLeft DEF PaysInv
  <2> QED
    BY <1>3, <2>5, <2>6
<1>4. CASE Caught(c)
  <2>1. PICK served \in BOOLEAN : coRun' = [coRun EXCEPT ![c] = Ended(@, served)]
    BY <1>4 DEF Caught
  <2>2. /\ coPanel' = [coPanel EXCEPT !.loading = IF run.live THEN FALSE ELSE @]
        /\ UNCHANGED <<coUser, coCart, coItems>>
    BY <1>4 DEF Caught, Finally
  <2>3. coRun' = [coRun EXCEPT ![c] = Ended(run, served)]
    BY <2>1 DEF PaysInv, CallsInv
  <2> HIDE DEF run
  <2>4. Pays(Ended(run, served))
    BY <1>1, EndedPays
  <2>5. CallsInv'
    BY <2>3, <2>4, CallGoesOn DEF PaysInv
  <2>6. coPanel' \in PanelRecord
    <3>1. coPanel \in PanelRecord
      BY DEF PaysInv, TabInv
    <3>2. coPanel' = [coPanel EXCEPT !.loading = FALSE] \/ coPanel' = [coPanel EXCEPT !.loading = coPanel.loading]
      BY <2>2
    <3> QED
      BY <3>1, <3>2 DEF PanelRecord
  <2> QED
    BY <2>2, <2>5, <2>6 DEF PaysInv, TabInv
<1> QED
  BY <1>2, <1>3, <1>4

LEMMA PaysInitially ==
  ASSUME CheckoutInit PROVE PaysInv
<1>1. coRun = [c \in Presses |-> NoRun]
  BY DEF CheckoutInit
<1>2. NoRun \in RunRecord /\ Pays(NoRun)
  BY NoRunPays DEF Pays
<1>3. CallsInv
  BY <1>1, <1>2 DEF CallsInv
<1>4. TabInv
  BY NoItems, FreshPanelRecord DEF CheckoutInit, TabInv
<1> QED
  BY <1>3, <1>4 DEF PaysInv

LEMMA PaysKept ==
  ASSUME CheckoutInv, PaysInv, [CheckoutNext]_coVars PROVE PaysInv'
<1>1. ASSUME NEW t \in Titles, AddOne(t) \/ \E q \in 1..MaxUnits : AddFromForm(t, q) PROVE PaysInv'
  <2>1. 1 \in 1..MaxUnits
    BY QuantityAssumption
  <2> QED
    BY <1>1, <2>1, PutInCartPays DEF AddOne, AddFromForm
<1>2. CASE SubmitOrderForm
  <2>1. CASE \E served \in SUBSET Presses : Reload(served)
    BY <1>2, <2>1, ReloadPays DEF SubmitOrderForm
  <2>2. CASE UNCHANGED <<coRun, coOpen, coItems, coPanel>>
    BY <1>2, <2>2 DEF SubmitOrderForm, PaysInv, TabInv, CallsInv
  <2> QED
    BY <1>2, <2>1, <2>2 DEF SubmitOrderForm
<1>3. CASE OpenCart
  BY <1>3, StoredIsOfEach, FreshPanelRecord DEF OpenCart, PaysInv, TabInv, CallsInv
<1>4. CASE LeaveCart
  BY <1>4, TabLeft, CallsLeft DEF LeaveCart, PaysInv
<1>5. CASE ReloadTab
  BY <1>5, ReloadPays DEF ReloadTab
<1>6. CASE Login
  BY <1>6 DEF Login, PaysInv, TabInv, CallsInv
<1>7. CASE Logout
  BY <1>7, TabLeft, CallsLeft DEF Logout, PaysInv
<1>8. CASE PageAnswered
  <2>1. UNCHANGED <<coUser, coCart, coItems, coRun>> /\ (LoadUserPoints \/ LoadUserCards)
    BY <1>8 DEF PageAnswered
  <2>2. coPanel' \in PanelRecord
    BY <2>1 DEF LoadUserPoints, LoadUserCards, PaysInv, TabInv, PanelRecord
  <2> QED
    BY <2>1, <2>2 DEF PaysInv, TabInv, CallsInv
<1>9. CASE CartList
  BY <1>9, CartListPays
<1>10. CASE CartSummary
  BY <1>10, CartSummaryPays
<1>11. CASE HandlePayAnswered
  BY <1>11, AnsweredPays DEF HandlePayAnswered
<1>12. CASE UNCHANGED coVars
  BY <1>12 DEF coVars, PaysInv, TabInv, CallsInv
<1> QED
  BY <1>1, <1>2, <1>3, <1>4, <1>5, <1>6, <1>7, <1>8, <1>9, <1>10, <1>11, <1>12 DEF CheckoutNext

LEMMA PaysTypes ==
  ASSUME CheckoutInv, PaysInv PROVE CheckoutTypeOK
BY DEF CheckoutInv, CartInv, PaysInv, TabInv, CallsInv, IsCart, PanelRecord, RunRecord, CheckoutTypeOK

(* A call that announces success has gone through all of its items; with a *)
(* card, points are left over only if none were to be left.                *)
LEMMA DonePays ==
  ASSUME NEW run, Pays(run), run.step = "done", ~run.meddled
  PROVE  /\ run.paid = run.ordered
         /\ \A i \in DOMAIN run.items : run.paid[run.items[i].title] = run.items[i].quantity
         /\ {t \in Titles : run.paid[t] > 0} = TitlesOf(run.items)
         /\ run.entry > 0 => run.points = run.entry
<1>1. run \in RunRecord /\ CardAddsUp(run) /\ AsShown(run)
  BY DEF Pays, GoesWell
<1>2. /\ run.items \in Seq(CartItem) /\ run.paid \in [Titles -> 0..MaxUnits]
      /\ run.method \in {"POINT", "CARD"} /\ run.points \in Int /\ run.remaining \in Int /\ run.entry \in Int
  BY <1>1 DEF RunRecord
<1>3. run.items \in Seq(Item)
  BY <1>2, CartItemIsItem
<1>4. DOMAIN run.items = 1..Len(run.items) /\ run.at = Len(run.items)
  BY <1>1, <1>3, ItemFacts DEF AsShown
<1>5. PaidTo(run) = Len(run.items) /\ UsedTo(run) = Len(run.items)
  BY <1>4 DEF PaidTo, UsedTo
<1>6. BoughtSoFar(run) /\ UsedSoFar(run)
  BY <1>1 DEF AsShown
<1>7. run.paid = run.ordered
  BY <1>6 DEF BoughtSoFar
<1>8. \A i \in DOMAIN run.items : run.paid[run.items[i].title] = run.items[i].quantity
  BY <1>4, <1>5, <1>6 DEF BoughtSoFar
<1>9. {t \in Titles : run.paid[t] > 0} = TitlesOf(run.items)
  <2>1. ASSUME NEW t \in Titles, run.paid[t] > 0 PROVE t \in TitlesOf(run.items)
    BY <1>4, <1>5, <1>6, <2>1 DEF BoughtSoFar, TitlesOf
  <2>2. ASSUME NEW t \in TitlesOf(run.items) PROVE t \in Titles /\ run.paid[t] > 0
    <3>1. PICK i \in DOMAIN run.items : t = run.items[i].title
      BY DEF TitlesOf
    <3>2. run.items[i].title \in Titles /\ run.items[i].quantity \in Nat \ {0}
      BY <1>3, ItemFacts
    <3>3. run.paid[t] = run.items[i].quantity
      BY <1>8, <3>1
    <3> QED
      BY <3>1, <3>2, <3>3
  <2> QED
    BY <2>1, <2>2
<1>10. run.entry > 0 => run.points = run.entry
  <2>1. TotalPrice(run.items) = WorthOf(run.items, UsedTo(run)) /\ TotalPrice(run.items) \in Nat
    BY <1>3, <1>5, TotalIsWorth
  <2>2. CASE run.method = "POINT"
    BY <1>6, <2>1, <2>2 DEF UsedSoFar
  <2>3. CASE run.method = "CARD"
    <3>1. /\ run.points + run.remaining = run.entry /\ run.points >= 0
          /\ run.points > 0 => run.remaining >= 0
      BY <1>1, <2>3 DEF CardAddsUp
    <3>2. /\ run.entry <= TotalPrice(run.items)
          /\ run.remaining > 0 => run.points = TotalPrice(run.items)
      BY <1>6, <2>1, <2>3 DEF UsedSoFar
    <3> QED
      BY <1>2, <2>1, <3>1, <3>2
  <2> QED
    BY <1>2, <2>2, <2>3
<1> QED
  BY <1>7, <1>8, <1>9, <1>10

LEMMA PaysEnough ==
  ASSUME PaysInv PROVE CheckoutPaysWhatWasShown
<1> SUFFICES ASSUME NEW c \in Presses
             PROVE  /\ coRun[c].method = "CARD" => /\ coRun[c].points + coRun[c].remaining = coRun[c].entry
                                                   /\ coRun[c].points > 0 => coRun[c].remaining >= 0
                    /\ coRun[c].step = "done" /\ ~coRun[c].meddled =>
                         /\ coRun[c].paid = coRun[c].ordered
                         /\ \A i \in DOMAIN coRun[c].items :
                              coRun[c].paid[coRun[c].items[i].title] = coRun[c].items[i].quantity
                         /\ {t \in Titles : coRun[c].paid[t] > 0} = TitlesOf(coRun[c].items)
                         /\ coRun[c].entry > 0 => coRun[c].points = coRun[c].entry
  BY DEF CheckoutPaysWhatWasShown
<1>1. Pays(coRun[c])
  BY DEF PaysInv, CallsInv
<1> QED
  BY <1>1, DonePays DEF Pays, CardAddsUp

(* The tab of a cart stays what it is: its carts hold products in quantities     *)
(* within the bound, and each call of handlePay is a call on such a cart         *)
(* (Cart.js, the whole component).                                               *)
THEOREM CheckoutTypeCorrect == CheckoutSpec => []CheckoutTypeOK
BY CheckoutInitially, CheckoutKept, PaysInitially, PaysKept, PaysTypes, PTL DEF CheckoutSpec

(* A checkout that announces success has ordered and paid each item in the       *)
(* quantity shown and used exactly the points set aside for it, unless           *)
(* quantities were changed meanwhile, for any prices and balance and however     *)
(* the tab is used in between (Cart.js handlePay).                               *)
THEOREM CheckoutPays == CheckoutSpec => []CheckoutPaysWhatWasShown
BY CheckoutInitially, CheckoutKept, PaysInitially, PaysKept, PaysEnough, PTL DEF CheckoutSpec
=============================================================================
