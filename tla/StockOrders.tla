----------------------------- MODULE StockOrders -----------------------------
(***************************************************************************)
(* order-service and product-service over ONE product: its MongoDB         *)
(* document (a Sell), its Redis copy product:info:<id>, the orders for its *)
(* title, and the calls that write the document.                           *)
(*                                                                         *)
(* RegistrationController.save asks for the stock, saves the order, calls  *)
(* decrementStock over HTTP and publishes an event, with nothing to undo   *)
(* the first steps when a later one fails.  SellController decrements with *)
(* one findAndModify, but restoreStock and update write back a whole       *)
(* document (Sell has no @Version), and each write is followed by an       *)
(* eviction of its own.                                                    *)
(*                                                                         *)
(* A document is its stock and who edited its other fields last.           *)
(***************************************************************************)
EXTENDS Integers

CONSTANTS Orders,        \* the calls of POST /order for the title
          Quantities,    \* what one may ask for
          InitialStock,  \* the units the product is put on sale with
          Restorers,     \* payment-service's calls of restoreStock
          Sellers,       \* sellers that edit the product once
          TypedStocks,   \* the stocks they may type, besides leaving it as shown
          Readers,       \* visitors of its page
          None           \* no cached document, no editor, no order

ASSUME QuantitiesAssumption == Quantities \subseteq Nat \ {0}
ASSUME StockAssumption == InitialStock \in Nat
ASSUME TypedAssumption == TypedStocks \subseteq Nat
ASSUME NobodyAssumption == None \notin Sellers \cup Orders

VARIABLES
  doc,          \* the document in MongoDB
  cache,        \* product:info:<id>
  quantity,     \* per order: total_Count
  pc,           \* per order: the next step of RegistrationController.save
  status,       \* per order: the status of its row in collection order
  decrement,    \* per order: its call of decrementStock, as product-service has it
  taken,        \* per order: have its units been taken
  published,    \* per order: events in topic order-events
  restore,      \* per restorer: its step, its order and the document it read
  visit,        \* per reader or seller: its step and the document it was shown
  sold,         \* history: units decrements took, less those restorations gave back
  typed,        \* history: units sellers added to what they were shown
  overwritten,  \* history: has a write put back a stock no longer current
  raced         \* history: is there a copy whose eviction came too early or failed

vars == <<doc, cache, quantity, pc, status, decrement, taken, published,
          restore, visit, sold, typed, overwritten, raced>>

orderVars == <<quantity, pc, status, decrement, taken, published>>

Visitors == Readers \cup Sellers

NoDoc == [stock |-> 0, edition |-> None]

Init ==
  /\ doc = [stock |-> InitialStock, edition |-> None]
  /\ cache = None
  /\ quantity \in [Orders -> Quantities]
  /\ pc = [o \in Orders |-> "check"]
  /\ status = [o \in Orders |-> "none"]
  /\ decrement = [o \in Orders |-> "none"]
  /\ taken = [o \in Orders |-> FALSE]
  /\ published = [o \in Orders |-> 0]
  /\ restore = [r \in Restorers |-> [step |-> "idle", of |-> None, read |-> NoDoc]]
  /\ visit = [v \in Visitors |-> [step |-> "idle", shown |-> NoDoc]]
  /\ sold = 0 /\ typed = 0
  /\ overwritten = FALSE /\ raced = FALSE

Goto(o, step) == pc' = [pc EXCEPT ![o] = step]

(* evictProduct.  With the copy goes whatever was wrong with it.  Redis may *)
(* fail, or the process die before it: then the copy of before stays.       *)
EvictProduct == cache' = None /\ raced' = FALSE
EvictionLost == UNCHANGED cache /\ raced' = (cache # None \/ raced)

-----------------------------------------------------------------------------
(* RegistrationController.save *)

(* findByTitle and the first look at the stock. *)
CheckStock(o) ==
  /\ pc[o] = "check"
  /\ \/ doc.stock < quantity[o] /\ Goto(o, "rejected")
     \/ doc.stock >= quantity[o] /\ Goto(o, "save")
     \/ Goto(o, "failed")
  /\ UNCHANGED <<doc, cache, quantity, status, decrement, taken, published,
                 restore, visit, sold, typed, overwritten, raced>>

(* registrationRepository.save, then the call of decrementStock sets out. *)
SaveOrder(o) ==
  /\ pc[o] = "save"
  /\ \/ /\ status' = [status EXCEPT ![o] = "CONFIRMED"]
        /\ decrement' = [decrement EXCEPT ![o] = "sent"]
        /\ Goto(o, "wait")
     \/ Goto(o, "failed") /\ UNCHANGED <<status, decrement>>
  /\ UNCHANGED <<doc, cache, quantity, taken, published, restore, visit,
                 sold, typed, overwritten, raced>>

IgnoreAnswer(o) ==   \* the call in a try block that only logs, for mutation
  /\ pc[o] = "wait"
  /\ Goto(o, "publish")
  /\ UNCHANGED <<doc, cache, quantity, status, decrement, taken, published,
                 restore, visit, sold, typed, overwritten, raced>>

(* The answer comes, or an exception does: a refusal, a failure, a timeout. *)
GetAnswer(o) ==
  /\ pc[o] = "wait"
  /\ \/ decrement[o] = "ok" /\ Goto(o, "publish")
     \/ Goto(o, "failed")
  /\ UNCHANGED <<doc, cache, quantity, status, decrement, taken, published,
                 restore, visit, sold, typed, overwritten, raced>>

(* kafkaTemplate.send: it may throw, and what it took may still be lost. *)
Publish(o) ==
  /\ pc[o] = "publish"
  /\ \/ published' = [published EXCEPT ![o] = @ + 1] /\ Goto(o, "ok")
     \/ UNCHANGED published /\ (Goto(o, "ok") \/ Goto(o, "failed"))
  /\ UNCHANGED <<doc, cache, quantity, status, decrement, taken,
                 restore, visit, sold, typed, overwritten, raced>>

-----------------------------------------------------------------------------
(* SellController.decrementStock, which runs whether or not its caller still *)
(* waits for it.                                                             *)
NoStockCriterion(o) == TRUE   \* the query by _id alone, for mutation

InStock(o) == doc.stock >= quantity[o]

FindAndModify(o) ==
  /\ decrement[o] = "sent"
  /\ \/ /\ InStock(o)
        /\ doc' = [doc EXCEPT !.stock = @ - quantity[o]]
        /\ taken' = [taken EXCEPT ![o] = TRUE]
        /\ sold' = sold + quantity[o]
        /\ decrement' = [decrement EXCEPT ![o] = "evict"]
     \/ /\ ~InStock(o)
        /\ decrement' = [decrement EXCEPT ![o] = "refused"]
        /\ UNCHANGED <<doc, taken, sold>>
  /\ UNCHANGED <<cache, quantity, pc, status, published, restore, visit,
                 typed, overwritten, raced>>

NeverEvicted(o) ==   \* the call of evictProduct forgotten, for mutation
  /\ decrement[o] = "evict"
  /\ decrement' = [decrement EXCEPT ![o] = "ok"]
  /\ UNCHANGED <<doc, cache, quantity, pc, status, taken, published, restore,
                 visit, sold, typed, overwritten, raced>>

EvictAfterDecrement(o) ==
  /\ decrement[o] = "evict"
  /\ \/ EvictProduct /\ decrement' = [decrement EXCEPT ![o] = "ok"]
     \/ EvictionLost /\ decrement' = [decrement EXCEPT ![o] = "error"]
  /\ UNCHANGED <<doc, quantity, pc, status, taken, published, restore, visit,
                 sold, typed, overwritten>>

(* The call is lost, or fails before it changes anything. *)
DecrementFails(o) ==
  /\ decrement[o] = "sent"
  /\ decrement' = [decrement EXCEPT ![o] = "error"]
  /\ UNCHANGED <<doc, cache, quantity, pc, status, taken, published, restore,
                 visit, sold, typed, overwritten, raced>>

-----------------------------------------------------------------------------
(* SellController.restoreStock: read, add, write the whole document, evict. *)
(* payment-service calls it for every attempt to pay an order that failed   *)
(* (PaymentService:167-170), and nobody checks whether the units of the     *)
(* order have been given back before.  An order is paid once it is placed   *)
(* (Cart.js:123-136).                                                       *)
RestoreStep(r, step) == restore' = [restore EXCEPT ![r].step = step]

ReadForRestore(r) ==
  /\ restore[r].step = "idle"
  /\ \E o \in Orders :
       /\ pc[o] = "ok"
       /\ restore' = [restore EXCEPT ![r] = [step |-> "save", of |-> o, read |-> doc]]
  /\ UNCHANGED <<doc, cache, orderVars, visit, sold, typed, overwritten, raced>>

NothingAdded(r) == restore[r].read.stock   \* for mutation

RestoredStock(r) == restore[r].read.stock + quantity[restore[r].of]

SaveRestored(r) ==
  /\ restore[r].step = "save"
  /\ doc' = [restore[r].read EXCEPT !.stock = RestoredStock(r)]
  /\ overwritten' = (overwritten \/ restore[r].read.stock # doc.stock)
  /\ sold' = sold - quantity[restore[r].of]
  /\ RestoreStep(r, "evict")
  /\ UNCHANGED <<cache, orderVars, visit, typed, raced>>

RestoreFails(r) ==
  /\ restore[r].step = "save"
  /\ RestoreStep(r, "done")
  /\ UNCHANGED <<doc, cache, orderVars, visit, sold, typed, overwritten, raced>>

EvictAfterRestore(r) ==
  /\ restore[r].step = "evict"
  /\ EvictProduct \/ EvictionLost
  /\ RestoreStep(r, "done")
  /\ UNCHANGED <<doc, orderVars, visit, sold, typed, overwritten>>

-----------------------------------------------------------------------------
(* SellController.findById, for the product page and for the seller's form: *)
(* the copy if there is one, else the document, which becomes the copy.     *)
VisitStep(v, step, d) == visit' = [visit EXCEPT ![v] = [step |-> step, shown |-> d]]

LookInCache(v) ==
  /\ visit[v].step = "idle"
  /\ IF cache = None THEN VisitStep(v, "read", NoDoc) ELSE VisitStep(v, "shown", cache)
  /\ UNCHANGED <<doc, cache, orderVars, restore, sold, typed, overwritten, raced>>

ReadDocument(v) ==
  /\ visit[v].step = "read"
  /\ VisitStep(v, "fill", doc)
  /\ UNCHANGED <<doc, cache, orderVars, restore, sold, typed, overwritten, raced>>

(* cacheProduct, whatever was written since the document was read. *)
CacheProduct(v) ==
  /\ visit[v].step = "fill"
  /\ cache' = visit[v].shown
  /\ raced' = (visit[v].shown # doc)
  /\ VisitStep(v, "shown", visit[v].shown)
  /\ UNCHANGED <<doc, orderVars, restore, sold, typed, overwritten>>

(* The key's time to live (600 s) is over. *)
CacheExpires ==
  /\ cache # None
  /\ EvictProduct
  /\ UNCHANGED <<doc, orderVars, restore, visit, sold, typed, overwritten>>

(* SellController.update: every field but managerId comes from the seller's *)
(* form, the stock included: as findById showed it (Editgonggu.js:83-99),   *)
(* or as the seller typed it (Editgonggu.js:156).  Below zero is refused.   *)
SaveEdit(v) ==
  /\ v \in Sellers
  /\ visit[v].step = "shown"
  /\ \E n \in {visit[v].shown.stock} \cup TypedStocks :
       /\ doc' = [stock |-> n, edition |-> v]
       /\ typed' = typed + (n - visit[v].shown.stock)
  /\ overwritten' = (overwritten \/ visit[v].shown.stock # doc.stock)
  /\ VisitStep(v, "evict", visit[v].shown)
  /\ UNCHANGED <<cache, orderVars, restore, sold, raced>>

EvictAfterEdit(v) ==
  /\ visit[v].step = "evict"
  /\ EvictProduct \/ EvictionLost
  /\ VisitStep(v, "done", NoDoc)
  /\ UNCHANGED <<doc, orderVars, restore, sold, typed, overwritten>>

-----------------------------------------------------------------------------
Ended == {"ok", "rejected", "failed"}

(* Everything asked for has been done. *)
AllDone ==
  /\ \A o \in Orders : /\ pc[o] \in Ended
                       /\ decrement[o] \notin {"sent", "evict"}
  /\ \A v \in Readers : visit[v].step = "shown"
  /\ \A v \in Sellers : visit[v].step = "done"
  /\ \A r \in Restorers : restore[r].step \in {"idle", "done"}
  /\ UNCHANGED vars

OrderStep(o) == \/ CheckStock(o) \/ SaveOrder(o) \/ GetAnswer(o) \/ Publish(o)
                \/ FindAndModify(o) \/ EvictAfterDecrement(o) \/ DecrementFails(o)

RestorerStep(r) == \/ ReadForRestore(r) \/ SaveRestored(r) \/ RestoreFails(r)
                   \/ EvictAfterRestore(r)

VisitorStep(v) == \/ LookInCache(v) \/ ReadDocument(v) \/ CacheProduct(v)
                  \/ SaveEdit(v) \/ EvictAfterEdit(v)

Next ==
  \/ \E o \in Orders : OrderStep(o)
  \/ \E r \in Restorers : RestorerStep(r)
  \/ \E v \in Visitors : VisitorStep(v)
  \/ CacheExpires
  \/ AllDone

Spec == Init /\ [][Next]_vars

-----------------------------------------------------------------------------
(* Every variable has its type; no stock, stored, cached or about to be     *)
(* written, is negative: decrementStock's criterion and the whole-document  *)
(* writes keep it so in every interleaving (docs/LOAD_TEST.md:12).          *)
Docs == [stock : Nat, edition : Sellers \cup {None}]

TypeOK ==
  /\ doc \in Docs
  /\ cache \in Docs \cup {None}
  /\ quantity \in [Orders -> Quantities]
  /\ pc \in [Orders -> {"check", "save", "wait", "publish"} \cup Ended]
  /\ status \in [Orders -> {"none", "CONFIRMED"}]
  /\ decrement \in [Orders -> {"none", "sent", "evict", "ok", "refused", "error"}]
  /\ taken \in [Orders -> BOOLEAN]
  /\ published \in [Orders -> 0 .. 1]
  /\ restore \in [Restorers -> [step : {"idle", "save", "evict", "done"},
                                of : Orders \cup {None}, read : Docs]]
  /\ visit \in [Visitors -> [step : {"idle", "read", "fill", "shown", "evict", "done"},
                             shown : Docs]]
  /\ sold \in Int /\ typed \in Int
  /\ overwritten \in BOOLEAN /\ raced \in BOOLEAN

(* Every writer of the stock changes it by what it was asked to, and by     *)
(* nothing else, unless a whole-document write (restoreStock, update) puts  *)
(* back a stock that is no longer current: decrements by what they take,    *)
(* restorations by what they give back each time they are called, sellers   *)
(* by what they type beside what they were shown, however these, timeouts   *)
(* and failures interleave.                                                 *)
StockConserved == ~overwritten => doc.stock + sold = InitialStock + typed

(* An event in order-events, on which points are earned and orders counted, *)
(* stands for a saved order whose units were taken.                         *)
EventMeansSale ==
  \A o \in Orders : published[o] > 0 => status[o] = "CONFIRMED" /\ taken[o]

(* A copy differs from the document only while a writer is on its way to    *)
(* evict it, or when a fill came after the eviction or the eviction failed: *)
(* no other order of fills, evictions and writes leaves a stale copy.       *)
CopyIsCurrent ==
  \/ cache \in {None, doc}
  \/ raced
  \/ \E o \in Orders : decrement[o] = "evict"
  \/ \E r \in Restorers : restore[r].step = "evict"
  \/ \E v \in Sellers : visit[v].step = "evict"

-----------------------------------------------------------------------------
(* What the documents say and the code does not do.                        *)

(* README.md:184 and 459: no overselling, since the decrement is atomic.   *)
(* What is sold and what is still on sale is what was put on sale, and     *)
(* what sellers added.                                                     *)
NotOversold == doc.stock + sold <= InitialStock + typed
=============================================================================
