-------------------------- MODULE StockOrdersProofs --------------------------
(***************************************************************************)
(* Proofs about StockOrders: its types, the conservation of stock, what an *)
(* event stands for and when a copy is stale, for every set of orders,     *)
(* restorers, sellers and readers, every stock and all quantities.         *)
(*                                                                         *)
(* What makes the properties inductive: a restorer that is about to write  *)
(* has an order, and an order that has come past a step has done it.       *)
(***************************************************************************)
EXTENDS StockOrders, TLAPS

(* A restorer about to write restores the units of some order. *)
RestoresAnOrder == \A r \in Restorers : restore[r].step = "save" => restore[r].of \in Orders

(* An order is saved before its call sets out; one whose units were given  *)
(* to it, or that was told so, has had them taken.                         *)
SavedBeforeCalled ==
  \A o \in Orders : /\ pc[o] \in {"wait", "publish", "ok"} => status[o] = "CONFIRMED"
                    /\ pc[o] \in {"check", "save"} => decrement[o] = "none"

TakenBeforeTold ==
  \A o \in Orders :
    /\ decrement[o] \in {"evict", "ok"} => taken[o]
    /\ pc[o] \in {"publish", "ok"} => taken[o]

OnlyThenPublished ==
  \A o \in Orders : /\ pc[o] = "publish" => published[o] = 0
                    /\ pc[o] \in {"check", "save", "wait"} => published[o] = 0

IInv ==
  /\ TypeOK /\ RestoresAnOrder
  /\ SavedBeforeCalled /\ TakenBeforeTold /\ OnlyThenPublished
  /\ StockConserved /\ EventMeansSale /\ CopyIsCurrent

-----------------------------------------------------------------------------
(* Quantities are numbers: what an order takes or gives back. *)
LEMMA QuantitiesAreNat == \A q \in Quantities : q \in Nat
  BY QuantitiesAssumption, SMT

LEMMA QuantityIsNat ==
  ASSUME TypeOK, NEW o \in Orders
  PROVE  quantity[o] \in Nat
<1>1. quantity[o] \in Quantities
  BY DEF TypeOK
<1> QED
  BY <1>1, QuantitiesAreNat, Zenon

(* What a restorer writes back is a document. *)
LEMMA RestoredIsDoc ==
  ASSUME TypeOK, RestoresAnOrder, NEW r \in Restorers, restore[r].step = "save"
  PROVE  /\ RestoredStock(r) \in Nat
         /\ RestoredStock(r) = restore[r].read.stock + quantity[restore[r].of]
         /\ [restore[r].read EXCEPT !.stock = RestoredStock(r)] \in Docs
         /\ [restore[r].read EXCEPT !.stock = RestoredStock(r)].stock = RestoredStock(r)
<1>1. restore[r].of \in Orders
  BY DEF RestoresAnOrder
<1>2. restore[r].read \in Docs
  BY DEF TypeOK
<1>3. quantity[restore[r].of] \in Nat
  BY <1>1, QuantityIsNat
<1>4. RestoredStock(r) \in Nat
  BY <1>2, <1>3 DEF RestoredStock, Docs
<1> QED
  BY <1>2, <1>4 DEF RestoredStock, Docs

(* What a decrement leaves is a document: its criterion was met. *)
LEMMA DecrementedIsDoc ==
  ASSUME TypeOK, NEW o \in Orders, InStock(o)
  PROVE  /\ [doc EXCEPT !.stock = @ - quantity[o]] \in Docs
         /\ [doc EXCEPT !.stock = @ - quantity[o]].stock = doc.stock - quantity[o]
<1>1. doc \in Docs
  BY DEF TypeOK
<1>2. quantity[o] \in Nat
  BY QuantityIsNat
<1> QED
  BY <1>1, <1>2 DEF InStock, Docs

LEMMA IInvInit == Init => IInv
<1> SUFFICES ASSUME Init PROVE IInv
  OBVIOUS
<1>1. TypeOK
  <2>1. NoDoc \in Docs /\ doc \in Docs
    BY StockAssumption DEF Init, NoDoc, Docs
  <2>2. /\ restore \in [Restorers -> [step : {"idle", "save", "evict", "done"},
                                     of : Orders \cup {None}, read : Docs]]
        /\ visit \in [Visitors -> [step : {"idle", "read", "fill", "shown", "evict", "done"},
                                  shown : Docs]]
    BY <2>1 DEF Init
  <2>3. published \in [Orders -> 0 .. 1] /\ sold \in Int /\ typed \in Int
    BY DEF Init
  <2> QED
    BY <2>1, <2>2, <2>3 DEF Init, TypeOK, Ended
<1>2. StockConserved
  BY StockAssumption DEF Init, StockConserved
<1> QED
  BY <1>1, <1>2 DEF Init, IInv, RestoresAnOrder, SavedBeforeCalled, TakenBeforeTold,
     OnlyThenPublished, EventMeansSale, CopyIsCurrent
(* Every step keeps the types. *)
LEMMA TypeOKStep ==
  ASSUME TypeOK, RestoresAnOrder, OnlyThenPublished, [Next]_vars
  PROVE  TypeOK'
<1>0. /\ TypedStocks \subseteq Nat /\ NoDoc \in Docs /\ NoDoc.stock \in Nat
      /\ \A v \in Sellers, n \in Nat : [stock |-> n, edition |-> v] \in Docs
      /\ \A d \in Docs : d.stock \in Nat
  BY TypedAssumption DEF NoDoc, Docs
<1>a. \A o \in Orders : quantity[o] \in Nat
  BY QuantityIsNat
<1> USE DEF TypeOK, Goto, Ended, EvictProduct, EvictionLost, Visitors, orderVars
<1>1. ASSUME NEW o \in Orders, CheckStock(o) PROVE TypeOK'
  BY <1>1 DEF CheckStock
<1>2. ASSUME NEW o \in Orders, SaveOrder(o) PROVE TypeOK'
  BY <1>2 DEF SaveOrder
<1>3. ASSUME NEW o \in Orders, GetAnswer(o) PROVE TypeOK'
  BY <1>3 DEF GetAnswer
<1>4. ASSUME NEW o \in Orders, Publish(o) PROVE TypeOK'
  BY <1>4 DEF Publish, OnlyThenPublished
<1>5. ASSUME NEW o \in Orders, FindAndModify(o) PROVE TypeOK'
  <2>1. CASE InStock(o)
    <3>1. doc' \in Docs
      BY <1>5, <2>1, DecrementedIsDoc DEF FindAndModify
    <3>2. sold' \in Int /\ typed' \in Int
      BY <1>5, <1>a, <2>1 DEF FindAndModify
    <3>3. taken' \in [Orders -> BOOLEAN] /\ decrement' \in [Orders -> {"none", "sent", "evict", "ok", "refused", "error"}]
      BY <1>5, <2>1 DEF FindAndModify
    <3> QED
      BY <1>5, <3>1, <3>2, <3>3 DEF FindAndModify
  <2>2. CASE ~InStock(o)
    BY <1>5, <2>2 DEF FindAndModify
  <2> QED
    BY <2>1, <2>2
<1>6. ASSUME NEW o \in Orders, EvictAfterDecrement(o) PROVE TypeOK'
  BY <1>6 DEF EvictAfterDecrement
<1>7. ASSUME NEW o \in Orders, DecrementFails(o) PROVE TypeOK'
  BY <1>7 DEF DecrementFails
<1>8. ASSUME NEW r \in Restorers, ReadForRestore(r) PROVE TypeOK'
  BY <1>8 DEF ReadForRestore
<1>9. ASSUME NEW r \in Restorers, SaveRestored(r) PROVE TypeOK'
  BY <1>9, <1>a, RestoredIsDoc DEF SaveRestored, RestoreStep, RestoresAnOrder
<1>10. ASSUME NEW r \in Restorers, RestoreFails(r) PROVE TypeOK'
  BY <1>10 DEF RestoreFails, RestoreStep
<1>11. ASSUME NEW r \in Restorers, EvictAfterRestore(r) PROVE TypeOK'
  BY <1>11 DEF EvictAfterRestore, RestoreStep
<1>12. ASSUME NEW v \in Visitors, LookInCache(v) PROVE TypeOK'
  BY <1>0, <1>12 DEF LookInCache, VisitStep
<1>13. ASSUME NEW v \in Visitors, ReadDocument(v) PROVE TypeOK'
  BY <1>13 DEF ReadDocument, VisitStep
<1>14. ASSUME NEW v \in Visitors, CacheProduct(v) PROVE TypeOK'
  BY <1>14 DEF CacheProduct, VisitStep
<1>15. ASSUME NEW v \in Visitors, SaveEdit(v) PROVE TypeOK'
  BY <1>0, <1>15 DEF SaveEdit, VisitStep
<1>16. ASSUME NEW v \in Visitors, EvictAfterEdit(v) PROVE TypeOK'
  BY <1>0, <1>16 DEF EvictAfterEdit, VisitStep
<1>17. CASE CacheExpires
  BY <1>17 DEF CacheExpires
<1>18. CASE AllDone \/ UNCHANGED vars
  BY <1>18 DEF AllDone, vars
<1> QED
  BY <1>1, <1>2, <1>3, <1>4, <1>5, <1>6, <1>7, <1>8, <1>9, <1>10, <1>11, <1>12,
     <1>13, <1>14, <1>15, <1>16, <1>17, <1>18
     DEF Next, OrderStep, RestorerStep, VisitorStep

(* What an order has done by the time it is at a step, and what its event   *)
(* stands for, is kept by the steps of its own call and of its decrement,   *)
(* and disturbed by no other.                                               *)
Progress == SavedBeforeCalled /\ TakenBeforeTold /\ OnlyThenPublished /\ EventMeansSale

LEMMA ProgressStep ==
  ASSUME TypeOK, RestoresAnOrder, Progress, [Next]_vars
  PROVE  RestoresAnOrder' /\ Progress'
<1> USE DEF TypeOK, Progress, RestoresAnOrder, SavedBeforeCalled, TakenBeforeTold,
            OnlyThenPublished, EventMeansSale, Goto, Ended
<1>1. ASSUME NEW o \in Orders, CheckStock(o) PROVE RestoresAnOrder' /\ Progress'
  BY <1>1 DEF CheckStock
<1>2. ASSUME NEW o \in Orders, SaveOrder(o) PROVE RestoresAnOrder' /\ Progress'
  BY <1>2 DEF SaveOrder
<1>3. ASSUME NEW o \in Orders, GetAnswer(o) PROVE RestoresAnOrder' /\ Progress'
  BY <1>3 DEF GetAnswer
<1>4. ASSUME NEW o \in Orders, Publish(o) PROVE RestoresAnOrder' /\ Progress'
  BY <1>4 DEF Publish
<1>5. ASSUME NEW o \in Orders, FindAndModify(o) PROVE RestoresAnOrder' /\ Progress'
  BY <1>5 DEF FindAndModify
<1>6. ASSUME NEW o \in Orders, EvictAfterDecrement(o) PROVE RestoresAnOrder' /\ Progress'
  BY <1>6 DEF EvictAfterDecrement
<1>7. ASSUME NEW o \in Orders, DecrementFails(o) PROVE RestoresAnOrder' /\ Progress'
  BY <1>7 DEF DecrementFails
<1>8. ASSUME NEW r \in Restorers, ReadForRestore(r) PROVE RestoresAnOrder' /\ Progress'
  BY <1>8 DEF ReadForRestore, orderVars
<1>9. ASSUME NEW r \in Restorers, SaveRestored(r) PROVE RestoresAnOrder' /\ Progress'
  BY <1>9 DEF SaveRestored, RestoreStep, orderVars
<1>10. ASSUME NEW r \in Restorers, RestoreFails(r) \/ EvictAfterRestore(r)
       PROVE  RestoresAnOrder' /\ Progress'
  BY <1>10 DEF RestoreFails, EvictAfterRestore, RestoreStep, orderVars
<1>11. ASSUME NEW v \in Visitors, VisitorStep(v) PROVE RestoresAnOrder' /\ Progress'
  BY <1>11 DEF VisitorStep, LookInCache, ReadDocument, CacheProduct, SaveEdit,
     EvictAfterEdit, orderVars
<1>12. CASE CacheExpires \/ AllDone \/ UNCHANGED vars
  BY <1>12 DEF CacheExpires, AllDone, vars, orderVars
<1> QED
  BY <1>1, <1>2, <1>3, <1>4, <1>5, <1>6, <1>7, <1>8, <1>9, <1>10, <1>11, <1>12
     DEF Next, OrderStep, RestorerStep

(* Stock moves between the document and the orders: by a decrement, by a    *)
(* restoration that read what it overwrites, and by an edit that was shown  *)
(* what it overwrites, which adds what its seller typed.                    *)
LEMMA StockConservedStep ==
  ASSUME TypeOK, RestoresAnOrder, StockConserved, [Next]_vars
  PROVE  StockConserved'
<1>0. doc.stock \in Nat /\ sold \in Int /\ typed \in Int /\ InitialStock \in Nat
  BY StockAssumption DEF TypeOK, Docs
<1>1. ASSUME NEW o \in Orders, FindAndModify(o) PROVE StockConserved'
  <2>1. CASE InStock(o)
    <3>1. /\ doc'.stock = doc.stock - quantity[o]
          /\ sold' = sold + quantity[o]
          /\ overwritten' = overwritten /\ typed' = typed
      BY <1>1, <2>1, DecrementedIsDoc DEF FindAndModify
    <3>2. quantity[o] \in Nat
      BY QuantityIsNat
    <3> QED
      BY <1>0, <3>1, <3>2 DEF StockConserved
  <2>2. CASE ~InStock(o)
    BY <1>1, <2>2 DEF FindAndModify, StockConserved
  <2> QED
    BY <2>1, <2>2
<1>2. ASSUME NEW r \in Restorers, SaveRestored(r) PROVE StockConserved'
  <2>1. restore[r].step = "save"
    BY <1>2 DEF SaveRestored
  <2>2. /\ doc'.stock = restore[r].read.stock + quantity[restore[r].of]
        /\ sold' = sold - quantity[restore[r].of] /\ typed' = typed
        /\ overwritten' = (overwritten \/ restore[r].read.stock # doc.stock)
    BY <1>2, <2>1, RestoredIsDoc DEF SaveRestored
  <2>3. quantity[restore[r].of] \in Nat
    BY <2>1, QuantityIsNat DEF RestoresAnOrder
  <2>4. CASE overwritten \/ restore[r].read.stock # doc.stock
    BY <2>2, <2>4 DEF StockConserved
  <2>5. CASE ~overwritten /\ restore[r].read.stock = doc.stock
    <3>1. doc.stock + sold = InitialStock + typed
      BY <2>5 DEF StockConserved
    <3>2. doc'.stock = doc.stock + quantity[restore[r].of]
      BY <2>2, <2>5
    <3> QED
      BY <1>0, <2>2, <2>3, <3>1, <3>2 DEF StockConserved
  <2> QED
    BY <2>4, <2>5
<1>3. ASSUME NEW v \in Visitors, SaveEdit(v) PROVE StockConserved'
  <2>1. PICK n \in {visit[v].shown.stock} \cup TypedStocks :
          /\ doc' = [stock |-> n, edition |-> v]
          /\ typed' = typed + (n - visit[v].shown.stock)
    BY <1>3 DEF SaveEdit
  <2>2. doc'.stock = n /\ sold' = sold /\ overwritten' = (overwritten \/ visit[v].shown.stock # doc.stock)
    BY <1>3, <2>1 DEF SaveEdit
  <2>3. visit[v].shown.stock \in Nat /\ n \in Nat
    BY TypedAssumption DEF TypeOK, Docs
  <2>4. CASE overwritten \/ visit[v].shown.stock # doc.stock
    BY <2>2, <2>4 DEF StockConserved
  <2>5. CASE ~overwritten /\ visit[v].shown.stock = doc.stock
    <3>1. doc.stock + sold = InitialStock + typed
      BY <2>5 DEF StockConserved
    <3>2. typed' = typed + (n - doc.stock)
      BY <2>1, <2>5
    <3> QED
      BY <1>0, <2>2, <2>3, <3>1, <3>2 DEF StockConserved
  <2> QED
    BY <2>4, <2>5
<1>4. ASSUME UNCHANGED <<doc, sold, typed, overwritten>> PROVE StockConserved'
  BY <1>4 DEF StockConserved
<1> QED
  BY <1>1, <1>2, <1>3, <1>4
     DEF Next, OrderStep, CheckStock, SaveOrder, GetAnswer, Publish,
     EvictAfterDecrement, DecrementFails, RestorerStep, ReadForRestore, RestoreFails,
     EvictAfterRestore, VisitorStep, LookInCache, ReadDocument, CacheProduct,
     EvictAfterEdit, CacheExpires, AllDone, vars, orderVars

(* Every writer stays on its way to the eviction until it evicts, or fails  *)
(* to and says so; only a fill can bring a copy back.                       *)
LEMMA CopyIsCurrentStep ==
  ASSUME TypeOK, SavedBeforeCalled, CopyIsCurrent, [Next]_vars
  PROVE  CopyIsCurrent'
<1> USE DEF TypeOK, CopyIsCurrent, EvictProduct, EvictionLost
<1>1. ASSUME NEW o \in Orders, FindAndModify(o) PROVE CopyIsCurrent'
  BY <1>1 DEF FindAndModify
<1>2. ASSUME NEW o \in Orders, SaveOrder(o) PROVE CopyIsCurrent'
  BY <1>2 DEF SaveOrder, SavedBeforeCalled
<1>3. ASSUME NEW o \in Orders, EvictAfterDecrement(o) PROVE CopyIsCurrent'
  BY <1>3 DEF EvictAfterDecrement
<1>4. ASSUME NEW o \in Orders, DecrementFails(o) PROVE CopyIsCurrent'
  BY <1>4 DEF DecrementFails
<1>5. ASSUME NEW r \in Restorers, ReadForRestore(r) \/ RestoreFails(r) PROVE CopyIsCurrent'
  <2>1. /\ UNCHANGED <<doc, cache, decrement, visit, raced>>
        /\ restore[r].step # "evict"
    BY <1>5 DEF ReadForRestore, RestoreFails, RestoreStep, orderVars
  <2>2. \A q \in Restorers \ {r} : restore'[q] = restore[q]
    BY <1>5 DEF ReadForRestore, RestoreFails, RestoreStep
  <2>3. \A q \in Restorers : restore[q].step = "evict" => restore'[q].step = "evict"
    BY <2>1, <2>2
  <2> QED
    BY <2>1, <2>3
<1>6. ASSUME NEW r \in Restorers, SaveRestored(r) PROVE CopyIsCurrent'
  BY <1>6 DEF SaveRestored, RestoreStep
<1>7. ASSUME NEW r \in Restorers, EvictAfterRestore(r) PROVE CopyIsCurrent'
  BY <1>7 DEF EvictAfterRestore, RestoreStep, orderVars
<1>8. ASSUME NEW v \in Visitors, LookInCache(v) \/ ReadDocument(v) PROVE CopyIsCurrent'
  BY <1>8 DEF LookInCache, ReadDocument, VisitStep, Visitors, orderVars
<1>9. ASSUME NEW v \in Visitors, CacheProduct(v) PROVE CopyIsCurrent'
  BY <1>9 DEF CacheProduct
<1>10. ASSUME NEW v \in Visitors, SaveEdit(v) PROVE CopyIsCurrent'
  BY <1>10 DEF SaveEdit, VisitStep, Visitors
<1>11. ASSUME NEW v \in Visitors, EvictAfterEdit(v) PROVE CopyIsCurrent'
  BY <1>11 DEF EvictAfterEdit, orderVars
<1>12. CASE CacheExpires
  BY <1>12 DEF CacheExpires
<1>13. ASSUME UNCHANGED <<doc, cache, decrement, restore, visit, raced>> PROVE CopyIsCurrent'
  BY <1>13
<1> QED
  BY <1>1, <1>2, <1>3, <1>4, <1>5, <1>6, <1>7, <1>8, <1>9, <1>10, <1>11, <1>12, <1>13
     DEF Next, OrderStep, RestorerStep, VisitorStep, CheckStock, GetAnswer, Publish,
     AllDone, vars

(* One more step, all together. *)
LEMMA IInvStep == IInv /\ [Next]_vars => IInv'
<1> SUFFICES ASSUME IInv, [Next]_vars PROVE IInv'
  OBVIOUS
<1>1. TypeOK /\ RestoresAnOrder /\ OnlyThenPublished /\ StockConserved /\ CopyIsCurrent
  BY DEF IInv
<1>2. Progress
  BY DEF IInv, Progress
<1>3. TypeOK'
  BY <1>1, TypeOKStep
<1>4. RestoresAnOrder' /\ Progress'
  BY <1>1, <1>2, ProgressStep
<1>5. StockConserved' /\ CopyIsCurrent'
  BY <1>1, <1>2, StockConservedStep, CopyIsCurrentStep DEF Progress
<1> QED
  BY <1>3, <1>4, <1>5 DEF IInv, Progress

(* IInv holds throughout every behaviour of order-service and product-service. *)
THEOREM Inductive == Spec => []IInv
  BY IInvInit, IInvStep, PTL DEF Spec

(* Every variable has its type in every reachable state: no stock is ever  *)
(* negative, in the document, in the copy or in what is about to be written. *)
THEOREM TypeCorrect == Spec => []TypeOK
<1>1. IInv => TypeOK
  BY DEF IInv
<1> QED
  BY <1>1, Inductive, PTL

(* However many orders, however often the stock of an order is restored    *)
(* and whatever sellers type, the stock is what it was put on sale with,   *)
(* changed by what each writer was asked for, until a whole-document write *)
(* puts back a stock that is no longer current.                            *)
THEOREM StockIsConserved == Spec => []StockConserved
<1>1. IInv => StockConserved
  BY DEF IInv
<1> QED
  BY <1>1, Inductive, PTL

(* An event stands for a saved order whose units were taken. *)
THEOREM EventsMeanSales == Spec => []EventMeansSale
<1>1. IInv => EventMeansSale
  BY DEF IInv
<1> QED
  BY <1>1, Inductive, PTL

(* A stale copy is a fill that came too late, an eviction that failed, or   *)
(* one that is about to happen.                                            *)
THEOREM CopiesAreCurrent == Spec => []CopyIsCurrent
<1>1. IInv => CopyIsCurrent
  BY DEF IInv
<1> QED
  BY <1>1, Inductive, PTL
=============================================================================
