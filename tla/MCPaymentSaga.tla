---------------------------- MODULE MCPaymentSaga ----------------------------
(* Small instances of PaymentSaga for TLC. *)
EXTENDS PaymentSaga, TLC

(* Every way to pay, with and without a product to restore stock to: CARD  *)
(* leaves everything to the card, POINT nothing, and pointUsed may come    *)
(* with any method (load-test/feign-baseline.js:42).                       *)
AllOrders == {o \in [method : Methods, pointUsed : BOOLEAN, rest : BOOLEAN, product : BOOLEAN] :
                o.method # "CARD_AND_POINT" => o.rest = (o.method = "CARD")}

(* Those of the web client (Cart.js:111-134): points with CARD make it     *)
(* CARD_AND_POINT, and there is no productId.                              *)
WebOrders == {o \in AllOrders : o.pointUsed = (o.method # "CARD") /\ ~o.product}

(* Attempts are alike, and so are refunders. *)
Symmetry == Permutations(Attempts) \cup Permutations(Refunders)
=============================================================================
