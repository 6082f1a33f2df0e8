----------------------------- MODULE MCCheckout -----------------------------
(* Checkout with two products of the same price, which may be exchanged. *)
EXTENDS Checkout, TLC

MCPrice == [t \in Titles |-> 1]

MCSymmetry == Permutations(Titles)
=============================================================================
