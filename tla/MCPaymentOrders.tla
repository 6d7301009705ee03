--------------------------- MODULE MCPaymentOrders ---------------------------
(* PaymentOrders on instances small enough to explore. *)
EXTENDS PaymentOrders, TLC

Symmetry == Permutations(Orders) \cup Permutations(Plans)
=============================================================================
