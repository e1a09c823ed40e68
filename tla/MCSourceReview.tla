--------------------------- MODULE MCSourceReview ---------------------------
EXTENDS SourceReview, TLC

CONSTANTS w1, w2, s1, s2, orders, other, ORDERS, PAYMENTS, order_id, payment_id, col, n1, n2

(* orders is recognized as ORDERS, other as nothing. Its one column carries *)
(* the order ids, which PAYMENTS allows as well and does not do with.       *)
MCClass    == orders :> ORDERS @@ other :> Unknown
MCRequired == ORDERS :> {order_id} @@ PAYMENTS :> {payment_id}
MCAllowed  == ORDERS :> {order_id} @@ PAYMENTS :> {order_id, payment_id}
MCProposed == orders :> (col :> order_id) @@ other :> (col :> None)

Symmetry == Permutations(Worker) \cup Permutations(Source) \cup Permutations(Name)
=============================================================================
