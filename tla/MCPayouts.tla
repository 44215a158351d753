------------------------------ MODULE MCPayouts ------------------------------
(* Two requests over two orders of a seller who is paid in stq; together the *)
(* orders overflow an Amount.                                                 *)
EXTENDS Payouts, TLC

CONSTANTS o1, o2

MCStoreOf == [o \in Orders |-> "s1"]
MCSellerCurrency == [o \in Orders |-> "stq"]
MCTotalAmount == (o1 :> 1) @@ (o2 :> 3)
RequestSymmetry == Permutations(Requests)
=============================================================================
