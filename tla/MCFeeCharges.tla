----------------------------- MODULE MCFeeCharges -----------------------------
(* Two fees of one store and one of another store, with the same owner.     *)
EXTENDS FeeCharges, TLC

CONSTANTS f1, f2, f3

const_store_id == [f \in Fees |-> IF f = f3 THEN "s2" ELSE "s1"]
const_owner == [s \in {"s1", "s2"} |-> CHOOSE u \in Users : TRUE]
const_currency == [f \in Fees |-> "usd"]
const_amount == [f \in Fees |-> 1]
const_StripeCurrencies == {"eur", "usd", "rub"}
Symmetry == Permutations(Calls) \cup Permutations(Requests)

=============================================================================
