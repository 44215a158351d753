--------------------------- MODULE MCSubscriptions ---------------------------
(* Requests of a kind are interchangeable.                                   *)
EXTENDS Subscriptions, TLC

const_Payloads == {<<"Eur", "Paid">>, <<"Stq", None>>, <<None, "Free">>}
Symmetry == Permutations(Counts) \cup Permutations(Runs) \cup Permutations(Edits)

=============================================================================
