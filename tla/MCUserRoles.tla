----------------------------- MODULE MCUserRoles -----------------------------
(* Roles of two users: the superuser of the migration and the manager of  *)
(* a store.                                                               *)
EXTENDS UserRoles, TLC

CONSTANTS u1, u2, s1, r1, r2, r3

Manager == [user |-> u2, name |-> "StoreManager", data |-> s1]

MCExisting == <<[user |-> u1, name |-> "Superuser", data |-> None], Manager, None>>

MCNewRows == {Manager, [user |-> u2, name |-> "User", data |-> None]}

\* One question of each kind of scope, before and with an object.
MCAsked ==
    {[repo |-> "russia_billing_info", resource |-> "BillingInfo", action |-> "Write",
      obj |-> [user |-> None, store |-> s1]],
     [repo |-> "orders", resource |-> "OrderInfo", action |-> "Read",
      obj |-> [user |-> u1, store |-> s1]],
     [repo |-> "store_billing_type", resource |-> "StoreBillingType", action |-> "Read",
      obj |-> None],
     [repo |-> "payouts", resource |-> "Payout", action |-> "Write",
      obj |-> [user |-> u2, store |-> None]]}

Symmetry == Permutations(Requests)

=============================================================================
