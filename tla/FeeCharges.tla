------------------------------ MODULE FeeCharges ------------------------------
(***************************************************************************)
(* Charging sellers the fees of their orders (services/fee.rs,             *)
(* repos/fee.rs), next to the calls that change their cards (Customers).   *)
(* A request reads the fees, then finds the card of the store's owner,     *)
(* then charges it once for the sum, and records the outcome in all fees.  *)
(* Only the last step is a transaction.                                    *)
(*                                                                         *)
(* Fees are created NotPaid by the handlers of a payment (CryptoInvoices,  *)
(* FiatInvoices); here they exist from the start.                          *)
(***************************************************************************)
EXTENDS Customers, FiniteSets, Folds

CONSTANTS Fees, Requests,
          store_id,   \* [Fees -> stores], through the order of the fee
          owner,      \* [stores -> Users], user_roles_repo.get_by_store_id
          currency,   \* [Fees -> currencies]
          amount,     \* [Fees -> Nat]
          MaxAmount,  \* the largest Amount
          StripeCurrencies  \* currencies that Currency::convert accepts

ASSUME FeeChargesAssumption ==
    /\ \A f \in Fees : owner[store_id[f]] \in Users
    /\ IsFiniteSet(Fees)

VARIABLES status,   \* [Fees -> FeeStatus]
          charges,  \* [Fees -> Nat], successful charges at Stripe that cover a fee
          qstep,    \* [Requests -> ChargeSteps]
          fees,     \* [Requests -> SUBSET Fees]
          card,     \* [Requests -> Calls \cup {None}], the customer to charge
          rivals,   \* history: fees read by a request while another one had read them
          lost      \* history: fees whose charge was made and not recorded

requestVars == <<qstep, fees, card>>
feeVars == <<status, charges, requestVars, rivals, lost>>
vars == <<customerVars, feeVars>>

FeeStatus == {"NotPaid", "Paid", "Fail"}
ChargeSteps == {"new", "customer", "charge", "paid", "unpaid", "done"}

Init ==
    /\ CustomersInit
    /\ status = [f \in Fees |-> "NotPaid"]
    /\ charges = [f \in Fees |-> 0]
    /\ qstep = [q \in Requests |-> "new"]
    /\ fees = [q \in Requests |-> {}]
    /\ card = [q \in Requests |-> None]
    /\ rivals = {}
    /\ lost = {}

-----------------------------------------------------------------------------
(* The checks of a request                                                 *)

verify_store_ids(F) == Cardinality({store_id[f] : f \in F}) = 1

validate_charge_fees_Any(F) == TRUE

validate_charge_fees(F) == \A f \in F : status[f] # "Paid"

extract_currency(F) ==
    /\ Cardinality({currency[f] : f \in F}) = 1
    /\ \A f \in F : currency[f] \in StripeCurrencies

total_amount(F) == MapThenFoldSet(LAMBDA a, b : a + b, 0, LAMBDA f : amount[f],
                                  LAMBDA S : CHOOSE f \in S : TRUE, F)

-----------------------------------------------------------------------------
(* repos/fee.rs: update by id, whatever the status is now                  *)

update_fees(F, s) == status' = [f \in Fees |-> IF f \in F THEN s ELSE status[f]]

-----------------------------------------------------------------------------
(* services/fee.rs                                                         *)

ChargeGoes(q, from, to) == qstep[q] = from /\ qstep' = [qstep EXCEPT ![q] = to]

\* Fees that were read by a request which has not recorded its outcome.
Pending(q) == IF qstep[q] \in {"customer", "charge", "paid", "unpaid"} THEN fees[q] ELSE {}

PendingFees == UNION {Pending(q) : q \in Requests}

\* The fees as they are read: they are validated in the next step, but on the
\* values read here.
ReadFees(q, F, ok) ==
    /\ ChargeGoes(q, "new", IF ok /\ validate_charge_fees(F) THEN "customer" ELSE "done")
    /\ fees' = [fees EXCEPT ![q] = F]
    /\ rivals' = IF ok /\ validate_charge_fees(F)
                 THEN rivals \cup (F \cap PendingFees) ELSE rivals
    /\ UNCHANGED <<customerVars, status, charges, card, lost>>

create_charge(q, f) == ReadFees(q, {f}, TRUE)

create_charge_by_order_ids(q, F) == F # {} /\ ReadFees(q, F, verify_store_ids(F))

\* create_charge_by_fees up to the call of Stripe: a missing card, a sum that
\* overflows and mixed currencies are errors.
create_charge_by_fees(q) ==
    \E c \in Calls :
        /\ \E f \in fees[q] : c \in get_customers(owner[store_id[f]])
        /\ total_amount(fees[q]) <= MaxAmount
        /\ extract_currency(fees[q])
        /\ ChargeGoes(q, "customer", "charge")
        /\ card' = [card EXCEPT ![q] = c]
        /\ UNCHANGED <<customerVars, status, charges, fees, rivals, lost>>

Charged(F) == charges' = [f \in Fees |-> charges[f] + (IF f \in F THEN 1 ELSE 0)]

\* An error unless the customer still exists; it may also be declined.
stripe_create_charge(q) ==
    /\ card[q] \in alive
    /\ \/ ChargeGoes(q, "charge", "paid") /\ Charged(fees[q])
       \/ ChargeGoes(q, "charge", "unpaid") /\ UNCHANGED charges
    /\ UNCHANGED <<customerVars, status, fees, card, rivals, lost>>

record_charge_First(q) ==
    /\ qstep[q] \in {"paid", "unpaid"}
    /\ ChargeGoes(q, qstep[q], "done")
    /\ update_fees({CHOOSE f \in fees[q] : TRUE}, IF qstep[q] = "paid" THEN "Paid" ELSE "Fail")
    /\ UNCHANGED <<customerVars, charges, fees, card, rivals, lost>>

\* One transaction over all fees of the charge.
record_charge(q) ==
    /\ qstep[q] \in {"paid", "unpaid"}
    /\ ChargeGoes(q, qstep[q], "done")
    /\ update_fees(fees[q], IF qstep[q] = "paid" THEN "Paid" ELSE "Fail")
    /\ UNCHANGED <<customerVars, charges, fees, card, rivals, lost>>

\* The charge goes through but its answer is lost.
lose_charge(q) ==
    /\ card[q] \in alive
    /\ ChargeGoes(q, "charge", "done")
    /\ Charged(fees[q])
    /\ lost' = lost \cup fees[q]
    /\ UNCHANGED <<customerVars, status, fees, card, rivals>>

\* An error at any step, or the process stops.
abandon_charge(q) ==
    /\ qstep[q] \notin {"new", "done"}
    /\ ChargeGoes(q, qstep[q], "done")
    /\ lost' = IF qstep[q] = "paid" THEN lost \cup fees[q] ELSE lost
    /\ UNCHANGED <<customerVars, status, charges, fees, card, rivals>>

Charge(q) ==
    \/ \E f \in Fees : create_charge(q, f)
    \/ \E F \in SUBSET Fees : create_charge_by_order_ids(q, F)
    \/ create_charge_by_fees(q)
    \/ stripe_create_charge(q)
    \/ record_charge(q)
    \/ lose_charge(q)
    \/ abandon_charge(q)

Next ==
    \/ CustomersNext /\ UNCHANGED feeVars
    \/ \E q \in Requests : Charge(q)

Spec == Init /\ [][Next]_vars

-----------------------------------------------------------------------------
(* Properties                                                              *)

TypeOK ==
    /\ CustomersTypeOK
    /\ status \in [Fees -> FeeStatus]
    /\ charges \in [Fees -> Nat]
    /\ qstep \in [Requests -> ChargeSteps]
    /\ fees \in [Requests -> SUBSET Fees]
    /\ card \in [Requests -> Calls \cup {None}]
    /\ rivals \in SUBSET Fees
    /\ lost \in SUBSET Fees

\* A charge covers many fees and is recorded in one transaction: a fee that was
\* charged is Paid, or about to be, and a Paid fee was charged, unless requests
\* overlapped or the charge was never recorded.
ChargeRecorded ==
    \A f \in Fees :
        /\ status[f] = "Paid" => charges[f] > 0
        /\ charges[f] > 0 =>
             \/ status[f] = "Paid"
             \/ \E q \in Requests : f \in fees[q] /\ qstep[q] = "paid"
             \/ f \in rivals \cup lost

\* The outcome of a charge overwrites the status whatever it is by then: a paid
\* fee becomes unpaid again only if requests overlapped.
PaidUnlessRivals ==
    [][\A f \in Fees : status[f] = "Paid" => status'[f] = "Paid" \/ f \in rivals]_vars

\* Fees are validated on an early read and marked Paid after the charge, yet
\* every fee is charged once and never again when it is Paid, unless a request
\* read it while another was under way or its charge was never recorded.
Once == INSTANCE ChargeOnce WITH
    Items <- Fees,
    settled <- {f \in Fees : status[f] = "Paid"},
    excused <- rivals \cup lost

FeesChargedOnce == Once!Spec

-----------------------------------------------------------------------------
(* The inductive invariant behind the safety properties                    *)

\* What the calls on customers know.
CallsInv ==
    /\ \A k \in Calls :
         /\ cstep[k] \in {"create", "insert"} =>
              /\ cuser[k] \in Users
              /\ rows[k] = None
              /\ row_email[k] = stripe_email[k]
         /\ cstep[k] = "insert" => k \in alive
         /\ cstep[k] = "new" => rows[k] = None /\ row_email[k] = stripe_email[k] /\ k \notin alive
         /\ cstep[k] \in {"remove", "mirror"} =>
              customer[k] \in Calls /\ cstep[customer[k]] = "done"
         /\ rows[k] # None => cstep[k] = "done"
    /\ \A u \in Users \ crowded :
         /\ \A k, l \in Creating(u) : k = l
         /\ Creating(u) # {} => get_customers(u) = {}

\* Without interruptions one update at a time is under way for a customer, and
\* its row outlives it only while it is being deleted.
MirroringInv ==
    \A c \in Calls \ torn :
        /\ rows[c] # None => c \in alive \/ \E k \in Calls : customer[k] = c /\ cstep[k] = "remove"
        /\ c \in alive /\ Mirroring(c) = {} => row_email[c] = stripe_email[c]
        /\ \A k, l \in Mirroring(c) : k = l
        /\ \A k \in Mirroring(c) : row_email[c] = k

\* Without rivals and losses one request at a time has read a fee that is not
\* Paid, and the fee was not charged before.
ChargesInv ==
    /\ \A f \in Fees \ rivals :
         \A q, r \in Requests :
             f \in Pending(q) /\ f \in Pending(r) => q = r /\ status[f] # "Paid"
    /\ \A f \in Fees \ (rivals \cup lost) :
         /\ status[f] # "Paid" =>
              charges[f] = 0 \/ \E q \in Requests : f \in fees[q] /\ qstep[q] = "paid"
         /\ \A q \in Requests :
              f \in Pending(q) => charges[f] = IF qstep[q] = "paid" THEN 1 ELSE 0
    /\ \A q \in Requests, f \in Fees :
         qstep[q] = "paid" /\ f \in fees[q] => charges[f] > 0

Inv ==
    /\ TypeOK /\ CallsInv /\ MirroringInv /\ ChargesInv
    /\ CustomersMirrored /\ ChargeRecorded

=============================================================================
