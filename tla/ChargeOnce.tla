----------------------------- MODULE ChargeOnce -----------------------------
(***************************************************************************)
(* What collecting money promises: every item is charged at most once,     *)
(* none is charged after it was settled, and a settled item stays settled. *)
(* The promise does not cover items that are excused: those of requests    *)
(* that overlapped, and those whose charge was never recorded.             *)
(*                                                                         *)
(* FeeCharges and Subscriptions implement it: both read what is due,       *)
(* charge through another service, and record the outcome in a             *)
(* transaction of its own.                                                 *)
(***************************************************************************)
EXTENDS Naturals

CONSTANT Items       \* what a charge pays for: fees, or days of a subscription

VARIABLES charges,   \* [Items -> Nat], how often money was collected for an item
          settled,   \* items that are recorded as dealt with
          excused    \* items whose bookkeeping cannot be relied on

chargeVars == <<charges, settled, excused>>

Init ==
    /\ charges = [i \in Items |-> 0]
    /\ settled = {}
    /\ excused = {}

\* One charge for several items; its answer may be lost.
Charge(S) ==
    /\ \A i \in S \ excused : charges[i] = 0 /\ i \notin settled
    /\ charges' = [i \in Items |-> charges[i] + (IF i \in S THEN 1 ELSE 0)]
    /\ excused' \in {excused, excused \cup S}
    /\ UNCHANGED settled

Settle(S) ==
    /\ settled' = settled \cup S
    /\ UNCHANGED <<charges, excused>>

\* The outcome of an overlapping request overwrites an earlier one.
Reopen(S) ==
    /\ S \subseteq excused
    /\ settled' = settled \ S
    /\ UNCHANGED <<charges, excused>>

Excuse(S) ==
    /\ excused' = excused \cup S
    /\ UNCHANGED <<charges, settled>>

Next ==
    \E S \in SUBSET Items : Charge(S) \/ Settle(S) \/ Reopen(S) \/ Excuse(S)

Spec == Init /\ [][Next]_chargeVars

-----------------------------------------------------------------------------

TypeOK == charges \in [Items -> Nat]

\* No item is charged twice unless it is excused.
AtMostOnce == \A i \in Items \ excused : charges[i] <= 1

=============================================================================
