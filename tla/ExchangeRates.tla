---------------------------- MODULE ExchangeRates ----------------------------
(***************************************************************************)
(* The exchange rates of orders (repos/order_exchange_rates.rs and the     *)
(* refreshes of services/invoice.rs).  A refresh reads the active rate of  *)
(* each order of its invoice, asks the gateway for a new one, and adds     *)
(* those that changed, each in a transaction of its own that reads the     *)
(* active rate again, expires it and inserts the new one.                  *)
(*                                                                         *)
(* A rate is its row; dummy rates (both currencies are the same) have no   *)
(* exchange id and are never refreshed.                                    *)
(***************************************************************************)
EXTENDS Naturals

CONSTANTS XOrders, Rates, Refreshes, NoRate,
          DummyOrders   \* orders in the currency of their buyer

ASSUME RatesAssumption ==
    /\ NoRate \notin XOrders \cup Rates
    /\ DummyOrders \subseteq XOrders

VARIABLES rate,      \* [Rates -> XOrders \cup {NoRate}], the rows: whose rate it is
          active,    \* SUBSET Rates, the rows with status active
          xstep,     \* [Refreshes -> RefreshSteps]
          toAdd,     \* [Refreshes -> SUBSET XOrders], orders with a new rate to add
          adding,    \* [Refreshes -> XOrders \cup {NoRate}], the one being added
          expiring,  \* [Refreshes -> Rates \cup {NoRate}], the active rate it has read
          mixed      \* history: orders two transactions were adding a rate to

ratesVars == <<rate, active, xstep, toAdd, adding, expiring, mixed>>

RefreshSteps == {"new", "add", "commit", "done"}

\* get_active_rate_for_order: any of them.
Active(o) == {x \in active : rate[x] = o}

\* The invoice was created with a rate for each order.
RatesInit ==
    /\ rate \in [Rates -> XOrders \cup {NoRate}]
    /\ \A o \in XOrders : \E x \in Rates : {y \in Rates : rate[y] = o} = {x}
    /\ active = {x \in Rates : rate[x] # NoRate}
    /\ xstep = [f \in Refreshes |-> "new"]
    /\ toAdd = [f \in Refreshes |-> {}]
    /\ adding = [f \in Refreshes |-> NoRate]
    /\ expiring = [f \in Refreshes |-> NoRate]
    /\ mixed = {}

-----------------------------------------------------------------------------
\* reserve_or_refresh_rate: orders whose active rate is a dummy are left alone,
\* an order without one gets a new rate, for the others the gateway decides.
Refreshed(s) == s \subseteq XOrders \ DummyOrders
Missing == {o \in XOrders : Active(o) = {}}

refresh_order_rates(f, s) ==
    /\ xstep[f] = "new"
    /\ Refreshed(s) /\ Missing \subseteq s
    /\ xstep' = [xstep EXCEPT ![f] = IF s = {} THEN "done" ELSE "add"]
    /\ toAdd' = [toAdd EXCEPT ![f] = s]
    /\ UNCHANGED <<rate, active, adding, expiring, mixed>>

\* add_new_active_rate: the transaction selects the active rate ...
get_active_rate(f, o) ==
    /\ xstep[f] = "add" /\ o \in toAdd[f]
    /\ xstep' = [xstep EXCEPT ![f] = "commit"]
    /\ adding' = [adding EXCEPT ![f] = o]
    /\ \E x \in IF Active(o) = {} THEN {NoRate} ELSE Active(o) :
         expiring' = [expiring EXCEPT ![f] = x]
    /\ mixed' = IF \E g \in Refreshes : adding[g] = o THEN mixed \cup {o} ELSE mixed
    /\ UNCHANGED <<rate, active, toAdd>>

\* ... expires it by id and inserts the new one.
add_new_active_rate_Unexpired(f, x) ==
    /\ xstep[f] = "commit" /\ rate[x] = NoRate
    /\ rate' = [rate EXCEPT ![x] = adding[f]]
    /\ active' = active \cup {x}
    /\ toAdd' = [toAdd EXCEPT ![f] = @ \ {adding[f]}]
    /\ xstep' = [xstep EXCEPT ![f] = IF toAdd'[f] = {} THEN "done" ELSE "add"]
    /\ adding' = [adding EXCEPT ![f] = NoRate]
    /\ expiring' = [expiring EXCEPT ![f] = NoRate]
    /\ UNCHANGED mixed

add_new_active_rate(f, x) ==
    /\ xstep[f] = "commit" /\ rate[x] = NoRate
    /\ rate' = [rate EXCEPT ![x] = adding[f]]
    /\ active' = (active \ {expiring[f]}) \cup {x}
    /\ toAdd' = [toAdd EXCEPT ![f] = @ \ {adding[f]}]
    /\ xstep' = [xstep EXCEPT ![f] = IF toAdd'[f] = {} THEN "done" ELSE "add"]
    /\ adding' = [adding EXCEPT ![f] = NoRate]
    /\ expiring' = [expiring EXCEPT ![f] = NoRate]
    /\ UNCHANGED mixed

\* An error, or the process stops: rates added before stay.
abandon_refresh(f) ==
    /\ xstep[f] \in {"add", "commit"}
    /\ xstep' = [xstep EXCEPT ![f] = "done"]
    /\ toAdd' = [toAdd EXCEPT ![f] = {}]
    /\ adding' = [adding EXCEPT ![f] = NoRate]
    /\ expiring' = [expiring EXCEPT ![f] = NoRate]
    /\ UNCHANGED <<rate, active, mixed>>

RatesNext ==
    \E f \in Refreshes :
        \/ \E s \in SUBSET XOrders : refresh_order_rates(f, s)
        \/ \E o \in XOrders : get_active_rate(f, o)
        \/ \E x \in Rates : add_new_active_rate(f, x)
        \/ abandon_refresh(f)

RatesSpec == RatesInit /\ [][RatesNext]_ratesVars

-----------------------------------------------------------------------------
(* Properties                                                              *)

RatesTypeOK ==
    /\ rate \in [Rates -> XOrders \cup {NoRate}]
    /\ active \in SUBSET Rates
    /\ xstep \in [Refreshes -> RefreshSteps]
    /\ toAdd \in [Refreshes -> SUBSET XOrders]
    /\ adding \in [Refreshes -> XOrders \cup {NoRate}]
    /\ expiring \in [Refreshes -> Rates \cup {NoRate}]
    /\ mixed \in SUBSET XOrders

\* An order always has an active rate, whatever fails half way through
\* a refresh, and only one unless two transactions were adding a rate at once.
OneActiveRate ==
    \A o \in XOrders :
        /\ Active(o) # {}
        /\ o \notin mixed => \A x, y \in Active(o) : x = y

\* A transaction that is alone with its order expires the active rate.
RatesInv ==
    /\ \A x \in active : rate[x] # NoRate
    /\ \A f \in Refreshes :
        /\ xstep[f] = "commit" <=> adding[f] # NoRate
        /\ (adding[f] # NoRate /\ adding[f] \notin mixed) =>
              /\ expiring[f] \in Active(adding[f])
              /\ \A g \in Refreshes : adding[g] = adding[f] => g = f
        /\ expiring[f] # NoRate => adding[f] # NoRate /\ rate[expiring[f]] = adding[f]

=============================================================================
