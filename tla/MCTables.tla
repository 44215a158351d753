------------------------------- MODULE MCTables -------------------------------
(* Five parts that share no state: bank details of stores, exchange rates   *)
(* of orders, accounts, invoices of the first version and amounts in the    *)
(* database.  Steps of different parts commute, so a behaviour of one part, *)
(* with the others at rest, shows all there is to see: which part moves is  *)
(* chosen at first.                                                         *)
EXTENDS BillingInfo, ExchangeRates, AccountPool, LegacyInvoices, Amounts, TLC

VARIABLE part

vars == <<billingVars, ratesVars, accountsVars, legacyVars, amountsVars, part>>

\* Rows are interchangeable: which ones the orders have at first is fixed.
FirstRates == CHOOSE r \in [Rates -> XOrders \cup {NoRate}] :
                \A o \in XOrders : Cardinality({x \in Rates : r[x] = o}) = 1

\* Up to three digits of the edges.
MCOtherDigits == {<<>>} \cup {<<d>> : d \in Digits} \cup {<<d, e>> : d, e \in Digits}
                 \cup {<<d, e, f>> : d, e, f \in {0, 1, Base - 1}}

MCSagaOf == [o \in LOrders |-> CHOOSE g \in Sagas : TRUE]

Init ==
    /\ rate = FirstRates
    /\ part \in {"billing", "rates", "accounts", "legacy", "amounts"}
    /\ BillingInit /\ RatesInit /\ AccountsInit /\ LegacyInit /\ AmountsInit

\* The parts that do not move.
Rest(moving) ==
    /\ part = moving
    /\ UNCHANGED part
    /\ moving # "billing" => UNCHANGED billingVars
    /\ moving # "rates" => UNCHANGED ratesVars
    /\ moving # "accounts" => UNCHANGED accountsVars
    /\ moving # "legacy" => UNCHANGED legacyVars
    /\ moving # "amounts" => UNCHANGED amountsVars

Next ==
    \/ Rest("billing") /\ BillingNext
    \/ Rest("rates") /\ RatesNext
    \/ Rest("accounts") /\ AccountsNext
    \/ Rest("legacy") /\ LegacyNext
    \/ Rest("amounts") /\ AmountsNext

Spec == Init /\ [][Next]_vars

TypeOK == BillingTypeOK /\ RatesTypeOK /\ AccountsTypeOK /\ LegacyTypeOK /\ AmountsTypeOK

Symmetry == Permutations(Refreshes) \cup Permutations(Instances)

=============================================================================
