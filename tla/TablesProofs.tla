---------------------------- MODULE TablesProofs ----------------------------
(* Theorems about the parts that keep tables of their own: bank details,    *)
(* exchange rates, accounts, invoices of the first version, roles with      *)
(* their cache, and amounts in NUMERIC columns.                             *)
EXTENDS BillingInfo, ExchangeRates, AccountPool, LegacyInvoices, UserRoles, Amounts,
        FiniteSetTheorems, SequenceTheorems, WellFoundedInduction, TLAPS

-----------------------------------------------------------------------------
(* Exchange rates                                                          *)

RatesAll == RatesTypeOK /\ RatesInv /\ OneActiveRate

\* Every order starts with one active rate.
LEMMA RatesAllInit == RatesInit => RatesAll
<1> SUFFICES ASSUME RatesInit PROVE RatesAll
  OBVIOUS
<1> USE RatesAssumption DEF RatesInit
<1>1. RatesTypeOK
  BY DEF RatesTypeOK, RefreshSteps
<1>2. RatesInv
  BY DEF RatesInv, Active
<1>3. OneActiveRate
  BY DEF OneActiveRate, Active
<1> QED BY <1>1, <1>2, <1>3 DEF RatesAll

\* Every step keeps the types.
LEMMA RatesTypeNext == RatesAll /\ [RatesNext]_ratesVars => RatesTypeOK'
<1> SUFFICES ASSUME RatesAll, [RatesNext]_ratesVars PROVE RatesTypeOK'
  OBVIOUS
<1> USE RatesAssumption DEF RatesAll, RatesTypeOK, RefreshSteps, Active
<1>1. ASSUME NEW f \in Refreshes, NEW s \in SUBSET XOrders, refresh_order_rates(f, s)
     PROVE RatesTypeOK'
  BY <1>1 DEF refresh_order_rates
<1>2. ASSUME NEW f \in Refreshes, NEW o \in XOrders, get_active_rate(f, o)
     PROVE RatesTypeOK'
  BY <1>2 DEF get_active_rate
<1>3. ASSUME NEW f \in Refreshes, NEW x \in Rates, add_new_active_rate(f, x)
     PROVE RatesTypeOK'
  BY <1>3 DEF add_new_active_rate
<1>4. ASSUME NEW f \in Refreshes, abandon_refresh(f) PROVE RatesTypeOK'
  BY <1>4 DEF abandon_refresh
<1>5. CASE UNCHANGED ratesVars
  BY <1>5 DEF ratesVars
<1> QED
  BY <1>1, <1>2, <1>3, <1>4, <1>5 DEF RatesNext

\* Every step keeps what a transaction knows of the rate it expires.
LEMMA RatesInvNext == RatesAll /\ [RatesNext]_ratesVars => RatesInv'
<1> SUFFICES ASSUME RatesAll, [RatesNext]_ratesVars PROVE RatesInv'
  OBVIOUS
<1> USE RatesAssumption DEF RatesAll, RatesTypeOK, RatesInv, Active
<1>1. ASSUME NEW f \in Refreshes, NEW s \in SUBSET XOrders, refresh_order_rates(f, s)
     PROVE RatesInv'
  BY <1>1 DEF refresh_order_rates
<1>2. ASSUME NEW f \in Refreshes, NEW o \in XOrders, get_active_rate(f, o) PROVE RatesInv'
  <2>1. PICK x \in Rates : x \in Active(o) /\ expiring' = [expiring EXCEPT ![f] = x]
    BY <1>2 DEF get_active_rate, OneActiveRate
  <2> QED BY <1>2, <2>1 DEF get_active_rate
<1>3. ASSUME NEW f \in Refreshes, NEW x \in Rates, add_new_active_rate(f, x)
     PROVE RatesInv'
  BY <1>3 DEF add_new_active_rate
<1>4. ASSUME NEW f \in Refreshes, abandon_refresh(f) PROVE RatesInv'
  BY <1>4 DEF abandon_refresh
<1>5. CASE UNCHANGED ratesVars
  BY <1>5 DEF ratesVars
<1> QED
  BY <1>1, <1>2, <1>3, <1>4, <1>5 DEF RatesNext

\* Every step leaves each order an active rate.
LEMMA OneActiveNext == RatesAll /\ [RatesNext]_ratesVars => OneActiveRate'
<1> SUFFICES ASSUME RatesAll, [RatesNext]_ratesVars PROVE OneActiveRate'
  OBVIOUS
<1> USE RatesAssumption DEF RatesAll, RatesTypeOK, RatesInv, OneActiveRate, Active
<1>1. ASSUME NEW f \in Refreshes, NEW s \in SUBSET XOrders, refresh_order_rates(f, s)
     PROVE OneActiveRate'
  BY <1>1 DEF refresh_order_rates
<1>2. ASSUME NEW f \in Refreshes, NEW o \in XOrders, get_active_rate(f, o)
     PROVE OneActiveRate'
  BY <1>2 DEF get_active_rate
<1>3. ASSUME NEW f \in Refreshes, NEW x \in Rates, add_new_active_rate(f, x)
     PROVE OneActiveRate'
  BY <1>3 DEF add_new_active_rate
<1>4. ASSUME NEW f \in Refreshes, abandon_refresh(f) PROVE OneActiveRate'
  BY <1>4 DEF abandon_refresh
<1>5. CASE UNCHANGED ratesVars
  BY <1>5 DEF ratesVars
<1> QED
  BY <1>1, <1>2, <1>3, <1>4, <1>5 DEF RatesNext

\* Exchange rates: the invariant always holds.
THEOREM RatesAlways == RatesSpec => []RatesAll
<1>1. RatesAll /\ [RatesNext]_ratesVars => RatesAll'
  BY RatesTypeNext, RatesInvNext, OneActiveNext DEF RatesAll
<1> QED BY <1>1, RatesAllInit, PTL DEF RatesSpec

\* add_new_active_rate: for any orders and refreshes, an order has an active
\* rate, and one alone unless two transactions were adding a rate at once.
THEOREM OneActiveRateTheorem == RatesSpec => []OneActiveRate
<1>1. RatesAll => OneActiveRate
  BY DEF RatesAll
<1> QED BY <1>1, RatesAlways, PTL

-----------------------------------------------------------------------------
(* Invoices of the first version                                           *)

LegacyAll == LegacyTypeOK /\ LegacyInv /\ SagaInStep

\* Every external status is some state.
LEMMA OrderStateType == OrderState \in [ExternalStatuses -> LegacyStates]
  BY DEF OrderState, ExternalStatuses, LegacyStates

\* Nothing happened yet to the invoices.
LEMMA LegacyAllInit == LegacyInit => LegacyAll
<1> SUFFICES ASSUME LegacyInit PROVE LegacyAll
  OBVIOUS
<1> USE LegacyAssumption DEF LegacyInit
<1>1. LegacyTypeOK
  BY DEF LegacyTypeOK, ExternalStatuses, LegacyStates, LegacySteps
<1>2. LegacyInv
  BY DEF LegacyInv
<1>3. SagaInStep
  BY DEF SagaInStep, Committing
<1> QED BY <1>1, <1>2, <1>3 DEF LegacyAll

\* Every step keeps the types.
LEMMA LegacyTypeNext == LegacyAll /\ [LegacyNext]_legacyVars => LegacyTypeOK'
<1> SUFFICES ASSUME LegacyAll, [LegacyNext]_legacyVars PROVE LegacyTypeOK'
  OBVIOUS
<1> USE LegacyAssumption, OrderStateType DEF LegacyAll, LegacyTypeOK, LegacyInv,
      LegacyGoes, LegacyEnds, LegacySteps, SetOrders, Orders
<1>1. ASSUME NEW g \in Sagas, NEW x \in ExternalStatuses, external_moves(g, x)
     PROVE LegacyTypeOK'
  BY <1>1 DEF external_moves
<1>2. ASSUME NEW c \in LCalls, NEW g \in Sagas,
             NEW x \in ExternalStatuses, update_invoice(c, g, x)
     PROVE LegacyTypeOK'
  BY <1>2 DEF update_invoice
<1>3. ASSUME NEW c \in LCalls, NEW g \in Sagas, recalc_invoice(c, g) PROVE LegacyTypeOK'
  BY <1>3 DEF recalc_invoice
<1>4. ASSUME NEW c \in LCalls, NEW g \in Sagas, delete_invoice(c, g) PROVE LegacyTypeOK'
  BY <1>4 DEF delete_invoice, delete_by_saga_id
<1>5. ASSUME NEW c \in LCalls, recalc_invoice_v1(c) PROVE LegacyTypeOK'
  BY <1>5 DEF recalc_invoice_v1
<1>6. ASSUME NEW c \in LCalls, update_states(c) PROVE LegacyTypeOK'
  BY <1>6 DEF update_states
<1>7. ASSUME NEW c \in LCalls, tell_saga(c) PROVE LegacyTypeOK'
  BY <1>7 DEF tell_saga
<1>8. ASSUME NEW c \in LCalls, commit_states(c) PROVE LegacyTypeOK'
  BY <1>8 DEF commit_states, update_status
<1>9. ASSUME NEW c \in LCalls, rollback(c) PROVE LegacyTypeOK'
  BY <1>9 DEF rollback
<1>10. CASE UNCHANGED legacyVars
  BY <1>10 DEF legacyVars
<1> HIDE LegacyAssumption, OrderStateType DEF LegacyAll, LegacyTypeOK, LegacyInv,
      LegacyGoes, LegacyEnds, LegacySteps, SetOrders, Orders
<1> QED
  BY <1>1, <1>2, <1>3, <1>4, <1>5, <1>6, <1>7, <1>8, <1>9, <1>10 DEF LegacyNext

\* Every step leaves the row of an invoice to one transaction.
LEMMA LegacyInvNext == LegacyAll /\ [LegacyNext]_legacyVars => LegacyInv'
<1> SUFFICES ASSUME LegacyAll, [LegacyNext]_legacyVars PROVE LegacyInv'
  OBVIOUS
<1> USE LegacyAssumption, OrderStateType DEF LegacyAll, LegacyTypeOK, LegacyInv,
      LegacyGoes, LegacyEnds, LegacySteps, SetOrders, Orders, Locked
<1>1. ASSUME NEW g \in Sagas, NEW x \in ExternalStatuses, external_moves(g, x)
     PROVE LegacyInv'
  BY <1>1 DEF external_moves
<1>2. ASSUME NEW c \in LCalls, NEW g \in Sagas,
             NEW x \in ExternalStatuses, update_invoice(c, g, x)
     PROVE LegacyInv'
  BY <1>2 DEF update_invoice
<1>3. ASSUME NEW c \in LCalls, NEW g \in Sagas, recalc_invoice(c, g) PROVE LegacyInv'
  BY <1>3 DEF recalc_invoice
<1>4. ASSUME NEW c \in LCalls, NEW g \in Sagas, delete_invoice(c, g) PROVE LegacyInv'
  BY <1>4 DEF delete_invoice, delete_by_saga_id
<1>5. ASSUME NEW c \in LCalls, recalc_invoice_v1(c) PROVE LegacyInv'
  BY <1>5 DEF recalc_invoice_v1
<1>6. ASSUME NEW c \in LCalls, update_states(c) PROVE LegacyInv'
  BY <1>6 DEF update_states
<1>7. ASSUME NEW c \in LCalls, tell_saga(c) PROVE LegacyInv'
  BY <1>7 DEF tell_saga
<1>8. ASSUME NEW c \in LCalls, commit_states(c) PROVE LegacyInv'
  BY <1>8 DEF commit_states, update_status
<1>9. ASSUME NEW c \in LCalls, rollback(c) PROVE LegacyInv'
  BY <1>9 DEF rollback
<1>10. CASE UNCHANGED legacyVars
  BY <1>10 DEF legacyVars
<1> HIDE LegacyAssumption, OrderStateType DEF LegacyAll, LegacyTypeOK, LegacyInv,
      LegacyGoes, LegacyEnds, LegacySteps, SetOrders, Orders, Locked
<1> QED
  BY <1>1, <1>2, <1>3, <1>4, <1>5, <1>6, <1>7, <1>8, <1>9, <1>10 DEF LegacyNext

\* Every step keeps the saga in step.
LEMMA SagaInStepNext == LegacyAll /\ [LegacyNext]_legacyVars => SagaInStep'
<1> SUFFICES ASSUME LegacyAll, [LegacyNext]_legacyVars PROVE SagaInStep'
  OBVIOUS
<1> USE LegacyAssumption DEF LegacyAll, LegacyTypeOK, LegacyInv, LegacyGoes, LegacyEnds,
      SagaInStep, Committing, SetOrders, Orders, Locked
<1>1. ASSUME NEW g \in Sagas, NEW x \in ExternalStatuses, external_moves(g, x)
     PROVE SagaInStep'
  BY <1>1 DEF external_moves
<1>2. ASSUME NEW c \in LCalls, NEW g \in Sagas,
             NEW x \in ExternalStatuses, update_invoice(c, g, x)
     PROVE SagaInStep'
  BY <1>2 DEF update_invoice
<1>3. ASSUME NEW c \in LCalls, NEW g \in Sagas, recalc_invoice(c, g) PROVE SagaInStep'
  BY <1>3 DEF recalc_invoice
<1>4. ASSUME NEW c \in LCalls, NEW g \in Sagas, delete_invoice(c, g) PROVE SagaInStep'
  BY <1>4 DEF delete_invoice, delete_by_saga_id
<1>5. ASSUME NEW c \in LCalls, recalc_invoice_v1(c) PROVE SagaInStep'
  BY <1>5 DEF recalc_invoice_v1
<1>6. ASSUME NEW c \in LCalls, update_states(c) PROVE SagaInStep'
  BY <1>6 DEF update_states
<1>7. ASSUME NEW c \in LCalls, tell_saga(c) PROVE SagaInStep'
  BY <1>7 DEF tell_saga
<1>8. ASSUME NEW c \in LCalls, commit_states(c) PROVE SagaInStep'
  BY <1>8 DEF commit_states, update_status
<1>9. ASSUME NEW c \in LCalls, rollback(c) PROVE SagaInStep'
  BY <1>9 DEF rollback
<1>10. CASE UNCHANGED legacyVars
  BY <1>10 DEF legacyVars
<1> HIDE LegacyAssumption DEF LegacyAll, LegacyTypeOK, LegacyInv, LegacyGoes, LegacyEnds,
      SagaInStep, Committing, SetOrders, Orders, Locked
<1> QED
  BY <1>1, <1>2, <1>3, <1>4, <1>5, <1>6, <1>7, <1>8, <1>9, <1>10 DEF LegacyNext

\* Invoices of the first version: the invariant always holds.
THEOREM LegacyAlways == LegacySpec => []LegacyAll
<1>1. LegacyAll /\ [LegacyNext]_legacyVars => LegacyAll'
  BY LegacyTypeNext, LegacyInvNext, SagaInStepNext DEF LegacyAll
<1> QED BY <1>1, LegacyAllInit, PTL DEF LegacySpec

\* update_invoice and recalc_invoice_v1: for any invoices, orders and calls,
\* the saga knows the state of the orders unless a transaction was rolled back.
THEOREM SagaInStepTheorem == LegacySpec => []SagaInStep
<1>1. LegacyAll => SagaInStep
  BY DEF LegacyAll
<1> QED BY <1>1, LegacyAlways, PTL

-----------------------------------------------------------------------------
(* Bank details                                                            *)

BillingAll == BillingTypeOK /\ BillingInv /\ SearchInv /\ BillingConsistent

\* There are two types.
LEMMA OtherType == \A t \in BillingTypes : Other(t) \in BillingTypes /\ Other(t) # t
  BY DEF Other, BillingTypes

\* What the rows of a store are.
LEMMA BillingRows ==
  /\ \A t \in BillingTypes : Nothing[t] = 0
  /\ \A t, y \in BillingTypes : Only(t)[y] = IF y = t THEN 1 ELSE 0
  /\ \A f \in [BillingTypes -> Nat] : (\A t \in BillingTypes : f[t] = 0) => f = Nothing
  /\ \A f \in [BillingTypes -> Nat], t \in BillingTypes :
       (f[t] = 1 /\ \A y \in BillingTypes : y # t => f[y] = 0) => f = Only(t)
  BY DEF Nothing, Only

\* There are no details yet.
LEMMA BillingAllInit == BillingInit => BillingAll
<1> SUFFICES ASSUME BillingInit PROVE BillingAll
  OBVIOUS
<1> USE BillingAssumption DEF BillingInit
<1>1. BillingTypeOK
  BY DEF BillingTypeOK, Nothing, BillingSteps, SearchSteps
<1>2. BillingInv
  BY DEF BillingInv
<1>3. SearchInv
  BY DEF SearchInv
<1>4. BillingConsistent
  BY DEF BillingConsistent, StoreConsistent
<1> QED BY <1>1, <1>2, <1>3, <1>4 DEF BillingAll

\* A commit leaves the rows of other stores alone, and its own store, when no
\* other creation overlapped, with one type and its details.
LEMMA Committed ==
  ASSUME BillingAll, NEW r \in BRequests,
         create_with_type(r) \/ create_info(r) \/ switch_type(r)
  PROVE  /\ bstore[r] \in BStores /\ btype[r] \in BillingTypes
         /\ \A s \in BStores : s # bstore[r] => infos'[s] = infos[s] /\ types'[s] = types[s]
         /\ bstore[r] \notin crossed =>
              infos'[bstore[r]] = Only(btype[r]) /\ types'[bstore[r]] = Only(btype[r])
         /\ BillingCommits(r)
<1> USE BillingAssumption DEF BillingAll, BillingTypeOK, BillingInv, BillingTypes
<1>1. bstore[r] \in BStores /\ btype[r] \in BillingTypes /\ BillingCommits(r)
  BY DEF create_with_type, create_info, switch_type
<1>2. \A s \in BStores : s # bstore[r] => infos'[s] = infos[s] /\ types'[s] = types[s]
  BY <1>1 DEF create_with_type, create_info, switch_type, insert_info, insert_type,
     delete_and_insert, update_types
<1>3. ASSUME bstore[r] \notin crossed
      PROVE  infos'[bstore[r]] = Only(btype[r]) /\ types'[bstore[r]] = Only(btype[r])
  <2> DEFINE S == bstore[r]  T == btype[r]
  <2>1. StoreConsistent(S) /\ infos[S][T] = 0
    BY <1>1, <1>3 DEF BillingConsistent
  <2>2. types[S] = IF found[r] = NoType THEN Nothing ELSE Only(found[r])
    BY <1>1, <1>3 DEF create_with_type, create_info, switch_type
  <2>3. S \in BStores /\ T \in BillingTypes /\ NoType \notin BillingTypes
    BY <1>1
  <2>4. /\ infos[S] \in [BillingTypes -> Nat] /\ types[S] \in [BillingTypes -> Nat]
        /\ infos'[S] \in [BillingTypes -> Nat] /\ types'[S] \in [BillingTypes -> Nat]
    BY <1>1, OtherType DEF create_with_type, create_info, switch_type, insert_info,
       insert_type, delete_and_insert, update_types
  <2>5. CASE create_with_type(r)
    <3>1. \A y \in BillingTypes : infos[S][y] = 0 /\ types[S][y] = 0
      BY <2>1, <2>2, <2>3, <2>5, BillingRows DEF create_with_type, StoreConsistent
    <3>2. \A y \in BillingTypes : /\ infos'[S][y] = IF y = T THEN 1 ELSE 0
                                  /\ types'[S][y] = IF y = T THEN 1 ELSE 0
      BY <3>1, <2>3, <2>4, <2>5 DEF create_with_type, insert_info, insert_type
    <3> QED BY <3>2, <2>3, <2>4, BillingRows
  <2>6. CASE create_info(r)
    <3>1. types[S] = Only(T) /\ found[r] = T
      BY <2>2, <2>3, <2>6 DEF create_info
    <3>2. \A y \in BillingTypes : infos[S][y] = 0
      BY <2>1, <2>3, <3>1, BillingRows DEF StoreConsistent
    <3>3. \A y \in BillingTypes : infos'[S][y] = IF y = T THEN 1 ELSE 0
      BY <3>2, <2>3, <2>4, <2>6 DEF create_info, insert_info
    <3> QED BY <3>1, <3>3, <2>3, <2>4, <2>6, BillingRows DEF create_info
  <2>7. CASE switch_type(r)
    <3>1. found[r] = Other(T) /\ Other(T) \in BillingTypes /\ Other(T) # T
      BY <2>3, <2>7, OtherType DEF switch_type
    <3>2. types[S] = Only(Other(T))
      BY <3>1, <2>2, <2>3
    <3>3. \A y \in BillingTypes : types[S][y] = IF y = Other(T) THEN 1 ELSE 0
      BY <3>1, <3>2, BillingRows
    <3>4. \A y \in BillingTypes : /\ infos'[S][y] = IF y = T THEN 1 ELSE 0
                                  /\ types'[S][y] = IF y = T THEN 1 ELSE 0
      BY <3>1, <3>3, <2>1, <2>3, <2>4, <2>7 DEF switch_type, delete_and_insert, update_types
    <3> QED BY <3>4, <2>3, <2>4, BillingRows
  <2> QED BY <2>5, <2>6, <2>7
<1> QED BY <1>1, <1>2, <1>3

\* The type a read finds is the type of the store.
LEMMA TypeRead ==
  ASSUME BillingAll, NEW s \in BStores, NEW t \in billing_types(s)
  PROVE  /\ t \in BillingTypes \cup {NoType}
         /\ s \notin crossed => types[s] = IF t = NoType THEN Nothing ELSE Only(t)
<1>1. t \in BillingTypes \cup {NoType} /\ NoType \notin BillingTypes
  BY BillingAssumption DEF billing_types
<1>2. ASSUME s \notin crossed PROVE types[s] = IF t = NoType THEN Nothing ELSE Only(t)
  <2>1. StoreConsistent(s)
    BY <1>2 DEF BillingAll, BillingConsistent
  <2>2. CASE types[s] = Nothing
    BY <1>1, <2>2, BillingRows DEF billing_types
  <2>3. ASSUME NEW u \in BillingTypes, types[s] = Only(u)
        PROVE  types[s] = IF t = NoType THEN Nothing ELSE Only(t)
    <3>1. \A y \in BillingTypes : types[s][y] = IF y = u THEN 1 ELSE 0
      BY <2>3, BillingRows
    <3>2. t = u
      BY <1>1, <3>1 DEF billing_types
    <3> QED BY <1>1, <2>3, <3>2
  <2> QED BY <2>1, <2>2, <2>3 DEF StoreConsistent
<1> QED BY <1>1, <1>2

\* Every step keeps the types.
LEMMA BillingTypeNext == BillingAll /\ [BillingNext]_billingVars => BillingTypeOK'
<1> SUFFICES ASSUME BillingAll, [BillingNext]_billingVars PROVE BillingTypeOK'
  OBVIOUS
<1> USE BillingAssumption, OtherType DEF BillingAll, BillingTypeOK, BillingEnds,
      BillingCommits, requestVars, searchVars, billing_types, BillingInv, SearchInv,
      BillingSteps, SearchSteps, BillingTypes
<1>1. ASSUME NEW r \in BRequests, NEW s \in BStores,
             NEW t \in BillingTypes, validate_create(r, s, t)
     PROVE BillingTypeOK'
  BY <1>1 DEF validate_create, no_info, Creating
<1>2. ASSUME NEW r \in BRequests, get_billing_type(r) PROVE BillingTypeOK'
  BY <1>2 DEF get_billing_type
<1>3. ASSUME NEW r \in BRequests, create_with_type(r) PROVE BillingTypeOK'
  BY <1>3 DEF create_with_type, insert_type, insert_info
<1>4. ASSUME NEW r \in BRequests, create_info(r) PROVE BillingTypeOK'
  BY <1>4 DEF create_info, insert_info
<1>5. ASSUME NEW r \in BRequests, switch_type(r) PROVE BillingTypeOK'
  BY <1>5 DEF switch_type, can_delete, delete_and_insert, update_types
<1>6. ASSUME NEW r \in BRequests, abandon_billing(r) PROVE BillingTypeOK'
  BY <1>6 DEF abandon_billing
<1>7. ASSUME NEW q \in Searches, NEW s \in BStores, search_types(q, s) PROVE BillingTypeOK'
  BY <1>7 DEF search_types
<1>8. ASSUME NEW q \in Searches, search_international(q) PROVE BillingTypeOK'
  BY <1>8 DEF search_international, SearchInfos, no_info
<1>9. ASSUME NEW q \in Searches, search_russia(q) PROVE BillingTypeOK'
  BY <1>9 DEF search_russia, SearchInfos, no_info
<1>10. CASE UNCHANGED billingVars
  BY <1>10 DEF billingVars, requestVars, searchVars
<1> HIDE BillingAssumption, OtherType DEF BillingAll, BillingTypeOK, BillingEnds,
      BillingCommits, requestVars, searchVars, billing_types, BillingInv, SearchInv,
      BillingSteps, SearchSteps, BillingTypes
<1> QED
  BY <1>1, <1>2, <1>3, <1>4, <1>5, <1>6, <1>7, <1>8, <1>9, <1>10 DEF BillingNext

\* Every step keeps what a request that is alone with its store knows.
LEMMA BillingInvNext == BillingAll /\ [BillingNext]_billingVars => BillingInv'
<1> SUFFICES ASSUME BillingAll, [BillingNext]_billingVars PROVE BillingInv'
  OBVIOUS
<1> USE BillingAssumption, OtherType DEF BillingAll, BillingTypeOK, BillingEnds,
      BillingCommits, requestVars, searchVars, billing_types, BillingInv,
      BillingConsistent, BillingSteps, Nothing, Only
<1>1. ASSUME NEW r \in BRequests, NEW s \in BStores,
             NEW t \in BillingTypes, validate_create(r, s, t)
     PROVE BillingInv'
  BY <1>1 DEF validate_create, no_info, Creating
<1>2. ASSUME NEW r \in BRequests, get_billing_type(r) PROVE BillingInv'
  <2> HIDE DEF billing_types, Nothing, Only
  <2>1. PICK t \in billing_types(bstore[r]) : found' = [found EXCEPT ![r] = t]
    BY <1>2 DEF get_billing_type
  <2>2. bstore[r] \in BStores
    BY <1>2 DEF get_billing_type
  <2>3. /\ t \in BillingTypes \cup {NoType}
        /\ bstore[r] \notin crossed => types[bstore[r]] = IF t = NoType THEN Nothing ELSE Only(t)
    BY <2>1, <2>2, TypeRead
  <2>4. \A p \in BRequests :
          (bstore[p] # NoType /\ bstore[p] \notin crossed /\ bstep'[p] = "typed") =>
              types[bstore[p]] = IF found'[p] = NoType THEN Nothing ELSE Only(found'[p])
    BY <1>2, <2>1, <2>2, <2>3 DEF get_billing_type
  <2> USE DEF Nothing, Only
  <2>5. UNCHANGED <<infos, types, bstore, btype, crossed>>
    BY <1>2 DEF get_billing_type
  <2>6. \A p \in BRequests : bstep'[p] \in {"validated", "typed"} <=> bstep[p] \in {"validated", "typed"}
    BY <1>2 DEF get_billing_type
  <2> QED BY <2>4, <2>5, <2>6
<1>3. ASSUME NEW r \in BRequests, create_with_type(r) PROVE BillingInv'
  BY <1>3 DEF create_with_type, insert_type, insert_info
<1>4. ASSUME NEW r \in BRequests, create_info(r) PROVE BillingInv'
  BY <1>4 DEF create_info, insert_info
<1>5. ASSUME NEW r \in BRequests, switch_type(r) PROVE BillingInv'
  BY <1>5 DEF switch_type, can_delete, delete_and_insert, update_types
<1>6. ASSUME NEW r \in BRequests, abandon_billing(r) PROVE BillingInv'
  BY <1>6 DEF abandon_billing
<1>7. ASSUME NEW q \in Searches, NEW s \in BStores, search_types(q, s) PROVE BillingInv'
  BY <1>7 DEF search_types
<1>8. ASSUME NEW q \in Searches, search_international(q) PROVE BillingInv'
  BY <1>8 DEF search_international, SearchInfos, no_info
<1>9. ASSUME NEW q \in Searches, search_russia(q) PROVE BillingInv'
  BY <1>9 DEF search_russia, SearchInfos, no_info
<1>10. CASE UNCHANGED billingVars
  BY <1>10 DEF billingVars, requestVars, searchVars
<1> HIDE BillingAssumption, OtherType DEF BillingAll, BillingTypeOK, BillingEnds,
      BillingCommits, requestVars, searchVars, billing_types, BillingInv,
      BillingConsistent, BillingSteps, Nothing, Only
<1> QED
  BY <1>1, <1>2, <1>3, <1>4, <1>5, <1>6, <1>7, <1>8, <1>9, <1>10 DEF BillingNext

\* Every step keeps what a search shows.
LEMMA SearchInvNext == BillingAll /\ [BillingNext]_billingVars => SearchInv'
<1> SUFFICES ASSUME BillingAll, [BillingNext]_billingVars PROVE SearchInv'
  OBVIOUS
<1> USE BillingAssumption DEF BillingAll, BillingTypeOK, BillingEnds, requestVars,
      searchVars, SearchInv, SearchSteps
<1>1. ASSUME NEW r \in BRequests, NEW s \in BStores,
             NEW t \in BillingTypes, validate_create(r, s, t)
     PROVE SearchInv'
  BY <1>1 DEF validate_create, no_info, Creating
<1>2. ASSUME NEW r \in BRequests, get_billing_type(r) PROVE SearchInv'
  BY <1>2 DEF get_billing_type
<1>3. ASSUME NEW r \in BRequests, create_with_type(r) PROVE SearchInv'
  <2>1. /\ bstore[r] \in BStores /\ BillingCommits(r)
        /\ \A s \in BStores : s # bstore[r] => types'[s] = types[s]
    BY <1>3, Committed
  <2> QED BY <2>1 DEF BillingCommits, BillingEnds
<1>4. ASSUME NEW r \in BRequests, create_info(r) PROVE SearchInv'
  <2>1. /\ bstore[r] \in BStores /\ BillingCommits(r)
        /\ \A s \in BStores : s # bstore[r] => types'[s] = types[s]
    BY <1>4, Committed
  <2> QED BY <2>1 DEF BillingCommits, BillingEnds
<1>5. ASSUME NEW r \in BRequests, switch_type(r) PROVE SearchInv'
  <2>1. /\ bstore[r] \in BStores /\ BillingCommits(r)
        /\ \A s \in BStores : s # bstore[r] => types'[s] = types[s]
    BY <1>5, Committed
  <2> QED BY <2>1 DEF BillingCommits, BillingEnds
<1>6. ASSUME NEW r \in BRequests, abandon_billing(r) PROVE SearchInv'
  BY <1>6 DEF abandon_billing
<1>7. ASSUME NEW q \in Searches, NEW s \in BStores, search_types(q, s) PROVE SearchInv'
  <2>1. PICK t \in billing_types(s) : shownType' = [shownType EXCEPT ![q] = t]
    BY <1>7 DEF search_types
  <2>2. /\ t \in BillingTypes \cup {NoType}
        /\ s \notin crossed => types[s] = IF t = NoType THEN Nothing ELSE Only(t)
    BY <2>1, TypeRead
  <2> QED BY <1>7, <2>1, <2>2 DEF search_types, Nothing, Only
<1>8. ASSUME NEW q \in Searches, search_international(q) PROVE SearchInv'
  <2>1. shownType[q] \in BillingTypes \cup {NoType} /\ NoType \notin BillingTypes
    BY BillingAssumption
  <2>2. ASSUME sstore[q] \notin crossed, q \notin outrun
        PROVE  \A t \in BillingTypes : no_info(sstore[q], t) <=> shownType[q] # t
    <3>1. sstore[q] \in BStores \ crossed
      BY <1>8, <2>2 DEF search_international, SearchInfos
    <3>2. StoreConsistent(sstore[q])
      BY <3>1 DEF BillingConsistent
    <3>3. types[sstore[q]] = IF shownType[q] = NoType THEN Nothing ELSE Only(shownType[q])
      BY <1>8, <2>2 DEF search_international, SearchInfos
    <3>4. CASE shownType[q] = NoType
      BY <2>1, <3>2, <3>3, <3>4, BillingRows DEF no_info, StoreConsistent
    <3>5. CASE shownType[q] \in BillingTypes
      BY <2>1, <3>2, <3>3, <3>5, BillingRows DEF no_info, StoreConsistent
    <3> QED BY <2>1, <3>4, <3>5
  <2>3. \A t \in BillingTypes : t \in {"International", "Russia"}
    BY DEF BillingTypes
  <2>4. "International" \in BillingTypes /\ "Russia" \in BillingTypes
    BY DEF BillingTypes
  <2>5. ASSUME sstore[q] \notin crossed, q \notin outrun
        PROVE  shown'[q] = {shownType[q]} \cap {"International"}
    <3>1. shown[q] = {}
      BY <1>8, <2>5 DEF search_international, SearchInfos
    <3>2. shown'[q] = IF shownType[q] # "International" THEN shown[q] ELSE shown[q] \cup {"International"}
      BY <1>8, <2>2, <2>4, <2>5 DEF search_international, SearchInfos
    <3>3. CASE shownType[q] = NoType
      BY <2>1, <2>4, <3>1, <3>2, <3>3
    <3>4. CASE shownType[q] = "International"
      BY <2>1, <2>4, <3>1, <3>2, <3>4
    <3>5. CASE shownType[q] = "Russia"
      BY <2>1, <2>4, <3>1, <3>2, <3>5
    <3> QED BY <2>1, <2>3, <3>3, <3>4, <3>5
  <2>6. /\ UNCHANGED <<types, sstore, shownType, crossed, outrun>>
        /\ \A p \in Searches : p # q => shown'[p] = shown[p] /\ sstep'[p] = sstep[p]
        /\ sstep[q] = "international" /\ sstep'[q] = "russia"
    BY <1>8 DEF search_international, SearchInfos
  <2> QED BY <2>5, <2>6 DEF Nothing, Only
<1>9. ASSUME NEW q \in Searches, search_russia(q) PROVE SearchInv'
  <2>1. shownType[q] \in BillingTypes \cup {NoType} /\ NoType \notin BillingTypes
    BY BillingAssumption
  <2>2. ASSUME sstore[q] \notin crossed, q \notin outrun
        PROVE  \A t \in BillingTypes : no_info(sstore[q], t) <=> shownType[q] # t
    <3>1. sstore[q] \in BStores \ crossed
      BY <1>9, <2>2 DEF search_russia, SearchInfos
    <3>2. StoreConsistent(sstore[q])
      BY <3>1 DEF BillingConsistent
    <3>3. types[sstore[q]] = IF shownType[q] = NoType THEN Nothing ELSE Only(shownType[q])
      BY <1>9, <2>2 DEF search_russia, SearchInfos
    <3>4. CASE shownType[q] = NoType
      BY <2>1, <3>2, <3>3, <3>4, BillingRows DEF no_info, StoreConsistent
    <3>5. CASE shownType[q] \in BillingTypes
      BY <2>1, <3>2, <3>3, <3>5, BillingRows DEF no_info, StoreConsistent
    <3> QED BY <2>1, <3>4, <3>5
  <2>3. \A t \in BillingTypes : t \in {"International", "Russia"}
    BY DEF BillingTypes
  <2>4. "International" \in BillingTypes /\ "Russia" \in BillingTypes
    BY DEF BillingTypes
  <2>5. ASSUME sstore[q] \notin crossed, q \notin outrun
        PROVE  shown'[q] = {shownType[q]} \ {NoType}
    <3>1. shown[q] = {shownType[q]} \cap {"International"}
      BY <1>9, <2>5 DEF search_russia, SearchInfos
    <3>2. shown'[q] = IF shownType[q] # "Russia" THEN shown[q] ELSE shown[q] \cup {"Russia"}
      BY <1>9, <2>2, <2>4, <2>5 DEF search_russia, SearchInfos
    <3>3. CASE shownType[q] = NoType
      BY <2>1, <2>4, <3>1, <3>2, <3>3
    <3>4. CASE shownType[q] = "International"
      BY <2>1, <2>4, <3>1, <3>2, <3>4
    <3>5. CASE shownType[q] = "Russia"
      BY <2>1, <2>4, <3>1, <3>2, <3>5
    <3> QED BY <2>1, <2>3, <3>3, <3>4, <3>5
  <2>6. /\ UNCHANGED <<types, sstore, shownType, crossed, outrun>>
        /\ \A p \in Searches : p # q => shown'[p] = shown[p] /\ sstep'[p] = sstep[p]
        /\ sstep[q] = "russia" /\ sstep'[q] = "done"
    BY <1>9 DEF search_russia, SearchInfos
  <2> QED BY <2>5, <2>6 DEF Nothing, Only
<1>10. CASE UNCHANGED billingVars
  BY <1>10 DEF billingVars, requestVars, searchVars
<1> HIDE BillingAssumption DEF BillingAll, BillingTypeOK, BillingEnds, requestVars,
      searchVars, SearchInv, SearchSteps
<1> QED
  BY <1>1, <1>2, <1>3, <1>4, <1>5, <1>6, <1>7, <1>8, <1>9, <1>10 DEF BillingNext

\* Every step leaves a store one type and its details.
LEMMA BillingConsistentNext == BillingAll /\ [BillingNext]_billingVars => BillingConsistent'
<1> SUFFICES ASSUME BillingAll, [BillingNext]_billingVars PROVE BillingConsistent'
  OBVIOUS
<1>1. SearchInv' /\ BillingTypeOK'
  BY SearchInvNext, BillingTypeNext
<1>2. ASSUME NEW s \in BStores \ crossed' PROVE StoreConsistent(s)'
  <2>1. s \notin crossed
    BY DEF BillingNext, billingVars, requestVars, validate_create, get_billing_type,
       create_with_type, create_info, switch_type, abandon_billing, search_types,
       search_international, search_russia, SearchInfos, BillingCommits, BillingEnds
  <2>2. StoreConsistent(s)
    BY <2>1 DEF BillingAll, BillingConsistent
  <2>3. ASSUME NEW r \in BRequests, create_with_type(r) \/ create_info(r) \/ switch_type(r)
        PROVE  StoreConsistent(s)'
    <3>1. /\ bstore[r] \in BStores /\ btype[r] \in BillingTypes
          /\ s # bstore[r] => infos'[s] = infos[s] /\ types'[s] = types[s]
          /\ bstore[r] \notin crossed =>
               infos'[bstore[r]] = Only(btype[r]) /\ types'[bstore[r]] = Only(btype[r])
      BY <2>3, Committed
    <3> QED BY <3>1, <2>1, <2>2 DEF StoreConsistent, Only, Nothing
  <2>4. CASE UNCHANGED <<infos, types>>
    BY <2>2, <2>4 DEF StoreConsistent, Only, Nothing
  <2> QED
    BY <2>3, <2>4 DEF BillingNext, billingVars, requestVars, validate_create,
       get_billing_type, abandon_billing, search_types, search_international,
       search_russia, SearchInfos
<1>3. ASSUME NEW q \in Searches \ outrun', (sstep[q])' = "done", (sstore[q])' \notin crossed'
      PROVE  (shown[q])' = {(shownType[q])'} \ {NoType}
  BY <1>1, <1>3 DEF SearchInv
<1> QED BY <1>2, <1>3 DEF BillingConsistent

\* Bank details: the invariant always holds.
THEOREM BillingAlways == BillingSpec => []BillingAll
<1>1. BillingAll /\ [BillingNext]_billingVars => BillingAll'
  BY BillingTypeNext, BillingInvNext, SearchInvNext, BillingConsistentNext DEF BillingAll
<1> QED BY <1>1, BillingAllInit, PTL DEF BillingSpec

\* create_*_billing_info and OrderBillingService::search: for any stores,
\* requests and searches, a store has one type and the details of that type, and
\* a search shows them, unless two creations overlapped or overtook the search.
THEOREM BillingConsistentTheorem == BillingSpec => []BillingConsistent
<1>1. BillingAll => BillingConsistent
  BY DEF BillingAll
<1> QED BY <1>1, BillingAlways, PTL

-----------------------------------------------------------------------------
(* Accounts                                                                *)

AccountsAll == AccountsTypeOK /\ PoolInv /\ RevertInv /\ AccountsBacked

\* No instance has started yet.
LEMMA AccountsAllInit == AccountsInit => AccountsAll
<1> SUFFICES ASSUME AccountsInit PROVE AccountsAll
  OBVIOUS
<1> USE AccountPoolAssumption DEF AccountsInit
<1>1. AccountsTypeOK
  BY DEF AccountsTypeOK, InstanceSteps
<1>2. PoolInv
  BY DEF PoolInv, Makers
<1>3. RevertInv
  BY DEF RevertInv
<1>4. AccountsBacked
  BY DEF AccountsBacked
<1> QED BY <1>1, <1>2, <1>3, <1>4 DEF AccountsAll

\* Every step keeps the types.
LEMMA AccountsTypeNext == AccountsAll /\ [AccountsNext]_accountsVars => AccountsTypeOK'
<1> SUFFICES ASSUME AccountsAll, [AccountsNext]_accountsVars PROVE AccountsTypeOK'
  OBVIOUS
<1> USE AccountPoolAssumption DEF AccountsAll, AccountsTypeOK, Accounts, AccountGoes,
      PoolInv, InstanceSteps
<1>1. ASSUME NEW p \in Instances, init_system_accounts(p) PROVE AccountsTypeOK'
  BY <1>1 DEF init_system_accounts
<1>2. ASSUME NEW p \in Instances, NEW a \in System, create_system_account(p, a)
     PROVE AccountsTypeOK'
  BY <1>2 DEF create_system_account
<1>3. ASSUME NEW p \in Instances, init_account_pools(p) PROVE AccountsTypeOK'
  <2>1. Cardinality(arow \cap Pooled) \in Nat
    BY FS_Subset, FS_CardinalityType
  <2> QED BY <1>3, <2>1 DEF init_account_pools
<1>4. ASSUME NEW p \in Instances, NEW a \in Pooled, create_pooled_account(p, a)
     PROVE AccountsTypeOK'
  BY <1>4 DEF create_pooled_account
<1>5. ASSUME NEW p \in Instances, NEW a \in Pooled, create_free_account(p, a)
     PROVE AccountsTypeOK'
  BY <1>5 DEF create_free_account
<1>6. ASSUME NEW p \in Instances, serve(p) PROVE AccountsTypeOK'
  BY <1>6 DEF serve
<1>7. ASSUME NEW p \in Instances, open_account(p) PROVE AccountsTypeOK'
  BY <1>7 DEF open_account
<1>8. ASSUME NEW p \in Instances, insert_account(p) PROVE AccountsTypeOK'
  BY <1>8 DEF insert_account, Back
<1>9. ASSUME NEW p \in Instances, insert_fails(p) PROVE AccountsTypeOK'
  BY <1>9 DEF insert_fails
<1>10. ASSUME NEW p \in Instances, delete_row(p) PROVE AccountsTypeOK'
  BY <1>10 DEF delete_row, Reverted
<1>11. ASSUME NEW p \in Instances, delete_account(p) PROVE AccountsTypeOK'
  BY <1>11 DEF delete_account, Reverted
<1>12. ASSUME NEW p \in Instances, stop(p) PROVE AccountsTypeOK'
  BY <1>12 DEF stop
<1>13. CASE UNCHANGED accountsVars
  BY <1>13 DEF accountsVars
<1> HIDE AccountPoolAssumption DEF AccountsAll, AccountsTypeOK, Accounts, AccountGoes,
      PoolInv, InstanceSteps
<1> QED
  BY <1>1, <1>2, <1>3, <1>4, <1>5, <1>6, <1>7, <1>8, <1>9, <1>10, <1>11, <1>12, <1>13
     DEF AccountsNext, Start

\* Every step keeps who creates which account.
LEMMA PoolInvNext == AccountsAll /\ [AccountsNext]_accountsVars => PoolInv'
<1> SUFFICES ASSUME AccountsAll, [AccountsNext]_accountsVars PROVE PoolInv'
  OBVIOUS
<1> USE AccountPoolAssumption DEF AccountsAll, AccountsTypeOK, Accounts, AccountGoes,
      PoolInv, Makers, InstanceSteps
<1>1. ASSUME NEW p \in Instances, init_system_accounts(p) PROVE PoolInv'
  BY <1>1 DEF init_system_accounts
<1>2. ASSUME NEW p \in Instances, NEW a \in System, create_system_account(p, a)
     PROVE PoolInv'
  BY <1>2 DEF create_system_account
<1>3. ASSUME NEW p \in Instances, init_account_pools(p) PROVE PoolInv'
  BY <1>3 DEF init_account_pools
<1>4. ASSUME NEW p \in Instances, NEW a \in Pooled, create_pooled_account(p, a)
     PROVE PoolInv'
  BY <1>4 DEF create_pooled_account
<1>5. ASSUME NEW p \in Instances, NEW a \in Pooled, create_free_account(p, a)
     PROVE PoolInv'
  BY <1>5 DEF create_free_account
<1>6. ASSUME NEW p \in Instances, serve(p) PROVE PoolInv'
  BY <1>6 DEF serve
<1>7. ASSUME NEW p \in Instances, open_account(p) PROVE PoolInv'
  BY <1>7 DEF open_account
<1>8. ASSUME NEW p \in Instances, insert_account(p) PROVE PoolInv'
  BY <1>8 DEF insert_account, Back
<1>9. ASSUME NEW p \in Instances, insert_fails(p) PROVE PoolInv'
  BY <1>9 DEF insert_fails
<1>10. ASSUME NEW p \in Instances, delete_row(p) PROVE PoolInv'
  BY <1>10 DEF delete_row, Reverted
<1>11. ASSUME NEW p \in Instances, delete_account(p) PROVE PoolInv'
  BY <1>11 DEF delete_account, Reverted
<1>12. ASSUME NEW p \in Instances, stop(p) PROVE PoolInv'
  BY <1>12 DEF stop
<1>13. CASE UNCHANGED accountsVars
  BY <1>13 DEF accountsVars
<1> HIDE AccountPoolAssumption DEF AccountsAll, AccountsTypeOK, Accounts, AccountGoes,
      PoolInv, Makers, InstanceSteps
<1> QED
  BY <1>1, <1>2, <1>3, <1>4, <1>5, <1>6, <1>7, <1>8, <1>9, <1>10, <1>11, <1>12, <1>13
     DEF AccountsNext, Start

\* Every step keeps what a creation and its revert have done so far.
LEMMA RevertInvNext == AccountsAll /\ [AccountsNext]_accountsVars => RevertInv'
<1> SUFFICES ASSUME AccountsAll, [AccountsNext]_accountsVars PROVE RevertInv'
  OBVIOUS
<1> USE AccountPoolAssumption DEF AccountsAll, AccountsTypeOK, Accounts, AccountGoes,
      PoolInv, RevertInv, Makers, InstanceSteps
<1>1. ASSUME NEW p \in Instances, init_system_accounts(p) PROVE RevertInv'
  BY <1>1 DEF init_system_accounts
<1>2. ASSUME NEW p \in Instances, NEW a \in System, create_system_account(p, a)
     PROVE RevertInv'
  BY <1>2 DEF create_system_account
<1>3. ASSUME NEW p \in Instances, init_account_pools(p) PROVE RevertInv'
  BY <1>3 DEF init_account_pools
<1>4. ASSUME NEW p \in Instances, NEW a \in Pooled, create_pooled_account(p, a)
     PROVE RevertInv'
  BY <1>4 DEF create_pooled_account
<1>5. ASSUME NEW p \in Instances, NEW a \in Pooled, create_free_account(p, a)
     PROVE RevertInv'
  BY <1>5 DEF create_free_account
<1>6. ASSUME NEW p \in Instances, serve(p) PROVE RevertInv'
  BY <1>6 DEF serve
<1>7. ASSUME NEW p \in Instances, open_account(p) PROVE RevertInv'
  BY <1>7 DEF open_account
<1>8. ASSUME NEW p \in Instances, insert_account(p) PROVE RevertInv'
  BY <1>8 DEF insert_account, Back
<1>9. ASSUME NEW p \in Instances, insert_fails(p) PROVE RevertInv'
  BY <1>9 DEF insert_fails
<1>10. ASSUME NEW p \in Instances, delete_row(p) PROVE RevertInv'
  BY <1>10 DEF delete_row, Reverted
<1>11. ASSUME NEW p \in Instances, delete_account(p) PROVE RevertInv'
  BY <1>11 DEF delete_account, Reverted
<1>12. ASSUME NEW p \in Instances, stop(p) PROVE RevertInv'
  BY <1>12 DEF stop
<1>13. CASE UNCHANGED accountsVars
  BY <1>13 DEF accountsVars
<1> HIDE AccountPoolAssumption DEF AccountsAll, AccountsTypeOK, Accounts, AccountGoes,
      PoolInv, RevertInv, Makers, InstanceSteps
<1> QED
  BY <1>1, <1>2, <1>3, <1>4, <1>5, <1>6, <1>7, <1>8, <1>9, <1>10, <1>11, <1>12, <1>13
     DEF AccountsNext, Start

\* Every step leaves a row its account.
LEMMA AccountsBackedNext == AccountsAll /\ [AccountsNext]_accountsVars => AccountsBacked'
<1> SUFFICES ASSUME AccountsAll, [AccountsNext]_accountsVars PROVE AccountsBacked'
  OBVIOUS
<1> USE AccountPoolAssumption DEF AccountsAll, AccountsTypeOK, Accounts, AccountGoes,
      PoolInv, RevertInv, AccountsBacked, Reverting, Makers, InstanceSteps
<1>1. ASSUME NEW p \in Instances, init_system_accounts(p) PROVE AccountsBacked'
  BY <1>1 DEF init_system_accounts
<1>2. ASSUME NEW p \in Instances, NEW a \in System, create_system_account(p, a)
     PROVE AccountsBacked'
  BY <1>2 DEF create_system_account
<1>3. ASSUME NEW p \in Instances, init_account_pools(p) PROVE AccountsBacked'
  BY <1>3 DEF init_account_pools
<1>4. ASSUME NEW p \in Instances, NEW a \in Pooled, create_pooled_account(p, a)
     PROVE AccountsBacked'
  BY <1>4 DEF create_pooled_account
<1>5. ASSUME NEW p \in Instances, NEW a \in Pooled, create_free_account(p, a)
     PROVE AccountsBacked'
  BY <1>5 DEF create_free_account
<1>6. ASSUME NEW p \in Instances, serve(p) PROVE AccountsBacked'
  BY <1>6 DEF serve
<1>7. ASSUME NEW p \in Instances, open_account(p) PROVE AccountsBacked'
  BY <1>7 DEF open_account
<1>8. ASSUME NEW p \in Instances, insert_account(p) PROVE AccountsBacked'
  BY <1>8 DEF insert_account, Back
<1>9. ASSUME NEW p \in Instances, insert_fails(p) PROVE AccountsBacked'
  BY <1>9 DEF insert_fails
<1>10. ASSUME NEW p \in Instances, delete_row(p) PROVE AccountsBacked'
  BY <1>10 DEF delete_row, Reverted
<1>11. ASSUME NEW p \in Instances, delete_account(p) PROVE AccountsBacked'
  BY <1>11 DEF delete_account, Reverted
<1>12. ASSUME NEW p \in Instances, stop(p) PROVE AccountsBacked'
  BY <1>12 DEF stop
<1>13. CASE UNCHANGED accountsVars
  BY <1>13 DEF accountsVars
<1> HIDE AccountPoolAssumption DEF AccountsAll, AccountsTypeOK, Accounts, AccountGoes,
      PoolInv, RevertInv, AccountsBacked, Reverting, Makers, InstanceSteps
<1> QED
  BY <1>1, <1>2, <1>3, <1>4, <1>5, <1>6, <1>7, <1>8, <1>9, <1>10, <1>11, <1>12, <1>13
     DEF AccountsNext, Start

\* Accounts: the invariant always holds.
THEOREM AccountsAlways == AccountsSpec => []AccountsAll
<1>1. AccountsAll /\ [AccountsNext]_accountsVars => AccountsAll'
  BY AccountsTypeNext, PoolInvNext, RevertInvNext, AccountsBackedNext DEF AccountsAll
<1> QED BY <1>1, AccountsAllInit, PTL DEF AccountsSpec

\* create_account and create_account_revert: for any accounts and instances, a
\* row has its account at the gateway and an instance that serves has the
\* system accounts, unless a revert was cut short or instances started at once.
THEOREM AccountsBackedTheorem == AccountsSpec => []AccountsBacked
<1>1. AccountsAll => AccountsBacked
  BY DEF AccountsAll
<1> QED BY <1>1, AccountsAlways, PTL

-----------------------------------------------------------------------------
(* Roles and decisions                                                     *)

\* is_in_scope and the permission tables: whatever roles a user has, access to
\* what belongs to a store comes from a role for all stores or from a row of
\* the user that names the store.
THEOREM StoreAccessTheorem ==
    ASSUME NEW names \in SUBSET Roles, NEW table, NEW u, NEW q \in Questions,
           q.repo \in StoreRepos, Granted(names, table, u, q)
    PROVE  \/ names \cap {"Superuser", "FinancialManager"} # {}
           \/ q.obj # None /\ \E w \in table : w.user = u /\ w.data = q.obj.store
<1>0. PICK n \in names : \E p \in Permissions[n] :
          /\ p[1] = q.resource /\ p[2] = q.action
          /\ is_in_scope(q.repo, table, u, p[3], q.obj)
  BY DEF Granted, allows
<1>1. PICK p \in Permissions[n] :
          /\ p[1] = q.resource /\ p[2] = q.action
          /\ is_in_scope(q.repo, table, u, p[3], q.obj)
  BY <1>0
<1>2. CASE n \in {"Superuser", "FinancialManager"}
  BY <1>2
<1>3. CASE n \in {"User", "StoreManager"}
  <2>1. PICK x \in Repos : q.repo = x[1] /\ q.resource = x[2]
    BY DEF Questions
  <2>2. q.resource # "PaymentIntent"
    BY <2>1 DEF Repos, OrderRepos, PaymentRepos, BillingRepos, SellerRepos, StoreRepos
  <2>3. p[3] = "Owned"
    <3>1. CASE n = "User"
      <4>1. p \in User
        BY <3>1, <1>1 DEF Permissions, Roles
      <4> QED BY <4>1, <2>2, <1>1 DEF User
    <3>2. CASE n = "StoreManager"
      <4>1. p \in StoreManager
        BY <3>2, <1>1 DEF Permissions, Roles
      <4> QED BY <4>1, <2>2, <1>1 DEF StoreManager
    <3> QED BY <3>1, <3>2, <1>3
  <2>4. q.obj # None /\ Owned(q.repo, table, u, q.obj)
    BY <1>1, <2>3 DEF is_in_scope, StoreRepos
  <2>5. user_is_store_manager(table, u, q.obj.store)
    BY <2>4 DEF Owned, StoreRepos, fee, international_billing_info, russia_billing_info,
       store_billing_type, store_subscription, subscription, subscription_payment,
       payment_intents_fees
  <2> QED BY <2>4, <2>5 DEF user_is_store_manager
<1> QED BY <1>2, <1>3 DEF Roles

\* Names are roles.
LEMMA NamesType == TypeOK => Names \in [Users -> SUBSET Roles]
  BY UserRolesAssumption DEF TypeOK, Names, Table, Rows

\* What the table does not lose or gain, the names do not.
LEMMA NamesKept == UNCHANGED roles => Names' = Names
  BY DEF Names, Table

\* A change of the rows of one user leaves the roles of the others alone.
LEMMA NamesFrame ==
    ASSUME NEW v, TypeOK,
           roles' \in [RoleIds -> Rows \cup {None}],
           \A i \in RoleIds : \/ roles'[i] = roles[i]
                              \/ /\ roles[i] = None \/ roles[i].user = v
                                 /\ roles'[i] = None \/ roles'[i].user = v
    PROVE  \A u \in Users : u # v => Names'[u] = Names[u]
<1> SUFFICES ASSUME NEW u \in Users, u # v PROVE Names'[u] = Names[u]
  OBVIOUS
<1>1. {w \in Table' : w.user = u} = {w \in Table : w.user = u}
  BY DEF Table, TypeOK
<1> QED BY <1>1 DEF Names

\* Nobody asked for anything yet.
LEMMA RolesInit == Init => Inv
<1> SUFFICES ASSUME Init PROVE Inv
  OBVIOUS
<1> USE UserRolesAssumption DEF Init
<1>1. TypeOK
  BY DEF TypeOK, RequestSteps
<1>2. HeldInv /\ SubjectInv /\ RolesFresh
  BY DEF HeldInv, SubjectInv, RolesFresh
<1>3. DecisionCurrent
  BY DEF DecisionCurrent
<1> QED BY <1>1, <1>2, <1>3 DEF Inv

\* A question about roles is one of the questions.
LEMMA RoleQuestionAsked ==
    ASSUME NEW row \in Rows \cup {None}
    PROVE  RoleQuestion(row) \in Questions
<1>1. <<"user_roles", "UserRoles">> \in Repos
  BY DEF Repos, OrderRepos
<1>2. "Write" \in Actions
  BY DEF Actions
<1>3. (IF row = None THEN None ELSE [user |-> row.user, store |-> row.data])
          \in Objects \cup {None}
  BY DEF Rows, Objects
<1> QED BY <1>1, <1>2, <1>3 DEF RoleQuestion, Questions

\* What a request with roles and without is told.
LEMMA AnswerRight ==
    ASSUME Inv, NEW r \in Requests, rstep[r] \in {"acl", "delete"}, NEW q \in Questions
    PROVE  /\ Answer(r, q) \in Answers
           /\ Answer(r, q).granted = Answer(r, q).due \/ r \in misled
           /\ Answer(r, q).granted => Answer(r, q).rooted
<1> DEFINE g == Granted(held[r], Table, ruser[r], q)
           d == Granted(Names[ruser[r]], Table, ruser[r], q)
           t == \/ q.repo \notin StoreRepos
                \/ held[r] \cap {"Superuser", "FinancialManager"} # {}
                \/ q.obj # None /\ \E w \in Table : w.user = ruser[r] /\ w.data = q.obj.store
<1>1. g \in BOOLEAN /\ d \in BOOLEAN /\ t \in BOOLEAN
  BY DEF Granted
<1>2. g = d \/ r \in misled
  <2>1. CASE ruser[r] = None
    BY <2>1 DEF Granted
  <2>2. CASE ruser[r] # None
    BY <2>2 DEF Inv, HeldInv
  <2> QED BY <2>1, <2>2
<1>3. g => t
  <2> SUFFICES ASSUME g, q.repo \in StoreRepos PROVE t
    OBVIOUS
  <2>1. held[r] \in SUBSET Roles
    BY DEF Inv, TypeOK
  <2> QED BY <2>1, StoreAccessTheorem
<1>4. Answer(r, q) = [granted |-> g, due |-> d, rooted |-> t]
  BY DEF Answer
<1> HIDE DEF g, d, t
<1>5. Answer(r, q) \in Answers
  BY <1>1, <1>4 DEF Answers
<1>6. Answer(r, q).granted = g /\ Answer(r, q).due = d /\ Answer(r, q).rooted = t
  BY <1>4
<1> QED BY <1>2, <1>3, <1>5, <1>6

\* A change of the rows of v and of no others.
RowsOf(v) ==
    /\ v \in Users
    /\ roles' \in [RoleIds -> Rows \cup {None}]
    /\ \A i \in RoleIds : \/ roles'[i] = roles[i]
                          \/ /\ roles[i] = None \/ roles[i].user = v
                             /\ roles'[i] = None \/ roles'[i].user = v

\* What is looked for, and every row, is of a user.
LEMMA Subject ==
    ASSUME TypeOK
    PROVE  /\ \A r \in Requests : about[r] # None => about[r] \in Subjects /\ about[r].user \in Users
           /\ \A i \in RoleIds : roles[i] # None =>
                roles[i] \in Rows /\ roles[i] \in Subjects /\ roles[i].user \in Users
<1>1. Rows \subseteq Subjects
  BY DEF Rows, Subjects
<1>2. \A x \in Subjects : x.user \in Users
  BY DEF Subjects
<1> QED BY <1>1, <1>2 DEF TypeOK

\* Each operation on the table changes the rows of one user.
LEMMA InsertChanges ==
    ASSUME Inv, NEW r \in Requests, NEW i \in RoleIds, insert_role(r, i)
    PROVE  RowsOf(about[r].user)
<1>1. about[r] \in Rows /\ about[r] # None
  BY UserRolesAssumption DEF Inv, SubjectInv, insert_role, Rows, Subjects
<1>2. about[r].user \in Users
  BY <1>1, Subject DEF Inv
<1>3. roles' = [roles EXCEPT ![i] = about[r]] /\ roles[i] = None
  BY DEF insert_role, Changes
<1>4. roles' \in [RoleIds -> Rows \cup {None}]
  BY <1>1, <1>3 DEF Inv, TypeOK
<1> QED BY <1>2, <1>3, <1>4 DEF RowsOf, Inv, TypeOK

LEMMA DeleteChanges ==
    ASSUME Inv, NEW r \in Requests, NEW i \in RoleIds, delete_by_id(r, i)
    PROVE  RowsOf(roles[i].user)
<1>1. roles[i].user \in Users
  BY Subject DEF Inv, delete_by_id
<1>2. roles' = [roles EXCEPT ![i] = None]
  BY DEF delete_by_id, Changes
<1>3. roles' \in [RoleIds -> Rows \cup {None}]
  BY <1>2 DEF Inv, TypeOK
<1> QED BY <1>1, <1>2, <1>3 DEF RowsOf, Inv, TypeOK

LEMMA DeleteMatchingChanges ==
    ASSUME Inv, NEW r \in Requests, about[r] # None, 
           Changes(about[r].user,
                   [j \in RoleIds |-> IF j \in Matching(r) THEN None ELSE roles[j]])
    PROVE  RowsOf(about[r].user)
<1>1. about[r].user \in Users
  BY Subject DEF Inv
<1>2. roles' = [j \in RoleIds |-> IF j \in Matching(r) THEN None ELSE roles[j]]
  BY DEF Changes
<1>3. roles' \in [RoleIds -> Rows \cup {None}]
  BY <1>2 DEF Inv, TypeOK
<1> QED BY <1>1, <1>2, <1>3 DEF RowsOf, Inv, TypeOK, Matching

LEMMA DeleteAllChanges ==
    ASSUME Inv, NEW r \in Requests, delete_all_roles(r)
    PROVE  RowsOf(about[r].user)
<1>1. about[r].user \in Users
  BY Subject DEF Inv, SubjectInv, delete_all_roles
<1>2. roles' = [i \in RoleIds |-> IF roles[i] # None /\ roles[i].user = about[r].user
                                  THEN None ELSE roles[i]]
  BY DEF delete_all_roles, Changes
<1>3. roles' \in [RoleIds -> Rows \cup {None}]
  BY <1>2 DEF Inv, TypeOK
<1> QED BY <1>1, <1>2, <1>3 DEF RowsOf, Inv, TypeOK

\* Every step keeps the types.
LEMMA RolesTypeNext == Inv /\ [Next]_vars => TypeOK'
<1> SUFFICES ASSUME Inv, [Next]_vars PROVE TypeOK'
  OBVIOUS
<1> USE UserRolesAssumption DEF Inv, TypeOK, SubjectInv, RequestSteps
<1>1. ASSUME NEW r \in Requests, get_acl(r) PROVE TypeOK'
  BY <1>1 DEF get_acl, Goes
<1>2. ASSUME NEW r \in Requests, NEW u \in Users, get_cached(r, u) PROVE TypeOK'
  BY <1>2 DEF get_cached, Goes
<1>3. ASSUME NEW r \in Requests, NEW u \in Users, list_for_user(r, u) PROVE TypeOK'
  BY <1>3, NamesType DEF list_for_user, Goes
<1>4. ASSUME NEW r \in Requests, NEW u \in Users, list_fails(r, u) PROVE TypeOK'
  BY <1>4 DEF list_fails, Goes
<1>5. ASSUME NEW r \in Requests, set(r) PROVE TypeOK'
  BY <1>5 DEF set, Goes
<1>6. ASSUME NEW r \in Requests, NEW q \in Asked, check(r, q) PROVE TypeOK'
  BY <1>6, AnswerRight DEF check, Ends, Goes
<1>7. ASSUME NEW r \in Requests, NEW w \in NewRows, create_user_role(r, w) PROVE TypeOK'
  <2>1. Answer(r, RoleQuestion(None)) \in Answers
    BY <1>7, RoleQuestionAsked, AnswerRight DEF create_user_role
  <2>2. w \in Subjects
    BY UserRolesAssumption DEF Rows, Subjects
  <2> QED BY <1>7, <2>1, <2>2 DEF create_user_role, Ends, Goes, removed
<1>8. ASSUME NEW r \in Requests, NEW i \in RoleIds, insert_role(r, i) PROVE TypeOK'
  BY <1>8, InsertChanges DEF insert_role, Ends, Goes, Changes, Going, Overtaken, RowsOf
<1>9. ASSUME NEW r \in Requests, NEW i \in RoleIds, delete_by_id(r, i) PROVE TypeOK'
  BY <1>9, DeleteChanges, Subject DEF delete_by_id, Goes, Changes, Going, RowsOf
<1>10. ASSUME NEW r \in Requests, NEW u \in Users, NEW n \in Roles, delete_user_role(r, u, n)
     PROVE TypeOK'
  BY <1>10 DEF delete_user_role, Goes, removed, Subjects
<1>11. ASSUME NEW r \in Requests, delete_roles(r) PROVE TypeOK'
  <2>1. PICK i \in Matching(r) : delete_roles(r)!2!(i)
    BY <1>11 DEF delete_roles
  <2>2. i \in RoleIds /\ rstep[r] = "delete"
    BY <1>11 DEF delete_roles, Matching
  <2>3. Answer(r, RoleQuestion(roles[i])) \in Answers
    BY <2>2, RoleQuestionAsked, AnswerRight
  <2>4. CASE answer'[r].granted
    <3>1. RowsOf(about[r].user)
      BY <2>1, <2>2, <2>4, DeleteMatchingChanges
    <3> QED BY <2>1, <2>3, <2>4, <3>1 DEF Ends, Goes, Changes, Going, Overtaken, RowsOf
  <2>5. CASE ~answer'[r].granted
    BY <2>1, <2>3, <2>5 DEF Ends, Goes
  <2> QED BY <2>4, <2>5
<1>12. ASSUME NEW r \in Requests, NEW u \in Users, delete_by_user_id(r, u) PROVE TypeOK'
  BY <1>12 DEF delete_by_user_id, Goes, removed, Subjects
<1>13. ASSUME NEW r \in Requests, delete_all_roles(r) PROVE TypeOK'
  BY <1>13, DeleteAllChanges DEF delete_all_roles, Ends, Goes, Changes, Going, Overtaken, RowsOf
<1>14. ASSUME NEW r \in Requests, forget(r) PROVE TypeOK'
  BY <1>14, Subject DEF forget, Ends, Goes
<1>15. ASSUME NEW r \in Requests, abandon(r) PROVE TypeOK'
  BY <1>15, Subject DEF abandon, Ends, Goes
<1>16. ASSUME NEW u \in Users, expire(u) PROVE TypeOK'
  BY <1>16 DEF expire
<1>17. CASE UNCHANGED vars
  BY <1>17 DEF vars
<1> HIDE UserRolesAssumption DEF Inv, TypeOK, SubjectInv, RequestSteps
<1> QED
  BY <1>1, <1>2, <1>3, <1>4, <1>5, <1>6, <1>7, <1>8, <1>9, <1>10, <1>11, <1>12, <1>13,
     <1>14, <1>15, <1>16, <1>17 DEF Next, Request

\* Every step keeps who is looked for.
LEMMA SubjectNext == Inv /\ [Next]_vars => SubjectInv'
<1> SUFFICES ASSUME Inv, [Next]_vars PROVE SubjectInv'
  OBVIOUS
<1> USE UserRolesAssumption DEF Inv, TypeOK, SubjectInv
<1>1. ASSUME NEW r \in Requests, get_acl(r) PROVE SubjectInv'
  BY <1>1 DEF get_acl, Goes
<1>2. ASSUME NEW r \in Requests, NEW u \in Users, get_cached(r, u) PROVE SubjectInv'
  BY <1>2 DEF get_cached, Goes
<1>3. ASSUME NEW r \in Requests, NEW u \in Users, list_for_user(r, u) PROVE SubjectInv'
  BY <1>3 DEF list_for_user, Goes
<1>4. ASSUME NEW r \in Requests, NEW u \in Users, list_fails(r, u) PROVE SubjectInv'
  BY <1>4 DEF list_fails, Goes
<1>5. ASSUME NEW r \in Requests, set(r) PROVE SubjectInv'
  BY <1>5 DEF set, Goes
<1>6. ASSUME NEW r \in Requests, NEW q \in Asked, check(r, q) PROVE SubjectInv'
  BY <1>6 DEF check, Ends, Goes
<1>7. ASSUME NEW r \in Requests, NEW w \in NewRows, create_user_role(r, w)
     PROVE SubjectInv'
  <2>1. w \in Rows /\ w # None
    BY UserRolesAssumption DEF Rows, Subjects
  <2> QED BY <1>7, <2>1 DEF create_user_role, Ends, Goes
<1>8. ASSUME NEW r \in Requests, NEW i \in RoleIds, insert_role(r, i) PROVE SubjectInv'
  BY <1>8 DEF insert_role, Ends, Goes, Changes
<1>9. ASSUME NEW r \in Requests, NEW i \in RoleIds, delete_by_id(r, i) PROVE SubjectInv'
  BY <1>9, Subject DEF delete_by_id, Goes
<1>10. ASSUME NEW r \in Requests, NEW u \in Users, NEW n \in Roles, delete_user_role(r, u, n)
     PROVE SubjectInv'
  <2>1. [user |-> u, name |-> n, data |-> None] # None
    BY UserRolesAssumption DEF Subjects
  <2> QED BY <1>10, <2>1 DEF delete_user_role, Goes
<1>11. ASSUME NEW r \in Requests, delete_roles(r) PROVE SubjectInv'
  BY <1>11 DEF delete_roles, Ends, Goes, Changes
<1>12. ASSUME NEW r \in Requests, NEW u \in Users, delete_by_user_id(r, u)
     PROVE SubjectInv'
  <2>1. [user |-> u, name |-> None, data |-> None] # None
    BY UserRolesAssumption DEF Subjects
  <2> QED BY <1>12, <2>1 DEF delete_by_user_id, Goes
<1>13. ASSUME NEW r \in Requests, delete_all_roles(r) PROVE SubjectInv'
  BY <1>13 DEF delete_all_roles, Ends, Goes, Changes
<1>14. ASSUME NEW r \in Requests, forget(r) PROVE SubjectInv'
  BY <1>14 DEF forget, Ends, Goes
<1>15. ASSUME NEW r \in Requests, abandon(r) PROVE SubjectInv'
  BY <1>15 DEF abandon, Ends, Goes
<1>16. ASSUME NEW u \in Users, expire(u) PROVE SubjectInv'
  BY <1>16 DEF expire
<1>17. CASE UNCHANGED vars
  BY <1>17 DEF vars
<1> HIDE UserRolesAssumption DEF Inv, TypeOK, SubjectInv
<1> QED
  BY <1>1, <1>2, <1>3, <1>4, <1>5, <1>6, <1>7, <1>8, <1>9, <1>10, <1>11, <1>12, <1>13,
     <1>14, <1>15, <1>16, <1>17 DEF Next, Request

\* After a change of the table whoever holds the old roles of the user is
\* misled, and the cache is out of date if one of them is about to fill it.
LEMMA HeldChange ==
    ASSUME Inv, NEW r \in Requests, NEW v, RowsOf(v), Changes(v, roles'),
           raced \subseteq raced', Filling(v) # {} => v \in raced',
           ruser' = ruser, rstep'[r] \in {"done", "forget"},
           \A x \in Requests : x # r => rstep'[x] = rstep[x] /\ held'[x] = held[x]
    PROVE  HeldInv'
<1> SUFFICES ASSUME NEW x \in Requests, x # r
             PROVE  /\ rstep[x] = "new" => ruser[x] = None
                    /\ rstep[x] = "fill" =>
                         ruser[x] # None /\ (held[x] = Names'[ruser[x]] \/ ruser[x] \in raced')
                    /\ (rstep[x] \in {"fill", "acl", "delete"} /\ ruser[x] # None) =>
                         held[x] = Names'[ruser[x]] \/ x \in misled'
  BY DEF HeldInv
<1>1. \A u \in Users : u # v => Names'[u] = Names[u]
  BY NamesFrame DEF RowsOf, Inv
<1>2. ruser[x] \in Users \cup {None}
  BY DEF Inv, TypeOK
<1>3. CASE ruser[x] = v
  BY <1>3 DEF Changes, Going, Filling, Inv, HeldInv
<1>4. CASE ruser[x] # v
  BY <1>1, <1>2, <1>4 DEF Changes, Inv, HeldInv
<1> QED BY <1>3, <1>4

\* Every step keeps what requests know of the roles they hold.
LEMMA HeldNext == Inv /\ [Next]_vars => HeldInv'
<1> SUFFICES ASSUME Inv, [Next]_vars PROVE HeldInv'
  OBVIOUS
<1> USE UserRolesAssumption DEF Inv, HeldInv
<1>1. ASSUME NEW r \in Requests, get_acl(r) PROVE HeldInv'
  BY <1>1, NamesKept DEF get_acl, Goes, TypeOK
<1>2. ASSUME NEW r \in Requests, NEW u \in Users, get_cached(r, u) PROVE HeldInv'
  BY <1>2, NamesKept DEF get_cached, Goes, TypeOK, RolesFresh
<1>3. ASSUME NEW r \in Requests, NEW u \in Users, list_for_user(r, u) PROVE HeldInv'
  BY <1>3, NamesKept DEF list_for_user, Goes, TypeOK
<1>4. ASSUME NEW r \in Requests, NEW u \in Users, list_fails(r, u) PROVE HeldInv'
  BY <1>4, NamesKept DEF list_fails, Goes, TypeOK
<1>5. ASSUME NEW r \in Requests, set(r) PROVE HeldInv'
  BY <1>5, NamesKept DEF set, Goes, TypeOK
<1>6. ASSUME NEW r \in Requests, NEW q \in Asked, check(r, q) PROVE HeldInv'
  BY <1>6, NamesKept DEF check, Ends, Goes, TypeOK
<1>7. ASSUME NEW r \in Requests, NEW w \in NewRows, create_user_role(r, w) PROVE HeldInv'
  BY <1>7, NamesKept DEF create_user_role, Ends, Goes, removed, Filling, TypeOK
<1>8. ASSUME NEW r \in Requests, NEW i \in RoleIds, insert_role(r, i) PROVE HeldInv'
  <2>1. RowsOf(about[r].user)
    BY <1>8, InsertChanges
  <2> QED BY <1>8, <2>1, HeldChange DEF insert_role, Ends, Goes, Changes, Overtaken, TypeOK
<1>9. ASSUME NEW r \in Requests, NEW i \in RoleIds, delete_by_id(r, i) PROVE HeldInv'
  <2>1. RowsOf(roles[i].user)
    BY <1>9, DeleteChanges
  <2> QED BY <1>9, <2>1, HeldChange DEF delete_by_id, Goes, Changes, TypeOK
<1>10. ASSUME NEW r \in Requests, NEW u \in Users, NEW n \in Roles, delete_user_role(r, u, n)
     PROVE HeldInv'
  BY <1>10, NamesKept DEF delete_user_role, Goes, removed, Filling, TypeOK
<1>11. ASSUME NEW r \in Requests, delete_roles(r) PROVE HeldInv'
  <2>1. PICK i \in Matching(r) : delete_roles(r)!2!(i)
    BY <1>11 DEF delete_roles
  <2>2. CASE answer'[r].granted
    <3>1. about[r] # None
      BY <1>11 DEF delete_roles, SubjectInv
    <3>2. RowsOf(about[r].user)
      BY <2>1, <2>2, <3>1, DeleteMatchingChanges
    <3> QED BY <2>1, <2>2, <3>2, HeldChange DEF Ends, Goes, Changes, Overtaken, TypeOK
  <2>3. CASE ~answer'[r].granted
    BY <2>1, <2>3, NamesKept DEF Ends, Goes, TypeOK
  <2> QED BY <2>2, <2>3
<1>12. ASSUME NEW r \in Requests, NEW u \in Users, delete_by_user_id(r, u) PROVE HeldInv'
  BY <1>12, NamesKept DEF delete_by_user_id, Goes, removed, Filling, TypeOK
<1>13. ASSUME NEW r \in Requests, delete_all_roles(r) PROVE HeldInv'
  <2>1. RowsOf(about[r].user)
    BY <1>13, DeleteAllChanges
  <2> QED BY <1>13, <2>1, HeldChange DEF delete_all_roles, Ends, Goes, Changes, Overtaken, TypeOK
<1>14. ASSUME NEW r \in Requests, forget(r) PROVE HeldInv'
  BY <1>14, NamesKept DEF forget, Ends, Goes, Filling, TypeOK
<1>15. ASSUME NEW r \in Requests, abandon(r) PROVE HeldInv'
  BY <1>15, NamesKept DEF abandon, Ends, Goes, TypeOK
<1>16. ASSUME NEW u \in Users, expire(u) PROVE HeldInv'
  BY <1>16, NamesKept DEF expire, Filling, TypeOK
<1>17. CASE UNCHANGED vars
  BY <1>17, NamesKept DEF vars
<1> HIDE UserRolesAssumption DEF Inv, HeldInv
<1> QED
  BY <1>1, <1>2, <1>3, <1>4, <1>5, <1>6, <1>7, <1>8, <1>9, <1>10, <1>11, <1>12, <1>13,
     <1>14, <1>15, <1>16, <1>17 DEF Next, Request

\* A change of the table is seen in the cache's history or, after delete_by_id,
\* by the removal that is still to come.
LEMMA FreshChange ==
    ASSUME Inv, NEW v, RowsOf(v), cache' = cache, raced \subseteq raced',
           \A u \in Users : Forgetting(u) # {} => Forgetting(u)' # {},
           cache[v] # {} => v \in raced' \/ Forgetting(v)' # {}
    PROVE  RolesFresh'
<1> SUFFICES ASSUME NEW u \in Users, cache[u] # {}
             PROVE  cache[u] = Names'[u] \/ u \in raced' \/ Forgetting(u)' # {}
  BY DEF RolesFresh
<1>1. u # v => Names'[u] = Names[u]
  BY NamesFrame DEF RowsOf, Inv
<1> QED BY <1>1 DEF Inv, RolesFresh

\* Every step keeps the cached roles those of the table, or known to be others.
LEMMA FreshNext == Inv /\ [Next]_vars => RolesFresh'
<1> SUFFICES ASSUME Inv, [Next]_vars PROVE RolesFresh'
  OBVIOUS
<1> USE UserRolesAssumption DEF Inv, RolesFresh
<1>1. ASSUME NEW r \in Requests, get_acl(r) PROVE RolesFresh'
  BY <1>1, NamesKept DEF get_acl, Goes, Forgetting, TypeOK
<1>2. ASSUME NEW r \in Requests, NEW u \in Users, get_cached(r, u) PROVE RolesFresh'
  BY <1>2, NamesKept DEF get_cached, Goes, Forgetting, TypeOK
<1>3. ASSUME NEW r \in Requests, NEW u \in Users, list_for_user(r, u) PROVE RolesFresh'
  BY <1>3, NamesKept DEF list_for_user, Goes, Forgetting, TypeOK
<1>4. ASSUME NEW r \in Requests, NEW u \in Users, list_fails(r, u) PROVE RolesFresh'
  BY <1>4, NamesKept DEF list_fails, Goes, Forgetting, TypeOK
<1>5. ASSUME NEW r \in Requests, set(r) PROVE RolesFresh'
  BY <1>5, NamesKept DEF set, Goes, Forgetting, TypeOK, HeldInv
<1>6. ASSUME NEW r \in Requests, NEW q \in Asked, check(r, q) PROVE RolesFresh'
  BY <1>6, NamesKept DEF check, Ends, Goes, Forgetting, TypeOK
<1>7. ASSUME NEW r \in Requests, NEW w \in NewRows, create_user_role(r, w)
     PROVE RolesFresh'
  BY <1>7, NamesKept DEF create_user_role, Ends, Goes, removed, Forgetting, TypeOK
<1>8. ASSUME NEW r \in Requests, NEW i \in RoleIds, insert_role(r, i) PROVE RolesFresh'
  <2>1. RowsOf(about[r].user)
    BY <1>8, InsertChanges
  <2>2. \A y \in Users : Forgetting(y) # {} => Forgetting(y)' # {}
    BY <1>8 DEF insert_role, Ends, Goes, Forgetting, TypeOK
  <2> QED BY <1>8, <2>1, <2>2, FreshChange DEF insert_role, Overtaken
<1>9. ASSUME NEW r \in Requests, NEW i \in RoleIds, delete_by_id(r, i) PROVE RolesFresh'
  <2>1. PICK v : v = roles[i].user
    OBVIOUS
  <2>2. RowsOf(v)
    BY <1>9, <2>1, DeleteChanges
  <2>3. \A y \in Users : Forgetting(y) # {} => Forgetting(y)' # {}
    BY <1>9 DEF delete_by_id, Goes, Forgetting, TypeOK
  <2>4. r \in Forgetting(v)'
    BY <1>9, <2>1 DEF delete_by_id, Goes, Forgetting, TypeOK
  <2> QED BY <1>9, <2>1, <2>2, <2>3, <2>4, FreshChange DEF delete_by_id
<1>10. ASSUME NEW r \in Requests, NEW u \in Users, NEW n \in Roles, delete_user_role(r, u, n)
     PROVE RolesFresh'
  BY <1>10, NamesKept DEF delete_user_role, Goes, removed, Forgetting, TypeOK
<1>11. ASSUME NEW r \in Requests, delete_roles(r) PROVE RolesFresh'
  <2>1. PICK i \in Matching(r) : delete_roles(r)!2!(i)
    BY <1>11 DEF delete_roles
  <2>2. \A y \in Users : Forgetting(y) # {} => Forgetting(y)' # {}
    BY <2>1 DEF Ends, Goes, Forgetting, TypeOK
  <2>3. CASE answer'[r].granted
    <3>1. about[r] # None
      BY <1>11 DEF delete_roles, SubjectInv
    <3>2. RowsOf(about[r].user)
      BY <2>1, <2>3, <3>1, DeleteMatchingChanges
    <3> QED BY <2>1, <2>2, <2>3, <3>2, FreshChange DEF Overtaken
  <2>4. CASE ~answer'[r].granted
    BY <2>1, <2>2, <2>4, NamesKept
  <2> QED BY <2>3, <2>4
<1>12. ASSUME NEW r \in Requests, NEW u \in Users, delete_by_user_id(r, u)
     PROVE RolesFresh'
  BY <1>12, NamesKept DEF delete_by_user_id, Goes, removed, Forgetting, TypeOK
<1>13. ASSUME NEW r \in Requests, delete_all_roles(r) PROVE RolesFresh'
  <2>1. RowsOf(about[r].user)
    BY <1>13, DeleteAllChanges
  <2>2. \A y \in Users : Forgetting(y) # {} => Forgetting(y)' # {}
    BY <1>13 DEF delete_all_roles, Ends, Goes, Forgetting, TypeOK
  <2> QED BY <1>13, <2>1, <2>2, FreshChange DEF delete_all_roles, Overtaken
<1>14. ASSUME NEW r \in Requests, forget(r) PROVE RolesFresh'
  BY <1>14, NamesKept DEF forget, Ends, Goes, Forgetting, TypeOK
<1>15. ASSUME NEW r \in Requests, abandon(r) PROVE RolesFresh'
  BY <1>15, NamesKept DEF abandon, Ends, Goes, Forgetting, TypeOK
<1>16. ASSUME NEW u \in Users, expire(u) PROVE RolesFresh'
  BY <1>16, NamesKept DEF expire, Forgetting, TypeOK
<1>17. CASE UNCHANGED vars
  BY <1>17, NamesKept DEF vars, Forgetting
<1> HIDE UserRolesAssumption DEF Inv, RolesFresh
<1> QED
  BY <1>1, <1>2, <1>3, <1>4, <1>5, <1>6, <1>7, <1>8, <1>9, <1>10, <1>11, <1>12, <1>13,
     <1>14, <1>15, <1>16, <1>17 DEF Next, Request

\* A decision that stands, and one that is made now.
LEMMA DecisionStep ==
    ASSUME Inv, NEW r \in Requests, NEW q \in Questions, rstep[r] \in {"acl", "delete"},
           answer' = [answer EXCEPT ![r] = Answer(r, q)], misled \subseteq misled'
    PROVE  DecisionCurrent'
<1> SUFFICES ASSUME NEW x \in Requests, answer'[x] # None
             PROVE  /\ answer'[x].granted = answer'[x].due \/ x \in misled'
                    /\ answer'[x].granted => answer'[x].rooted
  BY DEF DecisionCurrent
<1>1. CASE x = r
  <2>1. answer'[x] = Answer(r, q)
    BY <1>1 DEF Inv, TypeOK
  <2> QED BY <1>1, <2>1, AnswerRight
<1>2. CASE x # r
  <2>1. answer'[x] = answer[x]
    BY <1>2 DEF Inv, TypeOK
  <2> QED BY <2>1 DEF Inv, DecisionCurrent
<1> QED BY <1>1, <1>2

\* Every step keeps decisions current.
LEMMA DecisionNext == Inv /\ [Next]_vars => DecisionCurrent'
<1> SUFFICES ASSUME Inv, [Next]_vars PROVE DecisionCurrent'
  OBVIOUS
<1> USE UserRolesAssumption DEF Inv, DecisionCurrent
<1>1. ASSUME NEW r \in Requests, get_acl(r) PROVE DecisionCurrent'
  BY <1>1 DEF get_acl, Goes
<1>2. ASSUME NEW r \in Requests, NEW u \in Users, get_cached(r, u) PROVE DecisionCurrent'
  BY <1>2 DEF get_cached, Goes
<1>3. ASSUME NEW r \in Requests, NEW u \in Users, list_for_user(r, u)
     PROVE DecisionCurrent'
  BY <1>3 DEF list_for_user, Goes
<1>4. ASSUME NEW r \in Requests, NEW u \in Users, list_fails(r, u) PROVE DecisionCurrent'
  BY <1>4 DEF list_fails, Goes
<1>5. ASSUME NEW r \in Requests, set(r) PROVE DecisionCurrent'
  BY <1>5 DEF set, Goes
<1>6. ASSUME NEW r \in Requests, NEW q \in Asked, check(r, q) PROVE DecisionCurrent'
  BY <1>6, DecisionStep DEF check, Ends, Goes
<1>7. ASSUME NEW r \in Requests, NEW w \in NewRows, create_user_role(r, w)
     PROVE DecisionCurrent'
  BY <1>7, RoleQuestionAsked, DecisionStep DEF create_user_role
<1>8. ASSUME NEW r \in Requests, NEW i \in RoleIds, insert_role(r, i)
     PROVE DecisionCurrent'
  BY <1>8 DEF insert_role, Ends, Goes, Changes
<1>9. ASSUME NEW r \in Requests, NEW i \in RoleIds, delete_by_id(r, i)
     PROVE DecisionCurrent'
  BY <1>9 DEF delete_by_id, Goes, Changes
<1>10. ASSUME NEW r \in Requests, NEW u \in Users, NEW n \in Roles, delete_user_role(r, u, n)
     PROVE DecisionCurrent'
  BY <1>10 DEF delete_user_role, Goes, removed
<1>11. ASSUME NEW r \in Requests, delete_roles(r) PROVE DecisionCurrent'
  <2>1. PICK i \in Matching(r) : delete_roles(r)!2!(i)
    BY <1>11 DEF delete_roles
  <2>2. RoleQuestion(roles[i]) \in Questions /\ rstep[r] = "delete"
    BY <1>11, RoleQuestionAsked DEF delete_roles, Matching, TypeOK
  <2>3. misled \subseteq misled'
    BY <2>1 DEF Changes
  <2> QED BY <2>1, <2>2, <2>3, DecisionStep
<1>12. ASSUME NEW r \in Requests, NEW u \in Users, delete_by_user_id(r, u)
     PROVE DecisionCurrent'
  BY <1>12 DEF delete_by_user_id, Goes, removed
<1>13. ASSUME NEW r \in Requests, delete_all_roles(r) PROVE DecisionCurrent'
  BY <1>13 DEF delete_all_roles, Ends, Goes, Changes
<1>14. ASSUME NEW r \in Requests, forget(r) PROVE DecisionCurrent'
  BY <1>14 DEF forget, Ends, Goes
<1>15. ASSUME NEW r \in Requests, abandon(r) PROVE DecisionCurrent'
  BY <1>15 DEF abandon, Ends, Goes
<1>16. ASSUME NEW u \in Users, expire(u) PROVE DecisionCurrent'
  BY <1>16 DEF expire
<1>17. CASE UNCHANGED vars
  BY <1>17 DEF vars
<1> HIDE UserRolesAssumption DEF Inv, DecisionCurrent
<1> QED
  BY <1>1, <1>2, <1>3, <1>4, <1>5, <1>6, <1>7, <1>8, <1>9, <1>10, <1>11, <1>12, <1>13,
     <1>14, <1>15, <1>16, <1>17 DEF Next, Request

\* The inductive invariant of roles, cache and requests.
THEOREM RolesInvTheorem == Spec => []Inv
<1>1. Inv /\ [Next]_vars => Inv'
  BY RolesTypeNext, HeldNext, SubjectNext, FreshNext, DecisionNext DEF Inv
<1> QED BY <1>1, RolesInit, PTL DEF Spec

\* The tables, the cache and the requests keep their types.
THEOREM RolesTypeTheorem == Spec => []TypeOK
<1>1. Inv => TypeOK
  BY DEF Inv
<1> QED BY <1>1, RolesInvTheorem, PTL

\* The cached roles of a user are those of the table, whatever the order of fills,
\* changes, removals, failures and expiries, unless a race or a failure is on record.
THEOREM RolesFreshTheorem == Spec => []RolesFresh
<1>1. Inv => RolesFresh
  BY DEF Inv
<1> QED BY <1>1, RolesInvTheorem, PTL

\* A request is answered as the table would answer at that moment unless it is on
\* record as misled, and never reaches a store's data without a row or a role for it.
THEOREM DecisionCurrentTheorem == Spec => []DecisionCurrent
<1>1. Inv => DecisionCurrent
  BY DEF Inv
<1> QED BY <1>1, RolesInvTheorem, PTL

-----------------------------------------------------------------------------
(* Amounts.  Recursive functions on Nat are unfolded, and facts about them  *)
(* proved, from the least counterexample.                                   *)

\* The naturals are well founded.
LEMMA Least ==
    ASSUME NEW T \in SUBSET Nat, T # {}
    PROVE  \E m \in T : \A n \in T : m <= n
<1> DEFINE R == OpToRel(<, Nat)
<1>1. IsWellFoundedOn(R, Nat)
  BY NatLessThanWellFounded
<1>2. PICK x \in T : \A y \in T : <<y, x>> \notin R
  <2> HIDE DEF R
  <2> QED BY <1>1, WFMin
<1>3. R = {p \in Nat \X Nat : p[1] < p[2]}
  BY DEF OpToRel
<1> HIDE DEF R
<1>4. \A y \in T : ~(y < x)
  <2> TAKE y \in T
  <2>1. <<y, x>> \in Nat \X Nat
    OBVIOUS
  <2>2. <<y, x>>[1] = y /\ <<y, x>>[2] = x
    OBVIOUS
  <2> QED BY <1>2, <1>3, <2>1, <2>2
<1> QED BY <1>4

\* A set of naturals with 0 that each natural is in after the one before is Nat.
LEMMA Induction ==
    ASSUME NEW T \in SUBSET Nat, 0 \in T, \A n \in Nat : n # 0 /\ n - 1 \in T => n \in T
    PROVE  T = Nat
<1>1. ASSUME Nat \ T # {} PROVE FALSE
  <2>1. PICK m \in Nat \ T : \A n \in Nat \ T : m <= n
    BY <1>1, Least
  <2>2. m # 0 /\ m - 1 \in Nat /\ m - 1 \in T
    BY <2>1
  <2> QED BY <2>1, <2>2
<1> QED BY <1>1

\* g holds the first n values, after s, of the recursion with this step.
Fits(g, n, s, step) == g[0] = s /\ \A i \in 1 .. n : g[i] = step[<<i, g[i - 1]>>]

\* However many values there are to be, there are such values.
LEMMA FirstValues ==
    ASSUME NEW S, NEW s \in S, NEW step \in [Nat \X S -> S]
    PROVE  \A n \in Nat : \E g \in [0 .. n -> S] : Fits(g, n, s, step)
<1> DEFINE T == {n \in Nat : \E g \in [0 .. n -> S] : Fits(g, n, s, step)}
<1>1. 0 \in T
  <2>1. [i \in 0 .. 0 |-> s] \in [0 .. 0 -> S] /\ Fits([i \in 0 .. 0 |-> s], 0, s, step)
    BY DEF Fits
  <2> QED BY <2>1
<1>2. ASSUME NEW n \in Nat, n # 0, n - 1 \in T PROVE n \in T
  <2>1. PICK g \in [0 .. n - 1 -> S] : Fits(g, n - 1, s, step)
    BY <1>2
  <2> DEFINE h == [i \in 0 .. n |-> IF i = n THEN step[<<i, g[n - 1]>>] ELSE g[i]]
  <2>2. h \in [0 .. n -> S]
    BY <1>2
  <2>3. Fits(h, n, s, step)
    BY <1>2, <2>1 DEF Fits
  <2> HIDE DEF h
  <2> QED BY <2>2, <2>3
<1>3. T \in SUBSET Nat
  OBVIOUS
<1> HIDE DEF T
<1>4. T = Nat
  BY <1>1, <1>2, <1>3, Induction
<1> QED BY <1>4 DEF T

\* They are always the same.
LEMMA FirstValuesAgree ==
    ASSUME NEW s, NEW step, NEW n \in Nat, NEW m \in Nat, n <= m,
           NEW g, Fits(g, n, s, step), NEW h, Fits(h, m, s, step)
    PROVE  g[n] = h[n]
<1> USE DEF Fits
<1> DEFINE T == {i \in Nat : i <= n => g[i] = h[i]}
<1>1. 0 \in T
  OBVIOUS
<1>2. ASSUME NEW i \in Nat, i # 0, i - 1 \in T PROVE i \in T
  <2> SUFFICES ASSUME i <= n PROVE g[i] = h[i]
    OBVIOUS
  <2>1. g[i - 1] = h[i - 1]
    BY <1>2
  <2>2. i \in 1 .. n /\ i \in 1 .. m
    BY <1>2
  <2> QED BY <2>1, <2>2
<1>3. T \in SUBSET Nat
  OBVIOUS
<1> HIDE DEF T
<1>4. T = Nat
  BY <1>1, <1>2, <1>3, Induction
<1> QED BY <1>4 DEF T

Recurs(f, s, step) == f[0] = s /\ \A n \in Nat : n # 0 => f[n] = step[<<n, f[n - 1]>>]

\* A recursion whose step is a function has a solution.
LEMMA Recursion ==
    ASSUME NEW S, NEW s \in S, NEW step \in [Nat \X S -> S]
    PROVE  \E f \in [Nat -> S] : Recurs(f, s, step)
<1> DEFINE G(n) == CHOOSE g \in [0 .. n -> S] : Fits(g, n, s, step)
           f == [n \in Nat |-> G(n)[n]]
<1>1. \A n \in Nat : G(n) \in [0 .. n -> S] /\ Fits(G(n), n, s, step)
  <2> SUFFICES ASSUME NEW n \in Nat PROVE G(n) \in [0 .. n -> S] /\ Fits(G(n), n, s, step)
    OBVIOUS
  <2>1. \E g \in [0 .. n -> S] : Fits(g, n, s, step)
    BY FirstValues
  <2> QED BY <2>1, Zenon
<1> HIDE DEF G
<1>2. f \in [Nat -> S] /\ f[0] = s
  BY <1>1 DEF Fits
<1>3. ASSUME NEW n \in Nat, n # 0 PROVE f[n] = step[<<n, f[n - 1]>>]
  <2>1. n - 1 \in Nat /\ n - 1 <= n /\ n \in 1 .. n
    BY <1>3
  <2>2. G(n - 1)[n - 1] = G(n)[n - 1]
    BY <1>1, <2>1, FirstValuesAgree
  <2> QED BY <1>1, <2>1, <2>2 DEF Fits
<1> HIDE DEF f
<1> QED BY <1>2, <1>3 DEF Recurs

\* The same for a recursion over 0 .. N.
LEMMA FiniteRecursion ==
    ASSUME NEW S, NEW s \in S, NEW N \in Nat, NEW step \in [(1 .. N) \X S -> S]
    PROVE  \E g \in [0 .. N -> S] : Fits(g, N, s, step)
<1> DEFINE all == [p \in Nat \X S |-> IF p[1] \in 1 .. N THEN step[p] ELSE s]
<1>1. all \in [Nat \X S -> S]
  <2>1. ASSUME NEW p \in Nat \X S, p[1] \in 1 .. N PROVE step[p] \in S
    <3>1. p \in (1 .. N) \X S
      BY <2>1
    <3> QED BY <3>1
  <2> QED BY <2>1
<1>2. \A k \in 1 .. N, x \in S : all[<<k, x>>] = step[<<k, x>>]
  OBVIOUS
<1> HIDE DEF all
<1>3. PICK f \in [Nat -> S] : Recurs(f, s, all)
  BY <1>1, Recursion
<1> DEFINE g == [k \in 0 .. N |-> f[k]]
<1>4. g \in [0 .. N -> S] /\ g[0] = s
  BY <1>3 DEF Recurs
<1>5. ASSUME NEW k \in 1 .. N PROVE g[k] = step[<<k, g[k - 1]>>]
  <2>1. k \in Nat /\ k # 0 /\ k - 1 \in 0 .. N /\ f[k - 1] \in S
    OBVIOUS
  <2>2. f[k] = all[<<k, f[k - 1]>>]
    BY <1>3, <2>1 DEF Recurs
  <2> QED BY <1>2, <2>1, <2>2
<1> HIDE DEF g
<1> QED BY <1>4, <1>5 DEF Fits

\* Its values are all of one kind.
LEMMA FiniteInduction ==
    ASSUME NEW N \in Nat, NEW U \in SUBSET (0 .. N), 0 \in U,
           \A k \in 1 .. N : k - 1 \in U => k \in U
    PROVE  \A k \in 0 .. N : k \in U
<1> DEFINE T == {k \in Nat : k <= N => k \in U}
<1>1. 0 \in T
  OBVIOUS
<1>2. ASSUME NEW k \in Nat, k # 0, k - 1 \in T PROVE k \in T
  BY <1>2
<1>3. T \in SUBSET Nat
  OBVIOUS
<1> HIDE DEF T
<1>4. T = Nat
  BY <1>1, <1>2, <1>3, Induction
<1> QED BY <1>4 DEF T

\* The base and the largest amount are numbers, and Failed is no amount.
LEMMA Sizes == /\ Base \in Nat /\ Base > 1 /\ MAX \in Nat /\ MAX >= Base
               /\ Failed \notin 0 .. MAX
  BY AmountsAssumption

\* A power is Base times the one before.
LEMMA PowerDef ==
    /\ Power[0] = 1
    /\ \A n \in Nat : Power[n] \in Nat /\ Power[n] > 0 /\ (n # 0 => Power[n] = Base * Power[n - 1])
<1> USE Sizes
<1> DEFINE step == [p \in Nat \X Nat |-> Base * p[2]]
<1>1. step \in [Nat \X Nat -> Nat]
  OBVIOUS
<1>2. \A n, x \in Nat : step[<<n, x>>] = Base * x
  OBVIOUS
<1> HIDE DEF step
<1>3. PICK f \in [Nat -> Nat] : Recurs(f, 1, step)
  BY <1>1, Recursion
<1>4. f = [n \in Nat |-> IF n = 0 THEN 1 ELSE Base * f[n - 1]]
  <2>1. ASSUME NEW n \in Nat PROVE f[n] = IF n = 0 THEN 1 ELSE Base * f[n - 1]
    <3>1. n # 0 => n - 1 \in Nat /\ f[n - 1] \in Nat
      OBVIOUS
    <3> QED BY <1>2, <1>3, <3>1 DEF Recurs
  <2> QED BY <2>1
<1>5. Power = [n \in Nat |-> IF n = 0 THEN 1 ELSE Base * Power[n - 1]]
  BY <1>4 DEF Power
<1> DEFINE P == Power
<1> HIDE DEF P
<1>6. P[0] = 1 /\ \A n \in Nat : n # 0 => P[n] = Base * P[n - 1]
  BY <1>5 DEF P
<1> DEFINE T == {n \in Nat : P[n] \in Nat /\ P[n] > 0}
<1>7. 0 \in T
  BY <1>6
<1>8. ASSUME NEW n \in Nat, n # 0, n - 1 \in T PROVE n \in T
  BY <1>6, <1>8
<1>9. T \in SUBSET Nat
  OBVIOUS
<1> HIDE DEF T
<1>10. T = Nat
  BY <1>7, <1>8, <1>9, Induction
<1> QED BY <1>6, <1>10 DEF T, P

\* Division by the base.
LEMMA DivMod ==
    ASSUME NEW a \in Nat
    PROVE  /\ a \div Base \in Nat /\ a % Base \in Digits
           /\ a = Base * (a \div Base) + (a % Base)
           /\ a > 0 => a \div Base < a
           /\ a \div Base = 0 => a % Base = a
<1> USE Sizes DEF Digits
<1>1. a \div Base \in Nat /\ a % Base \in 0 .. Base - 1
  OBVIOUS
<1>2. a = Base * (a \div Base) + (a % Base)
  OBVIOUS
<1>3. ASSUME NEW q \in Nat, NEW r \in Nat, a = Base * q + r PROVE (a > 0 => q < a) /\ (q = 0 => r = a)
  BY <1>3
<1> QED BY <1>1, <1>2, <1>3

\* What the iterator has left after each digit.
LEMMA LeftDef ==
    ASSUME NEW v \in Nat
    PROVE  /\ left(v)[0] = v
           /\ \A i \in Nat : left(v)[i] \in Nat /\ (i # 0 => left(v)[i] = left(v)[i - 1] \div Base)
<1> DEFINE step == [p \in Nat \X Nat |-> p[2] \div Base]
<1>1. step \in [Nat \X Nat -> Nat]
  BY DivMod
<1>2. \A n, x \in Nat : step[<<n, x>>] = x \div Base
  OBVIOUS
<1> HIDE DEF step
<1>3. PICK f \in [Nat -> Nat] : Recurs(f, v, step)
  BY <1>1, Recursion
<1>4. f = [i \in Nat |-> IF i = 0 THEN v ELSE f[i - 1] \div Base]
  <2>1. ASSUME NEW i \in Nat PROVE f[i] = IF i = 0 THEN v ELSE f[i - 1] \div Base
    <3>1. i # 0 => i - 1 \in Nat /\ f[i - 1] \in Nat
      OBVIOUS
    <3> QED BY <1>2, <1>3, <3>1 DEF Recurs
  <2> QED BY <2>1
<1> DEFINE l == left(v)
<1>5. l = [i \in Nat |-> IF i = 0 THEN v ELSE l[i - 1] \div Base]
  BY <1>4 DEF left
<1> HIDE DEF l
<1>6. l[0] = v /\ \A i \in Nat : i # 0 => l[i] = l[i - 1] \div Base
  BY <1>5
<1> DEFINE T == {i \in Nat : l[i] \in Nat}
<1>7. 0 \in T
  BY <1>6
<1>8. ASSUME NEW i \in Nat, i # 0, i - 1 \in T PROVE i \in T
  BY <1>6, <1>8, DivMod
<1>9. T \in SUBSET Nat
  OBVIOUS
<1> HIDE DEF T
<1>10. T = Nat
  BY <1>7, <1>8, <1>9, Induction
<1> QED BY <1>6, <1>10 DEF T, l

\* What is accumulated after each digit, Failed once it does not fit.
LEMMA FromDigitsDef ==
    ASSUME NEW ds \in Seq(Digits)
    PROVE  \E acc \in [0 .. Len(ds) -> (0 .. MAX) \cup {Failed}] :
              /\ acc[0] = 0
              /\ \A k \in 1 .. Len(ds) :
                    acc[k] = checked_add(checked_mul(acc[k - 1], Base), ds[k])
              /\ FromDigits(ds) = acc[Len(ds)]
<1> DEFINE S == (0 .. MAX) \cup {Failed}
           next(k, x) == checked_add(checked_mul(x, Base), ds[k])
           N == Len(ds)
           step == [p \in (1 .. N) \X S |-> next(p[1], p[2])]
<1>1. N \in Nat /\ 0 \in S
  BY Sizes
<1>2. ASSUME NEW k \in 1 .. N, NEW x \in S PROVE next(k, x) \in S
  <2>1. ds[k] \in Nat
    BY Sizes DEF Digits
  <2>2. checked_mul(x, Base) \in S
    BY Sizes DEF checked_mul
  <2> QED BY <2>1, <2>2, Sizes DEF checked_add
<1> HIDE DEF next, N, S
<1>3. step \in [(1 .. N) \X S -> S] /\ \A k \in 1 .. N, x \in S : step[<<k, x>>] = next(k, x)
  BY <1>2
<1> HIDE DEF step
<1>4. PICK g \in [0 .. N -> S] : Fits(g, N, 0, step)
  BY <1>1, <1>3, FiniteRecursion
<1>5. g = [k \in 0 .. N |-> IF k = 0 THEN 0 ELSE next(k, g[k - 1])]
  <2>1. ASSUME NEW k \in 0 .. N PROVE g[k] = IF k = 0 THEN 0 ELSE next(k, g[k - 1])
    <3>1. CASE k = 0
      BY <1>4, <3>1 DEF Fits
    <3>2. CASE k # 0
      <4>1. k \in 1 .. N /\ g[k - 1] \in S
        BY <1>1, <3>2
      <4>2. g[k] = step[<<k, g[k - 1]>>]
        BY <1>4, <4>1 DEF Fits
      <4> QED BY <1>3, <3>2, <4>1, <4>2
    <3> QED BY <3>1, <3>2
  <2> QED BY <2>1
<1> DEFINE acc == CHOOSE h : h = [k \in 0 .. N |-> IF k = 0 THEN 0 ELSE next(k, h[k - 1])]
<1>6. FromDigits(ds) = acc[N]
  BY DEF FromDigits, next, N
<1>7. acc = [k \in 0 .. N |-> IF k = 0 THEN 0 ELSE next(k, acc[k - 1])]
  BY <1>5
<1> HIDE DEF acc
<1>8. acc[0] = 0 /\ \A k \in 1 .. N : acc[k] = next(k, acc[k - 1])
  BY <1>1, <1>7
<1> DEFINE U == {k \in 0 .. N : acc[k] \in S}
<1>9. 0 \in U /\ \A k \in 1 .. N : k - 1 \in U => k \in U
  BY <1>1, <1>2, <1>8
<1>10. U \in SUBSET (0 .. N)
  OBVIOUS
<1> HIDE DEF U
<1>11. \A k \in 0 .. N : acc[k] \in S
  BY <1>1, <1>9, <1>10, FiniteInduction DEF U
<1>12. acc \in [0 .. N -> S]
  BY <1>7, <1>11
<1> QED BY <1>6, <1>8, <1>12 DEF N, S, next

\* What a number is worth, digit by digit.
LEMMA ValueDef ==
    ASSUME NEW n, NEW ds \in Seq(Digits), NEW w \in Int, w >= Len(ds) - 1,
           n.digits = ds, n.weight = w
    PROVE  \E sum \in [0 .. Len(ds) -> Nat] :
              /\ sum[0] = 0
              /\ \A k \in 1 .. Len(ds) : sum[k] = sum[k - 1] + ds[k] * Power[w + 1 - k]
              /\ Value(n) = sum[Len(ds)]
<1> DEFINE next(k, x) == x + ds[k] * Power[w + 1 - k]
           N == Len(ds)
           step == [p \in (1 .. N) \X Nat |-> next(p[1], p[2])]
<1>1. N \in Nat
  OBVIOUS
<1>2. ASSUME NEW k \in 1 .. N, NEW x \in Nat PROVE next(k, x) \in Nat
  <2>1. ds[k] \in Nat
    BY Sizes DEF Digits
  <2>2. w + 1 - k \in Nat
    OBVIOUS
  <2>3. Power[w + 1 - k] \in Nat
    BY <2>2, PowerDef
  <2>4. \A a, b, c \in Nat : a + b * c \in Nat
    OBVIOUS
  <2> QED BY <2>1, <2>3, <2>4
<1>3. Value(n) = (CHOOSE h : h = [k \in 0 .. N |-> IF k = 0 THEN 0 ELSE next(k, h[k - 1])])[N]
  BY DEF Value
<1> HIDE DEF next, N
<1>4. step \in [(1 .. N) \X Nat -> Nat] /\ \A k \in 1 .. N, x \in Nat : step[<<k, x>>] = next(k, x)
  BY <1>2
<1> HIDE DEF step
<1>5. PICK g \in [0 .. N -> Nat] : Fits(g, N, 0, step)
  BY <1>1, <1>4, FiniteRecursion
<1>6. g = [k \in 0 .. N |-> IF k = 0 THEN 0 ELSE next(k, g[k - 1])]
  <2>1. ASSUME NEW k \in 0 .. N PROVE g[k] = IF k = 0 THEN 0 ELSE next(k, g[k - 1])
    <3>1. CASE k = 0
      BY <1>5, <3>1 DEF Fits
    <3>2. CASE k # 0
      <4>1. k \in 1 .. N /\ g[k - 1] \in Nat
        BY <1>1, <3>2
      <4>2. g[k] = step[<<k, g[k - 1]>>]
        BY <1>5, <4>1 DEF Fits
      <4> QED BY <1>4, <3>2, <4>1, <4>2
    <3> QED BY <3>1, <3>2
  <2> QED BY <2>1
<1> DEFINE sum == CHOOSE h : h = [k \in 0 .. N |-> IF k = 0 THEN 0 ELSE next(k, h[k - 1])]
<1>7. sum = [k \in 0 .. N |-> IF k = 0 THEN 0 ELSE next(k, sum[k - 1])]
  BY <1>6
<1>8. Value(n) = sum[N]
  BY <1>3
<1> HIDE DEF sum
<1>9. sum[0] = 0 /\ \A k \in 1 .. N : sum[k] = next(k, sum[k - 1])
  BY <1>1, <1>7
<1> DEFINE U == {k \in 0 .. N : sum[k] \in Nat}
<1>10. 0 \in U /\ \A k \in 1 .. N : k - 1 \in U => k \in U
  <2>1. 0 \in U
    BY <1>1, <1>9
  <2>2. ASSUME NEW k \in 1 .. N, k - 1 \in U PROVE k \in U
    <3>1. sum[k - 1] \in Nat /\ sum[k] = next(k, sum[k - 1])
      BY <1>9, <2>2
    <3>2. next(k, sum[k - 1]) \in Nat
      BY <1>2, <3>1
    <3>3. k \in 0 .. N
      BY <1>1
    <3> QED BY <3>1, <3>2, <3>3
  <2> QED BY <2>1, <2>2
<1>11. U \in SUBSET (0 .. N)
  OBVIOUS
<1> HIDE DEF U
<1>12. \A k \in 0 .. N : sum[k] \in Nat
  BY <1>1, <1>10, <1>11, FiniteInduction DEF U
<1>13. sum \in [0 .. N -> Nat]
  BY <1>7, <1>12
<1> QED BY <1>8, <1>9, <1>13 DEF N, next

\* The least and the greatest of a set.
LEMMA MinDef ==
    ASSUME NEW T \in SUBSET Nat, T # {}
    PROVE  Min(T) \in T /\ \A y \in T : Min(T) <= y
<1>1. \E m \in T : \A n \in T : m <= n
  BY Least
<1>2. Min(T) \in T /\ \A y \in T : Min(T) <= y
  BY <1>1 DEF Min
<1> QED BY <1>2

LEMMA MinIs ==
    ASSUME NEW T \in SUBSET Nat, NEW m \in T, \A y \in T : m <= y
    PROVE  Min(T) = m
<1>1. Min(T) \in T /\ Min(T) <= m
  BY MinDef
<1>2. Min(T) \in Nat /\ m \in Nat /\ m <= Min(T)
  BY <1>1
<1> QED BY <1>1, <1>2

LEMMA MaxIs ==
    ASSUME NEW T \in SUBSET Nat, NEW m \in T, \A y \in T : y <= m
    PROVE  Max(T) = m
<1>1. \E x \in T : \A y \in T : x >= y
  OBVIOUS
<1>2. Max(T) \in T /\ \A y \in T : Max(T) >= y
  BY <1>1 DEF Max
<1>3. Max(T) >= m /\ Max(T) <= m /\ Max(T) \in Nat
  BY <1>2
<1> QED BY <1>3

\* The iterator ends: what is left gets smaller until nothing is.
LEMMA IteratorEnds ==
    ASSUME NEW v \in Nat
    PROVE  \E n \in Nat : /\ n # 0 /\ left(v)[n] = 0
                          /\ \A k \in 1 .. n - 1 : left(v)[k] # 0
<1> DEFINE l == left(v)
<1>1. l[0] = v /\ \A i \in Nat : l[i] \in Nat
  BY LeftDef
<1>2. ASSUME NEW i \in Nat
      PROVE  /\ l[i + 1] \in Nat
             /\ l[i] > 0 => l[i + 1] < l[i]
             /\ l[i] = 0 => l[i + 1] = 0
  <2>1. i + 1 \in Nat /\ i + 1 # 0 /\ (i + 1) - 1 = i
    OBVIOUS
  <2>2. l[i + 1] = l[i] \div Base
    BY <2>1, LeftDef
  <2>3. l[i] > 0 => l[i] \div Base < l[i]
    BY <1>1, DivMod
  <2>4. l[i] = 0 => l[i] \div Base = 0
    BY Sizes
  <2> QED BY <1>1, <2>1, <2>2, <2>3, <2>4
<1> HIDE DEF l
<1> DEFINE V == {l[i] : i \in Nat}
<1>3. PICK i \in Nat : \A j \in Nat : l[i] <= l[j]
  <2>1. V \in SUBSET Nat /\ V # {}
    BY <1>1
  <2>2. PICK m \in V : \A x \in V : m <= x
    <3> HIDE DEF V
    <3> QED BY <2>1, Least
  <2> QED BY <2>2
<1>4. l[i] = 0
  BY <1>1, <1>2, <1>3
<1> DEFINE T == {n \in Nat : n # 0 /\ l[n] = 0}
<1>5. i + 1 \in T
  BY <1>2, <1>4
<1>6. T \in SUBSET Nat
  OBVIOUS
<1>7. PICK n \in T : \A m \in T : n <= m
  <2> HIDE DEF T
  <2> QED BY <1>5, <1>6, Least
<1>8. \A k \in 1 .. n - 1 : l[k] # 0
  BY <1>7
<1> QED BY <1>7, <1>8 DEF l

\* There are at most as many digits as the amount, which bounds the search for
\* their number.
LEMMA DigitsOf ==
    ASSUME NEW v \in Nat
    PROVE  \E n \in Nat : /\ n # 0 /\ left(v)[n] = 0
                          /\ \A k \in 1 .. n - 1 : left(v)[k] # 0
                          /\ ToBase10000(v) = [i \in 1 .. n |-> left(v)[i - 1] % Base]
<1> DEFINE l == left(v)
           Final(n) == l[n] = 0 /\ \A k \in 1 .. n - 1 : l[k] # 0
<1>1. l[0] = v /\ \A i \in Nat : l[i] \in Nat
  BY LeftDef
<1>2. ASSUME NEW i \in Nat, i # 0, l[i - 1] > 0 PROVE l[i] < l[i - 1]
  <2>1. l[i] = l[i - 1] \div Base /\ l[i - 1] \in Nat
    BY <1>2, LeftDef
  <2> QED BY <1>2, <2>1, DivMod
<1>3. l[0] = 0 => l[1] = 0
  <2>1. l[1] = l[0] \div Base
    BY LeftDef
  <2> QED BY <2>1, Sizes
<1>4. ToBase10000(v) = [i \in 1 .. (CHOOSE n \in 1 .. v + 1 : Final(n)) |-> l[i - 1] % Base]
  BY DEF ToBase10000
<1>5. PICK n \in Nat : n # 0 /\ Final(n)
  BY IteratorEnds
<1> HIDE DEF l
<1>6. n \in 1 .. v + 1
  <2> DEFINE U == {i \in 0 .. n - 1 : l[i] + i <= v}
  <2>1. 0 \in U
    BY <1>1, <1>5
  <2>2. ASSUME NEW i \in 1 .. n - 1, i - 1 \in U PROVE i \in U
    <3>1. i \in Nat /\ i # 0 /\ i - 1 \in Nat /\ l[i - 1] \in Nat /\ l[i] \in Nat
      BY <1>1
    <3>2. l[i - 1] > 0
      <4>1. CASE i = 1
        <5>1. l[i] # 0
          BY <1>5
        <5>2. l[0] # 0
          BY <1>3, <4>1, <5>1
        <5> QED BY <4>1, <5>2, <3>1
      <4>2. CASE i # 1
        <5>1. i - 1 \in 1 .. n - 1
          BY <4>2
        <5> QED BY <1>5, <5>1, <3>1
      <4> QED BY <4>1, <4>2
    <3> QED BY <1>2, <2>2, <3>1, <3>2
  <2>3. U \in SUBSET (0 .. n - 1) /\ n - 1 \in Nat
    BY <1>5
  <2> HIDE DEF U
  <2>4. n - 1 \in U
    BY <2>1, <2>2, <2>3, FiniteInduction
  <2> QED BY <1>1, <1>5, <2>4 DEF U
<1>7. PICK m \in 1 .. v + 1 : m = (CHOOSE k \in 1 .. v + 1 : Final(k)) /\ Final(m)
  <2> HIDE DEF Final
  <2> QED BY <1>5, <1>6
<1>8. m \in Nat /\ m # 0 /\ ToBase10000(v) = [i \in 1 .. m |-> l[i - 1] % Base]
  BY <1>4, <1>7
<1> QED BY <1>7, <1>8 DEF l

\* Each digit is what a division leaves.
LEMMA Division ==
    ASSUME NEW v \in Nat, NEW i \in Nat, i # 0
    PROVE  /\ left(v)[i] \in Nat /\ left(v)[i - 1] \in Nat
           /\ left(v)[i - 1] % Base \in Digits
           /\ left(v)[i - 1] = Base * left(v)[i] + (left(v)[i - 1] % Base)
           /\ left(v)[i] <= left(v)[i - 1]
           /\ left(v)[i] = 0 => left(v)[i - 1] % Base = left(v)[i - 1]
<1>1. i - 1 \in Nat
  OBVIOUS
<1>2. PICK a \in Nat : a = left(v)[i - 1] /\ left(v)[i] = a \div Base
  BY <1>1, LeftDef
<1>3. a = 0 => a \div Base <= a
  BY Sizes
<1>4. a \div Base \in Nat /\ a \div Base <= a
  BY <1>3, DivMod
<1> QED BY <1>2, <1>4, DivMod

LEMMA LeftBounded == ASSUME NEW v \in Nat PROVE \A i \in Nat : left(v)[i] <= v
<1> DEFINE T == {i \in Nat : left(v)[i] <= v}
<1>1. 0 \in T
  BY LeftDef
<1>2. ASSUME NEW i \in Nat, i # 0, i - 1 \in T PROVE i \in T
  BY <1>2, Division
<1>3. T \in SUBSET Nat
  OBVIOUS
<1> HIDE DEF T
<1>4. T = Nat
  BY <1>1, <1>2, <1>3, Induction
<1> QED BY <1>4 DEF T

\* Digits that are zero are only a power of the base.
LEMMA ZerosFactor ==
    ASSUME NEW v \in Nat, NEW c \in Nat, \A i \in 1 .. c : left(v)[i - 1] % Base = 0
    PROVE  left(v)[c] * Power[c] = v
<1> DEFINE U == {i \in 0 .. c : left(v)[i] * Power[i] = v}
<1>1. 0 \in U
  BY LeftDef, PowerDef
<1>2. ASSUME NEW i \in 1 .. c, i - 1 \in U PROVE i \in U
  <2>1. i \in Nat /\ i # 0 /\ i - 1 \in Nat
    OBVIOUS
  <2>2. PICK a \in Nat, b \in Nat : a = left(v)[i - 1] /\ b = left(v)[i]
    BY <2>1, LeftDef
  <2>3. a = Base * b
    <3>1. a = Base * b + (a % Base) /\ a % Base = 0
      BY <2>1, <2>2, Division
    <3> QED BY <3>1, Sizes
  <2>4. PICK p \in Nat, q \in Nat : p = Power[i - 1] /\ q = Power[i] /\ q = Base * p
    BY <2>1, PowerDef
  <2>5. a * p = v
    BY <1>2, <2>2, <2>4
  <2>6. b * (Base * p) = (Base * b) * p
    BY Sizes
  <2>7. b * q = v
    BY <2>3, <2>4, <2>5, <2>6
  <2>8. left(v)[i] * Power[i] = v
    BY <2>2, <2>4, <2>7
  <2> QED BY <2>8
<1>3. U \in SUBSET (0 .. c)
  OBVIOUS
<1> HIDE DEF U
<1>4. c \in U
  BY <1>1, <1>2, <1>3, FiniteInduction
<1> QED BY <1>4 DEF U

\* Zero has no digits and is read as zero.
LEMMA ZeroKept == pg_decimal_to_u128(Canonical(u128_to_pg_decimal(0))) = 0
<1>1. PICK n \in Nat : /\ n # 0 /\ left(0)[n] = 0
                       /\ \A k \in 1 .. n - 1 : left(0)[k] # 0
                       /\ ToBase10000(0) = [i \in 1 .. n |-> left(0)[i - 1] % Base]
  BY DigitsOf
<1>2. left(0)[0] = 0 /\ left(0)[1] = 0
  BY LeftDef, LeftBounded
<1>3. n = 1
  BY <1>1, <1>2
<1>4. PICK ds : ds = ToBase10000(0)
  OBVIOUS
<1>5. ds = [i \in 1 .. 1 |-> 0]
  BY <1>1, <1>2, <1>3, <1>4, Sizes
<1>6. Len(ds) = 1 /\ NonZero(ds) = {}
  BY <1>5 DEF NonZero
<1>7. skip_zeros(ds) = <<>> /\ Reverse(<<>>) = <<>>
  BY <1>6 DEF skip_zeros, Reverse
<1> DEFINE zero == [sign |-> "Positive", weight |-> 0, scale |-> 0, digits |-> <<>>]
<1>8. u128_to_pg_decimal(0) = zero
  <2>1. u128_to_pg_decimal(0) = [sign |-> "Positive", weight |-> Len(ds) - 1, scale |-> 0,
                                 digits |-> Reverse(skip_zeros(ds))]
    BY <1>4 DEF u128_to_pg_decimal
  <2>2. Len(ds) - 1 = 0
    BY <1>6
  <2> QED BY <1>7, <2>1, <2>2
<1>9. NonZero(zero.digits) = {}
  BY DEF NonZero
<1>10. Canonical(zero) = zero
  BY <1>9 DEF Canonical
<1>11. FromDigits(<<>>) = 0
  <2>1. <<>> \in Seq(Digits) /\ Len(<<>>) = 0
    OBVIOUS
  <2>2. PICK acc \in [0 .. Len(<<>>) -> (0 .. MAX) \cup {Failed}] :
            acc[0] = 0 /\ FromDigits(<<>>) = acc[Len(<<>>)]
    BY <2>1, FromDigitsDef
  <2> QED BY <2>1, <2>2
<1>12. pow(1) \in Nat
  <2>1. Power[1] \in Nat
    BY PowerDef
  <2> QED BY <2>1, Sizes DEF pow
<1>13. checked_mul(0, pow(1)) = 0
  BY <1>12, Sizes DEF checked_mul
<1>14. pg_decimal_to_u128(zero) = checked_mul(FromDigits(<<>>), pow(1))
  BY DEF pg_decimal_to_u128
<1> QED BY <1>8, <1>10, <1>11, <1>13, <1>14

\* A digit that fits is added without overflow.
LEMMA AddDigit ==
    ASSUME NEW a \in Nat, NEW d \in Nat, NEW b \in Nat, b = Base * a + d, b <= MAX
    PROVE  checked_add(checked_mul(a, Base), d) = b
<1> USE Sizes
<1>1. a * Base = Base * a /\ a * Base \in Nat
  OBVIOUS
<1>2. a <= a * Base
  OBVIOUS
<1>3. a * Base <= MAX /\ a \in 0 .. MAX
  BY <1>1, <1>2
<1>4. checked_mul(a, Base) = a * Base
  BY <1>3 DEF checked_mul
<1>5. a * Base # Failed /\ a * Base + d = b
  BY <1>1, <1>3
<1> QED BY <1>4, <1>5 DEF checked_add

\* The n - c most significant of the n digits of v.
FirstDigits(ds, v, n, c) ==
    /\ Len(ds) = n - c
    /\ \A k \in 1 .. n - c : ds[k] = left(v)[n - k] % Base

\* What is accumulated after k digits of v is what was left before them.
LEMMA DigitsRead ==
    ASSUME NEW v \in 0 .. MAX, NEW n \in Nat, left(v)[n] = 0, NEW c \in 0 .. n,
           NEW ds \in Seq(Digits), FirstDigits(ds, v, n, c)
    PROVE  FromDigits(ds) = left(v)[c]
<1> USE DEF FirstDigits
<1>1. PICK acc \in [0 .. Len(ds) -> (0 .. MAX) \cup {Failed}] :
          /\ acc[0] = 0
          /\ \A k \in 1 .. Len(ds) : acc[k] = checked_add(checked_mul(acc[k - 1], Base), ds[k])
          /\ FromDigits(ds) = acc[Len(ds)]
  BY FromDigitsDef
<1> DEFINE N == n - c
           U == {k \in 0 .. N : acc[k] = left(v)[n - k]}
<1>2. N \in Nat /\ Len(ds) = N /\ v \in Nat
  BY Sizes
<1>3. 0 \in U
  BY <1>1, <1>2
<1>4. ASSUME NEW k \in 1 .. N, k - 1 \in U PROVE k \in U
  <2>1. PICK i \in Nat : i = n - k + 1
    OBVIOUS
  <2>2. i # 0 /\ i - 1 = n - k /\ n - (k - 1) = i /\ i - 1 \in Nat
    BY <2>1
  <2>3. PICK a \in Nat : a = left(v)[i]
    BY <1>2, LeftDef
  <2>4. PICK b \in Nat : b = left(v)[i - 1] /\ b = Base * a + (b % Base) /\ b % Base \in Nat
    <3>1. /\ left(v)[i - 1] \in Nat /\ left(v)[i - 1] % Base \in Digits
          /\ left(v)[i - 1] = Base * left(v)[i] + (left(v)[i - 1] % Base)
      BY <1>2, <2>2, Division
    <3>2. Digits \subseteq Nat
      BY Sizes DEF Digits
    <3> QED BY <2>3, <3>1, <3>2
  <2>5. b <= MAX
    <3>1. b <= v
      BY <1>2, <2>2, <2>4, LeftBounded
    <3> QED BY <3>1, Sizes
  <2>6. checked_add(checked_mul(a, Base), b % Base) = b
    BY <2>4, <2>5, AddDigit
  <2>7. acc[k - 1] = a
    BY <1>4, <2>2, <2>3
  <2>8. ds[k] = b % Base
    BY <2>2, <2>4
  <2>9. acc[k] = b
    BY <1>1, <1>2, <2>6, <2>7, <2>8
  <2>10. acc[k] = left(v)[n - k]
    BY <2>2, <2>4, <2>9
  <2>11. k \in 0 .. N
    OBVIOUS
  <2> QED BY <2>10, <2>11
<1>5. U \in SUBSET (0 .. N)
  OBVIOUS
<1> HIDE DEF U, N
<1>6. N \in U
  <2>1. N \in 0 .. N
    BY <1>2
  <2> QED BY <1>2, <1>3, <1>4, <1>5, <2>1, FiniteInduction
<1>7. n - N = c
  BY DEF N
<1> QED BY <1>1, <1>2, <1>6, <1>7 DEF U

\* A power that fits does not wrap.
LEMMA NoWrap == ASSUME NEW c \in Nat, Power[c] <= MAX PROVE pow(c) = Power[c]
<1>1. ASSUME NEW p \in Nat, p <= MAX PROVE p % (MAX + 1) = p
  BY <1>1, Sizes
<1>2. Power[c] \in Nat
  BY PowerDef
<1> QED BY <1>1, <1>2 DEF pow

\* Any other amount is read as it was written.
LEMMA PositiveKept ==
    ASSUME NEW v \in 1 .. MAX
    PROVE  pg_decimal_to_u128(Canonical(u128_to_pg_decimal(v))) = v
<1>0. v \in Nat /\ v # 0 /\ v <= MAX
  BY Sizes
<1>1. PICK n \in Nat : /\ n # 0 /\ left(v)[n] = 0
                       /\ \A k \in 1 .. n - 1 : left(v)[k] # 0
                       /\ ToBase10000(v) = [i \in 1 .. n |-> left(v)[i - 1] % Base]
  BY <1>0, DigitsOf
<1>2. PICK ds : ds = ToBase10000(v)
  OBVIOUS
<1>3. \A i \in 1 .. n : ds[i] = left(v)[i - 1] % Base /\ ds[i] \in Digits
  <2> SUFFICES ASSUME NEW i \in 1 .. n
               PROVE  ds[i] = left(v)[i - 1] % Base /\ ds[i] \in Digits
    OBVIOUS
  <2>1. ds[i] = left(v)[i - 1] % Base
    BY <1>1, <1>2
  <2>2. i \in Nat /\ i # 0
    OBVIOUS
  <2>3. left(v)[i - 1] % Base \in Digits
    BY <1>0, <2>2, Division
  <2> QED BY <2>1, <2>3
<1>4. ds \in Seq(Digits) /\ Len(ds) = n
  <2>1. ds \in [1 .. n -> Digits]
    BY <1>1, <1>2, <1>3
  <2> QED BY <2>1
<1>5. ds[n] # 0
  <2>1. left(v)[n - 1] # 0
    <3>1. CASE n = 1
      BY <1>0, <3>1, LeftDef
    <3>2. CASE n # 1
      BY <1>1, <3>2
    <3> QED BY <3>1, <3>2
  <2> QED BY <1>0, <1>1, <1>3, <2>1, Division
<1>6. NonZero(ds) \in SUBSET Nat /\ n \in NonZero(ds) /\ NonZero(ds) # {}
  <2>1. n \in 1 .. Len(ds)
    BY <1>1, <1>4
  <2>2. NonZero(ds) \subseteq 1 .. Len(ds) /\ n \in NonZero(ds)
    BY <1>5, <2>1 DEF NonZero
  <2> QED BY <1>4, <2>2
<1>7. PICK c \in 0 .. n - 1 : /\ Min(NonZero(ds)) = c + 1 /\ ds[c + 1] # 0
                              /\ \A i \in 1 .. c : ds[i] = 0
  <2>1. PICK m \in NonZero(ds) : m = Min(NonZero(ds)) /\ \A y \in NonZero(ds) : m <= y
    BY <1>6, MinDef
  <2>2. m \in 1 .. n /\ ds[m] # 0
    BY <1>4, <2>1 DEF NonZero
  <2>3. ASSUME NEW i \in 1 .. m - 1 PROVE ds[i] = 0
    BY <1>4, <2>1, <2>2 DEF NonZero
  <2>4. m - 1 \in 0 .. n - 1 /\ (m - 1) + 1 = m
    BY <2>2
  <2> QED BY <2>1, <2>2, <2>3, <2>4
<1>8. PICK sk \in Seq(Digits) : /\ sk = skip_zeros(ds) /\ Len(sk) = n - c
                                /\ \A i \in 1 .. n - c : sk[i] = ds[c + i]
  <2>1. skip_zeros(ds) = SubSeq(ds, c + 1, n)
    BY <1>4, <1>6, <1>7 DEF skip_zeros
  <2>2. \A i \in c + 1 .. n : ds[i] \in Digits
    BY <1>3
  <2>3. /\ SubSeq(ds, c + 1, n) \in Seq(Digits)
        /\ Len(SubSeq(ds, c + 1, n)) = IF c + 1 <= n THEN n - (c + 1) + 1 ELSE 0
        /\ \A i \in 1 .. n - (c + 1) + 1 : SubSeq(ds, c + 1, n)[i] = ds[(c + 1) + i - 1]
    BY <2>2, SubSeqProperties
  <2>4. c + 1 <= n /\ n - (c + 1) + 1 = n - c
    OBVIOUS
  <2>5. \A i \in 1 .. n - c : (c + 1) + i - 1 = c + i
    OBVIOUS
  <2>6. Len(SubSeq(ds, c + 1, n)) = n - c
    BY <2>3, <2>4
  <2>7. \A i \in 1 .. n - c : SubSeq(ds, c + 1, n)[i] = ds[c + i]
    BY <2>3, <2>4, <2>5
  <2> QED BY <2>1, <2>3, <2>6, <2>7
<1>9. PICK dd \in Seq(Digits) : /\ dd = Reverse(sk) /\ Len(dd) = n - c
                                /\ \A k \in 1 .. n - c : dd[k] = ds[n - k + 1]
  <2>1. Reverse(sk) = [i \in 1 .. n - c |-> sk[((n - c) - i) + 1]]
    BY <1>8 DEF Reverse
  <2>2. ASSUME NEW k \in 1 .. n - c
        PROVE  sk[((n - c) - k) + 1] = ds[n - k + 1] /\ ds[n - k + 1] \in Digits
    <3>1. ((n - c) - k) + 1 \in 1 .. n - c /\ c + (((n - c) - k) + 1) = n - k + 1
      OBVIOUS
    <3>2. n - k + 1 \in 1 .. n
      OBVIOUS
    <3> QED BY <1>3, <1>8, <3>1, <3>2
  <2>3. Reverse(sk) \in [1 .. n - c -> Digits]
    BY <2>1, <2>2
  <2>4. Reverse(sk) \in Seq(Digits) /\ Len(Reverse(sk)) = n - c
    <3>1. n - c \in Nat
      OBVIOUS
    <3> QED BY <2>3, <3>1
  <2> QED BY <2>1, <2>2, <2>4
<1> DEFINE num == [sign |-> "Positive", weight |-> n - 1, scale |-> 0, digits |-> dd]
<1>10. u128_to_pg_decimal(v) = num
  <2>1. u128_to_pg_decimal(v) = [sign |-> "Positive", weight |-> Len(ds) - 1, scale |-> 0,
                                 digits |-> Reverse(skip_zeros(ds))]
    BY <1>2 DEF u128_to_pg_decimal
  <2> QED BY <1>4, <1>8, <1>9, <2>1
<1>11. Canonical(num) = num
  <2>1. NonZero(dd) \in SUBSET Nat /\ NonZero(dd) \subseteq 1 .. n - c
    BY <1>9 DEF NonZero
  <2>2. 1 \in NonZero(dd) /\ n - c \in NonZero(dd)
    <3>1. 1 \in 1 .. n - c /\ n - 1 + 1 = n /\ n - c \in 1 .. n - c /\ n - (n - c) + 1 = c + 1
      OBVIOUS
    <3>2. dd[1] = ds[n] /\ dd[n - c] = ds[c + 1]
      BY <1>9, <3>1
    <3> QED BY <1>5, <1>7, <1>9, <3>1, <3>2 DEF NonZero
  <2>3. Min(NonZero(dd)) = 1
    BY <2>1, <2>2, MinIs
  <2>4. Max(NonZero(dd)) = n - c
    BY <2>1, <2>2, MaxIs
  <2>5. SubSeq(dd, 1, n - c) = dd
    BY <1>9
  <2>6. num.digits = dd /\ num.weight = n - 1 /\ (n - 1) - (1 - 1) = n - 1
    OBVIOUS
  <2>7. Canonical(num) = [num EXCEPT !.digits = SubSeq(dd, 1, n - c),
                                     !.weight = (n - 1) - (1 - 1)]
    <3> HIDE DEF num
    <3> QED BY <2>2, <2>3, <2>4, <2>6 DEF Canonical
  <2> QED BY <2>5, <2>6, <2>7
<1>12. FromDigits(dd) = left(v)[c]
  <2>1. ASSUME NEW k \in 1 .. n - c PROVE dd[k] = left(v)[n - k] % Base
    <3>1. n - k + 1 \in 1 .. n /\ (n - k + 1) - 1 = n - k
      OBVIOUS
    <3> QED BY <1>3, <1>9, <3>1
  <2>2. c \in 0 .. n /\ v \in 0 .. MAX
    OBVIOUS
  <2>3. FirstDigits(dd, v, n, c)
    BY <1>9, <2>1 DEF FirstDigits
  <2> QED BY <1>1, <2>2, <2>3, DigitsRead
<1>13. PICK a \in Nat, p \in Nat : a = left(v)[c] /\ p = Power[c] /\ a * p = v /\ p > 0
  <2>1. ASSUME NEW i \in 1 .. c PROVE left(v)[i - 1] % Base = 0
    <3>1. i \in 1 .. n
      OBVIOUS
    <3> QED BY <1>3, <1>7, <3>1
  <2>2. c \in Nat
    OBVIOUS
  <2>3. left(v)[c] * Power[c] = v
    BY <1>0, <2>1, <2>2, ZerosFactor
  <2>4. left(v)[c] \in Nat /\ Power[c] \in Nat /\ Power[c] > 0
    BY <1>0, <2>2, LeftDef, PowerDef
  <2> QED BY <2>3, <2>4
<1>14. p <= MAX /\ a \in 0 .. MAX
  <2>1. a > 0
    BY <1>0, <1>13
  <2>2. \A x, y \in Nat : x > 0 /\ y > 0 => y <= x * y /\ x <= x * y
    OBVIOUS
  <2>3. p <= v /\ a <= v
    BY <1>13, <2>1, <2>2
  <2> QED BY <1>0, <2>3, Sizes
<1>15. pow(c) = p
  BY <1>13, <1>14, NoWrap
<1>16. checked_mul(a, p) = v
  BY <1>0, <1>13, <1>14, Sizes DEF checked_mul
<1>17. pg_decimal_to_u128(num) = checked_mul(FromDigits(dd), pow(c))
  <2>1. (n - 1) - (n - c) + 1 = c /\ ~(n - 1 < 0) /\ ~(c < 0)
    BY <1>1
  <2>2. /\ num.sign = "Positive" /\ num.scale = 0 /\ num.weight = n - 1 /\ num.digits = dd
    OBVIOUS
  <2> HIDE DEF num
  <2> QED BY <1>9, <2>1, <2>2 DEF pg_decimal_to_u128
<1> QED BY <1>10, <1>11, <1>12, <1>13, <1>15, <1>16, <1>17

\* u128 -> NUMERIC -> u128: every amount that can be written is read as it was.
THEOREM AmountRoundTrip ==
    \A a \in 0 .. MAX : pg_decimal_to_u128(Canonical(u128_to_pg_decimal(a))) = a
<1> SUFFICES ASSUME NEW a \in 0 .. MAX
             PROVE  pg_decimal_to_u128(Canonical(u128_to_pg_decimal(a))) = a
  OBVIOUS
<1>1. CASE a = 0
  BY <1>1, ZeroKept
<1>2. CASE a # 0
  <2>1. a \in 1 .. MAX
    BY <1>2, Sizes
  <2> QED BY <2>1, PositiveKept
<1> QED BY <1>1, <1>2

\* Digits that do not overflow are accumulated exactly, whatever they are.
LEMMA DigitsExact ==
    ASSUME NEW n, NEW ds \in Seq(Digits), NEW w \in Int, w >= Len(ds) - 1,
           n.digits = ds, n.weight = w, FromDigits(ds) # Failed
    PROVE  FromDigits(ds) * Power[w - Len(ds) + 1] = Value(n)
<1>1. PICK acc \in [0 .. Len(ds) -> (0 .. MAX) \cup {Failed}] :
          /\ acc[0] = 0
          /\ \A k \in 1 .. Len(ds) : acc[k] = checked_add(checked_mul(acc[k - 1], Base), ds[k])
          /\ FromDigits(ds) = acc[Len(ds)]
  BY FromDigitsDef
<1>2. PICK sum \in [0 .. Len(ds) -> Nat] :
          /\ sum[0] = 0
          /\ \A k \in 1 .. Len(ds) : sum[k] = sum[k - 1] + ds[k] * Power[w + 1 - k]
          /\ Value(n) = sum[Len(ds)]
  BY ValueDef
<1> DEFINE N == Len(ds)
           U == {k \in 0 .. N : acc[k] = Failed \/ acc[k] * Power[w + 1 - k] = sum[k]}
<1>3. N \in Nat
  OBVIOUS
<1>4. 0 \in U
  <2>1. Power[w + 1 - 0] \in Nat
    BY PowerDef
  <2> QED BY <1>1, <1>2, <1>3, <2>1
<1>5. ASSUME NEW k \in 1 .. N, k - 1 \in U PROVE k \in U
  <2> SUFFICES ASSUME acc[k] # Failed PROVE acc[k] * Power[w + 1 - k] = sum[k]
    BY <1>3
  <2>1. PICK d \in Nat : d = ds[k]
    BY Sizes DEF Digits
  <2>2. PICK i \in Nat : i = w + 1 - k
    OBVIOUS
  <2>3. w + 1 - (k - 1) = i + 1 /\ i + 1 \in Nat /\ i + 1 # 0 /\ (i + 1) - 1 = i
    BY <2>2
  <2>4. PICK p \in Nat, q \in Nat : p = Power[i] /\ q = Power[i + 1] /\ q = Base * p
    BY <2>3, PowerDef
  <2>5. acc[k] = checked_add(checked_mul(acc[k - 1], Base), d)
    BY <1>1, <2>1
  <2>6. acc[k - 1] # Failed /\ acc[k] = acc[k - 1] * Base + d
    BY <2>5 DEF checked_add, checked_mul
  <2>7. PICK a \in Nat : a = acc[k - 1]
    <3>1. k - 1 \in 0 .. N
      BY <1>3
    <3> QED BY <2>6, <3>1, Sizes
  <2>8. a * q = sum[k - 1]
    BY <1>5, <2>3, <2>4, <2>6, <2>7
  <2>9. (a * Base + d) * p = a * (Base * p) + d * p
    BY Sizes
  <2>10. sum[k] = sum[k - 1] + d * p
    BY <1>2, <2>1, <2>2, <2>4
  <2>11. acc[k] * p = sum[k]
    BY <2>4, <2>6, <2>7, <2>8, <2>9, <2>10
  <2> QED BY <2>2, <2>4, <2>11
<1>6. U \in SUBSET (0 .. N)
  OBVIOUS
<1>7. N \in U
  <2> HIDE DEF U
  <2>1. N \in 0 .. N
    BY <1>3
  <2> QED BY <1>3, <1>4, <1>5, <1>6, <2>1, FiniteInduction
<1>8. w + 1 - N = w - N + 1
  BY <1>3
<1> QED BY <1>1, <1>2, <1>7, <1>8

\* What is read is an amount or an error.
LEMMA ReadType ==
    ASSUME NEW n, n.digits \in Seq(Digits), n.weight \in Int
    PROVE  pg_decimal_to_u128(n) \in (0 .. MAX) \cup {Failed}
<1>1. PICK x \in (0 .. MAX) \cup {Failed} : x = FromDigits(n.digits)
  <2>1. Len(n.digits) \in 0 .. Len(n.digits)
    OBVIOUS
  <2> QED BY <2>1, FromDigitsDef
<1>2. ASSUME NEW p \in Nat PROVE checked_mul(x, p) \in (0 .. MAX) \cup {Failed}
  BY Sizes DEF checked_mul
<1>3. ASSUME NEW c \in Nat PROVE pow(c) \in Nat
  <2>1. Power[c] \in Nat
    BY PowerDef
  <2>2. \A p \in Nat : p % (MAX + 1) \in Nat
    BY Sizes
  <2> QED BY <2>1, <2>2 DEF pow
<1>4. PICK c \in Int : c = n.weight - Len(n.digits) + 1
  OBVIOUS
<1>5. pg_decimal_to_u128(n) = Failed \/ (c >= 0 /\ pg_decimal_to_u128(n) = checked_mul(x, pow(c)))
  BY <1>1, <1>4 DEF pg_decimal_to_u128
<1> QED BY <1>2, <1>3, <1>4, <1>5

\* What Postgres keeps of a number is digits, and its sign and scale.
LEMMA CanonicalType ==
    ASSUME NEW m \in [sign : Signs, weight : Int, scale : Nat, digits : Seq(Digits)],
           NEW n, n = Canonical(m)
    PROVE  n.sign = m.sign /\ n.scale = m.scale /\ n.weight \in Int /\ n.digits \in Seq(Digits)
<1>1. PICK ds \in Seq(Digits), w \in Int : m.digits = ds /\ m.weight = w
  OBVIOUS
<1>2. CASE NonZero(ds) = {}
  <2>1. n = [m EXCEPT !.digits = <<>>, !.weight = 0]
    BY <1>1, <1>2 DEF Canonical
  <2>2. n.sign = m.sign /\ n.scale = m.scale /\ n.weight = 0 /\ n.digits = <<>>
    BY <2>1
  <2>3. <<>> \in Seq(Digits)
    OBVIOUS
  <2>4. n.weight \in Int
    BY <2>2
  <2>5. n.digits \in Seq(Digits)
    BY <2>2, <2>3
  <2> QED BY <2>2, <2>4, <2>5
<1>3. CASE NonZero(ds) # {}
  <2> DEFINE lo == Min(NonZero(ds))
             hi == Max(NonZero(ds))
  <2>1. n = [m EXCEPT !.digits = SubSeq(ds, lo, hi), !.weight = w - (lo - 1)]
    BY <1>1, <1>3 DEF Canonical
  <2>2. NonZero(ds) \in SUBSET Nat /\ NonZero(ds) \subseteq 1 .. Len(ds)
    BY DEF NonZero
  <2>3. lo \in 1 .. Len(ds)
    BY <1>3, <2>2, MinDef
  <2>4. hi \in 1 .. Len(ds)
    <3>1. \E y \in NonZero(ds) : \A z \in NonZero(ds) : y >= z
      <4> DEFINE T == {k \in Nat : \A z \in NonZero(ds) : k >= z}
      <4>1. Len(ds) \in T
        BY <2>2 DEF NonZero
      <4>2. T \in SUBSET Nat
        OBVIOUS
      <4>3. PICK k \in T : \A j \in T : k <= j
        <5> HIDE DEF T
        <5> QED BY <4>1, <4>2, Least
      <4>4. k \in NonZero(ds)
        <5>1. ASSUME k \notin NonZero(ds) PROVE FALSE
          <6>1. PICK z \in NonZero(ds) : TRUE
            BY <1>3
          <6>2. k \in Nat /\ k # 0 /\ k - 1 \in Nat
            BY <2>2, <4>3, <6>1
          <6>3. \A y \in NonZero(ds) : k - 1 >= y
            BY <2>2, <4>3, <5>1
          <6> QED BY <4>3, <6>2, <6>3
        <5> QED BY <5>1
      <4> QED BY <4>3, <4>4
    <3>2. hi \in NonZero(ds)
      BY <3>1 DEF Max
    <3> QED BY <2>2, <3>2
  <2>5. SubSeq(ds, lo, hi) \in Seq(Digits)
    <3> HIDE DEF lo, hi
    <3>1. lo \in Int /\ hi \in Int /\ \A i \in lo .. hi : ds[i] \in Digits
      BY <2>3, <2>4
    <3> QED BY <3>1, SubSeqProperties
  <2>6. lo \in Int
    BY <2>3
  <2> HIDE DEF lo, hi
  <2>7. /\ n.sign = m.sign /\ n.scale = m.scale
        /\ n.weight = w - (lo - 1) /\ n.digits = SubSeq(ds, lo, hi)
    BY <2>1
  <2>8. n.weight \in Int
    BY <2>6, <2>7
  <2>9. n.digits \in Seq(Digits)
    BY <2>5, <2>7
  <2> QED BY <2>7, <2>8, <2>9
<1> QED BY <1>2, <1>3

\* What is written for an amount, before and after Postgres, is digits.
LEMMA DigitsTyped ==
    ASSUME NEW v \in 0 .. MAX
    PROVE  /\ u128_to_pg_decimal(v).digits \in Seq(Digits)
           /\ Canonical(u128_to_pg_decimal(v)).digits \in Seq(Digits)
           /\ Canonical(u128_to_pg_decimal(v)).weight \in Int
<1>0. v \in Nat
  BY Sizes
<1>1. PICK n \in Nat : /\ n # 0
                       /\ ToBase10000(v) = [i \in 1 .. n |-> left(v)[i - 1] % Base]
  BY <1>0, DigitsOf
<1>2. PICK ds : ds = ToBase10000(v)
  OBVIOUS
<1>3. ASSUME NEW i \in 1 .. n PROVE left(v)[i - 1] % Base \in Digits
  <2>1. i \in Nat /\ i # 0
    OBVIOUS
  <2> QED BY <1>0, <2>1, Division
<1>4. ds \in [1 .. n -> Digits]
  BY <1>1, <1>2, <1>3
<1>5. ds \in Seq(Digits) /\ Len(ds) = n
  BY <1>4
<1>6. skip_zeros(ds) \in Seq(Digits)
  <2>1. CASE NonZero(ds) = {}
    <3>1. <<>> \in Seq(Digits)
      OBVIOUS
    <3> QED BY <2>1, <3>1 DEF skip_zeros
  <2>2. CASE NonZero(ds) # {}
    <3>1. NonZero(ds) \in SUBSET Nat /\ NonZero(ds) \subseteq 1 .. n
      BY <1>5 DEF NonZero
    <3>2. PICK m \in 1 .. n : m = Min(NonZero(ds))
      BY <2>2, <3>1, MinDef
    <3>3. \A i \in m .. n : ds[i] \in Digits
      BY <1>4
    <3>4. SubSeq(ds, m, n) \in Seq(Digits)
      BY <3>3, SubSeqProperties
    <3> QED BY <1>5, <2>2, <3>2, <3>4 DEF skip_zeros
  <2> QED BY <2>1, <2>2
<1>7. PICK dd : dd = Reverse(skip_zeros(ds))
  OBVIOUS
<1>8. dd \in Seq(Digits)
  <2>1. PICK sk \in Seq(Digits) : sk = skip_zeros(ds)
    BY <1>6
  <2>2. dd = [i \in 1 .. Len(sk) |-> sk[(Len(sk) - i) + 1]]
    BY <1>7, <2>1 DEF Reverse
  <2>3. ASSUME NEW i \in 1 .. Len(sk) PROVE sk[(Len(sk) - i) + 1] \in Digits
    <3>1. (Len(sk) - i) + 1 \in 1 .. Len(sk)
      OBVIOUS
    <3> QED BY <3>1
  <2>4. dd \in [1 .. Len(sk) -> Digits]
    BY <2>2, <2>3
  <2> QED BY <2>4
<1>9. u128_to_pg_decimal(v)
          = [sign |-> "Positive", weight |-> n - 1, scale |-> 0, digits |-> dd]
  <2>1. u128_to_pg_decimal(v) = [sign |-> "Positive", weight |-> Len(ds) - 1, scale |-> 0,
                                 digits |-> Reverse(skip_zeros(ds))]
    BY <1>2 DEF u128_to_pg_decimal
  <2> QED BY <1>5, <1>7, <2>1
<1>10. "Positive" \in Signs /\ n - 1 \in Int /\ 0 \in Nat
  BY DEF Signs
<1>11. PICK m : m = u128_to_pg_decimal(v)
  OBVIOUS
<1>12. m \in [sign : Signs, weight : Int, scale : Nat, digits : Seq(Digits)] /\ m.digits = dd
  BY <1>8, <1>9, <1>10, <1>11
<1> QED BY <1>8, <1>11, <1>12, CanonicalType

\* So is what SQL writes.
LEMMA ForeignType ==
    ASSUME NEW n \in Foreign
    PROVE  n.weight \in Int /\ n.digits \in Seq(Digits)
<1>1. PICK m \in [sign : Signs, weight : -1 .. MaxWeight, scale : 0 .. 1, digits : OtherDigits] :
          n = Canonical(m)
  BY DEF Foreign
<1>2. m \in [sign : Signs, weight : Int, scale : Nat, digits : Seq(Digits)]
  BY AmountsAssumption
<1> QED BY <1>1, <1>2, CanonicalType

\* NUMERIC -> u128: a number from elsewhere is refused or read as what it is
\* worth, unless the power it is multiplied with does not fit a u128.
THEOREM OtherNumbersRead ==
    ASSUME NEW n \in Foreign, pg_decimal_to_u128(n) # Failed
    PROVE  /\ n.sign = "Positive" /\ n.scale = 0 /\ n.weight >= Len(n.digits) - 1
           /\ \/ pg_decimal_to_u128(n) = Value(n)
              \/ Power[n.weight - Len(n.digits) + 1] > MAX
<1>1. n.weight \in Int /\ n.digits \in Seq(Digits)
  BY ForeignType
<1>2. PICK ds \in Seq(Digits), w \in Int : ds = n.digits /\ w = n.weight
  BY <1>1
<1>3. PICK c \in Int : c = w - Len(ds) + 1
  OBVIOUS
<1>4. /\ n.sign = "Positive" /\ n.scale = 0 /\ c >= 0
      /\ pg_decimal_to_u128(n) = checked_mul(FromDigits(ds), pow(c))
  BY <1>2, <1>3 DEF pg_decimal_to_u128
<1>5. w >= Len(ds) - 1
  BY <1>3, <1>4
<1>6. FromDigits(ds) # Failed /\ pg_decimal_to_u128(n) = FromDigits(ds) * pow(c)
  BY <1>4 DEF checked_mul
<1>7. FromDigits(ds) * Power[c] = Value(n)
  BY <1>2, <1>3, <1>5, <1>6, DigitsExact
<1>8. Power[c] <= MAX \/ Power[c] > MAX
  BY <1>3, <1>4, PowerDef, Sizes
<1>9. Power[c] <= MAX => pow(c) = Power[c]
  BY <1>4, NoWrap
<1> QED BY <1>2, <1>3, <1>4, <1>5, <1>6, <1>7, <1>8, <1>9

-----------------------------------------------------------------------------
(* Amounts on their way through the database                               *)

AmountsInv ==
    /\ source = "none" => result = Unread
    /\ source = "amount" => column = Canonical(u128_to_pg_decimal(amount))
    /\ source = "foreign" => column \in Foreign
    /\ result # Unread => result = pg_decimal_to_u128(column)

AmountsAll == AmountsTypeOK /\ AmountsInv

\* Nothing is written or read yet.
LEMMA AmountsAllInit == AmountsInit => AmountsAll
<1> SUFFICES ASSUME AmountsInit PROVE AmountsAll
  OBVIOUS
<1>1. column.digits \in Seq(Digits)
  <2>1. column = u128_to_pg_decimal(0)
    BY DEF AmountsInit
  <2> QED BY <2>1, DigitsTyped, Sizes
<1>2. AmountsTypeOK
  BY <1>1, Sizes DEF AmountsInit, AmountsTypeOK
<1>3. AmountsInv
  BY DEF AmountsInit, AmountsInv
<1> QED BY <1>2, <1>3 DEF AmountsAll

\* Every step keeps the types, and what the column has to do with the amount.
LEMMA AmountsAllNext == AmountsAll /\ [AmountsNext]_amountsVars => AmountsAll'
<1> SUFFICES ASSUME AmountsAll, [AmountsNext]_amountsVars PROVE AmountsAll'
  OBVIOUS
<1> USE DEF AmountsAll, AmountsTypeOK, AmountsInv
<1>1. ASSUME NEW a \in 0 .. MAX, to_sql(a) PROVE AmountsAll'
  <2>1. Canonical(u128_to_pg_decimal(a)).digits \in Seq(Digits)
    BY DigitsTyped
  <2> QED BY <1>1, <2>1 DEF to_sql
<1>2. ASSUME NEW n \in Foreign, put(n) PROVE AmountsAll'
  <2>1. n.digits \in Seq(Digits)
    BY ForeignType
  <2> QED BY <1>2, <2>1 DEF put
<1>3. CASE from_sql
  <2>1. pg_decimal_to_u128(column) \in (0 .. MAX) \cup {Failed}
    <3>1. column.digits \in Seq(Digits) /\ column.weight \in Int
      <4>1. CASE source = "amount"
        BY <4>1, DigitsTyped
      <4>2. CASE source = "foreign"
        BY <4>2, ForeignType
      <4> QED BY <1>3, <4>1, <4>2 DEF from_sql
    <3> QED BY <3>1, ReadType
  <2> QED BY <1>3, <2>1 DEF from_sql
<1>4. CASE UNCHANGED amountsVars
  BY <1>4 DEF amountsVars
<1> QED BY <1>1, <1>2, <1>3, <1>4 DEF AmountsNext

THEOREM AmountsAlways == AmountsSpec => []AmountsAll
  BY AmountsAllInit, AmountsAllNext, PTL DEF AmountsSpec

\* An amount is read back as it was written, whatever its size, and any other
\* number in the column is read as what it is worth or refused.
THEOREM AmountKeptTheorem == AmountsSpec => []AmountKept
<1>1. AmountsAll => AmountKept
  <2> SUFFICES ASSUME AmountsAll PROVE AmountKept
    OBVIOUS
  <2>1. (source = "amount" /\ result # Unread) => result = amount
    BY AmountRoundTrip DEF AmountsAll, AmountsTypeOK, AmountsInv
  <2>2. ASSUME source = "foreign", result \notin {Unread, Failed}
        PROVE  /\ column.sign = "Positive" /\ column.scale = 0
               /\ column.weight >= Len(column.digits) - 1
               /\ \/ result = Value(column)
                  \/ Power[column.weight - Len(column.digits) + 1] > MAX
    <3>1. column \in Foreign /\ result = pg_decimal_to_u128(column)
      BY <2>2 DEF AmountsAll, AmountsInv
    <3> QED BY <2>2, <3>1, OtherNumbersRead
  <2> QED BY <2>1, <2>2 DEF AmountKept
<1> QED BY <1>1, AmountsAlways, PTL

=============================================================================
