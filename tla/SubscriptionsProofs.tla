------------------------- MODULE SubscriptionsProofs -------------------------
(* Theorems about Subscriptions and StoreSubscriptions, for any stores,      *)
(* edits, calls, runs, time and configuration.                               *)
EXTENDS Subscriptions, TLAPS

\* Days follow each other as the clock advances.
LEMMA DayMonotone ==
    ASSUME NEW a \in Nat, NEW b \in Nat, a <= b
    PROVE  Day(a) \in Nat /\ Day(b) \in Nat /\ Day(a) <= Day(b)
<1> USE SubscriptionsAssumption
<1>1. PICK d \in Nat : d = DayLength /\ d > 0
  OBVIOUS
<1>2. a \div d \in Nat /\ b \div d \in Nat
  BY <1>1
<1>3. PICK x \in Nat, y \in Nat : x = a \div d /\ y = b \div d
  BY <1>2
<1>4. d * x <= a /\ b < d * (y + 1)
  BY <1>1, <1>3
<1>5. CASE x <= y
  BY <1>1, <1>2, <1>3, <1>5 DEF Day
<1>6. CASE y + 1 <= x
  <2>1. d * (y + 1) <= d * x
    BY <1>1, <1>6
  <2> QED BY <2>1, <1>4, <1>1
<1> QED BY <1>5, <1>6

\* The invariant holds before anything happened.
LEMMA InvInit == Init => Inv
<1> SUFFICES ASSUME Init PROVE Inv
  OBVIOUS
<1> USE StoreSubscriptionsAssumption, SubscriptionsAssumption DEF Init, TermsInit
<1>1. TypeOK
  BY DEF TypeOK, TermsTypeOK, EditSteps, Changes, NoChange, Methods, Outcomes
<1>2. EditInv
  BY DEF EditInv, Editing
<1>3. StartInv /\ ClockInv /\ CountInv
  BY DEF StartInv, ClockInv, CountInv, Counting, Rows
<1>4. RunInv
  BY DEF RunInv, BatchInv, HolderInv, RecordInv, ChargeInv, Collecting
<1>5. TermsConsistent /\ CountedOncePerDay
  BY DEF TermsConsistent, CountedOncePerDay
<1> QED BY <1>1, <1>2, <1>3, <1>4, <1>5 DEF Inv

\* What a commit of create_all does to the terms of a store.
LEMMA CommitTerms ==
    ASSUME Inv, NEW k \in Counts, commit_all(k)
    PROVE  /\ terms' \in [Stores -> StoreSubscription \cup {None}]
           /\ \A s \in Stores : terms[s] # None =>
                /\ terms'[s] # None
                /\ terms'[s].currency = terms[s].currency
                /\ terms'[s].wallet = terms[s].wallet
<1> USE StoreSubscriptionsAssumption, SubscriptionsAssumption
<1>1. /\ terms \in [Stores -> StoreSubscription \cup {None}]
      /\ None \notin StoreSubscription
      /\ kclock[k] \in Nat
  BY DEF Inv, TypeOK, TermsTypeOK, StoreSubscription
<1>2. terms' = [s \in Stores |->
                IF s \in kfresh[k] THEN NewStoreSubscription("Eur", None, kclock[k])
                ELSE IF s \in kstart[k] THEN [terms[s] EXCEPT !.trial_start = kclock[k]]
                ELSE terms[s]]
  BY DEF commit_all, GivesTerms
<1>3. NewStoreSubscription("Eur", None, kclock[k]) \in StoreSubscription
  BY <1>1 DEF NewStoreSubscription, StoreSubscription, Currencies, Statuses
<1>4. ASSUME NEW s \in Stores, terms[s] # None, NEW t \in Nat
      PROVE  /\ [terms[s] EXCEPT !.trial_start = t] \in StoreSubscription
             /\ [terms[s] EXCEPT !.trial_start = t].currency = terms[s].currency
             /\ [terms[s] EXCEPT !.trial_start = t].wallet = terms[s].wallet
  BY <1>1, <1>4 DEF StoreSubscription
<1>5. \A s \in kstart[k] : terms[s] # None
  BY DEF Inv, StartInv, commit_all, EndCount
<1>6. \A s \in kfresh[k] : terms[s] = None
  BY DEF commit_all
<1>7. ASSUME NEW s \in Stores PROVE terms'[s] \in StoreSubscription \cup {None}
  BY <1>1, <1>2, <1>3, <1>4, <1>5
<1>8. ASSUME NEW s \in Stores, terms[s] # None
      PROVE  /\ terms'[s] # None
             /\ terms'[s].currency = terms[s].currency
             /\ terms'[s].wallet = terms[s].wallet
  BY <1>1, <1>2, <1>4, <1>6, <1>8
<1> QED BY <1>2, <1>7, <1>8

\* A row is named by its call and its store.
LEMMA RowsEqual ==
    ASSUME NEW q \in Rows, NEW r \in Rows, q[1] = r[1], q[2] = r[2]
    PROVE  q = r
BY DEF Rows

\* What pay_subscriptions reads and does.
LEMMA PayStep ==
    ASSUME Inv, NEW p \in Runs, NEW t \in Readings, pay_subscriptions(p, t)
    PROVE  \/ /\ pstep[p] = "new" /\ pstep' = [pstep EXCEPT ![p] = "done"]
              /\ UNCHANGED <<batch, method, overlapped>>
           \/ \E U \in SUBSET Rows, M \in [Stores -> Methods] :
                /\ pstep[p] = "new" /\ pstep' = [pstep EXCEPT ![p] = "collect"]
                /\ batch' = [batch EXCEPT ![p] = U]
                /\ method' = [method EXCEPT ![p] = M]
                /\ overlapped' \in SUBSET Rows
                /\ overlapped \subseteq overlapped'
                /\ \A r \in U : /\ M[r[2]] # "none" /\ r[2] \in Stores
                                /\ created[r] # None /\ payment[r] = None
                /\ \A r \in U, q \in Runs : r \in Collecting(q) => r \in overlapped'
<1> DEFINE U == UNION {unpaid(s) : s \in subscriptions_to_pay(t)}
           M == [s \in Stores |-> IF s \in subscriptions_to_pay(t) THEN payment_preparation(s)
                                  ELSE "none"]
<1>1. CASE ~(subscriptions_to_pay(t) \subseteq Owned)
  BY <1>1 DEF pay_subscriptions, RunGoes
<1>2. CASE subscriptions_to_pay(t) \subseteq Owned
  <2>1. /\ pstep[p] = "new" /\ pstep' = [pstep EXCEPT ![p] = "collect"]
        /\ batch' = [batch EXCEPT ![p] = U]
        /\ method' = [method EXCEPT ![p] = M]
        /\ \A r : r \in overlapped' <=>
             r \in overlapped \/ (r \in U /\ \E q \in Runs : r \in Collecting(q))
    <3>1. RunGoes(p, "new", "collect") /\ create_payment_preparations(p, subscriptions_to_pay(t))
      BY <1>2 DEF pay_subscriptions
    <3>2. pstep[p] = "new" /\ pstep' = [pstep EXCEPT ![p] = "collect"]
      BY <3>1 DEF RunGoes
    <3>3. batch' = [batch EXCEPT ![p] = U] /\ method' = [method EXCEPT ![p] = M]
      BY <3>1 DEF create_payment_preparations
    <3>4. \A r : r \in overlapped' <=>
             r \in overlapped \/ (r \in U /\ \E q \in Runs : r \in Collecting(q))
      BY <3>1 DEF create_payment_preparations
    <3> QED BY <3>2, <3>3, <3>4
  <2>2. subscriptions_to_pay(t) \subseteq Stores
    BY DEF subscriptions_to_pay
  <2>3. \A s \in Stores : payment_preparation(s) \in Methods \ {"none"}
    BY DEF payment_preparation, Methods
  <2>4. M \in [Stores -> Methods] /\ \A s \in subscriptions_to_pay(t) : M[s] # "none"
    BY <2>2, <2>3 DEF Methods
  <2>5. ASSUME NEW r \in U
        PROVE  /\ r \in Rows /\ r[2] \in subscriptions_to_pay(t)
               /\ created[r] # None /\ payment[r] = None
    BY <2>5 DEF unpaid, RowsOf
  <2> HIDE DEF U, M
  <2>6. U \in SUBSET Rows
    BY <2>5
  <2>7. overlapped \subseteq overlapped' /\ overlapped' \in SUBSET Rows
    BY <2>1, <2>6 DEF Inv, TypeOK
  <2>8. \A r \in U, q \in Runs : r \in Collecting(q) => r \in overlapped'
    BY <2>1
  <2>9. \A r \in U : /\ M[r[2]] # "none" /\ r[2] \in Stores
                     /\ created[r] # None /\ payment[r] = None
    BY <2>2, <2>4, <2>5
  <2> QED BY <2>1, <2>4, <2>6, <2>7, <2>8, <2>9
<1> QED BY <1>1, <1>2

\* Every step keeps the types.
LEMMA TypeNext == Inv /\ [Next]_vars => TypeOK'
<1> SUFFICES ASSUME Inv, [Next]_vars PROVE TypeOK'
  OBVIOUS
<1> USE StoreSubscriptionsAssumption, SubscriptionsAssumption DEF Inv, EditInv,
      StartInv, unpaid, RowsOf, payment_preparation, TypeOK, TermsTypeOK, RunGoes,
      editVars, termsVars, rowVars, countVars, runVars, countHistory, runHistory, StoreSubscription,
      EditSteps, Changes, NoChange, Currencies, Statuses, Rows, Methods, Outcomes
<1>1. ASSUME Tick PROVE TypeOK'
  BY <1>1 DEF Tick
<1>2. ASSUME NEW e \in Edits, NEW s \in Stores, NEW cur \in Currencies, create_store_subscription(e, s, cur), UNCHANGED <<now, rowVars, countVars, runVars, countHistory, runHistory>>
     PROVE TypeOK'
  BY <1>2 DEF create_store_subscription, Asks
<1>3. ASSUME NEW e \in Edits, insert_terms(e), UNCHANGED <<now, rowVars, countVars, runVars, countHistory, runHistory>>
     PROVE TypeOK'
  BY <1>3 DEF insert_terms, Ends, NewStoreSubscription
<1>4. ASSUME NEW e \in Edits, NEW s \in Stores, NEW pl \in Payloads, update_store_subscription(e, s, pl[1], pl[2]), UNCHANGED <<now, rowVars, countVars, runVars, countHistory, runHistory>>
     PROVE TypeOK'
  BY <1>4 DEF update_store_subscription, Asks, Decided
<1>5. ASSUME NEW e \in Edits, update_terms(e), UNCHANGED <<now, rowVars, countVars, runVars, countHistory, runHistory>>
     PROVE TypeOK'
  BY <1>5 DEF update_terms, Ends, Updated, Or
<1>6. ASSUME NEW e \in Edits, abandon_edit(e), UNCHANGED <<now, rowVars, countVars, runVars, countHistory, runHistory>>
     PROVE TypeOK'
  BY <1>6 DEF abandon_edit, Ends
<1>7. ASSUME NEW k \in Counts, NEW S \in SUBSET Stores, NEW t \in Readings, create_all(k, S, t) PROVE TypeOK'
  BY <1>7 DEF create_all, Readings
<1>8. ASSUME NEW k \in Counts, commit_all(k) PROVE TypeOK'
  <2>1. /\ terms' \in [Stores -> StoreSubscription \cup {None}]
        /\ \A s \in Stores : terms[s] # None =>
             /\ terms'[s] # None
             /\ terms'[s].currency = terms[s].currency
             /\ terms'[s].wallet = terms[s].wallet
    BY <1>8, CommitTerms
  <2>2. created' \in [Rows -> Nat \cup {None}]
    BY <1>8 DEF commit_all
  <2>3. UNCHANGED <<estep, estore, change, contested, now, payment, runVars, countHistory, runHistory>>
    BY <1>8 DEF commit_all
  <2> QED BY <1>8, <2>1, <2>2, <2>3 DEF EndCount, commit_all
<1>9. ASSUME NEW k \in Counts, roll_back(k) PROVE TypeOK'
  BY <1>9 DEF roll_back, EndCount
<1>10. ASSUME NEW p \in Runs, NEW t \in Readings, pay_subscriptions(p, t) PROVE TypeOK'
  <2>1. UNCHANGED <<termsVars, now, rowVars, countVars, outcome, charges, countHistory,
                    early, lost, unconfirmed>>
    BY <1>10 DEF pay_subscriptions
  <2>2. CASE pstep[p] = "new" /\ pstep' = [pstep EXCEPT ![p] = "done"]
             /\ UNCHANGED <<batch, method, overlapped>>
    BY <2>1, <2>2
  <2>3. CASE \E U \in SUBSET Rows, M \in [Stores -> Methods] :
                /\ pstep[p] = "new" /\ pstep' = [pstep EXCEPT ![p] = "collect"]
                /\ batch' = [batch EXCEPT ![p] = U]
                /\ method' = [method EXCEPT ![p] = M]
                /\ overlapped' \in SUBSET Rows
                /\ overlapped \subseteq overlapped'
                /\ \A r \in U : /\ M[r[2]] # "none" /\ r[2] \in Stores
                                /\ created[r] # None /\ payment[r] = None
                /\ \A r \in U, q \in Runs : r \in Collecting(q) => r \in overlapped'
    <3>0. PICK U \in SUBSET Rows, M \in [Stores -> Methods] :
             /\ pstep[p] = "new" /\ pstep' = [pstep EXCEPT ![p] = "collect"]
             /\ batch' = [batch EXCEPT ![p] = U]
             /\ method' = [method EXCEPT ![p] = M]
             /\ overlapped' \in SUBSET Rows
             /\ overlapped \subseteq overlapped'
             /\ \A r \in U : /\ M[r[2]] # "none" /\ r[2] \in Stores
                             /\ created[r] # None /\ payment[r] = None
             /\ \A r \in U, q \in Runs : r \in Collecting(q) => r \in overlapped'
      BY <2>3
    <3> QED BY <2>1, <3>0
  <2> HIDE DEF TypeOK, TermsTypeOK, Rows, Methods, Collecting
  <2> QED BY <1>10, <2>2, <2>3, PayStep
<1>11. ASSUME NEW p \in Runs, NEW s \in Stores, collect_subscription(p, s) PROVE TypeOK'
  BY <1>11 DEF collect_subscription, Collects, Due
<1>12. ASSUME NEW p \in Runs, NEW s \in Stores, collect_unpaid_charge(p, s) PROVE TypeOK'
  BY <1>12 DEF collect_unpaid_charge, Collects, Due
<1>13. ASSUME NEW p \in Runs, NEW s \in Stores, into_finished_payment(p, s) PROVE TypeOK'
  BY <1>13 DEF into_finished_payment, Collects
<1>14. ASSUME NEW p \in Runs, NEW s \in Stores, lose_collection(p, s) PROVE TypeOK'
  BY <1>14 DEF lose_collection, Collects, Due
<1>15. ASSUME NEW p \in Runs, record_payments(p) PROVE TypeOK'
  BY <1>15 DEF record_payments, EndRun
<1>16. ASSUME NEW p \in Runs, abandon_run(p) PROVE TypeOK'
  BY <1>16 DEF abandon_run, EndRun
<1>17. CASE UNCHANGED vars
  BY <1>17 DEF vars
<1>18. ASSUME NEW k \in Counts, NEW s \in Stores, count_store(k, s) PROVE TypeOK'
  BY <1>18 DEF count_store
<1> HIDE DEF TypeOK, TermsTypeOK, EditInv, Inv
<1> HIDE StoreSubscriptionsAssumption, SubscriptionsAssumption DEF Inv, EditInv,
      StartInv, unpaid, RowsOf, payment_preparation, TypeOK, TermsTypeOK, RunGoes,
      editVars, termsVars, rowVars, countVars, runVars, countHistory, runHistory, StoreSubscription,
      EditSteps, Changes, NoChange, Currencies, Statuses, Rows, Methods, Outcomes
<1> QED
  BY <1>1, <1>2, <1>3, <1>4, <1>5, <1>6, <1>7, <1>8, <1>9, <1>10, <1>11, <1>12, <1>13,
     <1>14, <1>15, <1>16, <1>17, <1>18 DEF Next, EditTerms, TermsNext, Count, Run

\* Every step keeps what the edits have decided on.
LEMMA EditNext == Inv /\ [Next]_vars => EditInv'
<1> SUFFICES ASSUME Inv, [Next]_vars PROVE EditInv'
  OBVIOUS
<1> USE StoreSubscriptionsAssumption, SubscriptionsAssumption DEF Inv, EditInv,
      StartInv, Editing, TermsConsistent, TypeOK, TermsTypeOK, RunGoes, editVars,
      termsVars, rowVars, countVars, runVars, countHistory, runHistory, StoreSubscription, EditSteps,
      Changes, NoChange, Currencies, Statuses, Rows, Methods, Outcomes
<1>1. ASSUME Tick PROVE EditInv'
  <2>1. UNCHANGED <<terms, editVars, contested>>
    BY <1>1 DEF Tick, editVars, termsVars, rowVars, countVars, runVars, countHistory, runHistory
  <2> QED BY <2>1
<1>2. ASSUME NEW e \in Edits, NEW s \in Stores, NEW cur \in Currencies, create_store_subscription(e, s, cur), UNCHANGED <<now, rowVars, countVars, runVars, countHistory, runHistory>>
     PROVE EditInv'
  BY <1>2 DEF create_store_subscription, Asks
<1>3. ASSUME NEW e \in Edits, insert_terms(e), UNCHANGED <<now, rowVars, countVars, runVars, countHistory, runHistory>>
     PROVE EditInv'
  BY <1>3 DEF insert_terms, Ends, NewStoreSubscription
<1>4. ASSUME NEW e \in Edits, NEW s \in Stores, NEW pl \in Payloads, update_store_subscription(e, s, pl[1], pl[2]), UNCHANGED <<now, rowVars, countVars, runVars, countHistory, runHistory>>
     PROVE EditInv'
  BY <1>4 DEF update_store_subscription, Asks, Decided
<1>5. ASSUME NEW e \in Edits, update_terms(e), UNCHANGED <<now, rowVars, countVars, runVars, countHistory, runHistory>>
     PROVE EditInv'
  BY <1>5 DEF update_terms, Ends, Updated, Or
<1>6. ASSUME NEW e \in Edits, abandon_edit(e), UNCHANGED <<now, rowVars, countVars, runVars, countHistory, runHistory>>
     PROVE EditInv'
  BY <1>6 DEF abandon_edit, Ends
<1>7. ASSUME NEW k \in Counts, NEW S \in SUBSET Stores, NEW t \in Readings, create_all(k, S, t) PROVE EditInv'
  <2>1. UNCHANGED <<terms, editVars, contested>>
    BY <1>7 DEF create_all, editVars, termsVars, rowVars, countVars, runVars, countHistory, runHistory
  <2> QED BY <2>1
<1>8. ASSUME NEW k \in Counts, commit_all(k) PROVE EditInv'
  <2>1. /\ terms' \in [Stores -> StoreSubscription \cup {None}]
        /\ \A s \in Stores : terms[s] # None =>
             /\ terms'[s] # None
             /\ terms'[s].currency = terms[s].currency
             /\ terms'[s].wallet = terms[s].wallet
    BY <1>8, CommitTerms
  <2>3. UNCHANGED <<estep, estore, change, contested>>
    BY <1>8 DEF commit_all
  <2> QED BY <2>1, <2>3
<1>9. ASSUME NEW k \in Counts, roll_back(k) PROVE EditInv'
  <2>1. UNCHANGED <<terms, editVars, contested>>
    BY <1>9 DEF roll_back, EndCount, editVars, termsVars, rowVars, countVars, runVars,
       countHistory, runHistory
  <2> QED BY <2>1
<1>10. ASSUME NEW p \in Runs, NEW t \in Readings, pay_subscriptions(p, t) PROVE EditInv'
  <2>1. UNCHANGED <<terms, editVars, contested>>
    BY <1>10 DEF pay_subscriptions, create_payment_preparations, editVars, termsVars, rowVars,
       countVars, runVars, countHistory, runHistory
  <2> QED BY <2>1
<1>11. ASSUME NEW p \in Runs, NEW s \in Stores, collect_subscription(p, s) PROVE EditInv'
  <2>1. UNCHANGED <<terms, editVars, contested>>
    BY <1>11 DEF collect_subscription, Collects, Due, editVars, termsVars, rowVars, countVars,
       runVars, countHistory, runHistory
  <2> QED BY <2>1
<1>12. ASSUME NEW p \in Runs, NEW s \in Stores, collect_unpaid_charge(p, s) PROVE EditInv'
  <2>1. UNCHANGED <<terms, editVars, contested>>
    BY <1>12 DEF collect_unpaid_charge, Collects, Due, editVars, termsVars, rowVars,
       countVars, runVars, countHistory, runHistory
  <2> QED BY <2>1
<1>13. ASSUME NEW p \in Runs, NEW s \in Stores, into_finished_payment(p, s) PROVE EditInv'
  <2>1. UNCHANGED <<terms, editVars, contested>>
    BY <1>13 DEF into_finished_payment, Collects, editVars, termsVars, rowVars, countVars,
       runVars, countHistory, runHistory
  <2> QED BY <2>1
<1>14. ASSUME NEW p \in Runs, NEW s \in Stores, lose_collection(p, s) PROVE EditInv'
  <2>1. UNCHANGED <<terms, editVars, contested>>
    BY <1>14 DEF lose_collection, Collects, Due, editVars, termsVars, rowVars, countVars,
       runVars, countHistory, runHistory
  <2> QED BY <2>1
<1>15. ASSUME NEW p \in Runs, record_payments(p) PROVE EditInv'
  <2>1. UNCHANGED <<terms, editVars, contested>>
    BY <1>15 DEF record_payments, EndRun, editVars, termsVars, rowVars, countVars, runVars,
       countHistory, runHistory
  <2> QED BY <2>1
<1>16. ASSUME NEW p \in Runs, abandon_run(p) PROVE EditInv'
  <2>1. UNCHANGED <<terms, editVars, contested>>
    BY <1>16 DEF abandon_run, EndRun, editVars, termsVars, rowVars, countVars, runVars,
       countHistory, runHistory
  <2> QED BY <2>1
<1>17. CASE UNCHANGED vars
  BY <1>17 DEF vars
<1>18. ASSUME NEW k \in Counts, NEW s \in Stores, count_store(k, s) PROVE EditInv'
  <2>1. UNCHANGED <<terms, editVars, contested>>
    BY <1>18 DEF count_store, editVars, termsVars, rowVars, countVars, runVars, countHistory, runHistory
  <2> QED BY <2>1
<1> HIDE StoreSubscriptionsAssumption, SubscriptionsAssumption DEF Inv, EditInv,
      StartInv, Editing, TermsConsistent, TypeOK, TermsTypeOK, RunGoes, editVars,
      termsVars, rowVars, countVars, runVars, countHistory, runHistory, StoreSubscription, EditSteps,
      Changes, NoChange, Currencies, Statuses, Rows, Methods, Outcomes
<1> QED
  BY <1>1, <1>2, <1>3, <1>4, <1>5, <1>6, <1>7, <1>8, <1>9, <1>10, <1>11, <1>12, <1>13,
     <1>14, <1>15, <1>16, <1>17, <1>18 DEF Next, EditTerms, TermsNext, Count, Run

\* Every step keeps price and currency together.
LEMMA TermsNextConsistent == Inv /\ [Next]_vars => TermsConsistent'
<1> SUFFICES ASSUME Inv, [Next]_vars PROVE TermsConsistent'
  OBVIOUS
<1> USE StoreSubscriptionsAssumption, SubscriptionsAssumption DEF Inv, EditInv,
      StartInv, TermsConsistent, Editing, TypeOK, TermsTypeOK, RunGoes, editVars,
      termsVars, rowVars, countVars, runVars, countHistory, runHistory, StoreSubscription, EditSteps,
      Changes, NoChange, Currencies, Statuses, Rows, Methods, Outcomes
<1>1. ASSUME Tick PROVE TermsConsistent'
  <2>1. UNCHANGED <<terms, editVars, contested>>
    BY <1>1 DEF Tick, editVars, termsVars, rowVars, countVars, runVars, countHistory, runHistory
  <2> QED BY <2>1
<1>2. ASSUME NEW e \in Edits, NEW s \in Stores, NEW cur \in Currencies, create_store_subscription(e, s, cur), UNCHANGED <<now, rowVars, countVars, runVars, countHistory, runHistory>>
     PROVE TermsConsistent'
  BY <1>2 DEF create_store_subscription, Asks
<1>3. ASSUME NEW e \in Edits, insert_terms(e), UNCHANGED <<now, rowVars, countVars, runVars, countHistory, runHistory>>
     PROVE TermsConsistent'
  BY <1>3 DEF insert_terms, Ends, NewStoreSubscription
<1>4. ASSUME NEW e \in Edits, NEW s \in Stores, NEW pl \in Payloads, update_store_subscription(e, s, pl[1], pl[2]), UNCHANGED <<now, rowVars, countVars, runVars, countHistory, runHistory>>
     PROVE TermsConsistent'
  BY <1>4 DEF update_store_subscription, Asks, Decided
<1>5. ASSUME NEW e \in Edits, update_terms(e), UNCHANGED <<now, rowVars, countVars, runVars, countHistory, runHistory>>
     PROVE TermsConsistent'
  BY <1>5 DEF update_terms, Ends, Updated, Or
<1>6. ASSUME NEW e \in Edits, abandon_edit(e), UNCHANGED <<now, rowVars, countVars, runVars, countHistory, runHistory>>
     PROVE TermsConsistent'
  BY <1>6 DEF abandon_edit, Ends
<1>7. ASSUME NEW k \in Counts, NEW S \in SUBSET Stores, NEW t \in Readings, create_all(k, S, t)
     PROVE TermsConsistent'
  <2>1. UNCHANGED <<terms, editVars, contested>>
    BY <1>7 DEF create_all, editVars, termsVars, rowVars, countVars, runVars, countHistory, runHistory
  <2> QED BY <2>1
<1>8. ASSUME NEW k \in Counts, commit_all(k) PROVE TermsConsistent'
  BY <1>8 DEF commit_all, EndCount, GivesTerms, NewStoreSubscription
<1>9. ASSUME NEW k \in Counts, roll_back(k) PROVE TermsConsistent'
  <2>1. UNCHANGED <<terms, editVars, contested>>
    BY <1>9 DEF roll_back, EndCount, editVars, termsVars, rowVars, countVars, runVars,
       countHistory, runHistory
  <2> QED BY <2>1
<1>10. ASSUME NEW p \in Runs, NEW t \in Readings, pay_subscriptions(p, t) PROVE TermsConsistent'
  <2>1. UNCHANGED <<terms, editVars, contested>>
    BY <1>10 DEF pay_subscriptions, create_payment_preparations, editVars, termsVars, rowVars,
       countVars, runVars, countHistory, runHistory
  <2> QED BY <2>1
<1>11. ASSUME NEW p \in Runs, NEW s \in Stores, collect_subscription(p, s)
     PROVE TermsConsistent'
  <2>1. UNCHANGED <<terms, editVars, contested>>
    BY <1>11 DEF collect_subscription, Collects, Due, editVars, termsVars, rowVars, countVars,
       runVars, countHistory, runHistory
  <2> QED BY <2>1
<1>12. ASSUME NEW p \in Runs, NEW s \in Stores, collect_unpaid_charge(p, s)
     PROVE TermsConsistent'
  <2>1. UNCHANGED <<terms, editVars, contested>>
    BY <1>12 DEF collect_unpaid_charge, Collects, Due, editVars, termsVars, rowVars,
       countVars, runVars, countHistory, runHistory
  <2> QED BY <2>1
<1>13. ASSUME NEW p \in Runs, NEW s \in Stores, into_finished_payment(p, s)
     PROVE TermsConsistent'
  <2>1. UNCHANGED <<terms, editVars, contested>>
    BY <1>13 DEF into_finished_payment, Collects, editVars, termsVars, rowVars, countVars,
       runVars, countHistory, runHistory
  <2> QED BY <2>1
<1>14. ASSUME NEW p \in Runs, NEW s \in Stores, lose_collection(p, s)
     PROVE TermsConsistent'
  <2>1. UNCHANGED <<terms, editVars, contested>>
    BY <1>14 DEF lose_collection, Collects, Due, editVars, termsVars, rowVars, countVars,
       runVars, countHistory, runHistory
  <2> QED BY <2>1
<1>15. ASSUME NEW p \in Runs, record_payments(p) PROVE TermsConsistent'
  <2>1. UNCHANGED <<terms, editVars, contested>>
    BY <1>15 DEF record_payments, EndRun, editVars, termsVars, rowVars, countVars, runVars,
       countHistory, runHistory
  <2> QED BY <2>1
<1>16. ASSUME NEW p \in Runs, abandon_run(p) PROVE TermsConsistent'
  <2>1. UNCHANGED <<terms, editVars, contested>>
    BY <1>16 DEF abandon_run, EndRun, editVars, termsVars, rowVars, countVars, runVars,
       countHistory, runHistory
  <2> QED BY <2>1
<1>17. CASE UNCHANGED vars
  BY <1>17 DEF vars
<1>18. ASSUME NEW k \in Counts, NEW s \in Stores, count_store(k, s)
     PROVE TermsConsistent'
  <2>1. UNCHANGED <<terms, editVars, contested>>
    BY <1>18 DEF count_store, editVars, termsVars, rowVars, countVars, runVars, countHistory, runHistory
  <2> QED BY <2>1
<1> HIDE StoreSubscriptionsAssumption, SubscriptionsAssumption DEF Inv, EditInv,
      StartInv, TermsConsistent, Editing, TypeOK, TermsTypeOK, RunGoes, editVars,
      termsVars, rowVars, countVars, runVars, countHistory, runHistory, StoreSubscription, EditSteps,
      Changes, NoChange, Currencies, Statuses, Rows, Methods, Outcomes
<1> QED
  BY <1>1, <1>2, <1>3, <1>4, <1>5, <1>6, <1>7, <1>8, <1>9, <1>10, <1>11, <1>12, <1>13,
     <1>14, <1>15, <1>16, <1>17, <1>18 DEF Next, EditTerms, TermsNext, Count, Run

\* Every step keeps the terms of the stores to be given a trial start.
LEMMA StartNext == Inv /\ [Next]_vars => StartInv'
<1> SUFFICES ASSUME Inv, [Next]_vars PROVE StartInv'
  OBVIOUS
<1> USE StoreSubscriptionsAssumption, SubscriptionsAssumption DEF Inv, StartInv,
      EditInv, TypeOK, TermsTypeOK, RunGoes, editVars, termsVars, rowVars, countVars,
      runVars, countHistory, runHistory, StoreSubscription, EditSteps, Changes, NoChange, Currencies,
      Statuses, Rows, Methods, Outcomes
<1>1. ASSUME Tick PROVE StartInv'
  <2>1. UNCHANGED <<terms, kstep, kstores, kstart>>
    BY <1>1 DEF Tick, editVars, termsVars, rowVars, countVars, runVars, countHistory, runHistory
  <2> QED BY <2>1
<1>2. ASSUME NEW e \in Edits, NEW s \in Stores, NEW cur \in Currencies, create_store_subscription(e, s, cur), UNCHANGED <<now, rowVars, countVars, runVars, countHistory, runHistory>>
     PROVE StartInv'
  <2>1. UNCHANGED <<terms, kstep, kstores, kstart>>
    BY <1>2 DEF create_store_subscription, Asks, editVars, termsVars, rowVars, countVars,
       runVars, countHistory, runHistory
  <2> QED BY <2>1
<1>3. ASSUME NEW e \in Edits, insert_terms(e), UNCHANGED <<now, rowVars, countVars, runVars, countHistory, runHistory>>
     PROVE StartInv'
  BY <1>3 DEF insert_terms, Ends, NewStoreSubscription
<1>4. ASSUME NEW e \in Edits, NEW s \in Stores, NEW pl \in Payloads, update_store_subscription(e, s, pl[1], pl[2]), UNCHANGED <<now, rowVars, countVars, runVars, countHistory, runHistory>>
     PROVE StartInv'
  <2>1. UNCHANGED <<terms, kstep, kstores, kstart>>
    BY <1>4 DEF update_store_subscription, Asks, Decided, editVars, termsVars, rowVars,
       countVars, runVars, countHistory, runHistory
  <2> QED BY <2>1
<1>5. ASSUME NEW e \in Edits, update_terms(e), UNCHANGED <<now, rowVars, countVars, runVars, countHistory, runHistory>>
     PROVE StartInv'
  BY <1>5 DEF update_terms, Ends, Updated, Or
<1>6. ASSUME NEW e \in Edits, abandon_edit(e), UNCHANGED <<now, rowVars, countVars, runVars, countHistory, runHistory>>
     PROVE StartInv'
  <2>1. UNCHANGED <<terms, kstep, kstores, kstart>>
    BY <1>6 DEF abandon_edit, Ends, editVars, termsVars, rowVars, countVars, runVars,
       countHistory, runHistory
  <2> QED BY <2>1
<1>7. ASSUME NEW k \in Counts, NEW S \in SUBSET Stores, NEW t \in Readings, create_all(k, S, t) PROVE StartInv'
  BY <1>7 DEF create_all
<1>8. ASSUME NEW k \in Counts, commit_all(k) PROVE StartInv'
  <2>1. /\ terms' \in [Stores -> StoreSubscription \cup {None}]
        /\ \A s \in Stores : terms[s] # None =>
             /\ terms'[s] # None
             /\ terms'[s].currency = terms[s].currency
             /\ terms'[s].wallet = terms[s].wallet
    BY <1>8, CommitTerms
  <2> QED BY <1>8, <2>1 DEF EndCount, commit_all
<1>9. ASSUME NEW k \in Counts, roll_back(k) PROVE StartInv'
  BY <1>9 DEF roll_back, EndCount
<1>10. ASSUME NEW p \in Runs, NEW t \in Readings, pay_subscriptions(p, t) PROVE StartInv'
  <2>1. UNCHANGED <<terms, kstep, kstores, kstart>>
    BY <1>10 DEF pay_subscriptions, create_payment_preparations, editVars, termsVars, rowVars,
       countVars, runVars, countHistory, runHistory
  <2> QED BY <2>1
<1>11. ASSUME NEW p \in Runs, NEW s \in Stores, collect_subscription(p, s) PROVE StartInv'
  <2>1. UNCHANGED <<terms, kstep, kstores, kstart>>
    BY <1>11 DEF collect_subscription, Collects, Due, editVars, termsVars, rowVars, countVars,
       runVars, countHistory, runHistory
  <2> QED BY <2>1
<1>12. ASSUME NEW p \in Runs, NEW s \in Stores, collect_unpaid_charge(p, s) PROVE StartInv'
  <2>1. UNCHANGED <<terms, kstep, kstores, kstart>>
    BY <1>12 DEF collect_unpaid_charge, Collects, Due, editVars, termsVars, rowVars,
       countVars, runVars, countHistory, runHistory
  <2> QED BY <2>1
<1>13. ASSUME NEW p \in Runs, NEW s \in Stores, into_finished_payment(p, s) PROVE StartInv'
  <2>1. UNCHANGED <<terms, kstep, kstores, kstart>>
    BY <1>13 DEF into_finished_payment, Collects, editVars, termsVars, rowVars, countVars,
       runVars, countHistory, runHistory
  <2> QED BY <2>1
<1>14. ASSUME NEW p \in Runs, NEW s \in Stores, lose_collection(p, s) PROVE StartInv'
  <2>1. UNCHANGED <<terms, kstep, kstores, kstart>>
    BY <1>14 DEF lose_collection, Collects, Due, editVars, termsVars, rowVars, countVars,
       runVars, countHistory, runHistory
  <2> QED BY <2>1
<1>15. ASSUME NEW p \in Runs, record_payments(p) PROVE StartInv'
  <2>1. UNCHANGED <<terms, kstep, kstores, kstart>>
    BY <1>15 DEF record_payments, EndRun, editVars, termsVars, rowVars, countVars, runVars,
       countHistory, runHistory
  <2> QED BY <2>1
<1>16. ASSUME NEW p \in Runs, abandon_run(p) PROVE StartInv'
  <2>1. UNCHANGED <<terms, kstep, kstores, kstart>>
    BY <1>16 DEF abandon_run, EndRun, editVars, termsVars, rowVars, countVars, runVars,
       countHistory, runHistory
  <2> QED BY <2>1
<1>17. CASE UNCHANGED vars
  BY <1>17 DEF vars
<1>18. ASSUME NEW k \in Counts, NEW s \in Stores, count_store(k, s) PROVE StartInv'
  BY <1>18 DEF count_store
<1> HIDE StoreSubscriptionsAssumption, SubscriptionsAssumption DEF Inv, StartInv,
      EditInv, TypeOK, TermsTypeOK, RunGoes, editVars, termsVars, rowVars, countVars,
      runVars, countHistory, runHistory, StoreSubscription, EditSteps, Changes, NoChange, Currencies,
      Statuses, Rows, Methods, Outcomes
<1> QED
  BY <1>1, <1>2, <1>3, <1>4, <1>5, <1>6, <1>7, <1>8, <1>9, <1>10, <1>11, <1>12, <1>13,
     <1>14, <1>15, <1>16, <1>17, <1>18 DEF Next, EditTerms, TermsNext, Count, Run

\* Every step keeps rows and calls in the past.
LEMMA ClockNext == Inv /\ [Next]_vars => ClockInv'
<1> SUFFICES ASSUME Inv, [Next]_vars PROVE ClockInv'
  OBVIOUS
<1> USE StoreSubscriptionsAssumption, SubscriptionsAssumption DEF Inv, ClockInv, RunInv,
      BatchInv, TypeOK, TermsTypeOK, RunGoes, editVars, termsVars, rowVars, countVars,
      runVars, countHistory, runHistory, Rows, Methods, Outcomes
<1>1. ASSUME Tick PROVE ClockInv'
  <2>1. now \in Nat /\ now' = now + 1 /\ UNCHANGED <<rowVars, countVars, early>>
    BY <1>1 DEF Tick
  <2>2. Day(now) \in Nat /\ Day(now') \in Nat /\ Day(now) <= Day(now')
    BY <2>1, DayMonotone
  <2>3. ASSUME NEW r \in Rows, created[r] # None
        PROVE  created[r] \in Nat /\ created[r] <= now /\ Day(created[r]) \in Nat
    BY <2>3, <2>1, DayMonotone
  <2>4. \A r \in Rows : payment[r] # None =>
           created[r] # None /\ (r \in early \/ Day(created[r]) < Day(now'))
    BY <2>2, <2>3
  <2>5. \A r \in Rows : created[r] # None => kstep[r[1]] = "done" /\ created[r] <= now'
    BY <2>1, <2>3
  <2>6. \A k \in Counts : ktime[k] <= now'
    BY <2>1
  <2> QED BY <2>1, <2>4, <2>5, <2>6
<1>2. ASSUME NEW e \in Edits, NEW s \in Stores, NEW cur \in Currencies, create_store_subscription(e, s, cur), UNCHANGED <<now, rowVars, countVars, runVars, countHistory, runHistory>>
     PROVE ClockInv'
  <2>1. UNCHANGED <<now, rowVars, kstep, ktime, early>>
    BY <1>2 DEF create_store_subscription, Asks, editVars, termsVars, rowVars, countVars,
       runVars, countHistory, runHistory
  <2> QED BY <2>1
<1>3. ASSUME NEW e \in Edits, insert_terms(e), UNCHANGED <<now, rowVars, countVars, runVars, countHistory, runHistory>>
     PROVE ClockInv'
  <2>1. UNCHANGED <<now, rowVars, kstep, ktime, early>>
    BY <1>3 DEF insert_terms, Ends, NewStoreSubscription, editVars, termsVars, rowVars,
       countVars, runVars, countHistory, runHistory
  <2> QED BY <2>1
<1>4. ASSUME NEW e \in Edits, NEW s \in Stores, NEW pl \in Payloads, update_store_subscription(e, s, pl[1], pl[2]), UNCHANGED <<now, rowVars, countVars, runVars, countHistory, runHistory>>
     PROVE ClockInv'
  <2>1. UNCHANGED <<now, rowVars, kstep, ktime, early>>
    BY <1>4 DEF update_store_subscription, Asks, Decided, editVars, termsVars, rowVars,
       countVars, runVars, countHistory, runHistory
  <2> QED BY <2>1
<1>5. ASSUME NEW e \in Edits, update_terms(e), UNCHANGED <<now, rowVars, countVars, runVars, countHistory, runHistory>>
     PROVE ClockInv'
  <2>1. UNCHANGED <<now, rowVars, kstep, ktime, early>>
    BY <1>5 DEF update_terms, Ends, Updated, Or, editVars, termsVars, rowVars, countVars,
       runVars, countHistory, runHistory
  <2> QED BY <2>1
<1>6. ASSUME NEW e \in Edits, abandon_edit(e), UNCHANGED <<now, rowVars, countVars, runVars, countHistory, runHistory>>
     PROVE ClockInv'
  <2>1. UNCHANGED <<now, rowVars, kstep, ktime, early>>
    BY <1>6 DEF abandon_edit, Ends, editVars, termsVars, rowVars, countVars, runVars,
       countHistory, runHistory
  <2> QED BY <2>1
<1>7. ASSUME NEW k \in Counts, NEW S \in SUBSET Stores, NEW t \in Readings, create_all(k, S, t) PROVE ClockInv'
  BY <1>7 DEF create_all
<1>8. ASSUME NEW k \in Counts, commit_all(k) PROVE ClockInv'
  BY <1>8 DEF commit_all, EndCount, GivesTerms, NewStoreSubscription
<1>9. ASSUME NEW k \in Counts, roll_back(k) PROVE ClockInv'
  BY <1>9 DEF roll_back, EndCount
<1>10. ASSUME NEW p \in Runs, NEW t \in Readings, pay_subscriptions(p, t) PROVE ClockInv'
  <2>1. UNCHANGED <<now, rowVars, kstep, ktime, early>>
    BY <1>10 DEF pay_subscriptions, create_payment_preparations, editVars, termsVars, rowVars,
       countVars, runVars, countHistory, runHistory
  <2> QED BY <2>1
<1>11. ASSUME NEW p \in Runs, NEW s \in Stores, collect_subscription(p, s) PROVE ClockInv'
  <2>1. UNCHANGED <<now, rowVars, kstep, ktime, early>>
    BY <1>11 DEF collect_subscription, Collects, Due, editVars, termsVars, rowVars, countVars,
       runVars, countHistory, runHistory
  <2> QED BY <2>1
<1>12. ASSUME NEW p \in Runs, NEW s \in Stores, collect_unpaid_charge(p, s) PROVE ClockInv'
  <2>1. UNCHANGED <<now, rowVars, kstep, ktime, early>>
    BY <1>12 DEF collect_unpaid_charge, Collects, Due, editVars, termsVars, rowVars,
       countVars, runVars, countHistory, runHistory
  <2> QED BY <2>1
<1>13. ASSUME NEW p \in Runs, NEW s \in Stores, into_finished_payment(p, s) PROVE ClockInv'
  <2>1. UNCHANGED <<now, rowVars, kstep, ktime, early>>
    BY <1>13 DEF into_finished_payment, Collects, editVars, termsVars, rowVars, countVars,
       runVars, countHistory, runHistory
  <2> QED BY <2>1
<1>14. ASSUME NEW p \in Runs, NEW s \in Stores, lose_collection(p, s) PROVE ClockInv'
  <2>1. UNCHANGED <<now, rowVars, kstep, ktime, early>>
    BY <1>14 DEF lose_collection, Collects, Due, editVars, termsVars, rowVars, countVars,
       runVars, countHistory, runHistory
  <2> QED BY <2>1
<1>15. ASSUME NEW p \in Runs, record_payments(p) PROVE ClockInv'
  <2>1. /\ UNCHANGED <<now, created, kstep, ktime>>
        /\ payment' = [r \in Rows |-> IF r \in batch[p] THEN p ELSE payment[r]]
        /\ early' = early \cup {r \in batch[p] : Day(created[r]) = Day(now)}
    BY <1>15 DEF record_payments
  <2>2. ASSUME NEW r \in batch[p]
        PROVE  created[r] # None /\ Day(created[r]) \in Nat /\ Day(now) \in Nat
               /\ Day(created[r]) <= Day(now)
    BY <2>2, DayMonotone
  <2>3. ASSUME NEW r \in Rows, payment'[r] # None
        PROVE  created[r] # None /\ (r \in early' \/ Day(created[r]) < Day(now))
    <3>1. CASE r \in batch[p]
      <4>1. Day(created[r]) = Day(now) \/ Day(created[r]) < Day(now)
        <5>1. /\ Day(created[r]) \in Nat /\ Day(now) \in Nat
              /\ Day(created[r]) <= Day(now)
          BY <3>1, <2>2
        <5> HIDE DEF Inv
        <5> QED BY <5>1
      <4>2. created[r] # None
        BY <3>1, <2>2
      <4>3. Day(created[r]) = Day(now) => r \in early'
        BY <3>1, <2>1
      <4> QED BY <4>1, <4>2, <4>3
    <3>2. CASE r \notin batch[p]
      BY <3>2, <2>1, <2>3
    <3> QED BY <3>1, <3>2
  <2> QED BY <2>1, <2>3
<1>16. ASSUME NEW p \in Runs, abandon_run(p) PROVE ClockInv'
  <2>1. UNCHANGED <<now, rowVars, kstep, ktime, early>>
    BY <1>16 DEF abandon_run, EndRun, editVars, termsVars, rowVars, countVars, runVars,
       countHistory, runHistory
  <2> QED BY <2>1
<1>17. CASE UNCHANGED vars
  BY <1>17 DEF vars
<1>18. ASSUME NEW k \in Counts, NEW s \in Stores, count_store(k, s) PROVE ClockInv'
  <2>1. UNCHANGED <<now, rowVars, kstep, ktime, early>>
    BY <1>18 DEF count_store
  <2> QED BY <2>1
<1> HIDE StoreSubscriptionsAssumption, SubscriptionsAssumption DEF Inv, ClockInv, RunInv,
      BatchInv, TypeOK, TermsTypeOK, RunGoes, editVars, termsVars, rowVars, countVars,
      runVars, countHistory, runHistory, Rows, Methods, Outcomes
<1> QED
  BY <1>1, <1>2, <1>3, <1>4, <1>5, <1>6, <1>7, <1>8, <1>9, <1>10, <1>11, <1>12, <1>13,
     <1>14, <1>15, <1>16, <1>17, <1>18 DEF Next, EditTerms, TermsNext, Count, Run

\* Every step keeps what the counting calls have decided on.
LEMMA CountNext == Inv /\ [Next]_vars => CountInv'
<1> SUFFICES ASSUME Inv, [Next]_vars PROVE CountInv'
  OBVIOUS
<1> USE StoreSubscriptionsAssumption, SubscriptionsAssumption DEF Inv, ClockInv,
      CountInv, StartInv, RunInv, Counting, RowsOf, TypeOK, TermsTypeOK, RunGoes, editVars,
      termsVars, rowVars, countVars, runVars, countHistory, runHistory, Rows, Methods, Outcomes
<1>1. ASSUME Tick PROVE CountInv'
  <2>1. UNCHANGED <<kstep, kstores, ktime, created, crowded, strayed, early>>
    BY <1>1 DEF Tick, editVars, termsVars, rowVars, countVars, runVars, countHistory, runHistory
  <2> QED BY <2>1
<1>2. ASSUME NEW e \in Edits, NEW s \in Stores, NEW cur \in Currencies, create_store_subscription(e, s, cur), UNCHANGED <<now, rowVars, countVars, runVars, countHistory, runHistory>>
     PROVE CountInv'
  <2>1. UNCHANGED <<kstep, kstores, ktime, created, crowded, strayed, early>>
    BY <1>2 DEF create_store_subscription, Asks, editVars, termsVars, rowVars, countVars,
       runVars, countHistory, runHistory
  <2> QED BY <2>1
<1>3. ASSUME NEW e \in Edits, insert_terms(e), UNCHANGED <<now, rowVars, countVars, runVars, countHistory, runHistory>>
     PROVE CountInv'
  <2>1. UNCHANGED <<kstep, kstores, ktime, created, crowded, strayed, early>>
    BY <1>3 DEF insert_terms, Ends, NewStoreSubscription, editVars, termsVars, rowVars,
       countVars, runVars, countHistory, runHistory
  <2> QED BY <2>1
<1>4. ASSUME NEW e \in Edits, NEW s \in Stores, NEW pl \in Payloads, update_store_subscription(e, s, pl[1], pl[2]), UNCHANGED <<now, rowVars, countVars, runVars, countHistory, runHistory>>
     PROVE CountInv'
  <2>1. UNCHANGED <<kstep, kstores, ktime, created, crowded, strayed, early>>
    BY <1>4 DEF update_store_subscription, Asks, Decided, editVars, termsVars, rowVars,
       countVars, runVars, countHistory, runHistory
  <2> QED BY <2>1
<1>5. ASSUME NEW e \in Edits, update_terms(e), UNCHANGED <<now, rowVars, countVars, runVars, countHistory, runHistory>>
     PROVE CountInv'
  <2>1. UNCHANGED <<kstep, kstores, ktime, created, crowded, strayed, early>>
    BY <1>5 DEF update_terms, Ends, Updated, Or, editVars, termsVars, rowVars, countVars,
       runVars, countHistory, runHistory
  <2> QED BY <2>1
<1>6. ASSUME NEW e \in Edits, abandon_edit(e), UNCHANGED <<now, rowVars, countVars, runVars, countHistory, runHistory>>
     PROVE CountInv'
  <2>1. UNCHANGED <<kstep, kstores, ktime, created, crowded, strayed, early>>
    BY <1>6 DEF abandon_edit, Ends, editVars, termsVars, rowVars, countVars, runVars,
       countHistory, runHistory
  <2> QED BY <2>1
<1>7. ASSUME NEW k \in Counts, NEW S \in SUBSET Stores, NEW t \in Readings, create_all(k, S, t) PROVE CountInv'
  <2>1. /\ kstep[k] = "new" /\ kstep' = [kstep EXCEPT ![k] = "open"]
        /\ ktime' = [ktime EXCEPT ![k] = now]
        /\ UNCHANGED <<kstores, created, crowded, strayed, early>>
    BY <1>7 DEF create_all
  <2>2. kstores[k] = {}
    BY <2>1
  <2> QED BY <2>1, <2>2
<1>8. ASSUME NEW k \in Counts, commit_all(k) PROVE CountInv'
  BY <1>8 DEF commit_all, EndCount, GivesTerms, NewStoreSubscription
<1>9. ASSUME NEW k \in Counts, roll_back(k) PROVE CountInv'
  BY <1>9 DEF roll_back, EndCount
<1>10. ASSUME NEW p \in Runs, NEW t \in Readings, pay_subscriptions(p, t) PROVE CountInv'
  <2>1. UNCHANGED <<kstep, kstores, ktime, created, crowded, strayed, early>>
    BY <1>10 DEF pay_subscriptions, create_payment_preparations, editVars, termsVars, rowVars,
       countVars, runVars, countHistory, runHistory
  <2> QED BY <2>1
<1>11. ASSUME NEW p \in Runs, NEW s \in Stores, collect_subscription(p, s) PROVE CountInv'
  <2>1. UNCHANGED <<kstep, kstores, ktime, created, crowded, strayed, early>>
    BY <1>11 DEF collect_subscription, Collects, Due, editVars, termsVars, rowVars, countVars,
       runVars, countHistory, runHistory
  <2> QED BY <2>1
<1>12. ASSUME NEW p \in Runs, NEW s \in Stores, collect_unpaid_charge(p, s) PROVE CountInv'
  <2>1. UNCHANGED <<kstep, kstores, ktime, created, crowded, strayed, early>>
    BY <1>12 DEF collect_unpaid_charge, Collects, Due, editVars, termsVars, rowVars,
       countVars, runVars, countHistory, runHistory
  <2> QED BY <2>1
<1>13. ASSUME NEW p \in Runs, NEW s \in Stores, into_finished_payment(p, s) PROVE CountInv'
  <2>1. UNCHANGED <<kstep, kstores, ktime, created, crowded, strayed, early>>
    BY <1>13 DEF into_finished_payment, Collects, editVars, termsVars, rowVars, countVars,
       runVars, countHistory, runHistory
  <2> QED BY <2>1
<1>14. ASSUME NEW p \in Runs, NEW s \in Stores, lose_collection(p, s) PROVE CountInv'
  <2>1. UNCHANGED <<kstep, kstores, ktime, created, crowded, strayed, early>>
    BY <1>14 DEF lose_collection, Collects, Due, editVars, termsVars, rowVars, countVars,
       runVars, countHistory, runHistory
  <2> QED BY <2>1
<1>15. ASSUME NEW p \in Runs, record_payments(p) PROVE CountInv'
  BY <1>15 DEF record_payments, EndRun
<1>16. ASSUME NEW p \in Runs, abandon_run(p) PROVE CountInv'
  <2>1. UNCHANGED <<kstep, kstores, ktime, created, crowded, strayed, early>>
    BY <1>16 DEF abandon_run, EndRun, editVars, termsVars, rowVars, countVars, runVars,
       countHistory, runHistory
  <2> QED BY <2>1
<1>17. CASE UNCHANGED vars
  BY <1>17 DEF vars
<1>18. ASSUME NEW k \in Counts, NEW s \in Stores, count_store(k, s) PROVE CountInv'
  <2> DEFINE add == IF MustPay(s, kclock[k]) /\ ~counted_on(s, kclock[k]) THEN {s} ELSE {}
  <2>1. /\ kstep[k] = "open"
        /\ kstores' = [kstores EXCEPT ![k] = @ \cup add]
        /\ crowded' = crowded \cup {x \in add : Counting(s) # {}}
        /\ strayed' = strayed \cup {<<k, x>> : x \in {y \in add : ~OneDay(k)}}
        /\ UNCHANGED <<kstep, ktime, created, early>>
    BY <1>18 DEF count_store
  <2>2. add \subseteq {s} /\ (s \in add => ~counted_on(s, kclock[k]))
    OBVIOUS
  <2>3. ASSUME s \in add, OneDay(k), NEW r \in RowsOf(s), created[r] # None,
               Day(created[r]) = Day(ktime[k])
        PROVE  r \in early
    <3>1. payment[r] # None
      BY <2>2, <2>3 DEF counted_on, unpaid, OneDay
    <3>2. Day(now) \in Nat /\ Day(created[r]) = Day(now)
      BY <2>3, DayMonotone DEF OneDay
    <3> QED BY <3>1, <3>2, <2>3
  <2> HIDE DEF add
  <2>4. s \in add => OneDay(k) \/ <<k, s>> \in strayed'
    BY <2>1
  <2>5. crowded \subseteq crowded' /\ strayed \subseteq strayed'
    BY <2>1
  <2>6. ASSUME NEW l \in Counts, kstep[l] = "open", NEW x \in kstores'[l] \ crowded',
               <<l, x>> \notin strayed',
               NEW r \in RowsOf(x), created[r] # None, Day(created[r]) = Day(ktime[l])
        PROVE  r \in early
    <3>1. CASE l = k /\ x \in add
      BY <3>1, <2>2, <2>3, <2>4, <2>6
    <3>2. CASE ~(l = k /\ x \in add)
      <4>1. x \in kstores[l] \ crowded /\ <<l, x>> \notin strayed
        BY <3>2, <2>1, <2>5, <2>6
      <4> QED BY <4>1, <2>6
    <3> QED BY <3>1, <3>2
  <2>7. ASSUME NEW x \in Stores \ crowded', NEW l \in Counting(x)', NEW m \in Counting(x)'
        PROVE  l = m
    <3>1. CASE x \in add
      BY <3>1, <2>1, <2>2, <2>7
    <3>2. CASE x \notin add
      BY <3>2, <2>1, <2>7
    <3> QED BY <3>1, <3>2
  <2> QED BY <2>1, <2>6, <2>7
<1> HIDE StoreSubscriptionsAssumption, SubscriptionsAssumption DEF Inv, ClockInv,
      CountInv, StartInv, RunInv, Counting, RowsOf, TypeOK, TermsTypeOK, RunGoes, editVars,
      termsVars, rowVars, countVars, runVars, countHistory, runHistory, Rows, Methods, Outcomes
<1> QED
  BY <1>1, <1>2, <1>3, <1>4, <1>5, <1>6, <1>7, <1>8, <1>9, <1>10, <1>11, <1>12, <1>13,
     <1>14, <1>15, <1>16, <1>17, <1>18 DEF Next, EditTerms, TermsNext, Count, Run

\* Nothing but a new row can break the count of a day.
LEMMA CountedKept ==
    ASSUME CountedOncePerDay, UNCHANGED created,
           crowded \subseteq crowded', strayed \subseteq strayed', early \subseteq early'
    PROVE  CountedOncePerDay'
<1> SUFFICES ASSUME NEW q \in Rows, NEW r \in Rows, q # r, q[2] = r[2],
                    created[q] # None, created[r] # None, Day(created[q]) = Day(created[r])
             PROVE  q[2] \in crowded' \/ {q, r} \cap (early \cup strayed)' # {}
  BY DEF CountedOncePerDay, Rows, Day
<1>1. q[2] \in crowded \/ {q, r} \cap (early \cup strayed) # {}
  BY DEF CountedOncePerDay
<1>2. CASE q[2] \in crowded
  BY <1>2
<1>3. CASE {q, r} \cap (early \cup strayed) # {}
  <2>1. PICK x \in {q, r} : x \in early \/ x \in strayed
    BY <1>3
  <2> QED BY <2>1
<1> QED BY <1>1, <1>2, <1>3

\* Every step keeps the count of a day.
LEMMA CountedNext == Inv /\ [Next]_vars => CountedOncePerDay'
<1> SUFFICES ASSUME Inv, [Next]_vars PROVE CountedOncePerDay'
  OBVIOUS
<1> USE StoreSubscriptionsAssumption, SubscriptionsAssumption DEF Inv, ClockInv,
      CountInv, CountedOncePerDay, Counting, RowsOf, TypeOK, TermsTypeOK, RunGoes,
      editVars, termsVars, rowVars, countVars, runVars, countHistory, runHistory, Rows, Methods,
      Outcomes
<1>1. ASSUME Tick PROVE CountedOncePerDay'
  <2>1. UNCHANGED <<created, crowded, strayed, early>>
    BY <1>1 DEF Tick, editVars, termsVars, rowVars, countVars, runVars, countHistory, runHistory
  <2> QED BY <2>1
<1>2. ASSUME NEW e \in Edits, NEW s \in Stores, NEW cur \in Currencies, create_store_subscription(e, s, cur), UNCHANGED <<now, rowVars, countVars, runVars, countHistory, runHistory>>
     PROVE CountedOncePerDay'
  <2>1. UNCHANGED <<created, crowded, strayed, early>>
    BY <1>2 DEF create_store_subscription, Asks, editVars, termsVars, rowVars, countVars,
       runVars, countHistory, runHistory
  <2> QED BY <2>1
<1>3. ASSUME NEW e \in Edits, insert_terms(e), UNCHANGED <<now, rowVars, countVars, runVars, countHistory, runHistory>>
     PROVE CountedOncePerDay'
  <2>1. UNCHANGED <<created, crowded, strayed, early>>
    BY <1>3 DEF insert_terms, Ends, NewStoreSubscription, editVars, termsVars, rowVars,
       countVars, runVars, countHistory, runHistory
  <2> QED BY <2>1
<1>4. ASSUME NEW e \in Edits, NEW s \in Stores, NEW pl \in Payloads, update_store_subscription(e, s, pl[1], pl[2]), UNCHANGED <<now, rowVars, countVars, runVars, countHistory, runHistory>>
     PROVE CountedOncePerDay'
  <2>1. UNCHANGED <<created, crowded, strayed, early>>
    BY <1>4 DEF update_store_subscription, Asks, Decided, editVars, termsVars, rowVars,
       countVars, runVars, countHistory, runHistory
  <2> QED BY <2>1
<1>5. ASSUME NEW e \in Edits, update_terms(e), UNCHANGED <<now, rowVars, countVars, runVars, countHistory, runHistory>>
     PROVE CountedOncePerDay'
  <2>1. UNCHANGED <<created, crowded, strayed, early>>
    BY <1>5 DEF update_terms, Ends, Updated, Or, editVars, termsVars, rowVars, countVars,
       runVars, countHistory, runHistory
  <2> QED BY <2>1
<1>6. ASSUME NEW e \in Edits, abandon_edit(e), UNCHANGED <<now, rowVars, countVars, runVars, countHistory, runHistory>>
     PROVE CountedOncePerDay'
  <2>1. UNCHANGED <<created, crowded, strayed, early>>
    BY <1>6 DEF abandon_edit, Ends, editVars, termsVars, rowVars, countVars, runVars,
       countHistory, runHistory
  <2> QED BY <2>1
<1>7. ASSUME NEW k \in Counts, NEW S \in SUBSET Stores, NEW t \in Readings, create_all(k, S, t)
     PROVE CountedOncePerDay'
  <2>1. UNCHANGED <<created, crowded, strayed, early>>
    BY <1>7 DEF create_all, countHistory
  <2> QED BY <2>1
<1>8. ASSUME NEW k \in Counts, commit_all(k) PROVE CountedOncePerDay'
  <2>1. /\ UNCHANGED <<crowded, strayed, early>> /\ kstep[k] = "open"
        /\ created' = [r \in Rows |-> IF r[1] = k /\ r[2] \in kstores[k]
                                      THEN ktime[k] ELSE created[r]]
    BY <1>8 DEF commit_all, EndCount
  <2>2. ASSUME NEW q \in Rows, NEW r \in Rows, q[2] = r[2], q[1] = k, q[2] \in kstores[k],
               ~(r[1] = k), created[r] # None, Day(created[r]) = Day(ktime[k])
        PROVE  q[2] \in crowded \/ q \in strayed \/ r \in early
    <3>1. q = <<k, q[2]>> /\ q[2] \in Stores /\ r \in RowsOf(q[2])
      BY <2>2
    <3> QED BY <2>1, <2>2, <3>1
  <2>3. ASSUME NEW q \in Rows, NEW r \in Rows, q # r, q[2] = r[2]
        PROVE  ~(q[1] = k /\ r[1] = k)
    BY <2>3, RowsEqual
  <2> SUFFICES ASSUME NEW q \in Rows, NEW r \in Rows, q # r, q[2] = r[2],
                      created'[q] # None, created'[r] # None,
                      Day(created'[q]) = Day(created'[r])
               PROVE  q[2] \in crowded \/ {q, r} \cap (early \cup strayed) # {}
    BY <2>1
  <2>4. CASE q[1] = k /\ q[2] \in kstores[k]
    BY <2>1, <2>2, <2>3, <2>4
  <2>5. CASE r[1] = k /\ r[2] \in kstores[k]
    BY <2>1, <2>2, <2>3, <2>5
  <2>6. CASE ~(q[1] = k /\ q[2] \in kstores[k]) /\ ~(r[1] = k /\ r[2] \in kstores[k])
    BY <2>1, <2>6
  <2> QED BY <2>4, <2>5, <2>6
<1>9. ASSUME NEW k \in Counts, roll_back(k) PROVE CountedOncePerDay'
  <2>1. UNCHANGED <<created, crowded, strayed, early>>
    BY <1>9 DEF roll_back, EndCount, editVars, termsVars, rowVars, countVars, runVars,
       countHistory, runHistory
  <2> QED BY <2>1
<1>10. ASSUME NEW p \in Runs, NEW t \in Readings, pay_subscriptions(p, t) PROVE CountedOncePerDay'
  <2>1. UNCHANGED <<created, crowded, strayed, early>>
    BY <1>10 DEF pay_subscriptions, create_payment_preparations, editVars, termsVars, rowVars,
       countVars, runVars, countHistory, runHistory
  <2> QED BY <2>1
<1>11. ASSUME NEW p \in Runs, NEW s \in Stores, collect_subscription(p, s)
     PROVE CountedOncePerDay'
  <2>1. UNCHANGED <<created, crowded, strayed, early>>
    BY <1>11 DEF collect_subscription, Collects, Due, editVars, termsVars, rowVars, countVars,
       runVars, countHistory, runHistory
  <2> QED BY <2>1
<1>12. ASSUME NEW p \in Runs, NEW s \in Stores, collect_unpaid_charge(p, s)
     PROVE CountedOncePerDay'
  <2>1. UNCHANGED <<created, crowded, strayed, early>>
    BY <1>12 DEF collect_unpaid_charge, Collects, Due, editVars, termsVars, rowVars,
       countVars, runVars, countHistory, runHistory
  <2> QED BY <2>1
<1>13. ASSUME NEW p \in Runs, NEW s \in Stores, into_finished_payment(p, s)
     PROVE CountedOncePerDay'
  <2>1. UNCHANGED <<created, crowded, strayed, early>>
    BY <1>13 DEF into_finished_payment, Collects, editVars, termsVars, rowVars, countVars,
       runVars, countHistory, runHistory
  <2> QED BY <2>1
<1>14. ASSUME NEW p \in Runs, NEW s \in Stores, lose_collection(p, s)
     PROVE CountedOncePerDay'
  <2>1. UNCHANGED <<created, crowded, strayed, early>>
    BY <1>14 DEF lose_collection, Collects, Due, editVars, termsVars, rowVars, countVars,
       runVars, countHistory, runHistory
  <2> QED BY <2>1
<1>15. ASSUME NEW p \in Runs, record_payments(p) PROVE CountedOncePerDay'
  <2>1. UNCHANGED <<created, crowded, strayed>> /\ early \subseteq early'
    BY <1>15 DEF record_payments
  <2> QED BY <2>1, CountedKept
<1>16. ASSUME NEW p \in Runs, abandon_run(p) PROVE CountedOncePerDay'
  <2>1. UNCHANGED <<created, crowded, strayed, early>>
    BY <1>16 DEF abandon_run, EndRun, editVars, termsVars, rowVars, countVars, runVars,
       countHistory, runHistory
  <2> QED BY <2>1
<1>17. CASE UNCHANGED vars
  BY <1>17 DEF vars
<1>18. ASSUME NEW k \in Counts, NEW s \in Stores, count_store(k, s)
     PROVE CountedOncePerDay'
  <2>1. UNCHANGED <<created, early>> /\ crowded \subseteq crowded' /\ strayed \subseteq strayed'
    BY <1>18 DEF count_store
  <2> HIDE DEF CountedOncePerDay
  <2> QED BY <2>1, CountedKept
<1> HIDE StoreSubscriptionsAssumption, SubscriptionsAssumption DEF Inv, ClockInv,
      CountInv, CountedOncePerDay, Counting, RowsOf, TypeOK, TermsTypeOK, RunGoes,
      editVars, termsVars, rowVars, countVars, runVars, countHistory, runHistory, Rows, Methods,
      Outcomes
<1> QED
  BY <1>1, <1>2, <1>3, <1>4, <1>5, <1>6, <1>7, <1>8, <1>9, <1>10, <1>11, <1>12, <1>13,
     <1>14, <1>15, <1>16, <1>17, <1>18 DEF Next, EditTerms, TermsNext, Count, Run

\* Every step keeps what the runs have read.
LEMMA BatchNext == Inv /\ [Next]_vars => BatchInv'
<1> SUFFICES ASSUME Inv, [Next]_vars PROVE BatchInv'
  OBVIOUS
<1> USE StoreSubscriptionsAssumption, SubscriptionsAssumption DEF Inv, RunInv, BatchInv,
      ClockInv, unpaid, RowsOf, payment_preparation, TypeOK, TermsTypeOK, RunGoes,
      editVars, termsVars, rowVars, countVars, runVars, countHistory, runHistory, Rows, Methods,
      Outcomes
<1>1. ASSUME Tick PROVE BatchInv'
  <2>1. UNCHANGED <<created, runVars>>
    BY <1>1 DEF Tick, editVars, termsVars, rowVars, countVars, runVars, countHistory, runHistory
  <2> QED BY <2>1
<1>2. ASSUME NEW e \in Edits, NEW s \in Stores, NEW cur \in Currencies, create_store_subscription(e, s, cur), UNCHANGED <<now, rowVars, countVars, runVars, countHistory, runHistory>>
     PROVE BatchInv'
  <2>1. UNCHANGED <<created, runVars>>
    BY <1>2 DEF create_store_subscription, Asks, editVars, termsVars, rowVars, countVars,
       runVars, countHistory, runHistory
  <2> QED BY <2>1
<1>3. ASSUME NEW e \in Edits, insert_terms(e), UNCHANGED <<now, rowVars, countVars, runVars, countHistory, runHistory>>
     PROVE BatchInv'
  <2>1. UNCHANGED <<created, runVars>>
    BY <1>3 DEF insert_terms, Ends, NewStoreSubscription, editVars, termsVars, rowVars,
       countVars, runVars, countHistory, runHistory
  <2> QED BY <2>1
<1>4. ASSUME NEW e \in Edits, NEW s \in Stores, NEW pl \in Payloads, update_store_subscription(e, s, pl[1], pl[2]), UNCHANGED <<now, rowVars, countVars, runVars, countHistory, runHistory>>
     PROVE BatchInv'
  <2>1. UNCHANGED <<created, runVars>>
    BY <1>4 DEF update_store_subscription, Asks, Decided, editVars, termsVars, rowVars,
       countVars, runVars, countHistory, runHistory
  <2> QED BY <2>1
<1>5. ASSUME NEW e \in Edits, update_terms(e), UNCHANGED <<now, rowVars, countVars, runVars, countHistory, runHistory>>
     PROVE BatchInv'
  <2>1. UNCHANGED <<created, runVars>>
    BY <1>5 DEF update_terms, Ends, Updated, Or, editVars, termsVars, rowVars, countVars,
       runVars, countHistory, runHistory
  <2> QED BY <2>1
<1>6. ASSUME NEW e \in Edits, abandon_edit(e), UNCHANGED <<now, rowVars, countVars, runVars, countHistory, runHistory>>
     PROVE BatchInv'
  <2>1. UNCHANGED <<created, runVars>>
    BY <1>6 DEF abandon_edit, Ends, editVars, termsVars, rowVars, countVars, runVars,
       countHistory, runHistory
  <2> QED BY <2>1
<1>7. ASSUME NEW k \in Counts, NEW S \in SUBSET Stores, NEW t \in Readings, create_all(k, S, t) PROVE BatchInv'
  <2>1. UNCHANGED <<created, runVars>>
    BY <1>7 DEF create_all, editVars, termsVars, rowVars, countVars, runVars, countHistory, runHistory
  <2> QED BY <2>1
<1>8. ASSUME NEW k \in Counts, commit_all(k) PROVE BatchInv'
  BY <1>8 DEF commit_all, EndCount, GivesTerms, NewStoreSubscription
<1>9. ASSUME NEW k \in Counts, roll_back(k) PROVE BatchInv'
  <2>1. UNCHANGED <<created, runVars>>
    BY <1>9 DEF roll_back, EndCount, editVars, termsVars, rowVars, countVars, runVars,
       countHistory, runHistory
  <2> QED BY <2>1
<1>10. ASSUME NEW p \in Runs, NEW t \in Readings, pay_subscriptions(p, t) PROVE BatchInv'
  <2>1. UNCHANGED <<termsVars, now, rowVars, countVars, outcome, charges, countHistory,
                    early, lost, unconfirmed>>
    BY <1>10 DEF pay_subscriptions
  <2>2. CASE pstep[p] = "new" /\ pstep' = [pstep EXCEPT ![p] = "done"]
             /\ UNCHANGED <<batch, method, overlapped>>
    BY <2>1, <2>2
  <2>3. CASE \E U \in SUBSET Rows, M \in [Stores -> Methods] :
                /\ pstep[p] = "new" /\ pstep' = [pstep EXCEPT ![p] = "collect"]
                /\ batch' = [batch EXCEPT ![p] = U]
                /\ method' = [method EXCEPT ![p] = M]
                /\ overlapped' \in SUBSET Rows
                /\ overlapped \subseteq overlapped'
                /\ \A r \in U : /\ M[r[2]] # "none" /\ r[2] \in Stores
                                /\ created[r] # None /\ payment[r] = None
                /\ \A r \in U, q \in Runs : r \in Collecting(q) => r \in overlapped'
    <3>0. PICK U \in SUBSET Rows, M \in [Stores -> Methods] :
             /\ pstep[p] = "new" /\ pstep' = [pstep EXCEPT ![p] = "collect"]
             /\ batch' = [batch EXCEPT ![p] = U]
             /\ method' = [method EXCEPT ![p] = M]
             /\ overlapped' \in SUBSET Rows
             /\ overlapped \subseteq overlapped'
             /\ \A r \in U : /\ M[r[2]] # "none" /\ r[2] \in Stores
                             /\ created[r] # None /\ payment[r] = None
             /\ \A r \in U, q \in Runs : r \in Collecting(q) => r \in overlapped'
      BY <2>3
    <3> QED BY <2>1, <3>0
  <2> QED BY <1>10, <2>2, <2>3, PayStep
<1>11. ASSUME NEW p \in Runs, NEW s \in Stores, collect_subscription(p, s) PROVE BatchInv'
  BY <1>11 DEF collect_subscription, Collects, Due
<1>12. ASSUME NEW p \in Runs, NEW s \in Stores, collect_unpaid_charge(p, s) PROVE BatchInv'
  BY <1>12 DEF collect_unpaid_charge, Collects, Due
<1>13. ASSUME NEW p \in Runs, NEW s \in Stores, into_finished_payment(p, s) PROVE BatchInv'
  BY <1>13 DEF into_finished_payment, Collects
<1>14. ASSUME NEW p \in Runs, NEW s \in Stores, lose_collection(p, s) PROVE BatchInv'
  BY <1>14 DEF lose_collection, Collects, Due
<1>15. ASSUME NEW p \in Runs, record_payments(p) PROVE BatchInv'
  BY <1>15 DEF record_payments, EndRun
<1>16. ASSUME NEW p \in Runs, abandon_run(p) PROVE BatchInv'
  BY <1>16 DEF abandon_run, EndRun
<1>17. CASE UNCHANGED vars
  BY <1>17 DEF vars
<1>18. ASSUME NEW k \in Counts, NEW s \in Stores, count_store(k, s) PROVE BatchInv'
  <2>1. UNCHANGED <<created, runVars>>
    BY <1>18 DEF count_store, editVars, termsVars, rowVars, countVars, runVars, countHistory, runHistory
  <2> QED BY <2>1
<1> HIDE StoreSubscriptionsAssumption, SubscriptionsAssumption DEF Inv, RunInv, BatchInv,
      ClockInv, unpaid, RowsOf, payment_preparation, TypeOK, TermsTypeOK, RunGoes,
      editVars, termsVars, rowVars, countVars, runVars, countHistory, runHistory, Rows, Methods,
      Outcomes
<1> QED
  BY <1>1, <1>2, <1>3, <1>4, <1>5, <1>6, <1>7, <1>8, <1>9, <1>10, <1>11, <1>12, <1>13,
     <1>14, <1>15, <1>16, <1>17, <1>18 DEF Next, EditTerms, TermsNext, Count, Run

\* Every step keeps one run at a time for a row that is not settled.
LEMMA HolderNext == Inv /\ [Next]_vars => HolderInv'
<1> SUFFICES ASSUME Inv, [Next]_vars PROVE HolderInv'
  OBVIOUS
<1> USE StoreSubscriptionsAssumption, SubscriptionsAssumption DEF Inv, RunInv,
      HolderInv, Collecting, unpaid, RowsOf, TypeOK, TermsTypeOK, RunGoes, editVars,
      termsVars, rowVars, countVars, runVars, countHistory, runHistory, Rows, Methods, Outcomes
<1>1. ASSUME Tick PROVE HolderInv'
  <2>1. UNCHANGED <<payment, pstep, batch, overlapped>>
    BY <1>1 DEF Tick, editVars, termsVars, rowVars, countVars, runVars, countHistory, runHistory
  <2> QED BY <2>1
<1>2. ASSUME NEW e \in Edits, NEW s \in Stores, NEW cur \in Currencies, create_store_subscription(e, s, cur), UNCHANGED <<now, rowVars, countVars, runVars, countHistory, runHistory>>
     PROVE HolderInv'
  <2>1. UNCHANGED <<payment, pstep, batch, overlapped>>
    BY <1>2 DEF create_store_subscription, Asks, editVars, termsVars, rowVars, countVars,
       runVars, countHistory, runHistory
  <2> QED BY <2>1
<1>3. ASSUME NEW e \in Edits, insert_terms(e), UNCHANGED <<now, rowVars, countVars, runVars, countHistory, runHistory>>
     PROVE HolderInv'
  <2>1. UNCHANGED <<payment, pstep, batch, overlapped>>
    BY <1>3 DEF insert_terms, Ends, NewStoreSubscription, editVars, termsVars, rowVars,
       countVars, runVars, countHistory, runHistory
  <2> QED BY <2>1
<1>4. ASSUME NEW e \in Edits, NEW s \in Stores, NEW pl \in Payloads, update_store_subscription(e, s, pl[1], pl[2]), UNCHANGED <<now, rowVars, countVars, runVars, countHistory, runHistory>>
     PROVE HolderInv'
  <2>1. UNCHANGED <<payment, pstep, batch, overlapped>>
    BY <1>4 DEF update_store_subscription, Asks, Decided, editVars, termsVars, rowVars,
       countVars, runVars, countHistory, runHistory
  <2> QED BY <2>1
<1>5. ASSUME NEW e \in Edits, update_terms(e), UNCHANGED <<now, rowVars, countVars, runVars, countHistory, runHistory>>
     PROVE HolderInv'
  <2>1. UNCHANGED <<payment, pstep, batch, overlapped>>
    BY <1>5 DEF update_terms, Ends, Updated, Or, editVars, termsVars, rowVars, countVars,
       runVars, countHistory, runHistory
  <2> QED BY <2>1
<1>6. ASSUME NEW e \in Edits, abandon_edit(e), UNCHANGED <<now, rowVars, countVars, runVars, countHistory, runHistory>>
     PROVE HolderInv'
  <2>1. UNCHANGED <<payment, pstep, batch, overlapped>>
    BY <1>6 DEF abandon_edit, Ends, editVars, termsVars, rowVars, countVars, runVars,
       countHistory, runHistory
  <2> QED BY <2>1
<1>7. ASSUME NEW k \in Counts, NEW S \in SUBSET Stores, NEW t \in Readings, create_all(k, S, t) PROVE HolderInv'
  <2>1. UNCHANGED <<payment, pstep, batch, overlapped>>
    BY <1>7 DEF create_all, editVars, termsVars, rowVars, countVars, runVars, countHistory, runHistory
  <2> QED BY <2>1
<1>8. ASSUME NEW k \in Counts, commit_all(k) PROVE HolderInv'
  <2>1. UNCHANGED <<payment, pstep, batch, overlapped>>
    BY <1>8 DEF commit_all, EndCount, GivesTerms, NewStoreSubscription, editVars, termsVars,
       rowVars, countVars, runVars, countHistory, runHistory
  <2> QED BY <2>1
<1>9. ASSUME NEW k \in Counts, roll_back(k) PROVE HolderInv'
  <2>1. UNCHANGED <<payment, pstep, batch, overlapped>>
    BY <1>9 DEF roll_back, EndCount, editVars, termsVars, rowVars, countVars, runVars,
       countHistory, runHistory
  <2> QED BY <2>1
<1>10. ASSUME NEW p \in Runs, NEW t \in Readings, pay_subscriptions(p, t) PROVE HolderInv'
  <2>1. UNCHANGED <<termsVars, now, rowVars, countVars, outcome, charges, countHistory,
                    early, lost, unconfirmed>>
    BY <1>10 DEF pay_subscriptions
  <2>2. CASE pstep[p] = "new" /\ pstep' = [pstep EXCEPT ![p] = "done"]
             /\ UNCHANGED <<batch, method, overlapped>>
    BY <2>1, <2>2
  <2>3. CASE \E U \in SUBSET Rows, M \in [Stores -> Methods] :
                /\ pstep[p] = "new" /\ pstep' = [pstep EXCEPT ![p] = "collect"]
                /\ batch' = [batch EXCEPT ![p] = U]
                /\ method' = [method EXCEPT ![p] = M]
                /\ overlapped' \in SUBSET Rows
                /\ overlapped \subseteq overlapped'
                /\ \A r \in U : /\ M[r[2]] # "none" /\ r[2] \in Stores
                                /\ created[r] # None /\ payment[r] = None
                /\ \A r \in U, q \in Runs : r \in Collecting(q) => r \in overlapped'
    <3>0. PICK U \in SUBSET Rows, M \in [Stores -> Methods] :
             /\ pstep[p] = "new" /\ pstep' = [pstep EXCEPT ![p] = "collect"]
             /\ batch' = [batch EXCEPT ![p] = U]
             /\ method' = [method EXCEPT ![p] = M]
             /\ overlapped' \in SUBSET Rows
             /\ overlapped \subseteq overlapped'
             /\ \A r \in U : /\ M[r[2]] # "none" /\ r[2] \in Stores
                             /\ created[r] # None /\ payment[r] = None
             /\ \A r \in U, q \in Runs : r \in Collecting(q) => r \in overlapped'
      BY <2>3
    <3> SUFFICES ASSUME NEW r \in Rows \ overlapped', NEW a \in Runs, NEW b \in Runs,
                        r \in Collecting(a)', r \in Collecting(b)'
                 PROVE  a = b /\ payment[r] = None
      BY <2>1
    <3>1. r \notin overlapped /\ \A q \in Runs \ {p} : Collecting(q)' = Collecting(q)
      BY <3>0
    <3>2. Collecting(p)' = U
      BY <3>0
    <3> HIDE DEF Collecting
    <3>3. CASE a # p /\ b # p
      BY <3>1, <3>3
    <3>4. CASE a = p \/ b = p
      BY <3>1, <3>2, <3>0, <3>4
    <3> QED BY <3>3, <3>4
  <2> QED BY <1>10, <2>2, <2>3, PayStep
<1>11. ASSUME NEW p \in Runs, NEW s \in Stores, collect_subscription(p, s) PROVE HolderInv'
  <2>1. UNCHANGED <<payment, pstep, batch, overlapped>>
    BY <1>11 DEF collect_subscription, Collects, Due, editVars, termsVars, rowVars, countVars,
       runVars, countHistory, runHistory
  <2> QED BY <2>1
<1>12. ASSUME NEW p \in Runs, NEW s \in Stores, collect_unpaid_charge(p, s)
     PROVE HolderInv'
  <2>1. UNCHANGED <<payment, pstep, batch, overlapped>>
    BY <1>12 DEF collect_unpaid_charge, Collects, Due, editVars, termsVars, rowVars,
       countVars, runVars, countHistory, runHistory
  <2> QED BY <2>1
<1>13. ASSUME NEW p \in Runs, NEW s \in Stores, into_finished_payment(p, s)
     PROVE HolderInv'
  <2>1. UNCHANGED <<payment, pstep, batch, overlapped>>
    BY <1>13 DEF into_finished_payment, Collects, editVars, termsVars, rowVars, countVars,
       runVars, countHistory, runHistory
  <2> QED BY <2>1
<1>14. ASSUME NEW p \in Runs, NEW s \in Stores, lose_collection(p, s) PROVE HolderInv'
  <2>1. UNCHANGED <<payment, pstep, batch, overlapped>>
    BY <1>14 DEF lose_collection, Collects, Due, editVars, termsVars, rowVars, countVars,
       runVars, countHistory, runHistory
  <2> QED BY <2>1
<1>15. ASSUME NEW p \in Runs, record_payments(p) PROVE HolderInv'
  BY <1>15 DEF record_payments, EndRun
<1>16. ASSUME NEW p \in Runs, abandon_run(p) PROVE HolderInv'
  BY <1>16 DEF abandon_run, EndRun
<1>17. CASE UNCHANGED vars
  BY <1>17 DEF vars
<1>18. ASSUME NEW k \in Counts, NEW s \in Stores, count_store(k, s) PROVE HolderInv'
  <2>1. UNCHANGED <<payment, pstep, batch, overlapped>>
    BY <1>18 DEF count_store, editVars, termsVars, rowVars, countVars, runVars, countHistory, runHistory
  <2> QED BY <2>1
<1> HIDE StoreSubscriptionsAssumption, SubscriptionsAssumption DEF Inv, RunInv,
      HolderInv, Collecting, unpaid, RowsOf, TypeOK, TermsTypeOK, RunGoes, editVars,
      termsVars, rowVars, countVars, runVars, countHistory, runHistory, Rows, Methods, Outcomes
<1> QED
  BY <1>1, <1>2, <1>3, <1>4, <1>5, <1>6, <1>7, <1>8, <1>9, <1>10, <1>11, <1>12, <1>13,
     <1>14, <1>15, <1>16, <1>17, <1>18 DEF Next, EditTerms, TermsNext, Count, Run

\* Every step keeps the run that settled a row.
LEMMA RecordNext == Inv /\ [Next]_vars => RecordInv'
<1> SUFFICES ASSUME Inv, [Next]_vars PROVE RecordInv'
  OBVIOUS
<1> USE StoreSubscriptionsAssumption, SubscriptionsAssumption DEF Inv, RunInv,
      RecordInv, BatchInv, TypeOK, TermsTypeOK, RunGoes, editVars, termsVars, rowVars,
      countVars, runVars, countHistory, runHistory, Rows, Methods, Outcomes
<1>1. ASSUME Tick PROVE RecordInv'
  <2>1. UNCHANGED <<payment, pstep, outcome>>
    BY <1>1 DEF Tick, editVars, termsVars, rowVars, countVars, runVars, countHistory, runHistory
  <2> QED BY <2>1
<1>2. ASSUME NEW e \in Edits, NEW s \in Stores, NEW cur \in Currencies, create_store_subscription(e, s, cur), UNCHANGED <<now, rowVars, countVars, runVars, countHistory, runHistory>>
     PROVE RecordInv'
  <2>1. UNCHANGED <<payment, pstep, outcome>>
    BY <1>2 DEF create_store_subscription, Asks, editVars, termsVars, rowVars, countVars,
       runVars, countHistory, runHistory
  <2> QED BY <2>1
<1>3. ASSUME NEW e \in Edits, insert_terms(e), UNCHANGED <<now, rowVars, countVars, runVars, countHistory, runHistory>>
     PROVE RecordInv'
  <2>1. UNCHANGED <<payment, pstep, outcome>>
    BY <1>3 DEF insert_terms, Ends, NewStoreSubscription, editVars, termsVars, rowVars,
       countVars, runVars, countHistory, runHistory
  <2> QED BY <2>1
<1>4. ASSUME NEW e \in Edits, NEW s \in Stores, NEW pl \in Payloads, update_store_subscription(e, s, pl[1], pl[2]), UNCHANGED <<now, rowVars, countVars, runVars, countHistory, runHistory>>
     PROVE RecordInv'
  <2>1. UNCHANGED <<payment, pstep, outcome>>
    BY <1>4 DEF update_store_subscription, Asks, Decided, editVars, termsVars, rowVars,
       countVars, runVars, countHistory, runHistory
  <2> QED BY <2>1
<1>5. ASSUME NEW e \in Edits, update_terms(e), UNCHANGED <<now, rowVars, countVars, runVars, countHistory, runHistory>>
     PROVE RecordInv'
  <2>1. UNCHANGED <<payment, pstep, outcome>>
    BY <1>5 DEF update_terms, Ends, Updated, Or, editVars, termsVars, rowVars, countVars,
       runVars, countHistory, runHistory
  <2> QED BY <2>1
<1>6. ASSUME NEW e \in Edits, abandon_edit(e), UNCHANGED <<now, rowVars, countVars, runVars, countHistory, runHistory>>
     PROVE RecordInv'
  <2>1. UNCHANGED <<payment, pstep, outcome>>
    BY <1>6 DEF abandon_edit, Ends, editVars, termsVars, rowVars, countVars, runVars,
       countHistory, runHistory
  <2> QED BY <2>1
<1>7. ASSUME NEW k \in Counts, NEW S \in SUBSET Stores, NEW t \in Readings, create_all(k, S, t) PROVE RecordInv'
  <2>1. UNCHANGED <<payment, pstep, outcome>>
    BY <1>7 DEF create_all, editVars, termsVars, rowVars, countVars, runVars, countHistory, runHistory
  <2> QED BY <2>1
<1>8. ASSUME NEW k \in Counts, commit_all(k) PROVE RecordInv'
  <2>1. UNCHANGED <<payment, pstep, outcome>>
    BY <1>8 DEF commit_all, EndCount, GivesTerms, NewStoreSubscription, editVars, termsVars,
       rowVars, countVars, runVars, countHistory, runHistory
  <2> QED BY <2>1
<1>9. ASSUME NEW k \in Counts, roll_back(k) PROVE RecordInv'
  <2>1. UNCHANGED <<payment, pstep, outcome>>
    BY <1>9 DEF roll_back, EndCount, editVars, termsVars, rowVars, countVars, runVars,
       countHistory, runHistory
  <2> QED BY <2>1
<1>10. ASSUME NEW p \in Runs, NEW t \in Readings, pay_subscriptions(p, t) PROVE RecordInv'
  BY <1>10 DEF pay_subscriptions, create_payment_preparations
<1>11. ASSUME NEW p \in Runs, NEW s \in Stores, collect_subscription(p, s) PROVE RecordInv'
  BY <1>11 DEF collect_subscription, Collects, Due
<1>12. ASSUME NEW p \in Runs, NEW s \in Stores, collect_unpaid_charge(p, s)
     PROVE RecordInv'
  BY <1>12 DEF collect_unpaid_charge, Collects, Due
<1>13. ASSUME NEW p \in Runs, NEW s \in Stores, into_finished_payment(p, s)
     PROVE RecordInv'
  BY <1>13 DEF into_finished_payment, Collects
<1>14. ASSUME NEW p \in Runs, NEW s \in Stores, lose_collection(p, s) PROVE RecordInv'
  BY <1>14 DEF lose_collection, Collects, Due
<1>15. ASSUME NEW p \in Runs, record_payments(p) PROVE RecordInv'
  BY <1>15 DEF record_payments, EndRun
<1>16. ASSUME NEW p \in Runs, abandon_run(p) PROVE RecordInv'
  BY <1>16 DEF abandon_run, EndRun
<1>17. CASE UNCHANGED vars
  BY <1>17 DEF vars
<1>18. ASSUME NEW k \in Counts, NEW s \in Stores, count_store(k, s) PROVE RecordInv'
  <2>1. UNCHANGED <<payment, pstep, outcome>>
    BY <1>18 DEF count_store, editVars, termsVars, rowVars, countVars, runVars, countHistory, runHistory
  <2> QED BY <2>1
<1> HIDE StoreSubscriptionsAssumption, SubscriptionsAssumption DEF Inv, RunInv,
      RecordInv, BatchInv, TypeOK, TermsTypeOK, RunGoes, editVars, termsVars, rowVars,
      countVars, runVars, countHistory, runHistory, Rows, Methods, Outcomes
<1> QED
  BY <1>1, <1>2, <1>3, <1>4, <1>5, <1>6, <1>7, <1>8, <1>9, <1>10, <1>11, <1>12, <1>13,
     <1>14, <1>15, <1>16, <1>17, <1>18 DEF Next, EditTerms, TermsNext, Count, Run

\* Every step keeps what was collected for a row.
LEMMA ChargeNext == Inv /\ [Next]_vars => ChargeInv'
<1> SUFFICES ASSUME Inv, [Next]_vars PROVE ChargeInv'
  OBVIOUS
<1> USE StoreSubscriptionsAssumption, SubscriptionsAssumption DEF Inv, RunInv,
      ChargeInv, HolderInv, RecordInv, BatchInv, Collecting, Collected, unpaid, RowsOf,
      TypeOK, TermsTypeOK, RunGoes, editVars, termsVars, rowVars, countVars, runVars,
      countHistory, runHistory, Rows, Methods, Outcomes
<1>1. ASSUME Tick PROVE ChargeInv'
  <2>1. UNCHANGED <<payment, pstep, batch, outcome, charges, overlapped, lost, unconfirmed>>
    BY <1>1 DEF Tick, editVars, termsVars, rowVars, countVars, runVars, countHistory, runHistory
  <2> QED BY <2>1
<1>2. ASSUME NEW e \in Edits, NEW s \in Stores, NEW cur \in Currencies, create_store_subscription(e, s, cur), UNCHANGED <<now, rowVars, countVars, runVars, countHistory, runHistory>>
     PROVE ChargeInv'
  <2>1. UNCHANGED <<payment, pstep, batch, outcome, charges, overlapped, lost, unconfirmed>>
    BY <1>2 DEF create_store_subscription, Asks, editVars, termsVars, rowVars, countVars,
       runVars, countHistory, runHistory
  <2> QED BY <2>1
<1>3. ASSUME NEW e \in Edits, insert_terms(e), UNCHANGED <<now, rowVars, countVars, runVars, countHistory, runHistory>>
     PROVE ChargeInv'
  <2>1. UNCHANGED <<payment, pstep, batch, outcome, charges, overlapped, lost, unconfirmed>>
    BY <1>3 DEF insert_terms, Ends, NewStoreSubscription, editVars, termsVars, rowVars,
       countVars, runVars, countHistory, runHistory
  <2> QED BY <2>1
<1>4. ASSUME NEW e \in Edits, NEW s \in Stores, NEW pl \in Payloads, update_store_subscription(e, s, pl[1], pl[2]), UNCHANGED <<now, rowVars, countVars, runVars, countHistory, runHistory>>
     PROVE ChargeInv'
  <2>1. UNCHANGED <<payment, pstep, batch, outcome, charges, overlapped, lost, unconfirmed>>
    BY <1>4 DEF update_store_subscription, Asks, Decided, editVars, termsVars, rowVars,
       countVars, runVars, countHistory, runHistory
  <2> QED BY <2>1
<1>5. ASSUME NEW e \in Edits, update_terms(e), UNCHANGED <<now, rowVars, countVars, runVars, countHistory, runHistory>>
     PROVE ChargeInv'
  <2>1. UNCHANGED <<payment, pstep, batch, outcome, charges, overlapped, lost, unconfirmed>>
    BY <1>5 DEF update_terms, Ends, Updated, Or, editVars, termsVars, rowVars, countVars,
       runVars, countHistory, runHistory
  <2> QED BY <2>1
<1>6. ASSUME NEW e \in Edits, abandon_edit(e), UNCHANGED <<now, rowVars, countVars, runVars, countHistory, runHistory>>
     PROVE ChargeInv'
  <2>1. UNCHANGED <<payment, pstep, batch, outcome, charges, overlapped, lost, unconfirmed>>
    BY <1>6 DEF abandon_edit, Ends, editVars, termsVars, rowVars, countVars, runVars,
       countHistory, runHistory
  <2> QED BY <2>1
<1>7. ASSUME NEW k \in Counts, NEW S \in SUBSET Stores, NEW t \in Readings, create_all(k, S, t) PROVE ChargeInv'
  <2>1. UNCHANGED <<payment, pstep, batch, outcome, charges, overlapped, lost, unconfirmed>>
    BY <1>7 DEF create_all, editVars, termsVars, rowVars, countVars, runVars, countHistory, runHistory
  <2> QED BY <2>1
<1>8. ASSUME NEW k \in Counts, commit_all(k) PROVE ChargeInv'
  <2>1. UNCHANGED <<payment, pstep, batch, outcome, charges, overlapped, lost, unconfirmed>>
    BY <1>8 DEF commit_all, EndCount, GivesTerms, NewStoreSubscription, editVars, termsVars,
       rowVars, countVars, runVars, countHistory, runHistory
  <2> QED BY <2>1
<1>9. ASSUME NEW k \in Counts, roll_back(k) PROVE ChargeInv'
  <2>1. UNCHANGED <<payment, pstep, batch, outcome, charges, overlapped, lost, unconfirmed>>
    BY <1>9 DEF roll_back, EndCount, editVars, termsVars, rowVars, countVars, runVars,
       countHistory, runHistory
  <2> QED BY <2>1
<1>10. ASSUME NEW p \in Runs, NEW t \in Readings, pay_subscriptions(p, t) PROVE ChargeInv'
  <2>1. UNCHANGED <<termsVars, now, rowVars, countVars, outcome, charges, countHistory,
                    early, lost, unconfirmed>>
    BY <1>10 DEF pay_subscriptions
  <2>2. CASE pstep[p] = "new" /\ pstep' = [pstep EXCEPT ![p] = "done"]
             /\ UNCHANGED <<batch, method, overlapped>>
    BY <2>1, <2>2
  <2>3. CASE \E U \in SUBSET Rows, M \in [Stores -> Methods] :
                /\ pstep[p] = "new" /\ pstep' = [pstep EXCEPT ![p] = "collect"]
                /\ batch' = [batch EXCEPT ![p] = U]
                /\ method' = [method EXCEPT ![p] = M]
                /\ overlapped' \in SUBSET Rows
                /\ overlapped \subseteq overlapped'
                /\ \A r \in U : /\ M[r[2]] # "none" /\ r[2] \in Stores
                                /\ created[r] # None /\ payment[r] = None
                /\ \A r \in U, q \in Runs : r \in Collecting(q) => r \in overlapped'
    <3>0. PICK U \in SUBSET Rows, M \in [Stores -> Methods] :
             /\ pstep[p] = "new" /\ pstep' = [pstep EXCEPT ![p] = "collect"]
             /\ batch' = [batch EXCEPT ![p] = U]
             /\ method' = [method EXCEPT ![p] = M]
             /\ overlapped' \in SUBSET Rows
             /\ overlapped \subseteq overlapped'
             /\ \A r \in U : /\ M[r[2]] # "none" /\ r[2] \in Stores
                             /\ created[r] # None /\ payment[r] = None
             /\ \A r \in U, q \in Runs : r \in Collecting(q) => r \in overlapped'
      BY <2>3
    <3> SUFFICES ASSUME NEW r \in Rows \ (overlapped' \cup lost)
                 PROVE  /\ charges[r] <= 1
                        /\ \A q \in Runs : r \in Collecting(q)' => charges[r] = Collected(q, r)
                        /\ charges[r] > 0 => payment[r] # None \/ \E q \in Runs : r \in Collecting(q)'
                        /\ payment[r] # None => charges[r] = Collected(payment[r], r)
                        /\ r \in unconfirmed => \/ payment[r] # None
                                                \/ \E q \in Runs : r \in Collecting(q)'
                                                                  /\ outcome[q][r[2]] = "Paid"
      BY <2>1
    <3>1. r \notin overlapped /\ charges[r] \in Nat
      BY <3>0
    <3>2. \A q \in Runs : r \in Collecting(q)' <=> IF q = p THEN r \in U ELSE r \in Collecting(q)
      BY <3>0
    <3>3. Collecting(p)' = U /\ Collecting(p) = {}
      BY <3>0
    <3>4. \A s \in Stores : outcome[p][s] = "none"
      BY <3>0
    <3>5. /\ charges[r] <= 1
          /\ \A q \in Runs : r \in Collecting(q) => charges[r] = Collected(q, r)
          /\ charges[r] > 0 => payment[r] # None \/ \E q \in Runs : r \in Collecting(q)
          /\ payment[r] # None => charges[r] = Collected(payment[r], r)
          /\ r \in unconfirmed => \/ payment[r] # None
                                  \/ \E q \in Runs : r \in Collecting(q)
                                                    /\ outcome[q][r[2]] = "Paid"
      BY <3>1
    <3>6. r \in U => Collected(p, r) = 0
      BY <3>4, <3>0
    <3> HIDE DEF Collected, Collecting
    <3>7. CASE r \in U
      <4>1. \A q \in Runs : r \notin Collecting(q)
        BY <3>7, <3>0
      <4>2. payment[r] = None /\ charges[r] = 0
        BY <4>1, <3>1, <3>5, <3>7, <3>0
      <4>3. \A q \in Runs : r \in Collecting(q)' => q = p
        BY <4>1, <3>2
      <4> QED BY <4>1, <4>2, <4>3, <3>2, <3>5, <3>6, <3>7
    <3>8. CASE r \notin U
      <4> QED BY <3>2, <3>3, <3>5, <3>8
    <3> QED BY <3>7, <3>8
  <2> HIDE DEF ChargeInv, HolderInv, Collected, Rows, Methods, Collecting
  <2> QED BY <1>10, <2>2, <2>3, PayStep
<1>11. ASSUME NEW p \in Runs, NEW s \in Stores, collect_subscription(p, s) PROVE ChargeInv'
  <2>1. /\ pstep[p] = "collect" /\ outcome[p][s] = "none"
        /\ outcome' = [outcome EXCEPT ![p][s] = "Paid"]
        /\ charges' = [r \in Rows |-> charges[r] + (IF r \in batch[p] /\ r[2] = s THEN 1 ELSE 0)]
        /\ UNCHANGED <<payment, pstep, batch, overlapped, lost, unconfirmed>>
    BY <1>11 DEF collect_subscription, Collects
  <2> SUFFICES ASSUME NEW r \in Rows \ (overlapped \cup lost)
               PROVE  /\ charges'[r] <= 1
                      /\ \A q \in Runs : r \in Collecting(q) => charges'[r] = Collected(q, r)'
                      /\ charges'[r] > 0 => payment[r] # None \/ \E q \in Runs : r \in Collecting(q)
                      /\ payment[r] # None => charges'[r] = Collected(payment[r], r)'
                      /\ r \in unconfirmed => \/ payment[r] # None
                                              \/ \E q \in Runs : r \in Collecting(q)
                                                                /\ outcome'[q][r[2]] = "Paid"
    BY <2>1
  <2>2. CASE r \in batch[p] /\ r[2] = s
    <3>1. r \in Collecting(p) /\ payment[r] = None /\ charges[r] = 0
      BY <2>1, <2>2
    <3>2. \A q \in Runs : r \in Collecting(q) => q = p
      BY <3>1
    <3>3. charges'[r] = 1 /\ outcome'[p][r[2]] = "Paid"
      BY <2>1, <2>2, <3>1
    <3>4. r \notin unconfirmed
      BY <3>1, <2>1, <2>2
    <3> QED BY <3>1, <3>2, <3>3, <3>4, <2>1
  <2>3. CASE ~(r \in batch[p] /\ r[2] = s)
    <3>1. charges'[r] = charges[r] /\ charges[r] \in Nat
      BY <2>1, <2>3
    <3>2. \A q \in Runs : r \in Collecting(q) => outcome'[q][r[2]] = outcome[q][r[2]]
      BY <2>1, <2>3
    <3>3. payment[r] # None => outcome'[payment[r]][r[2]] = outcome[payment[r]][r[2]]
      BY <2>1, <2>3
    <3> QED BY <3>1, <3>2, <3>3, <2>1
  <2> QED BY <2>2, <2>3
<1>12. ASSUME NEW p \in Runs, NEW s \in Stores, collect_unpaid_charge(p, s)
     PROVE ChargeInv'
  BY <1>12 DEF collect_unpaid_charge, Collects, Due
<1>13. ASSUME NEW p \in Runs, NEW s \in Stores, into_finished_payment(p, s)
     PROVE ChargeInv'
  BY <1>13 DEF into_finished_payment, Collects
<1>14. ASSUME NEW p \in Runs, NEW s \in Stores, lose_collection(p, s) PROVE ChargeInv'
  BY <1>14 DEF lose_collection, Collects, Due
<1>15. ASSUME NEW p \in Runs, record_payments(p) PROVE ChargeInv'
  <2>1. /\ pstep[p] = "collect" /\ pstep' = [pstep EXCEPT ![p] = "done"]
        /\ batch' = [batch EXCEPT ![p] = {}]
        /\ \A s \in Stores : method[p][s] # "none" => outcome[p][s] # "none"
        /\ payment' = [r \in Rows |-> IF r \in batch[p] THEN p ELSE payment[r]]
        /\ UNCHANGED <<outcome, charges, overlapped, lost, unconfirmed>>
    BY <1>15 DEF record_payments, EndRun
  <2> SUFFICES ASSUME NEW r \in Rows \ (overlapped' \cup lost')
               PROVE  /\ charges[r] <= 1
                      /\ \A q \in Runs : r \in Collecting(q)' => charges[r] = Collected(q, r)
                      /\ charges[r] > 0 => payment'[r] # None \/ \E q \in Runs : r \in Collecting(q)'
                      /\ payment'[r] # None => charges[r] = Collected(payment'[r], r)
                      /\ r \in unconfirmed => \/ payment'[r] # None
                                              \/ \E q \in Runs : r \in Collecting(q)'
                                                                /\ outcome[q][r[2]] = "Paid"
    BY <2>1
  <2>2. r \notin overlapped /\ r \notin lost /\ charges[r] \in Nat
    BY <2>1
  <2>3. Collecting(p) = batch[p] /\ Collecting(p)' = {}
    BY <2>1
  <2>4. \A q \in Runs : r \in Collecting(q)' <=> q # p /\ r \in Collecting(q)
    BY <2>1
  <2>5. /\ charges[r] <= 1
        /\ \A q \in Runs : r \in Collecting(q) => charges[r] = Collected(q, r)
        /\ charges[r] > 0 => payment[r] # None \/ \E q \in Runs : r \in Collecting(q)
        /\ payment[r] # None => charges[r] = Collected(payment[r], r)
        /\ r \in unconfirmed => \/ payment[r] # None
                                \/ \E q \in Runs : r \in Collecting(q)
                                                  /\ outcome[q][r[2]] = "Paid"
    BY <2>2
  <2>6. \A a, b \in Runs : r \in Collecting(a) /\ r \in Collecting(b)
                          => a = b /\ payment[r] = None
    BY <2>2
  <2>7. CASE r \in batch[p]
    <3>1. payment'[r] = p /\ p # None
      BY <2>1, <2>7
    <3> HIDE DEF Collecting, Collected
    <3>2. charges[r] = Collected(p, r)
      BY <2>3, <2>5, <2>7
    <3>3. \A q \in Runs : r \notin Collecting(q)'
      BY <2>3, <2>4, <2>6, <2>7
    <3> QED BY <3>1, <3>2, <3>3, <2>5
  <2>8. CASE r \notin batch[p]
    <3>1. payment'[r] = payment[r] /\ r \notin Collecting(p)
      BY <2>1, <2>3, <2>8
    <3> HIDE DEF Collecting, Collected
    <3> QED BY <3>1, <2>4, <2>5
  <2> QED BY <2>7, <2>8
<1>16. ASSUME NEW p \in Runs, abandon_run(p) PROVE ChargeInv'
  <2>1. /\ pstep[p] = "collect" /\ pstep' = [pstep EXCEPT ![p] = "done"]
        /\ batch' = [batch EXCEPT ![p] = {}]
        /\ lost' = lost \cup {r \in batch[p] : outcome[p][r[2]] = "Paid"}
        /\ UNCHANGED <<payment, outcome, charges, overlapped, unconfirmed>>
    BY <1>16 DEF abandon_run, EndRun
  <2> SUFFICES ASSUME NEW r \in Rows \ (overlapped' \cup lost')
               PROVE  /\ charges[r] <= 1
                      /\ \A q \in Runs : r \in Collecting(q)' => charges[r] = Collected(q, r)
                      /\ charges[r] > 0 => payment'[r] # None \/ \E q \in Runs : r \in Collecting(q)'
                      /\ payment'[r] # None => charges[r] = Collected(payment'[r], r)
                      /\ r \in unconfirmed => \/ payment'[r] # None
                                              \/ \E q \in Runs : r \in Collecting(q)'
                                                                /\ outcome[q][r[2]] = "Paid"
    BY <2>1
  <2>2. r \notin overlapped /\ r \notin lost /\ charges[r] \in Nat
    BY <2>1
  <2>3. Collecting(p) = batch[p] /\ Collecting(p)' = {}
    BY <2>1
  <2>4. \A q \in Runs : r \in Collecting(q)' <=> q # p /\ r \in Collecting(q)
    BY <2>1
  <2>5. /\ charges[r] <= 1
        /\ \A q \in Runs : r \in Collecting(q) => charges[r] = Collected(q, r)
        /\ charges[r] > 0 => payment[r] # None \/ \E q \in Runs : r \in Collecting(q)
        /\ payment[r] # None => charges[r] = Collected(payment[r], r)
        /\ r \in unconfirmed => \/ payment[r] # None
                                \/ \E q \in Runs : r \in Collecting(q)
                                                  /\ outcome[q][r[2]] = "Paid"
    BY <2>2
  <2>6. \A a, b \in Runs : r \in Collecting(a) /\ r \in Collecting(b)
                          => a = b /\ payment[r] = None
    BY <2>2
  <2>7. CASE r \in batch[p]
    <3>1. payment'[r] = payment[r] /\ outcome[p][r[2]] # "Paid"
      BY <2>1, <2>7
    <3>2. Collected(p, r) = 0
      BY <3>1
    <3> HIDE DEF Collecting, Collected
    <3>3. charges[r] = 0 /\ payment[r] = None
      BY <3>2, <2>3, <2>5, <2>6, <2>7
    <3>4. \A q \in Runs : r \notin Collecting(q)' /\ (r \in Collecting(q) => q = p)
      BY <2>3, <2>4, <2>6, <2>7
    <3> QED BY <3>1, <3>3, <3>4, <2>5
  <2>8. CASE r \notin batch[p]
    <3>1. payment'[r] = payment[r] /\ r \notin Collecting(p)
      BY <2>1, <2>3, <2>8
    <3> HIDE DEF Collecting, Collected
    <3> QED BY <3>1, <2>4, <2>5
  <2> QED BY <2>7, <2>8
<1>17. CASE UNCHANGED vars
  BY <1>17 DEF vars
<1>18. ASSUME NEW k \in Counts, NEW s \in Stores, count_store(k, s) PROVE ChargeInv'
  <2>1. UNCHANGED <<payment, pstep, batch, outcome, charges, overlapped, lost, unconfirmed>>
    BY <1>18 DEF count_store, editVars, termsVars, rowVars, countVars, runVars, countHistory, runHistory
  <2> QED BY <2>1
<1> HIDE StoreSubscriptionsAssumption, SubscriptionsAssumption DEF Inv, RunInv,
      ChargeInv, HolderInv, RecordInv, BatchInv, Collecting, Collected, unpaid, RowsOf,
      TypeOK, TermsTypeOK, RunGoes, editVars, termsVars, rowVars, countVars, runVars,
      countHistory, runHistory, Rows, Methods, Outcomes
<1> QED
  BY <1>1, <1>2, <1>3, <1>4, <1>5, <1>6, <1>7, <1>8, <1>9, <1>10, <1>11, <1>12, <1>13,
     <1>14, <1>15, <1>16, <1>17, <1>18 DEF Next, EditTerms, TermsNext, Count, Run

\* The invariant is inductive.
LEMMA InvNext == Inv /\ [Next]_vars => Inv'
BY TypeNext, EditNext, TermsNextConsistent, StartNext, ClockNext, CountNext, CountedNext,
   BatchNext, HolderNext, RecordNext, ChargeNext DEF Inv, RunInv

\* The invariant holds in every reachable state.
LEMMA InvAlways == Spec => []Inv
BY InvInit, InvNext, PTL DEF Spec

-----------------------------------------------------------------------------

\* The price of a store is meant in its currency unless two edits overlapped.
THEOREM TermsTheorem == Spec => []TermsConsistent
<1>1. Inv => TermsConsistent
  BY DEF Inv
<1> QED BY <1>1, InvAlways, PTL

\* A store is counted twice for a day only if two calls overlapped, a run settled
\* a count on its own day, or a call saw more than one day: on its own clock, on
\* that of the database, or while it was waiting.
THEOREM CountedTheorem == Spec => []CountedOncePerDay
<1>1. Inv => CountedOncePerDay
  BY DEF Inv
<1> QED BY <1>1, InvAlways, PTL

\* What the payment of a row says is what happened to the money.
THEOREM PaymentIsTrueTheorem == Spec => []PaymentIsTrue
<1>1. Inv => PaymentIsTrue
  BY DEF Inv, TypeOK, RunInv, RecordInv, ChargeInv, Collected, PaymentIsTrue
<1> QED BY <1>1, InvAlways, PTL

\* A run that has yet to ask a store has collected nothing for its rows, and no
\* run has settled them, unless they are excused.
LEMMA DueUnpaid ==
    ASSUME Inv, NEW p \in Runs, NEW s \in Stores, pstep[p] = "collect", outcome[p][s] = "none",
           NEW r \in Due(p, s), r \notin overlapped \cup lost
    PROVE  charges[r] = 0 /\ payment[r] = None
<1>1. r \in Rows /\ r \in Collecting(p) /\ r[2] = s
  BY DEF Due, Collecting, Inv, TypeOK
<1>2. payment[r] = None
  BY <1>1 DEF Inv, RunInv, HolderInv
<1>3. charges[r] = Collected(p, r)
  BY <1>1 DEF Inv, RunInv, ChargeInv
<1> QED BY <1>1, <1>2, <1>3 DEF Collected

\* Every step collects, settles or excuses rows as ChargeOnce allows, or leaves
\* all that alone.
LEMMA OnceStep == Inv /\ [Next]_vars => [Once!Next]_(Once!chargeVars)
<1> SUFFICES ASSUME Inv, [Next]_vars PROVE [Once!Next]_(Once!chargeVars)
  OBVIOUS
<1>a. ASSUME NEW S \in SUBSET Rows,
             Once!Charge(S) \/ Once!Settle(S) \/ Once!Reopen(S) \/ Once!Excuse(S)
      PROVE  [Once!Next]_(Once!chargeVars)
  BY <1>a, Zenon DEF Once!Next
<1>b. ASSUME UNCHANGED <<charges, payment, overlapped, lost>>
      PROVE  [Once!Next]_(Once!chargeVars)
  BY <1>b DEF Once!chargeVars
<1>c. ASSUME NEW p \in Runs PROVE batch[p] \in SUBSET Rows /\ \A s \in Stores : Due(p, s) \in SUBSET Rows
  BY DEF Inv, TypeOK, Due
<1>1. CASE Tick \/ EditTerms \/ UNCHANGED vars
  BY <1>b, <1>1 DEF Tick, EditTerms, rowVars, runVars, countHistory, runHistory, vars
<1>2. ASSUME NEW k \in Counts, Count(k) PROVE [Once!Next]_(Once!chargeVars)
  BY <1>b, <1>2 DEF Count, create_all, count_store, commit_all, roll_back, rowVars, runVars, countHistory, runHistory
<1>3. ASSUME NEW p \in Runs, NEW t \in Readings, pay_subscriptions(p, t) PROVE [Once!Next]_(Once!chargeVars)
  <2>1. UNCHANGED <<charges, payment, lost>>
    BY <1>3 DEF pay_subscriptions, rowVars
  <2>2. overlapped \subseteq overlapped' /\ overlapped' \in SUBSET Rows
    BY <1>3, PayStep DEF Inv, TypeOK
  <2>3. PICK S \in SUBSET Rows : S = overlapped'
    BY <2>2
  <2>4. Once!Excuse(S)
    BY <2>1, <2>2, <2>3 DEF Once!Excuse
  <2> QED BY <1>a, <2>4
<1>4. ASSUME NEW p \in Runs, NEW s \in Stores, NEW out, Collects(p, s, out, TRUE),
             (lost \cup overlapped)' \in {overlapped \cup lost, overlapped \cup lost \cup Due(p, s)}
      PROVE  [Once!Next]_(Once!chargeVars)
  <2>1. PICK S \in SUBSET Rows : S = Due(p, s)
    BY <1>c
  <2>2. charges' = [r \in Rows |-> charges[r] + (IF r \in S THEN 1 ELSE 0)]
    <3>1. \A r \in Rows : r \in S <=> r \in batch[p] /\ r[2] = s
      BY <2>1 DEF Due
    <3>2. charges' = [r \in Rows |-> charges[r] +
                        (IF TRUE /\ r \in batch[p] /\ r[2] = s THEN 1 ELSE 0)]
      BY <1>4 DEF Collects
    <3> QED BY <3>1, <3>2
  <2>3. \A r \in S \ (overlapped \cup lost) : charges[r] = 0 /\ payment[r] = None
    BY <1>4, <2>1, DueUnpaid DEF Collects
  <2>4. UNCHANGED payment
    BY <1>4 DEF Collects, rowVars
  <2>5. Once!Charge(S)
    BY <1>4, <2>1, <2>2, <2>3, <2>4 DEF Once!Charge
  <2> QED BY <1>a, <2>5
<1>5. ASSUME NEW p \in Runs, NEW s \in Stores, collect_subscription(p, s)
      PROVE  [Once!Next]_(Once!chargeVars)
  <2>1. Collects(p, s, "Paid", TRUE) /\ UNCHANGED lost
    BY <1>5 DEF collect_subscription
  <2>2. UNCHANGED overlapped
    BY <2>1 DEF Collects
  <2> QED BY <1>4, <2>1, <2>2
<1>6. ASSUME NEW p \in Runs, NEW s \in Stores, lose_collection(p, s)
      PROVE  [Once!Next]_(Once!chargeVars)
  <2>1. Collects(p, s, "Failed", TRUE) /\ lost' = lost \cup Due(p, s)
    BY <1>6 DEF lose_collection
  <2>2. UNCHANGED overlapped
    BY <2>1 DEF Collects
  <2>3. (lost \cup overlapped)' = overlapped \cup lost \cup Due(p, s)
    BY <2>1, <2>2
  <2> QED BY <1>4, <2>1, <2>3
<1>7. ASSUME NEW p \in Runs, NEW s \in Stores,
             collect_unpaid_charge(p, s) \/ into_finished_payment(p, s)
      PROVE  [Once!Next]_(Once!chargeVars)
  <2>1. PICK out : Collects(p, s, out, FALSE) /\ UNCHANGED lost
    BY <1>7 DEF collect_unpaid_charge, into_finished_payment
  <2>2. charges' = charges
    <3>1. charges' = [r \in Rows |-> charges[r] + 0]
      BY <2>1 DEF Collects
    <3> QED BY <3>1 DEF Inv, TypeOK
  <2> QED BY <1>b, <2>1, <2>2 DEF Collects, rowVars
<1>8. ASSUME NEW p \in Runs, record_payments(p) PROVE [Once!Next]_(Once!chargeVars)
  <2>1. PICK S \in SUBSET Rows : S = batch[p]
    BY <1>c
  <2>2. {r \in Rows : payment'[r] # None} = {r \in Rows : payment[r] # None} \cup S
    BY <1>8, <2>1, SubscriptionsAssumption DEF record_payments
  <2>3. Once!Settle(S)
    BY <1>8, <2>2 DEF record_payments, Once!Settle
  <2> QED BY <1>a, <2>3
<1>9. ASSUME NEW p \in Runs, abandon_run(p) PROVE [Once!Next]_(Once!chargeVars)
  <2>1. PICK S \in SUBSET Rows : S = {r \in batch[p] : outcome[p][r[2]] = "Paid"}
    BY <1>c
  <2>2. Once!Excuse(S)
    BY <1>9, <2>1 DEF abandon_run, rowVars, Once!Excuse
  <2> QED BY <1>a, <2>2
<1> QED BY <1>1, <1>2, <1>3, <1>5, <1>6, <1>7, <1>8, <1>9 DEF Next, Run

\* Pay runs implement ChargeOnce: for any stores, calls, runs and lengths of time
\* every counted day is collected once unless it is excused.
THEOREM DaysCollectedOnceTheorem == Spec => DaysCollectedOnce
<1>1. Init => Once!Init
  BY DEF Init, Once!Init
<1> QED BY <1>1, InvAlways, OnceStep, PTL DEF Spec, DaysCollectedOnce, Once!Spec

\* What ChargeOnce promises of every row.
LEMMA OnceAtMost == Once!Spec => []Once!AtMostOnce
<1> USE DEF Once!TypeOK, Once!AtMostOnce
<1>1. Once!Init => Once!TypeOK /\ Once!AtMostOnce
  BY DEF Once!Init
<1>2. ASSUME Once!TypeOK, Once!AtMostOnce, NEW S \in SUBSET Rows,
             Once!Charge(S) \/ Once!Settle(S) \/ Once!Reopen(S) \/ Once!Excuse(S)
      PROVE  Once!TypeOK' /\ Once!AtMostOnce'
  BY <1>2 DEF Once!Charge, Once!Settle, Once!Reopen, Once!Excuse
<1>3. Once!TypeOK /\ Once!AtMostOnce /\ [Once!Next]_(Once!chargeVars)
        => Once!TypeOK' /\ Once!AtMostOnce'
  BY <1>2 DEF Once!Next, Once!chargeVars
<1> QED BY <1>1, <1>3, PTL DEF Once!Spec

\* A store pays twice for a row only if runs overlapped or a collection was not
\* recorded.
THEOREM CollectedTwiceTheorem == Spec => []Once!AtMostOnce
BY DaysCollectedOnceTheorem, OnceAtMost, PTL DEF DaysCollectedOnce

\* Every variable has its type.
THEOREM TypeTheorem == Spec => []TypeOK
<1>1. Inv => TypeOK
  BY DEF Inv
<1> QED BY <1>1, InvAlways, PTL

=============================================================================
