---------------------------- MODULE Subscriptions ----------------------------
(***************************************************************************)
(* Subscriptions of stores (services/subscription.rs,                      *)
(* services/subscription_payment.rs and their repos).  The subscriptions   *)
(* service asks every few seconds to count the published products of every *)
(* store, once a day, and to collect what is due; both requests are        *)
(* repeated when they time out, so they overlap.                           *)
(*                                                                         *)
(* A counting request adds at most one row per store, so <<k, s>> names    *)
(* the row that request k adds for s; a pay run makes at most one payment  *)
(* per store, so p names its payments.                                     *)
(*                                                                         *)
(* Time is counted in units of which DayLength make a day.  now is the     *)
(* database's clock, which dates rows.  A request decides with a time it   *)
(* read from its own process's clock before it was queued on the pool;     *)
(* that reading has no effect until the queued work begins, so it is       *)
(* chosen there from all that a clock may have shown so far.               *)
(***************************************************************************)
EXTENDS StoreSubscriptions

CONSTANTS Counts, Runs,    \* calls of create_all and of pay_subscriptions
          Owned,           \* stores that have a user role
          Cards,           \* stores whose owner has a Stripe customer
          DayLength, TrialTime, Periodicity, \* configuration, in units of time
          Skew,            \* how far a process may be ahead of the database's clock
          MaxTime          \* bound of the database's clock

ASSUME SubscriptionsAssumption ==
    /\ DayLength \in Nat \ {0}
    /\ TrialTime \in Nat /\ Periodicity \in Nat
    /\ Skew \in Nat /\ MaxTime \in Nat
    /\ None \notin Runs

VARIABLES now,
          created,   \* [Rows -> Nat \cup {None}], created_at
          payment,   \* [Rows -> Runs \cup {None}], subscription_payment_id
          kstep,
          kleft,     \* [Counts -> SUBSET Stores], stores a call has yet to look at
          kstores,   \* [Counts -> SUBSET Stores], stores a call will add a row for
          kfresh,    \* [Counts -> SUBSET Stores], stores to be given terms
          kstart,    \* [Counts -> SUBSET Stores], stores to be given a trial start
          kclock,    \* [Counts -> Nat], now of the request, by its own clock
          ktime,     \* [Counts -> Nat], CURRENT_TIMESTAMP of its transaction
          pstep, batch,   \* [Runs -> ...], rows a run collects
          method,    \* [Runs -> [Stores -> Methods]]
          outcome,   \* [Runs -> [Stores -> Outcomes]]
          charges,   \* [Rows -> Nat], money collected for a row
          crowded,   \* history: stores two calls were counting at once
          strayed,   \* history: rows of calls that saw more than one day
          early,     \* history: rows settled on the day they were created
          overlapped,\* history: rows read by a run while another had them
          lost,      \* history: rows collected without a record, or without an answer
          unconfirmed \* history: rows of a charge that Stripe answered as not paid

rowVars == <<created, payment>>
countVars == <<kstep, kleft, kstores, kfresh, kstart, kclock, ktime>>
runVars == <<pstep, batch, method, outcome, charges>>
countHistory == <<crowded, strayed>>
runHistory == <<early, overlapped, lost, unconfirmed>>
vars == <<termsVars, now, rowVars, countVars, runVars, countHistory, runHistory>>

Rows == Counts \X Stores
Methods == {"none", "Fiat", "Crypto", "Failed"}
Outcomes == {"none", "Paid", "Failed"}

Day(t) == t \div DayLength

Init ==
    /\ TermsInit
    /\ now = 0
    /\ created = [r \in Rows |-> None]
    /\ payment = [r \in Rows |-> None]
    /\ kstep = [k \in Counts |-> "new"]
    /\ kleft = [k \in Counts |-> {}]
    /\ kstores = [k \in Counts |-> {}]
    /\ kfresh = [k \in Counts |-> {}]
    /\ kstart = [k \in Counts |-> {}]
    /\ kclock = [k \in Counts |-> 0]
    /\ ktime = [k \in Counts |-> 0]
    /\ pstep = [p \in Runs |-> "new"]
    /\ batch = [p \in Runs |-> {}]
    /\ method = [p \in Runs |-> [s \in Stores |-> "none"]]
    /\ outcome = [p \in Runs |-> [s \in Stores |-> "none"]]
    /\ charges = [r \in Rows |-> 0]
    /\ crowded = {}
    /\ strayed = {}
    /\ early = {}
    /\ overlapped = {}
    /\ lost = {}
    /\ unconfirmed = {}

Tick ==
    /\ now < MaxTime
    /\ now' = now + 1
    /\ UNCHANGED <<termsVars, rowVars, countVars, runVars, countHistory, runHistory>>

-----------------------------------------------------------------------------
(* repos/subscription.rs                                                   *)

RowsOf(s) == {r \in Rows : r[2] = s}

\* search with paid = false: rows without a payment, paid or failed.
unpaid(s) == {r \in RowsOf(s) : created[r] # None /\ payment[r] = None}

-----------------------------------------------------------------------------
(* services/subscription.rs                                                *)

\* Utc::now() of a request: its clock may be ahead or behind, and it may have
\* waited for the pool since.
Readings == 0..(now + Skew)

\* create_all until its transaction begins, for the stores S of the payload.
create_all(k, S, t) ==
    /\ kstep[k] = "new" /\ kstep' = [kstep EXCEPT ![k] = "open"]
    /\ kleft' = [kleft EXCEPT ![k] = S]
    /\ kclock' = [kclock EXCEPT ![k] = t]
    /\ ktime' = [ktime EXCEPT ![k] = now]
    /\ UNCHANGED <<termsVars, now, rowVars, kstores, kfresh, kstart, runVars,
                   countHistory, runHistory>>

\* The store is past its trial at t, or pays in any case.
MustPay(s, t) ==
    LET start == IF terms[s] = None \/ terms[s].trial_start = None
                 THEN t ELSE terms[s].trial_start
        status == IF terms[s] = None THEN "Trial" ELSE terms[s].status
    IN  status = "Paid" \/ (status = "Trial" /\ t >= start + TrialTime)

counted_on_Never(s, t) == FALSE

counted_on(s, t) == \E r \in unpaid(s) : Day(created[r]) = Day(t)

\* Calls that are about to add a row for s.
Counting(s) == {k \in Counts : kstep[k] = "open" /\ s \in kstores[k]}

\* The call looks for a row of its own day, in a transaction of that day, on
\* that day.
OneDay(k) == Day(kclock[k]) = Day(ktime[k]) /\ Day(ktime[k]) = Day(now)

\* One round of the loop of create_all.
count_store(k, s) ==
    LET add == IF MustPay(s, kclock[k]) /\ ~counted_on(s, kclock[k]) THEN {s} ELSE {} IN
    /\ kstep[k] = "open" /\ s \in kleft[k]
    /\ kleft' = [kleft EXCEPT ![k] = @ \ {s}]
    /\ kstores' = [kstores EXCEPT ![k] = @ \cup add]
    /\ kfresh' = [kfresh EXCEPT ![k] = @ \cup {x \in {s} : terms[s] = None}]
    /\ kstart' = [kstart EXCEPT ![k] =
                    @ \cup {x \in {s} : terms[s] # None /\ terms[s].trial_start = None}]
    /\ crowded' = crowded \cup {x \in add : Counting(s) # {}}
    /\ strayed' = strayed \cup {<<k, x>> : x \in {y \in add : ~OneDay(k)}}
    /\ UNCHANGED <<termsVars, now, rowVars, kstep, kclock, ktime, runVars, runHistory>>

\* find_update_or_create_store_subscription, as far as others can see it.
GivesTerms(k) ==
    terms' = [s \in Stores |->
                IF s \in kfresh[k] THEN NewStoreSubscription("Eur", None, kclock[k])
                ELSE IF s \in kstart[k] THEN [terms[s] EXCEPT !.trial_start = kclock[k]]
                ELSE terms[s]]

EndCount(k) ==
    /\ kstep[k] = "open" /\ kstep' = [kstep EXCEPT ![k] = "done"]
    /\ kleft' = [kleft EXCEPT ![k] = {}]
    /\ kstores' = [kstores EXCEPT ![k] = {}]
    /\ kfresh' = [kfresh EXCEPT ![k] = {}]
    /\ kstart' = [kstart EXCEPT ![k] = {}]
    /\ kclock' = [kclock EXCEPT ![k] = 0]
    /\ ktime' = [ktime EXCEPT ![k] = 0]

\* A new row gets the default of its column created_at.
commit_all(k) ==
    /\ EndCount(k)
    /\ kleft[k] = {}
    /\ \A s \in kfresh[k] : terms[s] = None
    /\ GivesTerms(k)
    /\ created' = [r \in Rows |-> IF r[1] = k /\ r[2] \in kstores[k]
                                  THEN ktime[k] ELSE created[r]]
    /\ UNCHANGED <<editVars, contested, now, payment, runVars, countHistory, runHistory>>

\* The primary key of store_subscription, any other error, or the process stops.
roll_back(k) ==
    /\ EndCount(k)
    /\ UNCHANGED <<termsVars, now, rowVars, runVars, countHistory, runHistory>>

-----------------------------------------------------------------------------
(* services/subscription_payment.rs                                        *)

RunGoes(p, from, to) == pstep[p] = from /\ pstep' = [pstep EXCEPT ![p] = to]

\* Stores whose oldest unpaid row is older than the period pay all of them.
subscriptions_to_pay(t) ==
    {s \in Stores : \E r \in unpaid(s) : t > created[r] + Periodicity}

payment_preparation(s) ==
    IF terms[s].currency = "Stq"
    THEN IF terms[s].wallet # None THEN "Crypto" ELSE "Failed"
    ELSE IF s \in Cards THEN "Fiat" ELSE "Failed"

\* Rows a run has read and not yet recorded.
Collecting(p) == IF pstep[p] = "collect" THEN batch[p] ELSE {}

create_payment_preparations(p, S) ==
    /\ batch' = [batch EXCEPT ![p] = UNION {unpaid(s) : s \in S}]
    /\ method' = [method EXCEPT ![p] = [s \in Stores |-> IF s \in S THEN payment_preparation(s)
                                                          ELSE "none"]]
    /\ overlapped' = overlapped \cup
         {r \in UNION {unpaid(s) : s \in S} : \E q \in Runs : r \in Collecting(q)}

\* The request's now is t.  A store without owner fails the whole run.
pay_subscriptions(p, t) ==
    /\ IF subscriptions_to_pay(t) \subseteq Owned
       THEN /\ RunGoes(p, "new", "collect")
            /\ create_payment_preparations(p, subscriptions_to_pay(t))
       ELSE /\ RunGoes(p, "new", "done")
            /\ UNCHANGED <<batch, method, overlapped>>
    /\ UNCHANGED <<termsVars, now, rowVars, countVars, outcome, charges, countHistory,
                   early, lost, unconfirmed>>

\* The store of s was asked to pay: the outcome, whether money moved, and
\* the rows to remember in the two histories.
Collects(p, s, out, paid) ==
    /\ pstep[p] = "collect"
    /\ outcome[p][s] = "none"
    /\ outcome' = [outcome EXCEPT ![p][s] = out]
    /\ charges' = [r \in Rows |-> charges[r] +
                     (IF paid /\ r \in batch[p] /\ r[2] = s THEN 1 ELSE 0)]
    /\ UNCHANGED <<termsVars, now, rowVars, countVars, pstep, batch, method, countHistory,
                   early, overlapped>>

Due(p, s) == {r \in batch[p] : r[2] = s}

\* collect_fiat_subscription and collect_ture_subscription, answered.
collect_subscription(p, s) ==
    /\ method[p][s] \in {"Fiat", "Crypto"}
    /\ Collects(p, s, "Paid", TRUE)
    /\ UNCHANGED <<lost, unconfirmed>>

\* Any charge that is returned counts as paid; its flag is not looked at.
collect_unpaid_charge(p, s) ==
    /\ method[p][s] = "Fiat"
    /\ Collects(p, s, "Paid", FALSE)
    /\ unconfirmed' = unconfirmed \cup Due(p, s)
    /\ UNCHANGED lost

\* An error: the store could not pay, or had nothing to pay with.
into_finished_payment(p, s) ==
    /\ method[p][s] # "none"
    /\ Collects(p, s, "Failed", FALSE)
    /\ UNCHANGED <<lost, unconfirmed>>

\* The money moved and the answer was lost: an error all the same.
lose_collection(p, s) ==
    /\ method[p][s] \in {"Fiat", "Crypto"}
    /\ Collects(p, s, "Failed", TRUE)
    /\ lost' = lost \cup Due(p, s)
    /\ UNCHANGED unconfirmed

EndRun(p) ==
    /\ RunGoes(p, "collect", "done")
    /\ batch' = [batch EXCEPT ![p] = {}]
    /\ method' = [method EXCEPT ![p] = [s \in Stores |-> "none"]]

record_payments_Unpaid(p) ==
    /\ EndRun(p)
    /\ \A s \in Stores : method[p][s] # "none" => outcome[p][s] # "none"
    /\ payment' = [r \in Rows |-> IF r \in batch[p] /\ outcome[p][r[2]] = "Failed"
                                  THEN p ELSE payment[r]]
    /\ early' = early \cup {r \in batch[p] : Day(created[r]) = Day(now)}
    /\ UNCHANGED <<termsVars, now, created, countVars, outcome, charges,
                   countHistory, overlapped, lost, unconfirmed>>

\* One transaction, after all stores were asked.
record_payments(p) ==
    /\ EndRun(p)
    /\ \A s \in Stores : method[p][s] # "none" => outcome[p][s] # "none"
    /\ payment' = [r \in Rows |-> IF r \in batch[p] THEN p ELSE payment[r]]
    /\ early' = early \cup {r \in batch[p] : Day(created[r]) = Day(now)}
    /\ UNCHANGED <<termsVars, now, created, countVars, outcome, charges,
                   countHistory, overlapped, lost, unconfirmed>>

\* An error in that transaction, or the process stops.
abandon_run(p) ==
    /\ EndRun(p)
    /\ lost' = lost \cup {r \in batch[p] : outcome[p][r[2]] = "Paid"}
    /\ UNCHANGED <<termsVars, now, rowVars, countVars, outcome, charges,
                   countHistory, early, overlapped, unconfirmed>>

Count(k) ==
    \/ \E S \in SUBSET Stores \ {{}}, t \in Readings : create_all(k, S, t)
    \/ \E s \in Stores : count_store(k, s)
    \/ commit_all(k)
    \/ roll_back(k)

Run(p) ==
    \/ \E t \in Readings : pay_subscriptions(p, t)
    \/ \E s \in Stores : \/ collect_subscription(p, s)
                         \/ collect_unpaid_charge(p, s)
                         \/ into_finished_payment(p, s)
                         \/ lose_collection(p, s)
    \/ record_payments(p)
    \/ abandon_run(p)

EditTerms ==
    /\ TermsNext
    /\ UNCHANGED <<now, rowVars, countVars, runVars, countHistory, runHistory>>

Next ==
    \/ Tick
    \/ EditTerms
    \/ \E k \in Counts : Count(k)
    \/ \E p \in Runs : Run(p)

Spec == Init /\ [][Next]_vars

-----------------------------------------------------------------------------
(* Properties                                                              *)

TypeOK ==
    /\ TermsTypeOK
    /\ now \in Nat
    /\ created \in [Rows -> Nat \cup {None}]
    /\ payment \in [Rows -> Runs \cup {None}]
    /\ kstep \in [Counts -> {"new", "open", "done"}]
    /\ kleft \in [Counts -> SUBSET Stores]
    /\ kstores \in [Counts -> SUBSET Stores]
    /\ kfresh \in [Counts -> SUBSET Stores]
    /\ kstart \in [Counts -> SUBSET Stores]
    /\ kclock \in [Counts -> Nat]
    /\ ktime \in [Counts -> Nat]
    /\ pstep \in [Runs -> {"new", "collect", "done"}]
    /\ batch \in [Runs -> SUBSET Rows]
    /\ method \in [Runs -> [Stores -> Methods]]
    /\ outcome \in [Runs -> [Stores -> Outcomes]]
    /\ charges \in [Rows -> Nat]
    /\ crowded \in SUBSET Stores
    /\ strayed \in SUBSET Rows
    /\ early \in SUBSET Rows
    /\ overlapped \in SUBSET Rows
    /\ lost \in SUBSET Rows
    /\ unconfirmed \in SUBSET Rows

\* A row is settled for good by the first run that records it, failed payments
\* included: what its payment says is what happened to the store's money, unless
\* runs overlapped, an answer or a record was lost, or Stripe returned a charge
\* that was not paid; and money that was collected is recorded.
PaymentIsTrue ==
    \A r \in Rows \ (overlapped \cup lost \cup unconfirmed) :
        /\ payment[r] # None =>
             (outcome[payment[r]][r[2]] = "Paid" <=> charges[r] = 1)
        /\ charges[r] > 0 =>
             payment[r] # None \/ \E p \in Runs : r \in Collecting(p)

\* create_all looks for an unpaid row of the day its own clock showed before the
\* request was queued, and the database dates the row it adds by its own clock: a
\* store is counted twice for one day only if two calls overlapped, a run settled
\* one of the rows on the day it was created, together with older ones, or one of
\* the rows was added by a call for which the day it looked for, the day of its
\* transaction and the day it looked on were not one and the same.
CountedOncePerDay ==
    \A q, r \in Rows :
        q # r /\ q[2] = r[2] /\ created[q] # None /\ created[r] # None
              /\ Day(created[q]) = Day(created[r])
          => q[2] \in crowded \/ {q, r} \cap (early \cup strayed) # {}

\* pay_subscriptions collects from every store before it records anything, and
\* may be called again meanwhile, yet every row is collected once and never again
\* when a run has settled it, paid or failed, unless two runs had it at once or
\* its collection was not recorded.
Once == INSTANCE ChargeOnce WITH
    Items <- Rows,
    settled <- {r \in Rows : payment[r] # None},
    excused <- overlapped \cup lost

DaysCollectedOnce == Once!Spec

-----------------------------------------------------------------------------
(* The inductive invariant behind the safety properties                    *)

\* What the edits of terms have decided on.
EditInv ==
    /\ \A e \in Edits :
         /\ estep[e] \in {"insert", "update"} => estore[e] \in Stores
         /\ estep[e] = "insert" =>
              /\ change[e].currency \in Currencies
              /\ change[e].currency = "Stq" => change[e].wallet # None
         /\ estep[e] = "update" =>
              /\ terms[estore[e]] # None
              /\ change[e].value \in {None, change[e].currency}
              /\ change[e].currency = "Stq" =>
                   change[e].wallet # None \/ terms[estore[e]].wallet # None
              /\ change[e].value = None /\ estore[e] \notin contested =>
                   change[e].currency \in {None, terms[estore[e]].currency}
    /\ \A s \in Stores \ contested : \A d, e \in Editing(s) : d = e

\* A call that has not begun has decided nothing; a trial start is set only
\* where there are terms.
StartInv ==
    \A k \in Counts :
        /\ kstep[k] = "new" => kstores[k] = {} /\ kstart[k] = {}
        /\ kstep[k] = "open" => \A s \in kstart[k] : terms[s] # None

\* Rows and calls belong to the past.
ClockInv ==
    /\ \A k \in Counts : ktime[k] <= now
    /\ \A r \in Rows : created[r] # None => kstep[r[1]] = "done" /\ created[r] <= now
    /\ \A r \in Rows : payment[r] # None =>
         created[r] # None /\ (r \in early \/ Day(created[r]) < Day(now))

\* What the calls of create_all have decided on.
CountInv ==
    /\ \A k \in Counts : kstep[k] = "open" => \A s \in kstores[k] \ crowded :
         \/ <<k, s>> \in strayed
         \/ \A r \in RowsOf(s) :
              created[r] # None /\ Day(created[r]) = Day(ktime[k]) => r \in early
    /\ \A s \in Stores \ crowded : \A k, l \in Counting(s) : k = l

\* What the pay runs have read.
BatchInv ==
    \A p \in Runs :
        /\ pstep[p] = "new" => \A s \in Stores : outcome[p][s] = "none"
        /\ \A r \in batch[p] : created[r] # None /\ method[p][r[2]] # "none"

\* One run at a time collects for a row that is not settled.
HolderInv ==
    \A r \in Rows \ overlapped : \A p, q \in Runs :
        r \in Collecting(p) /\ r \in Collecting(q) => p = q /\ payment[r] = None

\* A row is settled by a run that has finished and asked its store.
RecordInv ==
    \A r \in Rows : payment[r] # None =>
        pstep[payment[r]] = "done" /\ outcome[payment[r]][r[2]] # "none"

\* What a run that asked the store of r has collected for it.
Collected(p, r) == IF outcome[p][r[2]] = "Paid" /\ r \notin unconfirmed THEN 1 ELSE 0

\* What was collected for a row, while a run has it and after it is settled.
ChargeInv ==
    \A r \in Rows \ (overlapped \cup lost) :
        /\ charges[r] <= 1
        /\ \A p \in Runs : r \in Collecting(p) => charges[r] = Collected(p, r)
        /\ charges[r] > 0 => payment[r] # None \/ \E p \in Runs : r \in Collecting(p)
        /\ payment[r] # None => charges[r] = Collected(payment[r], r)
        /\ r \in unconfirmed =>
             payment[r] # None \/ \E p \in Runs : r \in Collecting(p) /\ outcome[p][r[2]] = "Paid"

RunInv == BatchInv /\ HolderInv /\ RecordInv /\ ChargeInv

Inv ==
    /\ TypeOK /\ EditInv /\ StartInv /\ ClockInv /\ CountInv /\ RunInv
    /\ TermsConsistent /\ CountedOncePerDay

=============================================================================
