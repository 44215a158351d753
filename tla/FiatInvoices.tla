---------------------------- MODULE FiatInvoices ----------------------------
(***************************************************************************)
(* Invoices paid by card (services/invoice.rs, services/stripe.rs,         *)
(* services/payment_intent.rs): an invoice is created with a payment       *)
(* intent at Stripe, the buyer pays the intent there, and Stripe calls a   *)
(* webhook, which becomes an event.  Its handler updates the payment       *)
(* intent and creates the fees in one transaction, then reports the orders *)
(* to saga and marks the invoice paid.  The code writes these two as       *)
(* saga_update_states.and_then(|_| set_invoice_paid), but set_invoice_paid *)
(* was spawned on the thread pool before and runs next to the call.        *)
(* PaymentExpired, scheduled when the invoice is created, reports the      *)
(* orders of an unpaid invoice as expired and cancels the intent.          *)
(*                                                                         *)
(* Every statement, transaction or call is a step.  A webhook call adds    *)
(* one event, so webhooks stand for their events, and invoices for their   *)
(* payment intents and PaymentExpired events.  Intents of invoices capture *)
(* automatically, so Stripe announces them by PaymentIntentSucceeded; the  *)
(* handler of PaymentIntentPaymentFailed does nothing and is left out.     *)
(*                                                                         *)
(* The operators with an underscore in front of a capital are faulty       *)
(* variants of the one that follows; no specification uses them.           *)
(***************************************************************************)
EXTENDS Naturals

CONSTANTS Invoices, Webhooks,
          None,         \* a webhook that was not called yet
          MaxAttempts   \* config event_store.max_processing_attempts

ASSUME FiatInvoicesAssumption ==
    /\ Invoices \cap Webhooks = {}
    /\ None \notin Invoices
    /\ MaxAttempts \in Nat \ {0}

VARIABLES cstep,         \* [Invoices -> CreateSteps], inside create_invoice_v2
          stripe,        \* [Invoices -> StripeStatuses], the intent at Stripe
          intent,        \* [Invoices -> IntentStatuses], the row of payment_intent
          fees,          \* invoices whose orders have their fees
          paid,          \* invoices with a paid_at
          order_status,  \* what saga was told last about the orders
          subject,       \* [Webhooks -> Invoices \cup {None}]
          event, attempts,
          hstep,         \* [Jobs -> HandlerSteps]
          spawned,       \* webhooks whose set_invoice_paid is on the pool
          passed,        \* history: expired while Stripe was processing a payment
          raced          \* history: reported expired while becoming paid

billingVars == <<cstep, intent, fees, paid>>
eventVars == <<event, attempts>>
historyVars == <<passed, raced>>
handlerVars == <<hstep, spawned>>
vars == <<billingVars, stripe, order_status, subject, eventVars, handlerVars, historyVars>>

CreateSteps == {"new", "intent", "scheduled", "created", "failed"}

\* "open" stands for the statuses in which is_cancellable holds.
StripeStatuses == {"none", "open", "processing", "succeeded", "canceled"}
IntentStatuses == {"none", "open", "succeeded", "canceled"}
HandlerSteps == {"idle", "get", "report", "lookup", "cancel", "mark",
                 "update", "saga", "ok"}

Jobs == Invoices \cup Webhooks
Queue == INSTANCE JobQueue WITH state <- event

Created == {i \in Invoices : cstep[i] = "created"}

-----------------------------------------------------------------------------

Init ==
    /\ cstep = [i \in Invoices |-> "new"]
    /\ stripe = [i \in Invoices |-> "none"]
    /\ intent = [i \in Invoices |-> "none"]
    /\ fees = {}
    /\ paid = {}
    /\ order_status = [i \in Invoices |-> "none"]
    /\ subject = [w \in Webhooks |-> None]
    /\ Queue!Init
    /\ hstep = [j \in Jobs |-> "idle"]
    /\ spawned = {}
    /\ passed = {}
    /\ raced = {}

-----------------------------------------------------------------------------
(* create_invoice_v2                                                       *)

CreateGoes(i, from, to) == cstep[i] = from /\ cstep' = [cstep EXCEPT ![i] = to]

create_payment_intent(i) ==
    /\ CreateGoes(i, "new", "intent")
    /\ stripe' = [stripe EXCEPT ![i] = "open"]
    /\ UNCHANGED <<intent, fees, paid, order_status, subject, eventVars, handlerVars, historyVars>>

schedule_payment_expired(i) ==
    /\ CreateGoes(i, "intent", "scheduled")
    /\ Queue!Add(i)
    /\ UNCHANGED <<intent, fees, paid, stripe, order_status, subject, handlerVars, historyVars>>

\* The transaction that inserts invoice, payment intent and orders.
create(i) ==
    /\ CreateGoes(i, "scheduled", "created")
    /\ intent' = [intent EXCEPT ![i] = "open"]
    /\ UNCHANGED <<fees, paid, stripe, order_status, subject, eventVars, handlerVars, historyVars>>

\* An error or a crash on the way.  The intent, if there is one, stays at
\* Stripe, but nobody learns its client_secret.
abandon_create(i) ==
    /\ cstep[i] \notin {"created", "failed"}
    /\ CreateGoes(i, cstep[i], "failed")
    /\ UNCHANGED <<intent, fees, paid, stripe, order_status, subject, eventVars, handlerVars,
                   historyVars>>

-----------------------------------------------------------------------------
(* The buyer at Stripe, and Stripe's webhook                               *)

StripeGoes(i, from, to) ==
    /\ i \in Created
    /\ stripe[i] = from /\ stripe' = [stripe EXCEPT ![i] = to]
    /\ UNCHANGED <<billingVars, order_status, subject, eventVars, handlerVars, historyVars>>

buyer_pays(i) == StripeGoes(i, "open", "processing")

charge_succeeds(i) == StripeGoes(i, "processing", "succeeded")

charge_fails(i) == StripeGoes(i, "processing", "open")

\* Stripe repeats the call until it is answered, and sometimes after.
handle_stripe_event(w, i) ==
    /\ subject[w] = None
    /\ stripe[i] = "succeeded"
    /\ subject' = [subject EXCEPT ![w] = i]
    /\ Queue!Add(w)
    /\ UNCHANGED <<billingVars, stripe, order_status, handlerVars, historyVars>>

-----------------------------------------------------------------------------
(* handle_payment_intent_succeeded_or_amount_capturable_updated            *)

HandlerGoes(j, from, to) == hstep[j] = from /\ hstep' = [hstep EXCEPT ![j] = to]

start_handler(j) ==
    /\ Queue!Start(j)
    /\ HandlerGoes(j, "idle", IF j \in Invoices THEN "get" ELSE "update")
    /\ UNCHANGED <<billingVars, stripe, order_status, subject, spawned, historyVars>>

payment_intent_succeeded_or_amount_capturable_updated_Resumed(w) ==
    /\ HandlerGoes(w, "update", "saga")
    /\ intent' = [intent EXCEPT ![subject[w]] = "succeeded"]
    /\ fees' = fees \cup {subject[w]}
    /\ spawned' = spawned \cup {w}
    /\ UNCHANGED <<cstep, paid, stripe, order_status, subject, eventVars, historyVars>>

payment_intent_succeeded_or_amount_capturable_updated_Tolerant(w) ==
    /\ HandlerGoes(w, "update", IF subject[w] \in fees THEN "ok" ELSE "saga")
    /\ intent' = [intent EXCEPT ![subject[w]] = "succeeded"]
    /\ fees' = fees \cup {subject[w]}
    /\ spawned' = IF subject[w] \in fees THEN spawned ELSE spawned \cup {w}
    /\ UNCHANGED <<cstep, paid, stripe, order_status, subject, eventVars, historyVars>>

\* One transaction: the status of the intent and a fee for every order.  If the
\* fees are there already it violates the unique index on fees.order_id and is
\* rolled back: an error, see fail_handler.  Then set_invoice_paid is spawned.
payment_intent_succeeded_or_amount_capturable_updated(w) ==
    /\ HandlerGoes(w, "update", "saga")
    /\ subject[w] \notin fees
    /\ intent' = [intent EXCEPT ![subject[w]] = "succeeded"]
    /\ fees' = fees \cup {subject[w]}
    /\ spawned' = spawned \cup {w}
    /\ UNCHANGED <<cstep, paid, stripe, order_status, subject, eventVars, historyVars>>

saga_update_states(w) ==
    /\ HandlerGoes(w, "saga", "ok")
    /\ order_status' = [order_status EXCEPT ![subject[w]] = "Paid"]
    /\ UNCHANGED <<billingVars, stripe, subject, eventVars, spawned, historyVars>>

\* On a thread of its own, before, during or after saga's answer.
set_amount_paid_fiat(w) ==
    /\ w \in spawned
    /\ spawned' = spawned \ {w}
    /\ paid' = paid \cup {subject[w]}
    /\ raced' = IF \/ hstep[subject[w]] = "report"
                   \/ hstep[w] = "ok" /\ order_status[subject[w]] # "Paid"
                THEN raced \cup {subject[w]}
                ELSE raced
    /\ UNCHANGED <<cstep, intent, fees, stripe, order_status, subject, eventVars, hstep, passed>>

-----------------------------------------------------------------------------
(* handle_payment_expired                                                  *)

handle_payment_expired_Always(i) ==
    /\ HandlerGoes(i, "get", "report")
    /\ i \in Created
    /\ UNCHANGED <<billingVars, stripe, order_status, subject, eventVars, spawned, historyVars>>

\* An invoice that does not exist is an error: see fail_handler.
handle_payment_expired(i) ==
    /\ HandlerGoes(i, "get", IF i \in paid THEN "ok" ELSE "report")
    /\ i \in Created
    /\ UNCHANGED <<billingVars, stripe, order_status, subject, eventVars, spawned, historyVars>>

set_orders_status(i) ==
    /\ HandlerGoes(i, "report", "lookup")
    /\ order_status' = [order_status EXCEPT ![i] = "AmountExpired"]
    /\ UNCHANGED <<billingVars, stripe, subject, eventVars, spawned, historyVars>>

cancel_payment_intent_Unchecked(i) ==
    /\ HandlerGoes(i, "lookup", "mark")
    /\ UNCHANGED <<billingVars, stripe, order_status, subject, eventVars, spawned, historyVars>>

\* cancel_payment_intent: what Stripe says of the intent decides what is next.
cancel_payment_intent(i) ==
    /\ HandlerGoes(i, "lookup", CASE stripe[i] = "open" -> "cancel"
                                  [] stripe[i] = "canceled" -> "mark"
                                  [] OTHER -> "ok")
    /\ passed' = IF stripe[i] = "processing" THEN passed \cup {i} ELSE passed
    /\ UNCHANGED <<billingVars, stripe, order_status, subject, eventVars, spawned, raced>>

stripe_cancel_Skipped(i) ==
    /\ HandlerGoes(i, "cancel", "ok")
    /\ UNCHANGED <<billingVars, stripe, order_status, subject, eventVars, spawned, historyVars>>

\* Stripe refuses unless the intent is still cancellable: an error.
stripe_cancel(i) ==
    /\ HandlerGoes(i, "cancel", "mark")
    /\ stripe[i] = "open"
    /\ stripe' = [stripe EXCEPT ![i] = "canceled"]
    /\ UNCHANGED <<billingVars, order_status, subject, eventVars, spawned, historyVars>>

update_payment_intent(i) ==
    /\ HandlerGoes(i, "mark", "ok")
    /\ intent' = [intent EXCEPT ![i] = "canceled"]
    /\ UNCHANGED <<cstep, fees, paid, stripe, order_status, subject, eventVars, spawned,
                   historyVars>>

-----------------------------------------------------------------------------

\* A handler of a charge waits for its set_invoice_paid.
finish_handler(j) ==
    /\ Queue!Complete(j)
    /\ HandlerGoes(j, "ok", "idle")
    /\ j \notin spawned
    /\ UNCHANGED <<billingVars, stripe, order_status, subject, spawned, historyVars>>

\* A failed handler drops its set_invoice_paid, which stops it only if it did
\* not begin to run; it may also be what failed.
EndAttempt(j, from) ==
    /\ HandlerGoes(j, from, "idle")
    /\ Queue!GiveBack({j})
    /\ spawned' \in {spawned, spawned \ {j}}

\* A call returns an error, or the worker dies and its event is reset as stuck.
fail_handler(j) ==
    /\ hstep[j] # "idle"
    /\ EndAttempt(j, hstep[j])
    /\ UNCHANGED <<billingVars, stripe, order_status, subject, historyVars>>

\* Saga or Stripe did what they were asked for, but the answer was lost.
lose_answer(j) ==
    /\ \/ /\ EndAttempt(j, "saga")
          /\ order_status' = [order_status EXCEPT ![subject[j]] = "Paid"]
          /\ UNCHANGED stripe
       \/ /\ EndAttempt(j, "report")
          /\ order_status' = [order_status EXCEPT ![j] = "AmountExpired"]
          /\ UNCHANGED stripe
       \/ /\ EndAttempt(j, "cancel")
          /\ stripe[j] = "open"
          /\ stripe' = [stripe EXCEPT ![j] = "canceled"]
          /\ UNCHANGED order_status
    /\ UNCHANGED <<billingVars, subject, historyVars>>

Creation(i) ==
    \/ create_payment_intent(i)
    \/ schedule_payment_expired(i)
    \/ create(i)
    \/ abandon_create(i)

Stripe(i) ==
    \/ buyer_pays(i)
    \/ charge_succeeds(i)
    \/ charge_fails(i)
    \/ \E w \in Webhooks : handle_stripe_event(w, i)

Succeeded(w) ==
    \/ payment_intent_succeeded_or_amount_capturable_updated(w)
    \/ saga_update_states(w)
    \/ set_amount_paid_fiat(w)

Expired(i) ==
    \/ handle_payment_expired(i)
    \/ set_orders_status(i)
    \/ cancel_payment_intent(i)
    \/ stripe_cancel(i)
    \/ update_payment_intent(i)

Handler(j) ==
    \/ start_handler(j)
    \/ j \in Webhooks /\ Succeeded(j)
    \/ j \in Invoices /\ Expired(j)
    \/ finish_handler(j)
    \/ fail_handler(j)
    \/ lose_answer(j)

Next ==
    \/ \E i \in Invoices : Creation(i) \/ Stripe(i)
    \/ \E j \in Jobs : Handler(j)

Spec == Init /\ [][Next]_vars

\* The event queue keeps starting and settling attempts; buyers, Stripe and
\* the callers of create_invoice_v2 may stop.
FairSpec == Spec /\ \A j \in Jobs : WF_vars(Handler(j))

-----------------------------------------------------------------------------
(* Properties                                                              *)

TypeOK ==
    /\ cstep \in [Invoices -> CreateSteps]
    /\ stripe \in [Invoices -> StripeStatuses]
    /\ intent \in [Invoices -> IntentStatuses]
    /\ fees \in SUBSET Created
    /\ paid \in SUBSET fees
    /\ order_status \in [Invoices -> {"none", "Paid", "AmountExpired"}]
    /\ subject \in [Webhooks -> Invoices \cup {None}]
    /\ event \in [Jobs -> Queue!JobStates]
    /\ attempts \in [Jobs -> Nat]
    /\ hstep \in [Jobs -> HandlerSteps]
    /\ spawned \in SUBSET Webhooks
    /\ passed \in SUBSET Invoices
    /\ raced \in SUBSET Invoices

\* update_payment_intent and cancel_payment_intent write a status that Stripe
\* had some time ago, next to each other and after retries: a final status in
\* payment_intent is the status at Stripe, and only charged invoices are paid.
IntentIsTrue ==
    \A i \in Invoices :
        /\ intent[i] \in {"succeeded", "canceled"} => intent[i] = stripe[i]
        /\ i \in paid => intent[i] = "succeeded"

\* A charge is never dropped in silence: until an invoice with fees is marked
\* paid and saga was told so, a PaymentIntentSucceeded event of it is open or
\* has failed.
NotDroppedInSilence ==
    \A i \in fees :
        \/ i \in paid /\ (order_status[i] = "Paid" \/ i \in raced)
        \/ \E w \in Webhooks :
              subject[w] = i /\ event[w] \in {"in_progress", "pending", "failed"}

\* set_invoice_paid is the only way to paid_at.
HalfDone(i) == i \in fees \ paid /\ ~ \E w \in spawned : subject[w] = i

\* The transaction with the fees cannot be repeated: once an attempt failed
\* after it and took set_invoice_paid along, no retry and no repeated webhook
\* ever marks the invoice paid.
HalfDoneIsForever == [][\A i \in Invoices : HalfDone(i) => HalfDone(i)']_vars

\* cancel_payment_intent: an intent outlives its expiry only if a charge was
\* being processed when the handler asked Stripe.
LeftOpenOnlyIfPassed ==
    \A i \in Invoices :
        event[i] = "completed" /\ i \notin paid /\ stripe[i] \in {"open", "processing"}
          => i \in passed

\* handle_payment_expired leaves paid invoices alone: the orders of a completed
\* PaymentIntentSucceeded event are known as paid, unless PaymentExpired was
\* handled between the check of paid_at and set_amount_paid_fiat.
ToldPaidUnlessRaced ==
    \A w \in Webhooks : event[w] = "completed" =>
        order_status[subject[w]] = "Paid" \/ subject[w] \in raced

\* Every intent of an invoice is charged or canceled in the end, if its
\* PaymentExpired event does not fail and no charge was in the way.
IntentSettled ==
    \A i \in Invoices :
        i \in Created
          ~> (stripe[i] \in {"succeeded", "canceled"} \/ event[i] = "failed" \/ i \in passed)

-----------------------------------------------------------------------------
(* The inductive invariant behind the safety properties                    *)

\* An event in progress has a handler at a step of its own kind, and the event
\* of a webhook names an invoice.
HandlerInv ==
    /\ \A j \in Jobs : event[j] = "in_progress" <=> hstep[j] # "idle"
    /\ \A i \in Invoices : hstep[i] \notin {"update", "saga"}
    /\ \A w \in Webhooks : hstep[w] \in {"idle", "update", "saga", "ok"}
    /\ \A w \in Webhooks : subject[w] = None <=> event[w] = "absent"

\* Only intents of created invoices are paid or canceled, and what handlers
\* know of Stripe is final.
IntentInv ==
    /\ \A i \in Invoices :
         /\ cstep[i] = "new" => stripe[i] = "none"
         /\ cstep[i] \in {"intent", "scheduled", "created"} => stripe[i] # "none"
         /\ stripe[i] \in {"processing", "succeeded", "canceled"} => i \in Created
         /\ hstep[i] \in {"report", "lookup", "cancel", "mark"} => i \in Created
         /\ hstep[i] = "mark" => stripe[i] = "canceled"
         /\ i \in fees => intent[i] = "succeeded"
    /\ \A w \in Webhooks : subject[w] # None => stripe[subject[w]] = "succeeded"

\* An invoice is charged by one webhook at most, the one that created its fees.
Charging(w) == hstep[w] \in {"saga", "ok"} \/ event[w] = "completed" \/ w \in spawned

ChargeInv ==
    /\ \A w \in Webhooks : Charging(w) => subject[w] \in fees
    /\ \A v, w \in Webhooks : Charging(v) /\ Charging(w) /\ subject[v] = subject[w] => v = w
    /\ \A i \in fees : \E w \in Webhooks : subject[w] = i

\* What its steps say of the invoice, next to PaymentExpired.
PaidInv ==
    /\ \A w \in Webhooks :
         /\ hstep[w] \in {"saga", "ok"} /\ w \notin spawned => subject[w] \in paid
         /\ event[w] = "completed" => subject[w] \in paid
         /\ (hstep[w] = "ok" \/ event[w] = "completed") /\ subject[w] \in paid
              => order_status[subject[w]] = "Paid" \/ subject[w] \in raced
    /\ \A i \in paid : hstep[i] = "report" => i \in raced

\* What the end of PaymentExpired says of the intent.
ExpiredInv ==
    \A i \in Invoices :
        hstep[i] = "ok" \/ event[i] = "completed"
          => i \in paid \/ stripe[i] \in {"succeeded", "canceled"} \/ i \in passed

Inv ==
    /\ TypeOK /\ HandlerInv /\ IntentInv /\ ChargeInv /\ PaidInv /\ ExpiredInv
    /\ IntentIsTrue

=============================================================================
