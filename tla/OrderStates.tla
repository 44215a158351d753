----------------------------- MODULE OrderStates -----------------------------
(***************************************************************************)
(* The payment state of orders (services/order.rs, repos/orders.rs) and    *)
(* the handler of PaymentIntentCapture.  Managers capture, decline or      *)
(* update an order: every request reads the row, checks the state it read  *)
(* and later writes by id, with the refund at Stripe in between.  Capture  *)
(* of a fiat order only adds an event; the handler checks again, asks      *)
(* Stripe for its fee, and writes the state and the fee in two statements. *)
(*                                                                         *)
(* Every statement or call is a step.  A capture request adds one event,   *)
(* so requests stand for their events too.  The orders are those of one    *)
(* invoice, which has one charge at Stripe; charged says that its payment  *)
(* intent has a charge_id (FiatInvoices).                                  *)
(*                                                                         *)
(* The operators with an underscore in front of a capital are faulty       *)
(* variants of the one that follows; no specification uses them.           *)
(***************************************************************************)
EXTENDS Naturals

CONSTANTS Orders, Fiat,  \* orders, and those with a seller_currency in fiat
          Requests,
          None,          \* a request that was not made yet
          MaxAttempts    \* config event_store.max_processing_attempts

ASSUME OrderStatesAssumption ==
    /\ Fiat \subseteq Orders
    /\ None \notin Orders
    /\ MaxAttempts \in Nat \ {0}

VARIABLES payment_state, \* [Orders -> PaymentStates]
          stripe_fee,    \* orders with a stripe_fee
          charged,       \* the payment intent has a charge_id
          refunds,       \* [Orders -> Nat], refunds made at Stripe
          rstep,         \* [Requests -> RequestSteps]
          rorder,        \* [Requests -> Orders \cup {None}]
          seen, target,  \* states read, and to be written, by update_order_state
          event, attempts,
          hstep,         \* [Requests -> HandlerSteps], PaymentIntentCapture
          stale,         \* history: orders written from an outdated read
          rivals,        \* history: orders refunded while another decline was checked
          interrupted,   \* history: orders left between two writes that go together
          captured       \* history: orders set Captured by the handler

orderVars == <<payment_state, stripe_fee>>
requestVars == <<rstep, rorder, seen, target>>
eventVars == <<event, attempts>>
historyVars == <<stale, rivals, interrupted, captured>>
vars == <<orderVars, charged, refunds, requestVars, eventVars, hstep, historyVars>>

PaymentStates == {"Initial", "Declined", "Captured", "RefundNeeded", "Refunded",
                  "PaidToSeller", "PaymentToSellerNeeded"}
RequestSteps == {"new", "capture", "intent", "refund", "mark", "decline", "update", "done"}
HandlerSteps == {"idle", "get", "charge", "state", "fee", "ok"}

Queue == INSTANCE JobQueue WITH Jobs <- Requests, state <- event

is_fiat(o) == o \in Fiat

check_change_order_payment_state_Any(current, new) == current # new

check_change_order_payment_state(current, new) ==
    <<current, new>> \in
        {<<"Initial", "Captured">>, <<"Initial", "Declined">>,
         <<"Captured", "RefundNeeded">>, <<"Captured", "PaymentToSellerNeeded">>,
         <<"RefundNeeded", "Refunded">>, <<"PaymentToSellerNeeded", "PaidToSeller">>}

-----------------------------------------------------------------------------

Init ==
    /\ payment_state = [o \in Orders |-> "Initial"]
    /\ stripe_fee = {}
    /\ charged = FALSE
    /\ refunds = [o \in Orders |-> 0]
    /\ rstep = [r \in Requests |-> "new"]
    /\ rorder = [r \in Requests |-> None]
    /\ seen = [r \in Requests |-> "Initial"]
    /\ target = [r \in Requests |-> "Initial"]
    /\ Queue!Init
    /\ hstep = [r \in Requests |-> "idle"]
    /\ stale = {}
    /\ rivals = {}
    /\ interrupted = {}
    /\ captured = {}

-----------------------------------------------------------------------------
(* repos/orders.rs                                                         *)

\* One row, whatever happens to it afterwards.
get(o) == payment_state[o]

\* UPDATE by id: the state it was decided on is not part of the filter.
update_state(o, read, new) ==
    /\ payment_state' = [payment_state EXCEPT ![o] = new]
    /\ stale' = IF payment_state[o] # read THEN stale \cup {o} ELSE stale

update_stripe_fee(o) == stripe_fee' = stripe_fee \cup {o}

-----------------------------------------------------------------------------
(* The webhook, see FiatInvoices                                           *)

payment_intent_charged ==
    /\ ~charged
    /\ charged' = TRUE
    /\ UNCHANGED <<orderVars, refunds, requestVars, eventVars, hstep, historyVars>>

-----------------------------------------------------------------------------
(* Requests                                                                *)

RequestGoes(r, from, to) == rstep[r] = from /\ rstep' = [rstep EXCEPT ![r] = to]

Asks(r, o, to) ==
    /\ RequestGoes(r, "new", to)
    /\ rorder' = [rorder EXCEPT ![r] = o]
    /\ UNCHANGED <<orderVars, charged, refunds, eventVars, hstep>>

order_capture(r, o) ==
    /\ Asks(r, o, IF get(o) = "Initial" THEN "capture" ELSE "done")
    /\ UNCHANGED <<seen, target, historyVars>>

\* Requests that decline o and have yet to mark it.
Declining(o) == {r \in Requests : rorder[r] = o /\ rstep[r] \in {"intent", "refund", "mark"}}

order_decline_Unchecked(r, o) ==
    /\ Asks(r, o, IF is_fiat(o) THEN "intent" ELSE "decline")
    /\ rivals' = IF is_fiat(o) /\ get(o) = "Initial" /\ Declining(o) # {}
                 THEN rivals \cup {o} ELSE rivals
    /\ UNCHANGED <<seen, target, stale, interrupted, captured>>

order_decline(r, o) ==
    /\ Asks(r, o, IF get(o) # "Initial" THEN "done"
                  ELSE IF is_fiat(o) THEN "intent" ELSE "decline")
    /\ rivals' = IF is_fiat(o) /\ get(o) = "Initial" /\ Declining(o) # {}
                 THEN rivals \cup {o} ELSE rivals
    /\ UNCHANGED <<seen, target, stale, interrupted, captured>>

\* The read and the check; the UPDATE is the next step.
update_order_state(r, o, new) ==
    /\ check_change_order_payment_state(get(o), new)
    /\ Asks(r, o, "update")
    /\ seen' = [seen EXCEPT ![r] = get(o)]
    /\ target' = [target EXCEPT ![r] = new]
    /\ UNCHANGED historyVars

refuse_update(r, o) ==
    /\ \E new \in PaymentStates : ~check_change_order_payment_state(get(o), new)
    /\ Asks(r, o, "done")
    /\ UNCHANGED <<seen, target, historyVars>>

order_capture_fiat(r) ==
    /\ RequestGoes(r, "capture", "done")
    /\ is_fiat(rorder[r])
    /\ Queue!Add(r)
    /\ UNCHANGED <<orderVars, charged, refunds, rorder, seen, target, hstep, historyVars>>

\* The last statement of a request: it writes the state it decided on.
Writes(r, from, read, new) ==
    /\ RequestGoes(r, from, "done")
    /\ update_state(rorder[r], read, new)
    /\ UNCHANGED <<stripe_fee, charged, refunds, rorder, seen, target, eventVars, hstep,
                   rivals, interrupted, captured>>

order_capture_crypto(r) ==
    ~is_fiat(rorder[r]) /\ Writes(r, "capture", "Initial", "Captured")

order_decline_crypto(r) == Writes(r, "decline", "Initial", "RefundNeeded")

write_order_state(r) == Writes(r, "update", seen[r], target[r])

\* order_decline_fiat: the charge of the invoice, refused without one.
order_decline_fiat(r) ==
    /\ RequestGoes(r, "intent", IF charged THEN "refund" ELSE "done")
    /\ UNCHANGED <<orderVars, charged, refunds, rorder, seen, target, eventVars, hstep,
                   historyVars>>

Refunded(o) == refunds' = [refunds EXCEPT ![o] = @ + 1]

\* Stripe knows the charge, not the order: nothing keeps it from refunding
\* the same order again.
refund(r) ==
    /\ RequestGoes(r, "refund", "mark")
    /\ Refunded(rorder[r])
    /\ UNCHANGED <<orderVars, charged, rorder, seen, target, eventVars, hstep, historyVars>>

set_declined_Unmarked(r) ==
    /\ RequestGoes(r, "mark", "done")
    /\ UNCHANGED <<orderVars, charged, refunds, rorder, seen, target, eventVars, hstep,
                   historyVars>>

set_declined(r) == Writes(r, "mark", "Initial", "Declined")

\* The refund was made, but its answer or the process was lost.
lose_refund(r) ==
    /\ RequestGoes(r, "refund", "done")
    /\ Refunded(rorder[r])
    /\ interrupted' = interrupted \cup {rorder[r]}
    /\ UNCHANGED <<orderVars, charged, rorder, seen, target, eventVars, hstep, stale, rivals,
                   captured>>

\* An error, or the process stops.
abandon(r) ==
    /\ rstep[r] \notin {"new", "done"}
    /\ RequestGoes(r, rstep[r], "done")
    /\ interrupted' = IF rstep[r] = "mark" THEN interrupted \cup {rorder[r]} ELSE interrupted
    /\ UNCHANGED <<orderVars, charged, refunds, rorder, seen, target, eventVars, hstep,
                   stale, rivals, captured>>

-----------------------------------------------------------------------------
(* handle_payment_intent_capture                                           *)

HandlerGoes(r, from, to) == hstep[r] = from /\ hstep' = [hstep EXCEPT ![r] = to]

start_handler(r) ==
    /\ Queue!Start(r)
    /\ HandlerGoes(r, "idle", "get")
    /\ UNCHANGED <<orderVars, charged, refunds, requestVars, historyVars>>

\* AlreadyDone counts as success.
handle_payment_intent_capture(r) ==
    /\ HandlerGoes(r, "get", IF get(rorder[r]) # "Initial" \/ rorder[r] \in stripe_fee
                             THEN "ok" ELSE "charge")
    /\ UNCHANGED <<orderVars, charged, refunds, requestVars, eventVars, historyVars>>

get_charge_Tolerant(r) ==
    /\ HandlerGoes(r, "charge", IF charged THEN "state" ELSE "ok")
    /\ UNCHANGED <<orderVars, charged, refunds, requestVars, eventVars, historyVars>>

\* get_charge and retrieve_balance_transaction: two reads at Stripe, which
\* give the fee.  A missing charge is an error: see fail_handler.
get_charge(r) ==
    /\ HandlerGoes(r, "charge", "state")
    /\ charged
    /\ UNCHANGED <<orderVars, charged, refunds, requestVars, eventVars, historyVars>>

set_captured_Finished(r) ==
    /\ HandlerGoes(r, "state", "ok")
    /\ update_state(rorder[r], "Initial", "Captured")
    /\ captured' = captured \cup {rorder[r]}
    /\ UNCHANGED <<stripe_fee, charged, refunds, requestVars, eventVars, rivals, interrupted>>

set_captured(r) ==
    /\ HandlerGoes(r, "state", "fee")
    /\ update_state(rorder[r], "Initial", "Captured")
    /\ captured' = captured \cup {rorder[r]}
    /\ UNCHANGED <<stripe_fee, charged, refunds, requestVars, eventVars, rivals, interrupted>>

set_stripe_fee(r) ==
    /\ HandlerGoes(r, "fee", "ok")
    /\ update_stripe_fee(rorder[r])
    /\ UNCHANGED <<payment_state, charged, refunds, requestVars, eventVars, historyVars>>

finish_handler(r) ==
    /\ Queue!Complete(r)
    /\ HandlerGoes(r, "ok", "idle")
    /\ UNCHANGED <<orderVars, charged, refunds, requestVars, historyVars>>

\* A call returns an error, or the worker dies and its event is reset as stuck.
fail_handler(r) ==
    /\ hstep[r] # "idle"
    /\ HandlerGoes(r, hstep[r], "idle")
    /\ Queue!GiveBack({r})
    /\ interrupted' = IF hstep[r] = "fee" THEN interrupted \cup {rorder[r]} ELSE interrupted
    /\ UNCHANGED <<orderVars, charged, refunds, requestVars, stale, rivals, captured>>

Request(r) ==
    \/ \E o \in Orders : \/ order_capture(r, o)
                         \/ order_decline(r, o)
                         \/ \E new \in PaymentStates : update_order_state(r, o, new)
                         \/ refuse_update(r, o)
    \/ order_capture_fiat(r)
    \/ order_capture_crypto(r)
    \/ order_decline_crypto(r)
    \/ write_order_state(r)
    \/ order_decline_fiat(r)
    \/ refund(r)
    \/ set_declined(r)
    \/ lose_refund(r)
    \/ abandon(r)

Handler(r) ==
    \/ start_handler(r)
    \/ handle_payment_intent_capture(r)
    \/ get_charge(r)
    \/ set_captured(r)
    \/ set_stripe_fee(r)
    \/ finish_handler(r)
    \/ fail_handler(r)

Next ==
    \/ payment_intent_charged
    \/ \E r \in Requests : Request(r) \/ Handler(r)

Spec == Init /\ [][Next]_vars

\* The event queue keeps starting and settling attempts; callers may stop.
FairSpec == Spec /\ \A r \in Requests : WF_vars(Handler(r))

-----------------------------------------------------------------------------
(* Properties                                                              *)

TypeOK ==
    /\ payment_state \in [Orders -> PaymentStates]
    /\ stripe_fee \in SUBSET Fiat
    /\ charged \in BOOLEAN
    /\ refunds \in [Orders -> Nat]
    /\ rstep \in [Requests -> RequestSteps]
    /\ rorder \in [Requests -> Orders \cup {None}]
    /\ seen \in [Requests -> PaymentStates]
    /\ target \in [Requests -> PaymentStates]
    /\ event \in [Requests -> Queue!JobStates]
    /\ attempts \in [Requests -> Nat]
    /\ hstep \in [Requests -> HandlerSteps]
    /\ stale \in SUBSET Orders
    /\ rivals \in SUBSET Orders
    /\ interrupted \in SUBSET Orders
    /\ captured \in SUBSET Orders

\* order_capture, order_decline and update_order_state check a state that may
\* have changed when update_state writes by id: an order leaves a state that
\* has no way out only by a write that was decided on an outdated read.
FinalUnlessStale ==
    [][\A o \in Orders :
         payment_state[o] \in {"Declined", "Refunded", "PaidToSeller"}
           => payment_state'[o] = payment_state[o] \/ o \in stale']_vars

\* order_decline_fiat refunds first and sets Declined afterwards, next to
\* captures, updates and other declines: an order whose buyer was refunded is
\* declined, or about to be, unless a request stopped between the two or the
\* state was written from an outdated read.
RefundAccounted ==
    \A o \in Orders : refunds[o] > 0 =>
        \/ payment_state[o] = "Declined"
        \/ \E r \in Requests : rorder[r] = o /\ rstep[r] = "mark"
        \/ o \in stale \cup interrupted

\* An order is refunded twice only if a decline was checked while another was
\* under way, or stopped after its refund.
RefundedTwiceOnlyIf ==
    \A o \in Orders : refunds[o] > 1 => o \in rivals \cup interrupted

\* handle_payment_intent_capture writes Captured and the Stripe fee in two
\* statements: an order it captured has its fee, or is about to, unless an
\* attempt stopped between the two; and a completed event left no order Initial.
FeeMissingOnlyIf ==
    /\ \A o \in captured :
         \/ o \in stripe_fee \cup interrupted
         \/ \E r \in Requests : rorder[r] = o /\ hstep[r] = "fee"
    /\ \A r \in Requests :
         event[r] = "completed" => payment_state[rorder[r]] # "Initial"

\* A capture that was accepted is decided in the end: the order leaves Initial
\* or the event runs out of attempts.
CaptureDecided ==
    \A r \in Requests, o \in Orders :
        (rorder[r] = o /\ event[r] = "pending")
          ~> (event[r] = "failed" \/ payment_state[o] # "Initial")

-----------------------------------------------------------------------------
(* The inductive invariant behind the safety properties                    *)

\* What a request and its event say of its order.
RequestInv ==
    \A r \in Requests :
        /\ rstep[r] = "new" <=> rorder[r] = None
        /\ rstep[r] \in {"intent", "refund", "mark"} => rorder[r] \in Fiat
        /\ rstep[r] = "update" => check_change_order_payment_state(seen[r], target[r])
        /\ event[r] # "absent" => rstep[r] = "done" /\ rorder[r] \in Fiat
        /\ event[r] = "in_progress" <=> hstep[r] # "idle"

\* No write leads back to Initial: whatever has left it stays known as handled.
CaptureInv ==
    /\ \A o \in captured : payment_state[o] # "Initial"
    /\ stripe_fee \subseteq captured
    /\ \A r \in Requests : hstep[r] = "fee" => rorder[r] \in captured
    /\ \A r \in Requests :
         hstep[r] = "ok" => payment_state[rorder[r]] # "Initial"

\* Without rivals and interruptions one decline at a time is past its check,
\* and the first refund ends them: later ones find another state.
DeclineInv ==
    \A o \in Orders \ (rivals \cup interrupted) :
        /\ \A r, s \in Declining(o) : r = s
        /\ refunds[o] > 0 => \A r \in Declining(o) : rstep[r] = "mark"
        /\ refunds[o] > 0 /\ payment_state[o] = "Initial" => Declining(o) # {}

Inv ==
    /\ TypeOK /\ RequestInv /\ CaptureInv /\ DeclineInv
    /\ RefundAccounted /\ RefundedTwiceOnlyIf /\ FeeMissingOnlyIf

=============================================================================
