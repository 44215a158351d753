------------------------------- MODULE Payouts -------------------------------
(***************************************************************************)
(* Paying sellers out: pay_out_to_seller (services/payout/mod.rs), which   *)
(* checks the orders, adds a PayoutInitiated event and then creates the    *)
(* payout, and the handler of that event (event_handling/handlers.rs),     *)
(* which has the payments gateway transfer the money and marks the payout  *)
(* completed.                                                              *)
(*                                                                         *)
(* pay_out_to_seller opens no transaction of its own, so every statement   *)
(* is a step that other requests and handlers interleave with.  Every      *)
(* request generates one payout id, so requests stand for payouts and for  *)
(* their events too.  Events are delivered by a JobQueue, which EventStore *)
(* implements.  The operators with an underscore in front of a capital are *)
(* faulty variants of the one that follows; no specification uses them.    *)
(***************************************************************************)
EXTENDS Naturals, FiniteSets

LOCAL INSTANCE FiniteSetsExt

CONSTANTS Requests,        \* pay_out_to_seller calls, one payout id each
          Orders,
          StoreOf,         \* [Orders -> stores]
          SellerCurrency,  \* [Orders -> currencies]
          TotalAmount,     \* [Orders -> Nat], minimal units
          Cryptos,         \* the currencies that classify as crypto
          BlockchainFees,  \* fees a caller may offer
          MaxAmount,       \* the largest u128 Amount
          MaxAttempts      \* config event_store.max_processing_attempts

ASSUME PayoutsAssumption ==
    /\ MaxAttempts \in Nat \ {0}
    /\ MaxAmount \in Nat
    /\ BlockchainFees \subseteq Nat
    /\ TotalAmount \in [Orders -> Nat]

VARIABLES order_state,  \* [Orders -> PaymentStates]
          step,         \* [Requests -> RequestSteps], inside pay_out_to_seller
          order_ids,    \* the orders a request pays out
          payout,       \* [Requests -> PayoutStates], the payouts table
          event,        \* state of the PayoutInitiated event
          attempts,     \* its attempt_count
          hstep,        \* [Requests -> HandlerSteps], inside its handler
          transfers,    \* [Requests -> Nat], gateway transactions with its id
          rivals,       \* history: requests between check and create when it checked
          missed        \* history: payouts whose handler ran before they existed

requestVars == <<step, order_ids, rivals>>
eventVars == <<event, attempts>>
vars == <<order_state, requestVars, payout, eventVars, hstep, transfers, missed>>

\* Of an order's PaymentState only this matters here: not due to the seller yet,
\* due, or moved on to PaidToSeller, a refund or back.
PaymentStates == {"NotYet", "PaymentToSellerNeeded", "MovedOn"}
RequestSteps == {"new", "validated", "checked", "announced", "created", "refused"}
PayoutStates == {"none", "processing", "completed"}
HandlerSteps == {"idle", "get", "lookup", "create", "mark", "ok"}

Queue == INSTANCE JobQueue WITH Jobs <- Requests, state <- event

-----------------------------------------------------------------------------
(* Reading the orders and the payouts                                      *)

\* get_by_order_ids: the given orders that some payout already covers.
PaidOut(S) == {o \in S : \E r \in Requests : payout[r] # "none" /\ o \in order_ids[r]}

get_orders_for_payout(store, currency) ==
    {o \in Orders : /\ order_state[o] = "PaymentToSellerNeeded"
                    /\ StoreOf[o] = store
                    /\ SellerCurrency[o] = currency}

\* The orders calculate_payout proposes to pay out, those get_balance adds up.
calculate_payout(store, currency) ==
    LET orders == get_orders_for_payout(store, currency) IN orders \ PaidOut(orders)

GrossAmount(S) == MapThenSumSet(LAMBDA o : TotalAmount[o], S)

validate_orders_for_payout(S, wallet_currency) ==
    /\ S # {}
    /\ wallet_currency \in Cryptos
    /\ \A o \in S : /\ order_state[o] = "PaymentToSellerNeeded"
                    /\ SellerCurrency[o] = wallet_currency

\* checked_add of the totals, checked_sub of the fee.
AmountsFit(S, fee) == GrossAmount(S) <= MaxAmount /\ fee <= GrossAmount(S)

-----------------------------------------------------------------------------

Init ==
    /\ order_state = [o \in Orders |-> "NotYet"]
    /\ step = [r \in Requests |-> "new"]
    /\ order_ids = [r \in Requests |-> {}]
    /\ payout = [r \in Requests |-> "none"]
    /\ Queue!Init
    /\ hstep = [r \in Requests |-> "idle"]
    /\ transfers = [r \in Requests |-> 0]
    /\ rivals = [r \in Requests |-> {}]
    /\ missed = {}

\* Managers move orders meanwhile.  update_order_state checks the state it read
\* and then updates by id alone, so a request that read the order earlier may
\* write its state over any later one: an order that moved on can be due again.
update_order_state(o) ==
    /\ \/ order_state' = [order_state EXCEPT ![o] = "PaymentToSellerNeeded"]
       \/ /\ order_state[o] = "PaymentToSellerNeeded"
          /\ order_state' = [order_state EXCEPT ![o] = "MovedOn"]
    /\ UNCHANGED <<requestVars, payout, eventVars, hstep, transfers, missed>>

-----------------------------------------------------------------------------
(* pay_out_to_seller, statement by statement                               *)

\* The request is over without a payout, and what it had read is forgotten.
Refuse(r) ==
    /\ step' = [step EXCEPT ![r] = "refused"]
    /\ order_ids' = [order_ids EXCEPT ![r] = {}]
    /\ rivals' = [rivals EXCEPT ![r] = {}]

\* get_many, then the checks on what it returned.
pay_out_to_seller(r, S, wallet_currency) ==
    /\ step[r] = "new"
    /\ \/ /\ validate_orders_for_payout(S, wallet_currency)
          /\ step' = [step EXCEPT ![r] = "validated"]
          /\ order_ids' = [order_ids EXCEPT ![r] = S]
          /\ UNCHANGED rivals
       \/ /\ ~validate_orders_for_payout(S, wallet_currency)
          /\ Refuse(r)
    /\ UNCHANGED <<order_state, payout, eventVars, hstep, transfers, missed>>

check_payouts_exist_Unchecked(r, fee) ==
    /\ step[r] = "validated" /\ AmountsFit(order_ids[r], fee)
    /\ step' = [step EXCEPT ![r] = "checked"]
    /\ rivals' = [rivals EXCEPT ![r] =
                    {q \in Requests : step[q] \in {"checked", "announced"}}]
    /\ UNCHANGED <<order_state, order_ids, payout, eventVars, hstep, transfers, missed>>

\* get_by_order_ids: "Payouts already exist for some orders"; then the amounts.
check_payouts_exist(r, fee) ==
    /\ step[r] = "validated"
    /\ \/ /\ PaidOut(order_ids[r]) = {} /\ AmountsFit(order_ids[r], fee)
          /\ step' = [step EXCEPT ![r] = "checked"]
          /\ rivals' = [rivals EXCEPT ![r] =
                          {q \in Requests : step[q] \in {"checked", "announced"}}]
          /\ UNCHANGED order_ids
       \/ /\ PaidOut(order_ids[r]) # {} \/ ~AmountsFit(order_ids[r], fee)
          /\ Refuse(r)
    /\ UNCHANGED <<order_state, payout, eventVars, hstep, transfers, missed>>

\* add_event(PayoutInitiated)
add_payout_event(r) ==
    /\ step[r] = "checked"
    /\ Queue!Add(r)
    /\ step' = [step EXCEPT ![r] = "announced"]
    /\ UNCHANGED <<order_state, order_ids, rivals, payout, hstep, transfers, missed>>

\* payouts_repo.create: both INSERTs in one transaction.
create(r) ==
    /\ step[r] = "announced"
    /\ payout' = [payout EXCEPT ![r] = "processing"]
    /\ step' = [step EXCEPT ![r] = "created"]
    /\ UNCHANGED <<order_state, order_ids, rivals, eventVars, hstep, transfers, missed>>

\* A crash, a database error or a refused permission ends the request; nothing
\* it did before is undone.
abandon(r) ==
    /\ step[r] \in {"validated", "checked", "announced"}
    /\ Refuse(r)
    /\ UNCHANGED <<order_state, payout, eventVars, hstep, transfers, missed>>

-----------------------------------------------------------------------------
(* handle_payout_initiated, call by call                                   *)

HandlerGoes(r, from, to) == hstep[r] = from /\ hstep' = [hstep EXCEPT ![r] = to]

start_handler(r) ==
    /\ Queue!Start(r)
    /\ HandlerGoes(r, "idle", "get")
    /\ UNCHANGED <<order_state, requestVars, payout, transfers, missed>>

handle_payout_initiated_Skipped(r) ==
    /\ HandlerGoes(r, "get", "ok")
    /\ missed' = IF payout[r] = "none" THEN missed \cup {r} ELSE missed
    /\ UNCHANGED <<order_state, requestVars, payout, eventVars, transfers>>

handle_payout_initiated(r) ==
    /\ HandlerGoes(r, "get", IF payout[r] = "processing" THEN "lookup" ELSE "ok")
    /\ missed' = IF payout[r] = "none" THEN missed \cup {r} ELSE missed
    /\ UNCHANGED <<order_state, requestVars, payout, eventVars, transfers>>

pay_out_NoLookup(r) ==
    /\ HandlerGoes(r, "lookup", "create")
    /\ UNCHANGED <<order_state, requestVars, payout, eventVars, transfers, missed>>

\* get_transaction with the payout's id
pay_out(r) ==
    /\ HandlerGoes(r, "lookup", IF transfers[r] = 0 THEN "create" ELSE "mark")
    /\ UNCHANGED <<order_state, requestVars, payout, eventVars, transfers, missed>>

create_payout_tx(r) ==
    /\ HandlerGoes(r, "create", "mark")
    /\ transfers' = [transfers EXCEPT ![r] = @ + 1]
    /\ UNCHANGED <<order_state, requestVars, payout, eventVars, missed>>

\* The gateway transferred, but its answer was lost or timed out.
create_payout_tx_lost(r) ==
    /\ HandlerGoes(r, "create", "idle")
    /\ transfers' = [transfers EXCEPT ![r] = @ + 1]
    /\ Queue!GiveBack({r})
    /\ UNCHANGED <<order_state, requestVars, payout, missed>>

\* UPDATE payouts SET completed_at = now, without a filter on the id.
mark_as_completed(r) ==
    /\ HandlerGoes(r, "mark", "ok")
    /\ payout' = [q \in Requests |-> IF payout[q] = "none" THEN "none" ELSE "completed"]
    /\ UNCHANGED <<order_state, requestVars, eventVars, transfers, missed>>

finish_handler(r) ==
    /\ Queue!Complete(r)
    /\ HandlerGoes(r, "ok", "idle")
    /\ UNCHANGED <<order_state, requestVars, payout, transfers, missed>>

\* A call fails, or the worker dies and its event is reset as stuck.
fail_handler(r) ==
    /\ hstep[r] # "idle"
    /\ HandlerGoes(r, hstep[r], "idle")
    /\ Queue!GiveBack({r})
    /\ UNCHANGED <<order_state, requestVars, payout, transfers, missed>>

-----------------------------------------------------------------------------

Request(r) ==
    \/ \E S \in SUBSET Orders, c \in Cryptos : pay_out_to_seller(r, S, c)
    \/ \E fee \in BlockchainFees : check_payouts_exist(r, fee)
    \/ add_payout_event(r)
    \/ create(r)
    \/ abandon(r)

Handler(r) ==
    \/ start_handler(r)
    \/ handle_payout_initiated(r)
    \/ pay_out(r)
    \/ create_payout_tx(r)
    \/ create_payout_tx_lost(r)
    \/ mark_as_completed(r)
    \/ finish_handler(r)
    \/ fail_handler(r)

Next ==
    \/ \E r \in Requests : Request(r) \/ Handler(r)
    \/ \E o \in Orders : update_order_state(o)

Spec == Init /\ [][Next]_vars

\* The event queue keeps starting and settling attempts; callers may stop.
FairSpec == Spec /\ \A r \in Requests : WF_vars(Handler(r))

-----------------------------------------------------------------------------
(* Properties                                                              *)

TypeOK ==
    /\ order_state \in [Orders -> PaymentStates]
    /\ step \in [Requests -> RequestSteps]
    /\ order_ids \in [Requests -> SUBSET Orders]
    /\ payout \in [Requests -> PayoutStates]
    /\ event \in [Requests -> Queue!JobStates]
    /\ attempts \in [Requests -> Nat]
    /\ hstep \in [Requests -> HandlerSteps]
    /\ transfers \in [Requests -> Nat]
    /\ rivals \in [Requests -> SUBSET Requests]
    /\ missed \in SUBSET Requests

\* pay_out asks the gateway for a transaction with the payout's id first: a
\* seller is paid at most once per payout, whatever is retried after a crash, a
\* lost answer or a failed UPDATE.
NoDoubleTransfer == \A r \in Requests : transfers[r] <= 1

\* handle_payout_initiated acts on payouts it has read: money only moves for a
\* payout that was created, and for orders that had become due to the seller.
TransferBacked ==
    \A r \in Requests : transfers[r] > 0 =>
        /\ payout[r] # "none"
        /\ order_ids[r] # {}
        /\ \A o \in order_ids[r] : order_state[o] # "NotYet"

\* A payout moves money once, and only the money of its own orders.
TransfersSound == NoDoubleTransfer /\ TransferBacked

\* pay_out_to_seller adds the event before it creates the payout: a crash
\* between the two never leaves a payout that no event will execute.
EveryPayoutAnnounced == \A r \in Requests : payout[r] # "none" => event[r] # "absent"

\* The event is done with while its payout still waits only if the handler ran
\* in the gap between add_event and create, when the payout was not there yet.
LostOnlyIfMissed ==
    \A r \in Requests : event[r] = "completed" /\ payout[r] = "processing" => r \in missed

\* The "payouts_exist" check keeps an order out of two payouts, except when one
\* request checked while the other was between its check and its create.
DoublePayoutOnlyIfConcurrent ==
    \A q, r \in Requests :
        q # r /\ payout[q] # "none" /\ payout[r] # "none" /\ order_ids[q] \cap order_ids[r] # {}
          => q \in rivals[r] \/ r \in rivals[q]

\* What calculate_payout proposes is what pay_out_to_seller accepts.
CalculatedIsPayable ==
    \A store \in {StoreOf[o] : o \in Orders}, c \in Cryptos :
        LET S == calculate_payout(store, c) IN
        S # {} => validate_orders_for_payout(S, c) /\ PaidOut(S) = {}

\* A payout whose event was not consumed too early ends up completed, or its
\* event has used up its attempts.
PayoutDecided ==
    \A r \in Requests :
        (payout[r] = "processing" /\ r \notin missed)
          ~> (payout[r] = "completed" \/ event[r] = "failed" \/ r \in missed)

\* "Mark payout with ID: {} as completed" (repos/payouts.rs:236): a payout is
\* marked completed only once its own transfer was made.
CompletedMeansPaid == \A r \in Requests : payout[r] = "completed" => transfers[r] > 0

-----------------------------------------------------------------------------
(* The inductive invariant behind the properties of Spec.                  *)

\* What a request and its event, payout and orders have in common.
RequestInv ==
    \A r \in Requests :
        /\ payout[r] # "none" <=> step[r] = "created"
        /\ step[r] \in {"new", "validated", "checked"} => event[r] = "absent"
        /\ step[r] \in {"announced", "created"} => event[r] # "absent"
        /\ step[r] \in {"validated", "checked", "announced", "created"} =>
             /\ order_ids[r] # {}
             /\ \A o \in order_ids[r] : order_state[o] # "NotYet"

\* What a handler knows at each of its calls.
HandlerInv ==
    \A r \in Requests :
        /\ hstep[r] \in {"lookup", "create", "mark"} => payout[r] # "none"
        /\ transfers[r] > 0 => payout[r] # "none"
        /\ transfers[r] <= 1
        /\ hstep[r] = "create" => transfers[r] = 0
        /\ hstep[r] = "ok" \/ event[r] = "completed" => payout[r] = "completed" \/ r \in missed

\* Two requests that passed the check with a common order were rivals.
RivalsInv ==
    \A q, r \in Requests :
        /\ q # r
        /\ step[q] \in {"checked", "announced", "created"}
        /\ step[r] \in {"checked", "announced", "created"}
        /\ order_ids[q] \cap order_ids[r] # {}
        => q \in rivals[r] \/ r \in rivals[q]

Inv == TypeOK /\ RequestInv /\ HandlerInv /\ RivalsInv

=============================================================================
