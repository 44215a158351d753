--------------------------- MODULE CryptoInvoices ---------------------------
(***************************************************************************)
(* Invoices paid in a crypto currency (services/invoice.rs): an invoice is *)
(* created with an account of the pool, the payments gateway calls back    *)
(* for every transaction the account receives, and the invoice becomes     *)
(* paid once the amount captured covers its price at the current rates.    *)
(* Two kinds of events follow it up (event_handling/handlers.rs):          *)
(* PaymentExpired, scheduled when the invoice is created, and InvoicePaid. *)
(* Both give the account back to the pool and report the orders.           *)
(*                                                                         *)
(* Every statement or transaction is a step.  A call is a callback or a    *)
(* recalculation; it publishes at most one InvoicePaid event, so calls     *)
(* stand for those events too, and invoices for their PaymentExpired.      *)
(*                                                                         *)
(* The operators with an underscore in front of a capital are faulty       *)
(* variants of the one that follows; no specification uses them.           *)
(***************************************************************************)
EXTENDS Naturals

CONSTANTS Invoices, Accounts, Calls, Txs,
          None,         \* no account, no invoice, no transaction
          AccountOf,    \* [Txs -> Accounts], where a transaction arrived
          AmountOf,     \* [Txs -> Nat], in minimal units (satoshi, wei)
          Prices,       \* what an invoice may cost at some rate, in PriceScale-ths
          PriceScale,   \* a price is finer than a minimal unit
          Precision,    \* minimal units in the last digit to_super_unit keeps
          MaxAmount,    \* the largest u128 Amount
          Orders,       \* the orders of an invoice
          MaxAttempts   \* config event_store.max_processing_attempts

ASSUME CryptoInvoicesAssumption ==
    /\ Invoices \cap Calls = {}
    /\ None \notin Invoices \cup Accounts \cup Txs
    /\ AccountOf \in [Txs -> Accounts]
    /\ AmountOf \in [Txs -> Nat]
    /\ Prices \subseteq Nat
    /\ PriceScale \in Nat \ {0}
    /\ Precision \in Nat \ {0}
    /\ MaxAmount \in Nat
    /\ Orders # {}
    /\ MaxAttempts \in Nat \ {0}

VARIABLES pooled,           \* the accounts table, pooled accounts only
          cstep,            \* [Invoices -> CreateSteps], inside create_invoice_v2
          account_id,       \* [Invoices -> Accounts \cup {None}]
          amount_captured,  \* [Invoices -> Nat]
          price,            \* [Invoices -> Nat], total at the active rates
          paid,             \* invoices with a paid_at
          final_amount_paid,\* [Invoices -> Nat]
          received,         \* amounts_received: [Txs -> Invoices \cup {None}]
          total_received,   \* history: the sum of an invoice's amounts_received
          step,             \* [Calls -> CallSteps]
          tx, inv, amount,  \* what a call works on and has read or computed
          event, attempts,  \* the queue of PaymentExpired and InvoicePaid events
          hstep,            \* [Jobs -> HandlerSteps]
          fdone,            \* orders whose fee the current run of a handler created
          order_status,     \* what saga was told last about the orders
          fees,             \* [Invoices -> SUBSET Orders], orders that have a fee
          overlapped,       \* history: invoices with two increases at once
          raced             \* history: invoices paid while PaymentExpired was handled

invoiceVars == <<pooled, cstep, account_id>>
moneyVars == <<amount_captured, price, paid, final_amount_paid, received, total_received>>
callVars == <<step, tx, inv, amount>>
eventVars == <<event, attempts>>
handlerVars == <<hstep, fdone, order_status, fees>>
historyVars == <<overlapped, raced>>
vars == <<invoiceVars, moneyVars, callVars, eventVars, handlerVars, historyVars>>

CreateSteps == {"new", "account", "scheduled", "created", "failed"}
CallSteps == {"new", "select", "insert", "again", "refresh", "read", "calculate",
              "set", "done"}
HandlerSteps == {"idle", "get", "link", "drain", "unlink", "status", "fee", "ok"}

\* A handler of PaymentExpired that found the invoice unpaid.
Expiring == {"link", "drain", "unlink", "status"}

Jobs == Invoices \cup Calls
Queue == INSTANCE JobQueue WITH state <- event

Created == {i \in Invoices : cstep[i] = "created"}
Linked(a) == {i \in Created : account_id[i] = a}

to_super_unit_RoundedUp(a) == ((a + Precision - 1) \div Precision) * Precision

\* to_super_unit cuts an amount to the precision of its currency.
to_super_unit(a) == (a \div Precision) * Precision

\* from_super_unit cuts a price to whole minimal units.
from_super_unit(p) == p \div PriceScale

has_become_paid(captured, p) == to_super_unit(captured) * PriceScale >= p

-----------------------------------------------------------------------------

Init ==
    /\ pooled \in SUBSET Accounts
    /\ cstep = [i \in Invoices |-> "new"]
    /\ account_id = [i \in Invoices |-> None]
    /\ amount_captured = [i \in Invoices |-> 0]
    /\ price = [i \in Invoices |-> 0]
    /\ paid = {}
    /\ final_amount_paid = [i \in Invoices |-> 0]
    /\ received = [t \in Txs |-> None]
    /\ total_received = [i \in Invoices |-> 0]
    /\ step = [c \in Calls |-> "new"]
    /\ tx = [c \in Calls |-> None]
    /\ inv = [c \in Calls |-> None]
    /\ amount = [c \in Calls |-> 0]
    /\ Queue!Init
    /\ hstep = [j \in Jobs |-> "idle"]
    /\ fdone = [j \in Jobs |-> {}]
    /\ order_status = [i \in Invoices |-> "none"]
    /\ fees = [i \in Invoices |-> {}]
    /\ overlapped = {}
    /\ raced = {}

-----------------------------------------------------------------------------
(* create_invoice_v2                                                       *)

CreateGoes(i, from, to) == cstep[i] = from /\ cstep' = [cstep EXCEPT ![i] = to]

\* A pooled account that no invoice refers to; a new one if there is none.
get_or_create_free_pooled_account(i) ==
    /\ CreateGoes(i, "new", "account")
    /\ LET free == {a \in pooled : Linked(a) = {}} IN
        \E a \in IF free # {} THEN free ELSE Accounts \ pooled :
            /\ account_id' = [account_id EXCEPT ![i] = a]
            /\ pooled' = pooled \cup {a}
    /\ UNCHANGED <<moneyVars, callVars, eventVars, handlerVars, historyVars>>

\* add_scheduled_event(PaymentExpired), a statement of its own
schedule_payment_expired(i) ==
    /\ CreateGoes(i, "account", "scheduled")
    /\ Queue!Add(i)
    /\ UNCHANGED <<pooled, account_id, moneyVars, callVars, handlerVars, historyVars>>

create_AnyAccount(i, p) ==
    /\ CreateGoes(i, "scheduled", "created")
    /\ price' = [price EXCEPT ![i] = p]
    /\ UNCHANGED <<pooled, account_id, amount_captured, paid, final_amount_paid, received,
                   total_received, callVars, eventVars, handlerVars, historyVars>>

\* The transaction that inserts the invoice, its orders and their first rates.
\* UNIQUE (account_id) refuses an account another invoice took meanwhile.
create(i, p) ==
    /\ \/ /\ CreateGoes(i, "scheduled", "created")
          /\ Linked(account_id[i]) = {}
          /\ price' = [price EXCEPT ![i] = p]
       \/ /\ CreateGoes(i, "scheduled", "failed")
          /\ Linked(account_id[i]) # {}
          /\ UNCHANGED price
    /\ UNCHANGED <<pooled, account_id, amount_captured, paid, final_amount_paid, received,
                   total_received, callVars, eventVars, handlerVars, historyVars>>

abandon_create(i) ==
    /\ cstep[i] \in {"account", "scheduled"}
    /\ CreateGoes(i, cstep[i], "failed")
    /\ UNCHANGED <<pooled, account_id, moneyVars, callVars, eventVars, handlerVars,
                   historyVars>>

-----------------------------------------------------------------------------
(* handle_inbound_tx and recalc_invoice_v2                                 *)

CallGoes(c, from, to) == step[c] = from /\ step' = [step EXCEPT ![c] = to]

\* An invoice that was not paid when it was read is recalculated.
AfterRead(i) == IF i \in paid THEN "done" ELSE "refresh"

\* get_by_account_id: a callback for an account without an invoice is ignored.
handle_inbound_tx(c, t) ==
    /\ CallGoes(c, "new", IF Linked(AccountOf[t]) = {} THEN "done" ELSE "select")
    /\ tx' = [tx EXCEPT ![c] = t]
    /\ UNCHANGED <<invoiceVars, moneyVars, inv, amount, eventVars, handlerVars, historyVars>>

\* increase_amount_captured reads the invoice before its transaction begins.
increase_amount_captured_select(c) ==
    /\ step[c] = "select"
    /\ \/ \E i \in Linked(AccountOf[tx[c]]) :
            LET new == amount_captured[i] + AmountOf[tx[c]] IN
            /\ new <= MaxAmount
            /\ step' = [step EXCEPT ![c] = "insert"]
            /\ inv' = [inv EXCEPT ![c] = i]
            /\ amount' = [amount EXCEPT ![c] = new]
            /\ overlapped' = IF \E d \in Calls : step[d] = "insert" /\ inv[d] = i
                             THEN overlapped \cup {i} ELSE overlapped
       \/ /\ \A i \in Linked(AccountOf[tx[c]]) :
               amount_captured[i] + AmountOf[tx[c]] > MaxAmount
          /\ step' = [step EXCEPT ![c] = "done"]
          /\ UNCHANGED <<inv, amount, overlapped>>
    /\ UNCHANGED <<invoiceVars, moneyVars, tx, eventVars, handlerVars, raced>>

increase_amount_captured_AnyTx(c) ==
    /\ CallGoes(c, "insert", AfterRead(inv[c]))
    /\ received' = [received EXCEPT ![tx[c]] = inv[c]]
    /\ total_received' = IF received[tx[c]] # None THEN total_received ELSE
         [total_received EXCEPT ![inv[c]] = @ + AmountOf[tx[c]]]
    /\ amount_captured' = [amount_captured EXCEPT ![inv[c]] = amount[c]]
    /\ UNCHANGED <<invoiceVars, price, paid, final_amount_paid, tx, inv, amount, eventVars,
                   handlerVars, historyVars>>

\* Its transaction: the primary key of amounts_received lets a transaction in
\* only once, then the amount computed from the earlier read is written.
increase_amount_captured(c) ==
    /\ \/ /\ CallGoes(c, "insert", AfterRead(inv[c]))
          /\ received[tx[c]] = None
          /\ received' = [received EXCEPT ![tx[c]] = inv[c]]
          /\ total_received' = [total_received EXCEPT ![inv[c]] = @ + AmountOf[tx[c]]]
          /\ amount_captured' = [amount_captured EXCEPT ![inv[c]] = amount[c]]
       \/ /\ CallGoes(c, "insert", "again")
          /\ received[tx[c]] # None
          /\ UNCHANGED <<received, total_received, amount_captured>>
    /\ UNCHANGED <<invoiceVars, price, paid, final_amount_paid, tx, inv, amount, eventVars,
                   handlerVars, historyVars>>

\* "If the amount received has already been saved": whatever invoice has the
\* account now.
get_by_account_id(c) ==
    /\ step[c] = "again"
    /\ \/ \E i \in Linked(AccountOf[tx[c]]) :
            /\ step' = [step EXCEPT ![c] = AfterRead(i)]
            /\ inv' = [inv EXCEPT ![c] = i]
       \/ /\ Linked(AccountOf[tx[c]]) = {}
          /\ step' = [step EXCEPT ![c] = "done"]
          /\ UNCHANGED inv
    /\ UNCHANGED <<invoiceVars, moneyVars, tx, amount, eventVars, handlerVars, historyVars>>

recalc_invoice_v2(c, i) ==
    /\ CallGoes(c, "new", IF i \in Created THEN AfterRead(i) ELSE "done")
    /\ inv' = [inv EXCEPT ![c] = i]
    /\ UNCHANGED <<invoiceVars, moneyVars, tx, amount, eventVars, handlerVars, historyVars>>

\* refresh_rates and add_new_active_rate, which never look at paid_at again.
refresh_rates(c, p) ==
    /\ CallGoes(c, "refresh", "read")
    /\ price' = [price EXCEPT ![inv[c]] = p]
    /\ UNCHANGED <<invoiceVars, amount_captured, paid, final_amount_paid, received,
                   total_received, tx, inv, amount, eventVars, handlerVars, historyVars>>

\* calculate_invoice_price_and_set_final_price_if_paid: the invoice is read,
\* then the rates, then it may be updated; READ COMMITTED isolates none of it.
calculate_read(c) ==
    /\ CallGoes(c, "read", IF inv[c] \in paid THEN "done" ELSE "calculate")
    /\ amount' = [amount EXCEPT ![c] = amount_captured[inv[c]]]
    /\ UNCHANGED <<invoiceVars, moneyVars, tx, inv, eventVars, handlerVars, historyVars>>

calculate_invoice_price(c) ==
    /\ \/ /\ CallGoes(c, "calculate", "set")
          /\ has_become_paid(amount[c], price[inv[c]])
          /\ amount' = [amount EXCEPT ![c] = from_super_unit(price[inv[c]])]
       \/ /\ CallGoes(c, "calculate", "done")
          /\ ~has_become_paid(amount[c], price[inv[c]])
          /\ UNCHANGED amount
    /\ UNCHANGED <<invoiceVars, moneyVars, tx, inv, eventVars, handlerVars, historyVars>>

\* set_amount_paid by id and add_event(InvoicePaid), committed together.
set_amount_paid(c) ==
    /\ CallGoes(c, "set", "done")
    /\ paid' = paid \cup {inv[c]}
    /\ final_amount_paid' = [final_amount_paid EXCEPT ![inv[c]] = amount[c]]
    /\ Queue!Add(c)
    /\ raced' = IF hstep[inv[c]] \in Expiring THEN raced \cup {inv[c]} ELSE raced
    /\ UNCHANGED <<invoiceVars, amount_captured, price, received, total_received, tx, inv,
                   amount, handlerVars, overlapped>>

abandon_call(c) ==
    /\ step[c] \notin {"new", "done"}
    /\ CallGoes(c, step[c], "done")
    /\ UNCHANGED <<invoiceVars, moneyVars, tx, inv, amount, eventVars, handlerVars,
                   historyVars>>

-----------------------------------------------------------------------------
(* handle_payment_expired and handle_invoice_paid                          *)

Target(j) == IF j \in Invoices THEN j ELSE inv[j]

HandlerGoes(j, from, to) == hstep[j] = from /\ hstep' = [hstep EXCEPT ![j] = to]

start_handler(j) ==
    /\ Queue!Start(j)
    /\ HandlerGoes(j, "idle", IF j \in Invoices THEN "get" ELSE "link")
    /\ fdone' = [fdone EXCEPT ![j] = {}]
    /\ UNCHANGED <<invoiceVars, moneyVars, callVars, order_status, fees, historyVars>>

handle_payment_expired_Always(j) ==
    /\ HandlerGoes(j, "get", "link")
    /\ Target(j) \in Created
    /\ UNCHANGED <<invoiceVars, moneyVars, callVars, eventVars, fdone, order_status, fees,
                   historyVars>>

\* An invoice that does not exist is an error: see fail_handler.
handle_payment_expired(j) ==
    /\ HandlerGoes(j, "get", IF Target(j) \in paid THEN "ok" ELSE "link")
    /\ Target(j) \in Created
    /\ UNCHANGED <<invoiceVars, moneyVars, callVars, eventVars, fdone, order_status, fees,
                   historyVars>>

drain_and_unlink_account(j) ==
    /\ HandlerGoes(j, "link", IF account_id[Target(j)] = None THEN "status" ELSE "drain")
    /\ UNCHANGED <<invoiceVars, moneyVars, callVars, eventVars, fdone, order_status, fees,
                   historyVars>>

\* The gateway moves the balance to the main account; only it knows balances.
drain_account(j) ==
    /\ HandlerGoes(j, "drain", "unlink")
    /\ UNCHANGED <<invoiceVars, moneyVars, callVars, eventVars, fdone, order_status, fees,
                   historyVars>>

unlink_account_Skipped(j) ==
    /\ HandlerGoes(j, "unlink", "status")
    /\ UNCHANGED <<invoiceVars, moneyVars, callVars, eventVars, fdone, order_status, fees,
                   historyVars>>

unlink_account(j) ==
    /\ HandlerGoes(j, "unlink", "status")
    /\ account_id' = [account_id EXCEPT ![Target(j)] = None]
    /\ UNCHANGED <<pooled, cstep, moneyVars, callVars, eventVars, fdone, order_status, fees,
                   historyVars>>

set_orders_status(j) ==
    /\ HandlerGoes(j, "status", IF j \in Invoices THEN "ok" ELSE "fee")
    /\ order_status' = [order_status EXCEPT ![Target(j)] =
                          IF j \in Invoices THEN "AmountExpired" ELSE "Paid"]
    /\ UNCHANGED <<invoiceVars, moneyVars, callVars, eventVars, fdone, fees, historyVars>>

create_fee_for_orders_First(j) ==
    /\ HandlerGoes(j, "fee", "ok")
    /\ \E o \in Orders \ fees[Target(j)] :
        fees' = [fees EXCEPT ![Target(j)] = @ \cup {o}]
    /\ UNCHANGED <<invoiceVars, moneyVars, callVars, eventVars, fdone, order_status,
                   historyVars>>

\* One INSERT per order, in no transaction and in the order the SELECT happened
\* to return.  An order that has its fee already violates the unique index on
\* fees.order_id: an error, see fail_handler.
create_fee_for_orders(j) ==
    /\ hstep[j] = "fee"
    /\ \E o \in Orders \ (fdone[j] \cup fees[Target(j)]) :
        /\ HandlerGoes(j, "fee", IF fdone[j] \cup {o} = Orders THEN "ok" ELSE "fee")
        /\ fees' = [fees EXCEPT ![Target(j)] = @ \cup {o}]
        /\ fdone' = [fdone EXCEPT ![j] = @ \cup {o}]
    /\ UNCHANGED <<invoiceVars, moneyVars, callVars, eventVars, order_status, historyVars>>

finish_handler(j) ==
    /\ Queue!Complete(j)
    /\ HandlerGoes(j, "ok", "idle")
    /\ UNCHANGED <<invoiceVars, moneyVars, callVars, fdone, order_status, fees, historyVars>>

\* A call returns an error, or the worker dies and its event is reset as stuck.
fail_handler(j) ==
    /\ hstep[j] # "idle"
    /\ HandlerGoes(j, hstep[j], "idle")
    /\ Queue!GiveBack({j})
    /\ UNCHANGED <<invoiceVars, moneyVars, callVars, fdone, order_status, fees, historyVars>>

-----------------------------------------------------------------------------

Creation(i) ==
    \/ get_or_create_free_pooled_account(i)
    \/ schedule_payment_expired(i)
    \/ \E p \in Prices : create(i, p)
    \/ abandon_create(i)

Call(c) ==
    \/ \E t \in Txs : handle_inbound_tx(c, t)
    \/ increase_amount_captured_select(c)
    \/ increase_amount_captured(c)
    \/ get_by_account_id(c)
    \/ \E i \in Invoices : recalc_invoice_v2(c, i)
    \/ \E p \in Prices : refresh_rates(c, p)
    \/ calculate_read(c)
    \/ calculate_invoice_price(c)
    \/ set_amount_paid(c)
    \/ abandon_call(c)

Handler(j) ==
    \/ start_handler(j)
    \/ handle_payment_expired(j)
    \/ drain_and_unlink_account(j)
    \/ drain_account(j)
    \/ unlink_account(j)
    \/ set_orders_status(j)
    \/ create_fee_for_orders(j)
    \/ finish_handler(j)
    \/ fail_handler(j)

Next ==
    \/ \E i \in Invoices : Creation(i)
    \/ \E c \in Calls : Call(c)
    \/ \E j \in Jobs : Handler(j)

Spec == Init /\ [][Next]_vars

\* The event queue keeps starting and settling attempts; nobody has to call.
FairSpec == Spec /\ \A j \in Jobs : WF_vars(Handler(j))

-----------------------------------------------------------------------------
(* Properties                                                              *)

FeesOK ==
    /\ fdone \in [Jobs -> SUBSET Orders]
    /\ fees \in [Invoices -> SUBSET Orders]

TypeOK ==
    /\ pooled \in SUBSET Accounts
    /\ cstep \in [Invoices -> CreateSteps]
    /\ account_id \in [Invoices -> Accounts \cup {None}]
    /\ amount_captured \in [Invoices -> 0..MaxAmount]
    /\ price \in [Invoices -> Nat]
    /\ paid \in SUBSET Created
    /\ final_amount_paid \in [Invoices -> Nat]
    /\ received \in [Txs -> Created \cup {None}]
    /\ total_received \in [Invoices -> Nat]
    /\ step \in [Calls -> CallSteps]
    /\ tx \in [Calls -> Txs \cup {None}]
    /\ inv \in [Calls -> Invoices \cup {None}]
    /\ amount \in [Calls -> Nat]
    /\ event \in [Jobs -> Queue!JobStates]
    /\ attempts \in [Jobs -> Nat]
    /\ hstep \in [Jobs -> HandlerSteps]
    /\ order_status \in [Invoices -> {"none", "Paid", "AmountExpired"}]
    /\ FeesOK
    /\ overlapped \in SUBSET Invoices
    /\ raced \in SUBSET Invoices

\* increase_amount_captured, whose callbacks are repeated, delayed, interleaved
\* or cut short, writes a sum computed outside its transaction: an invoice never
\* counts money it did not receive, and misses some only if two callbacks were
\* inside it at once.
CapturedAccounted ==
    \A i \in Invoices :
        /\ amount_captured[i] <= total_received[i]
        /\ amount_captured[i] < total_received[i] => i \in overlapped

\* calculate_invoice_price_and_set_final_price_if_paid: whatever rates and
\* amounts change between its reads and its update, and however amounts and
\* prices are cut by their conversions, the buyer paid the final price.
PaidIsCovered == \A i \in paid : final_amount_paid[i] <= total_received[i]

\* get_free_account may propose one account to two requests; only one of them
\* ends up with it, so a transaction is never claimed by two invoices.
AccountExclusive ==
    \A a \in Accounts : \A i, k \in Linked(a) : i = k

\* create_invoice_v2 schedules PaymentExpired before it inserts the invoice: a
\* crash between the two never leaves an invoice that keeps its account forever.
ExpiryScheduled == \A i \in Created : event[i] # "absent"

\* handle_invoice_paid and handle_payment_expired are retried from the start,
\* next to each other and to further payments: an event that is completed left
\* no account linked and, if it was InvoicePaid, a fee for every order.
FollowedUp ==
    /\ \A c \in Calls : event[c] = "completed" =>
         account_id[inv[c]] = None /\ fees[inv[c]] = Orders
    /\ \A i \in Invoices : event[i] = "completed" /\ i \notin paid =>
         account_id[i] = None /\ order_status[i] = "AmountExpired"

\* handle_payment_expired leaves paid invoices alone: once InvoicePaid is
\* completed saga knows the orders as paid, except when the invoice became paid
\* after the handler of PaymentExpired had found it unpaid.
ToldPaidUnlessRaced ==
    \A c \in Calls : event[c] = "completed" =>
        order_status[inv[c]] = "Paid" \/ inv[c] \in raced

\* The follow-up of an invoice gives its account back to the pool, through
\* whichever event gets there, unless an event ran out of attempts.
AccountFreed ==
    \A i \in Invoices :
        i \in Created
          ~> \/ account_id[i] = None
             \/ event[i] = "failed"
             \/ \E c \in Calls : inv[c] = i /\ event[c] = "failed"

-----------------------------------------------------------------------------
(* The inductive invariant behind the properties of Spec.                  *)

\* What a call has read, and that it stays within what was received.
CallInv ==
    \A c \in Calls :
        /\ step[c] \in {"select", "insert", "again"} => tx[c] \in Txs
        /\ step[c] \in {"insert", "refresh", "read", "calculate", "set"} => inv[c] \in Created
        /\ step[c] = "insert" => amount[c] <= MaxAmount
        /\ step[c] = "insert" /\ received[tx[c]] = None =>
             amount[c] <= total_received[inv[c]] + AmountOf[tx[c]]
        /\ step[c] \in {"calculate", "set"} => amount[c] <= total_received[inv[c]]
        /\ event[c] # "absent" => step[c] = "done" /\ inv[c] \in paid

\* Without overlapping increases the amount read is still the amount captured.
OverlapInv ==
    \A c \in Calls : step[c] = "insert" /\ inv[c] \notin overlapped =>
        /\ received[tx[c]] = None =>
             amount[c] = total_received[inv[c]] + AmountOf[tx[c]]
        /\ \A d \in Calls : step[d] = "insert" /\ inv[d] = inv[c] => c = d

\* What creating an invoice has done by each of its steps.
CreateInv ==
    \A i \in Invoices :
        /\ cstep[i] \in {"new", "account"} => event[i] = "absent"
        /\ cstep[i] \in {"scheduled", "created"} => event[i] # "absent"

\* What the handler of InvoicePaid has done by each of its steps.
PaidInv ==
    \A c \in Calls :
        /\ hstep[c] # "get"
        /\ hstep[c] # "idle" => event[c] = "in_progress"
        /\ hstep[c] \in {"status", "fee", "ok"} \/ event[c] = "completed" =>
             account_id[inv[c]] = None
        /\ hstep[c] \in {"fee", "ok"} \/ event[c] = "completed" =>
             order_status[inv[c]] = "Paid" \/ inv[c] \in raced
        /\ hstep[c] # "idle" => fdone[c] \subseteq fees[inv[c]]
        /\ hstep[c] = "ok" \/ event[c] = "completed" => fees[inv[c]] = Orders

\* What the handler of PaymentExpired has done by each of its steps.
ExpiredInv ==
    \A i \in Invoices :
        /\ hstep[i] # "fee"
        /\ hstep[i] # "idle" => event[i] = "in_progress"
        /\ hstep[i] \in Expiring \cup {"ok"} \/ event[i] = "completed" => i \in Created
        /\ hstep[i] \in Expiring /\ i \in paid => i \in raced
        /\ hstep[i] = "status" => account_id[i] = None
        /\ (hstep[i] = "ok" \/ event[i] = "completed") /\ i \notin paid =>
             account_id[i] = None /\ order_status[i] = "AmountExpired"

Inv ==
    /\ TypeOK
    /\ CallInv
    /\ OverlapInv
    /\ CreateInv
    /\ PaidInv
    /\ ExpiredInv
    /\ CapturedAccounted
    /\ PaidIsCovered
    /\ AccountExclusive

=============================================================================
