# Formal models of the Storiqa billing service

TLA+ models of the parts of this repository that move money, decide whether it
moves, or keep two records of the same thing: the event store and its workers,
payouts to sellers, invoices paid in crypto currency or by card, the states of
orders, fees, cards of users, subscriptions of stores, roles, and the tables
around them. TLC checks small instances, TLAPS proves the safety properties for
every value of the constants. Paths below are relative to the repository's root;
`services/...`, `repos/...`, `models/...` and `event_handling/...` are under its
`src/` directory.

## 1. The system

The service is a set of identical processes behind a load balancer, sharing one
PostgreSQL database. A process answers HTTP requests on a thread pool and runs
one background loop that polls the `event_store` table. Transactions run at
PostgreSQL's default level, READ COMMITTED, and most operations are several
statements without a transaction around them. A second program,
`subscriptions/`, calls the service on a timer.

| Component | State | Operations | Talks to |
|---|---|---|---|
| Event store (`repos/event_store.rs`) and event loop (`event_handling/mod.rs`) | `event_store`: payload, status, attempt_count, status_updated_at, scheduled_on | add_event, add_scheduled_event, reset_stuck_events, get_events_for_processing, complete_event, fail_event | handlers |
| Event handlers (`event_handling/handlers.rs`) | none of their own | one handler per `EventPayload` | everything below |
| Payouts (`services/payout`, `repos/payouts.rs`) | `payouts`, `order_payouts` | calculate_payout, pay_out_to_seller, PayoutInitiated | payments gateway, event store |
| Crypto invoices (`services/invoice.rs`, `repos/invoices_v2.rs`) | `invoices_v2`, `amounts_received`, `orders` | create_invoice_v2, handle_inbound_tx, recalc_invoice_v2, InvoicePaid, PaymentExpired | gateway, saga, exchange rates, event store |
| Fiat invoices, payment intents (`services/payment_intent.rs`, `services/stripe.rs`) | `payment_intent*` tables | webhooks, create, cancel | Stripe, saga, event store |
| Orders (`services/order.rs`, `repos/orders.rs`) | `orders.state`, `orders.stripe_fee` | capture, decline, update_order_state, PaymentIntentCapture | Stripe, event store |
| Fees (`services/fee.rs`, `repos/fee.rs`) | `fees`, unique by order | create with a paid invoice, charge one or several | Stripe, customers |
| Customers (`services/customer.rs`) | `customers` | create with a source, update, delete | Stripe |
| Subscriptions (`services/subscription*.rs`, `services/store_subscription.rs`, `subscriptions/`) | `subscription`, `subscription_payment`, `store_subscription` | edit terms, count products once a day, collect payments | Stripe, gateway |
| Roles and access (`services/user_roles.rs`, `repos/acl`) | `roles`, Redis cache | create, delete in three ways, check | Redis |
| Account pool (`services/accounts.rs`, `repos/accounts.rs`) | `accounts` (pooled or system) | start of an instance, creation and its revert, get_or_create_free_pooled_account | gateway |
| Exchange rates (`repos/order_exchange_rates.rs`) | `order_exchange_rates` | refresh, add_new_active_rate | gateway |
| Billing info (`services/billing_info.rs`, `services/order_billing.rs`) | `store_billing_type` and a table of details per type | create details of a type, search | - |
| Invoices of the first version (`services/invoice.rs`, `repos/invoice.rs`) | `invoices`, `orders_info` | update_invoice, recalc_invoice_v1, delete | external billing, saga |
| Amounts (`models/amount.rs`) | NUMERIC columns | to and from SQL, super units | - |
| Merchants, user wallets, HTTP API, clients, start-up | - | routing, wiring, I/O | - |

What makes it hard:

* **Checks and writes in different statements.** Nearly every service reads a
  row, decides, calls somebody else, and then updates by id.
* **Two records of one thing.** Stripe and `customers`, the gateway and
  `accounts`, saga and `orders_info`, the cache and `roles`, the billing type and
  the details: they are written one after the other and may part in between.
* **At-least-once events.** A handler may run, take effect, and be run again
  after a crash, an error of a later call or a lost answer.
* **Money before the record.** Refunds, charges of fees and charges of
  subscriptions are made first and recorded afterwards.
* **Time.** An event in progress for longer than `stuck_threshold_sec` is handed
  to another worker while the first may still be at it; PaymentExpired races with
  payments; the subscriptions timer repeats calls that have not ended.
* **Callbacks** of the gateway, Stripe and the external billing are repeated, come
  late and arrive concurrently.
* **Amounts** are u128 in minimal units, encoded by hand for the database and
  cut to eight digits when compared with prices.

`PROJECT.json` lists the hazards line by line, with the properties that cover
each of them.

## 2. Modules

```
JobQueue       what users of the event store rely on (abstract)
  ^ implemented by (PromptSpec)   ^ instantiated by
EventStore                        Payouts, CryptoInvoices, FiatInvoices, OrderStates

ChargeOnce     what collecting money promises (abstract)
  ^ implemented by
FeeCharges, Subscriptions

Customers <- FeeCharges           StoreSubscriptions <- Subscriptions      Acl <- UserRoles
BillingInfo, ExchangeRates, AccountPool, LegacyInvoices, Amounts <- MCTables
```

`A <- B`: B extends A and composes its actions with its own. `XProofs` holds the
theorems about X (`TablesProofs` those about UserRoles and the modules of the last line), `MCX`
the instance for TLC. Where a name has an underscore in front of a capital
(`order_decline_Unchecked`) it is a faulty variant of the operator that follows
it, used to show that a property notices the fault. No specification uses one.

**Histories.** Most properties have the form "this holds, unless such and such
happened". What happened is recorded in history variables (`raced`, `overlapped`,
`stale`, `rivals`, `lost`, `torn`, ...), which no guard reads. Each is set by the
one step at which two actors cross or something is cut short, so that the
property says exactly which window the code leaves open, and that there is no
other.

### JobQueue

A job is added, started at most `MaxAttempts` times, by one runner at a time, and
ends `completed` or `failed` for good.

### EventStore

One row per entry: `status`, `attempt_count`, and relative time: `age` is
`now - status_updated_at` of a row in progress and `delay` what is left until
`scheduled_on`. Both saturate where the code no longer distinguishes values, so
the clock needs no bound. A worker (`pc`, `entry`, `verdict`) runs
`process_events`: `reset_stuck_events`, `get_events_for_processing` (limit 1),
`handle_event`, then `complete_event` or `fail_event`. The first two are single
SQL statements, hence single steps, and skip locked rows. The last two are
transactions of a plain SELECT with a status check followed by an UPDATE by id;
they are three steps: SELECT (`SelectRow`), the UPDATE that takes the row lock
(`UpdateRow`) and the COMMIT (`CommitRow`). `abort` ends an iteration at any step: a
crash, an error of the pool, a lost connection. `handled` is a history variable.

Nothing in the code bounds how long a handler runs, so `Spec` lets an event be
taken for stuck while its worker is at it. `PromptSpec` is the same system without
such overruns.

### Payouts

`pay_out_to_seller` opens no transaction, so each statement is a step:
`pay_out_to_seller` (read and validate the orders), `check_payouts_exist` (and the
checked sums), `add_payout_event`, `create` (one transaction), with `abandon` after
any of them. The handler of PayoutInitiated is `handle_payout_initiated` (read the
payout; none or completed: done), `pay_out` (look the transaction up at the
gateway), `create_payout_tx`, `mark_as_completed`; `fail_handler` may end it
anywhere, and `create_payout_tx_lost` is a transfer whose answer is lost. A request
generates one payout id, so requests also name payouts and events.

The payment state of an order is reduced to not yet due to the seller, due, and
moved on. OrderStates shows that a slow request can set an order back (`stale`);
the model therefore lets an order become due again from any state.

The gateway is external: a transaction with a given id is executed at most once
per call, either before the call returns or not at all.

### CryptoInvoices

* *Creation*: `get_or_create_free_pooled_account`, `schedule_payment_expired`,
  `create` (one transaction; the unique constraint on `account_id` refuses the
  loser of a race), `abandon_create`.
* *Calls*: `handle_inbound_tx` with `increase_amount_captured` (the SELECT outside
  the transaction, then the INSERT and UPDATE inside), `get_by_account_id` for
  repeated callbacks, `recalc_invoice_v2`, `refresh_rates`, and
  `calculate_invoice_price_and_set_final_price_if_paid` as three steps: read the
  invoice, read the rates and decide, write the price together with InvoicePaid.
* *Handlers*: InvoicePaid and PaymentExpired, call by call: read, drain, unlink,
  report the orders to saga, and for InvoicePaid one INSERT per fee.

Abstractions: the rates of an invoice's orders are one price, which every refresh
may change (ExchangeRates has the rows); conversions between minimal and super
units keep what they cut (`to_super_unit` to `Precision` digits, `from_super_unit`
to minimal units). PaymentExpired may come at any time after it was scheduled: the
model has no clock. The gateway's balances are not modelled. An invoice for crypto
currency cannot be deleted (`delete_invoice_by_saga_id_v2` fails without a payment
intent), so there is no delete action. `total_received`, `overlapped` and `raced`
are histories.

### FiatInvoices

* *Creation*: `create_payment_intent` at Stripe, `schedule_payment_expired`, `create`
  (one transaction for invoice, intent and orders), `abandon_create`.
* *Stripe* (external): the buyer pays, the charge is processed and succeeds or
  fails; a succeeded intent is announced by any number of webhook calls
  (`handle_stripe_event`), each of which adds an event.
* *PaymentIntentSucceeded*: one transaction sets the status of the intent and
  creates the fees; a second one is refused by the unique index on `fees.order_id`,
  so that every retry after it fails (an invoice has at least one order). Then
  `saga_update_states` and `set_amount_paid_fiat`. The handler is written
  `saga_update_states.and_then(|_| set_invoice_paid)`, but `spawn_on_pool` starts a
  closure at once, so the update of `paid_at` runs next to the call to saga.
  `spawned` holds these updates. When the call fails its update is dropped, which
  stops it only if it did not begin to run (`EndAttempt`).
* *PaymentExpired*: read `paid_at`, report the orders, ask Stripe for the intent, cancel
  it, write its status. `lose_answer` is a call to saga or Stripe that took effect
  although it failed.

Abstractions: "open" stands for the statuses in which `is_cancellable` holds; intents
of invoices capture automatically, so `amount_capturable_updated` never comes; the
handler of `payment_failed` does nothing. An intent whose creation was abandoned
stays at Stripe, but nobody has its secret. `recalc_invoice_v2` changes nothing
of an invoice in fiat currency, whose `amount_captured` stays 0 and below its price.
`delete_invoice_by_saga_id_v2` fails because the intent is still referenced, so
there is no delete action. `passed` and `raced` are histories.

### OrderStates

The orders of one invoice. A request captures, declines or updates: it reads the
state and checks it in one step and writes by id in another; a decline of a fiat
order reads the intent, refunds at Stripe and then sets Declined
(`order_decline_fiat`, `refund`, `set_declined`), with `lose_refund` and `abandon`
in between. Capture of a fiat order only adds an event, whose handler reads the
order again, asks Stripe for the charge, and writes the state and the fee in two
statements (`set_captured`, `set_stripe_fee`). `check_change_order_payment_state` is the
table of `services/order.rs`. `charged` comes from the webhook (FiatInvoices).

### Customers and FeeCharges

`Customers`: a creation writes Stripe, then the row; a deletion Stripe, then the
row; an update the row, then Stripe. Customers and emails are named after the call
that made them. `FeeCharges` adds requests that read fees, choose the customer
of the store's owner, charge once for the sum (`total_amount`, checked against
`MaxAmount`) and record the outcome in all fees in one transaction. The customer
may be deleted between its choice and the charge.

### StoreSubscriptions and Subscriptions

`StoreSubscriptions`: an edit reads the terms, asks the gateway for a wallet if the
currency becomes Stq, and updates the columns it decided on; a column that is None
is left alone. `Subscriptions` adds time (`DayLength` units make a day), counting and
payment runs. There are two kinds of clock. `now` is the database's, which dates
rows (`created_at` has the default CURRENT_TIMESTAMP, the moment the transaction
began: `ktime`). A request decides with `Utc::now()` of its own process (`kclock`), read
before its work is queued on the pool; nothing happens to a queued request, so the
reading is chosen when the transaction begins, from `Readings`: everything a clock that
is up to `Skew` ahead may have shown until then, clocks that are behind included. In
counting, `create_all` begins the transaction, `count_store` is one round of its loop (terms,
trial, the search for a row of the request's day) and `commit_all` its COMMIT. A row is
`strayed` if the day its call looked for, the day of its transaction and the day on
which it looked are not the same. In a payment run `pay_subscriptions` reads what is
due by the request's clock, then each store is asked (`collect_subscription`,
`into_finished_payment` for one that cannot pay, `collect_unpaid_charge` for a
charge Stripe returns as not paid, which the code records as paid,
`lose_collection`), and only then everything is recorded in one transaction. The
timer process starts calls at any time, also while others run.

### ChargeOnce

What both of the above promise: a charge covers a set of items (`Charge`), none of
which was charged or settled before unless it is excused; items are settled by a
record (`Settle`) and reopened only if excused (`Reopen`); items become excused when
requests overlap or a record is lost (`Excuse`, or `Charge` itself when its answer is
lost). FeeCharges implements it with fees as items, Paid ones as settled, and `rivals`
and `lost` as excused; Subscriptions with counted days, those with a payment (paid or
failed) as settled, and `overlapped` and `lost` as excused. `AtMostOnce` follows.

### Acl and UserRoles

`Acl` has the permission tables of `repos/acl` and the scope rule (`is_in_scope`) of
every repository; an object is reduced to the user and the store it leads to.
`UserRoles` has the `roles` table, the Redis cache shared by all processes, the miss
that reads first and fills later, and the operations in their order: `create` and
two of the deletions remove from the cache first, `delete_by_id` afterwards. Each call
of the cache may fail unnoticed; entries expire.

### BillingInfo, ExchangeRates, AccountPool, LegacyInvoices, Amounts

* `BillingInfo`: a creation validates, reads the type and writes type and details
  (`create_with_type`, `create_info`, `switch_type`); a search reads three tables in three
  statements. Details are counted, because nothing makes them unique.
* `ExchangeRates`: a refresh decides which orders get a new rate and adds each in a
  transaction that selects the active rate, expires it by id and inserts.
* `AccountPool`: the start of an instance (system accounts, then the pool), and the
  creation at the gateway, as a row, and its revert, whose two deletions run in any
  order and may fail unnoticed.
* `LegacyInvoices`: a callback or a recalculation updates invoice and orders, tells
  the saga and commits; the row is locked from the first update on.
* `Amounts`: `u128_to_pg_decimal` and `pg_decimal_to_u128` digit by digit, with the
  unchecked power of ten, and the canonical form PostgreSQL keeps. The iterator
  and the loop over the digits are recursive functions, so that they can be proved
  about; `OtherDigits` are the digits of numbers that something else wrote. `Base` (10000) and
  `MAX` (2^128 - 1) are constants, so that their edges fit in a small instance.

They share no state: steps of one leave the others alone, so MCTables lets one of
them move per behaviour (`part`, chosen at first) and loses nothing that a property
of a single part could notice.

### Composition

Payouts, CryptoInvoices, FiatInvoices and OrderStates instantiate JobQueue for their
events. EventStore implements JobQueue only without overruns (`ImplementsJobQueue`,
for `PromptSpec`), so what is shown of the four is for handlers that end within
`stuck_threshold_sec`. In particular `TransfersSound` relies on it: two handlers
of one payout that both look the transaction up before either creates it are
kept apart by the gateway alone. FeeCharges composes cards and charges,
Subscriptions terms, counting and payment runs, UserRoles decisions, the cache and
the table.

## 3. Runs

| Run | Instance | States | Shows |
|---|---|---|---|
| event_store | 2 workers, 2 events, 2 attempts, threshold 1, delay 1, FairSpec | 92,384 | AttemptsBounded, RowsAreHonest, EventuallySettled, with crashes and overruns |
| event_store_prompt | the same, PromptSpec | 10,372 | ExclusiveProcessing, ImplementsJobQueue (refinement) |
| payouts | 2 requests, 2 orders, 2 currencies, 2 attempts, FairSpec | 175,412 | TransfersSound, LostOnlyIfMissed, DoublePayoutOnlyIfConcurrent, PayoutDecided |
| payouts_completed | the same, 1 attempt | violation | CompletedMeansPaid fails |
| crypto_invoices | 1 invoice of 2 orders, 2 calls, 2 prices, 2 attempts | 886,882 | PaidIsCovered, CapturedAccounted, FollowedUp, ToldPaidUnlessRaced |
| crypto_pool | 2 invoices, 1 account, 1 call, 2 attempts, FairSpec | 182,207 | AccountExclusive, AccountFreed |
| fiat_invoices | 1 invoice, 2 webhook calls, 3 attempts, FairSpec | 40,401 | IntentIsTrue, NotDroppedInSilence, ToldPaidUnlessRaced, HalfDoneIsForever, IntentSettled |
| orders | 2 orders (fiat, crypto), 3 requests, 2 attempts, FairSpec | 173,589 | RefundAccounted, RefundedTwiceOnlyIf, FeeMissingOnlyIf, FinalUnlessStale, CaptureDecided |
| fees | 1 user, 3 calls on customers, 3 fees, 2 charges | 141,510 | CustomersMirrored, ChargeRecorded, PaidUnlessRivals, FeesChargedOnce (refinement) |
| subscriptions | 1 store, 2 edits, 2 counts, 2 payment runs, 2 days, clocks 1 apart | 868,175 | TermsConsistent, CountedOncePerDay, PaymentIsTrue, DaysCollectedOnce (refinement) |
| access | 2 users, 1 store, 3 roles, 3 requests | 628,749 | RolesFresh, DecisionCurrent |
| tables | the five parts of MCTables, see below | 710,991 | BillingConsistent, OneActiveRate, AccountsBacked, SagaInStep, AmountKept |

**What the properties show of the code.** The windows the histories name are real:
without the "unless" each of these properties fails. (1) A worker whose event was
reset as stuck and settled by another overwrites the settled status. (2) Two payout
requests that both check before either creates pay an order out twice. (3) Two
callbacks that both read `amount_captured` before either writes lose an increase.
(4) A payment confirmed while PaymentExpired is handled is followed by AmountExpired
for the orders of a paid invoice. (5) An order is refunded twice, or refunded and
captured, when a decline meets another request or is cut short after the refund;
and a capture whose worker dies between the state and the fee never gets the fee,
because the retry finds the state changed. (6) A fee, or a day of a subscription,
is charged twice when two requests overlap; a fee also when the answer of a charge is
lost, a day also when a run stops before its record. A store is counted twice for a
day when two calls overlap, when a run settles the first row on its own day, and
around midnight or with clocks apart, because the day that is looked for and the day
the row is given come from different clocks at different moments.
(7) Two edits of a store's terms leave a price meant in another currency. (8) A cache
filled from a read before a change of roles keeps them until it expires. (9) Two
creations leave a store with two types or details, two refreshes an order with two
active rates, two starting instances an account row without an account.

**The violation.** `mark_as_completed` has no filter at all, so one completed payout
completes all, and the others are never transferred. `PROJECT.json` quotes the
lines this contradicts.

**Bounds and why they are enough.** Two workers give an outdated decision on an
event that the other has retried (`AttemptsBounded` reaches its bound of
`MaxAttempts + workers - 1`; the theorem covers any number); two entries a worker
that goes on to another event. Two attempts give one retry and one exhaustion. A
threshold of 1 has ages below, at and above it. Two payout requests give every
pairwise race; two orders overflow `MaxAmount` together and not alone, with fees
above and below their sum and a wallet in the wrong currency. For invoices, two
transactions with different amounts, one of them not a multiple of the precision,
prices that one transaction covers and that only both cover, two calls for each
race and for each repeated callback, and one account for two invoices so that it is
fought for and reused. A card payment involves one invoice only; two webhook calls
give a repeated one before, during and after the first, and three attempts a retry
of a retry.

Three requests on an order are two that race and a third that changes the state
under both. Three calls on customers are a creation and two that meet it or each
other; three fees, two of one store, which one charge may cover, and one of another
store of the same owner. For subscriptions a clock of 0 to 2 with days of 2 has
moments of one day and a midnight, and readings of a request up to 1 ahead of the
database and any time behind it. A period of 0 days makes a row due on the day it
was added, so that two counts have the one that is repeated after an early
settlement (with a longer period that takes a third, older row), besides the one
that overlaps and the one that looks for another day; a trial of one day is over or
not by the request's clock; two edits give each race on the terms. For roles two
users, one of whom may be the one changed by the other,
three rows and three requests: one changes, one fills the cache, one decides. In
MCTables: one store with three creations and two searches; two orders, one of them with
a dummy rate, and two refreshes over five rows; two instances of two starts, two
system and two pooled accounts; one invoice of two orders with three calls and two
moves of the external billing; every amount of 0 to 1023 in base 10, every number of
at most two digits and those of three digits 0, 1 or 9, with weights -1 to 4, on both
sides of `MAX`.

Bounds by name: `MaxEntries`, `MaxDelay`, `MaxAmount` (2^128 - 1 in the code), `MaxTime`, `Skew`,
`MaxStarts`, `MaxMoves`, `MaxWeight`, and the sets of workers, requests, calls, invoices,
transactions, prices, webhooks, edits, counts, runs, refreshes, searches and instances.
Each call and request happens once, so the systems other than EventStore come to an end
and deadlock is not checked there; the event store polls forever and it is.

**Fairness.** The interval timer of `EventHandler::run` logs an error and goes on,
so a worker always continues: `WF(Worker(w))`, and time passes: `WF(Tick)`. A crash
may end any poll but not every one, or nothing would ever be started:
`SF(get_events_for_processing(w))`. Handlers are assumed to return. The modules on
a JobQueue assume that it keeps starting and settling attempts, `WF(Handler(j))`;
callers may stop at any statement and have no fairness.

## 4. Theorems

All for arbitrary sets of workers, requests, invoices, calls, orders, stores, users
and accounts and arbitrary limits, from the assumptions each module states on its
constants (`...Assumption`), which TLC evaluates on every instance. No proof uses
fairness. Each module also proves its type invariant (`TypeTheorem`).

**EventStoreProofs.**
`Safety`: `Spec => []Inv`. The properties are not inductive alone: what a worker
is about to write was decided earlier, so `WorkerInv` records that a decision
"failed" was taken after enough attempts, which stays true because attempt_count
only grows, and that a decision "completed" belongs to a handled event;
`TableInv` ties the status of a row to its past. `HonestTheorem` follows.
`AttemptsTheorem`: needs `AttemptsInv`, an amortised bound: once an event has had
its attempts, every further one uses up a worker that decided "pending" before
(`PutBack`), and no worker can decide that again. The proof is by the cardinality of
`PutBack(e)`.
`ExclusiveTheorem`, `SettledTheorem`, `RefinementTheorem` are about `PromptSpec`:
`PromptInv` says that a busy worker is the only one on its row, that the row is in
progress, and that the verdict to be written is still what the row calls for. Then
every step is a step of JobQueue or leaves status and attempts alone.

**PayoutsProofs.**
`Inv` is `TypeOK`, `RequestInv` (what each step of a request implies of its orders,
event and payout), `HandlerInv` (what each step of a handler implies of the event,
the payout and the transfers; "create" implies no transfer so far) and `RivalsInv`
(two requests past their checks with a common order were in flight together). From
it follow `TransfersTheorem`, `EveryPayoutAnnouncedTheorem`, `LostOnlyIfMissedTheorem`
and `DoublePayoutTheorem`. `CalculatedPayable` is a lemma about the checks alone.

**CryptoInvoicesProofs.**
`Inv` has `CallInv` (what a call has read never exceeds what was received),
`OverlapInv` (without an overlap, what it has read is exact), `CreateInv`,
`PaidInv` and `ExpiredInv` (what each handler has done by each step, next to the
other). `PaidAmount` is the arithmetic lemma: an amount that covers a price after
being cut to `Precision` covers the stored price, for every scale and precision.
Frame lemmas say what creations, calls and handlers leave alone. From `Inv` follow
`CapturedAccountedTheorem`, `PaidIsCoveredTheorem`, `AccountExclusiveTheorem`, `ExpiryScheduledTheorem`, `FollowedUpTheorem` and
`ToldPaidTheorem`.

**FiatInvoicesProofs.**
`Inv` has `HandlerInv` (events and handlers go together), `IntentInv` (only created
invoices are charged or canceled, and what a handler knows of Stripe is final),
`ChargeInv` (one webhook at most charges an invoice, the one that created its
fees), `PaidInv` and `ExpiredInv` (what the steps and ends of the two handlers imply).
`IntentIsTrue` is part of it: a handler writes a status it learned earlier, which
is right because only final statuses are written and Stripe does not leave them.
From it follow `IntentIsTrueTheorem`, `NotDroppedTheorem`, `LeftOpenTheorem`,
`ToldPaidTheorem` and, for steps, `HalfDoneTheorem`: an attempt that failed after the
transaction with the fees is made up for by no retry and by no other webhook.

**OrderStatesProofs.**
`Inv` has `RequestInv` (a request, its event and its handler agree on an order),
`CaptureInv` (no write leads back to Initial, so what the handler captured stays
known as handled) and `DeclineInv` (without rivals and interruptions one decline at
a time is past its check, and after a refund that one is about to mark). From it
follow `RefundAccountedTheorem`, `RefundedTwiceTheorem`, `FeeMissingTheorem` and, for
steps, `FinalTheorem`.

**FeeChargesProofs.**
`CallsInv` (what a call on customers knows; without crowding one creation per user),
`MirroringInv` (one update at a time, and the row has its email) and `ChargesInv` (without
rivals one request holds a fee, and the fee has not been charged before unless that
request has just done so). Results: `CustomersMirroredTheorem`,
`ChargeRecordedTheorem` and, for steps, `PaidTheorem`. `FeesChargedOnceTheorem` is the
refinement of ChargeOnce, step by step (`OnceStep`): a charge needs `ChargesInv` to know
that none of its fees was charged or Paid, and a record of a declined charge that
reopens a Paid fee needs it to know that the fee is excused. `ChargedTwiceTheorem` then
follows from the abstract specification alone (`OnceAtMost`).

**SubscriptionsProofs.**
`EditInv` (what an edit decided is still right while it is alone), `StartInv`, `ClockInv`
(rows belong to the past, and a settled one to an earlier day unless it was settled
early), `CountInv` (a count about to commit is the only one of its day unless it strayed;
it needs `ClockInv`, because a row of the day that the search for unpaid rows missed
must have been settled on that day), and `RunInv`:
`BatchInv`, `HolderInv` (one run at a time holds an unsettled row), `RecordInv` and
`ChargeInv` (what has been collected for a row is what the run that holds or settled
it says). Results: `TermsTheorem`, `CountedTheorem`, `PaymentIsTrueTheorem`.
`DaysCollectedOnceTheorem` is the refinement of ChargeOnce; it needs `HolderInv` and
`ChargeInv` for a store that is asked to pay (`DueUnpaid`). `CollectedTwiceTheorem`
follows from it. `DayMonotone` is the one arithmetic lemma.

**TablesProofs.** Six systems. In four of them an invariant says that what a
transaction read is still so while it is alone: `RatesInv` for `OneActiveRateTheorem`,
`LegacyInv` (one transaction at a time holds an invoice) for `SagaInStepTheorem`,
`BillingInv` and `SearchInv` for `BillingConsistentTheorem`, `PoolInv` and `RevertInv` for
`AccountsBackedTheorem`. The theorems are about the specification of each module
(`RatesSpec`, ...), of which MCTables runs one at a time.

*Roles.* `StoreAccessTheorem` is about the permission tables alone: whatever names of
roles a user has, a store's data are in scope only through a role for all stores or
through a row that names the store. `Inv` of UserRoles has `HeldInv` (roles a request
has read and not yet put into the cache are those of the table, unless a change
overtook them and is on record) and `SubjectInv` (whom the steps of a change are about).
It is needed because a fill writes what was read several steps earlier: `RolesFresh`
alone says nothing about roles on their way to the cache. `RolesFreshTheorem` and
`DecisionCurrentTheorem` follow.

*Amounts.* `AmountRoundTrip`: every amount of 0 to `MAX` that is written, put into the
canonical form by PostgreSQL and read is the same amount, for every base above 1 and
every `MAX` not below it. `OtherNumbersRead`: a number from elsewhere is refused or
read as the sum of its digits by their places, unless the power of ten overflows.
`AmountKeptTheorem` is both as an invariant. The induction over the digits goes by
a least counterexample (`Least`, from the well-foundedness of the naturals; `Induction`
for sets of naturals) and the recursive functions are unfolded by `Recursion` and
`FiniteRecursion`. The argument: the digits are the remainders of repeated division,
so the number is the sum of digit times power (`left` after i digits is the quotient by
the i-th power); the zeros dropped at the low end come back as the power that the
weight asks for; and no intermediate sum or product exceeds the amount, so nothing
overflows.

**Model-checked only**: the liveness properties (`EventuallySettled`, `PayoutDecided`,
`AccountFreed`, `IntentSettled`, `CaptureDecided`), because the prover does not reason
about fairness and ENABLED. Every other property of a passing run is also a theorem.

## 5. Not modelled, and the plan

* Routing and serialisation (`controller/`), configuration, metrics, wiring of the
  factories: no state of their own. HTTP clients are pure I/O; the models have
  their outcomes: success, failure, and success with a lost answer.
* Payment intents for fees (`create_by_fee` in `services/payment_intent.rs`): the link is
  inserted before the intent it references, so the transaction never commits.
* `delete_invoice_by_saga_id_v2`: always ends in an error and is rolled back.
* `update_*_billing_info` changes the contents of one row that no other table
  repeats; details of the proxy company are read only.
* Merchants and the creation of invoices of the first version: forwarded to the
  external billing, or answered without it.
* User wallets: a repository that no service uses; its scope rule is in Acl.
* Names and parsing of currencies, and conversions of amounts for the API.
* Read-only queries, beyond the search of orders, which reads three tables.

Further work: an abstract lifecycle of an invoice (open, paid or expired, followed up)
implemented by CryptoInvoices and FiatInvoices where their races allow it; OrderStates
and Payouts composed over one table of orders.
