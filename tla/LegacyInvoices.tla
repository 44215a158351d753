--------------------------- MODULE LegacyInvoices ---------------------------
(***************************************************************************)
(* Invoices of the first version (services/invoice.rs, repos/invoice.rs,   *)
(* repos/order_info.rs), which are no longer created but still served.     *)
(* The external billing decides the state of an invoice.  It calls back    *)
(* (update_invoice) or is asked (recalc_invoice_v1); either way one        *)
(* transaction updates the invoice and its orders and calls the saga with  *)
(* the new state before it commits.  The row of the invoice stays locked   *)
(* from its update to the end of the transaction.                          *)
(***************************************************************************)
EXTENDS Naturals

CONSTANTS Sagas,       \* the invoices, each with the id of its saga
          LOrders,     \* rows of orders_info
          SagaOf,      \* [LOrders -> Sagas]
          LCalls,      \* callbacks, recalculations and deletions
          Gone,
          MaxMoves     \* bound on the moves of the external billing

ExternalStatuses == {"New", "Wallet", "Waiting", "Timeout", "Done"}
LegacyStates == {"New", "PaymentAwaited", "TransactionPending", "AmountExpired", "Paid"}

ASSUME LegacyAssumption ==
    /\ SagaOf \in [LOrders -> Sagas]
    /\ Gone \notin Sagas \cup LegacyStates
    /\ MaxMoves \in Nat

\* From<ExternalBillingStatus> for OrderState
OrderState == [x \in ExternalStatuses |->
    CASE x = "New" -> "New"
      [] x = "Wallet" -> "PaymentAwaited"
      [] x = "Waiting" -> "TransactionPending"
      [] x = "Timeout" -> "AmountExpired"
      [] x = "Done" -> "Paid"]

VARIABLES status,   \* [Sagas -> ExternalStatuses], at the external billing
          sent,     \* [Sagas -> SUBSET ExternalStatuses], callbacks on their way
          moves,    \* Nat
          state,    \* [Sagas -> LegacyStates \cup {Gone}], rows of invoices
          ostate,   \* [LOrders -> LegacyStates \cup {Gone}], rows of orders_info
          told,     \* [LOrders -> LegacyStates], what the saga knows
          lstep,    \* [LCalls -> LegacySteps]
          lsaga,    \* [LCalls -> Sagas \cup {Gone}]
          payload,  \* [LCalls -> LegacyStates \cup {Gone}], the state to set
          broken    \* history: sagas with a transaction that may have called the
                    \* saga and was rolled back

legacyVars == <<status, sent, moves, state, ostate, told, lstep, lsaga, payload, broken>>

LegacySteps == {"new", "ask", "update", "tell", "commit", "done"}

\* The rows an earlier version of the service created.
LegacyInit ==
    /\ status = [g \in Sagas |-> "New"]
    /\ sent = [g \in Sagas |-> {"New"}]
    /\ moves = 0
    /\ state = [g \in Sagas |-> "New"]
    /\ ostate = [o \in LOrders |-> "New"]
    /\ told = [o \in LOrders |-> "New"]
    /\ lstep = [c \in LCalls |-> "new"]
    /\ lsaga = [c \in LCalls |-> Gone]
    /\ payload = [c \in LCalls |-> Gone]
    /\ broken = {}

-----------------------------------------------------------------------------
\* The external billing moves on and calls back; a callback may come late, twice
\* or not at all.
external_moves(g, x) ==
    /\ moves < MaxMoves
    /\ moves' = moves + 1
    /\ status' = [status EXCEPT ![g] = x]
    /\ sent' = [sent EXCEPT ![g] = @ \cup {x}]
    /\ UNCHANGED <<state, ostate, told, lstep, lsaga, payload, broken>>

LegacyGoes(c, from, to) == lstep[c] = from /\ lstep' = [lstep EXCEPT ![c] = to]

LegacyEnds(c) ==
    /\ lstep' = [lstep EXCEPT ![c] = "done"]
    /\ lsaga' = [lsaga EXCEPT ![c] = Gone]
    /\ payload' = [payload EXCEPT ![c] = Gone]
    /\ UNCHANGED <<status, sent, moves>>

\* The callback carries the status.
update_invoice(c, g, x) ==
    /\ x \in sent[g]
    /\ LegacyGoes(c, "new", "update")
    /\ lsaga' = [lsaga EXCEPT ![c] = g]
    /\ payload' = [payload EXCEPT ![c] = OrderState[x]]
    /\ UNCHANGED <<status, sent, moves, state, ostate, told, broken>>

\* recalc_invoice finds no invoice of the second version and goes on with
\* recalc_invoice_v1, which asks for the status inside its transaction, but
\* before the row is locked.
recalc_invoice(c, g) ==
    /\ LegacyGoes(c, "new", "ask")
    /\ lsaga' = [lsaga EXCEPT ![c] = g]
    /\ UNCHANGED <<status, sent, moves, state, ostate, told, payload, broken>>

recalc_invoice_v1(c) ==
    /\ LegacyGoes(c, "ask", "update")
    /\ payload' = [payload EXCEPT ![c] = OrderState[status[lsaga[c]]]]
    /\ UNCHANGED <<status, sent, moves, state, ostate, told, lsaga, broken>>

\* A transaction holds the row of the invoice from here on.
Locked(g) == \E c \in LCalls : lsaga[c] = g /\ lstep[c] \in {"tell", "commit"}

\* invoice_repo.update and order_info_repo.update_status.
update_states_Unlocked(c) ==
    /\ LegacyGoes(c, "update", "tell")
    /\ state[lsaga[c]] # Gone
    /\ UNCHANGED <<status, sent, moves, state, ostate, told, lsaga, payload, broken>>

update_states(c) ==
    /\ LegacyGoes(c, "update", "tell")
    /\ ~Locked(lsaga[c])
    /\ state[lsaga[c]] # Gone
    /\ UNCHANGED <<status, sent, moves, state, ostate, told, lsaga, payload, broken>>

Orders(g) == {o \in LOrders : SagaOf[o] = g}

SetOrders(table, g, x) == [o \in LOrders |-> IF o \in Orders(g) THEN x ELSE table[o]]

update_status(g, x) == SetOrders(ostate, g, x)

delete_by_saga_id(g) == SetOrders(ostate, g, Gone)

\* POST /orders/update_state with the rows that were updated.
tell_saga(c) ==
    /\ LegacyGoes(c, "tell", "commit")
    /\ told' = SetOrders(told, lsaga[c], payload[c])
    /\ UNCHANGED <<status, sent, moves, state, ostate, lsaga, payload, broken>>

commit_states(c) ==
    /\ lstep[c] = "commit"
    /\ state' = [state EXCEPT ![lsaga[c]] = payload[c]]
    /\ ostate' = update_status(lsaga[c], payload[c])
    /\ LegacyEnds(c)
    /\ UNCHANGED <<told, broken>>

\* The row is gone, an error or a lost answer, or the process stops: the
\* transaction is rolled back, whatever the saga was told.
rollback(c) ==
    /\ lstep[c] \in {"ask", "update", "tell", "commit"}
    /\ \/ UNCHANGED told
       \/ lstep[c] = "tell" /\ told' = SetOrders(told, lsaga[c], payload[c])
    /\ broken' = IF lstep[c] \in {"tell", "commit"} THEN broken \cup {lsaga[c]} ELSE broken
    /\ LegacyEnds(c)
    /\ UNCHANGED <<state, ostate>>

\* delete_invoice_by_saga_id_v1, when no payments gateway is configured.
delete_invoice(c, g) ==
    /\ lstep[c] = "new"
    /\ ~Locked(g)
    /\ state[g] # Gone
    /\ state' = [state EXCEPT ![g] = Gone]
    /\ ostate' = delete_by_saga_id(g)
    /\ LegacyEnds(c)
    /\ UNCHANGED <<told, broken>>

LegacyNext ==
    \/ \E g \in Sagas, x \in ExternalStatuses : external_moves(g, x)
    \/ \E c \in LCalls :
        \/ \E g \in Sagas :
            \/ \E x \in ExternalStatuses : update_invoice(c, g, x)
            \/ recalc_invoice(c, g)
            \/ delete_invoice(c, g)
        \/ recalc_invoice_v1(c) \/ update_states(c)
        \/ tell_saga(c) \/ commit_states(c) \/ rollback(c)

LegacySpec == LegacyInit /\ [][LegacyNext]_legacyVars

-----------------------------------------------------------------------------
(* Properties                                                              *)

LegacyTypeOK ==
    /\ status \in [Sagas -> ExternalStatuses]
    /\ sent \in [Sagas -> SUBSET ExternalStatuses]
    /\ moves \in Nat
    /\ state \in [Sagas -> LegacyStates \cup {Gone}]
    /\ ostate \in [LOrders -> LegacyStates \cup {Gone}]
    /\ told \in [LOrders -> LegacyStates]
    /\ lstep \in [LCalls -> LegacySteps]
    /\ lsaga \in [LCalls -> Sagas \cup {Gone}]
    /\ payload \in [LCalls -> LegacyStates \cup {Gone}]
    /\ broken \in SUBSET Sagas

Committing(g) == {c \in LCalls : lsaga[c] = g /\ lstep[c] = "commit"}

\* The orders of an invoice have its state, and the saga knows that state, or
\* the one about to be committed, for callbacks and recalculations in
\* any order: unless a transaction called the saga and was rolled back.
SagaInStep ==
    \A o \in LOrders :
        /\ ostate[o] = state[SagaOf[o]]
        /\ (SagaOf[o] \notin broken /\ ostate[o] # Gone) =>
              IF Committing(SagaOf[o]) = {} THEN told[o] = ostate[o]
              ELSE \A c \in Committing(SagaOf[o]) : told[o] = payload[c]

\* At most one transaction holds the row of an invoice, which is there.
LegacyInv ==
    /\ \A c \in LCalls : lstep[c] \in {"new", "done"} <=> lsaga[c] = Gone
    /\ \A c \in LCalls :
        lstep[c] \in {"tell", "commit"} =>
            /\ payload[c] # Gone
            /\ state[lsaga[c]] # Gone
            /\ \A d \in LCalls : (lsaga[d] = lsaga[c] /\ lstep[d] \in {"tell", "commit"}) => d = c
    /\ \A c \in LCalls : lstep[c] = "update" => payload[c] # Gone

=============================================================================
