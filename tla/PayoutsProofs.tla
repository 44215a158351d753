---------------------------- MODULE PayoutsProofs ----------------------------
(* Theorems about Payouts, for any requests, orders, amounts and attempts.  *)
EXTENDS Payouts, TLAPS

\* Nothing was requested, announced or transferred at first.
LEMMA InvInit == Init => Inv
BY DEF Init, Inv, TypeOK, RequestInv, HandlerInv, RivalsInv, PaymentStates, RequestSteps,
   PayoutStates, HandlerSteps, Queue!Init, Queue!JobStates

\* Every step keeps the types.
LEMMA TypeNext == Inv /\ [Next]_vars => TypeOK'
<1> SUFFICES ASSUME Inv, [Next]_vars PROVE TypeOK'
  OBVIOUS
<1> USE DEF Inv, TypeOK, requestVars, eventVars, HandlerGoes,
      PaymentStates, RequestSteps, PayoutStates, HandlerSteps, Queue!JobStates
<1>1. ASSUME NEW o \in Orders, update_order_state(o) PROVE TypeOK'
  BY <1>1 DEF update_order_state
<1>2. ASSUME NEW r \in Requests, NEW S \in SUBSET Orders, NEW c \in Cryptos,
              pay_out_to_seller(r, S, c) PROVE TypeOK'
  BY <1>2 DEF pay_out_to_seller, Refuse, validate_orders_for_payout
<1>3. ASSUME NEW r \in Requests, NEW fee \in BlockchainFees,
              check_payouts_exist(r, fee) PROVE TypeOK'
  BY <1>3 DEF check_payouts_exist, Refuse, PaidOut
<1>4. ASSUME NEW r \in Requests, add_payout_event(r) PROVE TypeOK'
  BY <1>4 DEF add_payout_event, Queue!Add
<1>5. ASSUME NEW r \in Requests, create(r) PROVE TypeOK'
  BY <1>5 DEF create
<1>6. ASSUME NEW r \in Requests, abandon(r) PROVE TypeOK'
  BY <1>6 DEF abandon, Refuse
<1>7. ASSUME NEW r \in Requests, start_handler(r) PROVE TypeOK'
  BY <1>7 DEF start_handler, Queue!Start
<1>8. ASSUME NEW r \in Requests, handle_payout_initiated(r) PROVE TypeOK'
  BY <1>8 DEF handle_payout_initiated
<1>9. ASSUME NEW r \in Requests, pay_out(r) PROVE TypeOK'
  BY <1>9 DEF pay_out
<1>10. ASSUME NEW r \in Requests, create_payout_tx(r) PROVE TypeOK'
  BY <1>10 DEF create_payout_tx
<1>11. ASSUME NEW r \in Requests, create_payout_tx_lost(r) PROVE TypeOK'
  BY <1>11 DEF create_payout_tx_lost, Queue!GiveBack
<1>12. ASSUME NEW r \in Requests, mark_as_completed(r) PROVE TypeOK'
  BY <1>12 DEF mark_as_completed
<1>13. ASSUME NEW r \in Requests, finish_handler(r) PROVE TypeOK'
  BY <1>13 DEF finish_handler, Queue!Complete
<1>14. ASSUME NEW r \in Requests, fail_handler(r) PROVE TypeOK'
  BY <1>14 DEF fail_handler, Queue!GiveBack
<1>15. CASE UNCHANGED vars
  BY <1>15 DEF vars, requestVars, eventVars
<1> QED
  BY <1>1, <1>2, <1>3, <1>4, <1>5, <1>6, <1>7, <1>8, <1>9, <1>10, <1>11, <1>12, <1>13, <1>14,
     <1>15 DEF Next, Request, Handler

\* Every step keeps what a request has done: its event before its payout.
LEMMA RequestNext == Inv /\ [Next]_vars => RequestInv'
<1> SUFFICES ASSUME Inv, [Next]_vars PROVE RequestInv'
  OBVIOUS
<1> USE DEF Inv, TypeOK, requestVars, eventVars, HandlerGoes, RequestInv,
      PaymentStates, RequestSteps, PayoutStates, Queue!JobStates
<1>1. ASSUME NEW o \in Orders, update_order_state(o) PROVE RequestInv'
  BY <1>1 DEF update_order_state
<1>2. ASSUME NEW r \in Requests, NEW S \in SUBSET Orders, NEW c \in Cryptos,
              pay_out_to_seller(r, S, c) PROVE RequestInv'
  BY <1>2 DEF pay_out_to_seller, Refuse, validate_orders_for_payout
<1>3. ASSUME NEW r \in Requests, NEW fee \in BlockchainFees,
              check_payouts_exist(r, fee) PROVE RequestInv'
  BY <1>3 DEF check_payouts_exist, Refuse, PaidOut
<1>4. ASSUME NEW r \in Requests, add_payout_event(r) PROVE RequestInv'
  BY <1>4 DEF add_payout_event, Queue!Add
<1>5. ASSUME NEW r \in Requests, create(r) PROVE RequestInv'
  BY <1>5 DEF create
<1>6. ASSUME NEW r \in Requests, abandon(r) PROVE RequestInv'
  BY <1>6 DEF abandon, Refuse
<1>7. ASSUME NEW r \in Requests, start_handler(r) PROVE RequestInv'
  BY <1>7 DEF start_handler, Queue!Start
<1>8. ASSUME NEW r \in Requests, handle_payout_initiated(r) PROVE RequestInv'
  BY <1>8 DEF handle_payout_initiated
<1>9. ASSUME NEW r \in Requests, pay_out(r) PROVE RequestInv'
  BY <1>9 DEF pay_out
<1>10. ASSUME NEW r \in Requests, create_payout_tx(r) PROVE RequestInv'
  BY <1>10 DEF create_payout_tx
<1>11. ASSUME NEW r \in Requests, create_payout_tx_lost(r) PROVE RequestInv'
  BY <1>11 DEF create_payout_tx_lost, Queue!GiveBack
<1>12. ASSUME NEW r \in Requests, mark_as_completed(r) PROVE RequestInv'
  BY <1>12 DEF mark_as_completed
<1>13. ASSUME NEW r \in Requests, finish_handler(r) PROVE RequestInv'
  BY <1>13 DEF finish_handler, Queue!Complete
<1>14. ASSUME NEW r \in Requests, fail_handler(r) PROVE RequestInv'
  BY <1>14 DEF fail_handler, Queue!GiveBack
<1>15. CASE UNCHANGED vars
  BY <1>15 DEF vars, requestVars, eventVars
<1> QED
  BY <1>1, <1>2, <1>3, <1>4, <1>5, <1>6, <1>7, <1>8, <1>9, <1>10, <1>11, <1>12, <1>13, <1>14,
     <1>15 DEF Next, Request, Handler

\* Every step keeps what a handler knows: one transfer, for a payout it read.
LEMMA HandlerNext == Inv /\ [Next]_vars => HandlerInv'
<1> SUFFICES ASSUME Inv, [Next]_vars PROVE HandlerInv'
  OBVIOUS
<1> USE DEF Inv, TypeOK, requestVars, eventVars, HandlerGoes, RequestInv, HandlerInv,
      PayoutStates, HandlerSteps, Queue!JobStates
<1>1. ASSUME NEW o \in Orders, update_order_state(o) PROVE HandlerInv'
  BY <1>1 DEF update_order_state
<1>2. ASSUME NEW r \in Requests, NEW S \in SUBSET Orders, NEW c \in Cryptos,
              pay_out_to_seller(r, S, c) PROVE HandlerInv'
  BY <1>2 DEF pay_out_to_seller, Refuse, validate_orders_for_payout
<1>3. ASSUME NEW r \in Requests, NEW fee \in BlockchainFees,
              check_payouts_exist(r, fee) PROVE HandlerInv'
  BY <1>3 DEF check_payouts_exist, Refuse, PaidOut
<1>4. ASSUME NEW r \in Requests, add_payout_event(r) PROVE HandlerInv'
  BY <1>4 DEF add_payout_event, Queue!Add
<1>5. ASSUME NEW r \in Requests, create(r) PROVE HandlerInv'
  BY <1>5 DEF create
<1>6. ASSUME NEW r \in Requests, abandon(r) PROVE HandlerInv'
  BY <1>6 DEF abandon, Refuse
<1>7. ASSUME NEW r \in Requests, start_handler(r) PROVE HandlerInv'
  BY <1>7 DEF start_handler, Queue!Start
<1>8. ASSUME NEW r \in Requests, handle_payout_initiated(r) PROVE HandlerInv'
  BY <1>8 DEF handle_payout_initiated
<1>9. ASSUME NEW r \in Requests, pay_out(r) PROVE HandlerInv'
  BY <1>9 DEF pay_out
<1>10. ASSUME NEW r \in Requests, create_payout_tx(r) PROVE HandlerInv'
  BY <1>10 DEF create_payout_tx
<1>11. ASSUME NEW r \in Requests, create_payout_tx_lost(r) PROVE HandlerInv'
  BY <1>11 DEF create_payout_tx_lost, Queue!GiveBack
<1>12. ASSUME NEW r \in Requests, mark_as_completed(r) PROVE HandlerInv'
  BY <1>12 DEF mark_as_completed
<1>13. ASSUME NEW r \in Requests, finish_handler(r) PROVE HandlerInv'
  BY <1>13 DEF finish_handler, Queue!Complete
<1>14. ASSUME NEW r \in Requests, fail_handler(r) PROVE HandlerInv'
  BY <1>14 DEF fail_handler, Queue!GiveBack
<1>15. CASE UNCHANGED vars
  BY <1>15 DEF vars, requestVars, eventVars
<1> QED
  BY <1>1, <1>2, <1>3, <1>4, <1>5, <1>6, <1>7, <1>8, <1>9, <1>10, <1>11, <1>12, <1>13, <1>14,
     <1>15 DEF Next, Request, Handler

\* Every step keeps the record of which requests were in flight together.
LEMMA RivalsNext == Inv /\ [Next]_vars => RivalsInv'
<1> SUFFICES ASSUME Inv, [Next]_vars PROVE RivalsInv'
  OBVIOUS
<1> USE DEF Inv, TypeOK, requestVars, eventVars, HandlerGoes, RequestInv, RivalsInv,
      RequestSteps
<1>1. ASSUME NEW o \in Orders, update_order_state(o) PROVE RivalsInv'
  BY <1>1 DEF update_order_state
<1>2. ASSUME NEW r \in Requests, NEW S \in SUBSET Orders, NEW c \in Cryptos,
              pay_out_to_seller(r, S, c) PROVE RivalsInv'
  BY <1>2 DEF pay_out_to_seller, Refuse, validate_orders_for_payout
<1>3. ASSUME NEW r \in Requests, NEW fee \in BlockchainFees,
              check_payouts_exist(r, fee) PROVE RivalsInv'
  BY <1>3 DEF check_payouts_exist, Refuse, PaidOut
<1>4. ASSUME NEW r \in Requests, add_payout_event(r) PROVE RivalsInv'
  BY <1>4 DEF add_payout_event, Queue!Add
<1>5. ASSUME NEW r \in Requests, create(r) PROVE RivalsInv'
  BY <1>5 DEF create
<1>6. ASSUME NEW r \in Requests, abandon(r) PROVE RivalsInv'
  BY <1>6 DEF abandon, Refuse
<1>7. ASSUME NEW r \in Requests, start_handler(r) PROVE RivalsInv'
  BY <1>7 DEF start_handler, Queue!Start
<1>8. ASSUME NEW r \in Requests, handle_payout_initiated(r) PROVE RivalsInv'
  BY <1>8 DEF handle_payout_initiated
<1>9. ASSUME NEW r \in Requests, pay_out(r) PROVE RivalsInv'
  BY <1>9 DEF pay_out
<1>10. ASSUME NEW r \in Requests, create_payout_tx(r) PROVE RivalsInv'
  BY <1>10 DEF create_payout_tx
<1>11. ASSUME NEW r \in Requests, create_payout_tx_lost(r) PROVE RivalsInv'
  BY <1>11 DEF create_payout_tx_lost, Queue!GiveBack
<1>12. ASSUME NEW r \in Requests, mark_as_completed(r) PROVE RivalsInv'
  BY <1>12 DEF mark_as_completed
<1>13. ASSUME NEW r \in Requests, finish_handler(r) PROVE RivalsInv'
  BY <1>13 DEF finish_handler, Queue!Complete
<1>14. ASSUME NEW r \in Requests, fail_handler(r) PROVE RivalsInv'
  BY <1>14 DEF fail_handler, Queue!GiveBack
<1>15. CASE UNCHANGED vars
  BY <1>15 DEF vars, requestVars, eventVars
<1> QED
  BY <1>1, <1>2, <1>3, <1>4, <1>5, <1>6, <1>7, <1>8, <1>9, <1>10, <1>11, <1>12, <1>13, <1>14,
     <1>15 DEF Next, Request, Handler

\* The invariant is inductive.
LEMMA InvNext == Inv /\ [Next]_vars => Inv'
BY TypeNext, RequestNext, HandlerNext, RivalsNext DEF Inv

\* The invariant holds in every reachable state.
LEMMA InvAlways == Spec => []Inv
BY InvInit, InvNext, PTL DEF Spec

-----------------------------------------------------------------------------

\* However often a payout's event is retried, the gateway transfers once.
THEOREM NoDoubleTransferTheorem == Spec => []NoDoubleTransfer
<1>1. Inv => NoDoubleTransfer
  BY DEF Inv, HandlerInv, NoDoubleTransfer
<1> QED BY <1>1, InvAlways, PTL

\* Money moves only for a payout that exists, of orders due to the seller.
THEOREM TransferBackedTheorem == Spec => []TransferBacked
<1>1. Inv => TransferBacked
  BY DEF Inv, HandlerInv, RequestInv, TransferBacked
<1> QED BY <1>1, InvAlways, PTL

\* No payout exists without an event that was added to execute it.
THEOREM EveryPayoutAnnouncedTheorem == Spec => []EveryPayoutAnnounced
<1>1. Inv => EveryPayoutAnnounced
  BY DEF Inv, RequestInv, EveryPayoutAnnounced
<1> QED BY <1>1, InvAlways, PTL

\* A payout is left behind only when its handler ran before it was created.
THEOREM LostOnlyIfMissedTheorem == Spec => []LostOnlyIfMissed
<1>1. Inv => LostOnlyIfMissed
  BY DEF Inv, HandlerInv, LostOnlyIfMissed
<1> QED BY <1>1, InvAlways, PTL

\* Two payouts share an order only if their requests were in flight together.
THEOREM DoublePayoutTheorem == Spec => []DoublePayoutOnlyIfConcurrent
<1>1. Inv => DoublePayoutOnlyIfConcurrent
  BY DEF Inv, RequestInv, RivalsInv, DoublePayoutOnlyIfConcurrent
<1> QED BY <1>1, InvAlways, PTL

\* A payout moves money at most once, for orders that were due to the seller.
THEOREM TransfersTheorem == Spec => []TransfersSound
  BY NoDoubleTransferTheorem, TransferBackedTheorem, PTL DEF TransfersSound

\* Orders, requests, payouts and events keep their types.
THEOREM TypeTheorem == Spec => []TypeOK
<1>1. Inv => TypeOK
  BY DEF Inv
<1> QED BY <1>1, InvAlways, PTL

\* What calculate_payout proposes passes the checks of pay_out_to_seller.
LEMMA CalculatedPayable == CalculatedIsPayable
  BY DEF CalculatedIsPayable, calculate_payout, get_orders_for_payout, PaidOut,
     validate_orders_for_payout

=============================================================================
