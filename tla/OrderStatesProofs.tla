------------------------- MODULE OrderStatesProofs -------------------------
(* Theorems about OrderStates, for any orders, requests and attempts.       *)
EXTENDS OrderStates, TLAPS

\* The invariant holds before anything happened.
LEMMA InvInit == Init => Inv
<1> SUFFICES ASSUME Init PROVE Inv
  OBVIOUS
<1> USE OrderStatesAssumption DEF Init, Queue!Init, Queue!JobStates
<1>1. TypeOK
  BY DEF TypeOK, PaymentStates, RequestSteps, HandlerSteps
<1>2. RequestInv /\ CaptureInv
  BY DEF RequestInv, CaptureInv
<1>3. DeclineInv /\ RefundAccounted /\ RefundedTwiceOnlyIf /\ FeeMissingOnlyIf
  BY DEF DeclineInv, Declining, RefundAccounted, RefundedTwiceOnlyIf, FeeMissingOnlyIf
<1> QED BY <1>1, <1>2, <1>3 DEF Inv

\* Every step keeps the types.
LEMMA TypeNext == Inv /\ [Next]_vars => TypeOK'
<1> SUFFICES ASSUME Inv, [Next]_vars PROVE TypeOK'
  OBVIOUS
<1> USE OrderStatesAssumption DEF Inv, TypeOK, RequestInv, RequestGoes, HandlerGoes,
      orderVars, requestVars, eventVars, historyVars, Queue!JobStates, get,
      PaymentStates, RequestSteps, HandlerSteps, CaptureInv
<1>1. ASSUME payment_intent_charged PROVE TypeOK'
  BY <1>1 DEF payment_intent_charged
<1>2. ASSUME NEW r \in Requests, NEW o \in Orders, order_capture(r, o) PROVE TypeOK'
  BY <1>2 DEF order_capture, Asks
<1>3. ASSUME NEW r \in Requests, NEW o \in Orders, order_decline(r, o) PROVE TypeOK'
  BY <1>3 DEF order_decline, Asks, is_fiat
<1>4. ASSUME NEW r \in Requests, NEW o \in Orders, NEW new \in PaymentStates, update_order_state(r, o, new)
     PROVE TypeOK'
  BY <1>4 DEF update_order_state, Asks
<1>5. ASSUME NEW r \in Requests, NEW o \in Orders, refuse_update(r, o) PROVE TypeOK'
  BY <1>5 DEF refuse_update, Asks
<1>6. ASSUME NEW r \in Requests, order_capture_fiat(r) PROVE TypeOK'
  BY <1>6 DEF order_capture_fiat, is_fiat, Queue!Add
<1>7. ASSUME NEW r \in Requests, order_capture_crypto(r) PROVE TypeOK'
  BY <1>7 DEF order_capture_crypto, is_fiat, Writes, update_state
<1>8. ASSUME NEW r \in Requests, order_decline_crypto(r) PROVE TypeOK'
  BY <1>8 DEF order_decline_crypto, Writes, update_state
<1>9. ASSUME NEW r \in Requests, write_order_state(r) PROVE TypeOK'
  BY <1>9 DEF write_order_state, Writes, update_state
<1>10. ASSUME NEW r \in Requests, order_decline_fiat(r) PROVE TypeOK'
  BY <1>10 DEF order_decline_fiat
<1>11. ASSUME NEW r \in Requests, refund(r) PROVE TypeOK'
  BY <1>11 DEF refund, Refunded
<1>12. ASSUME NEW r \in Requests, set_declined(r) PROVE TypeOK'
  BY <1>12 DEF set_declined, Writes, update_state
<1>13. ASSUME NEW r \in Requests, lose_refund(r) PROVE TypeOK'
  BY <1>13 DEF lose_refund, Refunded
<1>14. ASSUME NEW r \in Requests, abandon(r) PROVE TypeOK'
  BY <1>14 DEF abandon
<1>15. ASSUME NEW r \in Requests, start_handler(r) PROVE TypeOK'
  BY <1>15 DEF start_handler, Queue!Start
<1>16. ASSUME NEW r \in Requests, handle_payment_intent_capture(r) PROVE TypeOK'
  BY <1>16 DEF handle_payment_intent_capture, get
<1>17. ASSUME NEW r \in Requests, get_charge(r) PROVE TypeOK'
  BY <1>17 DEF get_charge
<1>18. ASSUME NEW r \in Requests, set_captured(r) PROVE TypeOK'
  BY <1>18 DEF set_captured, update_state
<1>19. ASSUME NEW r \in Requests, set_stripe_fee(r) PROVE TypeOK'
  BY <1>19 DEF set_stripe_fee, update_stripe_fee
<1>20. ASSUME NEW r \in Requests, finish_handler(r) PROVE TypeOK'
  BY <1>20 DEF finish_handler, Queue!Complete
<1>21. ASSUME NEW r \in Requests, fail_handler(r) PROVE TypeOK'
  BY <1>21 DEF fail_handler, Queue!GiveBack
<1>22. CASE UNCHANGED vars
  BY <1>22 DEF vars
<1> HIDE OrderStatesAssumption DEF Inv, TypeOK, RequestInv, RequestGoes, HandlerGoes,
      orderVars, requestVars, eventVars, historyVars, Queue!JobStates, get,
      PaymentStates, RequestSteps, HandlerSteps, CaptureInv
<1> QED
  BY <1>1, <1>2, <1>3, <1>4, <1>5, <1>6, <1>7, <1>8, <1>9, <1>10, <1>11, <1>12, <1>13,
     <1>14, <1>15, <1>16, <1>17, <1>18, <1>19, <1>20, <1>21, <1>22 DEF Next, Request,
     Handler

\* Every step keeps what a request says of its order.
LEMMA RequestNext == Inv /\ [Next]_vars => RequestInv'
<1> SUFFICES ASSUME Inv, [Next]_vars PROVE RequestInv'
  OBVIOUS
<1> USE OrderStatesAssumption DEF Inv, TypeOK, RequestInv, RequestGoes, HandlerGoes,
      orderVars, requestVars, eventVars, historyVars, Queue!JobStates, get,
      RequestSteps, HandlerSteps
<1>1. ASSUME payment_intent_charged PROVE RequestInv'
  BY <1>1 DEF payment_intent_charged
<1>2. ASSUME NEW r \in Requests, NEW o \in Orders, order_capture(r, o) PROVE RequestInv'
  BY <1>2 DEF order_capture, Asks
<1>3. ASSUME NEW r \in Requests, NEW o \in Orders, order_decline(r, o) PROVE RequestInv'
  BY <1>3 DEF order_decline, Asks, is_fiat
<1>4. ASSUME NEW r \in Requests, NEW o \in Orders, NEW new \in PaymentStates, update_order_state(r, o, new)
     PROVE RequestInv'
  BY <1>4 DEF update_order_state, Asks
<1>5. ASSUME NEW r \in Requests, NEW o \in Orders, refuse_update(r, o) PROVE RequestInv'
  BY <1>5 DEF refuse_update, Asks
<1>6. ASSUME NEW r \in Requests, order_capture_fiat(r) PROVE RequestInv'
  BY <1>6 DEF order_capture_fiat, is_fiat, Queue!Add
<1>7. ASSUME NEW r \in Requests, order_capture_crypto(r) PROVE RequestInv'
  BY <1>7 DEF order_capture_crypto, is_fiat, Writes, update_state
<1>8. ASSUME NEW r \in Requests, order_decline_crypto(r) PROVE RequestInv'
  BY <1>8 DEF order_decline_crypto, Writes, update_state
<1>9. ASSUME NEW r \in Requests, write_order_state(r) PROVE RequestInv'
  BY <1>9 DEF write_order_state, Writes, update_state
<1>10. ASSUME NEW r \in Requests, order_decline_fiat(r) PROVE RequestInv'
  BY <1>10 DEF order_decline_fiat
<1>11. ASSUME NEW r \in Requests, refund(r) PROVE RequestInv'
  BY <1>11 DEF refund, Refunded
<1>12. ASSUME NEW r \in Requests, set_declined(r) PROVE RequestInv'
  BY <1>12 DEF set_declined, Writes, update_state
<1>13. ASSUME NEW r \in Requests, lose_refund(r) PROVE RequestInv'
  BY <1>13 DEF lose_refund, Refunded
<1>14. ASSUME NEW r \in Requests, abandon(r) PROVE RequestInv'
  BY <1>14 DEF abandon
<1>15. ASSUME NEW r \in Requests, start_handler(r) PROVE RequestInv'
  BY <1>15 DEF start_handler, Queue!Start
<1>16. ASSUME NEW r \in Requests, handle_payment_intent_capture(r) PROVE RequestInv'
  BY <1>16 DEF handle_payment_intent_capture, get
<1>17. ASSUME NEW r \in Requests, get_charge(r) PROVE RequestInv'
  BY <1>17 DEF get_charge
<1>18. ASSUME NEW r \in Requests, set_captured(r) PROVE RequestInv'
  BY <1>18 DEF set_captured, update_state
<1>19. ASSUME NEW r \in Requests, set_stripe_fee(r) PROVE RequestInv'
  BY <1>19 DEF set_stripe_fee, update_stripe_fee
<1>20. ASSUME NEW r \in Requests, finish_handler(r) PROVE RequestInv'
  BY <1>20 DEF finish_handler, Queue!Complete
<1>21. ASSUME NEW r \in Requests, fail_handler(r) PROVE RequestInv'
  BY <1>21 DEF fail_handler, Queue!GiveBack
<1>22. CASE UNCHANGED vars
  BY <1>22 DEF vars
<1> HIDE OrderStatesAssumption DEF Inv, TypeOK, RequestInv, RequestGoes, HandlerGoes,
      orderVars, requestVars, eventVars, historyVars, Queue!JobStates, get,
      RequestSteps, HandlerSteps
<1> QED
  BY <1>1, <1>2, <1>3, <1>4, <1>5, <1>6, <1>7, <1>8, <1>9, <1>10, <1>11, <1>12, <1>13,
     <1>14, <1>15, <1>16, <1>17, <1>18, <1>19, <1>20, <1>21, <1>22 DEF Next, Request,
     Handler

\* Every step keeps captured orders out of Initial.
LEMMA CaptureNext == Inv /\ [Next]_vars => CaptureInv'
<1> SUFFICES ASSUME Inv, [Next]_vars PROVE CaptureInv'
  OBVIOUS
<1> USE OrderStatesAssumption DEF Inv, TypeOK, RequestInv, RequestGoes, HandlerGoes,
      orderVars, requestVars, eventVars, historyVars, Queue!JobStates, get, CaptureInv,
      check_change_order_payment_state
<1>1. ASSUME payment_intent_charged PROVE CaptureInv'
  BY <1>1 DEF payment_intent_charged
<1>2. ASSUME NEW r \in Requests, NEW o \in Orders, order_capture(r, o) PROVE CaptureInv'
  BY <1>2 DEF order_capture, Asks
<1>3. ASSUME NEW r \in Requests, NEW o \in Orders, order_decline(r, o) PROVE CaptureInv'
  BY <1>3 DEF order_decline, Asks, is_fiat
<1>4. ASSUME NEW r \in Requests, NEW o \in Orders, NEW new \in PaymentStates, update_order_state(r, o, new)
     PROVE CaptureInv'
  BY <1>4 DEF update_order_state, Asks
<1>5. ASSUME NEW r \in Requests, NEW o \in Orders, refuse_update(r, o) PROVE CaptureInv'
  BY <1>5 DEF refuse_update, Asks
<1>6. ASSUME NEW r \in Requests, order_capture_fiat(r) PROVE CaptureInv'
  BY <1>6 DEF order_capture_fiat, is_fiat, Queue!Add
<1>7. ASSUME NEW r \in Requests, order_capture_crypto(r) PROVE CaptureInv'
  BY <1>7 DEF order_capture_crypto, is_fiat, Writes, update_state
<1>8. ASSUME NEW r \in Requests, order_decline_crypto(r) PROVE CaptureInv'
  BY <1>8 DEF order_decline_crypto, Writes, update_state
<1>9. ASSUME NEW r \in Requests, write_order_state(r) PROVE CaptureInv'
  BY <1>9 DEF write_order_state, Writes, update_state
<1>10. ASSUME NEW r \in Requests, order_decline_fiat(r) PROVE CaptureInv'
  BY <1>10 DEF order_decline_fiat
<1>11. ASSUME NEW r \in Requests, refund(r) PROVE CaptureInv'
  BY <1>11 DEF refund, Refunded
<1>12. ASSUME NEW r \in Requests, set_declined(r) PROVE CaptureInv'
  BY <1>12 DEF set_declined, Writes, update_state
<1>13. ASSUME NEW r \in Requests, lose_refund(r) PROVE CaptureInv'
  BY <1>13 DEF lose_refund, Refunded
<1>14. ASSUME NEW r \in Requests, abandon(r) PROVE CaptureInv'
  BY <1>14 DEF abandon
<1>15. ASSUME NEW r \in Requests, start_handler(r) PROVE CaptureInv'
  BY <1>15 DEF start_handler, Queue!Start
<1>16. ASSUME NEW r \in Requests, handle_payment_intent_capture(r) PROVE CaptureInv'
  BY <1>16 DEF handle_payment_intent_capture, get
<1>17. ASSUME NEW r \in Requests, get_charge(r) PROVE CaptureInv'
  BY <1>17 DEF get_charge
<1>18. ASSUME NEW r \in Requests, set_captured(r) PROVE CaptureInv'
  BY <1>18 DEF set_captured, update_state
<1>19. ASSUME NEW r \in Requests, set_stripe_fee(r) PROVE CaptureInv'
  BY <1>19 DEF set_stripe_fee, update_stripe_fee
<1>20. ASSUME NEW r \in Requests, finish_handler(r) PROVE CaptureInv'
  BY <1>20 DEF finish_handler, Queue!Complete
<1>21. ASSUME NEW r \in Requests, fail_handler(r) PROVE CaptureInv'
  BY <1>21 DEF fail_handler, Queue!GiveBack
<1>22. CASE UNCHANGED vars
  BY <1>22 DEF vars
<1> HIDE OrderStatesAssumption DEF Inv, TypeOK, RequestInv, RequestGoes, HandlerGoes,
      orderVars, requestVars, eventVars, historyVars, Queue!JobStates, get, CaptureInv,
      check_change_order_payment_state
<1> QED
  BY <1>1, <1>2, <1>3, <1>4, <1>5, <1>6, <1>7, <1>8, <1>9, <1>10, <1>11, <1>12, <1>13,
     <1>14, <1>15, <1>16, <1>17, <1>18, <1>19, <1>20, <1>21, <1>22 DEF Next, Request,
     Handler

\* Every step keeps declines apart.
LEMMA DeclineNext == Inv /\ [Next]_vars => DeclineInv'
<1> SUFFICES ASSUME Inv, [Next]_vars PROVE DeclineInv'
  OBVIOUS
<1> USE OrderStatesAssumption DEF Inv, TypeOK, RequestInv, RequestGoes, HandlerGoes,
      orderVars, requestVars, eventVars, historyVars, Queue!JobStates, get, DeclineInv,
      Declining, RefundedTwiceOnlyIf, check_change_order_payment_state
<1>1. ASSUME payment_intent_charged PROVE DeclineInv'
  BY <1>1 DEF payment_intent_charged
<1>2. ASSUME NEW r \in Requests, NEW o \in Orders, order_capture(r, o) PROVE DeclineInv'
  BY <1>2 DEF order_capture, Asks
<1>3. ASSUME NEW r \in Requests, NEW o \in Orders, order_decline(r, o) PROVE DeclineInv'
  <2> USE <1>3 DEF order_decline, Asks, is_fiat
  <2> SUFFICES ASSUME NEW k \in Orders, k \notin rivals', k \notin interrupted'
               PROVE  /\ \A p, q \in Declining(k)' : p = q
                      /\ refunds[k] > 0 => \A p \in Declining(k)' : rstep'[p] = "mark"
                      /\ refunds[k] > 0 /\ payment_state[k] = "Initial" => Declining(k)' # {}
    OBVIOUS
  <2>1. k \notin rivals \cup interrupted
    OBVIOUS
  <2>2. CASE k # o \/ payment_state[o] # "Initial" \/ o \notin Fiat
    <3>0. r \notin Declining(k) /\ r \notin Declining(k)'
      BY <2>2
    <3>1. Declining(k)' = Declining(k)
      BY <3>0
    <3>2. \A p \in Declining(k) : rstep'[p] = rstep[p]
      OBVIOUS
    <3> QED BY <2>1, <3>1, <3>2
  <2>3. CASE k = o /\ payment_state[o] = "Initial" /\ o \in Fiat
    <3>1. Declining(k) = {}
      BY <2>3
    <3>2. Declining(k)' = {r}
      BY <2>3, <3>1
    <3>3. ~(refunds[k] > 0)
      BY <2>1, <2>3, <3>1
    <3> QED BY <3>2, <3>3
  <2> QED BY <2>2, <2>3
<1>4. ASSUME NEW r \in Requests, NEW o \in Orders, NEW new \in PaymentStates, update_order_state(r, o, new)
     PROVE DeclineInv'
  BY <1>4 DEF update_order_state, Asks
<1>5. ASSUME NEW r \in Requests, NEW o \in Orders, refuse_update(r, o) PROVE DeclineInv'
  BY <1>5 DEF refuse_update, Asks
<1>6. ASSUME NEW r \in Requests, order_capture_fiat(r) PROVE DeclineInv'
  BY <1>6 DEF order_capture_fiat, is_fiat, Queue!Add
<1>7. ASSUME NEW r \in Requests, order_capture_crypto(r) PROVE DeclineInv'
  BY <1>7 DEF order_capture_crypto, is_fiat, Writes, update_state
<1>8. ASSUME NEW r \in Requests, order_decline_crypto(r) PROVE DeclineInv'
  BY <1>8 DEF order_decline_crypto, Writes, update_state
<1>9. ASSUME NEW r \in Requests, write_order_state(r) PROVE DeclineInv'
  BY <1>9 DEF write_order_state, Writes, update_state
<1>10. ASSUME NEW r \in Requests, order_decline_fiat(r) PROVE DeclineInv'
  BY <1>10 DEF order_decline_fiat
<1>11. ASSUME NEW r \in Requests, refund(r) PROVE DeclineInv'
  BY <1>11 DEF refund, Refunded
<1>12. ASSUME NEW r \in Requests, set_declined(r) PROVE DeclineInv'
  BY <1>12 DEF set_declined, Writes, update_state
<1>13. ASSUME NEW r \in Requests, lose_refund(r) PROVE DeclineInv'
  BY <1>13 DEF lose_refund, Refunded
<1>14. ASSUME NEW r \in Requests, abandon(r) PROVE DeclineInv'
  BY <1>14 DEF abandon
<1>15. ASSUME NEW r \in Requests, start_handler(r) PROVE DeclineInv'
  BY <1>15 DEF start_handler, Queue!Start
<1>16. ASSUME NEW r \in Requests, handle_payment_intent_capture(r) PROVE DeclineInv'
  BY <1>16 DEF handle_payment_intent_capture, get
<1>17. ASSUME NEW r \in Requests, get_charge(r) PROVE DeclineInv'
  BY <1>17 DEF get_charge
<1>18. ASSUME NEW r \in Requests, set_captured(r) PROVE DeclineInv'
  BY <1>18 DEF set_captured, update_state
<1>19. ASSUME NEW r \in Requests, set_stripe_fee(r) PROVE DeclineInv'
  BY <1>19 DEF set_stripe_fee, update_stripe_fee
<1>20. ASSUME NEW r \in Requests, finish_handler(r) PROVE DeclineInv'
  BY <1>20 DEF finish_handler, Queue!Complete
<1>21. ASSUME NEW r \in Requests, fail_handler(r) PROVE DeclineInv'
  BY <1>21 DEF fail_handler, Queue!GiveBack
<1>22. CASE UNCHANGED vars
  BY <1>22 DEF vars
<1> HIDE OrderStatesAssumption DEF Inv, TypeOK, RequestInv, RequestGoes, HandlerGoes,
      orderVars, requestVars, eventVars, historyVars, Queue!JobStates, get, DeclineInv,
      Declining, RefundedTwiceOnlyIf, check_change_order_payment_state
<1> QED
  BY <1>1, <1>2, <1>3, <1>4, <1>5, <1>6, <1>7, <1>8, <1>9, <1>10, <1>11, <1>12, <1>13,
     <1>14, <1>15, <1>16, <1>17, <1>18, <1>19, <1>20, <1>21, <1>22 DEF Next, Request,
     Handler

\* Every step accounts for the refunds.
LEMMA RefundNext == Inv /\ [Next]_vars => RefundAccounted'
<1> SUFFICES ASSUME Inv, [Next]_vars PROVE RefundAccounted'
  OBVIOUS
<1> USE OrderStatesAssumption DEF Inv, TypeOK, RequestInv, RequestGoes, HandlerGoes,
      orderVars, requestVars, eventVars, historyVars, Queue!JobStates, get,
      RefundAccounted, check_change_order_payment_state
<1>1. ASSUME payment_intent_charged PROVE RefundAccounted'
  BY <1>1 DEF payment_intent_charged
<1>2. ASSUME NEW r \in Requests, NEW o \in Orders, order_capture(r, o)
     PROVE RefundAccounted'
  BY <1>2 DEF order_capture, Asks
<1>3. ASSUME NEW r \in Requests, NEW o \in Orders, order_decline(r, o)
     PROVE RefundAccounted'
  BY <1>3 DEF order_decline, Asks, is_fiat
<1>4. ASSUME NEW r \in Requests, NEW o \in Orders, NEW new \in PaymentStates, update_order_state(r, o, new)
     PROVE RefundAccounted'
  BY <1>4 DEF update_order_state, Asks
<1>5. ASSUME NEW r \in Requests, NEW o \in Orders, refuse_update(r, o)
     PROVE RefundAccounted'
  BY <1>5 DEF refuse_update, Asks
<1>6. ASSUME NEW r \in Requests, order_capture_fiat(r) PROVE RefundAccounted'
  BY <1>6 DEF order_capture_fiat, is_fiat, Queue!Add
<1>7. ASSUME NEW r \in Requests, order_capture_crypto(r) PROVE RefundAccounted'
  BY <1>7 DEF order_capture_crypto, is_fiat, Writes, update_state
<1>8. ASSUME NEW r \in Requests, order_decline_crypto(r) PROVE RefundAccounted'
  BY <1>8 DEF order_decline_crypto, Writes, update_state
<1>9. ASSUME NEW r \in Requests, write_order_state(r) PROVE RefundAccounted'
  BY <1>9 DEF write_order_state, Writes, update_state
<1>10. ASSUME NEW r \in Requests, order_decline_fiat(r) PROVE RefundAccounted'
  BY <1>10 DEF order_decline_fiat
<1>11. ASSUME NEW r \in Requests, refund(r) PROVE RefundAccounted'
  BY <1>11 DEF refund, Refunded
<1>12. ASSUME NEW r \in Requests, set_declined(r) PROVE RefundAccounted'
  BY <1>12 DEF set_declined, Writes, update_state
<1>13. ASSUME NEW r \in Requests, lose_refund(r) PROVE RefundAccounted'
  BY <1>13 DEF lose_refund, Refunded
<1>14. ASSUME NEW r \in Requests, abandon(r) PROVE RefundAccounted'
  BY <1>14 DEF abandon
<1>15. ASSUME NEW r \in Requests, start_handler(r) PROVE RefundAccounted'
  BY <1>15 DEF start_handler, Queue!Start
<1>16. ASSUME NEW r \in Requests, handle_payment_intent_capture(r) PROVE RefundAccounted'
  BY <1>16 DEF handle_payment_intent_capture, get
<1>17. ASSUME NEW r \in Requests, get_charge(r) PROVE RefundAccounted'
  BY <1>17 DEF get_charge
<1>18. ASSUME NEW r \in Requests, set_captured(r) PROVE RefundAccounted'
  BY <1>18 DEF set_captured, update_state
<1>19. ASSUME NEW r \in Requests, set_stripe_fee(r) PROVE RefundAccounted'
  BY <1>19 DEF set_stripe_fee, update_stripe_fee
<1>20. ASSUME NEW r \in Requests, finish_handler(r) PROVE RefundAccounted'
  BY <1>20 DEF finish_handler, Queue!Complete
<1>21. ASSUME NEW r \in Requests, fail_handler(r) PROVE RefundAccounted'
  BY <1>21 DEF fail_handler, Queue!GiveBack
<1>22. CASE UNCHANGED vars
  BY <1>22 DEF vars
<1> HIDE OrderStatesAssumption DEF Inv, TypeOK, RequestInv, RequestGoes, HandlerGoes,
      orderVars, requestVars, eventVars, historyVars, Queue!JobStates, get,
      RefundAccounted, check_change_order_payment_state
<1> QED
  BY <1>1, <1>2, <1>3, <1>4, <1>5, <1>6, <1>7, <1>8, <1>9, <1>10, <1>11, <1>12, <1>13,
     <1>14, <1>15, <1>16, <1>17, <1>18, <1>19, <1>20, <1>21, <1>22 DEF Next, Request,
     Handler

\* Every step keeps refunds apart.
LEMMA TwiceNext == Inv /\ [Next]_vars => RefundedTwiceOnlyIf'
<1> SUFFICES ASSUME Inv, [Next]_vars PROVE RefundedTwiceOnlyIf'
  OBVIOUS
<1> USE OrderStatesAssumption DEF Inv, TypeOK, RequestInv, RequestGoes, HandlerGoes,
      orderVars, requestVars, eventVars, historyVars, Queue!JobStates, get, DeclineInv,
      Declining, RefundedTwiceOnlyIf
<1>1. ASSUME payment_intent_charged PROVE RefundedTwiceOnlyIf'
  BY <1>1 DEF payment_intent_charged
<1>2. ASSUME NEW r \in Requests, NEW o \in Orders, order_capture(r, o)
     PROVE RefundedTwiceOnlyIf'
  BY <1>2 DEF order_capture, Asks
<1>3. ASSUME NEW r \in Requests, NEW o \in Orders, order_decline(r, o)
     PROVE RefundedTwiceOnlyIf'
  BY <1>3 DEF order_decline, Asks, is_fiat
<1>4. ASSUME NEW r \in Requests, NEW o \in Orders, NEW new \in PaymentStates, update_order_state(r, o, new)
     PROVE RefundedTwiceOnlyIf'
  BY <1>4 DEF update_order_state, Asks
<1>5. ASSUME NEW r \in Requests, NEW o \in Orders, refuse_update(r, o)
     PROVE RefundedTwiceOnlyIf'
  BY <1>5 DEF refuse_update, Asks
<1>6. ASSUME NEW r \in Requests, order_capture_fiat(r) PROVE RefundedTwiceOnlyIf'
  BY <1>6 DEF order_capture_fiat, is_fiat, Queue!Add
<1>7. ASSUME NEW r \in Requests, order_capture_crypto(r) PROVE RefundedTwiceOnlyIf'
  BY <1>7 DEF order_capture_crypto, is_fiat, Writes, update_state
<1>8. ASSUME NEW r \in Requests, order_decline_crypto(r) PROVE RefundedTwiceOnlyIf'
  BY <1>8 DEF order_decline_crypto, Writes, update_state
<1>9. ASSUME NEW r \in Requests, write_order_state(r) PROVE RefundedTwiceOnlyIf'
  BY <1>9 DEF write_order_state, Writes, update_state
<1>10. ASSUME NEW r \in Requests, order_decline_fiat(r) PROVE RefundedTwiceOnlyIf'
  BY <1>10 DEF order_decline_fiat
<1>11. ASSUME NEW r \in Requests, refund(r) PROVE RefundedTwiceOnlyIf'
  BY <1>11 DEF refund, Refunded
<1>12. ASSUME NEW r \in Requests, set_declined(r) PROVE RefundedTwiceOnlyIf'
  BY <1>12 DEF set_declined, Writes, update_state
<1>13. ASSUME NEW r \in Requests, lose_refund(r) PROVE RefundedTwiceOnlyIf'
  BY <1>13 DEF lose_refund, Refunded
<1>14. ASSUME NEW r \in Requests, abandon(r) PROVE RefundedTwiceOnlyIf'
  BY <1>14 DEF abandon
<1>15. ASSUME NEW r \in Requests, start_handler(r) PROVE RefundedTwiceOnlyIf'
  BY <1>15 DEF start_handler, Queue!Start
<1>16. ASSUME NEW r \in Requests, handle_payment_intent_capture(r)
     PROVE RefundedTwiceOnlyIf'
  BY <1>16 DEF handle_payment_intent_capture, get
<1>17. ASSUME NEW r \in Requests, get_charge(r) PROVE RefundedTwiceOnlyIf'
  BY <1>17 DEF get_charge
<1>18. ASSUME NEW r \in Requests, set_captured(r) PROVE RefundedTwiceOnlyIf'
  BY <1>18 DEF set_captured, update_state
<1>19. ASSUME NEW r \in Requests, set_stripe_fee(r) PROVE RefundedTwiceOnlyIf'
  BY <1>19 DEF set_stripe_fee, update_stripe_fee
<1>20. ASSUME NEW r \in Requests, finish_handler(r) PROVE RefundedTwiceOnlyIf'
  BY <1>20 DEF finish_handler, Queue!Complete
<1>21. ASSUME NEW r \in Requests, fail_handler(r) PROVE RefundedTwiceOnlyIf'
  BY <1>21 DEF fail_handler, Queue!GiveBack
<1>22. CASE UNCHANGED vars
  BY <1>22 DEF vars
<1> HIDE OrderStatesAssumption DEF Inv, TypeOK, RequestInv, RequestGoes, HandlerGoes,
      orderVars, requestVars, eventVars, historyVars, Queue!JobStates, get, DeclineInv,
      Declining, RefundedTwiceOnlyIf
<1> QED
  BY <1>1, <1>2, <1>3, <1>4, <1>5, <1>6, <1>7, <1>8, <1>9, <1>10, <1>11, <1>12, <1>13,
     <1>14, <1>15, <1>16, <1>17, <1>18, <1>19, <1>20, <1>21, <1>22 DEF Next, Request,
     Handler

\* Every step keeps the Stripe fees of captured orders.
LEMMA FeeNext == Inv /\ [Next]_vars => FeeMissingOnlyIf'
<1> SUFFICES ASSUME Inv, [Next]_vars PROVE FeeMissingOnlyIf'
  OBVIOUS
<1> USE OrderStatesAssumption DEF Inv, TypeOK, RequestInv, RequestGoes, HandlerGoes,
      orderVars, requestVars, eventVars, historyVars, Queue!JobStates, get, CaptureInv,
      FeeMissingOnlyIf, check_change_order_payment_state
<1>1. ASSUME payment_intent_charged PROVE FeeMissingOnlyIf'
  BY <1>1 DEF payment_intent_charged
<1>2. ASSUME NEW r \in Requests, NEW o \in Orders, order_capture(r, o)
     PROVE FeeMissingOnlyIf'
  BY <1>2 DEF order_capture, Asks
<1>3. ASSUME NEW r \in Requests, NEW o \in Orders, order_decline(r, o)
     PROVE FeeMissingOnlyIf'
  BY <1>3 DEF order_decline, Asks, is_fiat
<1>4. ASSUME NEW r \in Requests, NEW o \in Orders, NEW new \in PaymentStates, update_order_state(r, o, new)
     PROVE FeeMissingOnlyIf'
  BY <1>4 DEF update_order_state, Asks
<1>5. ASSUME NEW r \in Requests, NEW o \in Orders, refuse_update(r, o)
     PROVE FeeMissingOnlyIf'
  BY <1>5 DEF refuse_update, Asks
<1>6. ASSUME NEW r \in Requests, order_capture_fiat(r) PROVE FeeMissingOnlyIf'
  BY <1>6 DEF order_capture_fiat, is_fiat, Queue!Add
<1>7. ASSUME NEW r \in Requests, order_capture_crypto(r) PROVE FeeMissingOnlyIf'
  BY <1>7 DEF order_capture_crypto, is_fiat, Writes, update_state
<1>8. ASSUME NEW r \in Requests, order_decline_crypto(r) PROVE FeeMissingOnlyIf'
  BY <1>8 DEF order_decline_crypto, Writes, update_state
<1>9. ASSUME NEW r \in Requests, write_order_state(r) PROVE FeeMissingOnlyIf'
  BY <1>9 DEF write_order_state, Writes, update_state
<1>10. ASSUME NEW r \in Requests, order_decline_fiat(r) PROVE FeeMissingOnlyIf'
  BY <1>10 DEF order_decline_fiat
<1>11. ASSUME NEW r \in Requests, refund(r) PROVE FeeMissingOnlyIf'
  BY <1>11 DEF refund, Refunded
<1>12. ASSUME NEW r \in Requests, set_declined(r) PROVE FeeMissingOnlyIf'
  BY <1>12 DEF set_declined, Writes, update_state
<1>13. ASSUME NEW r \in Requests, lose_refund(r) PROVE FeeMissingOnlyIf'
  BY <1>13 DEF lose_refund, Refunded
<1>14. ASSUME NEW r \in Requests, abandon(r) PROVE FeeMissingOnlyIf'
  BY <1>14 DEF abandon
<1>15. ASSUME NEW r \in Requests, start_handler(r) PROVE FeeMissingOnlyIf'
  BY <1>15 DEF start_handler, Queue!Start
<1>16. ASSUME NEW r \in Requests, handle_payment_intent_capture(r) PROVE FeeMissingOnlyIf'
  BY <1>16 DEF handle_payment_intent_capture, get
<1>17. ASSUME NEW r \in Requests, get_charge(r) PROVE FeeMissingOnlyIf'
  BY <1>17 DEF get_charge
<1>18. ASSUME NEW r \in Requests, set_captured(r) PROVE FeeMissingOnlyIf'
  BY <1>18 DEF set_captured, update_state
<1>19. ASSUME NEW r \in Requests, set_stripe_fee(r) PROVE FeeMissingOnlyIf'
  BY <1>19 DEF set_stripe_fee, update_stripe_fee
<1>20. ASSUME NEW r \in Requests, finish_handler(r) PROVE FeeMissingOnlyIf'
  BY <1>20 DEF finish_handler, Queue!Complete
<1>21. ASSUME NEW r \in Requests, fail_handler(r) PROVE FeeMissingOnlyIf'
  BY <1>21 DEF fail_handler, Queue!GiveBack
<1>22. CASE UNCHANGED vars
  BY <1>22 DEF vars
<1> HIDE OrderStatesAssumption DEF Inv, TypeOK, RequestInv, RequestGoes, HandlerGoes,
      orderVars, requestVars, eventVars, historyVars, Queue!JobStates, get, CaptureInv,
      FeeMissingOnlyIf, check_change_order_payment_state
<1> QED
  BY <1>1, <1>2, <1>3, <1>4, <1>5, <1>6, <1>7, <1>8, <1>9, <1>10, <1>11, <1>12, <1>13,
     <1>14, <1>15, <1>16, <1>17, <1>18, <1>19, <1>20, <1>21, <1>22 DEF Next, Request,
     Handler

\* The invariant is inductive.
LEMMA InvNext == Inv /\ [Next]_vars => Inv'
BY TypeNext, RequestNext, CaptureNext, DeclineNext, RefundNext, TwiceNext, FeeNext DEF Inv

\* The invariant holds in every reachable state.
LEMMA InvAlways == Spec => []Inv
BY InvInit, InvNext, PTL DEF Spec

-----------------------------------------------------------------------------

\* A refunded order is declined or about to be, unless its state was written
\* from an outdated read or a decline stopped half way.
THEOREM RefundAccountedTheorem == Spec => []RefundAccounted
<1>1. Inv => RefundAccounted
  BY DEF Inv
<1> QED BY <1>1, InvAlways, PTL

\* Two refunds of an order need two declines at once or one that stopped.
THEOREM RefundedTwiceTheorem == Spec => []RefundedTwiceOnlyIf
<1>1. Inv => RefundedTwiceOnlyIf
  BY DEF Inv
<1> QED BY <1>1, InvAlways, PTL

\* A captured order lacks its Stripe fee only if an attempt stopped between the
\* two statements of the handler.
THEOREM FeeMissingTheorem == Spec => []FeeMissingOnlyIf
<1>1. Inv => FeeMissingOnlyIf
  BY DEF Inv
<1> QED BY <1>1, InvAlways, PTL

\* An order leaves a final state only by a write decided on an outdated read.
THEOREM FinalTheorem == Spec => FinalUnlessStale
<1>1. ASSUME Inv, [Next]_vars, NEW k \in Orders,
             payment_state[k] \in {"Declined", "Refunded", "PaidToSeller"}
      PROVE  payment_state'[k] = payment_state[k] \/ k \in stale'
  <2> USE <1>1, OrderStatesAssumption DEF Inv, TypeOK, RequestInv, RequestGoes,
        HandlerGoes, orderVars, requestVars, eventVars, historyVars, Queue!JobStates,
        get, check_change_order_payment_state
  <2>1. ASSUME payment_intent_charged
       PROVE payment_state'[k] = payment_state[k] \/ k \in stale'
    BY <2>1 DEF payment_intent_charged
  <2>2. ASSUME NEW r \in Requests, NEW o \in Orders, order_capture(r, o)
       PROVE payment_state'[k] = payment_state[k] \/ k \in stale'
    BY <2>2 DEF order_capture, Asks
  <2>3. ASSUME NEW r \in Requests, NEW o \in Orders, order_decline(r, o)
       PROVE payment_state'[k] = payment_state[k] \/ k \in stale'
    BY <2>3 DEF order_decline, Asks, is_fiat
  <2>4. ASSUME NEW r \in Requests, NEW o \in Orders, NEW new \in PaymentStates, update_order_state(r, o, new)
       PROVE payment_state'[k] = payment_state[k] \/ k \in stale'
    BY <2>4 DEF update_order_state, Asks
  <2>5. ASSUME NEW r \in Requests, NEW o \in Orders, refuse_update(r, o)
       PROVE payment_state'[k] = payment_state[k] \/ k \in stale'
    BY <2>5 DEF refuse_update, Asks
  <2>6. ASSUME NEW r \in Requests, order_capture_fiat(r)
       PROVE payment_state'[k] = payment_state[k] \/ k \in stale'
    BY <2>6 DEF order_capture_fiat, is_fiat, Queue!Add
  <2>7. ASSUME NEW r \in Requests, order_capture_crypto(r)
       PROVE payment_state'[k] = payment_state[k] \/ k \in stale'
    BY <2>7 DEF order_capture_crypto, is_fiat, Writes, update_state
  <2>8. ASSUME NEW r \in Requests, order_decline_crypto(r)
       PROVE payment_state'[k] = payment_state[k] \/ k \in stale'
    BY <2>8 DEF order_decline_crypto, Writes, update_state
  <2>9. ASSUME NEW r \in Requests, write_order_state(r)
       PROVE payment_state'[k] = payment_state[k] \/ k \in stale'
    BY <2>9 DEF write_order_state, Writes, update_state
  <2>10. ASSUME NEW r \in Requests, order_decline_fiat(r)
       PROVE payment_state'[k] = payment_state[k] \/ k \in stale'
    BY <2>10 DEF order_decline_fiat
  <2>11. ASSUME NEW r \in Requests, refund(r)
       PROVE payment_state'[k] = payment_state[k] \/ k \in stale'
    BY <2>11 DEF refund, Refunded
  <2>12. ASSUME NEW r \in Requests, set_declined(r)
       PROVE payment_state'[k] = payment_state[k] \/ k \in stale'
    BY <2>12 DEF set_declined, Writes, update_state
  <2>13. ASSUME NEW r \in Requests, lose_refund(r)
       PROVE payment_state'[k] = payment_state[k] \/ k \in stale'
    BY <2>13 DEF lose_refund, Refunded
  <2>14. ASSUME NEW r \in Requests, abandon(r)
       PROVE payment_state'[k] = payment_state[k] \/ k \in stale'
    BY <2>14 DEF abandon
  <2>15. ASSUME NEW r \in Requests, start_handler(r)
       PROVE payment_state'[k] = payment_state[k] \/ k \in stale'
    BY <2>15 DEF start_handler, Queue!Start
  <2>16. ASSUME NEW r \in Requests, handle_payment_intent_capture(r)
       PROVE payment_state'[k] = payment_state[k] \/ k \in stale'
    BY <2>16 DEF handle_payment_intent_capture, get
  <2>17. ASSUME NEW r \in Requests, get_charge(r)
       PROVE payment_state'[k] = payment_state[k] \/ k \in stale'
    BY <2>17 DEF get_charge
  <2>18. ASSUME NEW r \in Requests, set_captured(r)
       PROVE payment_state'[k] = payment_state[k] \/ k \in stale'
    BY <2>18 DEF set_captured, update_state
  <2>19. ASSUME NEW r \in Requests, set_stripe_fee(r)
       PROVE payment_state'[k] = payment_state[k] \/ k \in stale'
    BY <2>19 DEF set_stripe_fee, update_stripe_fee
  <2>20. ASSUME NEW r \in Requests, finish_handler(r)
       PROVE payment_state'[k] = payment_state[k] \/ k \in stale'
    BY <2>20 DEF finish_handler, Queue!Complete
  <2>21. ASSUME NEW r \in Requests, fail_handler(r)
       PROVE payment_state'[k] = payment_state[k] \/ k \in stale'
    BY <2>21 DEF fail_handler, Queue!GiveBack
  <2>22. CASE UNCHANGED vars
    BY <2>22 DEF vars
  <2> QED
    BY <2>1, <2>2, <2>3, <2>4, <2>5, <2>6, <2>7, <2>8, <2>9, <2>10, <2>11, <2>12,
       <2>13, <2>14, <2>15, <2>16, <2>17, <2>18, <2>19, <2>20, <2>21, <2>22 DEF Next,
       Request, Handler
<1>2. Inv /\ [Next]_vars
        => [\A o \in Orders :
              payment_state[o] \in {"Declined", "Refunded", "PaidToSeller"}
                => payment_state'[o] = payment_state[o] \/ o \in stale']_vars
  BY <1>1
<1> QED BY <1>2, InvAlways, PTL DEF Spec, FinalUnlessStale

\* Every variable keeps its type.
THEOREM TypeTheorem == Spec => []TypeOK
<1>1. Inv => TypeOK
  BY DEF Inv
<1> QED BY <1>1, InvAlways, PTL

=============================================================================
