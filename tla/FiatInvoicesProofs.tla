------------------------ MODULE FiatInvoicesProofs ------------------------
(* Theorems about FiatInvoices, for any invoices, webhooks and attempts.    *)
EXTENDS FiatInvoices, TLAPS

\* The invariant holds before anything happened.
LEMMA InvInit == Init => Inv
BY FiatInvoicesAssumption DEF Init, Inv, TypeOK, HandlerInv, IntentInv, ChargeInv, PaidInv,
   ExpiredInv, IntentIsTrue, Charging, Jobs, Created, CreateSteps, StripeStatuses,
   IntentStatuses, HandlerSteps, Queue!Init, Queue!JobStates

\* Every step keeps the types.
LEMMA TypeNext == Inv /\ [Next]_vars => TypeOK'
<1> SUFFICES ASSUME Inv, [Next]_vars PROVE TypeOK'
  OBVIOUS
<1> USE FiatInvoicesAssumption DEF Inv, TypeOK, HandlerInv, Jobs, Created, HandlerGoes,
      Queue!JobStates, billingVars, eventVars, handlerVars, historyVars, CreateSteps,
      StripeStatuses, IntentStatuses, HandlerSteps, IntentInv, ChargeInv, Charging
<1>1. ASSUME NEW i \in Invoices, create_payment_intent(i) PROVE TypeOK'
  BY <1>1 DEF create_payment_intent, CreateGoes
<1>2. ASSUME NEW i \in Invoices, schedule_payment_expired(i) PROVE TypeOK'
  BY <1>2 DEF schedule_payment_expired, CreateGoes, Queue!Add
<1>3. ASSUME NEW i \in Invoices, create(i) PROVE TypeOK'
  BY <1>3 DEF create, CreateGoes
<1>4. ASSUME NEW i \in Invoices, abandon_create(i) PROVE TypeOK'
  BY <1>4 DEF abandon_create, CreateGoes
<1>5. ASSUME NEW i \in Invoices, buyer_pays(i) PROVE TypeOK'
  BY <1>5 DEF buyer_pays, StripeGoes
<1>6. ASSUME NEW i \in Invoices, charge_succeeds(i) PROVE TypeOK'
  BY <1>6 DEF charge_succeeds, StripeGoes
<1>7. ASSUME NEW i \in Invoices, charge_fails(i) PROVE TypeOK'
  BY <1>7 DEF charge_fails, StripeGoes
<1>8. ASSUME NEW i \in Invoices, NEW w \in Webhooks, handle_stripe_event(w, i) PROVE TypeOK'
  BY <1>8 DEF handle_stripe_event, Queue!Add
<1>9. ASSUME NEW j \in Jobs, start_handler(j) PROVE TypeOK'
  BY <1>9 DEF start_handler, Queue!Start
<1>10. ASSUME NEW w \in Webhooks, payment_intent_succeeded_or_amount_capturable_updated(w)
      PROVE TypeOK'
  BY <1>10 DEF payment_intent_succeeded_or_amount_capturable_updated
<1>11. ASSUME NEW w \in Webhooks, saga_update_states(w) PROVE TypeOK'
  BY <1>11 DEF saga_update_states
<1>12. ASSUME NEW w \in Webhooks, set_amount_paid_fiat(w) PROVE TypeOK'
  BY <1>12 DEF set_amount_paid_fiat
<1>13. ASSUME NEW i \in Invoices, handle_payment_expired(i) PROVE TypeOK'
  BY <1>13 DEF handle_payment_expired
<1>14. ASSUME NEW i \in Invoices, set_orders_status(i) PROVE TypeOK'
  BY <1>14 DEF set_orders_status
<1>15. ASSUME NEW i \in Invoices, cancel_payment_intent(i) PROVE TypeOK'
  BY <1>15 DEF cancel_payment_intent
<1>16. ASSUME NEW i \in Invoices, stripe_cancel(i) PROVE TypeOK'
  BY <1>16 DEF stripe_cancel
<1>17. ASSUME NEW i \in Invoices, update_payment_intent(i) PROVE TypeOK'
  BY <1>17 DEF update_payment_intent
<1>18. ASSUME NEW j \in Jobs, finish_handler(j) PROVE TypeOK'
  BY <1>18 DEF finish_handler, Queue!Complete
<1>19. ASSUME NEW j \in Jobs, fail_handler(j) PROVE TypeOK'
  BY <1>19 DEF fail_handler, EndAttempt, Queue!GiveBack
<1>20. ASSUME NEW j \in Jobs, lose_answer(j) PROVE TypeOK'
  BY <1>20 DEF lose_answer, EndAttempt, Queue!GiveBack
<1>21. CASE UNCHANGED vars
  BY <1>21 DEF vars
<1> QED
  BY <1>1, <1>2, <1>3, <1>4, <1>5, <1>6, <1>7, <1>8, <1>9, <1>10, <1>11,
     <1>12, <1>13, <1>14, <1>15, <1>16, <1>17, <1>18, <1>19, <1>20, <1>21
     DEF Next, Creation, Stripe, Handler, Succeeded, Expired

\* Every step keeps handlers and events together.
LEMMA HandlerNext == Inv /\ [Next]_vars => HandlerInv'
<1> SUFFICES ASSUME Inv, [Next]_vars PROVE HandlerInv'
  OBVIOUS
<1> USE FiatInvoicesAssumption DEF Inv, TypeOK, HandlerInv, Jobs, Created, HandlerGoes,
      Queue!JobStates, billingVars, eventVars, handlerVars, historyVars,
      HandlerSteps
<1>1. ASSUME NEW i \in Invoices, create_payment_intent(i) PROVE HandlerInv'
  BY <1>1 DEF create_payment_intent, CreateGoes
<1>2. ASSUME NEW i \in Invoices, schedule_payment_expired(i) PROVE HandlerInv'
  BY <1>2 DEF schedule_payment_expired, CreateGoes, Queue!Add
<1>3. ASSUME NEW i \in Invoices, create(i) PROVE HandlerInv'
  BY <1>3 DEF create, CreateGoes
<1>4. ASSUME NEW i \in Invoices, abandon_create(i) PROVE HandlerInv'
  BY <1>4 DEF abandon_create, CreateGoes
<1>5. ASSUME NEW i \in Invoices, buyer_pays(i) PROVE HandlerInv'
  BY <1>5 DEF buyer_pays, StripeGoes
<1>6. ASSUME NEW i \in Invoices, charge_succeeds(i) PROVE HandlerInv'
  BY <1>6 DEF charge_succeeds, StripeGoes
<1>7. ASSUME NEW i \in Invoices, charge_fails(i) PROVE HandlerInv'
  BY <1>7 DEF charge_fails, StripeGoes
<1>8. ASSUME NEW i \in Invoices, NEW w \in Webhooks, handle_stripe_event(w, i) PROVE HandlerInv'
  BY <1>8 DEF handle_stripe_event, Queue!Add
<1>9. ASSUME NEW j \in Jobs, start_handler(j) PROVE HandlerInv'
  BY <1>9 DEF start_handler, Queue!Start
<1>10. ASSUME NEW w \in Webhooks, payment_intent_succeeded_or_amount_capturable_updated(w)
      PROVE HandlerInv'
  BY <1>10 DEF payment_intent_succeeded_or_amount_capturable_updated
<1>11. ASSUME NEW w \in Webhooks, saga_update_states(w) PROVE HandlerInv'
  BY <1>11 DEF saga_update_states
<1>12. ASSUME NEW w \in Webhooks, set_amount_paid_fiat(w) PROVE HandlerInv'
  BY <1>12 DEF set_amount_paid_fiat
<1>13. ASSUME NEW i \in Invoices, handle_payment_expired(i) PROVE HandlerInv'
  BY <1>13 DEF handle_payment_expired
<1>14. ASSUME NEW i \in Invoices, set_orders_status(i) PROVE HandlerInv'
  BY <1>14 DEF set_orders_status
<1>15. ASSUME NEW i \in Invoices, cancel_payment_intent(i) PROVE HandlerInv'
  BY <1>15 DEF cancel_payment_intent
<1>16. ASSUME NEW i \in Invoices, stripe_cancel(i) PROVE HandlerInv'
  BY <1>16 DEF stripe_cancel
<1>17. ASSUME NEW i \in Invoices, update_payment_intent(i) PROVE HandlerInv'
  BY <1>17 DEF update_payment_intent
<1>18. ASSUME NEW j \in Jobs, finish_handler(j) PROVE HandlerInv'
  BY <1>18 DEF finish_handler, Queue!Complete
<1>19. ASSUME NEW j \in Jobs, fail_handler(j) PROVE HandlerInv'
  BY <1>19 DEF fail_handler, EndAttempt, Queue!GiveBack
<1>20. ASSUME NEW j \in Jobs, lose_answer(j) PROVE HandlerInv'
  BY <1>20 DEF lose_answer, EndAttempt, Queue!GiveBack
<1>21. CASE UNCHANGED vars
  BY <1>21 DEF vars
<1> QED
  BY <1>1, <1>2, <1>3, <1>4, <1>5, <1>6, <1>7, <1>8, <1>9, <1>10, <1>11,
     <1>12, <1>13, <1>14, <1>15, <1>16, <1>17, <1>18, <1>19, <1>20, <1>21
     DEF Next, Creation, Stripe, Handler, Succeeded, Expired

\* Every step keeps what is known of the intents at Stripe.
LEMMA IntentNext == Inv /\ [Next]_vars => IntentInv'
<1> SUFFICES ASSUME Inv, [Next]_vars PROVE IntentInv'
  OBVIOUS
<1> USE FiatInvoicesAssumption DEF Inv, TypeOK, HandlerInv, Jobs, Created, HandlerGoes,
      Queue!JobStates, billingVars, eventVars, handlerVars, historyVars,
      IntentInv, IntentIsTrue
<1>1. ASSUME NEW i \in Invoices, create_payment_intent(i) PROVE IntentInv'
  BY <1>1 DEF create_payment_intent, CreateGoes
<1>2. ASSUME NEW i \in Invoices, schedule_payment_expired(i) PROVE IntentInv'
  BY <1>2 DEF schedule_payment_expired, CreateGoes, Queue!Add
<1>3. ASSUME NEW i \in Invoices, create(i) PROVE IntentInv'
  BY <1>3 DEF create, CreateGoes
<1>4. ASSUME NEW i \in Invoices, abandon_create(i) PROVE IntentInv'
  BY <1>4 DEF abandon_create, CreateGoes
<1>5. ASSUME NEW i \in Invoices, buyer_pays(i) PROVE IntentInv'
  BY <1>5 DEF buyer_pays, StripeGoes
<1>6. ASSUME NEW i \in Invoices, charge_succeeds(i) PROVE IntentInv'
  BY <1>6 DEF charge_succeeds, StripeGoes
<1>7. ASSUME NEW i \in Invoices, charge_fails(i) PROVE IntentInv'
  BY <1>7 DEF charge_fails, StripeGoes
<1>8. ASSUME NEW i \in Invoices, NEW w \in Webhooks, handle_stripe_event(w, i) PROVE IntentInv'
  BY <1>8 DEF handle_stripe_event, Queue!Add
<1>9. ASSUME NEW j \in Jobs, start_handler(j) PROVE IntentInv'
  BY <1>9 DEF start_handler, Queue!Start
<1>10. ASSUME NEW w \in Webhooks, payment_intent_succeeded_or_amount_capturable_updated(w)
      PROVE IntentInv'
  BY <1>10 DEF payment_intent_succeeded_or_amount_capturable_updated
<1>11. ASSUME NEW w \in Webhooks, saga_update_states(w) PROVE IntentInv'
  BY <1>11 DEF saga_update_states
<1>12. ASSUME NEW w \in Webhooks, set_amount_paid_fiat(w) PROVE IntentInv'
  BY <1>12 DEF set_amount_paid_fiat
<1>13. ASSUME NEW i \in Invoices, handle_payment_expired(i) PROVE IntentInv'
  BY <1>13 DEF handle_payment_expired
<1>14. ASSUME NEW i \in Invoices, set_orders_status(i) PROVE IntentInv'
  BY <1>14 DEF set_orders_status
<1>15. ASSUME NEW i \in Invoices, cancel_payment_intent(i) PROVE IntentInv'
  BY <1>15 DEF cancel_payment_intent
<1>16. ASSUME NEW i \in Invoices, stripe_cancel(i) PROVE IntentInv'
  BY <1>16 DEF stripe_cancel
<1>17. ASSUME NEW i \in Invoices, update_payment_intent(i) PROVE IntentInv'
  BY <1>17 DEF update_payment_intent
<1>18. ASSUME NEW j \in Jobs, finish_handler(j) PROVE IntentInv'
  BY <1>18 DEF finish_handler, Queue!Complete
<1>19. ASSUME NEW j \in Jobs, fail_handler(j) PROVE IntentInv'
  BY <1>19 DEF fail_handler, EndAttempt, Queue!GiveBack
<1>20. ASSUME NEW j \in Jobs, lose_answer(j) PROVE IntentInv'
  BY <1>20 DEF lose_answer, EndAttempt, Queue!GiveBack
<1>21. CASE UNCHANGED vars
  BY <1>21 DEF vars
<1> QED
  BY <1>1, <1>2, <1>3, <1>4, <1>5, <1>6, <1>7, <1>8, <1>9, <1>10, <1>11,
     <1>12, <1>13, <1>14, <1>15, <1>16, <1>17, <1>18, <1>19, <1>20, <1>21
     DEF Next, Creation, Stripe, Handler, Succeeded, Expired

\* Every step keeps charges apart.
LEMMA ChargeNext == Inv /\ [Next]_vars => ChargeInv'
<1> SUFFICES ASSUME Inv, [Next]_vars PROVE ChargeInv'
  OBVIOUS
<1> USE FiatInvoicesAssumption DEF Inv, TypeOK, HandlerInv, Jobs, Created, HandlerGoes,
      Queue!JobStates, billingVars, eventVars, handlerVars, historyVars,
      ChargeInv, Charging
<1>1. ASSUME NEW i \in Invoices, create_payment_intent(i) PROVE ChargeInv'
  BY <1>1 DEF create_payment_intent, CreateGoes
<1>2. ASSUME NEW i \in Invoices, schedule_payment_expired(i) PROVE ChargeInv'
  BY <1>2 DEF schedule_payment_expired, CreateGoes, Queue!Add
<1>3. ASSUME NEW i \in Invoices, create(i) PROVE ChargeInv'
  BY <1>3 DEF create, CreateGoes
<1>4. ASSUME NEW i \in Invoices, abandon_create(i) PROVE ChargeInv'
  BY <1>4 DEF abandon_create, CreateGoes
<1>5. ASSUME NEW i \in Invoices, buyer_pays(i) PROVE ChargeInv'
  BY <1>5 DEF buyer_pays, StripeGoes
<1>6. ASSUME NEW i \in Invoices, charge_succeeds(i) PROVE ChargeInv'
  BY <1>6 DEF charge_succeeds, StripeGoes
<1>7. ASSUME NEW i \in Invoices, charge_fails(i) PROVE ChargeInv'
  BY <1>7 DEF charge_fails, StripeGoes
<1>8. ASSUME NEW i \in Invoices, NEW w \in Webhooks, handle_stripe_event(w, i) PROVE ChargeInv'
  BY <1>8 DEF handle_stripe_event, Queue!Add
<1>9. ASSUME NEW j \in Jobs, start_handler(j) PROVE ChargeInv'
  BY <1>9 DEF start_handler, Queue!Start
<1>10. ASSUME NEW w \in Webhooks, payment_intent_succeeded_or_amount_capturable_updated(w)
      PROVE ChargeInv'
  BY <1>10 DEF payment_intent_succeeded_or_amount_capturable_updated
<1>11. ASSUME NEW w \in Webhooks, saga_update_states(w) PROVE ChargeInv'
  BY <1>11 DEF saga_update_states
<1>12. ASSUME NEW w \in Webhooks, set_amount_paid_fiat(w) PROVE ChargeInv'
  BY <1>12 DEF set_amount_paid_fiat
<1>13. ASSUME NEW i \in Invoices, handle_payment_expired(i) PROVE ChargeInv'
  BY <1>13 DEF handle_payment_expired
<1>14. ASSUME NEW i \in Invoices, set_orders_status(i) PROVE ChargeInv'
  BY <1>14 DEF set_orders_status
<1>15. ASSUME NEW i \in Invoices, cancel_payment_intent(i) PROVE ChargeInv'
  BY <1>15 DEF cancel_payment_intent
<1>16. ASSUME NEW i \in Invoices, stripe_cancel(i) PROVE ChargeInv'
  BY <1>16 DEF stripe_cancel
<1>17. ASSUME NEW i \in Invoices, update_payment_intent(i) PROVE ChargeInv'
  BY <1>17 DEF update_payment_intent
<1>18. ASSUME NEW j \in Jobs, finish_handler(j) PROVE ChargeInv'
  BY <1>18 DEF finish_handler, Queue!Complete
<1>19. ASSUME NEW j \in Jobs, fail_handler(j) PROVE ChargeInv'
  BY <1>19 DEF fail_handler, EndAttempt, Queue!GiveBack
<1>20. ASSUME NEW j \in Jobs, lose_answer(j) PROVE ChargeInv'
  BY <1>20 DEF lose_answer, EndAttempt, Queue!GiveBack
<1>21. CASE UNCHANGED vars
  BY <1>21 DEF vars
<1> QED
  BY <1>1, <1>2, <1>3, <1>4, <1>5, <1>6, <1>7, <1>8, <1>9, <1>10, <1>11,
     <1>12, <1>13, <1>14, <1>15, <1>16, <1>17, <1>18, <1>19, <1>20, <1>21
     DEF Next, Creation, Stripe, Handler, Succeeded, Expired

\* Every step keeps what a charge says of its invoice.
LEMMA PaidNext == Inv /\ [Next]_vars => PaidInv'
<1> SUFFICES ASSUME Inv, [Next]_vars PROVE PaidInv'
  OBVIOUS
<1> USE FiatInvoicesAssumption DEF Inv, TypeOK, HandlerInv, Jobs, Created, HandlerGoes,
      Queue!JobStates, billingVars, eventVars, handlerVars, historyVars,
      ChargeInv, Charging, PaidInv
<1>1. ASSUME NEW i \in Invoices, create_payment_intent(i) PROVE PaidInv'
  BY <1>1 DEF create_payment_intent, CreateGoes
<1>2. ASSUME NEW i \in Invoices, schedule_payment_expired(i) PROVE PaidInv'
  BY <1>2 DEF schedule_payment_expired, CreateGoes, Queue!Add
<1>3. ASSUME NEW i \in Invoices, create(i) PROVE PaidInv'
  BY <1>3 DEF create, CreateGoes
<1>4. ASSUME NEW i \in Invoices, abandon_create(i) PROVE PaidInv'
  BY <1>4 DEF abandon_create, CreateGoes
<1>5. ASSUME NEW i \in Invoices, buyer_pays(i) PROVE PaidInv'
  BY <1>5 DEF buyer_pays, StripeGoes
<1>6. ASSUME NEW i \in Invoices, charge_succeeds(i) PROVE PaidInv'
  BY <1>6 DEF charge_succeeds, StripeGoes
<1>7. ASSUME NEW i \in Invoices, charge_fails(i) PROVE PaidInv'
  BY <1>7 DEF charge_fails, StripeGoes
<1>8. ASSUME NEW i \in Invoices, NEW w \in Webhooks, handle_stripe_event(w, i) PROVE PaidInv'
  BY <1>8 DEF handle_stripe_event, Queue!Add
<1>9. ASSUME NEW j \in Jobs, start_handler(j) PROVE PaidInv'
  BY <1>9 DEF start_handler, Queue!Start
<1>10. ASSUME NEW w \in Webhooks, payment_intent_succeeded_or_amount_capturable_updated(w)
      PROVE PaidInv'
  BY <1>10 DEF payment_intent_succeeded_or_amount_capturable_updated
<1>11. ASSUME NEW w \in Webhooks, saga_update_states(w) PROVE PaidInv'
  BY <1>11 DEF saga_update_states
<1>12. ASSUME NEW w \in Webhooks, set_amount_paid_fiat(w) PROVE PaidInv'
  BY <1>12 DEF set_amount_paid_fiat
<1>13. ASSUME NEW i \in Invoices, handle_payment_expired(i) PROVE PaidInv'
  BY <1>13 DEF handle_payment_expired
<1>14. ASSUME NEW i \in Invoices, set_orders_status(i) PROVE PaidInv'
  BY <1>14 DEF set_orders_status
<1>15. ASSUME NEW i \in Invoices, cancel_payment_intent(i) PROVE PaidInv'
  BY <1>15 DEF cancel_payment_intent
<1>16. ASSUME NEW i \in Invoices, stripe_cancel(i) PROVE PaidInv'
  BY <1>16 DEF stripe_cancel
<1>17. ASSUME NEW i \in Invoices, update_payment_intent(i) PROVE PaidInv'
  BY <1>17 DEF update_payment_intent
<1>18. ASSUME NEW j \in Jobs, finish_handler(j) PROVE PaidInv'
  BY <1>18 DEF finish_handler, Queue!Complete
<1>19. ASSUME NEW j \in Jobs, fail_handler(j) PROVE PaidInv'
  BY <1>19 DEF fail_handler, EndAttempt, Queue!GiveBack
<1>20. ASSUME NEW j \in Jobs, lose_answer(j) PROVE PaidInv'
  BY <1>20 DEF lose_answer, EndAttempt, Queue!GiveBack
<1>21. CASE UNCHANGED vars
  BY <1>21 DEF vars
<1> QED
  BY <1>1, <1>2, <1>3, <1>4, <1>5, <1>6, <1>7, <1>8, <1>9, <1>10, <1>11,
     <1>12, <1>13, <1>14, <1>15, <1>16, <1>17, <1>18, <1>19, <1>20, <1>21
     DEF Next, Creation, Stripe, Handler, Succeeded, Expired

\* Every step keeps what a handled expiry says of its intent.
LEMMA ExpiredNext == Inv /\ [Next]_vars => ExpiredInv'
<1> SUFFICES ASSUME Inv, [Next]_vars PROVE ExpiredInv'
  OBVIOUS
<1> USE FiatInvoicesAssumption DEF Inv, TypeOK, HandlerInv, Jobs, Created, HandlerGoes,
      Queue!JobStates, billingVars, eventVars, handlerVars, historyVars,
      IntentInv, ExpiredInv
<1>1. ASSUME NEW i \in Invoices, create_payment_intent(i) PROVE ExpiredInv'
  BY <1>1 DEF create_payment_intent, CreateGoes
<1>2. ASSUME NEW i \in Invoices, schedule_payment_expired(i) PROVE ExpiredInv'
  BY <1>2 DEF schedule_payment_expired, CreateGoes, Queue!Add
<1>3. ASSUME NEW i \in Invoices, create(i) PROVE ExpiredInv'
  BY <1>3 DEF create, CreateGoes
<1>4. ASSUME NEW i \in Invoices, abandon_create(i) PROVE ExpiredInv'
  BY <1>4 DEF abandon_create, CreateGoes
<1>5. ASSUME NEW i \in Invoices, buyer_pays(i) PROVE ExpiredInv'
  BY <1>5 DEF buyer_pays, StripeGoes
<1>6. ASSUME NEW i \in Invoices, charge_succeeds(i) PROVE ExpiredInv'
  BY <1>6 DEF charge_succeeds, StripeGoes
<1>7. ASSUME NEW i \in Invoices, charge_fails(i) PROVE ExpiredInv'
  BY <1>7 DEF charge_fails, StripeGoes
<1>8. ASSUME NEW i \in Invoices, NEW w \in Webhooks, handle_stripe_event(w, i) PROVE ExpiredInv'
  BY <1>8 DEF handle_stripe_event, Queue!Add
<1>9. ASSUME NEW j \in Jobs, start_handler(j) PROVE ExpiredInv'
  BY <1>9 DEF start_handler, Queue!Start
<1>10. ASSUME NEW w \in Webhooks, payment_intent_succeeded_or_amount_capturable_updated(w)
      PROVE ExpiredInv'
  BY <1>10 DEF payment_intent_succeeded_or_amount_capturable_updated
<1>11. ASSUME NEW w \in Webhooks, saga_update_states(w) PROVE ExpiredInv'
  BY <1>11 DEF saga_update_states
<1>12. ASSUME NEW w \in Webhooks, set_amount_paid_fiat(w) PROVE ExpiredInv'
  BY <1>12 DEF set_amount_paid_fiat
<1>13. ASSUME NEW i \in Invoices, handle_payment_expired(i) PROVE ExpiredInv'
  BY <1>13 DEF handle_payment_expired
<1>14. ASSUME NEW i \in Invoices, set_orders_status(i) PROVE ExpiredInv'
  BY <1>14 DEF set_orders_status
<1>15. ASSUME NEW i \in Invoices, cancel_payment_intent(i) PROVE ExpiredInv'
  BY <1>15 DEF cancel_payment_intent, StripeStatuses
<1>16. ASSUME NEW i \in Invoices, stripe_cancel(i) PROVE ExpiredInv'
  BY <1>16 DEF stripe_cancel
<1>17. ASSUME NEW i \in Invoices, update_payment_intent(i) PROVE ExpiredInv'
  BY <1>17 DEF update_payment_intent
<1>18. ASSUME NEW j \in Jobs, finish_handler(j) PROVE ExpiredInv'
  BY <1>18 DEF finish_handler, Queue!Complete
<1>19. ASSUME NEW j \in Jobs, fail_handler(j) PROVE ExpiredInv'
  BY <1>19 DEF fail_handler, EndAttempt, Queue!GiveBack
<1>20. ASSUME NEW j \in Jobs, lose_answer(j) PROVE ExpiredInv'
  BY <1>20 DEF lose_answer, EndAttempt, Queue!GiveBack
<1>21. CASE UNCHANGED vars
  BY <1>21 DEF vars
<1> QED
  BY <1>1, <1>2, <1>3, <1>4, <1>5, <1>6, <1>7, <1>8, <1>9, <1>10, <1>11,
     <1>12, <1>13, <1>14, <1>15, <1>16, <1>17, <1>18, <1>19, <1>20, <1>21
     DEF Next, Creation, Stripe, Handler, Succeeded, Expired

\* Every step keeps final statuses true.
LEMMA TrueNext == Inv /\ [Next]_vars => IntentIsTrue'
<1> SUFFICES ASSUME Inv, [Next]_vars PROVE IntentIsTrue'
  OBVIOUS
<1> USE FiatInvoicesAssumption DEF Inv, TypeOK, HandlerInv, Jobs, Created, HandlerGoes,
      Queue!JobStates, billingVars, eventVars, handlerVars, historyVars,
      IntentInv, ChargeInv, Charging, IntentIsTrue
<1>1. ASSUME NEW i \in Invoices, create_payment_intent(i) PROVE IntentIsTrue'
  BY <1>1 DEF create_payment_intent, CreateGoes
<1>2. ASSUME NEW i \in Invoices, schedule_payment_expired(i) PROVE IntentIsTrue'
  BY <1>2 DEF schedule_payment_expired, CreateGoes, Queue!Add
<1>3. ASSUME NEW i \in Invoices, create(i) PROVE IntentIsTrue'
  BY <1>3 DEF create, CreateGoes
<1>4. ASSUME NEW i \in Invoices, abandon_create(i) PROVE IntentIsTrue'
  BY <1>4 DEF abandon_create, CreateGoes
<1>5. ASSUME NEW i \in Invoices, buyer_pays(i) PROVE IntentIsTrue'
  BY <1>5 DEF buyer_pays, StripeGoes
<1>6. ASSUME NEW i \in Invoices, charge_succeeds(i) PROVE IntentIsTrue'
  BY <1>6 DEF charge_succeeds, StripeGoes
<1>7. ASSUME NEW i \in Invoices, charge_fails(i) PROVE IntentIsTrue'
  BY <1>7 DEF charge_fails, StripeGoes
<1>8. ASSUME NEW i \in Invoices, NEW w \in Webhooks, handle_stripe_event(w, i)
      PROVE IntentIsTrue'
  BY <1>8 DEF handle_stripe_event, Queue!Add
<1>9. ASSUME NEW j \in Jobs, start_handler(j) PROVE IntentIsTrue'
  BY <1>9 DEF start_handler, Queue!Start
<1>10. ASSUME NEW w \in Webhooks, payment_intent_succeeded_or_amount_capturable_updated(w)
      PROVE IntentIsTrue'
  BY <1>10 DEF payment_intent_succeeded_or_amount_capturable_updated
<1>11. ASSUME NEW w \in Webhooks, saga_update_states(w) PROVE IntentIsTrue'
  BY <1>11 DEF saga_update_states
<1>12. ASSUME NEW w \in Webhooks, set_amount_paid_fiat(w) PROVE IntentIsTrue'
  BY <1>12 DEF set_amount_paid_fiat
<1>13. ASSUME NEW i \in Invoices, handle_payment_expired(i) PROVE IntentIsTrue'
  BY <1>13 DEF handle_payment_expired
<1>14. ASSUME NEW i \in Invoices, set_orders_status(i) PROVE IntentIsTrue'
  BY <1>14 DEF set_orders_status
<1>15. ASSUME NEW i \in Invoices, cancel_payment_intent(i) PROVE IntentIsTrue'
  BY <1>15 DEF cancel_payment_intent
<1>16. ASSUME NEW i \in Invoices, stripe_cancel(i) PROVE IntentIsTrue'
  BY <1>16 DEF stripe_cancel
<1>17. ASSUME NEW i \in Invoices, update_payment_intent(i) PROVE IntentIsTrue'
  BY <1>17 DEF update_payment_intent
<1>18. ASSUME NEW j \in Jobs, finish_handler(j) PROVE IntentIsTrue'
  BY <1>18 DEF finish_handler, Queue!Complete
<1>19. ASSUME NEW j \in Jobs, fail_handler(j) PROVE IntentIsTrue'
  BY <1>19 DEF fail_handler, EndAttempt, Queue!GiveBack
<1>20. ASSUME NEW j \in Jobs, lose_answer(j) PROVE IntentIsTrue'
  BY <1>20 DEF lose_answer, EndAttempt, Queue!GiveBack
<1>21. CASE UNCHANGED vars
  BY <1>21 DEF vars
<1> QED
  BY <1>1, <1>2, <1>3, <1>4, <1>5, <1>6, <1>7, <1>8, <1>9, <1>10, <1>11,
     <1>12, <1>13, <1>14, <1>15, <1>16, <1>17, <1>18, <1>19, <1>20, <1>21
     DEF Next, Creation, Stripe, Handler, Succeeded, Expired

\* The invariant is inductive.
LEMMA InvNext == Inv /\ [Next]_vars => Inv'
BY TypeNext, HandlerNext, IntentNext, ChargeNext, PaidNext, ExpiredNext, TrueNext DEF Inv

\* The invariant holds in every reachable state.
LEMMA InvAlways == Spec => []Inv
BY InvInit, InvNext, PTL DEF Spec

-----------------------------------------------------------------------------

\* A final status of a payment intent in the database is the one at Stripe,
\* whatever the order of webhooks, expiry and retries.
THEOREM IntentIsTrueTheorem == Spec => []IntentIsTrue
<1>1. Inv => IntentIsTrue
  BY DEF Inv
<1> QED BY <1>1, InvAlways, PTL

\* Until a charge is recorded and reported, an event of it is open or failed.
THEOREM NotDroppedTheorem == Spec => []NotDroppedInSilence
<1>1. ASSUME Inv PROVE NotDroppedInSilence
  <2> SUFFICES ASSUME NEW i \in fees
               PROVE  \/ i \in paid /\ (order_status[i] = "Paid" \/ i \in raced)
                      \/ \E w \in Webhooks :
                            subject[w] = i /\ event[w] \in {"in_progress", "pending", "failed"}
    BY DEF NotDroppedInSilence
  <2>1. PICK w \in Webhooks : subject[w] = i
    BY <1>1 DEF Inv, ChargeInv
  <2>2. i # None
    BY <1>1, FiatInvoicesAssumption DEF Inv, TypeOK, Created
  <2>3. event[w] \in Queue!JobStates \ {"absent"}
    BY <1>1, <2>1, <2>2 DEF Inv, TypeOK, HandlerInv, Jobs
  <2>4. CASE event[w] = "completed"
    BY <1>1, <2>1, <2>4 DEF Inv, PaidInv
  <2>5. CASE event[w] # "completed"
    BY <2>1, <2>3, <2>5 DEF Queue!JobStates
  <2> QED BY <2>4, <2>5
<1> QED BY <1>1, InvAlways, PTL

\* An intent outlives its expiry only if a charge was being processed.
THEOREM LeftOpenTheorem == Spec => []LeftOpenOnlyIfPassed
<1>1. Inv => LeftOpenOnlyIfPassed
  BY DEF Inv, ExpiredInv, LeftOpenOnlyIfPassed
<1> QED BY <1>1, InvAlways, PTL

\* Saga knows the orders of a charge as paid unless expiry raced with it.
THEOREM ToldPaidTheorem == Spec => []ToldPaidUnlessRaced
<1>1. Inv => ToldPaidUnlessRaced
  BY DEF Inv, PaidInv, ToldPaidUnlessRaced
<1> QED BY <1>1, InvAlways, PTL

\* An attempt that failed after the transaction with the fees is never made up
\* for, by no retry and by no other webhook.
THEOREM HalfDoneTheorem == Spec => HalfDoneIsForever
<1>1. ASSUME Inv, [Next]_vars, NEW k \in Invoices, HalfDone(k) PROVE HalfDone(k)'
  <2> USE <1>1, FiatInvoicesAssumption DEF Inv, TypeOK, HandlerInv, Jobs, Created, HandlerGoes,
        Queue!JobStates, billingVars, eventVars, handlerVars, historyVars,
        ChargeInv, Charging, HalfDone
  <2>1. ASSUME NEW i \in Invoices, create_payment_intent(i) PROVE HalfDone(k)'
    BY <2>1 DEF create_payment_intent, CreateGoes
  <2>2. ASSUME NEW i \in Invoices, schedule_payment_expired(i) PROVE HalfDone(k)'
    BY <2>2 DEF schedule_payment_expired, CreateGoes, Queue!Add
  <2>3. ASSUME NEW i \in Invoices, create(i) PROVE HalfDone(k)'
    BY <2>3 DEF create, CreateGoes
  <2>4. ASSUME NEW i \in Invoices, abandon_create(i) PROVE HalfDone(k)'
    BY <2>4 DEF abandon_create, CreateGoes
  <2>5. ASSUME NEW i \in Invoices, buyer_pays(i) PROVE HalfDone(k)'
    BY <2>5 DEF buyer_pays, StripeGoes
  <2>6. ASSUME NEW i \in Invoices, charge_succeeds(i) PROVE HalfDone(k)'
    BY <2>6 DEF charge_succeeds, StripeGoes
  <2>7. ASSUME NEW i \in Invoices, charge_fails(i) PROVE HalfDone(k)'
    BY <2>7 DEF charge_fails, StripeGoes
  <2>8. ASSUME NEW i \in Invoices, NEW w \in Webhooks, handle_stripe_event(w, i)
        PROVE HalfDone(k)'
    BY <2>8 DEF handle_stripe_event, Queue!Add
  <2>9. ASSUME NEW j \in Jobs, start_handler(j) PROVE HalfDone(k)'
    BY <2>9 DEF start_handler, Queue!Start
  <2>10. ASSUME NEW w \in Webhooks, payment_intent_succeeded_or_amount_capturable_updated(w)
        PROVE HalfDone(k)'
    BY <2>10 DEF payment_intent_succeeded_or_amount_capturable_updated
  <2>11. ASSUME NEW w \in Webhooks, saga_update_states(w) PROVE HalfDone(k)'
    BY <2>11 DEF saga_update_states
  <2>12. ASSUME NEW w \in Webhooks, set_amount_paid_fiat(w) PROVE HalfDone(k)'
    BY <2>12 DEF set_amount_paid_fiat
  <2>13. ASSUME NEW i \in Invoices, handle_payment_expired(i) PROVE HalfDone(k)'
    BY <2>13 DEF handle_payment_expired
  <2>14. ASSUME NEW i \in Invoices, set_orders_status(i) PROVE HalfDone(k)'
    BY <2>14 DEF set_orders_status
  <2>15. ASSUME NEW i \in Invoices, cancel_payment_intent(i) PROVE HalfDone(k)'
    BY <2>15 DEF cancel_payment_intent
  <2>16. ASSUME NEW i \in Invoices, stripe_cancel(i) PROVE HalfDone(k)'
    BY <2>16 DEF stripe_cancel
  <2>17. ASSUME NEW i \in Invoices, update_payment_intent(i) PROVE HalfDone(k)'
    BY <2>17 DEF update_payment_intent
  <2>18. ASSUME NEW j \in Jobs, finish_handler(j) PROVE HalfDone(k)'
    BY <2>18 DEF finish_handler, Queue!Complete
  <2>19. ASSUME NEW j \in Jobs, fail_handler(j) PROVE HalfDone(k)'
    BY <2>19 DEF fail_handler, EndAttempt, Queue!GiveBack
  <2>20. ASSUME NEW j \in Jobs, lose_answer(j) PROVE HalfDone(k)'
    BY <2>20 DEF lose_answer, EndAttempt, Queue!GiveBack
  <2>21. CASE UNCHANGED vars
    BY <2>21 DEF vars
  <2> QED
    BY <2>1, <2>2, <2>3, <2>4, <2>5, <2>6, <2>7, <2>8, <2>9, <2>10, <2>11,
       <2>12, <2>13, <2>14, <2>15, <2>16, <2>17, <2>18, <2>19, <2>20, <2>21
       DEF Next, Creation, Stripe, Handler, Succeeded, Expired
<1>2. Inv /\ [Next]_vars => [\A i \in Invoices : HalfDone(i) => HalfDone(i)']_vars
  BY <1>1
<1> QED BY <1>2, InvAlways, PTL DEF Spec, HalfDoneIsForever

\* Every variable keeps its type.
THEOREM TypeTheorem == Spec => []TypeOK
<1>1. Inv => TypeOK
  BY DEF Inv
<1> QED BY <1>1, InvAlways, PTL

============================================================================
