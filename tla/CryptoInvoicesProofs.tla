------------------------ MODULE CryptoInvoicesProofs ------------------------
(* Theorems about CryptoInvoices, for any invoices, accounts, callbacks,    *)
(* amounts, prices and precisions.                                          *)
EXTENDS CryptoInvoices, TLAPS

\* The conversions between minimal and super units cut: an amount is never
\* more after to_super_unit, and one that covers a price covers it once cut.
LEMMA PaidAmount ==
    ASSUME NEW a \in Nat, NEW p \in Nat, has_become_paid(a, p)
    PROVE  from_super_unit(p) \in Nat /\ from_super_unit(p) <= a
<1> DEFINE x == to_super_unit(a)
           q == from_super_unit(p)
<1>1. x \in Nat /\ x <= a
  BY CryptoInvoicesAssumption DEF to_super_unit
<1>2. q \in Nat /\ q * PriceScale <= p
  BY CryptoInvoicesAssumption DEF from_super_unit
<1>3. q * PriceScale <= x * PriceScale
  BY <1>1, <1>2, CryptoInvoicesAssumption DEF has_become_paid
<1>4. q <= x
  <2> HIDE DEF x, q
  <2> QED BY <1>1, <1>2, <1>3, CryptoInvoicesAssumption
<1> QED BY <1>1, <1>2, <1>4

\* Creating an invoice touches no payment, call or handler.
LEMMA CreationFrame ==
    ASSUME NEW i \in Invoices, Creation(i), TypeOK
    PROVE  /\ UNCHANGED <<amount_captured, paid, final_amount_paid, received, total_received>>
           /\ UNCHANGED <<callVars, handlerVars, historyVars>>
           /\ \A c \in Calls : event'[c] = event[c]
           /\ Created \subseteq Created'
BY CryptoInvoicesAssumption DEF TypeOK, Creation, get_or_create_free_pooled_account,
   schedule_payment_expired, create, abandon_create, CreateGoes, Created, Jobs, moneyVars,
   eventVars, Queue!Add

\* A callback or recalculation touches no creation and no handler, and only
\* publishes InvoicePaid.
LEMMA CallFrame ==
    ASSUME NEW c \in Calls, Call(c), TypeOK
    PROVE  /\ UNCHANGED <<invoiceVars, handlerVars>>
           /\ \A i \in Invoices : event'[i] = event[i]
BY CryptoInvoicesAssumption DEF TypeOK, Call, handle_inbound_tx, increase_amount_captured_select,
   increase_amount_captured, get_by_account_id, recalc_invoice_v2, refresh_rates, calculate_read,
   calculate_invoice_price, set_amount_paid, abandon_call, CallGoes, Jobs, eventVars, Queue!Add

\* A handler touches no payment and no call, links no account, and its event
\* stays in the queue.
LEMMA HandlerFrame ==
    ASSUME NEW j \in Jobs, Handler(j), TypeOK
    PROVE  /\ UNCHANGED <<pooled, cstep, moneyVars, callVars, historyVars>>
           /\ \A k \in Jobs : event'[k] = "absent" <=> event[k] = "absent"
           /\ \A i \in Invoices : account_id'[i] \in {account_id[i], None}
BY CryptoInvoicesAssumption DEF TypeOK, Handler, start_handler, handle_payment_expired,
   drain_and_unlink_account, drain_account, unlink_account, set_orders_status,
   create_fee_for_orders, finish_handler, fail_handler, HandlerGoes, Target, invoiceVars,
   eventVars, Queue!JobStates, Queue!Start, Queue!Complete, Queue!GiveBack

\* The invariant holds before anything happened.
LEMMA InvInit == Init => Inv
BY CryptoInvoicesAssumption DEF Init, Inv, TypeOK, FeesOK, CallInv, OverlapInv, CreateInv, PaidInv,
   ExpiredInv,
   CapturedAccounted, PaidIsCovered, AccountExclusive, Linked, Created, Jobs,
   CreateSteps, CallSteps, HandlerSteps, Expiring, Queue!Init, Queue!JobStates

\* Every step keeps the types of the fees.
LEMMA FeesNext == TypeOK /\ [Next]_vars => FeesOK'
<1> SUFFICES ASSUME TypeOK, FeesOK, [Next]_vars PROVE FeesOK'
  BY DEF TypeOK
<1>1. ASSUME NEW i \in Invoices, Creation(i) PROVE FeesOK'
  BY <1>1, CreationFrame DEF FeesOK, handlerVars
<1>2. ASSUME NEW c \in Calls, Call(c) PROVE FeesOK'
  BY <1>2, CallFrame DEF FeesOK, handlerVars
<1>3. ASSUME NEW j \in Jobs, start_handler(j) PROVE FeesOK'
  BY <1>3 DEF start_handler, FeesOK
<1>4. ASSUME NEW j \in Jobs, create_fee_for_orders(j) PROVE FeesOK'
  <2>1. PICK o \in Orders :
          /\ fees' = [fees EXCEPT ![Target(j)] = @ \cup {o}]
          /\ fdone' = [fdone EXCEPT ![j] = @ \cup {o}]
    BY <1>4 DEF create_fee_for_orders
  <2>2. fdone' \in [Jobs -> SUBSET Orders]
    BY <2>1 DEF FeesOK
  <2>3. fees' \in [Invoices -> SUBSET Orders]
    BY <2>1 DEF FeesOK
  <2> QED BY <2>2, <2>3 DEF FeesOK
<1>5. ASSUME NEW j \in Jobs, Handler(j), ~start_handler(j), ~create_fee_for_orders(j)
      PROVE FeesOK'
  BY <1>5 DEF Handler, handle_payment_expired, drain_and_unlink_account, drain_account,
     unlink_account, set_orders_status, finish_handler, fail_handler, FeesOK
<1>6. CASE UNCHANGED vars
  BY <1>6 DEF vars, handlerVars, FeesOK
<1> QED BY <1>1, <1>2, <1>3, <1>4, <1>5, <1>6 DEF Next

\* Every step keeps the types.
LEMMA TypeNext == Inv /\ [Next]_vars => TypeOK'
<1> SUFFICES ASSUME Inv, [Next]_vars, FeesOK' PROVE TypeOK'
  BY FeesNext DEF Inv
<1> USE CryptoInvoicesAssumption DEF Inv, TypeOK, Created, Jobs, CreateSteps, CallSteps,
      HandlerSteps, Queue!JobStates, CallInv, PaidInv, ExpiredInv, invoiceVars, moneyVars,
      callVars, eventVars, handlerVars, historyVars
<1>1. ASSUME NEW i \in Invoices, get_or_create_free_pooled_account(i) PROVE TypeOK'
  BY <1>1 DEF get_or_create_free_pooled_account, CreateGoes
<1>2. ASSUME NEW i \in Invoices, schedule_payment_expired(i) PROVE TypeOK'
  BY <1>2 DEF schedule_payment_expired, CreateGoes, Queue!Add
<1>3. ASSUME NEW i \in Invoices, NEW p \in Prices, create(i, p) PROVE TypeOK'
  BY <1>3 DEF create, CreateGoes
<1>4. ASSUME NEW i \in Invoices, abandon_create(i) PROVE TypeOK'
  BY <1>4 DEF abandon_create, CreateGoes
<1>5. ASSUME NEW c \in Calls, NEW t \in Txs, handle_inbound_tx(c, t) PROVE TypeOK'
  BY <1>5 DEF handle_inbound_tx, CallGoes
<1>6. ASSUME NEW c \in Calls, increase_amount_captured_select(c) PROVE TypeOK'
  <2>1. tx[c] \in Txs /\ AmountOf[tx[c]] \in Nat
    BY <1>6 DEF increase_amount_captured_select
  <2>2. \A i \in Invoices : amount_captured[i] + AmountOf[tx[c]] \in Nat
    BY <2>1
  <2>3. CASE step'[c] = "insert"
    <3>1. PICK i \in Invoices :
            /\ step' = [step EXCEPT ![c] = "insert"]
            /\ inv' = [inv EXCEPT ![c] = i]
            /\ amount' = [amount EXCEPT ![c] = amount_captured[i] + AmountOf[tx[c]]]
            /\ overlapped' \in {overlapped, overlapped \cup {i}}
      BY <1>6, <2>3 DEF increase_amount_captured_select, Linked
    <3> QED BY <1>6, <2>2, <3>1 DEF increase_amount_captured_select
  <2>4. CASE step'[c] # "insert"
    BY <1>6, <2>4 DEF increase_amount_captured_select
  <2> QED BY <2>3, <2>4
<1>7. ASSUME NEW c \in Calls, increase_amount_captured(c) PROVE TypeOK'
  <2>1. /\ tx[c] \in Txs /\ AmountOf[tx[c]] \in Nat
        /\ inv[c] \in Created /\ amount[c] \in 0..MaxAmount
    BY <1>7 DEF increase_amount_captured, CallGoes
  <2>2. CASE received[tx[c]] = None
    <3>1. /\ received' = [received EXCEPT ![tx[c]] = inv[c]]
          /\ total_received' = [total_received EXCEPT ![inv[c]] = @ + AmountOf[tx[c]]]
          /\ amount_captured' = [amount_captured EXCEPT ![inv[c]] = amount[c]]
          /\ step' = [step EXCEPT ![c] = IF inv[c] \in paid THEN "done" ELSE "refresh"]
      BY <1>7, <2>2 DEF increase_amount_captured, CallGoes, AfterRead
    <3>2. UNCHANGED <<invoiceVars, price, paid, final_amount_paid, tx, inv, amount, eventVars,
                      handlerVars, historyVars>>
      BY <1>7 DEF increase_amount_captured
    <3>3. received' \in [Txs -> Created' \cup {None}] /\ step' \in [Calls -> CallSteps]
      BY <2>1, <3>1, <3>2
    <3>4. total_received' \in [Invoices -> Nat] /\ amount_captured' \in [Invoices -> 0..MaxAmount]
      BY <2>1, <3>1
    <3> QED BY <3>2, <3>3, <3>4
  <2>3. CASE received[tx[c]] # None
    BY <1>7, <2>3 DEF increase_amount_captured, CallGoes
  <2> QED BY <2>2, <2>3
<1>8. ASSUME NEW c \in Calls, get_by_account_id(c) PROVE TypeOK'
  BY <1>8 DEF get_by_account_id, AfterRead, Linked
<1>9. ASSUME NEW c \in Calls, NEW i \in Invoices, recalc_invoice_v2(c, i) PROVE TypeOK'
  BY <1>9 DEF recalc_invoice_v2, CallGoes, AfterRead
<1>10. ASSUME NEW c \in Calls, NEW p \in Prices, refresh_rates(c, p) PROVE TypeOK'
  BY <1>10 DEF refresh_rates, CallGoes
<1>11. ASSUME NEW c \in Calls, calculate_read(c) PROVE TypeOK'
  BY <1>11 DEF calculate_read, CallGoes
<1>12. ASSUME NEW c \in Calls, calculate_invoice_price(c) PROVE TypeOK'
  <2>1. /\ UNCHANGED <<invoiceVars, moneyVars, tx, inv, eventVars, handlerVars, historyVars>>
        /\ step[c] = "calculate"
    BY <1>12 DEF calculate_invoice_price, CallGoes
  <2>2. amount[c] \in Nat /\ price[inv[c]] \in Nat
    BY <2>1
  <2>3. step' \in [Calls -> CallSteps]
    BY <1>12 DEF calculate_invoice_price, CallGoes
  <2>4. amount' \in [Calls -> Nat]
    <3>1. CASE has_become_paid(amount[c], price[inv[c]])
      <4>1. from_super_unit(price[inv[c]]) \in Nat
        BY <2>2, <3>1, PaidAmount
      <4>2. amount' = [amount EXCEPT ![c] = from_super_unit(price[inv[c]])]
        BY ONLY <1>12, <3>1 DEF calculate_invoice_price
      <4> QED BY <4>1, <4>2
    <3>2. CASE ~has_become_paid(amount[c], price[inv[c]])
      <4>1. UNCHANGED amount
        BY ONLY <1>12, <3>2 DEF calculate_invoice_price
      <4> QED BY <4>1
    <3> QED BY <3>1, <3>2
  <2> QED BY <2>1, <2>3, <2>4
<1>13. ASSUME NEW c \in Calls, set_amount_paid(c) PROVE TypeOK'
  BY <1>13 DEF set_amount_paid, CallGoes, Queue!Add
<1>14. ASSUME NEW c \in Calls, abandon_call(c) PROVE TypeOK'
  BY <1>14 DEF abandon_call, CallGoes
<1>15. ASSUME NEW j \in Jobs, start_handler(j) PROVE TypeOK'
  BY <1>15 DEF start_handler, HandlerGoes, Queue!Start
<1>16. ASSUME NEW j \in Jobs, handle_payment_expired(j) PROVE TypeOK'
  BY <1>16 DEF handle_payment_expired, HandlerGoes, Target
<1>17. ASSUME NEW j \in Jobs, drain_and_unlink_account(j) PROVE TypeOK'
  BY <1>17 DEF drain_and_unlink_account, HandlerGoes, Target
<1>18. ASSUME NEW j \in Jobs, drain_account(j) PROVE TypeOK'
  BY <1>18 DEF drain_account, HandlerGoes
<1>19. ASSUME NEW j \in Jobs, unlink_account(j) PROVE TypeOK'
  BY <1>19 DEF unlink_account, HandlerGoes, Target
<1>20. ASSUME NEW j \in Jobs, set_orders_status(j) PROVE TypeOK'
  BY <1>20 DEF set_orders_status, HandlerGoes, Target
<1>21. ASSUME NEW j \in Jobs, create_fee_for_orders(j) PROVE TypeOK'
  BY <1>21 DEF create_fee_for_orders, HandlerGoes, Target
<1>22. ASSUME NEW j \in Jobs, finish_handler(j) PROVE TypeOK'
  BY <1>22 DEF finish_handler, HandlerGoes, Queue!Complete
<1>23. ASSUME NEW j \in Jobs, fail_handler(j) PROVE TypeOK'
  BY <1>23 DEF fail_handler, HandlerGoes, Queue!GiveBack
<1>24. CASE UNCHANGED vars
  BY <1>24 DEF vars
<1> QED
  BY <1>1, <1>2, <1>3, <1>4, <1>5, <1>6, <1>7, <1>8, <1>9, <1>10, <1>11, <1>12, <1>13,
     <1>14, <1>15, <1>16, <1>17, <1>18, <1>19, <1>20, <1>21, <1>22, <1>23, <1>24 DEF Next,
     Creation, Call, Handler

\* Every step keeps what calls know.
LEMMA CallNext == Inv /\ [Next]_vars => CallInv'
<1> SUFFICES ASSUME Inv, [Next]_vars PROVE CallInv'
  OBVIOUS
<1> USE CryptoInvoicesAssumption DEF Inv, TypeOK, Created, Jobs, CreateSteps, CallSteps,
      HandlerSteps, Queue!JobStates, CallInv, CapturedAccounted, invoiceVars, moneyVars,
      callVars, eventVars, handlerVars, historyVars
<1>1. ASSUME NEW i \in Invoices, Creation(i) PROVE CallInv'
  BY <1>1, CreationFrame
<1>2. ASSUME NEW c \in Calls, NEW t \in Txs, handle_inbound_tx(c, t) PROVE CallInv'
  BY <1>2 DEF handle_inbound_tx, CallGoes
<1>3. ASSUME NEW c \in Calls, increase_amount_captured_select(c) PROVE CallInv'
  BY <1>3 DEF increase_amount_captured_select, Linked
<1>4. ASSUME NEW c \in Calls, increase_amount_captured(c) PROVE CallInv'
  <2>1. /\ tx[c] \in Txs /\ AmountOf[tx[c]] \in Nat
        /\ inv[c] \in Invoices /\ amount[c] \in Nat
    BY <1>4 DEF increase_amount_captured, CallGoes
  <2>2. CASE received[tx[c]] = None
    <3>1. /\ total_received' = [total_received EXCEPT ![inv[c]] = @ + AmountOf[tx[c]]]
          /\ received' = [received EXCEPT ![tx[c]] = inv[c]]
          /\ step' = [step EXCEPT ![c] = IF inv[c] \in paid THEN "done" ELSE "refresh"]
          /\ UNCHANGED <<cstep, paid, tx, inv, amount, event>>
      BY <1>4, <2>2 DEF increase_amount_captured, CallGoes, AfterRead
    <3>2. \A i \in Invoices : total_received'[i] \in Nat /\ total_received[i] <= total_received'[i]
      BY <2>1, <3>1
    <3>3. \A t \in Txs : received'[t] = None => received[t] = None
      BY <2>1, <3>1
    <3> QED BY <1>4, <2>1, <3>1, <3>2, <3>3 DEF increase_amount_captured, CallGoes
  <2>3. CASE received[tx[c]] # None
    BY <1>4, <2>3 DEF increase_amount_captured, CallGoes
  <2> QED BY <2>2, <2>3
<1>5. ASSUME NEW c \in Calls, get_by_account_id(c) PROVE CallInv'
  BY <1>5 DEF get_by_account_id, AfterRead, Linked
<1>6. ASSUME NEW c \in Calls, NEW i \in Invoices, recalc_invoice_v2(c, i) PROVE CallInv'
  BY <1>6 DEF recalc_invoice_v2, CallGoes, AfterRead
<1>7. ASSUME NEW c \in Calls, NEW p \in Prices, refresh_rates(c, p) PROVE CallInv'
  BY <1>7 DEF refresh_rates, CallGoes
<1>8. ASSUME NEW c \in Calls, calculate_read(c) PROVE CallInv'
  BY <1>8 DEF calculate_read, CallGoes
<1>9. ASSUME NEW c \in Calls, calculate_invoice_price(c) PROVE CallInv'
  BY <1>9, PaidAmount DEF calculate_invoice_price, CallGoes
<1>10. ASSUME NEW c \in Calls, set_amount_paid(c) PROVE CallInv'
  BY <1>10 DEF set_amount_paid, CallGoes, Queue!Add
<1>11. ASSUME NEW c \in Calls, abandon_call(c) PROVE CallInv'
  BY <1>11 DEF abandon_call, CallGoes
<1>12. ASSUME NEW j \in Jobs, Handler(j) PROVE CallInv'
  BY <1>12, HandlerFrame
<1>13. CASE UNCHANGED vars
  BY <1>13 DEF vars
<1> QED
  BY <1>1, <1>2, <1>3, <1>4, <1>5, <1>6, <1>7, <1>8, <1>9, <1>10, <1>11, <1>12, <1>13 DEF
     Next, Call

\* Every step keeps what calls know that no other call overlaps.
LEMMA OverlapNext == Inv /\ [Next]_vars => OverlapInv'
<1> SUFFICES ASSUME Inv, [Next]_vars PROVE OverlapInv'
  OBVIOUS
<1> USE CryptoInvoicesAssumption DEF Inv, TypeOK, Created, Jobs, CreateSteps, CallSteps,
      HandlerSteps, Queue!JobStates, CallInv, OverlapInv, invoiceVars,
      moneyVars, callVars, eventVars, handlerVars, historyVars
<1>1. ASSUME NEW i \in Invoices, Creation(i) PROVE OverlapInv'
  BY <1>1, CreationFrame
<1>2. ASSUME NEW c \in Calls, NEW t \in Txs, handle_inbound_tx(c, t) PROVE OverlapInv'
  BY <1>2 DEF handle_inbound_tx, CallGoes
<1>3. ASSUME NEW c \in Calls, increase_amount_captured_select(c) PROVE OverlapInv'
  <2>1. \A i \in Invoices \ overlapped : amount_captured[i] = total_received[i]
    BY DEF CapturedAccounted
  <2> QED BY <1>3, <2>1 DEF increase_amount_captured_select, Linked
<1>4. ASSUME NEW c \in Calls, increase_amount_captured(c) PROVE OverlapInv'
  BY <1>4 DEF increase_amount_captured, CallGoes, AfterRead
<1>5. ASSUME NEW c \in Calls, get_by_account_id(c) PROVE OverlapInv'
  BY <1>5 DEF get_by_account_id, AfterRead, Linked
<1>6. ASSUME NEW c \in Calls, NEW i \in Invoices, recalc_invoice_v2(c, i) PROVE OverlapInv'
  BY <1>6 DEF recalc_invoice_v2, CallGoes, AfterRead
<1>7. ASSUME NEW c \in Calls, NEW p \in Prices, refresh_rates(c, p) PROVE OverlapInv'
  BY <1>7 DEF refresh_rates, CallGoes
<1>8. ASSUME NEW c \in Calls, calculate_read(c) PROVE OverlapInv'
  BY <1>8 DEF calculate_read, CallGoes
<1>9. ASSUME NEW c \in Calls, calculate_invoice_price(c) PROVE OverlapInv'
  BY <1>9 DEF calculate_invoice_price, CallGoes
<1>10. ASSUME NEW c \in Calls, set_amount_paid(c) PROVE OverlapInv'
  BY <1>10 DEF set_amount_paid, CallGoes, Queue!Add
<1>11. ASSUME NEW c \in Calls, abandon_call(c) PROVE OverlapInv'
  BY <1>11 DEF abandon_call, CallGoes
<1>12. ASSUME NEW j \in Jobs, Handler(j) PROVE OverlapInv'
  BY <1>12, HandlerFrame
<1>13. CASE UNCHANGED vars
  BY <1>13 DEF vars
<1> QED
  BY <1>1, <1>2, <1>3, <1>4, <1>5, <1>6, <1>7, <1>8, <1>9, <1>10, <1>11, <1>12, <1>13 DEF
     Next, Call

\* Every step keeps the order of events and invoices.
LEMMA CreateNext == Inv /\ [Next]_vars => CreateInv'
<1> SUFFICES ASSUME Inv, [Next]_vars PROVE CreateInv'
  OBVIOUS
<1> USE CryptoInvoicesAssumption DEF Inv, TypeOK, Created, Jobs, CreateSteps, CallSteps,
      HandlerSteps, Queue!JobStates, CreateInv, invoiceVars, moneyVars, callVars, eventVars,
      handlerVars, historyVars
<1>1. ASSUME NEW i \in Invoices, get_or_create_free_pooled_account(i) PROVE CreateInv'
  BY <1>1 DEF get_or_create_free_pooled_account, CreateGoes
<1>2. ASSUME NEW i \in Invoices, schedule_payment_expired(i) PROVE CreateInv'
  BY <1>2 DEF schedule_payment_expired, CreateGoes, Queue!Add
<1>3. ASSUME NEW i \in Invoices, NEW p \in Prices, create(i, p) PROVE CreateInv'
  BY <1>3 DEF create, CreateGoes
<1>4. ASSUME NEW i \in Invoices, abandon_create(i) PROVE CreateInv'
  BY <1>4 DEF abandon_create, CreateGoes
<1>5. ASSUME NEW c \in Calls, Call(c) PROVE CreateInv'
  BY <1>5, CallFrame
<1>6. ASSUME NEW j \in Jobs, Handler(j) PROVE CreateInv'
  BY <1>6, HandlerFrame
<1>7. CASE UNCHANGED vars
  BY <1>7 DEF vars
<1> QED
  BY <1>1, <1>2, <1>3, <1>4, <1>5, <1>6, <1>7 DEF Next, Creation

\* Every step keeps what the handlers of InvoicePaid know.
LEMMA PaidNext == Inv /\ [Next]_vars => PaidInv'
<1> SUFFICES ASSUME Inv, [Next]_vars PROVE PaidInv'
  OBVIOUS
<1> USE CryptoInvoicesAssumption DEF Inv, TypeOK, Created, Jobs, CreateSteps, CallSteps,
      HandlerSteps, Queue!JobStates, CallInv, CreateInv, PaidInv, ExpiredInv, Expiring,
      invoiceVars, moneyVars, callVars, eventVars, handlerVars, historyVars
<1>1. ASSUME NEW i \in Invoices, get_or_create_free_pooled_account(i) PROVE PaidInv'
  BY <1>1 DEF get_or_create_free_pooled_account, CreateGoes
<1>2. ASSUME NEW i \in Invoices, schedule_payment_expired(i) PROVE PaidInv'
  BY <1>2 DEF schedule_payment_expired, CreateGoes, Queue!Add
<1>3. ASSUME NEW i \in Invoices, NEW p \in Prices, create(i, p) PROVE PaidInv'
  BY <1>3 DEF create, CreateGoes
<1>4. ASSUME NEW i \in Invoices, abandon_create(i) PROVE PaidInv'
  BY <1>4 DEF abandon_create, CreateGoes
<1>5. ASSUME NEW c \in Calls, NEW t \in Txs, handle_inbound_tx(c, t) PROVE PaidInv'
  BY <1>5 DEF handle_inbound_tx, CallGoes
<1>6. ASSUME NEW c \in Calls, increase_amount_captured_select(c) PROVE PaidInv'
  BY <1>6 DEF increase_amount_captured_select, Linked
<1>7. ASSUME NEW c \in Calls, increase_amount_captured(c) PROVE PaidInv'
  BY <1>7 DEF increase_amount_captured, CallGoes, AfterRead
<1>8. ASSUME NEW c \in Calls, get_by_account_id(c) PROVE PaidInv'
  BY <1>8 DEF get_by_account_id, AfterRead, Linked
<1>9. ASSUME NEW c \in Calls, NEW i \in Invoices, recalc_invoice_v2(c, i) PROVE PaidInv'
  BY <1>9 DEF recalc_invoice_v2, CallGoes, AfterRead
<1>10. ASSUME NEW c \in Calls, NEW p \in Prices, refresh_rates(c, p) PROVE PaidInv'
  BY <1>10 DEF refresh_rates, CallGoes
<1>11. ASSUME NEW c \in Calls, calculate_read(c) PROVE PaidInv'
  BY <1>11 DEF calculate_read, CallGoes
<1>12. ASSUME NEW c \in Calls, calculate_invoice_price(c) PROVE PaidInv'
  BY <1>12 DEF calculate_invoice_price, CallGoes
<1>13. ASSUME NEW c \in Calls, set_amount_paid(c) PROVE PaidInv'
  BY <1>13 DEF set_amount_paid, CallGoes, Queue!Add
<1>14. ASSUME NEW c \in Calls, abandon_call(c) PROVE PaidInv'
  BY <1>14 DEF abandon_call, CallGoes
<1>15. ASSUME NEW j \in Jobs, start_handler(j) PROVE PaidInv'
  BY <1>15 DEF start_handler, HandlerGoes, Queue!Start, FeesOK
<1>16. ASSUME NEW j \in Jobs, handle_payment_expired(j) PROVE PaidInv'
  BY <1>16 DEF handle_payment_expired, HandlerGoes, Target
<1>17. ASSUME NEW j \in Jobs, drain_and_unlink_account(j) PROVE PaidInv'
  BY <1>17 DEF drain_and_unlink_account, HandlerGoes, Target
<1>18. ASSUME NEW j \in Jobs, drain_account(j) PROVE PaidInv'
  BY <1>18 DEF drain_account, HandlerGoes
<1>19. ASSUME NEW j \in Jobs, unlink_account(j) PROVE PaidInv'
  BY <1>19 DEF unlink_account, HandlerGoes, Target
<1>20. ASSUME NEW j \in Jobs, set_orders_status(j) PROVE PaidInv'
  BY <1>20 DEF set_orders_status, HandlerGoes, Target
<1>21. ASSUME NEW j \in Jobs, create_fee_for_orders(j) PROVE PaidInv'
  <2>1. j \in Calls /\ inv[j] \in Invoices /\ Target(j) = inv[j]
    BY <1>21 DEF create_fee_for_orders, HandlerGoes, Target
  <2>2. PICK o \in Orders :
          /\ hstep[j] = "fee"
          /\ hstep' = [hstep EXCEPT ![j] =
                         IF fdone[j] \cup {o} = Orders THEN "ok" ELSE "fee"]
          /\ fees' = [fees EXCEPT ![inv[j]] = @ \cup {o}]
          /\ fdone' = [fdone EXCEPT ![j] = @ \cup {o}]
    BY ONLY <1>21, <2>1 DEF create_fee_for_orders, HandlerGoes
  <2>u. UNCHANGED <<account_id, inv, event, order_status, raced>>
    BY <1>21 DEF create_fee_for_orders
  <2>3. \A c \in Calls : inv[c] \in Invoices => fees[inv[c]] \subseteq fees'[inv[c]]
    BY <2>1, <2>2, <2>u DEF FeesOK
  <2>4. ASSUME NEW c \in Calls, hstep'[c] # "idle" PROVE fdone'[c] \subseteq fees'[inv'[c]]
    <3>1. CASE c = j
      BY <2>1, <2>2, <2>u, <3>1 DEF FeesOK
    <3>2. CASE c # j
      BY <2>1, <2>2, <2>u, <2>3, <2>4, <3>2 DEF FeesOK
    <3> QED BY <3>1, <3>2
  <2>5. ASSUME NEW c \in Calls, hstep'[c] = "ok" \/ event'[c] = "completed"
        PROVE fees'[inv'[c]] = Orders
    <3>1. CASE c = j
      BY <2>1, <2>2, <2>u, <2>4, <2>5, <3>1 DEF FeesOK
    <3>2. CASE c # j
      BY <2>1, <2>2, <2>u, <2>3, <2>5, <3>2 DEF FeesOK
    <3> QED BY <3>1, <3>2
  <2>6. ASSUME NEW c \in Calls
        PROVE /\ hstep'[c] # "get"
              /\ hstep'[c] # "idle" => event'[c] = "in_progress"
              /\ hstep'[c] \in {"status", "fee", "ok"} \/ event'[c] = "completed" =>
                   account_id'[inv'[c]] = None
              /\ hstep'[c] \in {"fee", "ok"} \/ event'[c] = "completed" =>
                   order_status'[inv'[c]] = "Paid" \/ inv'[c] \in raced'
    BY <2>1, <2>2, <2>u
  <2> QED BY <2>4, <2>5, <2>6
<1>22. ASSUME NEW j \in Jobs, finish_handler(j) PROVE PaidInv'
  BY <1>22 DEF finish_handler, HandlerGoes, Queue!Complete
<1>23. ASSUME NEW j \in Jobs, fail_handler(j) PROVE PaidInv'
  BY <1>23 DEF fail_handler, HandlerGoes, Queue!GiveBack
<1>24. CASE UNCHANGED vars
  BY <1>24 DEF vars
<1> QED
  BY <1>1, <1>2, <1>3, <1>4, <1>5, <1>6, <1>7, <1>8, <1>9, <1>10, <1>11, <1>12, <1>13,
     <1>14, <1>15, <1>16, <1>17, <1>18, <1>19, <1>20, <1>21, <1>22, <1>23, <1>24 DEF Next,
     Creation, Call, Handler

\* Every step keeps what the handlers of PaymentExpired know.
LEMMA ExpiredNext == Inv /\ [Next]_vars => ExpiredInv'
<1> SUFFICES ASSUME Inv, [Next]_vars PROVE ExpiredInv'
  OBVIOUS
<1> USE CryptoInvoicesAssumption DEF Inv, TypeOK, Created, Jobs, CreateSteps, CallSteps,
      HandlerSteps, Queue!JobStates, CallInv, CreateInv, PaidInv, ExpiredInv, Expiring,
      invoiceVars, moneyVars, callVars, eventVars, handlerVars, historyVars
<1>1. ASSUME NEW i \in Invoices, get_or_create_free_pooled_account(i) PROVE ExpiredInv'
  BY <1>1 DEF get_or_create_free_pooled_account, CreateGoes
<1>2. ASSUME NEW i \in Invoices, schedule_payment_expired(i) PROVE ExpiredInv'
  BY <1>2 DEF schedule_payment_expired, CreateGoes, Queue!Add
<1>3. ASSUME NEW i \in Invoices, NEW p \in Prices, create(i, p) PROVE ExpiredInv'
  BY <1>3 DEF create, CreateGoes
<1>4. ASSUME NEW i \in Invoices, abandon_create(i) PROVE ExpiredInv'
  BY <1>4 DEF abandon_create, CreateGoes
<1>5. ASSUME NEW c \in Calls, NEW t \in Txs, handle_inbound_tx(c, t) PROVE ExpiredInv'
  BY <1>5 DEF handle_inbound_tx, CallGoes
<1>6. ASSUME NEW c \in Calls, increase_amount_captured_select(c) PROVE ExpiredInv'
  BY <1>6 DEF increase_amount_captured_select, Linked
<1>7. ASSUME NEW c \in Calls, increase_amount_captured(c) PROVE ExpiredInv'
  BY <1>7 DEF increase_amount_captured, CallGoes, AfterRead
<1>8. ASSUME NEW c \in Calls, get_by_account_id(c) PROVE ExpiredInv'
  BY <1>8 DEF get_by_account_id, AfterRead, Linked
<1>9. ASSUME NEW c \in Calls, NEW i \in Invoices, recalc_invoice_v2(c, i) PROVE ExpiredInv'
  BY <1>9 DEF recalc_invoice_v2, CallGoes, AfterRead
<1>10. ASSUME NEW c \in Calls, NEW p \in Prices, refresh_rates(c, p) PROVE ExpiredInv'
  BY <1>10 DEF refresh_rates, CallGoes
<1>11. ASSUME NEW c \in Calls, calculate_read(c) PROVE ExpiredInv'
  BY <1>11 DEF calculate_read, CallGoes
<1>12. ASSUME NEW c \in Calls, calculate_invoice_price(c) PROVE ExpiredInv'
  BY <1>12 DEF calculate_invoice_price, CallGoes
<1>13. ASSUME NEW c \in Calls, set_amount_paid(c) PROVE ExpiredInv'
  BY <1>13 DEF set_amount_paid, CallGoes, Queue!Add
<1>14. ASSUME NEW c \in Calls, abandon_call(c) PROVE ExpiredInv'
  BY <1>14 DEF abandon_call, CallGoes
<1>15. ASSUME NEW j \in Jobs, start_handler(j) PROVE ExpiredInv'
  BY <1>15 DEF start_handler, HandlerGoes, Queue!Start
<1>16. ASSUME NEW j \in Jobs, handle_payment_expired(j) PROVE ExpiredInv'
  BY <1>16 DEF handle_payment_expired, HandlerGoes, Target
<1>17. ASSUME NEW j \in Jobs, drain_and_unlink_account(j) PROVE ExpiredInv'
  BY <1>17 DEF drain_and_unlink_account, HandlerGoes, Target
<1>18. ASSUME NEW j \in Jobs, drain_account(j) PROVE ExpiredInv'
  BY <1>18 DEF drain_account, HandlerGoes
<1>19. ASSUME NEW j \in Jobs, unlink_account(j) PROVE ExpiredInv'
  BY <1>19 DEF unlink_account, HandlerGoes, Target
<1>20. ASSUME NEW j \in Jobs, set_orders_status(j) PROVE ExpiredInv'
  BY <1>20 DEF set_orders_status, HandlerGoes, Target
<1>21. ASSUME NEW j \in Jobs, create_fee_for_orders(j) PROVE ExpiredInv'
  BY <1>21 DEF create_fee_for_orders, HandlerGoes, Target
<1>22. ASSUME NEW j \in Jobs, finish_handler(j) PROVE ExpiredInv'
  BY <1>22 DEF finish_handler, HandlerGoes, Queue!Complete
<1>23. ASSUME NEW j \in Jobs, fail_handler(j) PROVE ExpiredInv'
  BY <1>23 DEF fail_handler, HandlerGoes, Queue!GiveBack
<1>24. CASE UNCHANGED vars
  BY <1>24 DEF vars
<1> QED
  BY <1>1, <1>2, <1>3, <1>4, <1>5, <1>6, <1>7, <1>8, <1>9, <1>10, <1>11, <1>12, <1>13,
     <1>14, <1>15, <1>16, <1>17, <1>18, <1>19, <1>20, <1>21, <1>22, <1>23, <1>24 DEF Next,
     Creation, Call, Handler

\* Every step keeps the amounts covered.
LEMMA CoveredNext == Inv /\ [Next]_vars => PaidIsCovered'
<1> SUFFICES ASSUME Inv, [Next]_vars PROVE PaidIsCovered'
  OBVIOUS
<1> USE CryptoInvoicesAssumption DEF Inv, TypeOK, Created, Jobs, CreateSteps, CallSteps,
      HandlerSteps, Queue!JobStates, CallInv, PaidIsCovered, invoiceVars,
      moneyVars, callVars, eventVars, handlerVars, historyVars
<1>1. ASSUME NEW i \in Invoices, Creation(i) PROVE PaidIsCovered'
  BY <1>1, CreationFrame
<1>2. ASSUME NEW c \in Calls, NEW t \in Txs, handle_inbound_tx(c, t) PROVE PaidIsCovered'
  BY <1>2 DEF handle_inbound_tx, CallGoes
<1>3. ASSUME NEW c \in Calls, increase_amount_captured_select(c) PROVE PaidIsCovered'
  BY <1>3 DEF increase_amount_captured_select, Linked
<1>4. ASSUME NEW c \in Calls, increase_amount_captured(c) PROVE PaidIsCovered'
  <2>1. /\ tx[c] \in Txs /\ AmountOf[tx[c]] \in Nat
        /\ inv[c] \in Invoices /\ amount[c] \in Nat
    BY <1>4 DEF increase_amount_captured, CallGoes
  <2>2. CASE received[tx[c]] = None
    <3>1. /\ total_received' = [total_received EXCEPT ![inv[c]] = @ + AmountOf[tx[c]]]
          /\ UNCHANGED <<paid, final_amount_paid>>
      BY <1>4, <2>2 DEF increase_amount_captured, CallGoes
    <3>2. \A i \in Invoices : total_received[i] <= total_received'[i]
      BY <2>1, <3>1
    <3> QED BY <2>1, <3>1, <3>2
  <2>3. CASE received[tx[c]] # None
    BY <1>4, <2>3 DEF increase_amount_captured, CallGoes
  <2> QED BY <2>2, <2>3
<1>5. ASSUME NEW c \in Calls, get_by_account_id(c) PROVE PaidIsCovered'
  BY <1>5 DEF get_by_account_id, AfterRead, Linked
<1>6. ASSUME NEW c \in Calls, NEW i \in Invoices, recalc_invoice_v2(c, i) PROVE PaidIsCovered'
  BY <1>6 DEF recalc_invoice_v2, CallGoes, AfterRead
<1>7. ASSUME NEW c \in Calls, NEW p \in Prices, refresh_rates(c, p) PROVE PaidIsCovered'
  BY <1>7 DEF refresh_rates, CallGoes
<1>8. ASSUME NEW c \in Calls, calculate_read(c) PROVE PaidIsCovered'
  BY <1>8 DEF calculate_read, CallGoes
<1>9. ASSUME NEW c \in Calls, calculate_invoice_price(c) PROVE PaidIsCovered'
  BY <1>9 DEF calculate_invoice_price, CallGoes
<1>10. ASSUME NEW c \in Calls, set_amount_paid(c) PROVE PaidIsCovered'
  BY <1>10 DEF set_amount_paid, CallGoes, Queue!Add
<1>11. ASSUME NEW c \in Calls, abandon_call(c) PROVE PaidIsCovered'
  BY <1>11 DEF abandon_call, CallGoes
<1>12. ASSUME NEW j \in Jobs, Handler(j) PROVE PaidIsCovered'
  BY <1>12, HandlerFrame
<1>13. CASE UNCHANGED vars
  BY <1>13 DEF vars
<1> QED
  BY <1>1, <1>2, <1>3, <1>4, <1>5, <1>6, <1>7, <1>8, <1>9, <1>10, <1>11, <1>12, <1>13 DEF
     Next, Call

\* Every step keeps the amounts captured accounted for.
LEMMA CapturedNext == Inv /\ [Next]_vars => CapturedAccounted'
<1> SUFFICES ASSUME Inv, [Next]_vars PROVE CapturedAccounted'
  OBVIOUS
<1> USE CryptoInvoicesAssumption DEF Inv, TypeOK, Created, Jobs, CreateSteps, CallSteps,
      HandlerSteps, Queue!JobStates, CallInv, OverlapInv, CapturedAccounted, invoiceVars,
      moneyVars, callVars, eventVars, handlerVars, historyVars
<1>1. ASSUME NEW i \in Invoices, Creation(i) PROVE CapturedAccounted'
  BY <1>1, CreationFrame
<1>2. ASSUME NEW c \in Calls, NEW t \in Txs, handle_inbound_tx(c, t) PROVE CapturedAccounted'
  BY <1>2 DEF handle_inbound_tx, CallGoes
<1>3. ASSUME NEW c \in Calls, increase_amount_captured_select(c) PROVE CapturedAccounted'
  BY <1>3 DEF increase_amount_captured_select, Linked
<1>4. ASSUME NEW c \in Calls, increase_amount_captured(c) PROVE CapturedAccounted'
  <2>1. /\ tx[c] \in Txs /\ AmountOf[tx[c]] \in Nat
        /\ inv[c] \in Invoices /\ amount[c] \in Nat
    BY <1>4 DEF increase_amount_captured, CallGoes
  <2>2. CASE received[tx[c]] = None
    <3>1. /\ total_received' = [total_received EXCEPT ![inv[c]] = @ + AmountOf[tx[c]]]
          /\ amount_captured' = [amount_captured EXCEPT ![inv[c]] = amount[c]]
          /\ amount[c] <= total_received[inv[c]] + AmountOf[tx[c]]
          /\ UNCHANGED overlapped
      BY <1>4, <2>2 DEF increase_amount_captured, CallGoes
    <3>2. inv[c] \notin overlapped => amount[c] = total_received[inv[c]] + AmountOf[tx[c]]
      BY <1>4, <2>2 DEF increase_amount_captured, CallGoes
    <3> QED BY <2>1, <3>1, <3>2
  <2>3. CASE received[tx[c]] # None
    BY <1>4, <2>3 DEF increase_amount_captured, CallGoes
  <2> QED BY <2>2, <2>3
<1>5. ASSUME NEW c \in Calls, get_by_account_id(c) PROVE CapturedAccounted'
  BY <1>5 DEF get_by_account_id, AfterRead, Linked
<1>6. ASSUME NEW c \in Calls, NEW i \in Invoices, recalc_invoice_v2(c, i) PROVE CapturedAccounted'
  BY <1>6 DEF recalc_invoice_v2, CallGoes, AfterRead
<1>7. ASSUME NEW c \in Calls, NEW p \in Prices, refresh_rates(c, p) PROVE CapturedAccounted'
  BY <1>7 DEF refresh_rates, CallGoes
<1>8. ASSUME NEW c \in Calls, calculate_read(c) PROVE CapturedAccounted'
  BY <1>8 DEF calculate_read, CallGoes
<1>9. ASSUME NEW c \in Calls, calculate_invoice_price(c) PROVE CapturedAccounted'
  BY <1>9 DEF calculate_invoice_price, CallGoes
<1>10. ASSUME NEW c \in Calls, set_amount_paid(c) PROVE CapturedAccounted'
  BY <1>10 DEF set_amount_paid, CallGoes, Queue!Add
<1>11. ASSUME NEW c \in Calls, abandon_call(c) PROVE CapturedAccounted'
  BY <1>11 DEF abandon_call, CallGoes
<1>12. ASSUME NEW j \in Jobs, Handler(j) PROVE CapturedAccounted'
  BY <1>12, HandlerFrame
<1>13. CASE UNCHANGED vars
  BY <1>13 DEF vars
<1> QED
  BY <1>1, <1>2, <1>3, <1>4, <1>5, <1>6, <1>7, <1>8, <1>9, <1>10, <1>11, <1>12, <1>13 DEF
     Next, Call

\* Every step keeps accounts apart.
LEMMA ExclusiveNext == Inv /\ [Next]_vars => AccountExclusive'
<1> SUFFICES ASSUME Inv, [Next]_vars PROVE AccountExclusive'
  OBVIOUS
<1> USE CryptoInvoicesAssumption DEF Inv, TypeOK, Created, Jobs, CreateSteps, CallSteps,
      HandlerSteps, Queue!JobStates, AccountExclusive, Linked, invoiceVars, moneyVars,
      callVars, eventVars, handlerVars, historyVars
<1>1. ASSUME NEW i \in Invoices, get_or_create_free_pooled_account(i) PROVE AccountExclusive'
  BY <1>1 DEF get_or_create_free_pooled_account, CreateGoes
<1>2. ASSUME NEW i \in Invoices, schedule_payment_expired(i) PROVE AccountExclusive'
  BY <1>2 DEF schedule_payment_expired, CreateGoes, Queue!Add
<1>3. ASSUME NEW i \in Invoices, NEW p \in Prices, create(i, p) PROVE AccountExclusive'
  BY <1>3 DEF create, CreateGoes
<1>4. ASSUME NEW i \in Invoices, abandon_create(i) PROVE AccountExclusive'
  BY <1>4 DEF abandon_create, CreateGoes
<1>5. ASSUME NEW c \in Calls, Call(c) PROVE AccountExclusive'
  BY <1>5, CallFrame
<1>6. ASSUME NEW j \in Jobs, Handler(j) PROVE AccountExclusive'
  BY <1>6, HandlerFrame
<1>7. CASE UNCHANGED vars
  BY <1>7 DEF vars
<1> QED
  BY <1>1, <1>2, <1>3, <1>4, <1>5, <1>6, <1>7 DEF Next, Creation

\* The invariant is inductive.
LEMMA InvNext == Inv /\ [Next]_vars => Inv'
BY TypeNext, CallNext, OverlapNext, CreateNext, PaidNext, ExpiredNext, CoveredNext, CapturedNext,
   ExclusiveNext DEF Inv

\* The invariant holds in every reachable state.
LEMMA InvAlways == Spec => []Inv
BY InvInit, InvNext, PTL DEF Spec

-----------------------------------------------------------------------------

\* No interleaving of callbacks makes an invoice count money it did not receive,
\* and money received is missed only by an increase that overlapped another.
THEOREM CapturedAccountedTheorem == Spec => []CapturedAccounted
<1>1. Inv => CapturedAccounted
  BY DEF Inv
<1> QED BY <1>1, InvAlways, PTL

\* The buyer of a paid invoice paid its final price, for any rates, any
\* precision and any scale of the conversions.
THEOREM PaidIsCoveredTheorem == Spec => []PaidIsCovered
<1>1. Inv => PaidIsCovered
  BY DEF Inv
<1> QED BY <1>1, InvAlways, PTL

\* An account is linked to one invoice at a time.
THEOREM AccountExclusiveTheorem == Spec => []AccountExclusive
<1>1. Inv => AccountExclusive
  BY DEF Inv
<1> QED BY <1>1, InvAlways, PTL

\* No invoice exists without the event that will expire it.
THEOREM ExpiryScheduledTheorem == Spec => []ExpiryScheduled
<1>1. Inv => ExpiryScheduled
  BY DEF Inv, CreateInv, ExpiryScheduled, Created
<1> QED BY <1>1, InvAlways, PTL

\* A completed event has given the account back and created all the fees.
THEOREM FollowedUpTheorem == Spec => []FollowedUp
<1>1. Inv => FollowedUp
  BY DEF Inv, PaidInv, ExpiredInv, FollowedUp
<1> QED BY <1>1, InvAlways, PTL

\* Saga knows the orders as paid unless expiry raced with the payment.
THEOREM ToldPaidTheorem == Spec => []ToldPaidUnlessRaced
<1>1. Inv => ToldPaidUnlessRaced
  BY DEF Inv, PaidInv, ToldPaidUnlessRaced
<1> QED BY <1>1, InvAlways, PTL

\* Every variable keeps its type.
THEOREM TypeTheorem == Spec => []TypeOK
<1>1. Inv => TypeOK
  BY DEF Inv
<1> QED BY <1>1, InvAlways, PTL

=============================================================================
