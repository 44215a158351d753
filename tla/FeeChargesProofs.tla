-------------------------- MODULE FeeChargesProofs --------------------------
(* Theorems about FeeCharges and Customers, for any users, calls, fees and   *)
(* requests.                                                                 *)
EXTENDS FeeCharges, TLAPS

\* The invariant holds before anything happened.
LEMMA InvInit == Init => Inv
<1> SUFFICES ASSUME Init PROVE Inv
  OBVIOUS
<1> USE CustomersAssumption, FeeChargesAssumption DEF Init, CustomersInit
<1>1. TypeOK
  BY DEF TypeOK, CustomersTypeOK, FeeStatus, ChargeSteps, CallSteps
<1>2. CallsInv
  BY DEF CallsInv, Creating, get_customers
<1>5. MirroringInv
  BY DEF MirroringInv, Mirroring
<1>3. ChargesInv
  BY DEF ChargesInv, Pending
<1>4. CustomersMirrored /\ ChargeRecorded
  BY DEF CustomersMirrored, ChargeRecorded
<1> QED BY <1>1, <1>2, <1>3, <1>4, <1>5 DEF Inv

\* Every step keeps the types.
LEMMA TypeNext == Inv /\ [Next]_vars => TypeOK'
<1> SUFFICES ASSUME Inv, [Next]_vars PROVE TypeOK'
  OBVIOUS
<1> USE CustomersAssumption, FeeChargesAssumption DEF Inv, CustomersTypeOK, TypeOK,
      CallGoes, ChargeGoes, customerTables, callVars, tornVars, customerVars,
      requestVars, feeVars, FeeStatus, ChargeSteps, CallSteps, CallsInv
<1>1. ASSUME NEW k \in Calls, NEW u \in Users, create_customer_with_source(k, u), UNCHANGED feeVars
     PROVE TypeOK'
  BY <1>1 DEF create_customer_with_source
<1>2. ASSUME NEW k \in Calls, stripe_create_customer(k), UNCHANGED feeVars PROVE TypeOK'
  BY <1>2 DEF stripe_create_customer
<1>3. ASSUME NEW k \in Calls, lose_creation(k), UNCHANGED feeVars PROVE TypeOK'
  BY <1>3 DEF lose_creation
<1>4. ASSUME NEW k \in Calls, create_row(k), UNCHANGED feeVars PROVE TypeOK'
  BY <1>4 DEF create_row, insert_customer
<1>5. ASSUME NEW k \in Calls, NEW c \in Calls, delete(k, c), UNCHANGED feeVars
     PROVE TypeOK'
  BY <1>5 DEF delete
<1>6. ASSUME NEW k \in Calls, NEW c \in Calls, delete_refused(k, c), UNCHANGED feeVars
     PROVE TypeOK'
  BY <1>6 DEF delete_refused
<1>7. ASSUME NEW k \in Calls, NEW c \in Calls, update(k, c), UNCHANGED feeVars
     PROVE TypeOK'
  BY <1>7 DEF update, update_email
<1>8. ASSUME NEW k \in Calls, remove_row(k), UNCHANGED feeVars PROVE TypeOK'
  BY <1>8 DEF remove_row, delete_row
<1>9. ASSUME NEW k \in Calls, stripe_update_customer(k), UNCHANGED feeVars PROVE TypeOK'
  BY <1>9 DEF stripe_update_customer
<1>10. ASSUME NEW k \in Calls, abandon_call(k), UNCHANGED feeVars PROVE TypeOK'
  BY <1>10 DEF abandon_call
<1>11. ASSUME NEW q \in Requests, NEW g \in Fees, create_charge(q, g) PROVE TypeOK'
  BY <1>11 DEF create_charge, ReadFees
<1>12. ASSUME NEW q \in Requests, NEW G \in SUBSET Fees, create_charge_by_order_ids(q, G)
     PROVE TypeOK'
  BY <1>12 DEF create_charge_by_order_ids, ReadFees
<1>13. ASSUME NEW q \in Requests, create_charge_by_fees(q) PROVE TypeOK'
  BY <1>13 DEF create_charge_by_fees
<1>14. ASSUME NEW q \in Requests, stripe_create_charge(q) PROVE TypeOK'
  BY <1>14 DEF stripe_create_charge, Charged
<1>15. ASSUME NEW q \in Requests, record_charge(q) PROVE TypeOK'
  BY <1>15 DEF record_charge, update_fees
<1>16. ASSUME NEW q \in Requests, lose_charge(q) PROVE TypeOK'
  BY <1>16 DEF lose_charge, Charged
<1>17. ASSUME NEW q \in Requests, abandon_charge(q) PROVE TypeOK'
  BY <1>17 DEF abandon_charge
<1>18. CASE UNCHANGED vars
  BY <1>18 DEF vars
<1> HIDE CustomersAssumption, FeeChargesAssumption DEF Inv, CustomersTypeOK, TypeOK,
      CallGoes, ChargeGoes, customerTables, callVars, tornVars, customerVars,
      requestVars, feeVars, FeeStatus, ChargeSteps, CallSteps, CallsInv
<1> QED
  BY <1>1, <1>2, <1>3, <1>4, <1>5, <1>6, <1>7, <1>8, <1>9, <1>10, <1>11, <1>12, <1>13,
     <1>14, <1>15, <1>16, <1>17, <1>18 DEF Next, CustomersNext, Charge

\* Every step keeps what the calls on customers know.
LEMMA CallsNext == Inv /\ [Next]_vars => CallsInv'
<1> SUFFICES ASSUME Inv, [Next]_vars PROVE CallsInv'
  OBVIOUS
<1> USE CustomersAssumption, FeeChargesAssumption DEF Inv, CustomersTypeOK, TypeOK,
      CallGoes, ChargeGoes, customerTables, callVars, tornVars, customerVars,
      requestVars, feeVars, CallsInv, Creating, get_customers
<1>1. ASSUME NEW k \in Calls, NEW u \in Users, create_customer_with_source(k, u), UNCHANGED feeVars
     PROVE CallsInv'
  BY <1>1 DEF create_customer_with_source
<1>2. ASSUME NEW k \in Calls, stripe_create_customer(k), UNCHANGED feeVars PROVE CallsInv'
  BY <1>2 DEF stripe_create_customer
<1>3. ASSUME NEW k \in Calls, lose_creation(k), UNCHANGED feeVars PROVE CallsInv'
  BY <1>3 DEF lose_creation
<1>4. ASSUME NEW k \in Calls, create_row(k), UNCHANGED feeVars PROVE CallsInv'
  BY <1>4 DEF create_row, insert_customer
<1>5. ASSUME NEW k \in Calls, NEW c \in Calls, delete(k, c), UNCHANGED feeVars
     PROVE CallsInv'
  BY <1>5 DEF delete
<1>6. ASSUME NEW k \in Calls, NEW c \in Calls, delete_refused(k, c), UNCHANGED feeVars
     PROVE CallsInv'
  BY <1>6 DEF delete_refused
<1>7. ASSUME NEW k \in Calls, NEW c \in Calls, update(k, c), UNCHANGED feeVars
     PROVE CallsInv'
  BY <1>7 DEF update, update_email
<1>8. ASSUME NEW k \in Calls, remove_row(k), UNCHANGED feeVars PROVE CallsInv'
  BY <1>8 DEF remove_row, delete_row
<1>9. ASSUME NEW k \in Calls, stripe_update_customer(k), UNCHANGED feeVars PROVE CallsInv'
  BY <1>9 DEF stripe_update_customer
<1>10. ASSUME NEW k \in Calls, abandon_call(k), UNCHANGED feeVars PROVE CallsInv'
  BY <1>10 DEF abandon_call
<1>11. ASSUME NEW q \in Requests, NEW g \in Fees, create_charge(q, g) PROVE CallsInv'
  <2>1. UNCHANGED customerVars
    BY <1>11 DEF create_charge, ReadFees
  <2> QED BY <2>1
<1>12. ASSUME NEW q \in Requests, NEW G \in SUBSET Fees, create_charge_by_order_ids(q, G)
     PROVE CallsInv'
  <2>1. UNCHANGED customerVars
    BY <1>12 DEF create_charge_by_order_ids, ReadFees
  <2> QED BY <2>1
<1>13. ASSUME NEW q \in Requests, create_charge_by_fees(q) PROVE CallsInv'
  <2>1. UNCHANGED customerVars
    BY <1>13 DEF create_charge_by_fees
  <2> QED BY <2>1
<1>14. ASSUME NEW q \in Requests, stripe_create_charge(q) PROVE CallsInv'
  <2>1. UNCHANGED customerVars
    BY <1>14 DEF stripe_create_charge, Charged
  <2> QED BY <2>1
<1>15. ASSUME NEW q \in Requests, record_charge(q) PROVE CallsInv'
  <2>1. UNCHANGED customerVars
    BY <1>15 DEF record_charge, update_fees
  <2> QED BY <2>1
<1>16. ASSUME NEW q \in Requests, lose_charge(q) PROVE CallsInv'
  <2>1. UNCHANGED customerVars
    BY <1>16 DEF lose_charge, Charged
  <2> QED BY <2>1
<1>17. ASSUME NEW q \in Requests, abandon_charge(q) PROVE CallsInv'
  <2>1. UNCHANGED customerVars
    BY <1>17 DEF abandon_charge
  <2> QED BY <2>1
<1>18. CASE UNCHANGED vars
  BY <1>18 DEF vars
<1> HIDE CustomersAssumption, FeeChargesAssumption DEF Inv, CustomersTypeOK, TypeOK,
      CallGoes, ChargeGoes, customerTables, callVars, tornVars, customerVars,
      requestVars, feeVars, CallsInv, Creating, get_customers
<1> QED
  BY <1>1, <1>2, <1>3, <1>4, <1>5, <1>6, <1>7, <1>8, <1>9, <1>10, <1>11, <1>12, <1>13,
     <1>14, <1>15, <1>16, <1>17, <1>18 DEF Next, CustomersNext, Charge

\* Every step keeps the updates of a customer apart.
LEMMA MirroringNext == Inv /\ [Next]_vars => MirroringInv'
<1> SUFFICES ASSUME Inv, [Next]_vars PROVE MirroringInv'
  OBVIOUS
<1> USE CustomersAssumption, FeeChargesAssumption DEF Inv, CustomersTypeOK, TypeOK,
      CallGoes, ChargeGoes, customerTables, callVars, tornVars, customerVars,
      requestVars, feeVars, CallsInv, MirroringInv, Mirroring
<1>1. ASSUME NEW k \in Calls, NEW u \in Users, create_customer_with_source(k, u), UNCHANGED feeVars
     PROVE MirroringInv'
  BY <1>1 DEF create_customer_with_source
<1>2. ASSUME NEW k \in Calls, stripe_create_customer(k), UNCHANGED feeVars
     PROVE MirroringInv'
  BY <1>2 DEF stripe_create_customer
<1>3. ASSUME NEW k \in Calls, lose_creation(k), UNCHANGED feeVars PROVE MirroringInv'
  BY <1>3 DEF lose_creation
<1>4. ASSUME NEW k \in Calls, create_row(k), UNCHANGED feeVars PROVE MirroringInv'
  BY <1>4 DEF create_row, insert_customer
<1>5. ASSUME NEW k \in Calls, NEW c \in Calls, delete(k, c), UNCHANGED feeVars
     PROVE MirroringInv'
  BY <1>5 DEF delete
<1>6. ASSUME NEW k \in Calls, NEW c \in Calls, delete_refused(k, c), UNCHANGED feeVars
     PROVE MirroringInv'
  BY <1>6 DEF delete_refused
<1>7. ASSUME NEW k \in Calls, NEW c \in Calls, update(k, c), UNCHANGED feeVars
     PROVE MirroringInv'
  BY <1>7 DEF update, update_email
<1>8. ASSUME NEW k \in Calls, remove_row(k), UNCHANGED feeVars PROVE MirroringInv'
  BY <1>8 DEF remove_row, delete_row
<1>9. ASSUME NEW k \in Calls, stripe_update_customer(k), UNCHANGED feeVars
     PROVE MirroringInv'
  BY <1>9 DEF stripe_update_customer
<1>10. ASSUME NEW k \in Calls, abandon_call(k), UNCHANGED feeVars PROVE MirroringInv'
  BY <1>10 DEF abandon_call
<1>11. ASSUME NEW q \in Requests, NEW g \in Fees, create_charge(q, g) PROVE MirroringInv'
  <2>1. UNCHANGED customerVars
    BY <1>11 DEF create_charge, ReadFees
  <2> QED BY <2>1
<1>12. ASSUME NEW q \in Requests, NEW G \in SUBSET Fees, create_charge_by_order_ids(q, G)
     PROVE MirroringInv'
  <2>1. UNCHANGED customerVars
    BY <1>12 DEF create_charge_by_order_ids, ReadFees
  <2> QED BY <2>1
<1>13. ASSUME NEW q \in Requests, create_charge_by_fees(q) PROVE MirroringInv'
  <2>1. UNCHANGED customerVars
    BY <1>13 DEF create_charge_by_fees
  <2> QED BY <2>1
<1>14. ASSUME NEW q \in Requests, stripe_create_charge(q) PROVE MirroringInv'
  <2>1. UNCHANGED customerVars
    BY <1>14 DEF stripe_create_charge, Charged
  <2> QED BY <2>1
<1>15. ASSUME NEW q \in Requests, record_charge(q) PROVE MirroringInv'
  <2>1. UNCHANGED customerVars
    BY <1>15 DEF record_charge, update_fees
  <2> QED BY <2>1
<1>16. ASSUME NEW q \in Requests, lose_charge(q) PROVE MirroringInv'
  <2>1. UNCHANGED customerVars
    BY <1>16 DEF lose_charge, Charged
  <2> QED BY <2>1
<1>17. ASSUME NEW q \in Requests, abandon_charge(q) PROVE MirroringInv'
  <2>1. UNCHANGED customerVars
    BY <1>17 DEF abandon_charge
  <2> QED BY <2>1
<1>18. CASE UNCHANGED vars
  BY <1>18 DEF vars
<1> HIDE CustomersAssumption, FeeChargesAssumption DEF Inv, CustomersTypeOK, TypeOK,
      CallGoes, ChargeGoes, customerTables, callVars, tornVars, customerVars,
      requestVars, feeVars, CallsInv, MirroringInv, Mirroring
<1> QED
  BY <1>1, <1>2, <1>3, <1>4, <1>5, <1>6, <1>7, <1>8, <1>9, <1>10, <1>11, <1>12, <1>13,
     <1>14, <1>15, <1>16, <1>17, <1>18 DEF Next, CustomersNext, Charge

\* Every step keeps the table a mirror of Stripe.
LEMMA MirroredNext == Inv /\ [Next]_vars => CustomersMirrored'
<1> SUFFICES ASSUME Inv, [Next]_vars PROVE CustomersMirrored'
  OBVIOUS
<1> USE CustomersAssumption, FeeChargesAssumption DEF Inv, CustomersTypeOK, TypeOK,
      CallGoes, ChargeGoes, customerTables, callVars, tornVars, customerVars,
      requestVars, feeVars, CallsInv, MirroringInv, Creating, get_customers, Mirroring,
      CustomersMirrored
<1>1. ASSUME NEW k \in Calls, NEW u \in Users, create_customer_with_source(k, u), UNCHANGED feeVars
     PROVE CustomersMirrored'
  BY <1>1 DEF create_customer_with_source
<1>2. ASSUME NEW k \in Calls, stripe_create_customer(k), UNCHANGED feeVars
     PROVE CustomersMirrored'
  BY <1>2 DEF stripe_create_customer
<1>3. ASSUME NEW k \in Calls, lose_creation(k), UNCHANGED feeVars PROVE CustomersMirrored'
  BY <1>3 DEF lose_creation
<1>4. ASSUME NEW k \in Calls, create_row(k), UNCHANGED feeVars PROVE CustomersMirrored'
  BY <1>4 DEF create_row, insert_customer
<1>5. ASSUME NEW k \in Calls, NEW c \in Calls, delete(k, c), UNCHANGED feeVars
     PROVE CustomersMirrored'
  BY <1>5 DEF delete
<1>6. ASSUME NEW k \in Calls, NEW c \in Calls, delete_refused(k, c), UNCHANGED feeVars
     PROVE CustomersMirrored'
  BY <1>6 DEF delete_refused
<1>7. ASSUME NEW k \in Calls, NEW c \in Calls, update(k, c), UNCHANGED feeVars
     PROVE CustomersMirrored'
  BY <1>7 DEF update, update_email
<1>8. ASSUME NEW k \in Calls, remove_row(k), UNCHANGED feeVars PROVE CustomersMirrored'
  BY <1>8 DEF remove_row, delete_row
<1>9. ASSUME NEW k \in Calls, stripe_update_customer(k), UNCHANGED feeVars
     PROVE CustomersMirrored'
  BY <1>9 DEF stripe_update_customer
<1>10. ASSUME NEW k \in Calls, abandon_call(k), UNCHANGED feeVars PROVE CustomersMirrored'
  BY <1>10 DEF abandon_call
<1>11. ASSUME NEW q \in Requests, NEW g \in Fees, create_charge(q, g)
     PROVE CustomersMirrored'
  <2>1. UNCHANGED customerVars
    BY <1>11 DEF create_charge, ReadFees
  <2> QED BY <2>1
<1>12. ASSUME NEW q \in Requests, NEW G \in SUBSET Fees, create_charge_by_order_ids(q, G)
     PROVE CustomersMirrored'
  <2>1. UNCHANGED customerVars
    BY <1>12 DEF create_charge_by_order_ids, ReadFees
  <2> QED BY <2>1
<1>13. ASSUME NEW q \in Requests, create_charge_by_fees(q) PROVE CustomersMirrored'
  <2>1. UNCHANGED customerVars
    BY <1>13 DEF create_charge_by_fees
  <2> QED BY <2>1
<1>14. ASSUME NEW q \in Requests, stripe_create_charge(q) PROVE CustomersMirrored'
  <2>1. UNCHANGED customerVars
    BY <1>14 DEF stripe_create_charge, Charged
  <2> QED BY <2>1
<1>15. ASSUME NEW q \in Requests, record_charge(q) PROVE CustomersMirrored'
  <2>1. UNCHANGED customerVars
    BY <1>15 DEF record_charge, update_fees
  <2> QED BY <2>1
<1>16. ASSUME NEW q \in Requests, lose_charge(q) PROVE CustomersMirrored'
  <2>1. UNCHANGED customerVars
    BY <1>16 DEF lose_charge, Charged
  <2> QED BY <2>1
<1>17. ASSUME NEW q \in Requests, abandon_charge(q) PROVE CustomersMirrored'
  <2>1. UNCHANGED customerVars
    BY <1>17 DEF abandon_charge
  <2> QED BY <2>1
<1>18. CASE UNCHANGED vars
  BY <1>18 DEF vars
<1> HIDE CustomersAssumption, FeeChargesAssumption DEF Inv, CustomersTypeOK, TypeOK,
      CallGoes, ChargeGoes, customerTables, callVars, tornVars, customerVars,
      requestVars, feeVars, CallsInv, MirroringInv, Creating, get_customers, Mirroring,
      CustomersMirrored
<1> QED
  BY <1>1, <1>2, <1>3, <1>4, <1>5, <1>6, <1>7, <1>8, <1>9, <1>10, <1>11, <1>12, <1>13,
     <1>14, <1>15, <1>16, <1>17, <1>18 DEF Next, CustomersNext, Charge

\* Every step keeps the requests apart.
LEMMA ChargesNext == Inv /\ [Next]_vars => ChargesInv'
<1> SUFFICES ASSUME Inv, [Next]_vars PROVE ChargesInv'
  OBVIOUS
<1> USE CustomersAssumption, FeeChargesAssumption DEF Inv, CustomersTypeOK, TypeOK,
      CallGoes, ChargeGoes, customerTables, callVars, tornVars, customerVars,
      requestVars, feeVars, ChargesInv, Pending, PendingFees, validate_charge_fees,
      ChargeRecorded
<1>1. ASSUME NEW k \in Calls, NEW u \in Users, create_customer_with_source(k, u), UNCHANGED feeVars
     PROVE ChargesInv'
  BY <1>1 DEF create_customer_with_source
<1>2. ASSUME NEW k \in Calls, stripe_create_customer(k), UNCHANGED feeVars
     PROVE ChargesInv'
  BY <1>2 DEF stripe_create_customer
<1>3. ASSUME NEW k \in Calls, lose_creation(k), UNCHANGED feeVars PROVE ChargesInv'
  BY <1>3 DEF lose_creation
<1>4. ASSUME NEW k \in Calls, create_row(k), UNCHANGED feeVars PROVE ChargesInv'
  BY <1>4 DEF create_row, insert_customer
<1>5. ASSUME NEW k \in Calls, NEW c \in Calls, delete(k, c), UNCHANGED feeVars
     PROVE ChargesInv'
  BY <1>5 DEF delete
<1>6. ASSUME NEW k \in Calls, NEW c \in Calls, delete_refused(k, c), UNCHANGED feeVars
     PROVE ChargesInv'
  BY <1>6 DEF delete_refused
<1>7. ASSUME NEW k \in Calls, NEW c \in Calls, update(k, c), UNCHANGED feeVars
     PROVE ChargesInv'
  BY <1>7 DEF update, update_email
<1>8. ASSUME NEW k \in Calls, remove_row(k), UNCHANGED feeVars PROVE ChargesInv'
  BY <1>8 DEF remove_row, delete_row
<1>9. ASSUME NEW k \in Calls, stripe_update_customer(k), UNCHANGED feeVars
     PROVE ChargesInv'
  BY <1>9 DEF stripe_update_customer
<1>10. ASSUME NEW k \in Calls, abandon_call(k), UNCHANGED feeVars PROVE ChargesInv'
  BY <1>10 DEF abandon_call
<1>11. ASSUME NEW q \in Requests, NEW g \in Fees, create_charge(q, g) PROVE ChargesInv'
  BY <1>11 DEF create_charge, ReadFees
<1>12. ASSUME NEW q \in Requests, NEW G \in SUBSET Fees, create_charge_by_order_ids(q, G)
     PROVE ChargesInv'
  BY <1>12 DEF create_charge_by_order_ids, ReadFees
<1>13. ASSUME NEW q \in Requests, create_charge_by_fees(q) PROVE ChargesInv'
  BY <1>13 DEF create_charge_by_fees
<1>14. ASSUME NEW q \in Requests, stripe_create_charge(q) PROVE ChargesInv'
  BY <1>14 DEF stripe_create_charge, Charged
<1>15. ASSUME NEW q \in Requests, record_charge(q) PROVE ChargesInv'
  BY <1>15 DEF record_charge, update_fees
<1>16. ASSUME NEW q \in Requests, lose_charge(q) PROVE ChargesInv'
  BY <1>16 DEF lose_charge, Charged
<1>17. ASSUME NEW q \in Requests, abandon_charge(q) PROVE ChargesInv'
  BY <1>17 DEF abandon_charge
<1>18. CASE UNCHANGED vars
  BY <1>18 DEF vars
<1> HIDE CustomersAssumption, FeeChargesAssumption DEF Inv, CustomersTypeOK, TypeOK,
      CallGoes, ChargeGoes, customerTables, callVars, tornVars, customerVars,
      requestVars, feeVars, ChargesInv, Pending, PendingFees, validate_charge_fees,
      ChargeRecorded
<1> QED
  BY <1>1, <1>2, <1>3, <1>4, <1>5, <1>6, <1>7, <1>8, <1>9, <1>10, <1>11, <1>12, <1>13,
     <1>14, <1>15, <1>16, <1>17, <1>18 DEF Next, CustomersNext, Charge

\* Every step accounts for the charges.
LEMMA RecordedNext == Inv /\ [Next]_vars => ChargeRecorded'
<1> SUFFICES ASSUME Inv, [Next]_vars PROVE ChargeRecorded'
  OBVIOUS
<1> USE CustomersAssumption, FeeChargesAssumption DEF Inv, CustomersTypeOK, TypeOK,
      CallGoes, ChargeGoes, customerTables, callVars, tornVars, customerVars,
      requestVars, feeVars, ChargesInv, Pending, PendingFees, validate_charge_fees,
      ChargeRecorded
<1>1. ASSUME NEW k \in Calls, NEW u \in Users, create_customer_with_source(k, u), UNCHANGED feeVars
     PROVE ChargeRecorded'
  BY <1>1 DEF create_customer_with_source
<1>2. ASSUME NEW k \in Calls, stripe_create_customer(k), UNCHANGED feeVars
     PROVE ChargeRecorded'
  BY <1>2 DEF stripe_create_customer
<1>3. ASSUME NEW k \in Calls, lose_creation(k), UNCHANGED feeVars PROVE ChargeRecorded'
  BY <1>3 DEF lose_creation
<1>4. ASSUME NEW k \in Calls, create_row(k), UNCHANGED feeVars PROVE ChargeRecorded'
  BY <1>4 DEF create_row, insert_customer
<1>5. ASSUME NEW k \in Calls, NEW c \in Calls, delete(k, c), UNCHANGED feeVars
     PROVE ChargeRecorded'
  BY <1>5 DEF delete
<1>6. ASSUME NEW k \in Calls, NEW c \in Calls, delete_refused(k, c), UNCHANGED feeVars
     PROVE ChargeRecorded'
  BY <1>6 DEF delete_refused
<1>7. ASSUME NEW k \in Calls, NEW c \in Calls, update(k, c), UNCHANGED feeVars
     PROVE ChargeRecorded'
  BY <1>7 DEF update, update_email
<1>8. ASSUME NEW k \in Calls, remove_row(k), UNCHANGED feeVars PROVE ChargeRecorded'
  BY <1>8 DEF remove_row, delete_row
<1>9. ASSUME NEW k \in Calls, stripe_update_customer(k), UNCHANGED feeVars
     PROVE ChargeRecorded'
  BY <1>9 DEF stripe_update_customer
<1>10. ASSUME NEW k \in Calls, abandon_call(k), UNCHANGED feeVars PROVE ChargeRecorded'
  BY <1>10 DEF abandon_call
<1>11. ASSUME NEW q \in Requests, NEW g \in Fees, create_charge(q, g) PROVE ChargeRecorded'
  BY <1>11 DEF create_charge, ReadFees
<1>12. ASSUME NEW q \in Requests, NEW G \in SUBSET Fees, create_charge_by_order_ids(q, G)
     PROVE ChargeRecorded'
  BY <1>12 DEF create_charge_by_order_ids, ReadFees
<1>13. ASSUME NEW q \in Requests, create_charge_by_fees(q) PROVE ChargeRecorded'
  BY <1>13 DEF create_charge_by_fees
<1>14. ASSUME NEW q \in Requests, stripe_create_charge(q) PROVE ChargeRecorded'
  BY <1>14 DEF stripe_create_charge, Charged
<1>15. ASSUME NEW q \in Requests, record_charge(q) PROVE ChargeRecorded'
  BY <1>15 DEF record_charge, update_fees
<1>16. ASSUME NEW q \in Requests, lose_charge(q) PROVE ChargeRecorded'
  BY <1>16 DEF lose_charge, Charged
<1>17. ASSUME NEW q \in Requests, abandon_charge(q) PROVE ChargeRecorded'
  BY <1>17 DEF abandon_charge
<1>18. CASE UNCHANGED vars
  BY <1>18 DEF vars
<1> HIDE CustomersAssumption, FeeChargesAssumption DEF Inv, CustomersTypeOK, TypeOK,
      CallGoes, ChargeGoes, customerTables, callVars, tornVars, customerVars,
      requestVars, feeVars, ChargesInv, Pending, PendingFees, validate_charge_fees,
      ChargeRecorded
<1> QED
  BY <1>1, <1>2, <1>3, <1>4, <1>5, <1>6, <1>7, <1>8, <1>9, <1>10, <1>11, <1>12, <1>13,
     <1>14, <1>15, <1>16, <1>17, <1>18 DEF Next, CustomersNext, Charge

\* The invariant is inductive.
LEMMA InvNext == Inv /\ [Next]_vars => Inv'
BY TypeNext, CallsNext, MirroringNext, MirroredNext, ChargesNext, RecordedNext DEF Inv

\* The invariant holds in every reachable state.
LEMMA InvAlways == Spec => []Inv
BY InvInit, InvNext, PTL DEF Spec

-----------------------------------------------------------------------------

\* Rows mirror living customers and users have one, except where calls of two
\* writes were interrupted or overlapped.
THEOREM CustomersMirroredTheorem == Spec => []CustomersMirrored
<1>1. Inv => CustomersMirrored
  BY DEF Inv
<1> QED BY <1>1, InvAlways, PTL

\* The status of a fee says whether it was charged, except where requests
\* overlapped or a charge was never recorded.
THEOREM ChargeRecordedTheorem == Spec => []ChargeRecorded
<1>1. Inv => ChargeRecorded
  BY DEF Inv
<1> QED BY <1>1, InvAlways, PTL

\* A paid fee becomes unpaid only if requests overlapped.
THEOREM PaidTheorem == Spec => PaidUnlessRivals
<1>1. ASSUME Inv, [Next]_vars, NEW f \in Fees, status[f] = "Paid"
      PROVE  status'[f] = "Paid" \/ f \in rivals
  <2> USE <1>1, CustomersAssumption, FeeChargesAssumption DEF Inv, CustomersTypeOK,
        TypeOK, CallGoes, ChargeGoes, customerTables, callVars, tornVars, customerVars,
        requestVars, feeVars, ChargesInv, Pending, PendingFees, validate_charge_fees,
        ChargeRecorded
  <2>1. ASSUME NEW k \in Calls, NEW u \in Users, create_customer_with_source(k, u), UNCHANGED feeVars
       PROVE (status'[f] = "Paid" \/ f \in rivals)
    BY <2>1 DEF create_customer_with_source
  <2>2. ASSUME NEW k \in Calls, stripe_create_customer(k), UNCHANGED feeVars
       PROVE (status'[f] = "Paid" \/ f \in rivals)
    BY <2>2 DEF stripe_create_customer
  <2>3. ASSUME NEW k \in Calls, lose_creation(k), UNCHANGED feeVars
       PROVE (status'[f] = "Paid" \/ f \in rivals)
    BY <2>3 DEF lose_creation
  <2>4. ASSUME NEW k \in Calls, create_row(k), UNCHANGED feeVars
       PROVE (status'[f] = "Paid" \/ f \in rivals)
    BY <2>4 DEF create_row, insert_customer
  <2>5. ASSUME NEW k \in Calls, NEW c \in Calls, delete(k, c), UNCHANGED feeVars
       PROVE (status'[f] = "Paid" \/ f \in rivals)
    BY <2>5 DEF delete
  <2>6. ASSUME NEW k \in Calls, NEW c \in Calls, delete_refused(k, c), UNCHANGED feeVars
       PROVE (status'[f] = "Paid" \/ f \in rivals)
    BY <2>6 DEF delete_refused
  <2>7. ASSUME NEW k \in Calls, NEW c \in Calls, update(k, c), UNCHANGED feeVars
       PROVE (status'[f] = "Paid" \/ f \in rivals)
    BY <2>7 DEF update, update_email
  <2>8. ASSUME NEW k \in Calls, remove_row(k), UNCHANGED feeVars
       PROVE (status'[f] = "Paid" \/ f \in rivals)
    BY <2>8 DEF remove_row, delete_row
  <2>9. ASSUME NEW k \in Calls, stripe_update_customer(k), UNCHANGED feeVars
       PROVE (status'[f] = "Paid" \/ f \in rivals)
    BY <2>9 DEF stripe_update_customer
  <2>10. ASSUME NEW k \in Calls, abandon_call(k), UNCHANGED feeVars
       PROVE (status'[f] = "Paid" \/ f \in rivals)
    BY <2>10 DEF abandon_call
  <2>11. ASSUME NEW q \in Requests, NEW g \in Fees, create_charge(q, g)
       PROVE (status'[f] = "Paid" \/ f \in rivals)
    BY <2>11 DEF create_charge, ReadFees
  <2>12. ASSUME NEW q \in Requests, NEW G \in SUBSET Fees, create_charge_by_order_ids(q, G)
       PROVE (status'[f] = "Paid" \/ f \in rivals)
    BY <2>12 DEF create_charge_by_order_ids, ReadFees
  <2>13. ASSUME NEW q \in Requests, create_charge_by_fees(q)
       PROVE (status'[f] = "Paid" \/ f \in rivals)
    BY <2>13 DEF create_charge_by_fees
  <2>14. ASSUME NEW q \in Requests, stripe_create_charge(q)
       PROVE (status'[f] = "Paid" \/ f \in rivals)
    BY <2>14 DEF stripe_create_charge, Charged
  <2>15. ASSUME NEW q \in Requests, record_charge(q)
       PROVE (status'[f] = "Paid" \/ f \in rivals)
    BY <2>15 DEF record_charge, update_fees
  <2>16. ASSUME NEW q \in Requests, lose_charge(q)
       PROVE (status'[f] = "Paid" \/ f \in rivals)
    BY <2>16 DEF lose_charge, Charged
  <2>17. ASSUME NEW q \in Requests, abandon_charge(q)
       PROVE (status'[f] = "Paid" \/ f \in rivals)
    BY <2>17 DEF abandon_charge
  <2>18. CASE UNCHANGED vars
    BY <2>18 DEF vars
  <2> QED
    BY <2>1, <2>2, <2>3, <2>4, <2>5, <2>6, <2>7, <2>8, <2>9, <2>10, <2>11, <2>12,
       <2>13, <2>14, <2>15, <2>16, <2>17, <2>18 DEF Next, CustomersNext, Charge
<1>2. Inv /\ [Next]_vars
        => [\A f \in Fees : status[f] = "Paid" => status'[f] = "Paid" \/ f \in rivals]_vars
  BY <1>1
<1> QED BY <1>2, InvAlways, PTL DEF Spec, PaidUnlessRivals

\* Every step charges, settles or excuses fees as ChargeOnce allows, or leaves
\* all that alone.
LEMMA OnceStep == Inv /\ [Next]_vars => [Once!Next]_(Once!chargeVars)
<1> SUFFICES ASSUME Inv, [Next]_vars PROVE [Once!Next]_(Once!chargeVars)
  OBVIOUS
<1>a. ASSUME NEW S \in SUBSET Fees,
             Once!Charge(S) \/ Once!Settle(S) \/ Once!Reopen(S) \/ Once!Excuse(S)
      PROVE  [Once!Next]_(Once!chargeVars)
  BY <1>a, Zenon DEF Once!Next
<1>b. ASSUME NEW q \in Requests PROVE fees[q] \in SUBSET Fees
  BY DEF Inv, TypeOK
<1> USE DEF Inv, TypeOK, ChargeGoes, customerVars, requestVars, feeVars, Once!chargeVars
<1>1. CASE CustomersNext /\ UNCHANGED feeVars
  BY <1>1
<1>2. ASSUME NEW q \in Requests, NEW F \in SUBSET Fees, NEW ok \in BOOLEAN, ReadFees(q, F, ok)
      PROVE  [Once!Next]_(Once!chargeVars)
  <2>1. CASE UNCHANGED rivals
    BY <1>2, <2>1 DEF ReadFees
  <2>2. CASE rivals' = rivals \cup (F \cap PendingFees)
    <3>1. F \cap PendingFees \in SUBSET Fees
      OBVIOUS
    <3>2. Once!Excuse(F \cap PendingFees)
      BY <1>2, <2>2 DEF ReadFees, Once!Excuse
    <3> QED BY <1>a, <3>1, <3>2
  <2> QED BY <1>2, <2>1, <2>2 DEF ReadFees
<1>3. ASSUME NEW q \in Requests, create_charge_by_fees(q) PROVE [Once!Next]_(Once!chargeVars)
  BY <1>3 DEF create_charge_by_fees
<1>4. ASSUME NEW q \in Requests, qstep[q] = "charge"
      PROVE  \A f \in fees[q] \ (rivals \cup lost) :
                charges[f] = 0 /\ f \notin {g \in Fees : status[g] = "Paid"}
  <2> SUFFICES ASSUME NEW f \in fees[q] \ (rivals \cup lost)
               PROVE  charges[f] = 0 /\ status[f] # "Paid"
    OBVIOUS
  <2>1. f \in Fees /\ f \in Pending(q)
    BY <1>4 DEF Pending
  <2> QED BY <1>4, <2>1 DEF ChargesInv
<1>5. ASSUME NEW q \in Requests, stripe_create_charge(q) PROVE [Once!Next]_(Once!chargeVars)
  <2>1. CASE ChargeGoes(q, "charge", "paid") /\ Charged(fees[q])
    <3>1. Once!Charge(fees[q])
      BY <1>4, <1>5, <2>1 DEF stripe_create_charge, Charged, Once!Charge
    <3> QED BY <1>a, <1>b, <3>1
  <2>2. CASE UNCHANGED charges
    BY <1>5, <2>2 DEF stripe_create_charge
  <2> QED BY <1>5, <2>1, <2>2 DEF stripe_create_charge
<1>6. ASSUME NEW q \in Requests, record_charge(q) PROVE [Once!Next]_(Once!chargeVars)
  <2>1. CASE qstep[q] = "paid"
    <3>1. PICK S \in SUBSET Fees : S = fees[q]
      OBVIOUS
    <3>2. {f \in Fees : status'[f] = "Paid"} = {f \in Fees : status[f] = "Paid"} \cup S
      BY <1>6, <2>1, <3>1 DEF record_charge, update_fees
    <3>3. Once!Settle(S)
      BY <1>6, <3>2 DEF record_charge, Once!Settle
    <3> QED BY <1>a, <3>3
  <2>2. CASE qstep[q] = "unpaid"
    <3>1. PICK S \in SUBSET Fees : S = {f \in fees[q] : status[f] = "Paid"}
      OBVIOUS
    <3>2. S \subseteq rivals
      BY <2>2, <3>1 DEF ChargesInv, Pending
    <3>3. {f \in Fees : status'[f] = "Paid"} = {f \in Fees : status[f] = "Paid"} \ S
      BY <1>6, <2>2, <3>1 DEF record_charge, update_fees
    <3>4. Once!Reopen(S)
      BY <1>6, <3>2, <3>3 DEF record_charge, Once!Reopen
    <3> QED BY <1>a, <3>4
  <2> QED BY <1>6, <2>1, <2>2 DEF record_charge
<1>7. ASSUME NEW q \in Requests, lose_charge(q) PROVE [Once!Next]_(Once!chargeVars)
  <2>1. Once!Charge(fees[q])
    BY <1>4, <1>7 DEF lose_charge, Charged, Once!Charge
  <2> QED BY <1>a, <1>b, <2>1
<1>8. ASSUME NEW q \in Requests, abandon_charge(q) PROVE [Once!Next]_(Once!chargeVars)
  <2>1. CASE qstep[q] = "paid"
    <3>1. Once!Excuse(fees[q])
      BY <1>8, <2>1 DEF abandon_charge, Once!Excuse
    <3> QED BY <1>a, <1>b, <3>1
  <2>2. CASE qstep[q] # "paid"
    BY <1>8, <2>2 DEF abandon_charge
  <2> QED BY <2>1, <2>2
<1>9. CASE UNCHANGED vars
  BY <1>9 DEF vars
<1> QED
  <2>1. ASSUME NEW q \in Requests, NEW f \in Fees, create_charge(q, f)
        PROVE  [Once!Next]_(Once!chargeVars)
    <3>1. {f} \in SUBSET Fees
      OBVIOUS
    <3> QED BY <1>2, <2>1, <3>1 DEF create_charge
  <2>2. ASSUME NEW q \in Requests, NEW F \in SUBSET Fees, create_charge_by_order_ids(q, F)
        PROVE  [Once!Next]_(Once!chargeVars)
    <3>1. verify_store_ids(F) \in BOOLEAN
      BY DEF verify_store_ids
    <3> QED BY <1>2, <2>2, <3>1 DEF create_charge_by_order_ids
  <2> QED BY <1>1, <1>3, <1>5, <1>6, <1>7, <1>8, <1>9, <2>1, <2>2 DEF Next, Charge

\* Charging fees implements ChargeOnce: for any fees, stores and requests every
\* fee is collected once unless it is excused.
THEOREM FeesChargedOnceTheorem == Spec => FeesChargedOnce
<1>1. Init => Once!Init
  BY DEF Init, Once!Init
<1> QED BY <1>1, InvAlways, OnceStep, PTL DEF Spec, FeesChargedOnce, Once!Spec

\* What ChargeOnce promises of every fee.
LEMMA OnceAtMost == Once!Spec => []Once!AtMostOnce
<1> USE DEF Once!TypeOK, Once!AtMostOnce
<1>1. Once!Init => Once!TypeOK /\ Once!AtMostOnce
  BY DEF Once!Init
<1>2. ASSUME Once!TypeOK, Once!AtMostOnce, NEW S \in SUBSET Fees,
             Once!Charge(S) \/ Once!Settle(S) \/ Once!Reopen(S) \/ Once!Excuse(S)
      PROVE  Once!TypeOK' /\ Once!AtMostOnce'
  BY <1>2 DEF Once!Charge, Once!Settle, Once!Reopen, Once!Excuse
<1>3. Once!TypeOK /\ Once!AtMostOnce /\ [Once!Next]_(Once!chargeVars)
        => Once!TypeOK' /\ Once!AtMostOnce'
  BY <1>2 DEF Once!Next, Once!chargeVars
<1> QED BY <1>1, <1>3, PTL DEF Once!Spec

\* A fee is charged twice only by overlapping requests or after a charge that
\* was never recorded.
THEOREM ChargedTwiceTheorem == Spec => []Once!AtMostOnce
BY FeesChargedOnceTheorem, OnceAtMost, PTL DEF FeesChargedOnce

\* Every variable has its type.
THEOREM TypeTheorem == Spec => []TypeOK
<1>1. Inv => TypeOK
  BY DEF Inv
<1> QED BY <1>1, InvAlways, PTL

=============================================================================
