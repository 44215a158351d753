------------------------------ MODULE Customers ------------------------------
(***************************************************************************)
(* Payment cards of users (services/customer.rs, repos/customer.rs): a row *)
(* of customers mirrors a customer object at Stripe.  Every call makes two *)
(* writes, one at Stripe and one in the table, and may stop between them.  *)
(*                                                                         *)
(* A call that creates a customer lends it its name, so Calls are also the *)
(* customer ids; an email is named after the call that set it.             *)
(*                                                                         *)
(* The operators with an underscore in front of a capital are faulty       *)
(* variants of the one that follows; no specification uses them.           *)
(***************************************************************************)
EXTENDS Naturals

CONSTANTS Users, Calls, None

ASSUME CustomersAssumption == None \notin Users /\ None \notin Calls

VARIABLES rows,      \* [Calls -> Users \cup {None}], the table customers
          alive,     \* customers that exist at Stripe
          row_email, stripe_email, \* [Calls -> Calls], by the call that set it
          cstep,     \* [Calls -> CallSteps]
          cuser,     \* [Calls -> Users \cup {None}], the caller of a creation
          customer,  \* [Calls -> Calls \cup {None}], the customer a call works on
          crowded,   \* history: users with two creations under way at once
          torn       \* history: customers left between the two writes of a call,
                     \* or updated by two calls at once

customerTables == <<rows, alive, row_email, stripe_email>>
callVars == <<cstep, cuser, customer>>
tornVars == <<crowded, torn>>
customerVars == <<customerTables, callVars, tornVars>>

CallSteps == {"new", "create", "insert", "remove", "mirror", "done"}

CustomersInit ==
    /\ rows = [k \in Calls |-> None]
    /\ alive = {}
    /\ row_email = [k \in Calls |-> k]
    /\ stripe_email = [k \in Calls |-> k]
    /\ cstep = [k \in Calls |-> "new"]
    /\ cuser = [k \in Calls |-> None]
    /\ customer = [k \in Calls |-> None]
    /\ crowded = {}
    /\ torn = {}

-----------------------------------------------------------------------------
(* repos/customer.rs                                                       *)

\* SearchCustomer::UserId.  get_result takes any one of the rows it finds.
get_customers(u) == {k \in Calls : rows[k] = u}

insert_customer(k, u) == rows' = [rows EXCEPT ![k] = u]

update_email(c, k) == row_email' = [row_email EXCEPT ![c] = k]

delete_row(c) == rows' = [rows EXCEPT ![c] = None]

-----------------------------------------------------------------------------
(* services/customer.rs                                                    *)

CallGoes(k, from, to) == cstep[k] = from /\ cstep' = [cstep EXCEPT ![k] = to]

\* Creations for u that have passed their check.
Creating(u) == {k \in Calls : cuser[k] = u /\ cstep[k] \in {"create", "insert"}}

\* One card per user: refused when a row is found.
create_customer_with_source(k, u) ==
    /\ CallGoes(k, "new", IF get_customers(u) = {} THEN "create" ELSE "done")
    /\ cuser' = [cuser EXCEPT ![k] = u]
    /\ crowded' = IF Creating(u) # {} THEN crowded \cup {u} ELSE crowded
    /\ UNCHANGED <<customerTables, customer, torn>>

stripe_create_customer(k) ==
    /\ CallGoes(k, "create", "insert")
    /\ alive' = alive \cup {k}
    /\ UNCHANGED <<rows, row_email, stripe_email, cuser, customer, tornVars>>

\* The customer exists but its row was not written: nobody knows its id.
lose_creation(k) ==
    /\ cstep[k] \in {"create", "insert"}
    /\ CallGoes(k, cstep[k], "done")
    /\ alive' = alive \cup {k}
    /\ UNCHANGED <<rows, row_email, stripe_email, cuser, customer, tornVars>>

create_row(k) ==
    /\ CallGoes(k, "insert", "done")
    /\ insert_customer(k, cuser[k])
    /\ UNCHANGED <<alive, row_email, stripe_email, cuser, customer, tornVars>>

\* delete starts at Stripe, with the id of a customer that was once returned.
delete(k, c) ==
    /\ c \in alive /\ rows[c] # None
    /\ CallGoes(k, "new", "remove")
    /\ customer' = [customer EXCEPT ![k] = c]
    /\ alive' = alive \ {c}
    /\ UNCHANGED <<rows, row_email, stripe_email, cuser, tornVars>>

\* Stripe refuses to delete what is already deleted: the row stays.
delete_refused(k, c) ==
    /\ c \notin alive
    /\ CallGoes(k, "new", "done")
    /\ UNCHANGED <<customerTables, cuser, customer, tornVars>>

remove_row_Kept(k) ==
    /\ CallGoes(k, "remove", "done")
    /\ UNCHANGED <<customerTables, cuser, customer, tornVars>>

remove_row(k) ==
    /\ CallGoes(k, "remove", "done")
    /\ delete_row(customer[k])
    /\ UNCHANGED <<alive, row_email, stripe_email, cuser, customer, tornVars>>

\* Updates of c whose email has not reached Stripe.
Mirroring(c) == {k \in Calls : customer[k] = c /\ cstep[k] = "mirror"}

\* update, in reverse order: the row first, Stripe afterwards.
update(k, c) ==
    /\ rows[c] # None
    /\ CallGoes(k, "new", "mirror")
    /\ customer' = [customer EXCEPT ![k] = c]
    /\ update_email(c, k)
    /\ torn' = IF Mirroring(c) # {} THEN torn \cup {c} ELSE torn
    /\ UNCHANGED <<rows, alive, stripe_email, cuser, crowded>>

\* An unknown customer is an error at Stripe; the row keeps its new email.
stripe_update_customer(k) ==
    /\ CallGoes(k, "mirror", "done")
    /\ stripe_email' = IF customer[k] \in alive
                       THEN [stripe_email EXCEPT ![customer[k]] = k] ELSE stripe_email
    /\ UNCHANGED <<rows, alive, row_email, cuser, customer, tornVars>>

\* An error, a permission that is refused, or the process stops.
abandon_call(k) ==
    /\ cstep[k] \in {"create", "remove", "mirror"}
    /\ CallGoes(k, cstep[k], "done")
    /\ torn' = IF cstep[k] = "create" THEN torn ELSE torn \cup {customer[k]}
    /\ UNCHANGED <<customerTables, cuser, customer, crowded>>

CustomersNext ==
    \E k \in Calls :
        \/ \E u \in Users : create_customer_with_source(k, u)
        \/ stripe_create_customer(k)
        \/ lose_creation(k)
        \/ create_row(k)
        \/ \E c \in Calls : \/ delete(k, c)
                            \/ delete_refused(k, c)
                            \/ update(k, c)
        \/ remove_row(k)
        \/ stripe_update_customer(k)
        \/ abandon_call(k)

-----------------------------------------------------------------------------
(* Properties                                                              *)

CustomersTypeOK ==
    /\ rows \in [Calls -> Users \cup {None}]
    /\ alive \in SUBSET Calls
    /\ row_email \in [Calls -> Calls]
    /\ stripe_email \in [Calls -> Calls]
    /\ cstep \in [Calls -> CallSteps]
    /\ cuser \in [Calls -> Users \cup {None}]
    /\ customer \in [Calls -> Calls \cup {None}]
    /\ crowded \in SUBSET Users
    /\ torn \in SUBSET Calls

\* The table mirrors Stripe across calls of two writes each: a row names a
\* customer that exists there under the same email, unless a call is between its
\* writes, stopped there, or met another update; and a user has two customers
\* only if two creations were checked before either was inserted.
CustomersMirrored ==
    /\ \A c \in Calls : rows[c] # None =>
         \/ c \in torn
         \/ \E k \in Calls : customer[k] = c /\ cstep[k] \in {"remove", "mirror"}
         \/ c \in alive /\ row_email[c] = stripe_email[c]
    /\ \A c, d \in Calls : rows[c] # None /\ rows[c] = rows[d] /\ c # d => rows[c] \in crowded

=============================================================================
