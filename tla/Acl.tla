--------------------------------- MODULE Acl ---------------------------------
(***************************************************************************)
(* Who may do what (repos/acl, models/authorization, and is_in_scope of    *)
(* every repository).  A role gives permissions on kinds of resources,     *)
(* either on all of them or on the user's own; what "own" means is decided *)
(* by the repository, from the object and, for the objects of a store,     *)
(* from the rows of the roles table.                                       *)
(*                                                                         *)
(* An object is abstracted to the user it leads to (its owner, its buyer,  *)
(* the buyer of its invoice) and the store it leads to, each None when the *)
(* row it is looked up through is missing.                                 *)
(***************************************************************************)
CONSTANTS Users, Stores, None

Roles == {"Superuser", "User", "StoreManager", "FinancialManager"}

Resources ==
    {"Account", "BillingInfo", "OrderInfo", "UserRoles", "Invoice", "OrderExchangeRate",
     "PaymentIntent", "ProxyCompanyBillingInfo", "StoreBillingType", "Subscription",
     "StoreSubscription", "StoreSubscriptionStatus", "SubscriptionPayment", "Customer",
     "Fee", "PaymentIntentInvoice", "PaymentIntentFee", "UserWallet", "Payout"}

Actions == {"Read", "Write"}

-----------------------------------------------------------------------------
(* The permissions of a role: <<resource, action, scope>>                  *)

Superuser == Resources \X Actions \X {"All"}

User ==
       ({"Invoice", "OrderInfo", "OrderExchangeRate", "Customer", "UserWallet", "Payout"}
            \X Actions \X {"Owned"})
  \cup ({"UserRoles", "PaymentIntentFee", "PaymentIntentInvoice"} \X {"Read"} \X {"Owned"})
  \cup ({"PaymentIntent"} \X Actions \X {"All"})

\* A plausible slip: the billing data of any store.
StoreManager_AnyStore ==
       ({"OrderExchangeRate", "StoreBillingType", "Fee", "UserWallet",
         "Payout", "StoreSubscription"} \X Actions \X {"Owned"})
  \cup ({"OrderInfo", "UserRoles", "PaymentIntentFee", "PaymentIntentInvoice"}
            \X {"Read"} \X {"Owned"})
  \cup ({"PaymentIntent", "BillingInfo"} \X Actions \X {"All"})

StoreManager ==
       ({"OrderExchangeRate", "BillingInfo", "StoreBillingType", "Fee", "UserWallet",
         "Payout", "StoreSubscription"} \X Actions \X {"Owned"})
  \cup ({"OrderInfo", "UserRoles", "PaymentIntentFee", "PaymentIntentInvoice"}
            \X {"Read"} \X {"Owned"})
  \cup ({"PaymentIntent"} \X Actions \X {"All"})

FinancialManager ==
       ({"OrderInfo", "StoreBillingType", "BillingInfo", "ProxyCompanyBillingInfo",
         "PaymentIntentFee", "PaymentIntentInvoice", "PaymentIntent", "Customer", "UserWallet",
         "Subscription", "SubscriptionPayment"} \X {"Read"} \X {"All"})
  \cup ({"Fee", "Payout", "StoreSubscription", "StoreSubscriptionStatus"} \X Actions \X {"All"})

Permissions ==
    [n \in Roles |-> CASE n = "Superuser" -> Superuser
                       [] n = "User" -> User
                       [] n = "StoreManager" -> StoreManager
                       [] n = "FinancialManager" -> FinancialManager]

-----------------------------------------------------------------------------
(* is_in_scope of each repository, for Scope::Owned                        *)

\* Any row of the user that names the store, whatever its role.
user_is_store_manager(rows, u, s) == \E w \in rows : w.user = u /\ w.data = s /\ s # None

user_is_buyer(u, o) == o.user \in {None, u}

accounts(rows, u, o) == TRUE
customer(rows, u, o) == o.user = u
fee(rows, u, o) == user_is_store_manager(rows, u, o.store)
international_billing_info(rows, u, o) == user_is_store_manager(rows, u, o.store)
invoice(rows, u, o) == o.user \in {None, u}
invoices_v2(rows, u, o) == o.user = u
order_exchange_rates(rows, u, o) == o.user \in {None, u}
order_info(rows, u, o) == o.user = u
orders(rows, u, o) == user_is_buyer(u, o) \/ user_is_store_manager(rows, u, o.store)
payment_intent(rows, u, o) == FALSE
payment_intents_fees(rows, u, o) == user_is_store_manager(rows, u, o.store)
payment_intents_invoices(rows, u, o) == o.user \in {None, u}
payouts(rows, u, o) == o.user = u
proxy_companies_billing_info(rows, u, o) == TRUE
russia_billing_info(rows, u, o) == user_is_store_manager(rows, u, o.store)
store_billing_type(rows, u, o) == user_is_store_manager(rows, u, o.store)
store_subscription(rows, u, o) == user_is_store_manager(rows, u, o.store)
subscription(rows, u, o) == user_is_store_manager(rows, u, o.store)
subscription_payment(rows, u, o) == user_is_store_manager(rows, u, o.store)
user_roles(rows, u, o) == o.user = u
user_wallets(rows, u, o) == o.user = u

-----------------------------------------------------------------------------
(* repos/repo_factory.rs: the repositories, with the resource each asks    *)
(* for.                                                                    *)

OrderRepos ==
    {<<"order_info", "OrderInfo">>, <<"invoice", "Invoice">>, <<"user_roles", "UserRoles">>,
     <<"accounts", "Account">>, <<"invoices_v2", "Invoice">>, <<"orders", "OrderInfo">>,
     <<"order_exchange_rates", "OrderExchangeRate">>}
PaymentRepos ==
    {<<"payment_intent", "PaymentIntent">>, <<"customer", "Customer">>, <<"fee", "Fee">>}
BillingRepos ==
    {<<"store_billing_type", "StoreBillingType">>,
     <<"international_billing_info", "BillingInfo">>, <<"russia_billing_info", "BillingInfo">>,
     <<"proxy_companies_billing_info", "ProxyCompanyBillingInfo">>}
SellerRepos ==
    {<<"payment_intents_invoices", "PaymentIntentInvoice">>,
     <<"payment_intents_fees", "PaymentIntentFee">>, <<"user_wallets", "UserWallet">>,
     <<"payouts", "Payout">>, <<"subscription", "Subscription">>,
     <<"store_subscription", "StoreSubscription">>,
     <<"store_subscription", "StoreSubscriptionStatus">>,
     <<"subscription_payment", "SubscriptionPayment">>}
Repos == OrderRepos \cup PaymentRepos \cup BillingRepos \cup SellerRepos

Owned(repo, rows, u, o) ==
    CASE repo = "accounts" -> accounts(rows, u, o)
      [] repo = "customer" -> customer(rows, u, o)
      [] repo = "fee" -> fee(rows, u, o)
      [] repo = "international_billing_info" -> international_billing_info(rows, u, o)
      [] repo = "invoice" -> invoice(rows, u, o)
      [] repo = "invoices_v2" -> invoices_v2(rows, u, o)
      [] repo = "order_exchange_rates" -> order_exchange_rates(rows, u, o)
      [] repo = "order_info" -> order_info(rows, u, o)
      [] repo = "orders" -> orders(rows, u, o)
      [] repo = "payment_intent" -> payment_intent(rows, u, o)
      [] repo = "payment_intents_fees" -> payment_intents_fees(rows, u, o)
      [] repo = "payment_intents_invoices" -> payment_intents_invoices(rows, u, o)
      [] repo = "payouts" -> payouts(rows, u, o)
      [] repo = "proxy_companies_billing_info" -> proxy_companies_billing_info(rows, u, o)
      [] repo = "russia_billing_info" -> russia_billing_info(rows, u, o)
      [] repo = "store_billing_type" -> store_billing_type(rows, u, o)
      [] repo = "store_subscription" -> store_subscription(rows, u, o)
      [] repo = "subscription" -> subscription(rows, u, o)
      [] repo = "subscription_payment" -> subscription_payment(rows, u, o)
      [] repo = "user_roles" -> user_roles(rows, u, o)
      [] repo = "user_wallets" -> user_wallets(rows, u, o)

\* obj is None in the checks made before there is an object (searches, counts).
\* Two repositories accept every scope without looking at the object.
is_in_scope(repo, rows, u, scope, obj) ==
    \/ scope = "All"
    \/ IF obj = None THEN repo \in {"accounts", "proxy_companies_billing_info"}
                     ELSE Owned(repo, rows, u, obj)

-----------------------------------------------------------------------------
(* A question: repository, resource, action and object.                    *)

Objects == [user : Users \cup {None}, store : Stores \cup {None}]
Questions == {[repo |-> p[1], resource |-> p[2], action |-> a, obj |-> o] :
                p \in Repos, a \in Actions, o \in Objects \cup {None}}

\* ApplicationAcl::allows: some permission of some role is for the resource
\* and the action, and covers the object.
allows(names, rows, u, q) ==
    \E n \in names : \E p \in Permissions[n] :
        /\ p[1] = q.resource
        /\ p[2] = q.action
        /\ is_in_scope(q.repo, rows, u, p[3], q.obj)

\* UnauthorizedACL for a request without a user, ApplicationAcl otherwise.
Granted(names, rows, u, q) == u # None /\ allows(names, rows, u, q)

=============================================================================
