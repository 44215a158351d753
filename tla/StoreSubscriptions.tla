-------------------------- MODULE StoreSubscriptions --------------------------
(***************************************************************************)
(* The terms on which a store pays for its published products              *)
(* (services/store_subscription.rs, repos/store_subscription.rs): the      *)
(* currency, the price per product in that currency, the wallet it is paid *)
(* from and the status.  An edit reads the row, asks the gateway for a     *)
(* wallet if it needs one, and later updates the columns it decided on.    *)
(*                                                                         *)
(* A price is named after the currency it is meant in, a wallet after the  *)
(* edit that asked for it.                                                 *)
(***************************************************************************)
EXTENDS Naturals

CONSTANTS Stores, Edits, None,
          Payloads  \* <<currency, status>> of UpdateStoreSubscriptionRequest

Currencies == {"Eur", "Stq"}
Statuses == {"Trial", "Paid", "Free"}

ASSUME StoreSubscriptionsAssumption ==
    /\ None \notin Stores \cup Edits \cup Currencies \cup Statuses \cup Nat
    /\ Payloads \subseteq (Currencies \cup {None}) \X (Statuses \cup {None})
    /\ None \notin [currency : Currencies, value : Currencies, wallet : Edits \cup {None},
                    trial_start : Nat \cup {None}, status : Statuses]

VARIABLES terms,     \* [Stores -> StoreSubscription \cup {None}]
          estep,     \* [Edits -> EditSteps]
          estore,    \* [Edits -> Stores \cup {None}]
          change,    \* [Edits -> Changes], the columns an edit will write
          contested  \* history: stores whose terms two edits were changing at once

editVars == <<estep, estore, change>>
termsVars == <<terms, editVars, contested>>

StoreSubscription == [currency : Currencies, value : Currencies, wallet : Edits \cup {None},
                      trial_start : Nat \cup {None}, status : Statuses]
EditSteps == {"new", "insert", "update", "done"}

\* UpdateStoreSubscription: a column that is None is left alone.
Changes == [currency : Currencies \cup {None}, value : Currencies \cup {None},
            wallet : Edits \cup {None}, status : Statuses \cup {None}]
NoChange == [currency |-> None, value |-> None, wallet |-> None, status |-> None]

TermsInit ==
    /\ terms = [s \in Stores |-> None]
    /\ estep = [e \in Edits |-> "new"]
    /\ estore = [e \in Edits |-> None]
    /\ change = [e \in Edits |-> NoChange]
    /\ contested = {}

-----------------------------------------------------------------------------
(* repos/store_subscription.rs                                             *)

\* The column status has the default trial.
NewStoreSubscription(cur, w, start) ==
    [currency |-> cur, value |-> cur, wallet |-> w, trial_start |-> start, status |-> "Trial"]

Or(new, old) == IF new = None THEN old ELSE new

Updated(row, c) ==
    [currency |-> Or(c.currency, row.currency), value |-> Or(c.value, row.value),
     wallet |-> Or(c.wallet, row.wallet), trial_start |-> row.trial_start,
     status |-> Or(c.status, row.status)]

-----------------------------------------------------------------------------
(* services/store_subscription.rs                                          *)

Asks(e, s, step, c) ==
    /\ estep[e] = "new"
    /\ estep' = [estep EXCEPT ![e] = step]
    /\ estore' = [estore EXCEPT ![e] = s]
    /\ change' = [change EXCEPT ![e] = c]
    /\ UNCHANGED terms

Ends(e, from) ==
    /\ estep[e] = from
    /\ estep' = [estep EXCEPT ![e] = "done"]
    /\ estore' = [estore EXCEPT ![e] = None]
    /\ change' = [change EXCEPT ![e] = NoChange]
    /\ UNCHANGED contested

\* create: a wallet first, when it is paid in Stq.
create_store_subscription(e, s, cur) ==
    /\ Asks(e, s, "insert", [currency |-> cur, value |-> cur, status |-> None,
                             wallet |-> IF cur = "Stq" THEN e ELSE None])
    /\ UNCHANGED contested

\* store_id is the primary key.
insert_terms(e) ==
    /\ Ends(e, "insert")
    /\ terms' = IF terms[estore[e]] = None
                THEN [terms EXCEPT ![estore[e]] =
                        NewStoreSubscription(change[e].currency, change[e].wallet, None)]
                ELSE terms

\* Edits of s that have read its terms.
Editing(s) == {e \in Edits : estore[e] = s /\ estep[e] = "update"}

\* The columns an update decides on.  A currency that seems to stay is written
\* again, without its price.
Decided_Unpriced(e, row, cur, st) ==
    [currency |-> cur, value |-> None, status |-> st,
     wallet |-> IF cur = "Stq" /\ row.wallet = None THEN e ELSE None]

Decided(e, row, cur, st) ==
    IF cur \in {None, row.currency}
    THEN [currency |-> cur, value |-> None, wallet |-> None, status |-> st]
    ELSE [currency |-> cur, value |-> cur, status |-> st,
          wallet |-> IF cur = "Stq" /\ row.wallet = None THEN e ELSE None]

update_store_subscription(e, s, cur, st) ==
    /\ terms[s] # None
    /\ Asks(e, s, "update", Decided(e, terms[s], cur, st))
    /\ contested' = IF Editing(s) # {} THEN contested \cup {s} ELSE contested

update_terms(e) ==
    /\ Ends(e, "update")
    /\ terms' = [terms EXCEPT ![estore[e]] = Updated(@, change[e])]

\* No wallet from the gateway, a refused permission, another error, or the
\* process stops.
abandon_edit(e) ==
    /\ \E from \in {"insert", "update"} : Ends(e, from)
    /\ UNCHANGED terms

TermsNext ==
    \E e \in Edits :
        \/ \E s \in Stores, cur \in Currencies : create_store_subscription(e, s, cur)
        \/ insert_terms(e)
        \/ \E s \in Stores, pl \in Payloads : update_store_subscription(e, s, pl[1], pl[2])
        \/ update_terms(e)
        \/ abandon_edit(e)

-----------------------------------------------------------------------------
(* Properties                                                              *)

TermsTypeOK ==
    /\ terms \in [Stores -> StoreSubscription \cup {None}]
    /\ estep \in [Edits -> EditSteps]
    /\ estore \in [Edits -> Stores \cup {None}]
    /\ change \in [Edits -> Changes]
    /\ contested \in SUBSET Stores

\* Currency and price are columns written by edits that decide on an earlier
\* read: a store that pays in Stq has a wallet, and the price is meant in the
\* currency of the store unless two edits overlapped.
TermsConsistent ==
    \A s \in Stores : terms[s] # None =>
        /\ terms[s].currency = "Stq" => terms[s].wallet # None
        /\ terms[s].value = terms[s].currency \/ s \in contested

=============================================================================
