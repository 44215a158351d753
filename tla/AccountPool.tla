----------------------------- MODULE AccountPool -----------------------------
(***************************************************************************)
(* Accounts at the payment gateway and their rows (services/accounts.rs,   *)
(* repos/accounts.rs).  When an instance starts it creates the system      *)
(* accounts that are missing, whose ids are configured, and fills the pool *)
(* up with accounts of new ids; later it creates an account whenever an    *)
(* invoice finds none free.  An account is created at the gateway first,   *)
(* then as a row; after an error both are deleted again, and that these    *)
(* deletions fail goes unnoticed.  A start that fails stops the instance.  *)
(***************************************************************************)
EXTENDS Naturals, FiniteSets

CONSTANTS System,      \* ids of system accounts
          Pooled,      \* ids Uuid::new_v4 may give
          Instances, NoAccount,
          MinPool,     \* min_accounts_in_pool
          MaxStarts    \* bound on the starts of an instance

ASSUME AccountPoolAssumption ==
    /\ System \cap Pooled = {}
    /\ IsFiniteSet(Pooled)
    /\ NoAccount \notin System \cup Pooled
    /\ MinPool \in Nat /\ MaxStarts \in Nat

Accounts == System \cup Pooled

VARIABLES arow,     \* SUBSET Accounts, the rows
          opened,   \* SUBSET Accounts, the accounts at the gateway
          astep,    \* [Instances -> InstanceSteps]
          missing,  \* [Instances -> SUBSET System], system accounts to create
          toOpen,   \* [Instances -> Nat], pooled accounts to create
          opening,  \* [Instances -> Accounts \cup {NoAccount}]
          drawn,    \* SUBSET Pooled, the ids given
          starts,   \* [Instances -> Nat]
          halved,   \* history: accounts one of whose deletions failed
          rivalled  \* history: system accounts being created when another instance started

accountsVars == <<arow, opened, astep, missing, toOpen, opening, drawn, starts, halved, rivalled>>

\* "row" and "gateway" are the deletion of a revert still to come, after the other.
InstanceSteps == {"down", "system", "pool", "open", "insert", "revert", "row", "gateway", "ready"}

AccountsInit ==
    /\ arow = {}
    /\ opened = {}
    /\ astep = [p \in Instances |-> "down"]
    /\ missing = [p \in Instances |-> {}]
    /\ toOpen = [p \in Instances |-> 0]
    /\ opening = [p \in Instances |-> NoAccount]
    /\ drawn = {}
    /\ starts = [p \in Instances |-> 0]
    /\ halved = {}
    /\ rivalled = {}

-----------------------------------------------------------------------------
AccountGoes(p, from, to) == astep[p] = from /\ astep' = [astep EXCEPT ![p] = to]

\* Instances that are going to create a, or are at it.
Makers(a) == {p \in Instances : a \in missing[p] \/ opening[p] = a}

\* init_system_accounts: the system accounts without a row.
init_system_accounts(p) ==
    /\ starts[p] < MaxStarts
    /\ AccountGoes(p, "down", "system")
    /\ starts' = [starts EXCEPT ![p] = @ + 1]
    /\ missing' = [missing EXCEPT ![p] = System \ arow]
    /\ rivalled' = rivalled \cup {a \in System : Makers(a) # {}}
    /\ UNCHANGED <<arow, opened, toOpen, opening, drawn, halved>>

\* One after the other.
create_system_account(p, a) ==
    /\ a \in missing[p]
    /\ AccountGoes(p, "system", "open")
    /\ missing' = [missing EXCEPT ![p] = @ \ {a}]
    /\ opening' = [opening EXCEPT ![p] = a]
    /\ UNCHANGED <<arow, opened, toOpen, drawn, starts, halved, rivalled>>

\* init_account_pools: what the pool lacks, counted once.
init_account_pools(p) ==
    /\ missing[p] = {}
    /\ AccountGoes(p, "system", "pool")
    /\ LET pooled == Cardinality(arow \cap Pooled) IN
       toOpen' = [toOpen EXCEPT ![p] = IF pooled < MinPool THEN MinPool - pooled ELSE 0]
    /\ UNCHANGED <<arow, opened, missing, opening, drawn, starts, halved, rivalled>>

create_pooled_account(p, a) ==
    /\ a \in Pooled \ drawn
    /\ toOpen[p] > 0
    /\ AccountGoes(p, "pool", "open")
    /\ opening' = [opening EXCEPT ![p] = a]
    /\ drawn' = drawn \cup {a}
    /\ UNCHANGED <<arow, opened, missing, toOpen, starts, halved, rivalled>>

serve(p) ==
    /\ toOpen[p] = 0
    /\ AccountGoes(p, "pool", "ready")
    /\ UNCHANGED <<arow, opened, missing, toOpen, opening, drawn, starts, halved, rivalled>>

\* get_or_create_free_pooled_account, when no account is free.
create_free_account(p, a) ==
    /\ a \in Pooled \ drawn
    /\ AccountGoes(p, "ready", "open")
    /\ opening' = [opening EXCEPT ![p] = a]
    /\ drawn' = drawn \cup {a}
    /\ UNCHANGED <<arow, opened, missing, toOpen, starts, halved, rivalled>>

\* create_account_happy: the gateway.  An answer may be lost, and an account
\* that exists may be refused.
open_account(p) ==
    /\ \/ /\ AccountGoes(p, "open", "insert")
          /\ opened' = opened \cup {opening[p]}
       \/ /\ AccountGoes(p, "open", "revert")
          /\ opened' \in {opened, opened \cup {opening[p]}}
    /\ UNCHANGED <<arow, missing, toOpen, opening, drawn, starts, halved, rivalled>>

\* Where an instance goes on after an account was created: the start it is in
\* knows what is left to do.
Back(p) == IF opening[p] \in System THEN "system"
           ELSE IF toOpen[p] > 0 THEN "pool" ELSE "ready"

\* ... and the row; the id is the primary key.
insert_account(p) ==
    /\ opening[p] \notin arow
    /\ AccountGoes(p, "insert", Back(p))
    /\ arow' = arow \cup {opening[p]}
    /\ toOpen' = [toOpen EXCEPT ![p] = IF @ > 0 /\ opening[p] \in Pooled THEN @ - 1 ELSE @]
    /\ opening' = [opening EXCEPT ![p] = NoAccount]
    /\ UNCHANGED <<opened, missing, drawn, starts, halved, rivalled>>

\* Refused as a duplicate, an error before it or a lost answer after it.
insert_fails(p) ==
    /\ AccountGoes(p, "insert", "revert")
    /\ arow' \in {arow, arow \cup {opening[p]}}
    /\ UNCHANGED <<opened, missing, toOpen, opening, drawn, starts, halved, rivalled>>

\* create_account_revert: both deletions, in any order.
Reverted(p, first) ==
    IF astep[p] = "revert"
    THEN /\ astep' = [astep EXCEPT ![p] = first]
         /\ UNCHANGED <<missing, toOpen, opening>>
    ELSE /\ astep' = [astep EXCEPT ![p] =
                        IF opening[p] \in System \/ toOpen[p] > 0 THEN "down" ELSE "ready"]
         /\ missing' = [missing EXCEPT ![p] = {}]
         /\ toOpen' = [toOpen EXCEPT ![p] = 0]
         /\ opening' = [opening EXCEPT ![p] = NoAccount]

delete_row_Skipped(p) ==
    /\ astep[p] \in {"revert", "row"}
    /\ UNCHANGED <<arow, halved>>
    /\ Reverted(p, "gateway")
    /\ UNCHANGED <<opened, drawn, starts, rivalled>>

delete_row(p) ==
    /\ astep[p] \in {"revert", "row"}
    /\ \/ arow' = arow \ {opening[p]} /\ UNCHANGED halved
       \/ UNCHANGED arow /\ halved' = halved \cup {opening[p]}
    /\ Reverted(p, "gateway")
    /\ UNCHANGED <<opened, drawn, starts, rivalled>>

delete_account(p) ==
    /\ astep[p] \in {"revert", "gateway"}
    /\ \/ opened' = opened \ {opening[p]} /\ UNCHANGED halved
       \/ UNCHANGED opened /\ halved' = halved \cup {opening[p]}
    /\ Reverted(p, "row")
    /\ UNCHANGED <<arow, drawn, starts, rivalled>>

\* The process stops; a deletion that was still to come does not happen.
stop(p) ==
    /\ astep[p] # "down"
    /\ astep' = [astep EXCEPT ![p] = "down"]
    /\ missing' = [missing EXCEPT ![p] = {}]
    /\ toOpen' = [toOpen EXCEPT ![p] = 0]
    /\ opening' = [opening EXCEPT ![p] = NoAccount]
    /\ halved' = IF astep[p] \in {"revert", "row", "gateway"}
                 THEN halved \cup {opening[p]} ELSE halved
    /\ UNCHANGED <<arow, opened, drawn, starts, rivalled>>

Start(p) ==
    \/ init_system_accounts(p)
    \/ \E a \in System : create_system_account(p, a)
    \/ init_account_pools(p)
    \/ \E a \in Pooled : create_pooled_account(p, a) \/ create_free_account(p, a)
    \/ serve(p)

AccountsNext ==
    \E p \in Instances :
        \/ Start(p)
        \/ open_account(p)
        \/ insert_account(p) \/ insert_fails(p)
        \/ delete_row(p) \/ delete_account(p)
        \/ stop(p)

AccountsSpec == AccountsInit /\ [][AccountsNext]_accountsVars

-----------------------------------------------------------------------------
(* Properties                                                              *)

AccountsTypeOK ==
    /\ arow \in SUBSET Accounts
    /\ opened \in SUBSET Accounts
    /\ astep \in [Instances -> InstanceSteps]
    /\ missing \in [Instances -> SUBSET System]
    /\ toOpen \in [Instances -> Nat]
    /\ opening \in [Instances -> Accounts \cup {NoAccount}]
    /\ drawn \in SUBSET Pooled
    /\ starts \in [Instances -> Nat]
    /\ halved \in SUBSET Accounts
    /\ rivalled \in SUBSET System

\* A row whose account was deleted first.
Reverting(a) == \E p \in Instances : astep[p] = "row" /\ opening[p] = a

\* Two systems hold an account and are never changed together: a row has its
\* account at the gateway, and an instance that serves has the rows of all
\* system accounts, unless a revert was cut short or another instance was
\* creating, and then reverted, the same account.
AccountsBacked ==
    /\ \A a \in arow : a \in opened \cup halved \cup rivalled \/ Reverting(a)
    /\ \A p \in Instances : astep[p] = "ready" => System \subseteq arow \cup rivalled

\* An instance that is up has, or is about to create, every system account, and
\* one that creates an account is alone with it.
PoolInv ==
    /\ \A p \in Instances :
        /\ astep[p] \in {"open", "insert", "revert", "row", "gateway"} <=> opening[p] # NoAccount
        /\ opening[p] \in Pooled => opening[p] \in drawn
        /\ (astep[p] \in {"down", "pool", "ready"} \/ opening[p] \in Pooled) => missing[p] = {}
        /\ astep[p] # "down" =>
              \A a \in System : a \in arow \cup rivalled \cup missing[p] \cup {opening[p]}
    /\ \A p, q \in Instances :
        (p # q /\ opening[p] # NoAccount /\ opening[p] = opening[q]) => opening[p] \in rivalled
    /\ \A a \in System \ rivalled : \A p, q \in Instances :
        (p # q /\ p \in Makers(a)) => astep[q] = "down"

RevertInv ==
    \A p \in Instances :
        /\ astep[p] = "insert" => opening[p] \in opened \cup halved \cup rivalled
        /\ astep[p] = "gateway" => opening[p] \notin arow \/ opening[p] \in halved \cup rivalled

=============================================================================
