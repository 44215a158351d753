------------------------------ MODULE UserRoles ------------------------------
(***************************************************************************)
(* The roles table, the cache in front of it and the decisions taken with  *)
(* it (services/user_roles.rs, repos/user_roles.rs,                        *)
(* repos/acl/roles_cache.rs, repos/repo_factory.rs).                       *)
(*                                                                         *)
(* Every request first gets the roles of its user, from the cache or from  *)
(* the table, and keeps them.  The cache is shared by all processes; a     *)
(* miss is a read of the table and, later, a write of what was read.       *)
(* Roles are changed in the table and removed from the cache, in this or   *)
(* the other order, and every call of the cache may fail unnoticed.        *)
(***************************************************************************)
EXTENDS Acl, FiniteSets

CONSTANTS RoleIds, Requests,
          Existing,  \* the rows at first, a superuser among them
          NewRows,  \* the rows requests may create
          Asked     \* the questions requests may ask

Rows == [user : Users, name : Roles, data : Stores \cup {None}]

\* A row, or what a deletion looks for.
Subjects == [user : Users, name : Roles \cup {None}, data : Stores \cup {None}]

ASSUME UserRolesAssumption ==
    /\ None \notin Users \cup Stores /\ None \notin Subjects
    /\ Existing \in [RoleIds -> Rows \cup {None}]
    /\ NewRows \subseteq Rows
    /\ Asked \subseteq Questions

VARIABLES roles,   \* [RoleIds -> Rows \cup {None}]
          cache,   \* [Users -> SUBSET Roles], {}: no entry
          rstep,   \* [Requests -> RequestSteps]
          ruser,   \* [Requests -> Users \cup {None}], None: not authenticated
          held,    \* [Requests -> SUBSET Roles], the roles a request goes by
          about,   \* [Requests -> Subjects \cup {None}], what it is changing
          answer,  \* [Requests -> Answers \cup {None}]
          raced,   \* history: users whose cached roles may be out of date
          misled   \* history: requests that go by roles that are out of date

vars == <<roles, cache, rstep, ruser, held, about, answer, raced, misled>>

RequestSteps == {"new", "fill", "acl", "insert", "delete", "delete_all", "forget", "done"}

\* granted: the decision; due: what the rows of the table would have permitted;
\* rooted: if it is about a store, a row names the store or a role is for all.
Answers == [granted : BOOLEAN, due : BOOLEAN, rooted : BOOLEAN]

Table == {roles[i] : i \in RoleIds} \ {None}
Names == [u \in Users |-> {w.name : w \in {w \in Table : w.user = u}}]

Filling(u) == {r \in Requests : rstep[r] = "fill" /\ ruser[r] = u}
Going(u) == {r \in Requests : rstep[r] \in {"fill", "acl", "delete"} /\ ruser[r] = u}
Forgetting(u) == {r \in Requests : rstep[r] = "forget" /\ about[r].user = u}

Init ==
    /\ roles = Existing
    /\ cache = [u \in Users |-> {}]
    /\ rstep = [r \in Requests |-> "new"]
    /\ ruser = [r \in Requests |-> None]
    /\ held = [r \in Requests |-> {}]
    /\ about = [r \in Requests |-> None]
    /\ answer = [r \in Requests |-> None]
    /\ raced = {}
    /\ misled = {}

-----------------------------------------------------------------------------
(* repos/acl/roles_cache.rs.  Errors are logged and otherwise ignored.     *)

\* What the removal of an entry may leave; after it the cached roles of u are
\* up to date again, unless somebody still holds what it read before.
removed(u, c, late) ==
    \/ /\ c = [cache EXCEPT ![u] = {}]
       /\ late = IF Filling(u) = {} THEN raced \ {u} ELSE raced
    \/ c = cache /\ late = raced

-----------------------------------------------------------------------------
Goes(r, from, to) == rstep[r] = from /\ rstep' = [rstep EXCEPT ![r] = to]

\* A request that is over forgets what it held.
Ends(r, from) ==
    /\ Goes(r, from, "done")
    /\ held' = [held EXCEPT ![r] = {}]
    /\ about' = [about EXCEPT ![r] = None]

(* get_acl, get_roles and list_for_user                                    *)

\* No user, no roles: UnauthorizedACL.
get_acl(r) ==
    /\ Goes(r, "new", "acl")
    /\ UNCHANGED <<roles, cache, ruser, held, about, answer, raced, misled>>

\* Hit.  The entry may be one that is about to be removed.
get_cached(r, u) ==
    /\ cache[u] # {}
    /\ Goes(r, "new", "acl")
    /\ ruser' = [ruser EXCEPT ![r] = u]
    /\ held' = [held EXCEPT ![r] = cache[u]]
    /\ misled' = IF u \in raced \/ Forgetting(u) # {} THEN misled \cup {r} ELSE misled
    /\ UNCHANGED <<roles, cache, about, answer, raced>>

\* A miss, or the cache cannot be asked.  No roles are not cached.
list_for_user(r, u) ==
    /\ Goes(r, "new", IF Names[u] = {} THEN "acl" ELSE "fill")
    /\ ruser' = [ruser EXCEPT ![r] = u]
    /\ held' = [held EXCEPT ![r] = Names[u]]
    /\ UNCHANGED <<roles, cache, about, answer, raced, misled>>

\* The table cannot be read: get_roles goes on without roles.
list_fails(r, u) ==
    /\ Goes(r, "new", "acl")
    /\ ruser' = [ruser EXCEPT ![r] = u]
    /\ misled' = misled \cup {r}
    /\ UNCHANGED <<roles, cache, held, about, answer, raced>>

set(r) ==
    /\ Goes(r, "fill", "acl")
    /\ cache' \in {cache, [cache EXCEPT ![ruser[r]] = held[r]]}
    /\ UNCHANGED <<roles, ruser, held, about, answer, raced, misled>>

-----------------------------------------------------------------------------
(* acl::check                                                              *)

\* The repositories of what belongs to a store.
StoreRepos == {"fee", "international_billing_info", "russia_billing_info", "store_billing_type",
               "store_subscription", "subscription", "subscription_payment",
               "payment_intents_fees"}

Answer(r, q) ==
    [granted |-> Granted(held[r], Table, ruser[r], q),
     due |-> Granted(Names[ruser[r]], Table, ruser[r], q),
     rooted |-> \/ q.repo \notin StoreRepos
                \/ held[r] \cap {"Superuser", "FinancialManager"} # {}
                \/ q.obj # None /\ \E w \in Table : w.user = ruser[r] /\ w.data = q.obj.store]

check(r, q) ==
    /\ Ends(r, "acl")
    /\ answer' = [answer EXCEPT ![r] = Answer(r, q)]
    /\ UNCHANGED <<roles, cache, ruser, raced, misled>>

-----------------------------------------------------------------------------
(* repos/user_roles.rs                                                     *)

RoleQuestion(row) ==
    [repo |-> "user_roles", resource |-> "UserRoles", action |-> "Write",
     obj |-> IF row = None THEN None ELSE [user |-> row.user, store |-> row.data]]

\* The rows of u change: requests that already have its roles are out of date,
\* and so is the cache, if it is filled now or from a read before the change.
Changes(u, table) ==
    /\ roles' = table
    /\ misled' = misled \cup Going(u)

Overtaken(u) == IF Filling(u) # {} \/ cache[u] # {} THEN raced \cup {u} ELSE raced

\* create: the permission, without an object, and the cache first.
create_user_role(r, row) ==
    /\ rstep[r] = "acl"
    /\ answer' = [answer EXCEPT ![r] = Answer(r, RoleQuestion(None))]
    /\ UNCHANGED <<roles, ruser, misled>>
    /\ \/ /\ answer'[r].granted
          /\ Goes(r, "acl", "insert")
          /\ removed(row.user, cache', raced')
          /\ about' = [about EXCEPT ![r] = row]
          /\ UNCHANGED held
       \/ /\ ~answer'[r].granted
          /\ Ends(r, "acl")
          /\ UNCHANGED <<cache, raced>>

\* The unique constraint does not see rows without data as equal.
insert_role(r, i) ==
    /\ rstep[r] = "insert"
    /\ roles[i] = None
    /\ ~ \E w \in Table : w = about[r] /\ w.data # None
    /\ Ends(r, "insert")
    /\ Changes(about[r].user, [roles EXCEPT ![i] = about[r]])
    /\ raced' = Overtaken(about[r].user)
    /\ UNCHANGED <<cache, ruser, answer>>

\* delete: the cache first, then the rows, then the permission to do so.
delete_user_role(r, u, n) ==
    /\ Goes(r, "acl", "delete")
    /\ removed(u, cache', raced')
    /\ about' = [about EXCEPT ![r] = [user |-> u, name |-> n, data |-> None]]
    /\ UNCHANGED <<roles, ruser, held, answer, misled>>

Matching(r) == {i \in RoleIds : roles[i] # None /\ roles[i].user = about[r].user
                                                /\ roles[i].name = about[r].name}

\* The transaction is rolled back when the permission is refused.
delete_roles(r) ==
    /\ rstep[r] = "delete"
    /\ \E i \in Matching(r) :
        /\ Ends(r, "delete")
        /\ answer' = [answer EXCEPT ![r] = Answer(r, RoleQuestion(roles[i]))]
        /\ UNCHANGED <<cache, ruser>>
        /\ \/ /\ answer'[r].granted
              /\ Changes(about[r].user,
                         [j \in RoleIds |-> IF j \in Matching(r) THEN None ELSE roles[j]])
              /\ raced' = Overtaken(about[r].user)
           \/ /\ ~answer'[r].granted
              /\ UNCHANGED <<roles, misled, raced>>

\* delete_by_user_id and delete_by_id ask for no permission.
delete_by_user_id(r, u) ==
    /\ Goes(r, "acl", "delete_all")
    /\ removed(u, cache', raced')
    /\ about' = [about EXCEPT ![r] = [user |-> u, name |-> None, data |-> None]]
    /\ UNCHANGED <<roles, ruser, held, answer, misled>>

delete_all_roles(r) ==
    /\ rstep[r] = "delete_all"
    /\ Ends(r, "delete_all")
    /\ Changes(about[r].user,
               [i \in RoleIds |-> IF roles[i] # None /\ roles[i].user = about[r].user
                                  THEN None ELSE roles[i]])
    /\ raced' = Overtaken(about[r].user)
    /\ UNCHANGED <<cache, ruser, answer>>

\* Here the cache comes second.
delete_by_id(r, i) ==
    /\ roles[i] # None
    /\ Goes(r, "acl", "forget")
    /\ about' = [about EXCEPT ![r] = roles[i]]
    /\ Changes(roles[i].user, [roles EXCEPT ![i] = None])
    /\ raced' = IF Filling(roles[i].user) # {} THEN raced \cup {roles[i].user} ELSE raced
    /\ UNCHANGED <<cache, ruser, held, answer>>

forget_Nobody(r) ==
    /\ Ends(r, "forget")
    /\ UNCHANGED <<roles, cache, ruser, answer, raced, misled>>

forget(r) ==
    /\ Ends(r, "forget")
    /\ \/ /\ cache' = [cache EXCEPT ![about[r].user] = {}]
          /\ raced' = IF Filling(about[r].user) = {} THEN raced \ {about[r].user} ELSE raced
       \/ UNCHANGED cache /\ raced' = raced \cup {about[r].user}
    /\ UNCHANGED <<roles, ruser, answer, misled>>

\* An error, a refused request or the process stops.
abandon(r) ==
    /\ \E from \in RequestSteps \ {"new", "done"} : Ends(r, from)
    /\ raced' = IF rstep[r] = "forget" THEN raced \cup {about[r].user} ELSE raced
    /\ UNCHANGED <<roles, cache, ruser, answer, misled>>

\* The time to live of an entry ends.
expire(u) ==
    /\ cache[u] # {}
    /\ cache' = [cache EXCEPT ![u] = {}]
    /\ raced' = IF Filling(u) = {} THEN raced \ {u} ELSE raced
    /\ UNCHANGED <<roles, rstep, ruser, held, about, answer, misled>>

Request(r) ==
    \/ get_acl(r)
    \/ \E u \in Users : get_cached(r, u) \/ list_for_user(r, u) \/ list_fails(r, u)
    \/ set(r)
    \/ \E q \in Asked : check(r, q)
    \/ \E w \in NewRows : create_user_role(r, w)
    \/ \E i \in RoleIds : insert_role(r, i) \/ delete_by_id(r, i)
    \/ \E u \in Users, n \in Roles : delete_user_role(r, u, n)
    \/ delete_roles(r)
    \/ \E u \in Users : delete_by_user_id(r, u)
    \/ delete_all_roles(r)
    \/ forget(r)
    \/ abandon(r)

Next ==
    \/ \E r \in Requests : Request(r)
    \/ \E u \in Users : expire(u)

Spec == Init /\ [][Next]_vars

-----------------------------------------------------------------------------
(* Properties                                                              *)

TypeOK ==
    /\ roles \in [RoleIds -> Rows \cup {None}]
    /\ cache \in [Users -> SUBSET Roles]
    /\ rstep \in [Requests -> RequestSteps]
    /\ ruser \in [Requests -> Users \cup {None}]
    /\ held \in [Requests -> SUBSET Roles]
    /\ about \in [Requests -> Subjects \cup {None}]
    /\ answer \in [Requests -> Answers \cup {None}]
    /\ raced \in SUBSET Users
    /\ misled \in SUBSET Requests

\* The cached roles of a user are those of the table, although they are written
\* by whoever missed and removed by whoever changes them: unless a change was
\* overtaken by a read, or its removal failed, since the entry was last removed;
\* or the removal by delete_by_id is still to come.
RolesFresh ==
    \A u \in Users : cache[u] # {} =>
        cache[u] = Names[u] \/ u \in raced \/ Forgetting(u) # {}

\* A decision is the one the table would give at that moment unless the request
\* goes by roles that were overtaken; and even then access to what belongs to
\* a store needs a row that names the store, or a role for all stores.
DecisionCurrent ==
    \A r \in Requests : answer[r] # None =>
        /\ answer[r].granted = answer[r].due \/ r \in misled
        /\ answer[r].granted => answer[r].rooted

-----------------------------------------------------------------------------
(* The inductive invariant behind the safety properties                    *)

\* What requests hold: roles read from the table and not yet in the cache are
\* right unless the cache is known to be out of date, and roles a decision will
\* be made with are right unless the request was misled.
HeldInv ==
    \A r \in Requests :
        /\ rstep[r] = "new" => ruser[r] = None
        /\ rstep[r] = "fill" =>
              ruser[r] # None /\ (held[r] = Names[ruser[r]] \/ ruser[r] \in raced)
        /\ (rstep[r] \in {"fill", "acl", "delete"} /\ ruser[r] # None) =>
              held[r] = Names[ruser[r]] \/ r \in misled

\* A request that changes roles knows whose.
SubjectInv ==
    \A r \in Requests :
        /\ rstep[r] \in {"insert", "delete", "delete_all", "forget"} => about[r] # None
        /\ rstep[r] = "insert" => about[r] \in Rows

Inv == TypeOK /\ HeldInv /\ SubjectInv /\ RolesFresh /\ DecisionCurrent

=============================================================================
