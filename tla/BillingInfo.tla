----------------------------- MODULE BillingInfo -----------------------------
(***************************************************************************)
(* The bank details of stores (services/billing_info.rs): a table of       *)
(* billing types and one table of details for each type, none of which has *)
(* a unique constraint on the store.  Creating details of one type removes *)
(* those of the other and switches the type, in one transaction, on what   *)
(* statements of that transaction read before.  A search of orders         *)
(* (services/order_billing.rs) reads the three tables one after the other, *)
(* in no transaction.                                                      *)
(*                                                                         *)
(* READ COMMITTED: a read sees what is committed at its moment.  What a    *)
(* transaction writes becomes visible when it commits, and two that write  *)
(* the same rows wait for each other, so the writes are one step.          *)
(***************************************************************************)
EXTENDS Naturals

CONSTANTS BStores, BRequests, Searches, NoType

BillingTypes == {"International", "Russia"}

ASSUME BillingAssumption == NoType \notin BStores \cup BillingTypes

VARIABLES infos,    \* [BStores -> [BillingTypes -> Nat]], rows of details
          types,    \* [BStores -> [BillingTypes -> Nat]], rows of store_billing_type
          bstep,    \* [BRequests -> BillingSteps]
          bstore,   \* [BRequests -> BStores \cup {NoType}]
          btype,    \* [BRequests -> BillingTypes \cup {NoType}], the type to create
          found,    \* [BRequests -> BillingTypes \cup {NoType}], the type it read
          sstep,    \* [Searches -> SearchSteps]
          sstore,   \* [Searches -> BStores \cup {NoType}], the store of an order found
          shownType,\* [Searches -> BillingTypes \cup {NoType}], its type row
          shown,    \* [Searches -> SUBSET BillingTypes], its details
          crossed,  \* history: stores for which two creations overlapped
          outrun    \* history: searches during which details of their store changed

requestVars == <<infos, types, bstep, bstore, btype, found, crossed, outrun>>
searchVars == <<sstep, sstore, shownType, shown>>
billingVars == <<requestVars, searchVars>>

BillingSteps == {"new", "validated", "typed", "done"}
SearchSteps == {"new", "international", "russia", "done"}

Other(t) == CHOOSE o \in BillingTypes : o # t

Nothing == [t \in BillingTypes |-> 0]
Only(t) == [y \in BillingTypes |-> IF y = t THEN 1 ELSE 0]

BillingInit ==
    /\ infos = [s \in BStores |-> Nothing]
    /\ types = [s \in BStores |-> Nothing]
    /\ bstep = [r \in BRequests |-> "new"]
    /\ bstore = [r \in BRequests |-> NoType]
    /\ btype = [r \in BRequests |-> NoType]
    /\ found = [r \in BRequests |-> NoType]
    /\ sstep = [q \in Searches |-> "new"]
    /\ sstore = [q \in Searches |-> NoType]
    /\ shownType = [q \in Searches |-> NoType]
    /\ shown = [q \in Searches |-> {}]
    /\ crossed = {}
    /\ outrun = {}

-----------------------------------------------------------------------------
(* The tables                                                              *)

\* The details by store, an error when there are several.
no_info(s, t) == infos[s][t] = 0

\* One of the rows, none when there is no row.
billing_types(s) ==
    {t \in BillingTypes : types[s][t] > 0}
      \cup (IF \A t \in BillingTypes : types[s][t] = 0 THEN {NoType} ELSE {})

insert_info(s, t) == [infos EXCEPT ![s][t] = @ + 1]

insert_type(s, t) == [types EXCEPT ![s][t] = @ + 1]

\* delete looks the details up with get, which reports several as an error; that
\* there are none is not one.
can_delete(s, t) == infos[s][t] <= 1

delete_and_insert(s, t) ==
    [infos EXCEPT ![s] = [y \in BillingTypes |-> IF y = t THEN @[y] + 1 ELSE 0]]

\* Every row of the store.
update_types(s, t) ==
    [types EXCEPT ![s] = [y \in BillingTypes |-> IF y = t THEN @[y] + @[Other(t)] ELSE 0]]

-----------------------------------------------------------------------------
BillingEnds(r) ==
    /\ bstep' = [bstep EXCEPT ![r] = "done"]
    /\ bstore' = [bstore EXCEPT ![r] = NoType]
    /\ btype' = [btype EXCEPT ![r] = NoType]
    /\ found' = [found EXCEPT ![r] = NoType]
    /\ UNCHANGED <<crossed, searchVars>>

BillingCommits(r) ==
    /\ outrun' = outrun \cup {q \in Searches : sstore[q] = bstore[r] /\ sstep[q] # "done"}
    /\ BillingEnds(r)

Creating(s) == {r \in BRequests : bstore[r] = s}

\* validate_create_*_billing_info: refused when there are details, or several.
validate_create(r, s, t) ==
    /\ bstep[r] = "new"
    /\ no_info(s, t)
    /\ bstep' = [bstep EXCEPT ![r] = "validated"]
    /\ bstore' = [bstore EXCEPT ![r] = s]
    /\ btype' = [btype EXCEPT ![r] = t]
    /\ crossed' = IF Creating(s) # {} THEN crossed \cup {s} ELSE crossed
    /\ UNCHANGED <<infos, types, found, outrun, searchVars>>

\* update_store_billing_type_to_*: the type of the store ...
get_billing_type(r) ==
    /\ bstep[r] = "validated"
    /\ bstep' = [bstep EXCEPT ![r] = "typed"]
    /\ \E t \in billing_types(bstore[r]) : found' = [found EXCEPT ![r] = t]
    /\ UNCHANGED <<infos, types, bstore, btype, crossed, outrun, searchVars>>

\* ... None: one is created, with the details.
create_with_type(r) ==
    /\ bstep[r] = "typed" /\ found[r] = NoType
    /\ types' = insert_type(bstore[r], btype[r])
    /\ infos' = insert_info(bstore[r], btype[r])
    /\ BillingCommits(r)

\* The type is right already.
create_info(r) ==
    /\ bstep[r] = "typed" /\ found[r] = btype[r]
    /\ infos' = insert_info(bstore[r], btype[r])
    /\ UNCHANGED types
    /\ BillingCommits(r)

\* The details of the other type go, and the type is switched.
switch_type_Undeleted(r) ==
    /\ bstep[r] = "typed" /\ found[r] = Other(btype[r])
    /\ can_delete(bstore[r], found[r])
    /\ infos' = insert_info(bstore[r], btype[r])
    /\ types' = update_types(bstore[r], btype[r])
    /\ BillingCommits(r)

switch_type(r) ==
    /\ bstep[r] = "typed" /\ found[r] = Other(btype[r])
    /\ can_delete(bstore[r], found[r])
    /\ infos' = delete_and_insert(bstore[r], btype[r])
    /\ types' = update_types(bstore[r], btype[r])
    /\ BillingCommits(r)

\* Refused, an error (several details, no permission) or the process stops:
\* the transaction is rolled back.
abandon_billing(r) ==
    /\ bstep[r] \in {"validated", "typed"}
    /\ UNCHANGED <<infos, types, outrun>>
    /\ BillingEnds(r)

-----------------------------------------------------------------------------
(* OrderBillingService::search, for an order of one store.  A store without *)
(* a type row is shown as International, without details.                   *)

search_types(q, s) ==
    /\ sstep[q] = "new"
    /\ sstep' = [sstep EXCEPT ![q] = "international"]
    /\ sstore' = [sstore EXCEPT ![q] = s]
    /\ \E t \in billing_types(s) : shownType' = [shownType EXCEPT ![q] = t]
    /\ UNCHANGED <<shown, requestVars>>

\* The details of type t, any of the rows.
SearchInfos(q, from, to, t) ==
    /\ sstep[q] = from
    /\ sstep' = [sstep EXCEPT ![q] = to]
    /\ shown' = [shown EXCEPT ![q] = IF no_info(sstore[q], t) THEN @ ELSE @ \cup {t}]
    /\ UNCHANGED <<sstore, shownType, requestVars>>

search_international(q) == SearchInfos(q, "international", "russia", "International")

search_russia(q) == SearchInfos(q, "russia", "done", "Russia")

BillingNext ==
    \/ \E r \in BRequests :
        \/ \E s \in BStores, t \in BillingTypes : validate_create(r, s, t)
        \/ get_billing_type(r)
        \/ create_with_type(r) \/ create_info(r) \/ switch_type(r)
        \/ abandon_billing(r)
    \/ \E q \in Searches :
        \/ \E s \in BStores : search_types(q, s)
        \/ search_international(q) \/ search_russia(q)

BillingSpec == BillingInit /\ [][BillingNext]_billingVars

-----------------------------------------------------------------------------
(* Properties                                                              *)

BillingTypeOK ==
    /\ infos \in [BStores -> [BillingTypes -> Nat]]
    /\ types \in [BStores -> [BillingTypes -> Nat]]
    /\ bstep \in [BRequests -> BillingSteps]
    /\ bstore \in [BRequests -> BStores \cup {NoType}]
    /\ btype \in [BRequests -> BillingTypes \cup {NoType}]
    /\ found \in [BRequests -> BillingTypes \cup {NoType}]
    /\ sstep \in [Searches -> SearchSteps]
    /\ sstore \in [Searches -> BStores \cup {NoType}]
    /\ shownType \in [Searches -> BillingTypes \cup {NoType}]
    /\ shown \in [Searches -> SUBSET BillingTypes]
    /\ crossed \in SUBSET BStores
    /\ outrun \in SUBSET Searches

StoreConsistent(s) ==
    \/ infos[s] = Nothing /\ types[s] = Nothing
    \/ \E t \in BillingTypes : infos[s] = Only(t) /\ types[s] = Only(t)

\* A store has one type and the details of that type alone, or neither, although
\* they are three tables written on earlier reads: unless two creations for
\* the store overlapped.  And a search shows the details of the type it
\* shows, unless details of the store were created while it read.
BillingConsistent ==
    /\ \A s \in BStores \ crossed : StoreConsistent(s)
    /\ \A q \in Searches \ outrun :
        (sstep[q] = "done" /\ sstore[q] \notin crossed) =>
            shown[q] = {shownType[q]} \ {NoType}

\* A request that is alone with its store still sees what it read.
BillingInv ==
    \A r \in BRequests :
        /\ bstep[r] \in {"validated", "typed"} <=> bstore[r] # NoType
        /\ bstore[r] # NoType => btype[r] # NoType
        /\ (bstore[r] # NoType /\ bstore[r] \notin crossed) =>
              /\ \A q \in BRequests : bstore[q] = bstore[r] => q = r
              /\ infos[bstore[r]][btype[r]] = 0
        /\ (bstore[r] # NoType /\ bstore[r] \notin crossed /\ bstep[r] = "typed") =>
              types[bstore[r]] = IF found[r] = NoType THEN Nothing ELSE Only(found[r])

\* A search that nothing overtook still shows what the tables hold.
SearchInv ==
    \A q \in Searches :
        /\ sstep[q] = "new" <=> sstore[q] = NoType
        /\ sstep[q] = "new" => shown[q] = {}
        /\ (sstep[q] # "new" /\ q \notin outrun /\ sstore[q] \notin crossed) =>
              /\ sstep[q] # "done" =>
                    types[sstore[q]] = IF shownType[q] = NoType THEN Nothing ELSE Only(shownType[q])
              /\ sstep[q] = "international" => shown[q] = {}
              /\ sstep[q] = "russia" =>
                    shown[q] = {shownType[q]} \cap {"International"}
              /\ sstep[q] = "done" => shown[q] = {shownType[q]} \ {NoType}

=============================================================================
