------------------------------ MODULE JobQueue ------------------------------
(***************************************************************************)
(* What the event store promises its users: a job that was added is run at *)
(* most MaxAttempts times, by one runner at a time, and ends either done   *)
(* or dead, for good.  EventStore.tla is the table and the workers that    *)
(* implement it; the components whose handlers run on the queue compose    *)
(* with this module instead of with the whole table.                       *)
(***************************************************************************)
EXTENDS Naturals

CONSTANTS Jobs,        \* every job that can ever be added
          MaxAttempts  \* config event_store.max_processing_attempts

VARIABLES state,       \* [Jobs -> JobStates]
          attempts     \* [Jobs -> Nat], how often the job was started

queueVars == <<state, attempts>>

JobStates == {"absent", "pending", "in_progress", "completed", "failed"}
Settled == {"completed", "failed"}

Init ==
    /\ state = [j \in Jobs |-> "absent"]
    /\ attempts = [j \in Jobs |-> 0]

Add(j) ==
    /\ state[j] = "absent"
    /\ state' = [state EXCEPT ![j] = "pending"]
    /\ UNCHANGED attempts

Start(j) ==
    /\ state[j] = "pending"
    /\ state' = [state EXCEPT ![j] = "in_progress"]
    /\ attempts' = [attempts EXCEPT ![j] = @ + 1]

Complete(j) ==
    /\ state[j] = "in_progress"
    /\ state' = [state EXCEPT ![j] = "completed"]
    /\ UNCHANGED attempts

\* An attempt failed, or was given up as stuck: the job waits for the next
\* attempt unless it has had them all.  One step may give back several jobs.
GiveBack(S) ==
    /\ \A j \in S : state[j] = "in_progress"
    /\ state' = [j \in Jobs |->
                   IF j \in S
                   THEN IF attempts[j] >= MaxAttempts THEN "failed" ELSE "pending"
                   ELSE state[j]]
    /\ UNCHANGED attempts

Next ==
    \/ \E j \in Jobs : Add(j) \/ Start(j) \/ Complete(j)
    \/ \E S \in SUBSET Jobs : GiveBack(S)

Spec == Init /\ [][Next]_queueVars

TypeOK ==
    /\ state \in [Jobs -> JobStates]
    /\ attempts \in [Jobs -> Nat]

=============================================================================
