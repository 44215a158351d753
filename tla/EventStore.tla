----------------------------- MODULE EventStore -----------------------------
(***************************************************************************)
(* The event_store table (repos/event_store.rs) and the workers that poll  *)
(* it (event_handling/mod.rs).  Every process runs one worker, a loop that *)
(* never overlaps itself; several processes share the table.               *)
(*                                                                         *)
(* A step is what PostgreSQL makes atomic under READ COMMITTED: the two    *)
(* sql_query UPDATEs are single statements, while complete_event and       *)
(* fail_event are transactions of a plain SELECT followed by an UPDATE by  *)
(* id, so their SELECT, the UPDATE that takes the row lock, and the COMMIT *)
(* that publishes the row are three steps.                                 *)
(*                                                                         *)
(* Time is relative: age is now - status_updated_at, kept for rows in      *)
(* progress only, and delay is what is left until scheduled_on.  Both stop *)
(* where the code stops telling values apart, so the clock has no bound.   *)
(*                                                                         *)
(* The operators with an underscore in front of a capital are faulty       *)
(* variants of the one that follows; no specification uses them.           *)
(***************************************************************************)
EXTENDS Naturals, FiniteSets

CONSTANTS Workers,         \* event handler processes
          MaxEntries,      \* bound: rows ever inserted
          MaxAttempts,     \* config event_store.max_processing_attempts
          StuckThreshold,  \* config event_store.stuck_threshold_sec, in ticks
          MaxDelay,        \* bound: how far ahead an event is scheduled
          NoEntry          \* a worker that holds no event

Entries == 1..MaxEntries

\* A threshold of a day or more is no chrono::NaiveTime: every poll would end
\* in the error of event_store.rs:137.  The model has thresholds below that.
ASSUME ConstantsAssumption ==
    /\ IsFiniteSet(Workers) /\ Workers # {}
    /\ MaxEntries \in Nat
    /\ MaxAttempts \in Nat \ {0}
    /\ StuckThreshold \in Nat
    /\ MaxDelay \in Nat
    /\ NoEntry \notin Entries

VARIABLES status,         \* [Entries -> Statuses], "absent" before the INSERT
          attempt_count,  \* [Entries -> Nat]
          age,            \* ticks a row is in progress, up to "stuck"
          delay,          \* ticks until scheduled_on, 0 when due
          pc,             \* [Workers -> Steps]
          entry,          \* the event a worker took, or NoEntry
          verdict,        \* what the worker is about to report or to write
          handled         \* history: entries whose handler returned Ok

vars == <<status, attempt_count, age, delay, pc, entry, verdict, handled>>
tableVars == <<status, attempt_count, age, delay>>
workerVars == <<pc, entry, verdict>>

Statuses == {"absent", "pending", "in_progress", "completed", "failed"}
Settled == {"completed", "failed"}
Steps == {"idle", "polling", "handling", "reporting", "updating", "committing"}
Verdicts == {"none", "ok", "err", "completed", "pending", "failed"}

MaxAge == StuckThreshold + 1

\* Rows whose lock is held: an UPDATE by id that is not committed yet.
Locked == {entry[w] : w \in {v \in Workers : pc[v] = "committing"}}

AfterFailure_OneMore(attempts) == IF attempts > MaxAttempts THEN "failed" ELSE "pending"

AfterFailure_OneLess(attempts) ==
    IF attempts + 1 >= MaxAttempts THEN "failed" ELSE "pending"

\* The status an unsuccessful attempt leaves behind.
AfterFailure(attempts) == IF attempts >= MaxAttempts THEN "failed" ELSE "pending"

-----------------------------------------------------------------------------

Init ==
    /\ status = [e \in Entries |-> "absent"]
    /\ attempt_count = [e \in Entries |-> 0]
    /\ age = [e \in Entries |-> 0]
    /\ delay = [e \in Entries |-> 0]
    /\ pc = [w \in Workers |-> "idle"]
    /\ entry = [w \in Workers |-> NoEntry]
    /\ verdict = [w \in Workers |-> "none"]
    /\ handled = {}

\* The INSERT both add operations share.  Ids come from a sequence before the
\* inserting transaction commits, so rows need not appear in id order.
Insert(e, d) ==
    /\ status[e] = "absent"
    /\ status' = [status EXCEPT ![e] = "pending"]
    /\ delay' = [delay EXCEPT ![e] = d]
    /\ UNCHANGED <<attempt_count, age, workerVars, handled>>

add_event(e) == Insert(e, 0)

add_scheduled_event(e, d) == Insert(e, d)

-----------------------------------------------------------------------------
(* process_events, one worker                                              *)

Stuck_AnyAge == {e \in Entries : status[e] = "in_progress"}

Stuck_Never == {}

Stuck == {e \in Entries : status[e] = "in_progress" /\ age[e] > StuckThreshold}

reset_stuck_events(w) ==
    /\ pc[w] = "idle"
    /\ LET reset == Stuck \ Locked IN
        /\ status' = [e \in Entries |->
                        IF e \in reset THEN AfterFailure(attempt_count[e]) ELSE status[e]]
        /\ age' = [e \in Entries |-> IF e \in reset THEN 0 ELSE age[e]]
    /\ pc' = [pc EXCEPT ![w] = "polling"]
    /\ UNCHANGED <<attempt_count, delay, entry, verdict, handled>>

Due == {e \in Entries : status[e] = "pending" /\ delay[e] = 0}

get_events_for_processing_Uncounted(w) ==
    /\ pc[w] = "polling"
    /\ \E e \in Due \ Locked :
        /\ status' = [status EXCEPT ![e] = "in_progress"]
        /\ age' = [age EXCEPT ![e] = 0]
        /\ pc' = [pc EXCEPT ![w] = "handling"]
        /\ entry' = [entry EXCEPT ![w] = e]
    /\ UNCHANGED <<attempt_count, delay, verdict, handled>>

\* limit is 1: the lowest id that is due and not locked, if there is one.
get_events_for_processing(w) ==
    /\ pc[w] = "polling"
    /\ LET free == Due \ Locked IN
        \/ /\ free = {}
           /\ pc' = [pc EXCEPT ![w] = "idle"]
           /\ UNCHANGED <<tableVars, entry>>
        \/ \E e \in free :
            /\ \A f \in free : e <= f
            /\ status' = [status EXCEPT ![e] = "in_progress"]
            /\ attempt_count' = [attempt_count EXCEPT ![e] = @ + 1]
            /\ age' = [age EXCEPT ![e] = 0]
            /\ pc' = [pc EXCEPT ![w] = "handling"]
            /\ entry' = [entry EXCEPT ![w] = e]
            /\ UNCHANGED delay
    /\ UNCHANGED <<verdict, handled>>

\* handle_event: which effects it has is the subject of the other modules.
handle_event(w, result) ==
    /\ pc[w] = "handling"
    /\ pc' = [pc EXCEPT ![w] = "reporting"]
    /\ verdict' = [verdict EXCEPT ![w] = result]
    /\ handled' = IF result = "ok" THEN handled \cup {entry[w]} ELSE handled
    /\ UNCHANGED <<tableVars, entry>>

\* Whatever ends the iteration early: a crash, a lost connection, an error
\* from the pool.  An open transaction is rolled back and its lock released.
Rest(w) ==
    /\ pc' = [pc EXCEPT ![w] = "idle"]
    /\ entry' = [entry EXCEPT ![w] = NoEntry]
    /\ verdict' = [verdict EXCEPT ![w] = "none"]

abort(w) ==
    /\ pc[w] # "idle"
    /\ Rest(w)
    /\ UNCHANGED <<tableVars, handled>>

\* The SELECT of complete_event and fail_event.  An entry that is no longer in
\* progress is refused: "Cannot change status from ... to ...".
SelectRow(w, result, newStatus) ==
    /\ pc[w] = "reporting" /\ verdict[w] = result
    /\ \/ /\ status[entry[w]] = "in_progress"
          /\ pc' = [pc EXCEPT ![w] = "updating"]
          /\ verdict' = [verdict EXCEPT ![w] = newStatus]
          /\ UNCHANGED entry
       \/ /\ status[entry[w]] # "in_progress"
          /\ Rest(w)
    /\ UNCHANGED <<tableVars, handled>>

complete_event(w) == SelectRow(w, "ok", "completed")

fail_event(w) == SelectRow(w, "err", AfterFailure(attempt_count[entry[w]]))

\* UPDATE ... WHERE id = ...: waits for the row lock, checks nothing else.
UpdateRow(w) ==
    /\ pc[w] = "updating"
    /\ entry[w] \notin Locked
    /\ pc' = [pc EXCEPT ![w] = "committing"]
    /\ UNCHANGED <<tableVars, entry, verdict, handled>>

CommitRow(w) ==
    /\ pc[w] = "committing"
    /\ status' = [status EXCEPT ![entry[w]] = verdict[w]]
    /\ age' = [age EXCEPT ![entry[w]] = 0]
    /\ Rest(w)
    /\ UNCHANGED <<attempt_count, delay, handled>>

-----------------------------------------------------------------------------

Ageing == {e \in Entries : status[e] = "in_progress" /\ age[e] < MaxAge}

Tick ==
    /\ Ageing # {} \/ \E e \in Entries : delay[e] > 0
    /\ age' = [e \in Entries |-> IF e \in Ageing THEN age[e] + 1 ELSE age[e]]
    /\ delay' = [e \in Entries |-> IF delay[e] > 0 THEN delay[e] - 1 ELSE 0]
    /\ UNCHANGED <<status, attempt_count, workerVars, handled>>

Worker(w) ==
    \/ reset_stuck_events(w)
    \/ get_events_for_processing(w)
    \/ \E result \in {"ok", "err"} : handle_event(w, result)
    \/ complete_event(w)
    \/ fail_event(w)
    \/ UpdateRow(w)
    \/ CommitRow(w)

Next ==
    \/ \E e \in Entries : add_event(e)
    \/ \E e \in Entries, d \in 1..MaxDelay : add_scheduled_event(e, d)
    \/ \E w \in Workers : Worker(w) \/ abort(w)
    \/ Tick

Spec == Init /\ [][Next]_vars

\* The interval timer keeps firing after an error, so a worker always goes on
\* with its iteration; a crash may end any one poll but not every one.
Fairness ==
    /\ WF_vars(Tick)
    /\ \A w \in Workers : WF_vars(Worker(w)) /\ SF_vars(get_events_for_processing(w))

FairSpec == Spec /\ Fairness

-----------------------------------------------------------------------------
(* An attempt overruns when its event is taken for stuck while the worker  *)
(* is still at it.  Nothing in the code prevents that: no handler has a    *)
(* deadline.  PromptSpec is the specification without overruns.            *)

Busy(w) == pc[w] \in {"handling", "reporting", "updating", "committing"}

Prompt == \A w \in Workers : Busy(w) => age[entry[w]] <= StuckThreshold

PromptSpec == Init /\ [][Next /\ Prompt']_vars

-----------------------------------------------------------------------------
(* Properties                                                              *)

TypeOK ==
    /\ status \in [Entries -> Statuses]
    /\ attempt_count \in [Entries -> Nat]
    /\ age \in [Entries -> 0..MaxAge]
    /\ delay \in [Entries -> 0..MaxDelay]
    /\ pc \in [Workers -> Steps]
    /\ entry \in [Workers -> Entries \cup {NoEntry}]
    /\ verdict \in [Workers -> Verdicts]
    /\ handled \in SUBSET Entries

\* reset_stuck_events and fail_event both decide "failed" or "pending" from
\* attempt_count, but fail_event writes what it decided before other workers
\* moved on.  However the workers interleave, an event is started at most once
\* more for every other worker that can hold such an outdated decision.
AttemptsBounded ==
    \A e \in Entries : attempt_count[e] <= MaxAttempts + Cardinality(Workers) - 1

\* reset_stuck_events and fail_event: an event is given up only after it was
\* started max_processing_attempts times, even when the decision is stale.
FailedOnlyWhenExhausted ==
    \A e \in Entries : status[e] = "failed" => attempt_count[e] >= MaxAttempts

\* complete_event: an event is completed only if a run of its handler returned
\* Ok, although the row that is completed may belong to another worker's run.
CompletedOnlyIfHandled ==
    \A e \in Entries : status[e] = "completed" => e \in handled

\* get_events_for_processing: an event scheduled for later has not been started.
NotStartedEarly ==
    \A e \in Entries : delay[e] > 0 => attempt_count[e] = 0 /\ e \notin handled

\* What a row says of its past is true, also when a worker wrote it that no
\* longer owned the event: it was given up after all its attempts, completed
\* after its handler, and not started before its time.
RowsAreHonest == FailedOnlyWhenExhausted /\ CompletedOnlyIfHandled /\ NotStartedEarly

\* "Cannot change status from completed to ..." (event_store.rs:198, :246): an
\* event that complete_event or fail_event settled stays settled.
SettledIsFinal ==
    [][\A e \in Entries : status[e] \in Settled => status'[e] = status[e]]_vars

\* FOR UPDATE SKIP LOCKED and the attempt that moves the row to in_progress:
\* two workers never run the handler of the same event at the same time.
ExclusiveProcessing ==
    \A v, w \in Workers : Busy(v) /\ Busy(w) /\ entry[v] = entry[w] => v = w

\* The polling loop with its resets: an added event is settled in the end, and
\* stays settled from some point on, whatever crashes and overruns happen.
EventuallySettled ==
    \A e \in Entries : status[e] = "pending" ~> [](status[e] \in Settled)

-----------------------------------------------------------------------------
(* The inductive invariants behind these properties.                       *)

\* What a worker carries from one of its steps to the next.
WorkerInv ==
    \A w \in Workers :
        /\ Busy(w) => entry[w] \in Entries /\ attempt_count[entry[w]] >= 1
        /\ pc[w] \in {"idle", "polling", "handling"} => verdict[w] = "none"
        /\ pc[w] = "reporting" => verdict[w] \in {"ok", "err"}
        /\ pc[w] \in {"updating", "committing"} =>
             /\ verdict[w] \in {"completed", "pending", "failed"}
             /\ verdict[w] = "failed" => attempt_count[entry[w]] >= MaxAttempts
        /\ Busy(w) /\ verdict[w] \in {"ok", "completed"} => entry[w] \in handled

\* What a row says of its past.
TableInv ==
    \A e \in Entries :
        /\ status[e] = "absent" => attempt_count[e] = 0
        /\ attempt_count[e] = 0 => e \notin handled
        /\ status[e] \notin {"absent", "pending"} => attempt_count[e] >= 1

Inv ==
    /\ TypeOK
    /\ WorkerInv
    /\ TableInv
    /\ FailedOnlyWhenExhausted
    /\ CompletedOnlyIfHandled
    /\ NotStartedEarly

\* Workers that decided to put e back before its last attempt was started.
PutBack(e) ==
    {w \in Workers : /\ pc[w] \in {"updating", "committing"}
                     /\ entry[w] = e
                     /\ verdict[w] = "pending"}

\* Once e has had its attempts, every further one uses up such a worker.
AttemptsInv ==
    \A e \in Entries :
        attempt_count[e] >= MaxAttempts =>
            attempt_count[e] + Cardinality(PutBack(e))
                + (IF status[e] = "pending" THEN 1 ELSE 0)
              <= MaxAttempts + Cardinality(Workers) - 1

\* Without overruns a busy worker owns its row, and what it is about to write
\* is still what the row calls for.
PromptInv ==
    /\ Prompt
    /\ ExclusiveProcessing
    /\ \A w \in Workers :
         /\ Busy(w) => status[entry[w]] = "in_progress"
         /\ pc[w] \in {"updating", "committing"} =>
              verdict[w] \in {"completed", AfterFailure(attempt_count[entry[w]])}

-----------------------------------------------------------------------------

\* The table and its workers implement the job queue.
Queue == INSTANCE JobQueue WITH
    Jobs <- Entries, state <- status, attempts <- attempt_count

\* Without overruns the polling workers, with their crashes, resets and retries,
\* do nothing a queue of exclusive, bounded attempts would not do.
ImplementsJobQueue == Queue!Spec

=============================================================================
