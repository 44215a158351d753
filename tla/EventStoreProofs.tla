-------------------------- MODULE EventStoreProofs --------------------------
(* Theorems about EventStore, for every number of workers and entries, every *)
(* attempt limit and every stuck threshold.                                  *)
EXTENDS EventStore, FiniteSetTheorems, TLAPS

\* NoEntry is no row, and the limits are numbers.
LEMMA Constants ==
    /\ NoEntry \notin Entries
    /\ MaxAttempts \in Nat /\ MaxAttempts >= 1
    /\ StuckThreshold \in Nat
    /\ MaxEntries \in Nat
    /\ MaxDelay \in Nat
    /\ MaxAge \in Nat /\ MaxAge = StuckThreshold + 1
BY ConstantsAssumption DEF MaxAge

\* The verdict an unsuccessful attempt writes.
LEMMA AfterFailureType ==
    ASSUME NEW n \in Nat
    PROVE  /\ AfterFailure(n) \in {"pending", "failed"}
           /\ AfterFailure(n) = "failed" => n >= MaxAttempts
           /\ AfterFailure(n) = "pending" => n < MaxAttempts
BY Constants DEF AfterFailure

-----------------------------------------------------------------------------

\* The table starts empty and the workers idle.
LEMMA TypeInit == Init => TypeOK
BY Constants DEF Init, TypeOK, Statuses, Steps, Verdicts

\* Each action keeps every variable in its type; WorkerInv says that a busy
\* worker's entry is a row and its verdict a status, which the writes rely on.
LEMMA TypeNext == TypeOK /\ WorkerInv /\ [Next]_vars => TypeOK'
<1> SUFFICES ASSUME TypeOK, WorkerInv, [Next]_vars PROVE TypeOK'
  OBVIOUS
<1> USE Constants DEF TypeOK, Statuses, Steps, Verdicts
<1>1. ASSUME NEW e \in Entries, NEW d \in 0..MaxDelay, Insert(e, d) PROVE TypeOK'
  BY <1>1 DEF Insert, workerVars
<1>2. ASSUME NEW w \in Workers, reset_stuck_events(w) PROVE TypeOK'
  <2>1. \A e \in Entries : AfterFailure(attempt_count[e]) \in {"pending", "failed"}
    BY AfterFailureType
  <2> QED BY <1>2, <2>1 DEF reset_stuck_events
<1>3. ASSUME NEW w \in Workers, get_events_for_processing(w) PROVE TypeOK'
  BY <1>3 DEF get_events_for_processing, tableVars, Due
<1>4. ASSUME NEW w \in Workers, NEW r \in {"ok", "err"}, handle_event(w, r) PROVE TypeOK'
  BY <1>4 DEF handle_event, tableVars, WorkerInv, Busy
<1>5. ASSUME NEW w \in Workers, abort(w) PROVE TypeOK'
  BY <1>5 DEF abort, Rest, tableVars
<1>6. ASSUME NEW w \in Workers, complete_event(w) PROVE TypeOK'
  BY <1>6 DEF complete_event, SelectRow, Rest, tableVars
<1>7. ASSUME NEW w \in Workers, fail_event(w) PROVE TypeOK'
  <2>1. AfterFailure(attempt_count[entry[w]]) \in {"pending", "failed"}
    BY <1>7, AfterFailureType DEF fail_event, SelectRow, WorkerInv, Busy
  <2> QED BY <1>7, <2>1 DEF fail_event, SelectRow, Rest, tableVars
<1>8. ASSUME NEW w \in Workers, UpdateRow(w) PROVE TypeOK'
  BY <1>8 DEF UpdateRow, tableVars
<1>9. ASSUME NEW w \in Workers, CommitRow(w) PROVE TypeOK'
  BY <1>9 DEF CommitRow, Rest, WorkerInv, Busy
<1>10. CASE Tick
  BY <1>10 DEF Tick, Ageing, workerVars
<1>11. CASE UNCHANGED vars
  BY <1>11 DEF vars
<1> QED
  BY <1>1, <1>2, <1>3, <1>4, <1>5, <1>6, <1>7, <1>8, <1>9, <1>10, <1>11
     DEF Next, Worker, add_event, add_scheduled_event
-----------------------------------------------------------------------------

\* Nothing was started, handled or settled at first.
LEMMA InvInit == Init => Inv
<1> SUFFICES ASSUME Init PROVE Inv
  OBVIOUS
<1>1. TypeOK
  BY TypeInit
<1>2. WorkerInv /\ TableInv
  BY DEF Init, WorkerInv, TableInv, Busy
<1>3. FailedOnlyWhenExhausted /\ CompletedOnlyIfHandled /\ NotStartedEarly
  BY DEF Init, FailedOnlyWhenExhausted, CompletedOnlyIfHandled, NotStartedEarly
<1> QED BY <1>1, <1>2, <1>3 DEF Inv

\* The conjuncts of Inv besides TypeOK that a step has to keep.
StepInv == WorkerInv /\ TableInv /\ FailedOnlyWhenExhausted /\ CompletedOnlyIfHandled
             /\ NotStartedEarly

\* No step of a worker, of the clock or of a new event breaks Inv.
LEMMA InvNext == Inv /\ [Next]_vars => Inv'
<1> SUFFICES ASSUME Inv, [Next]_vars PROVE Inv'
  OBVIOUS
<1>t. TypeOK'
  BY TypeNext DEF Inv
<1> SUFFICES StepInv'
  BY <1>t DEF Inv, StepInv
<1> USE Constants DEF Inv, StepInv, TypeOK, WorkerInv, TableInv, FailedOnlyWhenExhausted,
      CompletedOnlyIfHandled, NotStartedEarly, Busy
<1>1. ASSUME NEW e \in Entries, NEW d \in 0..MaxDelay, Insert(e, d) PROVE StepInv'
  BY <1>1 DEF Insert, workerVars
<1>2. ASSUME NEW w \in Workers, reset_stuck_events(w) PROVE StepInv'
  <2>1. \A e \in Entries : /\ AfterFailure(attempt_count[e]) \in {"pending", "failed"}
                           /\ AfterFailure(attempt_count[e]) = "failed"
                                => attempt_count[e] >= MaxAttempts
    BY AfterFailureType
  <2>2. \A e \in Stuck \ Locked : attempt_count[e] >= 1
    BY DEF Stuck
  <2>3. TableInv' /\ FailedOnlyWhenExhausted' /\ CompletedOnlyIfHandled' /\ NotStartedEarly'
    BY <1>2, <2>1, <2>2, <1>t DEF reset_stuck_events
  <2>4. WorkerInv'
    BY <1>2 DEF reset_stuck_events
  <2> QED BY <2>3, <2>4
<1>3. ASSUME NEW w \in Workers, get_events_for_processing(w) PROVE StepInv'
  <2>1. CASE pc'[w] = "idle"
    BY <1>3, <2>1 DEF get_events_for_processing, tableVars
  <2>2. CASE pc'[w] # "idle"
    <3>1. PICK e \in Due \ Locked :
            /\ status' = [status EXCEPT ![e] = "in_progress"]
            /\ attempt_count' = [attempt_count EXCEPT ![e] = @ + 1]
            /\ pc' = [pc EXCEPT ![w] = "handling"]
            /\ entry' = [entry EXCEPT ![w] = e]
            /\ UNCHANGED <<delay, verdict, handled>>
      BY <1>3, <2>2 DEF get_events_for_processing
    <3>2. e \in Entries /\ delay[e] = 0
      BY <3>1 DEF Due
    <3>3. /\ \A f \in Entries : attempt_count'[f] >= attempt_count[f]
          /\ attempt_count'[e] >= 1
      BY <3>1, <3>2
    <3>4. verdict[w] = "none"
      BY <1>3 DEF get_events_for_processing
    <3>5. WorkerInv'
      <4> SUFFICES ASSUME NEW v \in Workers
                   PROVE  /\ Busy(v)' => entry'[v] \in Entries /\ attempt_count'[entry'[v]] >= 1
                          /\ pc'[v] \in {"idle", "polling", "handling"} => verdict'[v] = "none"
                          /\ pc'[v] = "reporting" => verdict'[v] \in {"ok", "err"}
                          /\ pc'[v] \in {"updating", "committing"} =>
                               /\ verdict'[v] \in {"completed", "pending", "failed"}
                               /\ verdict'[v] = "failed" => attempt_count'[entry'[v]] >= MaxAttempts
                          /\ Busy(v)' /\ verdict'[v] \in {"ok", "completed"} => entry'[v] \in handled'
        OBVIOUS
      <4>1. CASE v = w
        BY <3>1, <3>2, <3>3, <3>4, <4>1
      <4>2. CASE v # w
        BY <3>1, <3>2, <3>3, <4>2, <1>t
      <4> QED BY <4>1, <4>2
    <3>6. TableInv' /\ FailedOnlyWhenExhausted' /\ CompletedOnlyIfHandled' /\ NotStartedEarly'
      BY <3>1, <3>2, <3>3
    <3> QED BY <3>5, <3>6
  <2> QED BY <2>1, <2>2
<1>4. ASSUME NEW w \in Workers, NEW r \in {"ok", "err"}, handle_event(w, r) PROVE StepInv'
  BY <1>4 DEF handle_event, tableVars
<1>5. ASSUME NEW w \in Workers, abort(w) PROVE StepInv'
  BY <1>5 DEF abort, Rest, tableVars
<1>6. ASSUME NEW w \in Workers, complete_event(w) PROVE StepInv'
  BY <1>6 DEF complete_event, SelectRow, Rest, tableVars
<1>7. ASSUME NEW w \in Workers, fail_event(w) PROVE StepInv'
  <2>1. /\ AfterFailure(attempt_count[entry[w]]) \in {"pending", "failed"}
        /\ AfterFailure(attempt_count[entry[w]]) = "failed"
             => attempt_count[entry[w]] >= MaxAttempts
    BY <1>7, AfterFailureType DEF fail_event, SelectRow
  <2> QED BY <1>7, <2>1 DEF fail_event, SelectRow, Rest, tableVars
<1>8. ASSUME NEW w \in Workers, UpdateRow(w) PROVE StepInv'
  BY <1>8 DEF UpdateRow, tableVars
<1>9. ASSUME NEW w \in Workers, CommitRow(w) PROVE StepInv'
  BY <1>9 DEF CommitRow, Rest
<1>10. CASE Tick
  BY <1>10 DEF Tick, Ageing, workerVars
<1>11. CASE UNCHANGED vars
  BY <1>11 DEF vars
<1> QED
  BY <1>1, <1>2, <1>3, <1>4, <1>5, <1>6, <1>7, <1>8, <1>9, <1>10, <1>11
     DEF Next, Worker, add_event, add_scheduled_event

\* Every variable of the table and of the workers keeps its type, and an event
\* is completed, failed and started only as Inv says, in every execution.
THEOREM Safety == Spec => []Inv
BY InvInit, InvNext, PTL DEF Spec

-----------------------------------------------------------------------------
(* How often an event can be started                                       *)

\* AttemptsInv for one entry.
Allowance(e) ==
    attempt_count[e] >= MaxAttempts =>
        attempt_count[e] + Cardinality(PutBack(e)) + (IF status[e] = "pending" THEN 1 ELSE 0)
          <= MaxAttempts + Cardinality(Workers) - 1

\* Sets of workers are finite, and smaller sets have smaller cardinalities.
LEMMA WorkerSets ==
    ASSUME NEW A \in SUBSET Workers, NEW B \in SUBSET A
    PROVE  /\ Cardinality(A) \in Nat /\ Cardinality(B) \in Nat
           /\ Cardinality(B) <= Cardinality(A)
           /\ \A w \in A : w \notin B => Cardinality(B) <= Cardinality(A) - 1
<1>1. IsFiniteSet(A) /\ IsFiniteSet(B)
  BY ConstantsAssumption, FS_Subset
<1>2. Cardinality(A) \in Nat /\ Cardinality(B) \in Nat /\ Cardinality(B) <= Cardinality(A)
  BY <1>1, FS_CardinalityType, FS_Subset
<1>3. ASSUME NEW w \in A, w \notin B PROVE Cardinality(B) <= Cardinality(A) - 1
  <2>1. IsFiniteSet(A \ {w}) /\ Cardinality(A \ {w}) = Cardinality(A) - 1
    BY <1>1, FS_RemoveElement
  <2>2. B \subseteq A \ {w}
    BY <1>3
  <2> QED BY <2>1, <2>2, FS_Subset
<1> QED BY <1>2, <1>3

\* PutBack is a finite set of workers, so it can be counted.
LEMMA PutBackType ==
    ASSUME TypeOK, NEW e \in Entries
    PROVE  /\ PutBack(e) \in SUBSET Workers
           /\ Cardinality(PutBack(e)) \in Nat
           /\ Cardinality(Workers) \in Nat
<1>1. PutBack(e) \in SUBSET Workers
  BY DEF PutBack
<1>2. Workers \in SUBSET Workers
  OBVIOUS
<1> QED BY <1>1, <1>2, WorkerSets

\* A step that starts nothing, makes nothing pending and adds no outdated
\* decision about e keeps the allowance of e.
LEMMA AllowanceKept ==
    ASSUME TypeOK, TypeOK', NEW e \in Entries, Allowance(e),
           attempt_count'[e] = attempt_count[e],
           status'[e] = "pending" => status[e] = "pending",
           PutBack(e)' \subseteq PutBack(e)
    PROVE  Allowance(e)'
<1>1. /\ Cardinality(PutBack(e)) \in Nat
      /\ Cardinality(PutBack(e)') \in Nat
      /\ Cardinality(PutBack(e)') <= Cardinality(PutBack(e))
      /\ Cardinality(Workers) \in Nat
  BY PutBackType, WorkerSets
<1>2. attempt_count[e] \in Nat
  BY DEF TypeOK
<1>3. Cardinality(PutBack(e)') = Cardinality(PutBack(e))'
  OBVIOUS
<1> QED BY <1>1, <1>2, <1>3, Constants DEF Allowance

\* An entry that has attempts left needs no allowance.
LEMMA AllowanceUnused ==
    ASSUME NEW e \in Entries, TypeOK', attempt_count'[e] < MaxAttempts
    PROVE  Allowance(e)'
BY Constants DEF Allowance, TypeOK

\* A start past the limit uses up a worker that had decided to put the event back.
LEMMA AttemptsNext == Inv /\ Inv' /\ AttemptsInv /\ [Next]_vars => AttemptsInv'
<1> SUFFICES ASSUME Inv, Inv', AttemptsInv, [Next]_vars, NEW e \in Entries
             PROVE  Allowance(e)'
  BY DEF AttemptsInv, Allowance
<1>t. TypeOK /\ TypeOK' /\ WorkerInv /\ TableInv
  BY DEF Inv
<1>a. Allowance(e)
  BY DEF AttemptsInv, Allowance
<1>n. attempt_count \in [Entries -> Nat] /\ status \in [Entries -> Statuses]
      /\ pc \in [Workers -> Steps] /\ verdict \in [Workers -> Verdicts]
      /\ entry \in [Workers -> Entries \cup {NoEntry}]
  BY <1>t DEF TypeOK
<1>1. ASSUME NEW f \in Entries, NEW d \in 0..MaxDelay, Insert(f, d) PROVE Allowance(e)'
  <2>1. PutBack(e)' \subseteq PutBack(e) /\ attempt_count' = attempt_count
    BY <1>1 DEF Insert, PutBack, workerVars
  <2>2. CASE e = f
    BY <1>1, <2>1, <2>2, <1>t, AllowanceUnused, Constants DEF Insert, TableInv
  <2>3. CASE e # f
    BY <1>1, <2>1, <2>3, <1>t, <1>a, <1>n, AllowanceKept DEF Insert
  <2> QED BY <2>2, <2>3
<1>2. ASSUME NEW w \in Workers, reset_stuck_events(w) PROVE Allowance(e)'
  <2>1. PutBack(e)' \subseteq PutBack(e) /\ attempt_count' = attempt_count
    BY <1>2, <1>n DEF reset_stuck_events, PutBack
  <2>2. CASE attempt_count[e] < MaxAttempts
    BY <2>1, <2>2, <1>t, AllowanceUnused
  <2>3. CASE attempt_count[e] >= MaxAttempts
    <3>1. AfterFailure(attempt_count[e]) = "failed"
      BY <2>3 DEF AfterFailure
    <3>2. status'[e] \in {status[e], "failed"}
      BY <1>2, <3>1 DEF reset_stuck_events
    <3> QED BY <2>1, <3>2, <1>t, <1>a, AllowanceKept
  <2> QED BY <2>2, <2>3, <1>n, Constants
<1>3. ASSUME NEW w \in Workers, get_events_for_processing(w) PROVE Allowance(e)'
  <2>1. w \notin PutBack(e) /\ w \notin PutBack(e)' /\ PutBack(e)' \subseteq PutBack(e)
    BY <1>3, <1>n DEF get_events_for_processing, PutBack
  <2>2. CASE attempt_count'[e] = attempt_count[e]
    BY <1>3, <2>1, <2>2, <1>t, <1>a, <1>n, AllowanceKept
       DEF get_events_for_processing, tableVars, Due
  <2>3. CASE attempt_count'[e] # attempt_count[e]
    <3>1. /\ status[e] = "pending" /\ status'[e] = "in_progress"
          /\ attempt_count'[e] = attempt_count[e] + 1
      BY <1>3, <2>3, <1>n DEF get_events_for_processing, tableVars, Due
    <3>2. /\ Cardinality(PutBack(e)') \in Nat
          /\ Cardinality(PutBack(e)) \in Nat
          /\ Cardinality(PutBack(e)') <= Cardinality(PutBack(e))
          /\ Cardinality(Workers) \in Nat
      BY <2>1, <1>t, PutBackType, WorkerSets
    <3>3. Cardinality(PutBack(e)') <= Cardinality(Workers) - 1
      <4>1. PutBack(e)' \in SUBSET Workers
        BY DEF PutBack
      <4>2. Workers \in SUBSET Workers
        OBVIOUS
      <4> QED BY <4>1, <4>2, <2>1, WorkerSets
    <3>4. Cardinality(PutBack(e)') = Cardinality(PutBack(e))'
      OBVIOUS
    <3> QED BY <3>1, <3>2, <3>3, <3>4, <1>a, <1>n, Constants DEF Allowance
  <2> QED BY <2>2, <2>3
<1>4. ASSUME NEW w \in Workers, NEW r \in {"ok", "err"}, handle_event(w, r) PROVE Allowance(e)'
  <2>1. PutBack(e)' \subseteq PutBack(e)
    BY <1>4, <1>n DEF handle_event, PutBack
  <2> QED BY <1>4, <2>1, <1>t, <1>a, AllowanceKept DEF handle_event, tableVars
<1>5. ASSUME NEW w \in Workers, abort(w) PROVE Allowance(e)'
  <2>1. PutBack(e)' \subseteq PutBack(e)
    BY <1>5, <1>n DEF abort, Rest, PutBack
  <2> QED BY <1>5, <2>1, <1>t, <1>a, AllowanceKept DEF abort, tableVars
<1>6. ASSUME NEW w \in Workers, complete_event(w) PROVE Allowance(e)'
  <2>1. PutBack(e)' \subseteq PutBack(e)
    BY <1>6, <1>n DEF complete_event, SelectRow, Rest, PutBack
  <2> QED BY <1>6, <2>1, <1>t, <1>a, AllowanceKept DEF complete_event, SelectRow, tableVars
<1>7. ASSUME NEW w \in Workers, fail_event(w) PROVE Allowance(e)'
  <2>1. attempt_count' = attempt_count /\ status' = status
    BY <1>7 DEF fail_event, SelectRow, tableVars
  <2>2. CASE attempt_count[e] < MaxAttempts
    BY <2>1, <2>2, <1>t, AllowanceUnused
  <2>3. CASE attempt_count[e] >= MaxAttempts
    <3>1. AfterFailure(attempt_count[e]) # "pending"
      BY <2>3 DEF AfterFailure
    <3>2. PutBack(e)' \subseteq PutBack(e)
      BY <1>7, <3>1, <1>n DEF fail_event, SelectRow, Rest, PutBack
    <3> QED BY <2>1, <3>2, <1>t, <1>a, AllowanceKept
  <2> QED BY <2>2, <2>3, <1>n, Constants
<1>8. ASSUME NEW w \in Workers, UpdateRow(w) PROVE Allowance(e)'
  <2>1. PutBack(e)' \subseteq PutBack(e)
    BY <1>8, <1>n DEF UpdateRow, PutBack
  <2> QED BY <1>8, <2>1, <1>t, <1>a, AllowanceKept DEF UpdateRow, tableVars
<1>9. ASSUME NEW w \in Workers, CommitRow(w) PROVE Allowance(e)'
  <2>1. /\ PutBack(e)' \subseteq PutBack(e)
        /\ w \notin PutBack(e)'
        /\ attempt_count' = attempt_count
    BY <1>9, <1>n DEF CommitRow, Rest, PutBack
  <2>2. CASE status'[e] = "pending" /\ status[e] # "pending"
    \* w wrote its outdated decision: it leaves PutBack(e) as e turns pending.
    <3>1. w \in PutBack(e)
      BY <1>9, <2>2, <1>n DEF CommitRow, PutBack
    <3>2. /\ Cardinality(PutBack(e)') \in Nat
          /\ Cardinality(PutBack(e)) \in Nat
          /\ Cardinality(PutBack(e)') <= Cardinality(PutBack(e)) - 1
          /\ Cardinality(Workers) \in Nat
      BY <2>1, <3>1, <1>t, PutBackType, WorkerSets
    <3>3. Cardinality(PutBack(e)') = Cardinality(PutBack(e))'
      OBVIOUS
    <3> QED BY <2>1, <2>2, <3>2, <3>3, <1>a, <1>n, Constants DEF Allowance
  <2>3. CASE status'[e] = "pending" => status[e] = "pending"
    BY <2>1, <2>3, <1>t, <1>a, AllowanceKept
  <2> QED BY <2>2, <2>3
<1>10. CASE Tick
  <2>1. PutBack(e)' \subseteq PutBack(e)
    BY <1>10 DEF Tick, workerVars, PutBack
  <2> QED BY <1>10, <2>1, <1>t, <1>a, AllowanceKept DEF Tick
<1>11. CASE UNCHANGED vars
  <2>1. PutBack(e)' \subseteq PutBack(e)
    BY <1>11 DEF vars, PutBack
  <2> QED BY <1>11, <2>1, <1>t, <1>a, AllowanceKept DEF vars
<1> QED
  BY <1>1, <1>2, <1>3, <1>4, <1>5, <1>6, <1>7, <1>8, <1>9, <1>10, <1>11, Constants
     DEF Next, Worker, add_event, add_scheduled_event

\* No event was started at first.
LEMMA AttemptsInit == Init => AttemptsInv
BY Constants DEF Init, AttemptsInv

\* At most every other worker holds an outdated decision.
LEMMA AttemptsImplied == Inv /\ AttemptsInv => AttemptsBounded
<1> SUFFICES ASSUME Inv, AttemptsInv, NEW e \in Entries
             PROVE  attempt_count[e] <= MaxAttempts + Cardinality(Workers) - 1
  BY DEF AttemptsBounded
<1>1. Cardinality(PutBack(e)) \in Nat
  BY PutBackType DEF Inv
<1>2. Cardinality(Workers) \in Nat /\ Cardinality(Workers) >= 1
  <2>1. PICK w : w \in Workers
    BY ConstantsAssumption
  <2>2. {} \in SUBSET Workers /\ Workers \in SUBSET Workers /\ w \notin {}
    OBVIOUS
  <2>3. Cardinality({}) = 0
    BY FS_EmptySet
  <2> QED BY <2>1, <2>2, <2>3, WorkerSets
<1>3. attempt_count[e] \in Nat
  BY DEF Inv, TypeOK
<1> QED BY <1>1, <1>2, <1>3, Constants DEF AttemptsInv

\* An event is started at most max_processing_attempts times plus once for
\* every other worker: fail_event's outdated decisions cost no more than that.
THEOREM AttemptsTheorem == Spec => []AttemptsBounded
<1>1. Init => Inv /\ AttemptsInv
  BY InvInit, AttemptsInit
<1>2. Inv /\ AttemptsInv /\ [Next]_vars => (Inv /\ AttemptsInv)'
  BY InvNext, AttemptsNext
<1>3. Inv /\ AttemptsInv => AttemptsBounded
  BY AttemptsImplied
<1> QED BY <1>1, <1>2, <1>3, PTL DEF Spec

-----------------------------------------------------------------------------
(* Without overruns                                                        *)

\* What PromptInv says of one worker, and of two.
Owner(w) ==
    /\ Busy(w) => status[entry[w]] = "in_progress" /\ age[entry[w]] <= StuckThreshold
    /\ pc[w] \in {"updating", "committing"} =>
         verdict[w] \in {"completed", AfterFailure(attempt_count[entry[w]])}
Alone(v, w) == Busy(v) /\ Busy(w) /\ entry[v] = entry[w] => v = w

\* What PromptInv says of one worker, apart.
LEMMA PromptParts ==
    PromptInv <=> /\ \A w \in Workers : Owner(w)
                  /\ \A v, w \in Workers : Alone(v, w)
BY DEF PromptInv, Prompt, ExclusiveProcessing, Owner, Alone

\* A step of w that leaves every other worker as it is, and every row that is
\* not its own as it is, keeps the other workers the owners of their rows.
LEMMA OthersUndisturbed ==
    ASSUME Inv, PromptInv, NEW w \in Workers, NEW v \in Workers, v # w,
           pc'[v] = pc[v], entry'[v] = entry[v], verdict'[v] = verdict[v],
           Busy(v) => /\ status'[entry[v]] = status[entry[v]]
                      /\ attempt_count'[entry[v]] = attempt_count[entry[v]]
                      /\ age'[entry[v]] = age[entry[v]]
    PROVE  Owner(v)'
<1>1. Owner(v)
  BY PromptParts
<1>2. pc[v] \in {"updating", "committing"} => Busy(v)
  BY DEF Busy
<1> QED BY <1>1, <1>2 DEF Owner, Busy, AfterFailure

\* Without overruns every busy worker keeps its row to itself.
LEMMA PromptNext == Inv /\ Inv' /\ PromptInv /\ [Next /\ Prompt']_vars => PromptInv'
<1> SUFFICES ASSUME Inv, Inv', PromptInv, [Next /\ Prompt']_vars
             PROVE  PromptInv'
  OBVIOUS
<1>n. /\ attempt_count \in [Entries -> Nat] /\ status \in [Entries -> Statuses]
      /\ pc \in [Workers -> Steps] /\ verdict \in [Workers -> Verdicts]
      /\ entry \in [Workers -> Entries \cup {NoEntry}]
      /\ age \in [Entries -> 0..MaxAge]
  BY DEF Inv, TypeOK
<1>w. \A w \in Workers : Busy(w) => entry[w] \in Entries
  BY DEF Inv, WorkerInv
<1>o. (\A w \in Workers : Owner(w)) /\ (\A v, w \in Workers : Alone(v, w))
  BY PromptParts
<1>g. SUFFICES (\A w \in Workers : Owner(w)') /\ (\A v, w \in Workers : Alone(v, w)')
  BY DEF PromptInv, Prompt, ExclusiveProcessing, Owner, Alone
<1>p. CASE UNCHANGED vars
  BY <1>p, <1>o DEF vars, Owner, Alone, Busy, AfterFailure
<1>q. CASE Next /\ Prompt'
  <2>1. ASSUME NEW f \in Entries, NEW d \in 0..MaxDelay, Insert(f, d)
        PROVE  (\A w \in Workers : Owner(w)') /\ (\A v, w \in Workers : Alone(v, w)')
    BY <2>1, <1>o, <1>n, <1>w DEF Insert, workerVars, Owner, Alone, Busy, AfterFailure
  <2>2. ASSUME NEW u \in Workers, reset_stuck_events(u)
        PROVE  (\A w \in Workers : Owner(w)') /\ (\A v, w \in Workers : Alone(v, w)')
    <3>1. \A w \in Workers : Busy(w) => entry[w] \notin Stuck
      BY <1>o, <1>n, <1>w, Constants DEF Stuck, Owner
    <3>2. \A w \in Workers : Busy(w)' => Busy(w) /\ pc'[w] = pc[w]
      BY <2>2, <1>n DEF reset_stuck_events, Busy
    <3> QED BY <2>2, <3>1, <3>2, <1>o, <1>n, <1>w
            DEF reset_stuck_events, Owner, Alone, Busy, AfterFailure
  <2>3. ASSUME NEW u \in Workers, get_events_for_processing(u)
        PROVE  (\A w \in Workers : Owner(w)') /\ (\A v, w \in Workers : Alone(v, w)')
    <3>1. CASE pc'[u] = "idle"
      BY <2>3, <3>1, <1>o, <1>n DEF get_events_for_processing, tableVars, Owner, Alone, Busy,
         AfterFailure
    <3>2. CASE pc'[u] # "idle"
      <4>1. PICK e \in Due \ Locked :
              /\ status' = [status EXCEPT ![e] = "in_progress"]
              /\ attempt_count' = [attempt_count EXCEPT ![e] = @ + 1]
              /\ age' = [age EXCEPT ![e] = 0]
              /\ pc' = [pc EXCEPT ![u] = "handling"]
              /\ entry' = [entry EXCEPT ![u] = e]
              /\ UNCHANGED verdict
        BY <2>3, <3>2, <1>n DEF get_events_for_processing
      <4>2. e \in Entries /\ status[e] = "pending"
        BY DEF Due
      <4>3. \A w \in Workers : Busy(w) => entry[w] # e
        BY <4>2, <1>o DEF Owner
      <4>4. Owner(u)'
        <5>1. pc'[u] = "handling" /\ entry'[u] = e
          BY <4>1, <1>n
        <5>2. status'[e] = "in_progress" /\ age'[e] = 0
          BY <4>1, <4>2, <1>n
        <5> QED BY <5>1, <5>2, Constants DEF Owner, Busy
      <4>5. ASSUME NEW v \in Workers, v # u PROVE Owner(v)'
        BY <4>1, <4>2, <4>3, <4>5, <1>n, <1>w, OthersUndisturbed
      <4>6. \A v, w \in Workers : Alone(v, w)'
        BY <4>1, <4>2, <4>3, <1>o, <1>n DEF Alone, Busy
      <4> QED BY <4>4, <4>5, <4>6
    <3> QED BY <3>1, <3>2
  <2>4. ASSUME NEW u \in Workers, NEW r \in {"ok", "err"}, handle_event(u, r)
        PROVE  (\A w \in Workers : Owner(w)') /\ (\A v, w \in Workers : Alone(v, w)')
    BY <2>4, <1>o, <1>n DEF handle_event, tableVars, Owner, Alone, Busy, AfterFailure
  <2>5. ASSUME NEW u \in Workers, abort(u)
        PROVE  (\A w \in Workers : Owner(w)') /\ (\A v, w \in Workers : Alone(v, w)')
    BY <2>5, <1>o, <1>n DEF abort, Rest, tableVars, Owner, Alone, Busy, AfterFailure
  <2>6. ASSUME NEW u \in Workers, complete_event(u)
        PROVE  (\A w \in Workers : Owner(w)') /\ (\A v, w \in Workers : Alone(v, w)')
    BY <2>6, <1>o, <1>n DEF complete_event, SelectRow, Rest, tableVars, Owner, Alone, Busy,
       AfterFailure
  <2>7. ASSUME NEW u \in Workers, fail_event(u)
        PROVE  (\A w \in Workers : Owner(w)') /\ (\A v, w \in Workers : Alone(v, w)')
    BY <2>7, <1>o, <1>n DEF fail_event, SelectRow, Rest, tableVars, Owner, Alone, Busy,
       AfterFailure
  <2>8. ASSUME NEW u \in Workers, UpdateRow(u)
        PROVE  (\A w \in Workers : Owner(w)') /\ (\A v, w \in Workers : Alone(v, w)')
    BY <2>8, <1>o, <1>n DEF UpdateRow, tableVars, Owner, Alone, Busy, AfterFailure
  <2>9. ASSUME NEW u \in Workers, CommitRow(u)
        PROVE  (\A w \in Workers : Owner(w)') /\ (\A v, w \in Workers : Alone(v, w)')
    <3>1. Busy(u) /\ ~Busy(u)'
      BY <2>9, <1>n DEF CommitRow, Rest, Busy
    <3>2. \A v \in Workers : v # u /\ Busy(v) => entry[v] # entry[u]
      BY <3>1, <1>o DEF Alone
    <3>3. Owner(u)'
      BY <2>9, <1>n DEF CommitRow, Rest, Owner, Busy
    <3>4. ASSUME NEW v \in Workers, v # u PROVE Owner(v)'
      BY <2>9, <3>2, <3>4, <1>n, <1>w, OthersUndisturbed DEF CommitRow, Rest
    <3>5. \A v, w \in Workers : Alone(v, w)'
      BY <2>9, <3>1, <1>o, <1>n DEF CommitRow, Rest, Alone, Busy
    <3> QED BY <3>3, <3>4, <3>5
  <2>10. CASE Tick
    \* Time passes, but not beyond the threshold of a busy worker's attempt.
    <3>1. \A w \in Workers : Busy(w)' => age'[entry'[w]] <= StuckThreshold
      BY <1>q DEF Prompt
    <3> QED BY <2>10, <3>1, <1>o, <1>n DEF Tick, workerVars, Owner, Alone, Busy, AfterFailure
  <2> QED
    BY <1>q, <2>1, <2>2, <2>3, <2>4, <2>5, <2>6, <2>7, <2>8, <2>9, <2>10, Constants
       DEF Next, Worker, add_event, add_scheduled_event
<1> QED BY <1>p, <1>q

\* No worker is busy at first.
LEMMA PromptInit == Init => PromptInv
BY DEF Init, PromptInv, Prompt, ExclusiveProcessing, Busy

\* Inv and PromptInv are preserved together.
LEMMA PromptStep == Inv /\ PromptInv /\ [Next /\ Prompt']_vars => (Inv /\ PromptInv)'
<1> SUFFICES ASSUME Inv, PromptInv, [Next /\ Prompt']_vars PROVE (Inv /\ PromptInv)'
  OBVIOUS
<1>1. [Next]_vars
  OBVIOUS
<1>2. Inv'
  BY <1>1, InvNext
<1> QED BY <1>2, PromptNext

\* Without overruns no two workers ever run the handler of the same event.
THEOREM ExclusiveTheorem == PromptSpec => []ExclusiveProcessing
<1>1. Init => Inv /\ PromptInv
  BY InvInit, PromptInit
<1>2. Inv /\ PromptInv => ExclusiveProcessing
  BY DEF PromptInv
<1> QED BY <1>1, <1>2, PromptStep, PTL DEF PromptSpec

-----------------------------------------------------------------------------
(* Refinement                                                              *)

\* The abstract step a worker's step is: which one, action by action.
LEMMA QueueStep ==
    ASSUME Inv, PromptInv, [Next]_vars
    PROVE  [Queue!Next]_(Queue!queueVars)
<1>n. /\ attempt_count \in [Entries -> Nat] /\ status \in [Entries -> Statuses]
      /\ pc \in [Workers -> Steps] /\ entry \in [Workers -> Entries \cup {NoEntry}]
  BY DEF Inv, TypeOK
<1>w. \A w \in Workers : Busy(w) => entry[w] \in Entries
  BY DEF Inv, WorkerInv
<1>o. \A w \in Workers : Owner(w)
  BY PromptParts
<1> USE DEF Queue!Next, Queue!queueVars
<1>1. ASSUME NEW e \in Entries, NEW d \in 0..MaxDelay, Insert(e, d) PROVE Queue!Next
  <2>1. Queue!Add(e)
    BY <1>1 DEF Insert, Queue!Add
  <2> QED BY <2>1
<1>2. ASSUME NEW w \in Workers, reset_stuck_events(w) PROVE Queue!Next
  <2>1. Queue!GiveBack(Stuck \ Locked)
    BY <1>2 DEF reset_stuck_events, Stuck, AfterFailure, Queue!GiveBack
  <2>2. Stuck \ Locked \in SUBSET Entries
    BY DEF Stuck
  <2> QED BY <2>1, <2>2
<1>3. ASSUME NEW w \in Workers, get_events_for_processing(w)
      PROVE  Queue!Next \/ UNCHANGED <<status, attempt_count>>
  <2>1. ASSUME NEW e \in Due,
               status' = [status EXCEPT ![e] = "in_progress"],
               attempt_count' = [attempt_count EXCEPT ![e] = @ + 1]
        PROVE  Queue!Next
    <3>1. e \in Entries /\ Queue!Start(e)
      BY <2>1 DEF Due, Queue!Start
    <3> QED BY <3>1
  <2> QED BY <1>3, <2>1 DEF get_events_for_processing, tableVars
<1>9. ASSUME NEW w \in Workers, CommitRow(w) PROVE Queue!Next
  <2>1. /\ Busy(w) /\ entry[w] \in Entries /\ status[entry[w]] = "in_progress"
        /\ verdict[w] \in {"completed", AfterFailure(attempt_count[entry[w]])}
        /\ status' = [status EXCEPT ![entry[w]] = verdict[w]]
        /\ attempt_count' = attempt_count
    BY <1>9, <1>o, <1>w DEF CommitRow, Owner, Busy
  <2>2. CASE verdict[w] = "completed"
    <3>1. Queue!Complete(entry[w])
      BY <2>1, <2>2 DEF Queue!Complete
    <3> QED BY <2>1, <3>1
  <2>3. CASE verdict[w] = AfterFailure(attempt_count[entry[w]])
    <3>1. Queue!GiveBack({entry[w]})
      BY <2>1, <2>3, <1>n DEF Queue!GiveBack, AfterFailure
    <3>2. {entry[w]} \in SUBSET Entries
      BY <2>1
    <3> QED BY <3>1, <3>2
  <2> QED BY <2>1, <2>2, <2>3
<1>10. ASSUME NEW w \in Workers,
              \/ \E r \in {"ok", "err"} : handle_event(w, r)
              \/ abort(w) \/ complete_event(w) \/ fail_event(w) \/ UpdateRow(w)
       PROVE  UNCHANGED <<status, attempt_count>>
  BY <1>10 DEF handle_event, abort, complete_event, fail_event, SelectRow, UpdateRow, tableVars
<1>11. CASE Tick
  BY <1>11 DEF Tick
<1>12. CASE UNCHANGED vars
  BY <1>12 DEF vars
<1> QED
  BY <1>1, <1>2, <1>3, <1>9, <1>10, <1>11, <1>12, Constants
     DEF Next, Worker, add_event, add_scheduled_event

\* Without overruns the event store implements the job queue: attempts are
\* exclusive and counted, and a settled event stays settled.
THEOREM RefinementTheorem == PromptSpec => ImplementsJobQueue
<1>1. Init => Inv /\ PromptInv
  BY InvInit, PromptInit
<1>2. Init => Queue!Init
  BY DEF Init, Queue!Init
<1>3. Inv /\ PromptInv /\ [Next /\ Prompt']_vars => [Queue!Next]_(Queue!queueVars)
  BY QueueStep
<1> QED BY <1>1, <1>2, <1>3, PromptStep, PTL DEF PromptSpec, ImplementsJobQueue, Queue!Spec

\* Without overruns complete_event and fail_event never change an event that
\* one of them has settled.
THEOREM SettledTheorem == PromptSpec => SettledIsFinal
<1>1. Init => Inv /\ PromptInv
  BY InvInit, PromptInit
<1>2. ASSUME Inv, [Queue!Next]_(Queue!queueVars), NEW e \in Entries, status[e] \in Settled
      PROVE  status'[e] = status[e]
  BY <1>2 DEF Queue!Next, Queue!queueVars, Queue!Add, Queue!Start, Queue!Complete,
     Queue!GiveBack, Settled, Inv, TypeOK
<1>3. Inv /\ PromptInv /\ [Next /\ Prompt']_vars
        => [\A e \in Entries : status[e] \in Settled => status'[e] = status[e]]_vars
  BY <1>2, QueueStep
<1> QED BY <1>1, <1>3, PromptStep, PTL DEF PromptSpec, SettledIsFinal

\* A row is failed, completed or started only as its past allows, for any number
\* of workers, stale decisions and crashes included.
THEOREM HonestTheorem == Spec => []RowsAreHonest
<1>1. Inv => RowsAreHonest
  BY DEF Inv, RowsAreHonest
<1> QED BY <1>1, Safety, PTL

\* The table and the workers keep their types.
THEOREM TypeTheorem == Spec => []TypeOK
<1>1. Inv => TypeOK
  BY DEF Inv
<1> QED BY <1>1, Safety, PTL

=============================================================================
