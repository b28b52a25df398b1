------------------------------ MODULE AutoTasks ------------------------------
(***************************************************************************)
(* Automatic tasks: the scheduler's tick and the manual trigger            *)
(* (server/app/services/auto_task_service.py, scheduler.py), the claim of  *)
(* a task by an expiring lease and the rows of its runs                    *)
(* (infrastructure/repositories/auto_task_repo.py), the detached worker    *)
(* that executes one run, its lease renewal, its three endings and the     *)
(* reset of stuck tasks at startup (infrastructure/schema.py).             *)
(*                                                                         *)
(* Times are abstracted to what they are compared with: a lease is live or *)
(* expired, a next_run_at is in the future or due.  A worker stands for    *)
(* one claim attempt and its lease token; its run row is runRow[w].        *)
(***************************************************************************)
EXTENDS Naturals, FiniteSets

CONSTANTS
    AutoTask,       \* ids of tasks
    Worker,         \* claim attempts, numbered; the number is the lease token
    MaxRuns,        \* _MAX_CONCURRENT_RUNS
    MaxRetries,     \* max_retries of every task
    MaxAutoFaults,  \* bound: database errors, crashes and expiring leases
    MaxEdits,       \* bound: edits of a task's trigger
    NoWorker,
    Other           \* token of a worker of another process on the same database

ASSUME AutoTaskAssumption ==
    /\ MaxRuns \in Nat \ {0}
    /\ {MaxRetries, MaxAutoFaults, MaxEdits} \subseteq Nat
    /\ Worker \subseteq Nat /\ NoWorker \notin Worker
    /\ Other \notin Worker \cup {NoWorker}

VARIABLES
    task,       \* task -> its row in auto_tasks
    runRow,     \* worker -> status of its row in auto_task_runs, or "none"
    worker,     \* worker -> what its coroutine holds
    reserved,   \* _RESERVED_SLOTS
    due,        \* what is left of the tick's list: tasks as it read them
    autoFaults,
    edits,
    abandoned   \* history: workers that died or whose bookkeeping met a database
                \* error ("gone"), or cancelled in a handler ("interrupted")

autoVars == <<task, runRow, worker, reserved, due, autoFaults, edits, abandoned>>

Triggers == {"manual", "interval"}

NoTask == [exists |-> FALSE, trigger |-> "manual", enabled |-> FALSE, status |-> "idle",
           lease |-> "none", token |-> NoWorker, next |-> "null", retries |-> 0]

\* snap: trigger and retry_count as the caller read them before the claim.
NoJob == [stage |-> "free", task |-> "none", by |-> "none", snap |-> "manual", tries |-> 0,
          next |-> "null"]

\* The coroutine is detached: it is in _BACKGROUND_RUNS.
Detached == {"started", "engine", "replied", "scheduled", "written", "recorded",
             "failing", "failed", "lost", "marked"}
Background == {w \in Worker : worker[w].stage \in Detached}

AutoInit ==
    /\ task = [k \in AutoTask |-> NoTask]
    /\ runRow = [w \in Worker |-> "none"]
    /\ worker = [w \in Worker |-> NoJob]
    /\ reserved = 0
    /\ due = {}
    /\ autoFaults = 0
    /\ edits = 0
    /\ abandoned = [w \in Worker |-> "no"]

-----------------------------------------------------------------------------
(* auto_task_repo                                                          *)

\* _next_run: null for a manual trigger, else a time in the future.
NextRun(trigger) == IF trigger = "manual" THEN "null" ELSE "future"

Claimable(k) == task[k].exists /\ (task[k].status # "running" \/ task[k].lease # "live")

\* list_due_tasks
DueTasks == {k \in AutoTask : Claimable(k) /\ task[k].enabled /\ task[k].next = "due"}

Owns(w) ==
    LET k == worker[w].task IN
    task[k].exists /\ task[k].status = "running" /\ task[k].token = w

\* finish_task: only the lease this worker holds.
FinishTask(w, status, next, retries) ==
    task' = IF Owns(w)
            THEN [task EXCEPT ![worker[w].task] =
                    [@ EXCEPT !.status = status, !.next = next, !.retries = retries,
                              !.lease = "none", !.token = NoWorker]]
            ELSE task

\* Mutant: the outcome is written over whatever the row says.
FinishRunAnyway(w, status) ==
    runRow' = IF runRow[w] = "none" THEN runRow ELSE [runRow EXCEPT ![w] = status]

\* finish_run.  A gated write that finds the lease gone is repeated with
\* force, so either way the row changes exactly when it is still 'running'.
FinishRun(w, status) ==
    runRow' = IF runRow[w] = "running" THEN [runRow EXCEPT ![w] = status] ELSE runRow

\* _next_run_from_current_config
CurrentSchedule(w) ==
    LET k == worker[w].task IN
    NextRun(IF task[k].exists THEN task[k].trigger ELSE worker[w].snap)

WorkerAt(w, stage) == worker' = [worker EXCEPT ![w].stage = stage]

-----------------------------------------------------------------------------
(* CRUD, and time                                                          *)

CreateTask(k, trigger) ==
    /\ ~ task[k].exists
    /\ \A w \in Worker : worker[w].task # k
    /\ task' = [task EXCEPT ![k] = [NoTask EXCEPT !.exists = TRUE, !.enabled = TRUE,
                                        !.trigger = trigger, !.next = NextRun(trigger)]]
    /\ UNCHANGED <<runRow, worker, reserved, due, autoFaults, edits, abandoned>>

\* update_auto_task: a new trigger comes with a new next_run_at.
UpdateTask(k, trigger) ==
    /\ task[k].exists
    /\ edits < MaxEdits
    /\ edits' = edits + 1
    /\ task' = [task EXCEPT ![k].trigger = trigger, ![k].next = NextRun(trigger)]
    /\ UNCHANGED <<runRow, worker, reserved, due, autoFaults, abandoned>>

\* update_auto_task of enabled alone.
ToggleTask(k) ==
    /\ task[k].exists
    /\ edits < MaxEdits
    /\ edits' = edits + 1
    /\ task' = [task EXCEPT ![k].enabled = ~ @]
    /\ UNCHANGED <<runRow, worker, reserved, due, autoFaults, abandoned>>

\* delete_auto_task: the rows of its runs go with it.
DeleteTask(k) ==
    /\ task[k].exists
    /\ edits < MaxEdits
    /\ edits' = edits + 1
    /\ task' = [task EXCEPT ![k] = NoTask]
    /\ runRow' = [w \in Worker |-> IF worker[w].task = k THEN "none" ELSE runRow[w]]
    /\ UNCHANGED <<worker, reserved, due, autoFaults, abandoned>>

ComesDue(k) ==
    /\ task[k].next = "future"
    /\ task' = [task EXCEPT ![k].next = "due"]
    /\ UNCHANGED <<runRow, worker, reserved, due, autoFaults, edits, abandoned>>

\* Renewals come every minute and a lease lasts fifteen: one expires when the
\* renewals fail, the process stalls or its owner is gone.
LeaseExpires(k) ==
    /\ task[k].lease = "live"
    /\ \/ task[k].token \notin Background /\ UNCHANGED autoFaults
       \/ autoFaults < MaxAutoFaults /\ autoFaults' = autoFaults + 1
    /\ task' = [task EXCEPT ![k].lease = "expired"]
    /\ UNCHANGED <<runRow, worker, reserved, due, edits, abandoned>>

\* The database is shared: a worker of another process claims the task and
\* releases it as one of this process would.
OtherProcess(k) ==
    /\ \/ /\ Claimable(k)
          /\ task' = [task EXCEPT ![k] = [@ EXCEPT !.status = "running", !.lease = "live",
                                                  !.token = Other]]
       \/ /\ task[k].token = Other
          /\ task' = [task EXCEPT ![k] = [@ EXCEPT !.status = "idle", !.lease = "none",
                                 !.token = NoWorker, !.next = NextRun(task[k].trigger)]]
    /\ UNCHANGED <<runRow, worker, reserved, due, autoFaults, edits, abandoned>>

-----------------------------------------------------------------------------
(* Starting a run                                                          *)

\* A start takes the first number that is free: which one makes no difference.
IsNextWorker(w) ==
    /\ worker[w].stage = "free"
    /\ \A v \in Worker : v < w => worker[v].stage # "free"

\* Mutant: the slot is counted only when the run is detached.
ReserveNothing(w, k, by, snap, tries) ==
    /\ IsNextWorker(w)
    /\ Cardinality(Background) < MaxRuns
    /\ UNCHANGED reserved
    /\ worker' = [worker EXCEPT ![w] = [NoJob EXCEPT !.stage = "reserved", !.task = k,
                                             !.by = by, !.snap = snap, !.tries = tries]]

\* _reserve_run_slot, before the first await of the start.
Reserve(w, k, by, snap, tries) ==
    /\ IsNextWorker(w)
    /\ reserved + Cardinality(Background) < MaxRuns
    /\ reserved' = reserved + 1
    /\ worker' = [worker EXCEPT ![w] = [NoJob EXCEPT !.stage = "reserved", !.task = k,
                                             !.by = by, !.snap = snap, !.tries = tries]]

\* _release_run_slot
ReleaseSlot == reserved' = IF reserved = 0 THEN 0 ELSE reserved - 1

\* trigger_auto_task (a full server answers 429).
TriggerTask(w, k) ==
    /\ task[k].exists
    /\ Reserve(w, k, "trigger", task[k].trigger, task[k].retries)
    /\ UNCHANGED <<task, runRow, due, autoFaults, edits, abandoned>>

\* tick awaits one start after the other.
TickIsFree == \A w \in Worker : worker[w].stage \in {"reserved", "claimed"} => worker[w].by # "tick"

\* tick reads the due tasks once; the rows may change before it starts them.
TickRead ==
    /\ due = {} /\ TickIsFree
    /\ due' = {[task |-> k, snap |-> task[k].trigger, tries |-> task[k].retries] : k \in DueTasks}
    /\ due' # {}
    /\ UNCHANGED <<task, runRow, worker, reserved, autoFaults, edits, abandoned>>

TickStart(w) ==
    /\ TickIsFree
    /\ Cardinality(Background) < MaxRuns
    /\ \E d \in due :
          /\ Reserve(w, d.task, "tick", d.snap, d.tries)
          /\ due' = due \ {d}
    /\ UNCHANGED <<task, runRow, autoFaults, edits, abandoned>>

\* With every slot running the rest of the list waits for a later tick; with
\* the last slot reserved by a trigger one task does.
TickDefer ==
    /\ due # {} /\ TickIsFree
    /\ \/ Cardinality(Background) >= MaxRuns /\ due' = {}
       \/ /\ Cardinality(Background) < MaxRuns
          /\ reserved + Cardinality(Background) >= MaxRuns
          /\ \E d \in due : due' = due \ {d}
    /\ UNCHANGED <<task, runRow, worker, reserved, autoFaults, edits, abandoned>>

\* claim_running: one conditional UPDATE.
ClaimTask(w) ==
    LET k == worker[w].task IN
    /\ worker[w].stage = "reserved"
    /\ \/ /\ Claimable(k)
          /\ task' = [task EXCEPT ![k] = [@ EXCEPT !.status = "running", !.lease = "live",
                                                  !.token = w]]
          /\ WorkerAt(w, "claimed")
          /\ UNCHANGED reserved
       \/ /\ ~ Claimable(k)
          /\ worker' = [worker EXCEPT ![w] = NoJob]
          /\ ReleaseSlot
          /\ UNCHANGED task
    /\ UNCHANGED <<runRow, due, autoFaults, edits, abandoned>>

\* create_run, then the coroutine is detached and the slot given back.  A
\* deleted task fails the foreign key.
CreateRun(w) ==
    /\ worker[w].stage = "claimed"
    /\ ReleaseSlot
    /\ \/ /\ task[worker[w].task].exists
          /\ runRow' = [runRow EXCEPT ![w] = "running"]
          /\ WorkerAt(w, "started")
          /\ UNCHANGED <<autoFaults, abandoned>>
       \/ /\ ~ task[worker[w].task].exists
          /\ WorkerAt(w, "ended")
          /\ UNCHANGED <<runRow, autoFaults, abandoned>>
       \/ /\ autoFaults < MaxAutoFaults
          /\ autoFaults' = autoFaults + 1
          /\ WorkerAt(w, "ended")
          /\ abandoned' = [abandoned EXCEPT ![w] = "gone"]
          /\ UNCHANGED runRow
    /\ UNCHANGED <<task, due, edits>>

-----------------------------------------------------------------------------
(* _execute                                                                *)

\* The profile, the session and the instruction as its first message, then
\* the engine's turn and its reply; a failing step leads to the handler.  The
\* outcome is known to the coroutine (run_finalized) only after it is written.
Execute(w) ==
    /\ \/ /\ worker[w].stage = "started"
          /\ \E s \in {"engine", "failing"} : WorkerAt(w, s)
       \/ /\ worker[w].stage = "engine"
          /\ \E s \in {"replied", "failing"} : WorkerAt(w, s)
       \/ /\ worker[w].stage = "replied"
          /\ worker' = [worker EXCEPT ![w].stage = "scheduled", ![w].next = CurrentSchedule(w)]
       \/ worker[w].stage = "written" /\ WorkerAt(w, "recorded")
    /\ UNCHANGED <<task, runRow, reserved, due, autoFaults, edits, abandoned>>

RecordRun(w) ==
    /\ worker[w].stage = "scheduled"
    /\ FinishRun(w, "completed")
    /\ WorkerAt(w, "written")
    /\ UNCHANGED <<task, reserved, due, autoFaults, edits, abandoned>>

\* finish_task after a completed run, tried twice; a lease that cannot be
\* released is left to expire.
ReleaseTask(w) ==
    /\ worker[w].stage = "recorded"
    /\ WorkerAt(w, "ended")
    /\ \/ /\ FinishTask(w, "idle", worker[w].next, 0)
          /\ UNCHANGED autoFaults
       \/ /\ autoFaults < MaxAutoFaults
          /\ autoFaults' = autoFaults + 1
          /\ UNCHANGED task
    /\ UNCHANGED <<runRow, reserved, due, edits, abandoned>>

\* The failure handler: the run first, then the task, idle with a retry or
\* failed until its next slot.
RecordRunFailure(w) ==
    LET tries == worker[w].tries + 1
        retry == worker[w].snap # "manual" /\ tries <= MaxRetries
    IN
    /\ worker[w].stage = "failing"
    /\ FinishRun(w, "failed")
    /\ worker' = [worker EXCEPT ![w].stage = "failed",
                                ![w].tries = IF retry THEN tries ELSE 0,
                                ![w].next = IF retry THEN "future" ELSE CurrentSchedule(w)]
    /\ UNCHANGED <<task, reserved, due, autoFaults, edits, abandoned>>

ReleaseFailed(w) ==
    /\ worker[w].stage = "failed"
    /\ FinishTask(w, IF worker[w].tries > 0 THEN "idle" ELSE "failed",
                  worker[w].next, worker[w].tries)
    /\ WorkerAt(w, "ended")
    /\ UNCHANGED <<runRow, reserved, due, autoFaults, edits, abandoned>>

\* Cancellation of the coroutine.  Before the outcome is recorded it goes to
\* the CancelledError handler; afterwards it just ends; while the failure is
\* being handled it ends there and then.
CancelWorker(w) ==
    /\ \/ /\ worker[w].stage \in {"started", "engine", "replied", "scheduled", "written"}
          /\ WorkerAt(w, "lost")
          /\ UNCHANGED abandoned
       \/ /\ worker[w].stage = "recorded"
          /\ WorkerAt(w, "ended")
          /\ UNCHANGED abandoned
       \/ /\ worker[w].stage \in {"failing", "failed", "lost", "marked"}
          /\ WorkerAt(w, "ended")
          /\ abandoned' = [abandoned EXCEPT ![w] = "interrupted"]
    /\ UNCHANGED <<task, runRow, reserved, due, edits>>

\* The CancelledError handler: the run is failed by force, then the lease is
\* released if it is still this worker's.
MarkLost(w) ==
    /\ worker[w].stage = "lost"
    /\ FinishRun(w, "failed")
    /\ WorkerAt(w, "marked")
    /\ UNCHANGED <<task, reserved, due, autoFaults, edits, abandoned>>

ReleaseLost(w) ==
    /\ worker[w].stage = "marked"
    /\ FinishTask(w, "idle", CurrentSchedule(w), 0)
    /\ WorkerAt(w, "ended")
    /\ UNCHANGED <<runRow, reserved, due, autoFaults, edits, abandoned>>

-----------------------------------------------------------------------------
(* _renew_lease_until_finished, shutdown and startup                       *)

\* renew_lease: a lease that expired but was not taken is live again.
RenewLease(w) ==
    /\ worker[w].stage \in Detached
    /\ Owns(w)
    /\ task[worker[w].task].lease = "expired"
    /\ task' = [task EXCEPT ![worker[w].task].lease = "live"]
    /\ UNCHANGED <<runRow, worker, reserved, due, autoFaults, edits, abandoned>>

\* renew_lease changes no row.
LeaseLost(w) == ~ Owns(w)

\* on_lost.  The renewal ends with its first on_lost, so a handler that has
\* already been reached this way is not cancelled again.
RenewalLost(w) ==
    /\ worker[w].stage \in Detached \ {"lost", "marked"}
    /\ LeaseLost(w)
    /\ CancelWorker(w)
    /\ UNCHANGED autoFaults

\* cancel_background_runs, or a renewal that failed _LEASE_RENEW_RETRIES times.
CancelHealthy(w) ==
    /\ worker[w].stage \in Detached
    /\ autoFaults < MaxAutoFaults
    /\ autoFaults' = autoFaults + 1
    /\ CancelWorker(w)

\* The process dies and comes back; _reset_stuck_auto_tasks settles the tasks
\* whose lease has expired, with every run of theirs that is still 'running'.
CrashAndStart ==
    LET stuck == {k \in AutoTask : task[k].status = "running" /\ task[k].lease # "live"}
        alive == {w \in Worker : worker[w].stage \notin {"free", "ended"}}
    IN
    /\ autoFaults < MaxAutoFaults
    /\ alive # {}
    /\ autoFaults' = autoFaults + 1
    /\ worker' = [w \in Worker |-> IF w \in alive THEN [worker[w] EXCEPT !.stage = "ended"]
                                                 ELSE worker[w]]
    /\ abandoned' = [w \in Worker |-> IF w \in alive THEN "gone" ELSE abandoned[w]]
    /\ reserved' = 0
    /\ due' = {}
    /\ task' = [k \in AutoTask |-> IF k \in stuck
                  THEN [task[k] EXCEPT !.status = "idle", !.lease = "none", !.token = NoWorker]
                  ELSE task[k]]
    /\ runRow' = [w \in Worker |-> IF runRow[w] = "running" /\ worker[w].task \in stuck
                                   THEN "failed" ELSE runRow[w]]
    /\ UNCHANGED edits

-----------------------------------------------------------------------------
WorkerStep(w) ==
    \/ ClaimTask(w) \/ CreateRun(w) \/ Execute(w) \/ RecordRun(w) \/ ReleaseTask(w)
    \/ RecordRunFailure(w) \/ ReleaseFailed(w) \/ MarkLost(w) \/ ReleaseLost(w)

AutoNext ==
    \/ \E k \in AutoTask, trigger \in Triggers : CreateTask(k, trigger) \/ UpdateTask(k, trigger)
    \/ \E k \in AutoTask : ToggleTask(k) \/ DeleteTask(k) \/ ComesDue(k) \/ LeaseExpires(k)
                          \/ OtherProcess(k)
    \/ TickRead \/ TickDefer
    \/ \E w \in Worker : TickStart(w) \/ \E k \in AutoTask : TriggerTask(w, k)
    \/ \E w \in Worker : WorkerStep(w) \/ RenewLease(w) \/ RenewalLost(w) \/ CancelHealthy(w)
    \/ CrashAndStart

\* The event loop runs: a renewal is made again and again, and the handlers of
\* a cancelled worker go on.  The engine's turn itself need not end.
AutoFairness ==
    \A w \in Worker :
        /\ WF_autoVars(RenewalLost(w))
        /\ WF_autoVars(MarkLost(w) \/ ReleaseLost(w))

AutoSpec == AutoInit /\ [][AutoNext]_autoVars /\ AutoFairness

-----------------------------------------------------------------------------
\* The outcome of a run is final (the WHERE status='running' of finish_run): a
\* cancellation, a second ending or the reset at startup never turns a
\* completed run into a failed one or back.
OutcomeIsFinal ==
    [][\A w \in Worker :
          runRow[w] \in {"completed", "failed"} => runRow'[w] \in {runRow[w], "none"}]_autoVars

\* Concurrent triggers and ticks never drive more than _MAX_CONCURRENT_RUNS
\* engine turns: the slot is reserved before the first await.
RunsAreCapped == reserved + Cardinality(Background) <= MaxRuns

\* A worker that has ended leaves no row 'running', however it ended: success,
\* failure, a lost lease or a shutdown; unless the process died, the database
\* failed or a cancellation hit the failure handler itself.
RowsAreSettled ==
    \A w \in Worker :
        worker[w].stage = "ended" /\ abandoned[w] = "no" => runRow[w] # "running"

\* At most one worker executes a task under its lease; one whose lease was
\* taken over (or whose task was deleted) is stopped by its renewal, even if
\* its engine turn would go on for ever.
StaleWorkerStops ==
    \A w \in Worker :
        (worker[w].stage \in Detached /\ ~ Owns(w)) ~> worker[w].stage = "ended"

\* auto_task_service.py, the CancelledError handler: a run row is marked failed
\* because "leaving it 'running' would make it a phantom row forever".
NoPhantomRow ==
    \A w \in Worker :
        worker[w].stage = "ended" /\ abandoned[w] # "gone" => runRow[w] # "running"

\* Every run is accounted for: a slot before its first await, and a row that
\* is settled when its worker has ended.
RunsAreAccounted == RunsAreCapped /\ RowsAreSettled

\* A run is decided once, by the worker that holds the lease: an outcome never
\* changes, and a worker that lost its lease stops.
RunsAreDecidedOnce == OutcomeIsFinal /\ StaleWorkerStops

=============================================================================
