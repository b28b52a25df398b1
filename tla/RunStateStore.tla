---------------------------- MODULE RunStateStore ----------------------------
(***************************************************************************)
(* RunStateStore of engine/execution/orchestration/run_state.py under its  *)
(* concurrent users: the worker threads of engine run attempts, the worker *)
(* threads of the server's approval handler, the retention sweep of        *)
(* engine/observability/summary_store.py, and process crashes followed by  *)
(* the startup recovery of server/app/main.py.                             *)
(*                                                                         *)
(* Every mutating method is a read-modify-write of one JSON file under the *)
(* per-root lock: Load takes the lock and reads, Store saves and releases  *)
(* it.  Each attempt has a store instance of its own, hence a buffer of    *)
(* deferred progress events of its own; the other users never defer.  What *)
(* an attempt asks for, and in which order, is the event stream that       *)
(* project_execution_event sees.                                           *)
(***************************************************************************)
EXTENDS RunState, Integers

CONSTANTS
    Runs,           \* run ids
    Attempts,       \* engine executions of a run (first try or resume)
    Handlers,       \* worker threads of RunStateService.resolve_approval
    Pruner,         \* the retention sweep
    NoRun,          \* an attempt that drives no run
    Absent,         \* no state file
    NoJob,          \* no store call in progress
    Unread,         \* store call has not read the file yet
    Free,           \* the per-root lock is free
    MaxEvents,      \* bound: events delivered per run
    MaxCrashes,     \* bound: process crashes
    MaxFaults       \* bound: failing writes

Procs == Attempts \cup Handlers \cup {Pruner}

\* One call of a store method: its name, its run, its argument.
Calls == [kind : {"create", "resume", "bind", "started", "event", "tool_start",
                  "tool_end", "request", "outcome", "finish", "resolve", "prune"},
          run  : Runs,
          arg  : Approvals \cup TerminalStatus \cup {NoApproval}]

ASSUME StoreAssumption ==
    /\ Pruner \notin Attempts \cup Handlers
    /\ Attempts \cap Handlers = {}
    /\ Free \notin Procs
    /\ NoRun \notin Runs
    /\ NoJob \notin Calls
    /\ Absent \notin RunStates
    /\ Unread \notin RunStates \cup {Absent}
    /\ MaxEvents \in Nat /\ MaxCrashes \in Nat /\ MaxFaults \in Nat

VARIABLES
    disk,       \* run -> the saved RunState, or Absent
    made,       \* run ids handed out so far
    lock,       \* _root_lock(root): its holder, or Free
    job,        \* proc -> the store call it is in, or NoJob
    copy,       \* proc -> the RunState that call read, or Unread
    drives,     \* attempt -> the run whose events it projects, or NoRun
    phase,      \* attempt -> "setup" before RUN_STARTED, then "streaming"
    asked,      \* attempt -> the approval it is blocked on, or NoApproval
    buffer,     \* attempt -> _deferred count of its store instance
    used,       \* approval ids handed out so far
    decided,    \* approvals the server has accepted a decision for
    up,         \* the server process is serving
    crashes,    \* crashes so far
    faults,     \* failed writes so far
    delivered,  \* history: run -> events delivered to the projection
    ahead       \* history: run -> decisions the server recorded first

vars == <<disk, made, lock, job, copy, drives, phase, asked, buffer, used,
          decided, up, crashes, faults, delivered, ahead>>

attemptVars == <<drives, phase, asked, used, made>>

-----------------------------------------------------------------------------
(* What a store method does with the state it has read.                    *)

Call(kind, r, arg) == [kind |-> kind, run |-> r, arg |-> arg]

\* The call returns without saving although nothing is wrong.
ReturnsEarly(c, st) ==
    /\ c.kind = "outcome"
    /\ st # Absent
    /\ ~ IsWaitingFor(st, c.arg)

\* The file is missing where the method needs it, or there where create does not.
FileRefuses(c, st) ==
    IF c.kind = "create" THEN st # Absent ELSE st = Absent /\ c.kind # "prune"

\* The status or the pending approval that was read forbids the call.
ResumeRefuses(c, st) == c.kind = "resume" /\ st # Absent /\ ~ CanResume(st)
TransitionRefuses(c, st) ==
    /\ st # Absent
    /\ \/ c.kind = "started" /\ ~ CanTransition(st, "running")
       \/ c.kind = "finish" /\ ~ CanTransition(st, c.arg)
ApprovalRefuses(c, st) ==
    /\ st # Absent
    /\ \/ c.kind = "request" /\ ~ CanRequestApproval(st)
       \/ c.kind = "resolve" /\ ~ IsWaitingFor(st, c.arg)
PruneRefuses(c, st) == c.kind = "prune" /\ st # Absent /\ st.status \in LiveStatus

\* Mutants: one of these checks is not repeated under the lock.
RefusesResumeUnchecked(c, st) ==
    FileRefuses(c, st) \/ TransitionRefuses(c, st) \/ ApprovalRefuses(c, st) \/ PruneRefuses(c, st)
RefusesApprovalUnchecked(c, st) ==
    FileRefuses(c, st) \/ ResumeRefuses(c, st) \/ TransitionRefuses(c, st) \/ PruneRefuses(c, st)

\* The call raises RunStateError (or, for prune, answers False).
Refuses(c, st) ==
    \/ FileRefuses(c, st)
    \/ ResumeRefuses(c, st)
    \/ TransitionRefuses(c, st)
    \/ ApprovalRefuses(c, st)
    \/ PruneRefuses(c, st)

\* What the call leaves in the file when it does neither.
Saved(c, st) ==
    CASE c.kind = "create"     -> FreshState
      [] c.kind = "resume"     -> Resumed(st)
      [] c.kind = "bind"       -> st
      [] c.kind = "started"    -> Transitioned(st, "running")
      [] c.kind = "event"      -> RecordEvent(st)
      [] c.kind = "tool_start" -> ToolStarted(st)
      [] c.kind = "tool_end"   -> ToolEnded(st)
      [] c.kind = "request"    -> ApprovalRequested(st, c.arg)
      [] c.kind = "outcome"    -> ApprovalResolved(st)
      [] c.kind = "finish"     -> Transitioned(st, c.arg)
      [] c.kind = "resolve"    -> ApprovalResolved(st)
      [] c.kind = "prune"      -> Absent

\* The call is a stream event, counted once in event_seq.
IsDelivery(c) ==
    c.kind \in {"resume", "started", "event", "tool_start", "tool_end",
                "request", "outcome", "finish"}

-----------------------------------------------------------------------------
Init ==
    /\ disk = [r \in Runs |-> Absent]
    /\ made = {}
    /\ lock = Free
    /\ job = [p \in Procs |-> NoJob]
    /\ copy = [p \in Procs |-> Unread]
    /\ drives = [p \in Attempts |-> NoRun]
    /\ phase = [p \in Attempts |-> "setup"]
    /\ asked = [p \in Attempts |-> NoApproval]
    /\ buffer = [p \in Attempts |-> 0]
    /\ used = {}
    /\ decided = {}
    /\ up = TRUE
    /\ crashes = 0
    /\ faults = 0
    /\ delivered = [r \in Runs |-> 0]
    /\ ahead = [r \in Runs |-> 0]

Enter(p, c) ==
    /\ up
    /\ job[p] = NoJob
    /\ job' = [job EXCEPT ![p] = c]
    /\ UNCHANGED <<disk, lock, copy, drives, buffer, up, crashes, faults,
                   delivered, ahead>>

Driving(p, r) == drives[p] = r /\ job[p] = NoJob /\ delivered[r] < MaxEvents

-----------------------------------------------------------------------------
(* What an engine attempt asks of the store.                               *)

\* run_stream_with_runtime: a fresh uuid4 run id and its QUEUED state.
BeginCreate(p, r) ==
    /\ drives[p] = NoRun
    /\ r \notin made
    /\ made' = made \cup {r}
    /\ Enter(p, Call("create", r, NoApproval))
    /\ UNCHANGED <<phase, asked, used, decided>>

\* resume_stream_with_runtime: validate_resume reads without the lock.
BeginResume(p, r) ==
    /\ drives[p] = NoRun
    /\ disk[r] # Absent
    /\ CanResume(disk[r])
    /\ delivered[r] < MaxEvents
    /\ Enter(p, Call("resume", r, NoApproval))
    /\ UNCHANGED <<made, phase, asked, used, decided>>

\* RUN_STARTED, then bind_identity, then any number of progress events.
BeginStarted(p, r) ==
    /\ Driving(p, r)
    /\ phase[p] = "setup"
    /\ phase' = [phase EXCEPT ![p] = "streaming"]
    /\ Enter(p, Call("started", r, NoApproval))
    /\ UNCHANGED <<made, asked, used, decided>>

BeginProgress(p, r, kind) ==
    /\ Driving(p, r)
    /\ phase[p] = "streaming"
    /\ asked[p] = NoApproval
    /\ kind \in {"bind", "event", "tool_start", "tool_end"}
    /\ Enter(p, Call(kind, r, NoApproval))
    /\ UNCHANGED <<made, phase, asked, used, decided>>

\* THINKING, TOKEN_USAGE, CONTEXT_USAGE: defer_event counts in memory only.
Defer(p, r) ==
    /\ up
    /\ Driving(p, r)
    /\ phase[p] = "streaming"
    /\ lock = Free
    /\ buffer' = [buffer EXCEPT ![p] = @ + 1]
    /\ delivered' = [delivered EXCEPT ![r] = @ + 1]
    /\ UNCHANGED <<disk, made, lock, job, copy, drives, phase, asked, used,
                   decided, up, crashes, faults, ahead>>

\* TOOL_CALL_RESULT with approval_required; the loop then blocks on the broker.
BeginRequest(p, r, a) ==
    /\ Driving(p, r)
    /\ phase[p] = "streaming"
    /\ asked[p] = NoApproval
    /\ a \in Approvals \ used
    /\ used' = used \cup {a}
    /\ asked' = [asked EXCEPT ![p] = a]
    /\ Enter(p, Call("request", r, a))
    /\ UNCHANGED <<made, phase, decided>>

\* TOOL_CALL_RESULT with approval_outcome granted, denied or timed_out.
BeginOutcome(p, r) ==
    /\ Driving(p, r)
    /\ asked[p] # NoApproval
    /\ Enter(p, Call("outcome", r, asked[p]))
    /\ UNCHANGED <<made, phase, asked, used, decided>>

\* RUN_FINISHED.  A stream that never started, or that is blocked on an
\* approval, only ends by failure or cancellation.
BeginFinish(p, r, status) ==
    /\ drives[p] = r
    /\ status \in TerminalStatus
    /\ phase[p] = "setup" \/ asked[p] # NoApproval => status \in {"failed", "cancelled"}
    /\ Enter(p, Call("finish", r, status))
    /\ UNCHANGED <<made, phase, asked, used, decided>>

-----------------------------------------------------------------------------
(* The server's approval handler and the retention sweep.                  *)

\* RunStateService.resolve_approval after the broker accepted the decision:
\* the broker accepts one decision, for an approval its loop still waits on.
BeginResolve(p, r, a) ==
    /\ disk[r] # Absent /\ disk[r].approval = a
    /\ a \in Approvals \ decided
    /\ \E q \in Attempts : asked[q] = a
    /\ decided' = decided \cup {a}
    /\ Enter(p, Call("resolve", r, a))
    /\ UNCHANGED attemptVars

BeginPrune(r) ==
    /\ r \in made
    /\ Enter(Pruner, Call("prune", r, NoApproval))
    /\ UNCHANGED <<attemptVars, decided>>

-----------------------------------------------------------------------------
(* The body every locked method shares.                                    *)

\* get(): the file with this instance's buffered progress folded in.
View(p, r) ==
    IF disk[r] # Absent /\ p \in Attempts
    THEN [disk[r] EXCEPT !.seq = @ + buffer[p]]
    ELSE disk[r]

\* with self._lock: state = self._require(run_id)
Load(p) ==
    /\ up
    /\ job[p] # NoJob
    /\ copy[p] = Unread
    /\ lock = Free
    /\ lock' = p
    /\ copy' = [copy EXCEPT ![p] = View(p, job[p].run)]
    /\ UNCHANGED <<disk, job, buffer, decided, up, crashes, faults, delivered,
                   ahead, attemptVars>>

Leave(p) ==
    /\ lock' = Free
    /\ job' = [job EXCEPT ![p] = NoJob]
    /\ copy' = [copy EXCEPT ![p] = Unread]

\* What the attempt does once its call has returned (ok) or raised.
Continue(p, ok) ==
    LET c == job[p]
    IN  /\ drives' =
             IF p \notin Attempts THEN drives
             ELSE CASE c.kind \in {"create", "resume"} /\ ok ->
                         [drives EXCEPT ![p] = c.run]
                    [] c.kind = "finish" -> [drives EXCEPT ![p] = NoRun]
                    [] OTHER -> drives
        /\ phase' = IF p \in Attempts /\ c.kind = "finish"
                    THEN [phase EXCEPT ![p] = "setup"] ELSE phase
        /\ asked' = IF p \in Attempts /\ c.kind \in {"outcome", "finish"}
                    THEN [asked EXCEPT ![p] = NoApproval] ELSE asked

\* save() drops the buffer it has just made durable; an attempt that ends, or
\* never starts, takes its store instance with it.
Popped(p, saving) ==
    IF p \in Attempts /\ (saving \/ job[p].kind = "finish")
    THEN [buffer EXCEPT ![p] = 0]
    ELSE buffer

Read(p) == up /\ job[p] # NoJob /\ copy[p] # Unread

\* os.replace put the new state in place of the old one.
Written(p) ==
    /\ disk' = [disk EXCEPT ![job[p].run] = Saved(job[p], copy[p])]
    /\ delivered' = IF IsDelivery(job[p])
                    THEN [delivered EXCEPT ![job[p].run] = @ + 1] ELSE delivered
    /\ ahead' = IF job[p].kind = "resolve"
                THEN [ahead EXCEPT ![job[p].run] = @ + 1] ELSE ahead

\* save() succeeds, then the lock is released.
Store(p) ==
    /\ Read(p)
    /\ ~ Refuses(job[p], copy[p])
    /\ ~ ReturnsEarly(job[p], copy[p])
    /\ buffer' = Popped(p, TRUE)
    /\ Written(p)
    /\ Continue(p, TRUE)
    /\ Leave(p)
    /\ UNCHANGED <<made, used, decided, up, crashes, faults>>

\* The method raises before saving; the projection swallows the error.
Refuse(p) ==
    /\ Read(p)
    /\ Refuses(job[p], copy[p])
    /\ buffer' = Popped(p, FALSE)
    /\ Continue(p, FALSE)
    /\ Leave(p)
    /\ UNCHANGED <<disk, made, used, decided, up, crashes, faults, delivered, ahead>>

\* resolve_approval_if_waiting finds the approval settled by the server.
ReturnEarly(p) ==
    /\ Read(p)
    /\ ~ Refuses(job[p], copy[p])
    /\ ReturnsEarly(job[p], copy[p])
    /\ delivered' = [delivered EXCEPT ![job[p].run] = @ + 1]
    /\ ahead' = [ahead EXCEPT ![job[p].run] = @ - 1]
    /\ Continue(p, TRUE)
    /\ Leave(p)
    /\ UNCHANGED <<disk, buffer, made, used, decided, up, crashes, faults>>

\* An OSError in save(): the buffer is already gone; the file is the old one,
\* or the new one when only the chmod after os.replace failed.
StoreFails(p) ==
    /\ Read(p)
    /\ ~ Refuses(job[p], copy[p])
    /\ ~ ReturnsEarly(job[p], copy[p])
    /\ job[p].kind # "prune"
    /\ faults < MaxFaults
    /\ faults' = faults + 1
    /\ buffer' = Popped(p, TRUE)
    /\ \/ UNCHANGED <<disk, delivered, ahead>>
       \/ Written(p)
    /\ Continue(p, FALSE)
    /\ Leave(p)
    /\ UNCHANGED <<made, used, decided, up, crashes>>

-----------------------------------------------------------------------------
(* Crash and startup.                                                      *)

\* The process dies: threads, locks, buffers and broker entries go with it.
Crash ==
    /\ up
    /\ crashes < MaxCrashes
    /\ crashes' = crashes + 1
    /\ up' = FALSE
    /\ lock' = Free
    /\ job' = [p \in Procs |-> NoJob]
    /\ copy' = [p \in Procs |-> Unread]
    /\ drives' = [p \in Attempts |-> NoRun]
    /\ phase' = [p \in Attempts |-> "setup"]
    /\ asked' = [p \in Attempts |-> NoApproval]
    /\ buffer' = [p \in Attempts |-> 0]
    /\ delivered' = [r \in Runs |->
                       IF disk[r] = Absent THEN delivered[r] ELSE disk[r].seq - ahead[r]]
    /\ UNCHANGED <<disk, made, used, decided, faults, ahead>>

\* recover_interrupted, one file at a time, before any request is served.
Recover(r) ==
    /\ ~ up
    /\ disk[r] # Absent
    /\ disk[r].status \in LiveStatus
    /\ disk' = [disk EXCEPT ![r] = Interrupted(disk[r])]
    /\ delivered' = [delivered EXCEPT ![r] = @ + 1]
    /\ UNCHANGED <<made, lock, job, copy, drives, phase, asked, buffer, used,
                   decided, up, crashes, faults, ahead>>

\* lifespan yields: every file was handled, or a failing save ended the sweep.
Boot ==
    /\ ~ up
    /\ up' = TRUE
    /\ IF \E r \in Runs : disk[r] # Absent /\ disk[r].status \in LiveStatus
       THEN faults < MaxFaults /\ faults' = faults + 1
       ELSE UNCHANGED faults
    /\ UNCHANGED <<disk, made, lock, job, copy, drives, phase, asked, buffer,
                   used, decided, crashes, delivered, ahead>>

-----------------------------------------------------------------------------
AttemptStep(p) ==
    \E r \in Runs :
        \/ BeginCreate(p, r)
        \/ BeginResume(p, r)
        \/ BeginStarted(p, r)
        \/ \E kind \in {"bind", "event", "tool_start", "tool_end"} : BeginProgress(p, r, kind)
        \/ Defer(p, r)
        \/ \E a \in Approvals : BeginRequest(p, r, a)
        \/ BeginOutcome(p, r)
        \/ \E status \in TerminalStatus : BeginFinish(p, r, status)

StoreStep(p) == Load(p) \/ Store(p) \/ Refuse(p) \/ ReturnEarly(p) \/ StoreFails(p)

Next ==
    \/ \E p \in Attempts : AttemptStep(p)
    \/ \E p \in Handlers, r \in Runs, a \in Approvals : BeginResolve(p, r, a)
    \/ \E r \in Runs : BeginPrune(r)
    \/ \E p \in Procs : StoreStep(p)
    \/ Crash
    \/ \E r \in Runs : Recover(r)
    \/ Boot

Spec == Init /\ [][Next]_vars

-----------------------------------------------------------------------------
Live(r) == disk[r] # Absent /\ disk[r].status \in LiveStatus

\* Every variable keeps the shape the store code gives it; a saved run that
\* waits for approval says which one (approval_id is set with the status).
TypeOK ==
    /\ disk \in [Runs -> RunStates \cup {Absent}]
    /\ made \subseteq Runs
    /\ lock \in Procs \cup {Free}
    /\ job \in [Procs -> Calls \cup {NoJob}]
    /\ copy \in [Procs -> RunStates \cup {Absent, Unread}]
    /\ drives \in [Attempts -> Runs \cup {NoRun}]
    /\ phase \in [Attempts -> {"setup", "streaming"}]
    /\ asked \in [Attempts -> Approvals \cup {NoApproval}]
    /\ buffer \in [Attempts -> Nat]
    /\ used \subseteq Approvals
    /\ decided \subseteq Approvals
    /\ up \in BOOLEAN
    /\ crashes \in 0..MaxCrashes
    /\ faults \in 0..MaxFaults
    /\ delivered \in [Runs -> Int]
    /\ ahead \in [Runs -> Int]

\* Two clients that resume the same run at once never both drive it: resume()
\* repeats validate_resume under the lock, so the second one is refused.
OneAttemptPerRun ==
    \A p, q \in Attempts : drives[p] # NoRun /\ drives[p] = drives[q] => p = q

\* The state file of a run an attempt is driving exists and is live: neither
\* the retention sweep nor a late server write can take it away (prune()).
DrivenRunIsLive ==
    \A p \in Attempts : drives[p] # NoRun => Live(drives[p])

\* No live status without somebody who will end it: while the server is up and
\* no write has failed, every queued, running or waiting run has its attempt.
\* A late approval write, a crash or a lost race never strands a run.
NoStrandedRun ==
    up /\ faults = 0 =>
        \A r \in Runs : Live(r) => \E p \in Attempts : drives[p] = r

\* defer_event: "Buffering rather than dropping keeps event_seq an exact count
\* of every delivered event": unless a write failed (save() empties the buffer
\* before it writes), the saved count plus the driving attempt's buffer is what
\* was delivered (plus the decisions the server recorded before the engine
\* projected their result, which is then not counted again).
EventSeqExact ==
    faults = 0 =>
        \A r \in Runs : disk[r] # Absent =>
            /\ \A p \in Attempts : drives[p] = r =>
                  disk[r].seq + buffer[p] = delivered[r] + ahead[r]
            /\ (\A p \in Attempts : drives[p] # r) =>
                  disk[r].seq = delivered[r] + ahead[r]

\* A run that waits for approval names the approval, so a decision of the user
\* can be matched; and unless a write was lost no tool is shown as running.
WaitingNamesItsApproval ==
    \A r \in Runs : disk[r] # Absent /\ disk[r].status = "waiting_approval" =>
        /\ disk[r].approval \in used
        /\ faults = 0 => ~ disk[r].tool

\* A run's saved status only changes along _ALLOWED_TRANSITIONS, whatever the
\* interleaving of engine, server, retention and recovery: in particular a
\* completed run is never run again (resume()), only pruned.
StatusFollowsTable ==
    [][\A r \in Runs : disk[r] # Absent /\ disk'[r] # Absent =>
          \/ disk'[r].status = disk[r].status
          \/ CanTransition(disk[r], disk'[r].status)]_vars

\* An attempt owns its run: no two attempts drive one run, and while one drives
\* it neither a late server write nor the retention sweep ends or removes it.
AttemptsAreSound == OneAttemptPerRun /\ DrivenRunIsLive

\* What recovery and a resume read is exact: no live run is left without an
\* attempt, event_seq counts every delivered event, and a waiting run names
\* the approval that would release it.
RecoveryIsExact == NoStrandedRun /\ EventSeqExact /\ WaitingNamesItsApproval

=============================================================================
