---------------------------- MODULE RunLifecycle ----------------------------
(***************************************************************************)
(* One attempt of a run as the async generator that produces it            *)
(* (engine/execution/orchestration/lifecycle.py, run_stream.py): every     *)
(* await at which its task can be cancelled, every yield at which its      *)
(* consumer can close it, the finally block, and the event boundary whose  *)
(* writes run in worker threads.                                           *)
(*                                                                         *)
(* A cancelled await of boundary.record gives up its _serial lock.  The    *)
(* write itself is then dropped (its work item had not been dequeued), or  *)
(* goes on detached in its thread; under asyncio.shield it always goes on. *)
(* Only events that carry a status are told apart; approvals are the       *)
(* subject of ApprovalFlow.                                                *)
(***************************************************************************)
EXTENDS RunState, FiniteSets

CONSTANTS
    Kinds,          \* "normal", "ledger_failed": how the setup went
    CancelPoints,   \* awaits at which a cancellation may arrive
    MaxCancels      \* bound: cancellations of the task

ASSUME LifecycleAssumption ==
    /\ Kinds \subseteq {"normal", "ledger_failed"}
    /\ MaxCancels \in Nat

VARIABLES
    pc,         \* where the generator is
    kind,       \* which generator it is
    status,     \* saved run status
    outcome,    \* terminal_status
    drained,    \* the agent stream was consumed to its end
    prepared,   \* state_dir is known
    raising,    \* what is propagating: "nothing", "exit" or "cancel"
    caught,     \* the finally block's local "cancellation"
    detached,   \* boundary writes that go on without their awaiter
    finishes,   \* RUN_FINISHED events projected so far
    cleaned,    \* services.close was run, ledger and approvals released
    hit         \* history: the awaits at which the task was cancelled

vars == <<pc, kind, status, outcome, drained, prepared, raising, caught, detached,
          finishes, cleaned, hit>>

\* Awaits, by what the code can do with a cancellation that arrives there.
RecordAwaits == {"rec_started", "rec_event", "rec_failure", "rec_finished",
                 "un_record", "fs_started", "fs_failed", "fs_finished"}
ShieldedAwaits == {"rec_cancelled", "rec_late"}
OtherAwaits == {"prepare", "stream", "learning", "hooks", "close", "un_close", "fs_close"}
Awaits == RecordAwaits \cup ShieldedAwaits \cup OtherAwaits
BodyAwaits == {"rec_started", "prepare", "stream", "rec_event", "rec_failure"}
Yields == {"y_started", "y_event", "y_failure", "y_finished", "fs_y_started",
           "fs_y_failed", "fs_y_finished"}

Init ==
    /\ kind \in Kinds
    /\ pc = "new"
    \* create() or resume(); a ledger that cannot be opened fails the run first
    /\ status \in IF kind = "normal" THEN {"queued", "running"} ELSE {"failed"}
    /\ outcome = "completed"
    /\ drained = FALSE
    /\ prepared = FALSE
    /\ raising = "nothing"
    /\ caught = FALSE
    /\ detached = {}
    /\ finishes = 0
    /\ cleaned = FALSE
    /\ hit = {}

-----------------------------------------------------------------------------
(* The boundary                                                            *)

\* project_execution_event: the status an event leaves behind.
After(st, target) == IF target \in AllowedTransitions[st] THEN target ELSE st

\* Mutant: a closed stream records terminal_status as it stands.
RecordingOutcomeOnClose(p) ==
    CASE p \in {"rec_started", "fs_started"} -> "running"
      [] p = "un_record" -> "cancelled"
      [] p = "fs_finished" -> "failed"
      [] p \in {"rec_finished", "rec_late", "rec_cancelled"} -> outcome
      [] OTHER -> "none"

\* The event whose record is awaited at each recording position.
Recording(p) ==
    CASE p \in {"rec_started", "fs_started"} -> "running"
      [] p \in {"rec_cancelled", "un_record"} -> "cancelled"
      [] p = "fs_finished" -> "failed"
      [] p \in {"rec_finished", "rec_late"} -> outcome
      [] OTHER -> "none"

Applied(write) ==
    /\ status' = IF write = "none" THEN status ELSE After(status, write)
    /\ finishes' = IF write \in TerminalStatus THEN finishes + 1 ELSE finishes

\* A detached write reaches the store, in whatever order the threads run.
LandDetached(write) ==
    /\ write \in detached
    /\ detached' = detached \ {write}
    /\ Applied(write)
    /\ UNCHANGED <<pc, kind, outcome, drained, prepared, raising, caught, cleaned, hit>>

\* boundary.record at p completes and the generator moves on.
Record(p, next) ==
    /\ pc = p
    /\ pc' = next
    /\ Applied(Recording(p))

-----------------------------------------------------------------------------
(* _run_events_with_runtime: the body                                      *)

\* A step that changes nothing but the position.
Goto(p, next) ==
    /\ pc = p
    /\ pc' = next
    /\ UNCHANGED <<kind, status, outcome, drained, prepared, raising, caught, detached,
                   finishes, cleaned, hit>>

Begin ==
    /\ kind = "normal"
    /\ Goto("new", "rec_started")

Started ==
    /\ Record("rec_started", "y_started")
    /\ UNCHANGED <<kind, outcome, drained, prepared, raising, caught, detached, cleaned, hit>>

Prepare ==
    /\ pc = "prepare"
    /\ pc' = "stream"
    /\ prepared' = TRUE
    /\ UNCHANGED <<kind, status, outcome, drained, raising, caught, detached, finishes,
                   cleaned, hit>>

\* run_agent_stream produces an event; INCOMPLETE and FAILED events, and the
\* first BLOCKED or AWAITING_INPUT, set the terminal status.
Event ==
    /\ pc = "stream"
    /\ pc' = "rec_event"
    /\ outcome' \in {outcome, "incomplete", "failed"}
    /\ UNCHANGED <<kind, status, drained, prepared, raising, caught, detached, finishes,
                   cleaned, hit>>

RecordEventDone ==
    /\ Record("rec_event", "y_event")
    /\ UNCHANGED <<kind, outcome, drained, prepared, raising, caught, detached, cleaned, hit>>

\* Without a state_dir the finally block has no learning to do.
AfterDraining == IF prepared THEN "learning" ELSE "hooks"

\* The stream ends.
Drain ==
    /\ pc = "stream"
    /\ pc' = AfterDraining
    /\ drained' = TRUE
    /\ UNCHANGED <<kind, status, outcome, prepared, raising, caught, detached, finishes,
                   cleaned, hit>>

\* An exception in preparation or execution: except Exception.
Fail ==
    /\ pc \in {"prepare", "stream"}
    /\ pc' = "rec_failure"
    /\ outcome' = "failed"
    /\ UNCHANGED <<kind, status, drained, prepared, raising, caught, detached, finishes,
                   cleaned, hit>>

\* The failure text, FAILED and DONE events, each recorded and yielded.
RecordFailure ==
    /\ Record("rec_failure", "y_failure")
    /\ UNCHANGED <<kind, outcome, drained, prepared, raising, caught, detached, cleaned, hit>>

FailureDelivered ==
    /\ pc = "y_failure"
    /\ \/ pc' = "rec_failure" /\ UNCHANGED drained
       \/ pc' = AfterDraining /\ drained' = TRUE
    /\ UNCHANGED <<kind, status, outcome, prepared, raising, caught, detached, finishes,
                   cleaned, hit>>

-----------------------------------------------------------------------------
(* The finally block and what follows it                                   *)

\* Runtime learning, bounded by its own timeout; skipped without a state_dir.
Learn ==
    /\ Goto("learning", "hooks")

RecordCancelled ==
    /\ Record("rec_cancelled", "hooks")
    /\ UNCHANGED <<kind, outcome, drained, prepared, raising, caught, detached, cleaned, hit>>

StopHooks == Goto("hooks", "close")

\* Where the finally block ends: re-raise, or record the terminal event.
Leaving(isCaught) ==
    IF isCaught THEN IF drained THEN "rec_late" ELSE "over"
    ELSE IF raising # "nothing" THEN "over" ELSE "rec_finished"

\* services.close, bind_execution_ledger(None), cancel_run.
Close ==
    /\ pc = "close"
    /\ cleaned' = TRUE
    /\ pc' = Leaving(caught)
    /\ UNCHANGED <<kind, status, outcome, drained, prepared, raising, caught, detached,
                   finishes, hit>>

\* The shielded terminal record of a run cancelled while it was finishing.
RecordLate ==
    /\ Record("rec_late", "over")
    /\ UNCHANGED <<kind, outcome, drained, prepared, raising, caught, detached, cleaned, hit>>

RecordFinished ==
    /\ Record("rec_finished", "y_finished")
    /\ UNCHANGED <<kind, outcome, drained, prepared, raising, caught, detached, cleaned, hit>>

-----------------------------------------------------------------------------
(* _failed_setup_stream                                                    *)

SetupBegin ==
    /\ kind = "ledger_failed"
    /\ Goto("new", "fs_started")

\* RUN_STARTED, then FAILED and DONE, then RUN_FINISHED.
SetupRecord ==
    /\ \/ Record("fs_started", "fs_y_started")
       \/ Record("fs_failed", "fs_y_failed")
       \/ Record("fs_finished", "fs_y_finished")
    /\ UNCHANGED <<kind, outcome, drained, prepared, raising, caught, detached, cleaned, hit>>

SetupClose ==
    /\ pc = "fs_close"
    /\ pc' = "over"
    /\ cleaned' = TRUE
    /\ UNCHANGED <<kind, status, outcome, drained, prepared, raising, caught, detached,
                   finishes, hit>>

-----------------------------------------------------------------------------
(* The consumer goes on, closes the stream, or has its task cancelled.     *)

Pull ==
    \/ Goto("y_started", "prepare")
    \/ Goto("y_event", "stream")
    \/ Goto("fs_y_started", "fs_failed")
    \/ Goto("fs_y_failed", "fs_finished")
    \/ Goto("fs_y_finished", "fs_close")
    \/ Goto("y_finished", "over")

\* aclose() before the first event: _cancel_unstarted_run, or close_unstarted.
CloseUnstarted ==
    Goto("new", IF kind = "normal" THEN "un_record" ELSE "fs_close")

UnstartedRecord ==
    /\ Record("un_record", "un_close")
    /\ UNCHANGED <<kind, outcome, drained, prepared, raising, caught, detached, cleaned, hit>>

UnstartedClose ==
    /\ pc = "un_close"
    /\ pc' = "over"
    /\ cleaned' = TRUE
    /\ UNCHANGED <<kind, status, outcome, drained, prepared, raising, caught, detached,
                   finishes, hit>>

\* aclose() at a yield: GeneratorExit runs the finally block.
CloseAtYield ==
    /\ pc \in Yields
    /\ raising' = "exit"
    /\ pc' = CASE pc \in {"y_started", "y_event", "y_failure"} -> "rec_cancelled"
               [] pc = "y_finished" -> "over"
               [] OTHER -> "fs_close"
    /\ UNCHANGED <<kind, status, outcome, drained, prepared, caught, detached, finishes,
                   cleaned, hit>>

\* Mutant: no record is shielded from cancellation.
AbandonedUnshielded(p) ==
    IF p \in ShieldedAwaits \cup RecordAwaits THEN {{}, {Recording(p)}} ELSE {{}}

\* What becomes of the write awaited at p when the await is cancelled.
Abandoned(p) ==
    IF p \in ShieldedAwaits THEN {{Recording(p)}}
    ELSE IF p \in RecordAwaits THEN {{}, {Recording(p)}}
    ELSE {{}}

\* task.cancel(): CancelledError is raised at the current await.
CancelTask ==
    /\ pc \in Awaits \cap CancelPoints
    /\ Cardinality(hit) < MaxCancels
    /\ hit' = hit \cup {pc}
    /\ \E left \in Abandoned(pc) : detached' = detached \cup (left \ {"none"})
    /\ raising' = IF pc \in BodyAwaits THEN "cancel" ELSE raising
    /\ caught' = (caught \/ pc \in {"learning", "rec_cancelled", "hooks", "close"})
    /\ cleaned' = (cleaned \/ pc \in {"close", "un_close", "fs_close"})
    /\ pc' = CASE pc \in BodyAwaits -> "rec_cancelled"
               [] pc \in {"learning", "rec_cancelled"} -> "hooks"
               [] pc = "hooks" -> "close"
               [] pc = "close" -> Leaving(TRUE)
               [] pc \in {"rec_late", "rec_finished", "un_close", "fs_close"} -> "over"
               [] pc = "un_record" -> "un_close"
               [] OTHER -> "fs_close"
    /\ UNCHANGED <<kind, status, outcome, drained, prepared, finishes>>

Step ==
    \/ Begin \/ Started \/ Prepare \/ RecordEventDone \/ Drain \/ Fail
    \/ Event
    \/ RecordFailure \/ FailureDelivered \/ Learn \/ RecordCancelled \/ StopHooks
    \/ Close \/ RecordLate \/ RecordFinished
    \/ SetupBegin \/ SetupRecord \/ SetupClose \/ Pull
    \/ UnstartedRecord \/ UnstartedClose

Next ==
    \/ Step
    \/ \E write \in detached : LandDetached(write)
    \/ CloseUnstarted \/ CloseAtYield \/ CancelTask

Spec == Init /\ [][Next]_vars

\* The event loop runs the generator on, threads complete their writes, and a
\* consumer either pulls the next event or closes the stream.
FairSpec ==
    /\ Spec
    /\ WF_vars(Step)
    /\ WF_vars(\E write \in detached : LandDetached(write))

-----------------------------------------------------------------------------
\* Positions, statuses and pending writes keep their shape.
TypeOK ==
    /\ pc \in {"new", "over"} \cup Awaits \cup Yields
    /\ kind \in Kinds
    /\ status \in Status
    /\ outcome \in {"completed", "incomplete", "failed"}
    /\ drained \in BOOLEAN /\ prepared \in BOOLEAN
    /\ raising \in {"nothing", "exit", "cancel"}
    /\ caught \in BOOLEAN
    /\ detached \subseteq Status
    /\ finishes \in Nat
    /\ cleaned \in BOOLEAN
    /\ hit \subseteq Awaits

\* A run reports its end at most once, whichever of the three code paths that
\* record RUN_FINISHED it takes, and with whatever writes are still detached.
OneTerminalRecord ==
    /\ finishes <= 1
    /\ detached \cap TerminalStatus # {} => finishes = 0
    /\ \A v, w \in detached \cap TerminalStatus : v = w

\* When the consumer receives RUN_FINISHED the saved status already says so:
\* a client that polls or resumes right after it is not told "running".
AnnouncedIsSaved ==
    /\ pc = "y_finished" => status = outcome /\ detached = {}
    /\ pc = "fs_y_finished" => status = "failed"

\* Only a stream consumed to its end without INCOMPLETE or FAILED is saved as
\* completed, hence never resumed; a disconnect never looks like success.
CompletedMeansDrained ==
    status = "completed" => drained /\ outcome = "completed"

\* However it ends, the generator releases what it holds: services, the bound
\* ledger and the approvals still open (the inner finally).
CleanupBeforeEnd == pc = "over" => cleaned

\* Awaits of status-changing records that no asyncio.shield protects.
Unprotected == {"rec_started", "rec_finished", "un_record"}

\* An attempt that is over, with no write left, has a terminal status, so that
\* a later resume is not refused: whatever combination of disconnects and
\* cancellations ended it, as long as none hit one of the unshielded records
\* of _run_events_with_runtime.
ShieldedEndIsTerminal ==
    pc = "over" /\ detached = {} /\ kind = "normal" /\ hit \cap Unprotected = {} =>
        status \in TerminalStatus

\* The comment on the shielded record: a dropped transition would strand "the
\* run state at 'running', which makes every later resume 409 until restart".
\* An attempt that is over, with no write left, has a terminal status.
TerminalWhenOver ==
    pc = "over" /\ detached = {} => status \in TerminalStatus

\* A consumer that goes away does not keep the run alive: the generator ends
\* and the saved status becomes terminal.
AbandonedRunEnds ==
    raising # "nothing" /\ kind = "normal" ~>
        pc = "over" /\ (status \in TerminalStatus \/ hit \cap Unprotected # {})

\* The end of a run is recorded once and truly, wherever it was cancelled:
\* one terminal record, saved before it is announced, completed only if the
\* stream was drained, after the cleanup, and never lost under a shield.
EndIsRecorded ==
    /\ OneTerminalRecord
    /\ AnnouncedIsSaved
    /\ CompletedMeansDrained
    /\ CleanupBeforeEnd
    /\ ShieldedEndIsTerminal

=============================================================================
