------------------------------ MODULE RunState ------------------------------
(***************************************************************************)
(* The RunState record of engine/execution/orchestration/run_state.py and  *)
(* the operations RunStateStore applies to one freshly read copy of it.    *)
(* Each operation is a pair: the condition under which the Python method   *)
(* does not raise, and the record it saves.  The modules that model the    *)
(* store, the approval flow and the run lifecycle share these operators.   *)
(*                                                                         *)
(* Free text (reason, error, timestamps, skill names) is left out; the     *)
(* current tool is reduced to whether one is shown as running.             *)
(***************************************************************************)
EXTENDS Naturals

CONSTANTS
    Approvals,      \* approval ids (uuid4().hex, never reused)
    NoApproval      \* approval_id = None

ASSUME ApprovalAssumption == NoApproval \notin Approvals

LiveStatus == {"queued", "running", "waiting_approval"}
ResumableStatus == {"incomplete", "failed", "cancelled"}
TerminalStatus == ResumableStatus \cup {"completed"}
Status == LiveStatus \cup TerminalStatus

\* _ALLOWED_TRANSITIONS
AllowedTransitions ==
    [queued           |-> {"running", "failed", "cancelled"},
     running          |-> {"running", "waiting_approval"} \cup TerminalStatus,
     waiting_approval |-> {"running", "failed", "cancelled"},
     completed        |-> {"completed"},
     incomplete       |-> {"incomplete", "running"},
     failed           |-> {"failed", "running"},
     cancelled        |-> {"cancelled", "running"}]

CanTransition(st, target) == target \in AllowedTransitions[st.status]

RunStates == [status   : Status,
              seq      : Nat,
              approval : Approvals \cup {NoApproval},
              tool     : BOOLEAN]

\* The record create() saves.
FreshState == [status |-> "queued", seq |-> 0, approval |-> NoApproval, tool |-> FALSE]

-----------------------------------------------------------------------------
(* RunState.record_event and RunState.transition                           *)

RecordEvent(st) == [st EXCEPT !.seq = @ + 1]

Moved(st, target) == [st EXCEPT !.status = target]

\* store.transition(run_id, target, event_type=...)
Transitioned(st, target) == Moved(RecordEvent(st), target)

-----------------------------------------------------------------------------
(* The operations of RunStateStore on the copy they read under the lock.   *)

CanResume(st) == st.status \in ResumableStatus
Resumed(st) == Transitioned(st, "running")

CanRequestApproval(st) == st.status = "running"

ApprovalRequested(st, a) ==
    [Transitioned(st, "waiting_approval") EXCEPT !.approval = a, !.tool = FALSE]

IsWaitingFor(st, a) == st.status = "waiting_approval" /\ st.approval = a
ApprovalResolved(st) == [Transitioned(st, "running") EXCEPT !.approval = NoApproval]

\* The per-file body of recover_interrupted(), for a run a dead process left live.
Interrupted(st) ==
    [Transitioned(st, "cancelled") EXCEPT !.approval = NoApproval, !.tool = FALSE]

ToolStarted(st) == [RecordEvent(st) EXCEPT !.tool = TRUE]
ToolEnded(st) == [RecordEvent(st) EXCEPT !.tool = FALSE]

=============================================================================
