---------------------------- MODULE ApprovalFlow ----------------------------
(***************************************************************************)
(* One approval from the model's tool call to the user's answer and back:  *)
(*   - the ReAct loop that opens a request, waits and goes on              *)
(*     (engine/execution/react/react_loop.py),                             *)
(*   - ApprovalBroker (engine/safety/approval.py), the in-memory gate,     *)
(*   - the run state both sides write (engine/.../run_state.py),           *)
(*   - the HTTP handler of the decision                                    *)
(*     (server/app/services/run_state_service.py),                         *)
(*   - the end of a run, consumer disconnects and server restarts          *)
(*     (engine/execution/orchestration/lifecycle.py).                      *)
(* Broker calls run on the event loop and are atomic; each store call is   *)
(* one locked step (see RunStateStore) that a write fault may lose.        *)
(***************************************************************************)
EXTENDS RunState

CONSTANTS
    Runs,
    Handlers,       \* HTTP requests that carry a decision
    NoEntry,        \* the broker holds no entry
    NoRequest,      \* a handler that has not been called
    MaxRestarts,    \* bound: server restarts
    MaxFaults       \* bound: store writes that are lost

\* None is neither a pending approval nor a request.
ASSUME FlowAssumption ==
    /\ MaxRestarts \in Nat /\ MaxFaults \in Nat
    /\ NoEntry \notin [run : Runs, set : BOOLEAN, decision : BOOLEAN]
    /\ NoRequest \notin [run : Runs, approval : Approvals, yes : BOOLEAN]

VARIABLES
    store,      \* run -> saved RunState
    pending,    \* ApprovalBroker._pending: approval -> entry, or NoEntry
    loop,       \* run -> where its ReAct loop is
    cur,        \* run -> the approval the loop is dealing with
    used,       \* approval ids handed out
    ran,        \* approvals whose guarded call was executed
    timedOut,   \* approvals the loop reported as timed out
    hreq,       \* handler -> the decision it carries
    hstage,     \* handler -> how far it got
    hsaw,       \* handler -> state.approval_id it read
    restarts,
    faults

vars == <<store, pending, loop, cur, used, ran, timedOut, hreq, hstage, hsaw,
          restarts, faults>>
handlerVars == <<hreq, hstage, hsaw>>

Stages == {"off", "setup", "streaming", "opened", "asked", "waiting", "granted",
           "vetoed", "ran", "denied", "timed_out", "drained", "closing", "releasing"}

\* The loop is between broker.open and the event that reports the outcome.
Reporting == {"vetoed", "ran", "denied", "timed_out"}
InApproval == {"opened", "asked", "waiting", "granted"} \cup Reporting

Entry(r) == [run |-> r, set |-> FALSE, decision |-> FALSE]

Init ==
    /\ store = [r \in Runs |-> FreshState]
    /\ pending = [a \in Approvals |-> NoEntry]
    /\ loop = [r \in Runs |-> "setup"]
    /\ cur = [r \in Runs |-> NoApproval]
    /\ used = {}
    /\ ran = {}
    /\ timedOut = {}
    /\ hreq = [h \in Handlers |-> NoRequest]
    /\ hstage = [h \in Handlers |-> "idle"]
    /\ hsaw = [h \in Handlers |-> NoApproval]
    /\ restarts = 0
    /\ faults = 0

-----------------------------------------------------------------------------
(* project_execution_event: a store call that is best-effort.              *)

\* event_seq is the concern of RunStateStore and is not tracked here.
Uncounted(st) == [st EXCEPT !.seq = 0]

Project(r, accepted, new) ==
    \/ /\ store' = IF accepted THEN [store EXCEPT ![r] = Uncounted(new)] ELSE store
       /\ UNCHANGED faults
    \/ /\ accepted
       /\ faults < MaxFaults
       /\ faults' = faults + 1
       /\ UNCHANGED store

Goto(r, from, to) == loop[r] = from /\ loop' = [loop EXCEPT ![r] = to]

-----------------------------------------------------------------------------
(* The ReAct loop of run r.                                                *)

\* RUN_STARTED of this attempt.
Start(r) ==
    /\ Goto(r, "setup", "streaming")
    /\ Project(r, CanTransition(store[r], "running"), Transitioned(store[r], "running"))
    /\ UNCHANGED <<pending, cur, used, ran, timedOut, handlerVars, restarts>>

\* The policy asks for approval: broker.open with a fresh id.
Open(r, a) ==
    /\ Goto(r, "streaming", "opened")
    /\ a \in Approvals \ used
    /\ pending[a] = NoEntry
    /\ pending' = [pending EXCEPT ![a] = Entry(r)]
    /\ cur' = [cur EXCEPT ![r] = a]
    /\ used' = used \cup {a}
    /\ UNCHANGED <<store, ran, timedOut, handlerVars, restarts, faults>>

\* The approval_required event reaches the boundary before the consumer.
RecordRequest(r) ==
    /\ Goto(r, "opened", "asked")
    /\ Project(r, CanRequestApproval(store[r]), ApprovalRequested(store[r], cur[r]))
    /\ UNCHANGED <<pending, cur, used, ran, timedOut, handlerVars, restarts>>

\* The consumer took the event; the loop enters broker.wait.
Wait(r) ==
    /\ Goto(r, "asked", "waiting")
    /\ UNCHANGED <<store, pending, cur, used, ran, timedOut, handlerVars, restarts, faults>>

Pop(a) == pending' = [pending EXCEPT ![a] = NoEntry]

\* Mutant: any answer wakes the loop as a grant.
WakeAlwaysGranted(r) ==
    /\ loop[r] = "waiting"
    /\ pending[cur[r]].set
    /\ loop' = [loop EXCEPT ![r] = "granted"]
    /\ Pop(cur[r])
    /\ UNCHANGED <<store, cur, used, ran, timedOut, handlerVars, restarts, faults>>

\* The event is set: wait() returns decision is True.
Wake(r) ==
    /\ loop[r] = "waiting"
    /\ pending[cur[r]].set
    /\ loop' = [loop EXCEPT ![r] =
                  IF pending[cur[r]].decision THEN "granted" ELSE "denied"]
    /\ Pop(cur[r])
    /\ UNCHANGED <<store, cur, used, ran, timedOut, handlerVars, restarts, faults>>

\* wait_for expires.  Under Python 3.12 it wins over an event that was set but
\* whose waiter has not run yet: the timer cancels the task in the same pass.
Timeout(r) ==
    /\ Goto(r, "waiting", "timed_out")
    /\ Pop(cur[r])
    /\ timedOut' = timedOut \cup {cur[r]}
    /\ UNCHANGED <<store, cur, used, ran, handlerVars, restarts, faults>>

\* A pre-tool hook blocks the granted call.
Veto(r) ==
    /\ Goto(r, "granted", "vetoed")
    /\ UNCHANGED <<store, pending, cur, used, ran, timedOut, handlerVars, restarts, faults>>

\* authorize_execution and tool_registry.execute of the suspended call.
Execute(r) ==
    /\ Goto(r, "granted", "ran")
    /\ ran' = ran \cup {cur[r]}
    /\ UNCHANGED <<store, pending, cur, used, timedOut, handlerVars, restarts, faults>>

\* Mutant: a veto is reported without the approval it settles.
ReportForgetsVeto(r) ==
    /\ loop[r] \in Reporting
    /\ loop' = [loop EXCEPT ![r] = "streaming"]
    /\ Project(r, loop[r] # "vetoed" /\ IsWaitingFor(store[r], cur[r]), ApprovalResolved(store[r]))
    /\ cur' = [cur EXCEPT ![r] = NoApproval]
    /\ UNCHANGED <<pending, used, ran, timedOut, handlerVars, restarts>>

\* TOOL_CALL_RESULT with the approval_outcome: resolve_approval_if_waiting.
Report(r) ==
    /\ loop[r] \in Reporting
    /\ loop' = [loop EXCEPT ![r] = "streaming"]
    /\ Project(r, IsWaitingFor(store[r], cur[r]), ApprovalResolved(store[r]))
    /\ cur' = [cur EXCEPT ![r] = NoApproval]
    /\ UNCHANGED <<pending, used, ran, timedOut, handlerVars, restarts>>

-----------------------------------------------------------------------------
(* The end of a run.                                                       *)

\* APPROVAL_BROKER.cancel_run
CancelRun(r) ==
    pending' = [a \in Approvals |->
                  IF pending[a] # NoEntry /\ pending[a].run = r THEN NoEntry ELSE pending[a]]

\* The stream is drained: cancel_run in the finally block.
Drain(r) ==
    /\ Goto(r, "streaming", "drained")
    /\ CancelRun(r)
    /\ UNCHANGED <<store, cur, used, ran, timedOut, handlerVars, restarts, faults>>

\* ... then the terminal event.
Finish(r, status) ==
    /\ Goto(r, "drained", "off")
    /\ status \in TerminalStatus \ {"cancelled"}
    /\ Project(r, CanTransition(store[r], status), Transitioned(store[r], status))
    /\ UNCHANGED <<pending, cur, used, ran, timedOut, handlerVars, restarts>>

\* The consumer disconnects; a loop inside wait() takes its entry with it.
Disconnect(r) ==
    /\ loop[r] \in {"setup", "streaming"} \cup InApproval
    /\ loop' = [loop EXCEPT ![r] = "closing"]
    /\ IF loop[r] = "waiting" THEN Pop(cur[r]) ELSE UNCHANGED pending
    /\ UNCHANGED <<store, cur, used, ran, timedOut, handlerVars, restarts, faults>>

\* The shielded CANCELLED record of the finally block ...
RecordCancelled(r) ==
    /\ Goto(r, "closing", "releasing")
    /\ Project(r, CanTransition(store[r], "cancelled"), Transitioned(store[r], "cancelled"))
    /\ UNCHANGED <<pending, cur, used, ran, timedOut, handlerVars, restarts>>

\* ... and, after the stop hooks and services.close, cancel_run.
Release(r) ==
    /\ Goto(r, "releasing", "off")
    /\ CancelRun(r)
    /\ cur' = [cur EXCEPT ![r] = NoApproval]
    /\ UNCHANGED <<store, used, ran, timedOut, handlerVars, restarts, faults>>

\* resume_stream_with_runtime on a recoverable run.
Resume(r) ==
    /\ Goto(r, "off", "setup")
    /\ CanResume(store[r])
    /\ store' = [store EXCEPT ![r] = Uncounted(Resumed(store[r]))]
    /\ UNCHANGED <<pending, cur, used, ran, timedOut, handlerVars, restarts, faults>>

-----------------------------------------------------------------------------
(* RunStateService.resolve_approval in handler h.                          *)

\* The client knows ids from the stream; it may send an old one, or to the
\* wrong run.  The handler reads the run state in a worker thread.
Submit(h, r, a, yes) ==
    /\ hstage[h] = "idle"
    /\ a \in used
    /\ hreq' = [hreq EXCEPT ![h] = [run |-> r, approval |-> a, yes |-> yes]]
    /\ hsaw' = [hsaw EXCEPT ![h] = store[r].approval]
    /\ hstage' = [hstage EXCEPT ![h] = "read"]
    /\ UNCHANGED <<store, pending, loop, cur, used, ran, timedOut, restarts, faults>>

\* Mutant: an entry that was already answered can be answered again.
IsPendingAnswered(r, a) == pending[a] # NoEntry /\ pending[a].run = r

\* ApprovalBroker.is_pending
IsPending(r, a) == pending[a] # NoEntry /\ ~ pending[a].set /\ pending[a].run = r

\* The checks and broker.resolve, without an await between them.
Decide(h) ==
    LET q == hreq[h]
        ok == hsaw[h] = q.approval /\ IsPending(q.run, q.approval)
    IN  /\ hstage[h] = "read"
        /\ pending' = IF ok
                      THEN [pending EXCEPT ![q.approval].set = TRUE,
                                           ![q.approval].decision = q.yes]
                      ELSE pending
        /\ hstage' = [hstage EXCEPT ![h] = IF ok THEN "accepted" ELSE "conflict"]
        /\ hreq' = IF ok THEN hreq ELSE [hreq EXCEPT ![h] = NoRequest]
        /\ hsaw' = [hsaw EXCEPT ![h] = NoApproval]
        /\ UNCHANGED <<store, loop, cur, used, ran, timedOut, restarts, faults>>

\* store.resolve_approval in a worker thread; an error is logged and the client
\* still gets the current state.
Persist(h) ==
    LET q == hreq[h]
    IN  /\ hstage[h] = "accepted"
        /\ hstage' = [hstage EXCEPT ![h] = "ok"]
        /\ Project(q.run, IsWaitingFor(store[q.run], q.approval),
                   ApprovalResolved(store[q.run]))
        /\ UNCHANGED <<pending, loop, cur, used, ran, timedOut, hreq, hsaw, restarts>>

-----------------------------------------------------------------------------
\* The process dies and comes back: broker, loops and handlers are gone, and
\* recover_interrupted has cancelled what was live.
Restart ==
    /\ restarts < MaxRestarts
    /\ restarts' = restarts + 1
    /\ pending' = [a \in Approvals |-> NoEntry]
    /\ loop' = [r \in Runs |-> "off"]
    /\ cur' = [r \in Runs |-> NoApproval]
    /\ store' = [r \in Runs |->
                   IF store[r].status \in LiveStatus THEN Uncounted(Interrupted(store[r]))
                   ELSE store[r]]
    /\ hstage' = [h \in Handlers |-> IF hstage[h] = "idle" THEN "idle" ELSE "gone"]
    /\ hreq' = [h \in Handlers |-> NoRequest]
    /\ hsaw' = [h \in Handlers |-> NoApproval]
    /\ UNCHANGED <<used, ran, timedOut, faults>>

LoopStep(r) ==
    \/ Start(r) \/ RecordRequest(r) \/ Wait(r) \/ Wake(r) \/ Timeout(r) \/ Veto(r)
    \/ Execute(r) \/ Report(r) \/ RecordCancelled(r) \/ Release(r)
    \/ \E status \in TerminalStatus \ {"cancelled"} : Finish(r, status)

Next ==
    \/ \E r \in Runs : LoopStep(r) \/ Drain(r) \/ Disconnect(r) \/ Resume(r)
    \/ \E r \in Runs, a \in Approvals : Open(r, a)
    \/ \E h \in Handlers : Decide(h) \/ Persist(h)
    \/ \E h \in Handlers, r \in Runs, a \in Approvals, yes \in BOOLEAN : Submit(h, r, a, yes)
    \/ Restart

Spec == Init /\ [][Next]_vars

\* The event loop keeps running a task whose await has completed, the broker's
\* 300 s timer fires, and worker threads finish their writes.  Nothing is
\* assumed of the user, of consumers or of restarts.
FairSpec == Spec /\ \A r \in Runs : WF_vars(LoopStep(r))

-----------------------------------------------------------------------------
\* Broker entries, loop stages and handler requests keep their shape.
TypeOK ==
    /\ store \in [Runs -> RunStates]
    /\ pending \in [Approvals -> [run : Runs, set : BOOLEAN, decision : BOOLEAN] \cup {NoEntry}]
    /\ loop \in [Runs -> Stages]
    /\ cur \in [Runs -> Approvals \cup {NoApproval}]
    /\ used \subseteq Approvals
    /\ ran \subseteq used
    /\ timedOut \subseteq used
    /\ hreq \in [Handlers -> [run : Runs, approval : Approvals, yes : BOOLEAN] \cup {NoRequest}]
    /\ hstage \in [Handlers -> {"idle", "read", "accepted", "conflict", "ok", "gone"}]
    /\ hsaw \in [Handlers -> Approvals \cup {NoApproval}]
    /\ restarts \in 0..MaxRestarts
    /\ faults \in 0..MaxFaults

\* Where each request stands in terms of ApprovalContract.
Standing(a) ==
    CASE a \in ran -> "spent"
      [] a \notin ran /\ pending[a] # NoEntry ->
           IF ~ pending[a].set THEN "open" ELSE IF pending[a].decision THEN "yes" ELSE "no"
      [] a \notin ran /\ pending[a] = NoEntry /\ \E r \in Runs : cur[r] = a /\ loop[r] = "granted" ->
           "yes"
      [] OTHER -> IF a \in used THEN "void" ELSE "unasked"

Contract == INSTANCE ApprovalContract
              WITH Requests <- Approvals, standing <- [a \in Approvals |-> Standing(a)]

\* The flow implements the contract: whatever the order of answers, timeouts,
\* disconnects and restarts, a guarded call runs at most once and only for a
\* yes to that very request, and the first accepted answer stands.
ImplementsContract == Contract!Spec

Accepted(h) == hstage[h] \in {"accepted", "ok"}

\* Of several clients that answer the same request, one is told that its
\* answer was taken; the others get 409 (broker.resolve).
OneAcceptedAnswer ==
    \A g, h \in Handlers :
        Accepted(g) /\ Accepted(h) /\ hreq[g].approval = hreq[h].approval => g = h

\* While the loop blocks on a request nobody has answered, the run state names
\* exactly that request, so an answer to it would be accepted.
BlockedLoopIsAnswerable ==
    faults = 0 =>
        \A r \in Runs : loop[r] = "waiting" /\ ~ pending[cur[r]].set =>
            IsWaitingFor(store[r], cur[r]) /\ pending[cur[r]].run = r

\* A run shown as waiting has a loop that is still dealing with that approval:
\* no outcome path leaves WAITING_APPROVAL with a stale approval_id behind.
NoStaleWaiting ==
    faults = 0 =>
        \A r \in Runs : store[r].status = "waiting_approval" =>
            /\ loop[r] \in InApproval \cup {"closing"}
            /\ store[r].approval = cur[r]

\* The broker keeps no entry of a run that has ended (cancel_run).
NoLeakedEntry ==
    \A a \in Approvals : pending[a] # NoEntry =>
        cur[pending[a].run] = a /\ loop[pending[a].run] # "off"

\* A late store write of the handler never brings a run back to life: a live
\* status implies a loop that will end it.
LiveRunHasLoop ==
    faults = 0 => \A r \in Runs : store[r].status \in LiveStatus => loop[r] # "off"

\* An approval is never waited for indefinitely: by answer, timeout or
\* disconnect the run leaves WAITING_APPROVAL (as long as no write is lost).
WaitingEnds ==
    \A r \in Runs :
        store[r].status = "waiting_approval" ~>
            store[r].status # "waiting_approval" \/ faults > 0

\* run_state_service.py: "The engine has already been unblocked by
\* broker.resolve above, so the tool will run": an accepted yes is never
\* reported to the model as a timeout.
AcceptedYesIsNotATimeout ==
    \A h \in Handlers : Accepted(h) /\ hreq[h].yes => hreq[h].approval \notin timedOut

\* The decision of an approval is taken once and reaches the loop that asked:
\* one accepted answer, a blocked loop can be answered, and no run, waiting
\* status or broker entry outlives the loop it belongs to.
DecisionsAreSound ==
    /\ OneAcceptedAnswer
    /\ BlockedLoopIsAnswerable
    /\ NoStaleWaiting
    /\ NoLeakedEntry
    /\ LiveRunHasLoop

=============================================================================
