----------------------------- MODULE ToolLedger -----------------------------
(***************************************************************************)
(* ToolExecutionLedger (engine/tool/ledger.py) under the tool registry     *)
(* that uses it (engine/tool/registry.py, _execute_registered): the calls  *)
(* of side-effecting tools of ONE run, over its first attempt, its crashes *)
(* and cancellations, and the resumed attempts that replay the ledger      *)
(* (lifecycle.py, resume_stream_with_runtime).                             *)
(*                                                                         *)
(* An operation is a tool with its arguments: what _semantic_key hashes.   *)
(* A key is an operation and the number of its occurrence.  An execution   *)
(* acts on the outside world at most once, at any time while its worker    *)
(* thread lives; a synchronous tool that timed out or whose run was        *)
(* cancelled keeps its thread (asyncio.to_thread cannot be interrupted).   *)
(***************************************************************************)
EXTENDS Naturals, FiniteSets

CONSTANTS
    Ops,            \* (tool, arguments) pairs with side_effect # "none"
    Idempotent,     \* those whose tool declares idempotent
    CallIds,        \* provider call ids, unique within one attempt
    NoCall,         \* call id not seen by this attempt
    NoRow,          \* no row in tool_executions
    MaxOccurrence,  \* bound: occurrences of one operation in one attempt
    MaxAttempts     \* bound: attempts of the run

ASSUME LedgerAssumption ==
    /\ Idempotent \subseteq Ops
    /\ MaxOccurrence \in Nat /\ MaxAttempts \in Nat
    /\ NoRow \notin [status : {"running", "completed", "uncertain"}, owner : CallIds]
    /\ NoCall \notin [key : Ops \X (1..MaxOccurrence), nth : Nat,
                      stage : {"executing", "returned", "answered"}]

VARIABLES
    rows,       \* tool_executions of this run: key -> row, or NoRow
    attempt,    \* number of the current attempt
    active,     \* the current attempt is executing
    occ,        \* _semantic_occurrences of this attempt's ledger
    calls,      \* call id -> what this attempt did with it, or NoCall
    working,    \* executions that can still act: [key, call, attempt]
    effects,    \* history: key -> times the side effect happened (2: or more)
    issued,     \* history: operation -> calls of it this attempt has made
    found       \* history: operation -> rows present when the attempt began

vars == <<rows, attempt, active, occ, calls, working, effects, issued, found>>
history == <<issued, found>>

Occurrences == 1..MaxOccurrence
Keys == Ops \X Occurrences
Rows == [status : {"running", "completed", "uncertain"}, owner : CallIds]
CallRecords == [key : Keys, nth : Nat, stage : {"executing", "returned", "answered"}]

Replaying == attempt > 1        \* replay_existing

RowsOf(op) == {n \in Occurrences : rows[<<op, n>>] # NoRow}

Init ==
    /\ rows = [k \in Keys |-> NoRow]
    /\ attempt = 1
    /\ active = TRUE
    /\ occ = [op \in Ops |-> 0]
    /\ calls = [c \in CallIds |-> NoCall]
    /\ working = {}
    /\ effects = [k \in Keys |-> 0]
    /\ issued = [op \in Ops |-> 0]
    /\ found = [op \in Ops |-> 0]

-----------------------------------------------------------------------------
(* idempotency_key_for                                                     *)

\* Mutant: a resumed ledger also counts on from the persisted rows.
NextOccurrenceAlwaysFresh(op) ==
    LET persisted == Cardinality(RowsOf(op))
    IN  (IF persisted > occ[op] THEN persisted ELSE occ[op]) + 1

\* A fresh ledger counts on from the persisted rows; a replaying one counts
\* its own calls only, so that its n-th call meets the n-th recorded one.
NextOccurrence(op) ==
    LET persisted == Cardinality(RowsOf(op))
    IN  (IF ~ Replaying /\ persisted > occ[op] THEN persisted ELSE occ[op]) + 1

\* Mutant: every uncertain row may be claimed again.
ReclaimsAny(op, row) == row.status = "uncertain"

\* Only a settled uncertain attempt of an idempotent tool may be reclaimed.
Reclaims(op, row) == row.status = "uncertain" /\ op \in Idempotent

\* WHERE ... status='running' AND call_id=?
Owns(c, row) == row.status = "running" /\ row.owner = c

-----------------------------------------------------------------------------
(* _execute_registered                                                     *)

\* begin() for occurrence n of op, in the nth call of op this attempt makes:
\* claim, reclaim, replay or refuse.
Begin(c, op, n, nth) ==
    LET k == <<op, n>>
        claimed == rows[k] = NoRow \/ Reclaims(op, rows[k])
    IN  /\ rows' = IF claimed
                   THEN [rows EXCEPT ![k] = [status |-> "running", owner |-> c]]
                   ELSE rows
        /\ working' = IF claimed
                      THEN working \cup {[key |-> k, call |-> c, attempt |-> attempt]}
                      ELSE working
        /\ calls' = [calls EXCEPT ![c] =
                       [key |-> k, nth |-> nth,
                        stage |-> IF claimed THEN "executing" ELSE "answered"]]

\* A new call id: the next occurrence of its operation.
Call(c, op) ==
    /\ active
    /\ calls[c] = NoCall
    /\ NextOccurrence(op) \in Occurrences
    /\ occ' = [occ EXCEPT ![op] = NextOccurrence(op)]
    /\ issued' = [issued EXCEPT ![op] = @ + 1]
    /\ Begin(c, op, NextOccurrence(op), issued[op] + 1)
    /\ UNCHANGED <<attempt, active, effects, found>>

\* The same call id again: _call_keys answers with the key it already has.
Repeat(c, op) ==
    /\ active
    /\ calls[c] # NoCall
    /\ calls[c].key[1] = op
    /\ calls[c].stage # "executing"
    /\ UNCHANGED occ
    /\ Begin(c, op, calls[c].key[2], calls[c].nth)
    /\ UNCHANGED <<attempt, active, effects, history>>

\* The tool function changes the outside world.
Act(w) ==
    /\ w \in working
    /\ working' = working \ {w}
    /\ effects' = [effects EXCEPT ![w.key] = IF @ = 0 THEN 1 ELSE 2]
    /\ UNCHANGED <<rows, attempt, active, occ, calls, history>>

Executing(c) == calls[c] # NoCall /\ calls[c].stage = "executing"

\* finish(): only the row this call still owns is updated.
Finish(c, status) ==
    LET k == calls[c].key
    IN  /\ rows' = IF rows[k] # NoRow /\ Owns(c, rows[k])
                   THEN [rows EXCEPT ![k].status = status]
                   ELSE rows
        /\ calls' = [calls EXCEPT ![c].stage = "returned"]

ThisExecution(c) == [key |-> calls[c].key, call |-> c, attempt |-> attempt]

\* The tool returned a result that does not look like an error.
Succeed(c) ==
    /\ active
    /\ Executing(c)
    /\ ThisExecution(c) \notin working
    /\ Finish(c, "completed")
    /\ UNCHANGED <<attempt, active, occ, working, effects, history>>

\* It raised or returned an error, before or after it acted.
Fail(c) ==
    /\ active
    /\ Executing(c)
    /\ Finish(c, "uncertain")
    /\ working' = working \ {ThisExecution(c)}
    /\ UNCHANGED <<attempt, active, occ, effects, history>>

\* wait_for expired: the thread of a synchronous tool goes on.
TimeOut(c) ==
    /\ active
    /\ Executing(c)
    /\ Finish(c, "uncertain")
    /\ UNCHANGED <<attempt, active, occ, working, effects, history>>

-----------------------------------------------------------------------------
(* Attempts                                                                *)

\* The run ends or its consumer disconnects: CancelledError skips finish()
\* and leaves claimed rows running; worker threads live on.
EndAttempt ==
    /\ active
    /\ active' = FALSE
    /\ UNCHANGED <<rows, attempt, occ, calls, working, effects, history>>

\* The process dies with its threads; the committed rows remain.
Crash ==
    /\ active' = FALSE
    /\ working # {} \/ active
    /\ working' = {}
    /\ UNCHANGED <<rows, attempt, occ, calls, effects, history>>

\* ToolExecutionLedger(profile_dir, run_id, replay_existing=True)
Resume ==
    /\ ~ active
    /\ attempt < MaxAttempts
    /\ attempt' = attempt + 1
    /\ active' = TRUE
    /\ occ' = [op \in Ops |-> 0]
    /\ calls' = [c \in CallIds |-> NoCall]
    /\ issued' = [op \in Ops |-> 0]
    /\ found' = [op \in Ops |-> Cardinality(RowsOf(op))]
    /\ UNCHANGED <<rows, working, effects>>

Next ==
    \/ \E c \in CallIds, op \in Ops : Call(c, op) \/ Repeat(c, op)
    \/ \E c \in CallIds : Succeed(c) \/ Fail(c) \/ TimeOut(c)
    \/ \E w \in working : Act(w)
    \/ EndAttempt
    \/ Crash
    \/ Resume

Spec == Init /\ [][Next]_vars

-----------------------------------------------------------------------------
\* Rows, counters and executions keep the shape the ledger gives them.
TypeOK ==
    /\ rows \in [Keys -> Rows \cup {NoRow}]
    /\ attempt \in Nat
    /\ active \in BOOLEAN
    /\ occ \in [Ops -> 0..MaxOccurrence]
    /\ calls \in [CallIds -> CallRecords \cup {NoCall}]
    /\ working \subseteq [key : Keys, call : CallIds, attempt : Nat]
    /\ effects \in [Keys -> 0..2]
    /\ issued \in [Ops -> Nat]
    /\ found \in [Ops -> Nat]

\* The same logical side effect of a non-idempotent tool happens at most once,
\* through every crash, cancellation, timeout and resume: a row that is
\* running or uncertain is never executed again.
AtMostOnce ==
    \A k \in Keys : k[1] \notin Idempotent => effects[k] <= 1

\* A key whose effect was recorded as completed is settled: nobody executes
\* it again, not even for an idempotent tool (begin() replays it).
CompletedIsNotRerun ==
    [][\A k \in Keys :
          rows[k] # NoRow /\ rows[k].status = "completed" =>
            /\ rows'[k] = rows[k]
            /\ \A w \in working' \ working : w.key # k]_vars

\* The occurrences recorded for an operation have no gaps, so a resumed
\* attempt that counts from one meets every one of them.
NoGaps ==
    \A op \in Ops : \A n \in RowsOf(op) : 1..n \subseteq RowsOf(op)

\* A resumed attempt repeats nothing: as long as it has made no more calls of
\* an operation than the ledger already held, none of them is executed (unless
\* it settles an uncertain attempt of an idempotent tool).
ResumeRepeatsNothing ==
    \A w \in working :
        w.attempt = attempt /\ Replaying /\ calls[w.call] # NoCall
            /\ calls[w.call].nth <= found[w.key[1]] => w.key[1] \in Idempotent

\* A claim is never stolen: a running row changes only when the call that owns
\* it, in the attempt that claimed it, finishes; a resumed attempt that meets a
\* row its predecessor left running never takes it over.
OnlyOwnerSettles ==
    [][\A k \in Keys :
          /\ rows[k] # NoRow
          /\ rows[k].status = "running"
          /\ rows'[k] # rows[k]
          => /\ rows'[k].owner = rows[k].owner
             /\ calls[rows[k].owner] # NoCall
             /\ calls[rows[k].owner].key = k
             /\ calls'[rows[k].owner].stage = "returned"]_vars

\* docs/subsystems/23: an uncertain, non-idempotent effect is refused for the
\* rest of the run: no call of the same operation is executed after it.
UncertainIsRefused ==
    [][\A w \in working' \ working :
          w.key[1] \notin Idempotent =>
            \A n \in RowsOf(w.key[1]) : rows[<<w.key[1], n>>].status # "uncertain"]_vars

\* Occurrence numbers mean the same call in every attempt: they have no gaps,
\* and a resumed attempt repeats nothing the ledger already holds.
OccurrencesAreSound == NoGaps /\ ResumeRepeatsNothing

=============================================================================
