------------------------------ MODULE RunRecords ------------------------------
(***************************************************************************)
(* What is kept of a run (engine/observability): the recorder that writes  *)
(* every event to the trace and, when the run finishes, its summary        *)
(* (recorder.py, summary_store.py), the index of summaries and the         *)
(* retention it drives (index.py), the reconciliation at startup           *)
(* (server/app/main.py, finalize_interrupted_run of runtime.py) and the    *)
(* reader's comparison of the two (reader.py).                             *)
(*                                                                         *)
(* A trace is the sequence of its events: "event", or the status of a      *)
(* RUN_FINISHED.  Recording is synchronous, so steps of two runs do not    *)
(* interleave within one record(); a crash may fall between any two.       *)
(***************************************************************************)
EXTENDS Naturals, SequencesExt

CONSTANTS
    RunId,
    MaxEvents,      \* bound: events of one trace
    MaxCompleted,   \* max_completed_runs of the retention policy
    MaxCrashes      \* bound: crashes, and failures of one write

ASSUME RecordsAssumption ==
    {MaxEvents, MaxCompleted, MaxCrashes} \subseteq Nat

VARIABLES
    up,         \* the server is running; otherwise it is in its startup
    runState,   \* run -> its RunState file: "live" or a terminal status; "none" before
                \* the run, "gone" once the file is pruned (ids are not reused)
    trace,      \* run -> the events in its trace file
    summary,    \* run -> its summary file, or NoSummaryFile
    index,      \* run -> finished_at in the index, 0 if it is not there
    live,       \* run -> events the recorder of its current attempt has counted
    work,       \* what the process is in the middle of
    todo,       \* runs the startup has still to reconcile, as it listed them
    clock,      \* the latest finished_at
    crashes,
    lost,       \* history: runs whose trace lost an event, or whose summary lost
                \* an attempt that was resumed
    pruned      \* history: runs that retention has removed, but for those the
                \* startup had already listed

recordVars == <<up, runState, trace, summary, index, live, work, todo, clock, crashes,
                lost, pruned>>

\* Statuses of RUN_FINISHED with their reasons: "interrupted" is cancelled for
\* the reason server_restarted.
Finals == {"completed", "cancelled", "interrupted"}
NoSummaryFile == [count |-> 0, outcome |-> "none"]
Idle == [step |-> "none"]
NotLive == MaxEvents + 1

RecordsInit ==
    /\ up = TRUE
    /\ runState = [r \in RunId |-> "none"]
    /\ trace = [r \in RunId |-> <<>>]
    /\ summary = [r \in RunId |-> NoSummaryFile]
    /\ index = [r \in RunId |-> 0]
    /\ live = [r \in RunId |-> NotLive]
    /\ work = Idle
    /\ todo = {}
    /\ clock = 0
    /\ crashes = 0
    /\ lost = {}
    /\ pruned = {}

-----------------------------------------------------------------------------
(* The run and its recorder                                                *)

\* A new run, or the resume of a cancelled one: RunObservation.start.
StartAttempt(r) ==
    /\ up /\ work = Idle
    /\ runState[r] \in {"none", "cancelled", "interrupted"}
    /\ Len(trace[r]) + 1 < MaxEvents
    /\ runState' = [runState EXCEPT ![r] = "live"]
    /\ live' = [live EXCEPT ![r] = 0]
    /\ UNCHANGED <<up, trace, summary, index, work, todo, clock, crashes, lost, pruned>>

\* record: the trace, best effort, then the projection.
RecordEvent(r) ==
    /\ up /\ work = Idle
    /\ live[r] # NotLive
    /\ Len(trace[r]) + 1 < MaxEvents
    /\ live' = [live EXCEPT ![r] = @ + 1]
    /\ \/ /\ trace' = [trace EXCEPT ![r] = Append(@, "event")]
          /\ UNCHANGED <<crashes, lost>>
       \/ /\ crashes < MaxCrashes
          /\ crashes' = crashes + 1
          /\ lost' = lost \cup {r}
          /\ UNCHANGED trace
    /\ UNCHANGED <<up, runState, summary, index, work, todo, clock, pruned>>

\* record of RUN_FINISHED: the trace first,
FinishTrace(r, status) ==
    /\ up /\ work = Idle
    /\ live[r] # NotLive
    /\ trace' = [trace EXCEPT ![r] = Append(@, status)]
    /\ work' = [step |-> "state", run |-> r, count |-> live[r] + 1, outcome |-> status]
    /\ UNCHANGED <<up, runState, summary, index, live, todo, clock, crashes, lost, pruned>>

\* then the projection into the RunState, the seal, and the summary is next.
FinishState ==
    /\ work.step = "state"
    /\ runState' = [runState EXCEPT ![work.run] = work.outcome]
    /\ live' = [live EXCEPT ![work.run] = NotLive]
    /\ work' = [work EXCEPT !.step = "save"]
    /\ UNCHANGED <<up, trace, summary, index, todo, clock, crashes, lost, pruned>>

-----------------------------------------------------------------------------
(* RunSummaryStore                                                         *)

\* Mutant: the counts of an earlier attempt are replaced.
MergeReplacing(previous, count, outcome) == [count |-> count, outcome |-> outcome]

\* _merge_summaries
Merge(previous, count, outcome) == [count |-> previous.count + count, outcome |-> outcome]

\* save, up to the index.
SaveSummary ==
    /\ work.step = "save"
    /\ summary' = [summary EXCEPT ![work.run] = Merge(@, work.count, work.outcome)]
    /\ work' = [work EXCEPT !.step = "index"]
    /\ UNCHANGED <<up, runState, trace, index, live, todo, clock, crashes, lost, pruned>>

\* retention_candidates: every run behind the newest MaxCompleted; by age, any
\* that are not newer than some moment.
Candidates(ix) ==
    LET listed == {r \in RunId : ix[r] > 0}
        newer(r) == {q \in listed : ix[q] > ix[r]}
    IN  {{r \in listed : Cardinality(newer(r)) >= n} : n \in 0 .. MaxCompleted}

\* The upsert, and the candidates of the retention; or a failing write.
IndexSummary ==
    /\ work.step = "index"
    /\ clock' = clock + 1
    /\ \/ /\ index' = [index EXCEPT ![work.run] = clock']
          /\ \E c \in Candidates(index') :
                work' = [step |-> "retain", run |-> work.run, left |-> c, gone |-> {}]
          /\ UNCHANGED crashes
       \/ /\ crashes < MaxCrashes
          /\ crashes' = crashes + 1
          /\ work' = Idle
          /\ UNCHANGED index
    /\ UNCHANGED <<up, runState, trace, summary, live, todo, lost, pruned>>

\* Mutant: the state of the run is not asked.
PrunableAlways(r) == TRUE

Listed(r) == \E s \in Finals : <<r, s>> \in todo

\* RunStateStore.prune refuses a live run.
Prunable(r) == runState[r] # "live"

\* RunStateStore.prune removes the RunState file,
PruneState(r) == runState' = [runState EXCEPT ![r] = "gone"]

\* _apply_retention, one candidate: prune first,
RetainState(r) ==
    /\ work.step = "retain"
    /\ r \in work.left
    /\ IF Prunable(r)
       THEN /\ PruneState(r)
            /\ work' = [work EXCEPT !.left = @ \ {r}, !.gone = {r}, !.step = "unlink"]
            /\ pruned' = IF Listed(r) THEN pruned ELSE pruned \cup {r}
       ELSE /\ work' = [work EXCEPT !.left = @ \ {r}]
            /\ UNCHANGED <<runState, pruned>>
    /\ UNCHANGED <<up, trace, summary, index, live, todo, clock, crashes, lost>>

\* then the summary, the trace with its anchor, and the index row.
RetainFiles ==
    /\ work.step = "unlink"
    /\ summary' = [r \in RunId |-> IF r \in work.gone THEN NoSummaryFile ELSE summary[r]]
    /\ trace' = [r \in RunId |-> IF r \in work.gone THEN <<>> ELSE trace[r]]
    /\ index' = [r \in RunId |-> IF r \in work.gone THEN 0 ELSE index[r]]
    /\ work' = [work EXCEPT !.step = "retain", !.gone = {}]
    /\ UNCHANGED <<up, runState, live, todo, clock, crashes, lost, pruned>>

RetainDone ==
    /\ work.step = "retain" /\ work.left = {}
    /\ work' = Idle
    /\ UNCHANGED <<up, runState, trace, summary, index, live, todo, clock, crashes, lost, pruned>>

-----------------------------------------------------------------------------
(* Crash, and the startup                                                  *)

\* The run's terminal event may be in its trace and is not in its summary yet.
BeingClosed(r) ==
    \/ work.step \in {"state", "save", "recover_save"} /\ work.run = r
    \/ ~ up /\ Listed(r)

\* The process dies.  recover_interrupted marks the live runs; they,
\* and the terminal runs without a summary, are to be reconciled.
CrashAndRecover ==
    LET after == [r \in RunId |-> IF runState[r] = "live" THEN "interrupted" ELSE runState[r]]
    IN
    /\ crashes < MaxCrashes
    /\ crashes' = crashes + 1
    /\ up' = FALSE
    /\ runState' = after
    /\ live' = [r \in RunId |-> NotLive]
    /\ todo' = {<<r, after[r]>> : r \in {q \in RunId :
                     runState[q] = "live" \/ (after[q] \in Finals /\ summary[q] = NoSummaryFile)}}
    /\ lost' = lost \cup {r \in RunId : summary[r] # NoSummaryFile /\ BeingClosed(r)}
    /\ work' = Idle
    /\ UNCHANGED <<trace, summary, index, clock, pruned>>

\* The status in the trace after which the run went on.
LastFinal(r) ==
    LET finals == {i \in DOMAIN trace[r] : trace[r][i] \in Finals} IN
    IF finals = {} THEN 0 ELSE CHOOSE i \in finals : \A j \in finals : j <= i

\* finalize_interrupted_run, up to the save.  (A trace that does not verify
\* gets a summary of the terminal event alone: HashChain.)
Reconcile(r, status) ==
    LET matches == LastFinal(r) > 0 /\ trace[r][LastFinal(r)] = status
        saves(count) == work' = [step |-> "recover_save", run |-> r, count |-> count,
                                 outcome |-> status]
    IN
    /\ ~ up /\ work = Idle
    /\ <<r, status>> \in todo
    /\ todo' = todo \ {<<r, status>>}
    /\ \/ /\ matches /\ summary[r] # NoSummaryFile
          /\ lost' = IF LastFinal(r) < Len(trace[r]) THEN lost \cup {r} ELSE lost
          /\ UNCHANGED <<trace, work>>
       \/ /\ matches /\ summary[r] = NoSummaryFile
          /\ saves(Len(trace[r]))
          /\ UNCHANGED <<trace, lost>>
       \/ /\ ~ matches
          /\ trace' = [trace EXCEPT ![r] = Append(@, status)]
          /\ saves(IF summary[r] = NoSummaryFile THEN Len(trace[r]) + 1
                   ELSE Len(trace[r]) + 1 - LastFinal(r))
          /\ UNCHANGED lost
    /\ UNCHANGED <<up, runState, summary, index, live, clock, crashes, pruned>>

\* _save_recovery_summary
RecoverSave ==
    /\ work.step = "recover_save"
    /\ work' = [work EXCEPT !.step = "save"]
    /\ UNCHANGED <<up, runState, trace, summary, index, live, todo, clock, crashes, lost, pruned>>

StartupDone ==
    /\ ~ up /\ work = Idle /\ todo = {}
    /\ up' = TRUE
    /\ UNCHANGED <<runState, trace, summary, index, live, work, todo, clock, crashes, lost, pruned>>

-----------------------------------------------------------------------------
RecordsNext ==
    \/ \E r \in RunId :
          \/ StartAttempt(r) \/ RecordEvent(r) \/ RetainState(r)
          \/ \E status \in {"completed", "cancelled"} : FinishTrace(r, status)
          \/ \E status \in Finals : Reconcile(r, status)
    \/ FinishState \/ SaveSummary \/ IndexSummary \/ RetainFiles \/ RetainDone
    \/ CrashAndRecover \/ RecoverSave \/ StartupDone

RecordsSpec == RecordsInit /\ [][RecordsNext]_recordVars

-----------------------------------------------------------------------------
\* The run is over and its records are settled.
Settled(r) == up /\ work = Idle /\ runState[r] \in Finals

\* Once a run is over, its summary counts every event of its trace exactly
\* once, over all its attempts and recoveries, and its outcome is the one the
\* trace ends with: the reader (_trace_matches_summary) does not report an
\* intact run as damaged.  Not so for a run whose trace write failed, which
\* was resumed and met a crash while it was being closed, or which was
\* interrupted, resumed and interrupted again (EveryAttemptIsCounted).
SummaryIsExact ==
    \A r \in RunId :
        Settled(r) /\ r \notin lost =>
            /\ summary[r].count = Len(trace[r])
            /\ trace[r] # <<>> => summary[r].outcome = Last(trace[r])

\* Retention never takes the records of a run that is being recorded: what the
\* recorder has counted in this attempt is in the trace.
LiveRunKeepsItsTrace ==
    \A r \in RunId :
        live[r] # NotLive /\ r \notin lost => Len(trace[r]) >= live[r] + summary[r].count

\* A run that retention has removed does not come back as an empty summary
\* ("zombie"), whatever crash and startup follow.
PrunedStaysGone ==
    \A r \in pruned :
        summary[r] # NoSummaryFile => \/ index[r] > 0
                                      \/ work.step = "unlink" /\ r \in work.gone

\* finalize_interrupted_run closes an interrupted run "without losing its
\* already-persisted attempt": every event of its trace is counted.
EveryAttemptIsCounted ==
    \A r \in RunId :
        Settled(r) => summary[r].count >= Len(trace[r])

\* Retention takes a run's records only when nobody needs them, and for good:
\* a live run keeps its trace, and what was pruned is not written again.
RetentionIsSafe == LiveRunKeepsItsTrace /\ PrunedStaysGone

=============================================================================
