----------------------------- MODULE TokenStats -----------------------------
(***************************************************************************)
(* The token dashboard's table (server/app/services/token_stats_service):  *)
(* one session whose turns are priced three ways.                          *)
(*                                                                         *)
(*  - live: every usage event of a streamed run is recorded as it passes   *)
(*    (record_usage), with the provider's numbers or the engine's estimate;*)
(*  - imported: at startup sync_from_traces reads the usage events that    *)
(*    were appended to the run traces behind a durable cursor, for the     *)
(*    runs that were not recorded live (automatic tasks, mostly);          *)
(*  - estimated: messages whose turn no event prices are counted locally.  *)
(*                                                                         *)
(* The import runs on its own connection beside the requests.  SQLite      *)
(* grants one writer at a time, so a request's write waits for the         *)
(* import's open transaction; the import commits after any statement (its  *)
(* time budget), and a crash or an error discards what is not committed.   *)
(*                                                                         *)
(* Timestamps are abstracted to the turn they fall in: the number of user  *)
(* messages not after them.  The turns of the session do not overlap (the  *)
(* shell queues a message while a run streams).  Background runs have a    *)
(* session without messages; their events carry turn 0.                    *)
(***************************************************************************)
EXTENDS Naturals, Sequences, FiniteSets, SequencesExt

CONSTANTS
    UsageRuns,          \* run ids
    MaxChatTurns,       \* bound on the session's user messages
    MaxUsageEvents,     \* bound on the usage events of one run
    MaxAnswers,         \* bound on the answers stored for the session
    MaxStatCrashes      \* bound on crashes of the server

ASSUME TokenStatsAssumption ==
    /\ MaxChatTurns \in Nat /\ MaxUsageEvents \in Nat
    /\ MaxAnswers \in Nat /\ MaxStatCrashes \in Nat
    /\ "none" \notin UsageRuns

VARIABLES
    liveRuns,       \* runs streamed to a client; automatic tasks are not
    chatTurn,       \* user messages so far
    transcript,     \* stored messages: <<turn, id>>, id 0 for the user's
    answers,        \* answers stored so far; ids are never reused
    runTurn,        \* the turn a live run belongs to, 0 before it starts
    streaming,      \* runs executing now
    ended,          \* runs that reached their end
    usageTrace,     \* run -> usage events in its trace
    inFlight,       \* events traced, their live record still to come
    usageRows,      \* committed rows of token_usage_events
    traceCursor,    \* committed rows of observability_trace_cursors
    sync,           \* locals of the running import
    txn,            \* its open write transaction
    overtaken,      \* history: what a live record overtook during an import
    statCrashes

statVars == <<liveRuns, chatTurn, transcript, answers, runTurn, streaming, ended, usageTrace, inFlight,
              usageRows, traceCursor, sync, txn, overtaken, statCrashes>>

requestVars == <<liveRuns, chatTurn, transcript, answers, runTurn, streaming, ended, usageTrace, inFlight>>


--------------------------------------------------------------------------
(* Rows.  The kind is the namespace of source_key.                        *)

LiveRow(r, k, t, reported) ==
    [kind |-> IF reported THEN "live" ELSE "liveEstimate", run |-> r, seq |-> k, turn |-> t]

\* '{run}:{seq}', or the same key under 'estimate:trace:'.
SourceSeq(r, k) == k
TraceRow(r, k) ==
    [kind |-> IF usageTrace[r][k].reported THEN "trace" ELSE "traceEstimate",
     run |-> r, seq |-> SourceSeq(r, k), turn |-> usageTrace[r][k].turn]

MessageRow(m) == [kind |-> "message", run |-> "none", seq |-> m[2], turn |-> m[1]]

IsEstimateOf(row, m) == row = MessageRow(m)

\* Rows of a run the import wrote, and rows the live path wrote.
Imported(rows, r) == {x \in rows : x.run = r /\ x.kind \in {"trace", "traceEstimate"}}
LiveKinds == {"live", "liveEstimate"}
LiveRecorded(rows) == {x.run : x \in {y \in rows : y.kind \in LiveKinds}}

\* A usage event and a message share a turn when no user message lies
\* between them.
SameTurnAny(row, m) == row.turn # 0
SameTurn(row, m) == row.turn = m[1]
PricedByEvent(rows, m) == \E x \in rows : x.kind # "message" /\ SameTurn(x, m)

Superseded(rows) == {MessageRow(m) : m \in {n \in transcript : PricedByEvent(rows, n)}}
Orphaned(rows) == {x \in rows : x.kind = "message"
                                  /\ ~\E m \in transcript : IsEstimateOf(x, m)}
Unpriced(rows) == {m \in transcript : MessageRow(m) \notin rows /\ ~PricedByEvent(rows, m)}

--------------------------------------------------------------------------
NoSync == [phase |-> "scan", runs |-> {}, live |-> {}, from |-> [r \in UsageRuns |-> 0],
           pos |-> [r \in UsageRuns |-> 0], to |-> [r \in UsageRuns |-> 0], messages |-> {}]
NoTxn == [open |-> FALSE, rows |-> {}, cursors |-> <<>>]

StatInit ==
    /\ liveRuns \in SUBSET UsageRuns
    /\ chatTurn = 0 /\ transcript = {} /\ answers = 0
    /\ runTurn = [r \in UsageRuns |-> 0]
    /\ streaming = {} /\ ended = {}
    /\ usageTrace = [r \in UsageRuns |-> <<>>]
    /\ inFlight = {} /\ usageRows = {}
    /\ traceCursor = [r \in UsageRuns |-> 0]
    /\ sync = NoSync /\ txn = NoTxn
    /\ overtaken = [runs |-> {}, turns |-> {}]
    /\ statCrashes = 0

--------------------------------------------------------------------------
(* The session's requests.                                                *)

\* A write of the request path waits for the import's transaction.
MayWrite == ~txn.open

AddUserTurn ==
    /\ MayWrite /\ chatTurn < MaxChatTurns
    /\ streaming \cap liveRuns = {}
    /\ chatTurn' = chatTurn + 1
    /\ transcript' = transcript \cup {<<chatTurn', 0>>}
    /\ UNCHANGED <<answers, runTurn, streaming, ended, usageTrace, inFlight, usageRows, traceCursor,
                   sync, txn, overtaken, statCrashes, liveRuns>>

StartRun(r) ==
    /\ r \notin streaming \cup ended
    /\ IF r \in liveRuns
       THEN /\ runTurn[r] = 0 /\ chatTurn > 0
            /\ \A q \in liveRuns : runTurn[q] # chatTurn
            /\ streaming \cap liveRuns = {}
            /\ runTurn' = [runTurn EXCEPT ![r] = chatTurn]
       ELSE UNCHANGED runTurn
    /\ streaming' = streaming \cup {r}
    /\ UNCHANGED <<chatTurn, transcript, answers, ended, usageTrace, inFlight, usageRows, traceCursor,
                   sync, txn, overtaken, statCrashes, liveRuns>>

\* Only the session's last turn can be resumed.
ResumeRun(r) ==
    /\ r \in liveRuns \ (streaming \cup ended)
    /\ runTurn[r] # 0 /\ runTurn[r] = chatTurn
    /\ streaming \cap liveRuns = {}
    /\ streaming' = streaming \cup {r}
    /\ UNCHANGED <<chatTurn, transcript, answers, runTurn, ended, usageTrace, inFlight,
                   usageRows, traceCursor, sync, txn, overtaken, statCrashes, liveRuns>>

\* The model call's usage is appended to the run's trace on its way to the
\* client stream.
TraceUsage(r, reported) ==
    /\ r \in streaming /\ Len(usageTrace[r]) < MaxUsageEvents
    /\ usageTrace' = [usageTrace EXCEPT ![r] = Append(@,
           [turn |-> IF r \in liveRuns THEN chatTurn ELSE 0, reported |-> reported])]
    /\ inFlight' = IF r \in liveRuns
                   THEN inFlight \cup {<<r, Len(usageTrace[r]) + 1>>} ELSE inFlight
    /\ UNCHANGED <<chatTurn, transcript, answers, runTurn, streaming, ended, usageRows, traceCursor,
                   sync, txn, overtaken, statCrashes, liveRuns>>

\* record_usage, one transaction: the live row, minus the estimates of the
\* turns that are now priced, minus the rows imported for the same run.
ClearsImported(rows, r) == Imported(rows, r)
ClearsEstimates(rows) == Superseded(rows)

RecordUsage(r, k) ==
    /\ MayWrite /\ <<r, k>> \in inFlight
    /\ inFlight' = inFlight \ {<<r, k>>}
    /\ LET rows == usageRows \cup {LiveRow(r, k, chatTurn, usageTrace[r][k].reported)}
       IN  usageRows' = (rows \ ClearsEstimates(rows)) \ ClearsImported(rows, r)
    /\ overtaken' = [runs |-> IF sync.phase \in {"read", "import"}
                              THEN overtaken.runs \cup {r} ELSE overtaken.runs \ {r},
                     turns |-> IF sync.phase = "backfill"
                               THEN overtaken.turns \cup {chatTurn} ELSE {}]
    /\ UNCHANGED <<chatTurn, transcript, answers, runTurn, streaming, ended, usageTrace, traceCursor,
                   sync, txn, statCrashes, liveRuns>>

\* A failure to persist is logged and swallowed; an event without tokens is
\* not recorded at all.
RecordFails(r, k) ==
    /\ <<r, k>> \in inFlight
    /\ inFlight' = inFlight \ {<<r, k>>}
    /\ UNCHANGED <<chatTurn, transcript, answers, runTurn, streaming, ended, usageTrace, usageRows,
                   traceCursor, sync, txn, overtaken, statCrashes, liveRuns>>

\* The run ends, or stops short of it and stays resumable.  A live run that
\* has text to show stores it as the turn's answer, in place of the one an
\* interrupted execution of it left.
StopRun(r, final, replied) ==
    /\ r \in streaming /\ MayWrite
    /\ ~\E k \in 1..MaxUsageEvents : <<r, k>> \in inFlight
    /\ streaming' = streaming \ {r}
    /\ ended' = IF final THEN ended \cup {r} ELSE ended
    /\ replied => r \in liveRuns /\ answers < MaxAnswers
    /\ answers' = IF replied THEN answers + 1 ELSE answers
    /\ transcript' = IF replied
                     THEN {m \in transcript : m[1] # runTurn[r] \/ m[2] = 0}
                              \cup {<<runTurn[r], answers'>>}
                     ELSE transcript
    /\ UNCHANGED <<chatTurn, runTurn, usageTrace, inFlight, usageRows, traceCursor, sync, txn,
                   overtaken, statCrashes, liveRuns>>

\* The server dies; the next start begins the import anew.
StatCrash ==
    /\ statCrashes < MaxStatCrashes
    /\ statCrashes' = statCrashes + 1
    /\ streaming' = {} /\ inFlight' = {}
    /\ sync' = NoSync /\ txn' = NoTxn
    /\ UNCHANGED <<chatTurn, transcript, answers, runTurn, ended, usageTrace, usageRows, traceCursor,
                   overtaken, liveRuns>>

--------------------------------------------------------------------------
(* sync_from_traces.                                                      *)

\* The runs with a trace, and the cursors.
SyncScan ==
    /\ sync.phase = "scan"
    /\ sync' = [sync EXCEPT !.phase = "live", !.from = traceCursor,
                            !.runs = {r \in UsageRuns : usageTrace[r] # <<>>}]
    /\ UNCHANGED <<requestVars, usageRows, traceCursor, txn, overtaken, statCrashes>>

\* Runs recorded live are left alone, and what was imported for them earlier
\* is removed, in a transaction of its own.
SyncHeal ==
    /\ sync.phase = "live"
    /\ sync' = [sync EXCEPT !.phase = "read", !.live = LiveRecorded(usageRows)]
    /\ usageRows' = usageRows \ UNION {Imported(usageRows, r) : r \in LiveRecorded(usageRows)}
    /\ overtaken' = [overtaken EXCEPT !.runs = {}]
    /\ UNCHANGED <<requestVars, traceCursor, txn, statCrashes>>

\* The records behind each cursor; a trace that does not verify is skipped.
SyncRead ==
    /\ sync.phase = "read"
    /\ \E skipped \in SUBSET (sync.runs \ sync.live) :
          LET batch == (sync.runs \ sync.live) \ skipped IN
          sync' = [sync EXCEPT !.phase = "import", !.runs = batch, !.pos = sync.from,
                       !.to = [r \in UsageRuns |-> IF r \in batch THEN Len(usageTrace[r])
                                                   ELSE sync.from[r]]]
    /\ UNCHANGED <<requestVars, usageRows, traceCursor, txn, overtaken, statCrashes>>

\* INSERT OR IGNORE, on the import's open transaction.
SyncInsert(r) ==
    /\ sync.phase = "import" /\ r \in sync.runs /\ sync.pos[r] < sync.to[r]
    /\ sync' = [sync EXCEPT !.pos[r] = @ + 1]
    /\ txn' = [txn EXCEPT !.open = TRUE, !.rows = @ \cup {TraceRow(r, sync.pos[r] + 1)}]
    /\ UNCHANGED <<requestVars, usageRows, traceCursor, overtaken, statCrashes>>

\* The cursor moves only behind the run's last insert.
CursorDueAtOnce(r) == TRUE
CursorDue(r) == sync.pos[r] = sync.to[r]
SyncCursor(r) ==
    /\ sync.phase = "import" /\ r \in sync.runs /\ CursorDue(r)
    /\ sync' = [sync EXCEPT !.runs = IF sync.pos[r] = sync.to[r] THEN @ \ {r} ELSE @]
    /\ txn' = [txn EXCEPT !.open = TRUE, !.cursors = Append(@, <<r, sync.to[r]>>)]
    /\ UNCHANGED <<requestVars, usageRows, traceCursor, overtaken, statCrashes>>

\* The time budget is spent, or the phase is over.
SyncCommit ==
    /\ txn.open
    /\ usageRows' = usageRows \cup txn.rows
    /\ traceCursor' = [r \in UsageRuns |->
           IF \E k \in DOMAIN txn.cursors : txn.cursors[k][1] = r
           THEN (CHOOSE p \in ToSet(txn.cursors) : p[1] = r)[2] ELSE traceCursor[r]]
    /\ txn' = NoTxn
    /\ UNCHANGED <<requestVars, sync, overtaken, statCrashes>>

SyncImported ==
    /\ sync.phase = "import" /\ sync.runs = {} /\ ~txn.open
    /\ sync' = [sync EXCEPT !.phase = "estimates"]
    /\ UNCHANGED <<requestVars, usageRows, traceCursor, txn, overtaken, statCrashes>>

\* The estimates of priced turns and of deleted messages go, in one
\* transaction.
SyncCleanup ==
    /\ sync.phase = "estimates"
    /\ usageRows' = (usageRows \ Superseded(usageRows)) \ Orphaned(usageRows)
    /\ overtaken' = [overtaken EXCEPT !.turns = {}]
    /\ sync' = [sync EXCEPT !.phase = "select"]
    /\ UNCHANGED <<requestVars, traceCursor, txn, statCrashes>>

SyncSelect ==
    /\ sync.phase = "select"
    /\ sync' = [sync EXCEPT !.phase = "backfill", !.messages = Unpriced(usageRows)]
    /\ UNCHANGED <<requestVars, usageRows, traceCursor, txn, overtaken, statCrashes>>

SyncEstimate(m) ==
    /\ sync.phase = "backfill" /\ m \in sync.messages
    /\ sync' = [sync EXCEPT !.messages = @ \ {m}]
    /\ txn' = [txn EXCEPT !.open = TRUE, !.rows = @ \cup {MessageRow(m)}]
    /\ UNCHANGED <<requestVars, usageRows, traceCursor, overtaken, statCrashes>>

SyncDone ==
    /\ sync.phase = "backfill" /\ sync.messages = {} /\ ~txn.open
    /\ sync' = [NoSync EXCEPT !.phase = "done"]
    /\ UNCHANGED <<requestVars, usageRows, traceCursor, txn, overtaken, statCrashes>>

\* Any error: the open transaction is rolled back and the import gives up.
SyncFails ==
    /\ sync.phase \notin {"done", "failed"}
    /\ sync' = [NoSync EXCEPT !.phase = "failed"]
    /\ txn' = NoTxn
    /\ UNCHANGED <<requestVars, usageRows, traceCursor, overtaken, statCrashes>>

StatNext ==
    \/ AddUserTurn
    \/ \E r \in UsageRuns : StartRun(r)
    \/ \E r \in liveRuns : ResumeRun(r)
    \/ \E r \in UsageRuns, reported \in BOOLEAN : TraceUsage(r, reported)
    \/ \E r \in liveRuns, k \in 1..MaxUsageEvents : RecordUsage(r, k) \/ RecordFails(r, k)
    \/ \E r \in UsageRuns, final, replied \in BOOLEAN : StopRun(r, final, replied)
    \/ StatCrash
    \/ SyncScan \/ SyncHeal \/ SyncRead
    \/ \E r \in UsageRuns : SyncInsert(r) \/ SyncCursor(r)
    \/ SyncCommit \/ SyncImported \/ SyncCleanup \/ SyncSelect
    \/ \E m \in sync.messages : SyncEstimate(m)
    \/ SyncDone \/ SyncFails

StatSpec == StatInit /\ [][StatNext]_statVars

--------------------------------------------------------------------------
RunUsageRows(r, k) == {x \in usageRows : x.run = r /\ x.seq = k}

(* No usage event is lost behind the cursor, whatever commits and crashes   *)
(* happen between: an event the durable cursor has passed is in the table,  *)
(* unless its run is recorded live and counts by its live rows              *)
(* (sync_from_traces inserts before it moves the cursor).                   *)
CursorCoversImported ==
    \A r \in UsageRuns : \A k \in 1..traceCursor[r] :
        RunUsageRows(r, k) # {} \/ r \in LiveRecorded(usageRows)

(* Once an import has completed, no event is counted twice and no message   *)
(* is counted beside an event of its own turn, unless a live record         *)
(* overtook that import between its snapshot and its inserts                *)
(* (live_recorded_run_ids, the deletes of record_usage and the cleanup of   *)
(* _sync_message_estimates).                                                *)
CountedOnce ==
    sync.phase = "done" =>
        /\ \A r \in UsageRuns \ overtaken.runs : \A k \in 1..MaxUsageEvents :
               Cardinality(RunUsageRows(r, k)) <= 1
        /\ \A m \in transcript : m[1] \notin overtaken.turns =>
               ~(MessageRow(m) \in usageRows /\ PricedByEvent(usageRows, m))

(* A message that is priced, by its own estimate or by an event of its      *)
(* turn, stays priced as long as it is stored: no record, import or cleanup *)
(* reduces the session to the turns the engine priced                       *)
(* (_SUPERSEDED_ESTIMATES_DELETE).                                          *)
IsPriced(rows, m) == MessageRow(m) \in rows \/ \E x \in rows : x.kind # "message" /\ x.turn = m[1]
PricedStaysPriced ==
    [][\A m \in transcript \cap transcript' : IsPriced(usageRows, m) => IsPriced(usageRows', m)]_statVars

(* What record_usage's comment promises: the table never counts a turn      *)
(* twice between a live record and the next import.                         *)
NeverDoubleCounted ==
    sync.phase = "done" =>
        /\ \A r \in UsageRuns : \A k \in 1..MaxUsageEvents : Cardinality(RunUsageRows(r, k)) <= 1
        /\ \A m \in transcript : ~(MessageRow(m) \in usageRows /\ PricedByEvent(usageRows, m))

\* Every usage event the cursor has passed is in the statistics, and once, but
\* for the import that a live record overtook.
UsageIsCounted == CursorCoversImported /\ CountedOnce

=============================================================================
