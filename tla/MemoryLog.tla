------------------------------ MODULE MemoryLog ------------------------------
(***************************************************************************)
(* Long-term memory (engine/memory): the log of evidence recent.jsonl that *)
(* turns append to (store.py), the two views compiled from it, each with   *)
(* its own cursor (compile.py), Dream, which reclaims what both have read  *)
(* (dream.py), and the maintenance that runs them, in the background of a  *)
(* turn or on the scheduler's idle tick (maintenance.py).                  *)
(*                                                                         *)
(* One server process: the operation lock admits one compilation or Dream, *)
(* the evidence lock one writer of the log.  A compilation awaits its      *)
(* models between reading the log and committing; every write of a file is *)
(* atomic and a crash may fall between any two.  How a draft is made and   *)
(* reviewed is MemoryDraft; here it only succeeds or fails.                *)
(***************************************************************************)
EXTENDS Naturals, SequencesExt

CONSTANTS
    MaxLines,       \* bound: events ever appended
    CompileEvery,   \* _COMPILE_INTERVAL
    DreamEvery,     \* DREAM_INTERVAL
    MaxDeferred,    \* _MAX_DEFERRED_STREAK
    MaxMemCrashes   \* bound: crashes

ASSUME MemoryAssumption ==
    /\ {MaxLines, MaxMemCrashes} \subseteq Nat
    /\ {CompileEvery, DreamEvery, MaxDeferred} \subseteq Nat \ {0}

VARIABLES
    log,        \* recent.jsonl: lines [id, kind]
    cursor,     \* view -> .compile_offset, .compile_offset_context
    fp,         \* view -> .fp_durable, .fp_context: the entries last compiled
    streak,     \* view -> deferred_streak over memory_history.jsonl
    journal,    \* the Dream cleanup file, or NoJournal
    pending,    \* maintenance kind -> its marker file exists
    counter,    \* maintenance kind -> its counter file
    cooldown,   \* maintenance kind -> its retry marker is recent
    bg,         \* maintenance kind -> its background task waits for the lock
    job,        \* the holder of the operation lock, or NoOp
    noted,      \* history: every line ever appended
    read,       \* history: view -> lines whose evidence is in the view
    givenUp,    \* history: view -> lines given up with a "skipped" record
    memCrashes

memoryVars == <<log, cursor, fp, streak, journal, pending, counter, cooldown, bg, job,
                noted, read, givenUp, memCrashes>>

View == {"context", "durable"}
Maintenance == {"compile", "dream"}
NoJournal == [old |-> <<>>, new |-> <<>>, cursor |-> [v \in View |-> 0]]
NoOp == [kind |-> "none", by |-> "none", step |-> "none", view |-> "context", errs |-> {},
         context |-> FALSE, batch |-> {}, all |-> {}, through |-> 0]

\* save_conversation_memory: the entries of one turn that are worth keeping: a
\* work entry when tools ran, a signal entry when the user said something to
\* learn.
Turns == {<<"work">>, <<"preference">>, <<"work", "correction">>}

\* _entries_for_view
Relevant(v, line) ==
    line.kind \in IF v = "context" THEN {"preference", "correction"}
                                   ELSE {"work", "correction"}

MemoryInit ==
    /\ log = <<>>
    /\ cursor = [v \in View |-> 0]
    /\ fp = [v \in View |-> {}]
    /\ streak = [v \in View |-> 0]
    /\ journal = NoJournal
    /\ pending = [k \in Maintenance |-> FALSE]
    /\ counter = [k \in Maintenance |-> 0]
    /\ cooldown = [k \in Maintenance |-> FALSE]
    /\ bg = [k \in Maintenance |-> FALSE]
    /\ job = NoOp
    /\ noted = {}
    /\ read = [v \in View |-> {}]
    /\ givenUp = [v \in View |-> {}]
    /\ memCrashes = 0

-----------------------------------------------------------------------------
(* A turn is recorded                                                      *)

Interval(k) == IF k = "compile" THEN CompileEvery ELSE DreamEvery

\* _evidence_lock: held by Dream for all of run_dream.
EvidenceFree == job.kind # "dream"

\* record_turn with deferred maintenance: the append, the counters, and the
\* maintenance that is due is marked pending and scheduled; a background task
\* that is waiting or running, or a cooldown, suppresses a new one.
RecordTurn(kinds) ==
    LET n == Cardinality(noted)
        new == [i \in DOMAIN kinds |-> [id |-> n + i, kind |-> kinds[i]]]
        signal == \E i \in DOMAIN kinds : kinds[i] # "work"
        due(k) == \/ k = "compile" /\ signal
                  \/ counter'[k] >= Interval(k) /\ ~ cooldown[k]
        running(k) == job.kind = k /\ job.by = "task"
    IN
    /\ n + Len(kinds) <= MaxLines
    /\ EvidenceFree
    /\ log' = log \o new
    /\ noted' = noted \cup Range(new)
    /\ counter' = [k \in Maintenance |->
                      IF counter[k] < Interval(k) THEN counter[k] + 1 ELSE counter[k]]
    /\ pending' = [k \in Maintenance |-> pending[k] \/ due(k)]
    /\ bg' = [k \in Maintenance |->
                bg[k] \/ (due(k) /\ ~ cooldown[k] /\ ~ running(k))]
    /\ UNCHANGED <<cursor, fp, streak, journal, cooldown, job, read, givenUp, memCrashes>>

\* Ten minutes pass since the attempt the marker names.
CooldownEnds(k) ==
    /\ cooldown[k]
    /\ cooldown' = [cooldown EXCEPT ![k] = FALSE]
    /\ UNCHANGED <<log, cursor, fp, streak, journal, pending, counter, bg, job,
                   noted, read, givenUp, memCrashes>>

-----------------------------------------------------------------------------
(* The operation lock                                                      *)

\* _is_pending
IsPending(k) == pending[k] \/ counter[k] >= Interval(k)

BeginOp(k, by) ==
    [NoOp EXCEPT !.kind = k, !.by = by, !.step = IF k = "compile" THEN "load" ELSE "recover"]

\* A background task gets the lock; in the cooldown it does nothing.
StartTask(k) ==
    /\ job = NoOp /\ bg[k]
    /\ bg' = [bg EXCEPT ![k] = FALSE]
    /\ job' = IF cooldown[k] THEN NoOp ELSE BeginOp(k, "task")
    /\ UNCHANGED <<log, cursor, fp, streak, journal, pending, counter, cooldown,
                   noted, read, givenUp, memCrashes>>

\* run_idle_maintenance: compile, then dream, whichever is owed.
IdleTick ==
    /\ job = NoOp
    /\ \E k \in Maintenance :
          /\ IsPending(k) /\ ~ cooldown[k]
          /\ k = "dream" => ~ IsPending("compile") \/ cooldown["compile"]
          /\ job' = BeginOp(k, "tick")
    /\ UNCHANGED <<log, cursor, fp, streak, journal, pending, counter, cooldown, bg,
                   noted, read, givenUp, memCrashes>>

\* The operation is over: _mark_completed when it succeeded; a failure that is
\* not a rejection of the draft starts the cooldown.  A tick goes on to Dream.
Release(ok, backoff) ==
    LET k == job.kind
        owed(j) == (pending[j] \/ counter[j] >= Interval(j)) /\ ~ cooldown[j]
    IN
    /\ job' = IF job.by = "tick" /\ k = "compile" /\ owed("dream")
             THEN BeginOp("dream", "tick") ELSE NoOp
    /\ pending' = IF ok THEN [pending EXCEPT ![k] = FALSE] ELSE pending
    /\ counter' = IF ok THEN [counter EXCEPT ![k] = 0] ELSE counter
    /\ cooldown' = [cooldown EXCEPT ![k] = ~ ok /\ backoff]

-----------------------------------------------------------------------------
(* compile_context, then compile_durable                                   *)

\* run_compilation goes on to the second view, or ends.  Failures of both
\* views raise a RuntimeError, which backs off like a provider failure; a
\* durable failure beside a compiled context does not raise.
NextView(errs, compiled) ==
    IF job.view = "context"
    THEN /\ job' = [BeginOp("compile", job.by) EXCEPT !.view = "durable", !.errs = errs,
                                                    !.context = compiled]
         /\ UNCHANGED <<pending, counter, cooldown>>
    ELSE Release(errs = {},
                 \/ Cardinality({e[1] : e \in errs}) = 2
                 \/ \E e \in errs : e[2] = "failed" /\ ~ (e[1] = "durable" /\ job.context))

Smallest(a, b) == IF a < b THEN a ELSE b

\* _load_recent: the entries for this view after its cursor, by their lines.
Ahead(v) == {i \in Smallest(cursor[v], Len(log)) + 1 .. Len(log) : Relevant(v, log[i])}

\* _load_recent, the fingerprint and _entries_to_source, which takes a prefix
\* of the entries, up to the line consumed_through.  With no entry for this
\* view the cursor moves to the end.
LoadEntries ==
    LET v == job.view
        entries == {log[i] : i \in Ahead(v)}
    IN
    /\ job.kind = "compile" /\ job.step = "load"
    /\ \/ /\ entries = {}
          /\ cursor' = [cursor EXCEPT ![v] = IF Len(log) > @ THEN Len(log) ELSE @]
          /\ NextView(job.errs, FALSE)
       \/ /\ entries # {} /\ fp[v] = entries
          /\ NextView(job.errs, FALSE)
          /\ UNCHANGED cursor
       \/ /\ entries # {} /\ fp[v] # entries
          /\ \E last \in Ahead(v) :
                job' = [job EXCEPT !.step = "draft", !.all = entries, !.through = last,
                                 !.batch = {log[i] : i \in {a \in Ahead(v) : a <= last}}]
          /\ UNCHANGED <<cursor, pending, counter, cooldown>>
    /\ UNCHANGED <<log, fp, streak, journal, bg, noted, read, givenUp, memCrashes>>

\* _generate_view succeeds and _commit_view writes the view and its history.
CommitView ==
    /\ job.kind = "compile" /\ job.step = "draft"
    /\ read' = [read EXCEPT ![job.view] = @ \cup job.batch]
    /\ streak' = [streak EXCEPT ![job.view] = 0]
    /\ job' = [job EXCEPT !.step = "cursor"]
    /\ UNCHANGED <<log, cursor, fp, journal, pending, counter, cooldown, bg, noted,
                   givenUp, memCrashes>>

\* The draft fails; a batch deferred MaxDeferred times is given up, the record
\* first (_skip_evidence_batch).
DraftFails(status) ==
    LET v == job.view
        deferred == IF status = "deferred" THEN streak[v] + 1 ELSE 0
    IN
    /\ job.kind = "compile" /\ job.step = "draft"
    /\ IF deferred >= MaxDeferred
       THEN /\ givenUp' = [givenUp EXCEPT ![v] = @ \cup job.batch]
            /\ streak' = [streak EXCEPT ![v] = 0]
            /\ job' = [job EXCEPT !.step = "skip", !.errs = @ \cup {<<v, status>>}]
            /\ UNCHANGED <<pending, counter, cooldown>>
       ELSE /\ streak' = [streak EXCEPT ![v] = deferred]
            /\ NextView(job.errs \cup {<<v, status>>}, FALSE)
            /\ UNCHANGED givenUp
    /\ UNCHANGED <<log, cursor, fp, journal, bg, noted, read, memCrashes>>

\* The maintenance timeout cancels the compilation while it awaits a model.
DraftTimesOut ==
    /\ job.kind = "compile" /\ job.step = "draft"
    /\ Release(FALSE, TRUE)
    /\ UNCHANGED <<log, cursor, fp, streak, journal, bg, noted, read, givenUp, memCrashes>>

\* _write_offset
WriteCursor ==
    /\ job.kind = "compile" /\ job.step \in {"cursor", "skip"}
    /\ cursor' = [cursor EXCEPT ![job.view] = job.through]
    /\ IF job.step = "skip"
       THEN NextView(job.errs, FALSE)
       ELSE /\ job' = [job EXCEPT !.step = "fp"]
            /\ UNCHANGED <<pending, counter, cooldown>>
    /\ UNCHANGED <<log, fp, streak, journal, bg, noted, read, givenUp, memCrashes>>

\* _write_fp
WriteFingerprint ==
    /\ job.kind = "compile" /\ job.step = "fp"
    /\ fp' = [fp EXCEPT ![job.view] = job.all]
    /\ NextView(job.errs, TRUE)
    /\ UNCHANGED <<log, cursor, streak, journal, bg, noted, read, givenUp, memCrashes>>

-----------------------------------------------------------------------------
(* run_dream, under both locks                                             *)

\* _matches_journaled_state: lines appended since do not matter.
Matches(text) == IsPrefix(text, log)

\* _recover_dream_cleanup, up to the cursors.
RecoverCleanup ==
    /\ job.kind = "dream" /\ job.step = "recover"
    /\ job' = [job EXCEPT !.step =
                IF journal = NoJournal THEN "cleanup"
                ELSE IF Matches(journal.old) THEN "drop"
                ELSE IF Matches(journal.new) THEN "durable"
                ELSE "wedged"]
    /\ UNCHANGED <<log, cursor, fp, streak, journal, pending, counter, cooldown, bg,
                   noted, read, givenUp, memCrashes>>

\* _cleanup_log: the region both views have consumed.
Reclaimable == Smallest(cursor["durable"], cursor["context"])

\* Mutant: a cursor is not rebased.
RebaseNothing(k) == cursor

Rebase(k) == [v \in View |-> IF cursor[v] > k THEN cursor[v] - k ELSE 0]

\* _cleanup_log: the expired lines are some prefix of that region.  The journal
\* is written before anything else.
WriteJournal ==
    /\ job.kind = "dream" /\ job.step = "cleanup"
    /\ \E k \in 1 .. Smallest(Reclaimable, Len(log)) :
          journal' = [old |-> log, new |-> SubSeq(log, k + 1, Len(log)),
                      cursor |-> Rebase(k)]
    /\ job' = [job EXCEPT !.step = "replace"]
    /\ UNCHANGED <<log, cursor, fp, streak, pending, counter, cooldown, bg, noted,
                   read, givenUp, memCrashes>>

\* Nothing has expired.
NothingToReclaim ==
    /\ job.kind = "dream" /\ job.step = "cleanup"
    /\ Release(TRUE, FALSE)
    /\ UNCHANGED <<log, cursor, fp, streak, journal, bg, noted, read, givenUp, memCrashes>>

\* The log is replaced by the text journaled,
ReplaceLog ==
    /\ job.kind = "dream" /\ job.step = "replace"
    /\ log' = journal.new
    /\ job' = [job EXCEPT !.step = "durable_last"]
    /\ UNCHANGED <<cursor, fp, streak, journal, pending, counter, cooldown, bg, noted,
                   read, givenUp, memCrashes>>

\* the cursors are rebased, one file after the other (_write_dream_cleanup_offsets),
RebaseCursor ==
    LET next == [durable |-> "context", durable_last |-> "context_last",
                 context |-> "drop", context_last |-> "drop_last"]
    IN
    /\ job.kind = "dream" /\ job.step \in DOMAIN next
    /\ LET v == IF job.step \in {"durable", "durable_last"} THEN "durable" ELSE "context"
       IN  cursor' = [cursor EXCEPT ![v] = journal.cursor[v]]
    /\ job' = [job EXCEPT !.step = next[job.step]]
    /\ UNCHANGED <<log, fp, streak, journal, pending, counter, cooldown, bg, noted,
                   read, givenUp, memCrashes>>

\* and the journal is cleared; a recovery goes on to the cleanup.
ClearJournal ==
    /\ job.kind = "dream" /\ job.step \in {"drop", "drop_last"}
    /\ journal' = NoJournal
    /\ IF job.step = "drop"
       THEN /\ job' = [job EXCEPT !.step = "cleanup"]
            /\ UNCHANGED <<pending, counter, cooldown>>
       ELSE Release(TRUE, FALSE)
    /\ UNCHANGED <<log, cursor, fp, streak, bg, noted, read, givenUp, memCrashes>>

\* The process dies and is started again: the files stay.
MemoryCrash ==
    /\ memCrashes < MaxMemCrashes
    /\ memCrashes' = memCrashes + 1
    /\ job' = NoOp
    /\ bg' = [k \in Maintenance |-> FALSE]
    /\ UNCHANGED <<log, cursor, fp, streak, journal, pending, counter, cooldown, noted,
                   read, givenUp>>

-----------------------------------------------------------------------------
MemoryNext ==
    \/ \E kinds \in Turns : RecordTurn(kinds)
    \/ \E k \in Maintenance : CooldownEnds(k) \/ StartTask(k)
    \/ IdleTick
    \/ LoadEntries \/ CommitView \/ DraftTimesOut \/ WriteCursor \/ WriteFingerprint
    \/ \E status \in {"deferred", "rejected", "failed"} : DraftFails(status)
    \/ RecoverCleanup \/ WriteJournal \/ NothingToReclaim \/ ReplaceLog
    \/ RebaseCursor \/ ClearJournal
    \/ MemoryCrash

MemorySpec == MemoryInit /\ [][MemoryNext]_memoryVars

-----------------------------------------------------------------------------
\* Where the view goes on reading: the journal of a cleanup that has replaced
\* the log is what its recovery will write.
ReadsFrom(v) ==
    IF journal # NoJournal /\ ~ IsPrefix(journal.old, log) THEN journal.cursor[v]
    ELSE cursor[v]

\* Evidence is never lost unread: each line a view should learn from is in the
\* view, was given up with a record of it, or is still in the log ahead of the
\* view's cursor - whatever turns, compilations, Dreams and crashes between any
\* two of their writes came in between.
EvidenceIsAccounted ==
    \A v \in View, l \in noted :
        Relevant(v, l) /\ l \notin read[v] \cup givenUp[v] =>
            \E i \in DOMAIN log : i > ReadsFrom(v) /\ log[i] = l

\* A cleanup cut off by a crash can always be finished: no turn recorded since
\* makes every later Dream refuse to run.
DreamIsNotWedged == job.kind = "dream" => job.step # "wedged"

\* Every line of evidence is read, skipped on purpose or still to be read, for
\* both views, and a Dream that a crash cut off can always be finished.
EvidenceIsRead == EvidenceIsAccounted /\ DreamIsNotWedged

=============================================================================
