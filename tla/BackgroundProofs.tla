-------------------------- MODULE BackgroundProofs --------------------------
(***************************************************************************)
(* Proofs about the work that goes on without its client: the end of an    *)
(* attempt (RunLifecycle), the accounts of automatic tasks (AutoTasks),    *)
(* the stdio transport of an MCP server (McpStdio) and the batches of      *)
(* delegated agents (SubAgents).                                           *)
(*                                                                         *)
(* EndIsRecorded is not inductive.  Why no second terminal record can be   *)
(* made, or a completed status saved of a run that was not drained, lies   *)
(* in where the generator is: EndInv says for each position what was       *)
(* already recorded, what still travels detached and what has gone wrong.  *)
(*                                                                         *)
(* Nor is AnswerIsOwn: that the line a request accepts is its answer       *)
(* depends on what may stand in the pipe.  The strengthening says that a   *)
(* line that carries the id of a request is its answer, or stands behind   *)
(* the oversized line it is a fragment of; reading that one retires the    *)
(* transport, and a retired transport reads nothing any more.              *)
(*                                                                         *)
(* The batch budget is overrun by at most one usage event per permit, and  *)
(* a delegation is contained: the first needs to know how many agents may  *)
(* still be charged once the budget has run out, the second what a         *)
(* finished agent leaves unchanged.                                        *)
(***************************************************************************)
EXTENDS RunLifecycle, AutoTasks, McpStdio, SubAgents, FiniteSetTheorems, TLAPS

-----------------------------------------------------------------------------
(* The inductive invariant of one attempt                                  *)

\* The record that ends the run was made, or is on its way.
Ended == finishes = 1 \/ detached \cap TerminalStatus # {}

\* Nothing has gone wrong yet and nothing is recorded of the end.
Untouched == raising = "nothing" /\ ~ caught /\ detached = {} /\ finishes = 0 /\ hit = {}

\* What holds of the writes wherever the generator is: none but the start and
\* one end can be detached, a run that was not started ends cancelled, and
\* unless the record of the start was cancelled the saved status follows the
\* records made.
WritesAreFew ==
    /\ OneTerminalRecord
    /\ detached \subseteq {"running"} \cup TerminalStatus
    /\ status = "completed" \/ "completed" \in detached => drained /\ outcome = "completed"
    /\ kind = "normal" /\ status = "queued" => detached \subseteq {"running", "cancelled"}
    /\ kind = "normal" /\ "rec_started" \notin hit =>
          /\ "running" \notin detached
          /\ finishes = 0 => status \in {"queued", "running"}
          /\ finishes = 1 => status \in TerminalStatus

\* _run_events_with_runtime before its first yield, or never started; and from
\* there to the end of its stream.
OpeningPlaces == {"new", "rec_started", "un_record"}
StreamPlaces == {"y_started", "prepare", "stream", "rec_event", "y_event", "rec_failure",
                 "y_failure"}
SetupOnly == {"fs_started", "fs_y_started", "fs_failed", "fs_y_failed", "fs_finished",
              "fs_y_finished", "fs_close"}

\* What is known at each position of _run_events_with_runtime.
NormalPlaces ==
    /\ pc \in OpeningPlaces => Untouched /\ ~ drained /\ status \in {"queued", "running"}
    /\ pc \in StreamPlaces => Untouched /\ ~ drained /\ status = "running"
    /\ pc = "rec_cancelled" =>
          /\ raising # "nothing" /\ ~ drained /\ ~ caught /\ finishes = 0
          /\ detached \subseteq {"running"} /\ status \in {"queued", "running"}
    /\ pc = "learning" => Untouched /\ drained /\ status = "running"
    /\ pc \in {"hooks", "close"} =>
          /\ drained => raising = "nothing" /\ detached = {} /\ finishes = 0 /\ status = "running"
          /\ drained /\ ~ caught => hit = {}
          /\ ~ drained => raising # "nothing" /\ Ended
    /\ pc = "rec_finished" => Untouched /\ drained /\ status = "running"
    /\ pc = "rec_late" => drained /\ detached = {} /\ finishes = 0 /\ status = "running"
    /\ pc = "y_finished" => finishes = 1 /\ detached = {} /\ status = outcome
    /\ pc \in {"un_close", "over"} => Ended \/ hit \cap Unprotected # {}
    /\ pc \notin SetupOnly

\* What is known at each position of _failed_setup_stream.
SetupPlaces ==
    /\ ~ drained
    /\ pc \in {"new", "over"} \cup SetupOnly
    /\ pc \in {"new", "fs_started"} => Untouched /\ status = "failed"
    /\ pc \in {"fs_y_started", "fs_failed", "fs_y_failed", "fs_finished"} =>
          Untouched /\ status = "running"
    /\ pc = "fs_y_finished" => detached = {} /\ status = "failed"

\* The inner finally has run before anything that follows it.
Released == pc \in {"rec_finished", "rec_late", "y_finished", "over"} => cleaned

EndInv ==
    /\ TypeOK
    /\ WritesAreFew
    /\ kind = "normal" => NormalPlaces
    /\ kind = "ledger_failed" => SetupPlaces
    /\ Released

-----------------------------------------------------------------------------
(* Its preservation, action by action                                      *)

\* The event a position records, when it records one: what Applied is given.
LEMMA Recorded ==
    /\ Recording("rec_started") = "running" /\ Recording("fs_started") = "running"
    /\ Recording("rec_cancelled") = "cancelled" /\ Recording("un_record") = "cancelled"
    /\ Recording("fs_finished") = "failed"
    /\ Recording("rec_finished") = outcome /\ Recording("rec_late") = outcome
    /\ Recording("rec_event") = "none" /\ Recording("rec_failure") = "none"
    /\ Recording("fs_failed") = "none"
  BY DEF Recording

\* What project_execution_event leaves behind, for the statuses and targets
\* that meet in an attempt.
LEMMA Projected ==
    /\ \A target \in {"running"} \cup TerminalStatus : After("running", target) = target
    /\ After("queued", "running") = "running" /\ After("queued", "cancelled") = "cancelled"
    /\ After("failed", "running") = "running"
    /\ \A st, target \in Status : After(st, target) \in {st, target}
  BY DEF After, AllowedTransitions, Status, LiveStatus, TerminalStatus, ResumableStatus

\* In the beginning nothing is recorded.
LEMMA EndInit == Init => EndInv
  <1> SUFFICES ASSUME Init PROVE EndInv
    OBVIOUS
  <1> USE LifecycleAssumption DEF Init, Status, LiveStatus, TerminalStatus, ResumableStatus
  <1>1. TypeOK
    BY DEF TypeOK
  <1>2. WritesAreFew
    BY DEF WritesAreFew, OneTerminalRecord
  <1>3. kind = "normal" => NormalPlaces
    BY DEF NormalPlaces, Untouched, OpeningPlaces, StreamPlaces, SetupOnly
  <1>4. kind = "ledger_failed" => SetupPlaces
    BY DEF SetupPlaces, Untouched, SetupOnly
  <1>5. Released
    BY DEF Released
  <1> QED BY <1>1, <1>2, <1>3, <1>4, <1>5 DEF EndInv

\* The steps that only move the generator or set its locals keep EndInv.
LEMMA MoveKeepsEnd ==
    ASSUME EndInv,
           \/ Begin \/ Prepare \/ Event \/ Drain \/ Fail \/ FailureDelivered \/ Learn
           \/ StopHooks \/ Close \/ SetupBegin \/ SetupClose \/ Pull \/ UnstartedClose
           \/ CloseUnstarted \/ CloseAtYield
    PROVE  EndInv'
  <1> USE DEF Begin, Prepare, Event, Drain, Fail, FailureDelivered, Learn, StopHooks, Close,
              SetupBegin, SetupClose, Pull, UnstartedClose, CloseUnstarted, CloseAtYield, Goto,
              AfterDraining, Leaving, Yields, EndInv
  <1> USE LifecycleAssumption
  <1>1. TypeOK'
    <2>1. pc' \in {"new", "over"} \cup Awaits \cup Yields
      BY DEF TypeOK, Awaits, RecordAwaits, ShieldedAwaits, OtherAwaits
    <2>2. /\ drained' \in BOOLEAN /\ prepared' \in BOOLEAN /\ caught' \in BOOLEAN
          /\ cleaned' \in BOOLEAN
      BY DEF TypeOK
    <2>3. /\ outcome' \in {"completed", "incomplete", "failed"}
          /\ raising' \in {"nothing", "exit", "cancel"}
      BY DEF TypeOK
    <2>4. UNCHANGED <<kind, status, detached, finishes, hit>>
      OBVIOUS
    <2> QED BY <2>1, <2>2, <2>3, <2>4 DEF TypeOK
  <1>2. WritesAreFew'
    BY DEF WritesAreFew, NormalPlaces, SetupPlaces, Untouched, TypeOK, OneTerminalRecord,
           OpeningPlaces, StreamPlaces, SetupOnly
  <1>3. kind' = "normal" => NormalPlaces'
    BY DEF NormalPlaces, SetupPlaces, Untouched, TypeOK, Ended, OpeningPlaces, StreamPlaces,
           SetupOnly
  <1>4. kind' = "ledger_failed" => SetupPlaces'
    BY DEF NormalPlaces, SetupPlaces, Untouched, TypeOK, OpeningPlaces, StreamPlaces, SetupOnly
  <1>5. Released'
    BY DEF Released, NormalPlaces, SetupPlaces, TypeOK
  <1> QED BY <1>1, <1>2, <1>3, <1>4, <1>5

\* The records that complete keep EndInv: the start, an event, the end.
LEMMA RecordKeepsEnd ==
    ASSUME EndInv,
           \/ Started \/ RecordEventDone \/ RecordFailure \/ RecordCancelled \/ RecordLate
           \/ RecordFinished \/ SetupRecord \/ UnstartedRecord
    PROVE  EndInv'
  <1> USE DEF Started, RecordEventDone, RecordFailure, RecordCancelled, RecordLate,
              RecordFinished, SetupRecord, UnstartedRecord, Record, Applied, EndInv
  <1> USE LifecycleAssumption, Recorded, Projected
  <1>0. UNCHANGED <<kind, outcome, drained, prepared, raising, caught, detached, cleaned, hit>>
    OBVIOUS
  <1>1. TypeOK'
    <2>1. pc' \in {"new", "over"} \cup Awaits \cup Yields
      BY DEF TypeOK, Awaits, RecordAwaits, ShieldedAwaits, OtherAwaits, Yields
    <2>2. status' \in Status /\ finishes' \in Nat
      BY DEF TypeOK, Status, LiveStatus, TerminalStatus, ResumableStatus
    <2> QED BY <1>0, <2>1, <2>2 DEF TypeOK
  <1>2. WritesAreFew'
    BY <1>0 DEF WritesAreFew, NormalPlaces, SetupPlaces, Untouched, TypeOK, OneTerminalRecord,
           OpeningPlaces, StreamPlaces, SetupOnly, TerminalStatus, ResumableStatus
  <1>3. kind' = "normal" => NormalPlaces'
    BY <1>0 DEF NormalPlaces, SetupPlaces, Untouched, TypeOK, Ended, OpeningPlaces, StreamPlaces,
           SetupOnly, TerminalStatus, ResumableStatus
  <1>4. kind' = "ledger_failed" => SetupPlaces'
    BY <1>0 DEF NormalPlaces, SetupPlaces, Untouched, TypeOK, OpeningPlaces, StreamPlaces, SetupOnly,
           TerminalStatus, ResumableStatus
  <1>5. Released'
    BY <1>0 DEF Released, NormalPlaces, SetupPlaces, TypeOK, SetupOnly, OpeningPlaces, StreamPlaces
  <1> QED BY <1>1, <1>2, <1>3, <1>4, <1>5

\* A detached write that lands, in whatever order, keeps EndInv.
LEMMA LandingKeepsEnd ==
    ASSUME EndInv, NEW write \in detached, LandDetached(write)
    PROVE  EndInv'
  <1> USE DEF LandDetached, Applied, EndInv
  <1> USE LifecycleAssumption, Projected
  <1>0. write \in {"running"} \cup TerminalStatus /\ detached' \subseteq detached
    BY DEF WritesAreFew
  <1>1. TypeOK'
    <2>1. status' \in Status /\ finishes' \in Nat
      BY <1>0 DEF TypeOK, Status, LiveStatus, TerminalStatus, ResumableStatus
    <2> QED BY <1>0, <2>1 DEF TypeOK
  <1>2. WritesAreFew'
    BY <1>0 DEF WritesAreFew, NormalPlaces, SetupPlaces, Untouched, TypeOK, OneTerminalRecord,
           OpeningPlaces, StreamPlaces, SetupOnly, TerminalStatus, ResumableStatus
  <1>3. kind' = "normal" => NormalPlaces'
    BY <1>0 DEF NormalPlaces, WritesAreFew, OneTerminalRecord, Untouched, TypeOK, Ended, TerminalStatus, ResumableStatus
  <1>4. kind' = "ledger_failed" => SetupPlaces'
    BY <1>0 DEF SetupPlaces, Untouched, TypeOK
  <1>5. Released'
    BY DEF Released
  <1> QED BY <1>1, <1>2, <1>3, <1>4, <1>5

\* So does a cancellation, at any await and whatever becomes of the write.
LEMMA CancelKeepsEnd ==
    ASSUME EndInv, CancelTask
    PROVE  EndInv'
  <1> USE DEF CancelTask, EndInv, Abandoned, Leaving
  <1> USE LifecycleAssumption, Recorded
  <1>0. /\ pc \in Awaits /\ hit' = hit \cup {pc}
        /\ UNCHANGED <<kind, status, outcome, drained, prepared, finishes>>
    OBVIOUS
  <1>a. PICK left \in Abandoned(pc) : detached' = detached \cup (left \ {"none"})
    OBVIOUS
  <1> USE DEF Awaits, RecordAwaits, ShieldedAwaits, OtherAwaits, BodyAwaits
  <1>1. TypeOK'
    <2>1. pc' \in {"new", "over"} \cup Awaits \cup Yields
      BY <1>0 DEF TypeOK
    <2>2. caught' \in BOOLEAN /\ cleaned' \in BOOLEAN
      OBVIOUS
    <2>3. detached' \subseteq Status
      BY <1>0, <1>a DEF TypeOK, Status, LiveStatus, TerminalStatus, ResumableStatus
    <2>4. raising' \in {"nothing", "exit", "cancel"} /\ hit' \subseteq Awaits
      BY <1>0 DEF TypeOK
    <2> QED BY <1>0, <2>1, <2>2, <2>3, <2>4 DEF TypeOK
  <1>2. WritesAreFew'
    BY <1>0, <1>a DEF WritesAreFew, NormalPlaces, SetupPlaces, Untouched, TypeOK, OneTerminalRecord,
           OpeningPlaces, StreamPlaces, SetupOnly, TerminalStatus, ResumableStatus
  <1>3. kind' = "normal" => NormalPlaces'
    BY <1>0, <1>a DEF NormalPlaces, WritesAreFew, OneTerminalRecord, Untouched, TypeOK, Ended, TerminalStatus, ResumableStatus,
           OpeningPlaces, StreamPlaces, SetupOnly, Unprotected
  <1>4. kind' = "ledger_failed" => SetupPlaces'
    BY <1>0, <1>a DEF SetupPlaces, Untouched, TypeOK, SetupOnly
  <1>5. Released'
    BY <1>0 DEF Released, NormalPlaces, SetupPlaces, TypeOK, SetupOnly, OpeningPlaces, StreamPlaces
  <1> QED BY <1>1, <1>2, <1>3, <1>4, <1>5

\* EndInv is an invariant of every attempt.
THEOREM EndInvariant == Spec => []EndInv
  <1>1. EndInv /\ [Next]_vars => EndInv'
    <2> SUFFICES ASSUME EndInv, [Next]_vars PROVE EndInv'
      OBVIOUS
    <2>1. CASE Step \/ CloseUnstarted \/ CloseAtYield
      BY <2>1, MoveKeepsEnd, RecordKeepsEnd DEF Step
    <2>2. CASE \E write \in detached : LandDetached(write)
      BY <2>2, LandingKeepsEnd
    <2>3. CASE CancelTask
      BY <2>3, CancelKeepsEnd
    <2>4. CASE UNCHANGED vars
      BY <2>4 DEF vars, EndInv, TypeOK, WritesAreFew, NormalPlaces, SetupPlaces, Released,
                  Untouched, Ended, OneTerminalRecord
    <2> QED BY <2>1, <2>2, <2>3, <2>4 DEF Next
  <1> QED BY <1>1, EndInit, PTL DEF Spec

\* However many cancellations hit an attempt, at whichever awaits, and in
\* whatever order its abandoned writes land, its end is recorded once and
\* truly: one terminal record, saved before it is announced, completed only
\* for a drained stream, after the cleanup, and not lost under a shield.
THEOREM EndIsAlwaysRecorded == Spec => []EndIsRecorded
  <1>1. EndInv => EndIsRecorded
    <2> SUFFICES ASSUME EndInv PROVE EndIsRecorded
      OBVIOUS
    <2> USE LifecycleAssumption DEF EndInv
    <2>1. OneTerminalRecord /\ CompletedMeansDrained
      BY DEF WritesAreFew, CompletedMeansDrained
    <2>2. AnnouncedIsSaved
      BY DEF AnnouncedIsSaved, TypeOK, NormalPlaces, SetupPlaces, SetupOnly
    <2>3. CleanupBeforeEnd
      BY DEF CleanupBeforeEnd, Released
    <2>4. ShieldedEndIsTerminal
      BY DEF ShieldedEndIsTerminal, NormalPlaces, Ended, Unprotected, WritesAreFew
    <2> QED BY <2>1, <2>2, <2>3, <2>4 DEF EndIsRecorded
  <1> QED BY <1>1, EndInvariant, PTL

-----------------------------------------------------------------------------
(* Automatic tasks: the inductive invariant                                *)

AutoStages == {"free", "reserved", "claimed", "ended"} \cup Detached
Slots == {"null", "future", "due"}

TaskRows == [exists : BOOLEAN, trigger : Triggers, enabled : BOOLEAN,
             status : {"idle", "running", "failed"}, lease : {"none", "live", "expired"},
             token : Worker \cup {NoWorker, Other}, next : Slots, retries : Nat]
Jobs == [stage : AutoStages, task : AutoTask \cup {"none"}, by : {"none", "trigger", "tick"},
         snap : Triggers, tries : Nat, next : Slots]

AutoTypeOK ==
    /\ task \in [AutoTask -> TaskRows]
    /\ runRow \in [Worker -> {"none", "running", "completed", "failed"}]
    /\ worker \in [Worker -> Jobs]
    /\ reserved \in Nat
    /\ due \subseteq [task : AutoTask, snap : Triggers, tries : Nat]
    /\ abandoned \in [Worker -> {"no", "gone", "interrupted"}]

\* Starts between their reservation and the detaching of their coroutine.
Starting == {w \in Worker : worker[w].stage \in {"reserved", "claimed"}}

\* _RESERVED_SLOTS is the number of these starts, so that a slot given back is
\* one that was taken.
SlotsAreCounted ==
    /\ IsFiniteSet(Starting) /\ IsFiniteSet(Background)
    /\ reserved = Cardinality(Starting)
    /\ RunsAreCapped

\* What the row of a run says, by where its worker is.
RowsFollow ==
    \A w \in Worker :
        /\ worker[w].stage \in {"free", "reserved", "claimed"} => runRow[w] = "none"
        /\ worker[w].stage # "free" => worker[w].task \in AutoTask
        /\ worker[w].stage \in {"written", "recorded", "failed", "marked"} => runRow[w] # "running"
        /\ worker[w].stage = "ended" /\ abandoned[w] = "no" => runRow[w] # "running"

AutoInv == AutoTypeOK /\ SlotsAreCounted /\ RowsFollow

-----------------------------------------------------------------------------
(* Its preservation                                                        *)

\* A row of a task stays one when a claim, a release, an edit or time changes it.
LEMMA RowChanges ==
    ASSUME NEW row \in TaskRows
    PROVE  /\ \A st \in {"idle", "running", "failed"}, token \in Worker \cup {NoWorker, Other},
                 lease \in {"none", "live", "expired"} :
                 [row EXCEPT !.status = st, !.lease = lease, !.token = token] \in TaskRows
           /\ \A st \in {"idle", "failed"}, next \in Slots, retries \in Nat :
                 [row EXCEPT !.status = st, !.next = next, !.retries = retries,
                             !.lease = "none", !.token = NoWorker] \in TaskRows
           /\ \A next \in Slots :
                 [row EXCEPT !.status = "idle", !.lease = "none", !.token = NoWorker,
                             !.next = next] \in TaskRows
           /\ \A trigger \in Triggers : [row EXCEPT !.trigger = trigger] \in TaskRows
           /\ \A next \in Slots : [row EXCEPT !.next = next] \in TaskRows
           /\ [row EXCEPT !.enabled = ~ @] \in TaskRows
           /\ [row EXCEPT !.lease = "expired"] \in TaskRows
           /\ [row EXCEPT !.lease = "live"] \in TaskRows
  BY DEF TaskRows

\* The fields of a worker after WorkerAt.
LEMMA StageMoves ==
    ASSUME AutoTypeOK, NEW w \in Worker, NEW s \in AutoStages, WorkerAt(w, s)
    PROVE  /\ worker' \in [Worker -> Jobs]
           /\ worker'[w].stage = s /\ worker'[w].task = worker[w].task
           /\ \A v \in Worker \ {w} : worker'[v] = worker[v]
  BY DEF AutoTypeOK, Jobs, WorkerAt

\* One worker moves: how the starts and the detached coroutines change.
LEMMA SetsMove ==
    ASSUME AutoTypeOK, worker' \in [Worker -> Jobs], NEW w \in Worker,
           \A v \in Worker \ {w} : worker'[v] = worker[v]
    PROVE  /\ Starting' = IF worker'[w].stage \in {"reserved", "claimed"}
                          THEN Starting \cup {w} ELSE Starting \ {w}
           /\ Background' = IF worker'[w].stage \in Detached
                            THEN Background \cup {w} ELSE Background \ {w}
  BY DEF AutoTypeOK, Starting, Background

\* A worker that moves within a kind of stage, or out of Background, and the
\* counter left alone.
LEMMA QuietSlots ==
    ASSUME AutoInv, worker' \in [Worker -> Jobs], NEW w \in Worker, reserved' = reserved,
           \A v \in Worker \ {w} : worker'[v] = worker[v],
           \/ /\ worker[w].stage \in {"reserved", "claimed"}
              /\ worker'[w].stage \in {"reserved", "claimed"}
           \/ /\ worker[w].stage \in Detached
              /\ worker'[w].stage \in Detached \cup {"ended"}
    PROVE  SlotsAreCounted'
  <1>1. Starting' = Starting
    BY SetsMove DEF AutoInv, Starting, Detached
  <1>2. Background' = Background \/ Background' = Background \ {w}
    BY SetsMove DEF AutoInv, Background, Detached
  <1>3. IsFiniteSet(Background') /\ Cardinality(Background') \in Nat
        /\ Cardinality(Background') <= Cardinality(Background) /\ Cardinality(Background) \in Nat
    <2>1. IsFiniteSet(Background) /\ Cardinality(Background) \in Nat
      BY FS_CardinalityType DEF AutoInv, SlotsAreCounted
    <2>2. /\ IsFiniteSet(Background \ {w}) /\ Cardinality(Background \ {w}) \in Nat
          /\ Cardinality(Background \ {w}) <= Cardinality(Background)
      <3>1. /\ IsFiniteSet(Background \ {w})
            /\ \/ Cardinality(Background \ {w}) = Cardinality(Background)
               \/ Cardinality(Background \ {w}) = Cardinality(Background) - 1
        BY <2>1, FS_RemoveElement, Zenon
      <3>2. Cardinality(Background \ {w}) \in Nat
        BY <3>1, FS_CardinalityType
      <3> QED BY <2>1, <3>1, <3>2
    <2> QED BY <1>2, <2>1, <2>2
  <1> QED
    BY <1>1, <1>3, AutoTaskAssumption
    DEF AutoInv, AutoTypeOK, SlotsAreCounted, RunsAreCapped

\* A worker that gives its slot back, detached or ended.
LEMMA ReleasedSlots ==
    ASSUME AutoInv, worker' \in [Worker -> Jobs], NEW w \in Worker, ReleaseSlot,
           \A v \in Worker \ {w} : worker'[v] = worker[v],
           worker[w].stage \in {"reserved", "claimed"},
           worker'[w].stage \in Detached \cup {"ended", "free"}
    PROVE  SlotsAreCounted' /\ reserved' \in Nat
  <1>1. Starting' = Starting \ {w} /\ w \in Starting
    BY SetsMove DEF AutoInv, Starting, Detached
  <1>2. Background' = Background \cup {w} \/ Background' = Background
    BY SetsMove DEF AutoInv, Background, Detached
  <1>3. IsFiniteSet(Starting') /\ Cardinality(Starting') = Cardinality(Starting) - 1
        /\ Cardinality(Starting) \in Nat /\ Cardinality(Starting') \in Nat
    BY <1>1, FS_RemoveElement, FS_CardinalityType DEF AutoInv, SlotsAreCounted
  <1>4. IsFiniteSet(Background') /\ Cardinality(Background') \in Nat
        /\ Cardinality(Background') <= Cardinality(Background) + 1 /\ Cardinality(Background) \in Nat
    <2>1. IsFiniteSet(Background) /\ Cardinality(Background) \in Nat
      BY FS_CardinalityType DEF AutoInv, SlotsAreCounted
    <2>2. /\ IsFiniteSet(Background \cup {w}) /\ Cardinality(Background \cup {w}) \in Nat
          /\ Cardinality(Background \cup {w}) <= Cardinality(Background) + 1
      <3>1. /\ IsFiniteSet(Background \cup {w})
            /\ \/ Cardinality(Background \cup {w}) = Cardinality(Background)
               \/ Cardinality(Background \cup {w}) = Cardinality(Background) + 1
        BY <2>1, FS_AddElement, Zenon
      <3>2. Cardinality(Background \cup {w}) \in Nat
        BY <3>1, FS_CardinalityType
      <3> QED BY <2>1, <3>1, <3>2
    <2> QED BY <1>2, <2>1, <2>2
  <1>5. reserved' = reserved - 1
    BY <1>3 DEF ReleaseSlot, AutoInv, SlotsAreCounted
  <1> QED
    BY <1>3, <1>4, <1>5, AutoTaskAssumption
    DEF AutoInv, AutoTypeOK, SlotsAreCounted, RunsAreCapped

\* _reserve_run_slot takes a slot that is free.
LEMMA ReserveKeeps ==
    ASSUME AutoInv, NEW w \in Worker, NEW k \in AutoTask, NEW by \in {"trigger", "tick"},
           NEW snap \in Triggers, NEW tries \in Nat, Reserve(w, k, by, snap, tries),
           UNCHANGED <<task, runRow, abandoned>>, due' \subseteq due
    PROVE  AutoInv'
  <1> USE DEF AutoInv
  <1>1. /\ worker' \in [Worker -> Jobs]
        /\ worker'[w].stage = "reserved" /\ worker'[w].task = k
        /\ \A v \in Worker \ {w} : worker'[v] = worker[v]
    BY DEF Reserve, AutoTypeOK, Jobs, NoJob, AutoStages, Slots
  <1>2. worker[w].stage = "free"
    BY DEF Reserve, IsNextWorker
  <1>3. Starting' = Starting \cup {w} /\ w \notin Starting /\ Background' = Background
    BY <1>1, <1>2, SetsMove DEF Starting, Background, Detached
  <1>4. IsFiniteSet(Starting') /\ Cardinality(Starting') = Cardinality(Starting) + 1
        /\ Cardinality(Starting) \in Nat /\ Cardinality(Background) \in Nat
    BY <1>3, FS_AddElement, FS_CardinalityType DEF SlotsAreCounted
  <1>5. SlotsAreCounted'
    BY <1>3, <1>4, AutoTaskAssumption DEF SlotsAreCounted, RunsAreCapped, Reserve, AutoTypeOK
  <1>6. AutoTypeOK'
    BY <1>1 DEF AutoTypeOK, Reserve
  <1>7. RowsFollow'
    BY <1>1, <1>2 DEF RowsFollow, Detached
  <1> QED BY <1>5, <1>6, <1>7

\* What touches neither worker nor slot nor row.
LEMMA RowsOnly ==
    ASSUME AutoInv, UNCHANGED <<runRow, worker, reserved, abandoned>>,
           task' \in [AutoTask -> TaskRows],
           due' \subseteq [task : AutoTask, snap : Triggers, tries : Nat]
    PROVE  AutoInv'
  BY DEF AutoInv, AutoTypeOK, SlotsAreCounted, RowsFollow, Starting, Background, RunsAreCapped

LEMMA TaskEdits ==
    ASSUME AutoInv, NEW k \in AutoTask,
           \/ \E trigger \in Triggers : CreateTask(k, trigger) \/ UpdateTask(k, trigger)
           \/ ToggleTask(k) \/ ComesDue(k) \/ LeaseExpires(k) \/ OtherProcess(k)
    PROVE  AutoInv'
  <1> USE DEF AutoInv
  <1>1. \A trigger \in Triggers : NextRun(trigger) \in Slots
    BY DEF NextRun, Slots
  <1>2. task' \in [AutoTask -> TaskRows]
    <2>1. ASSUME NEW trigger \in Triggers, CreateTask(k, trigger) PROVE task' \in [AutoTask -> TaskRows]
      BY <2>1, <1>1 DEF CreateTask, AutoTypeOK, TaskRows, NoTask
    <2>2. ASSUME NEW trigger \in Triggers, UpdateTask(k, trigger) PROVE task' \in [AutoTask -> TaskRows]
      <3>1. [task[k] EXCEPT !.trigger = trigger] \in TaskRows
        BY RowChanges DEF AutoTypeOK
      <3>2. [[task[k] EXCEPT !.trigger = trigger] EXCEPT !.next = NextRun(trigger)] \in TaskRows
        BY <3>1, <1>1, RowChanges
      <3> QED BY <2>2, <3>1, <3>2 DEF UpdateTask, AutoTypeOK
    <2>3. CASE ToggleTask(k)
      BY <2>3, RowChanges DEF ToggleTask, AutoTypeOK
    <2>4. CASE ComesDue(k) \/ LeaseExpires(k)
      <3>1. /\ [task[k] EXCEPT !.next = "due"] \in TaskRows
            /\ [task[k] EXCEPT !.lease = "expired"] \in TaskRows
        BY RowChanges DEF AutoTypeOK, Slots
      <3> QED BY <2>4, <3>1 DEF ComesDue, LeaseExpires, AutoTypeOK
    <2>5. CASE OtherProcess(k)
      <3>1. task[k] \in TaskRows /\ NextRun(task[k].trigger) \in Slots
        BY <1>1 DEF AutoTypeOK, TaskRows
      <3>2. /\ [task[k] EXCEPT !.status = "running", !.lease = "live", !.token = Other] \in TaskRows
            /\ [task[k] EXCEPT !.status = "idle", !.lease = "none", !.token = NoWorker,
                               !.next = NextRun(task[k].trigger)] \in TaskRows
        BY <3>1, RowChanges
      <3> QED BY <2>5, <3>2 DEF OtherProcess, AutoTypeOK
    <2> QED BY <2>1, <2>2, <2>3, <2>4, <2>5
  <1>3. UNCHANGED <<runRow, worker, reserved, due, abandoned>>
    BY DEF CreateTask, UpdateTask, ToggleTask, ComesDue, LeaseExpires, OtherProcess
  <1> QED BY <1>2, <1>3, RowsOnly DEF AutoTypeOK

\* delete_auto_task takes the rows away.
LEMMA DeleteKeeps ==
    ASSUME AutoInv, NEW k \in AutoTask, DeleteTask(k)
    PROVE  AutoInv'
  <1> USE DEF AutoInv, DeleteTask
  <1>1. AutoTypeOK'
    BY DEF AutoTypeOK, TaskRows, NoTask, Triggers, Slots
  <1>2. SlotsAreCounted'
    BY DEF SlotsAreCounted, Starting, Background, RunsAreCapped
  <1>3. RowsFollow'
    BY DEF RowsFollow, AutoTypeOK
  <1> QED BY <1>1, <1>2, <1>3

\* finish_task leaves rows of tasks.
LEMMA FinishTaskKeeps ==
    ASSUME AutoTypeOK, NEW w \in Worker, NEW status1 \in {"idle", "failed"}, NEW next \in Slots,
           NEW retries \in Nat, FinishTask(w, status1, next, retries)
    PROVE  task' \in [AutoTask -> TaskRows]
  <1>1. ASSUME Owns(w) PROVE task' \in [AutoTask -> TaskRows]
    <2>1. ASSUME worker[w].task \in AutoTask
          PROVE  [task[worker[w].task] EXCEPT !.status = status1, !.next = next,
                    !.retries = retries, !.lease = "none", !.token = NoWorker] \in TaskRows
      BY <2>1, RowChanges DEF AutoTypeOK
    <2> QED BY <1>1, <2>1 DEF AutoTypeOK, FinishTask
  <1> QED BY <1>1 DEF AutoTypeOK, FinishTask

LEMMA FinishRunKeeps ==
    ASSUME AutoTypeOK, NEW w \in Worker, NEW status1 \in {"completed", "failed"}, FinishRun(w, status1)
    PROVE  /\ runRow' \in [Worker -> {"none", "running", "completed", "failed"}]
           /\ runRow'[w] # "running"
           /\ \A v \in Worker \ {w} : runRow'[v] = runRow[v]
  BY DEF AutoTypeOK, FinishRun

LEMMA ScheduleType ==
    ASSUME AutoTypeOK, NEW w \in Worker, worker[w].task \in AutoTask
    PROVE  CurrentSchedule(w) \in Slots
  BY DEF AutoTypeOK, CurrentSchedule, NextRun, Slots, TaskRows, Jobs

LEMMA ClaimKeeps ==
    ASSUME AutoInv, NEW w \in Worker, ClaimTask(w)
    PROVE  AutoInv'
  <1> USE DEF AutoInv, ClaimTask
  <1>1. worker[w].stage = "reserved" /\ worker[w].task \in AutoTask
    BY DEF RowsFollow
  <1>2. CASE Claimable(worker[w].task)
    <2>1. /\ worker' \in [Worker -> Jobs]
          /\ worker'[w].stage = "claimed" /\ worker'[w].task = worker[w].task
          /\ \A v \in Worker \ {w} : worker'[v] = worker[v]
      BY <1>2, StageMoves DEF AutoStages
    <2>2. SlotsAreCounted'
      BY <1>1, <1>2, <2>1, QuietSlots
    <2>3. task' \in [AutoTask -> TaskRows]
      <3>1. [task[worker[w].task] EXCEPT !.status = "running", !.lease = "live",
                                         !.token = w] \in TaskRows
        BY <1>1, RowChanges DEF AutoTypeOK
      <3> QED BY <1>1, <1>2, <3>1 DEF AutoTypeOK
    <2>4. AutoTypeOK'
      BY <1>2, <2>1, <2>3 DEF AutoTypeOK
    <2>5. RowsFollow'
      BY <1>1, <2>1 DEF RowsFollow, Detached
    <2> QED BY <2>2, <2>4, <2>5
  <1>3. CASE ~ Claimable(worker[w].task)
    <2>1. /\ worker' \in [Worker -> Jobs] /\ worker'[w].stage = "free"
          /\ \A v \in Worker \ {w} : worker'[v] = worker[v]
      BY <1>3 DEF AutoTypeOK, Jobs, NoJob, AutoStages, Triggers, Slots
    <2>2. SlotsAreCounted' /\ reserved' \in Nat
      BY <1>1, <1>3, <2>1, ReleasedSlots
    <2>3. AutoTypeOK'
      BY <1>3, <2>1, <2>2 DEF AutoTypeOK
    <2>4. RowsFollow'
      BY <1>1, <2>1 DEF RowsFollow, Detached
    <2> QED BY <2>2, <2>3, <2>4
  <1> QED BY <1>2, <1>3

LEMMA CreateRunKeeps ==
    ASSUME AutoInv, NEW w \in Worker, CreateRun(w)
    PROVE  AutoInv'
  <1> USE DEF AutoInv
  <1>1. /\ worker[w].stage = "claimed" /\ worker[w].task \in AutoTask /\ ReleaseSlot
        /\ runRow[w] = "none" /\ UNCHANGED <<task, due>>
    BY DEF RowsFollow, CreateRun
  <1>2. PICK s \in {"started", "ended"} : WorkerAt(w, s) /\ (s = "ended" => UNCHANGED runRow)
    BY DEF CreateRun
  <1>3. /\ worker' \in [Worker -> Jobs]
        /\ worker'[w].stage = s /\ worker'[w].task = worker[w].task
        /\ \A v \in Worker \ {w} : worker'[v] = worker[v]
    BY <1>2, StageMoves DEF AutoStages, Detached
  <1>4. SlotsAreCounted' /\ reserved' \in Nat
    BY <1>1, <1>3, ReleasedSlots DEF Detached
  <1>5. /\ runRow' \in [Worker -> {"none", "running", "completed", "failed"}]
        /\ abandoned' \in [Worker -> {"no", "gone", "interrupted"}]
        /\ \A v \in Worker \ {w} : runRow'[v] = runRow[v] /\ abandoned'[v] = abandoned[v]
    BY DEF CreateRun, AutoTypeOK
  <1>6. AutoTypeOK'
    BY <1>1, <1>3, <1>4, <1>5 DEF AutoTypeOK
  <1>7. RowsFollow'
    BY <1>1, <1>2, <1>3, <1>5 DEF RowsFollow, Detached
  <1> QED BY <1>4, <1>6, <1>7

\* The steps of a detached coroutine: one worker moves, its row may be decided
\* and its task released.
LEMMA DetachedStep ==
    ASSUME AutoInv, NEW w \in Worker, worker' \in [Worker -> Jobs],
           worker[w].stage \in Detached, worker'[w].stage \in Detached \cup {"ended"},
           worker'[w].task = worker[w].task,
           \A v \in Worker \ {w} : worker'[v] = worker[v],
           task' \in [AutoTask -> TaskRows], UNCHANGED <<reserved, due>>,
           runRow' \in [Worker -> {"none", "running", "completed", "failed"}],
           abandoned' \in [Worker -> {"no", "gone", "interrupted"}],
           \A v \in Worker \ {w} : runRow'[v] = runRow[v] /\ abandoned'[v] = abandoned[v],
           worker'[w].stage \in {"written", "recorded", "failed", "marked"} => runRow'[w] # "running",
           worker'[w].stage = "ended" /\ abandoned'[w] = "no" => runRow'[w] # "running"
    PROVE  AutoInv'
  <1> USE DEF AutoInv
  <1>1. SlotsAreCounted'
    BY QuietSlots
  <1>2. AutoTypeOK'
    BY DEF AutoTypeOK
  <1>3. RowsFollow'
    BY DEF RowsFollow, Detached
  <1> QED BY <1>1, <1>2, <1>3

LEMMA ExecuteKeeps ==
    ASSUME AutoInv, NEW w \in Worker, Execute(w) \/ RecordRun(w) \/ MarkLost(w)
    PROVE  AutoInv'
  <1> USE DEF AutoInv
  <1>0. /\ worker[w].stage \in Detached /\ worker[w].task \in AutoTask
        /\ UNCHANGED <<task, reserved, due, abandoned>>
    BY DEF RowsFollow, Execute, RecordRun, MarkLost, Detached
  <1>1. CASE Execute(w)
    <2>1. /\ worker' \in [Worker -> Jobs] /\ worker'[w].task = worker[w].task
          /\ worker'[w].stage \in Detached
          /\ \A v \in Worker \ {w} : worker'[v] = worker[v]
          /\ worker'[w].stage \in {"written", "recorded", "failed", "marked"} =>
                worker[w].stage = "written"
      <3>1. CASE worker[w].stage = "replied"
        BY <1>0, <1>1, <3>1, ScheduleType DEF Execute, AutoTypeOK, Jobs, AutoStages, Detached
      <3>2. CASE worker[w].stage # "replied"
        <4>1. PICK s \in {"engine", "failing", "replied", "recorded"} :
                 WorkerAt(w, s) /\ (s = "recorded" => worker[w].stage = "written")
          BY <1>1, <3>2 DEF Execute
        <4> QED BY <4>1, StageMoves DEF AutoStages, Detached
      <3> QED BY <3>1, <3>2
    <2>2. UNCHANGED runRow
      BY <1>1 DEF Execute
    <2>3. worker[w].stage = "written" => runRow[w] # "running"
      BY DEF RowsFollow
    <2> QED BY <1>0, <2>1, <2>2, <2>3, DetachedStep DEF AutoTypeOK, Detached
  <1>2. CASE RecordRun(w) \/ MarkLost(w)
    <2>1. PICK s \in {"written", "marked"} : WorkerAt(w, s)
      BY <1>2 DEF RecordRun, MarkLost
    <2>2. /\ worker' \in [Worker -> Jobs]
          /\ worker'[w].stage = s /\ worker'[w].task = worker[w].task
          /\ \A v \in Worker \ {w} : worker'[v] = worker[v]
      BY <2>1, StageMoves DEF AutoStages, Detached
    <2>3. /\ runRow' \in [Worker -> {"none", "running", "completed", "failed"}]
          /\ runRow'[w] # "running"
          /\ \A v \in Worker \ {w} : runRow'[v] = runRow[v]
      BY <1>2, FinishRunKeeps DEF RecordRun, MarkLost
    <2> QED BY <1>0, <2>2, <2>3, DetachedStep DEF AutoTypeOK, Detached
  <1> QED BY <1>1, <1>2

LEMMA FailureKeeps ==
    ASSUME AutoInv, NEW w \in Worker, RecordRunFailure(w)
    PROVE  AutoInv'
  <1> USE DEF AutoInv
  <1>0. /\ worker[w].stage \in Detached /\ worker[w].task \in AutoTask
        /\ UNCHANGED <<task, reserved, due, abandoned>>
    BY DEF RowsFollow, RecordRunFailure, Detached
  <1>1. /\ worker' \in [Worker -> Jobs]
        /\ worker'[w].stage = "failed" /\ worker'[w].task = worker[w].task
        /\ \A v \in Worker \ {w} : worker'[v] = worker[v]
    <2> DEFINE more == worker[w].tries + 1
               retry == worker[w].snap # "manual" /\ more <= MaxRetries
               tries == IF retry THEN more ELSE 0
               next == IF retry THEN "future" ELSE CurrentSchedule(w)
               job1 == [worker[w] EXCEPT !.stage = "failed"]
               job2 == [job1 EXCEPT !.tries = tries]
               job3 == [job2 EXCEPT !.next = next]
    <2>1. tries \in Nat /\ next \in Slots
      BY <1>0, ScheduleType DEF AutoTypeOK, Jobs, Slots
    <2>2. worker' = [worker EXCEPT ![w] = job3]
      BY DEF RecordRunFailure, AutoTypeOK
    <2> HIDE DEF tries, next
    <2>3. job1 \in Jobs /\ job1.stage = "failed" /\ job1.task = worker[w].task
      BY DEF AutoTypeOK, Jobs, AutoStages, Detached
    <2> HIDE DEF job1
    <2>4. job2 \in Jobs /\ job2.stage = "failed" /\ job2.task = worker[w].task
      BY <2>1, <2>3 DEF Jobs
    <2> HIDE DEF job2
    <2>5. job3 \in Jobs /\ job3.stage = "failed" /\ job3.task = worker[w].task
      BY <2>1, <2>4 DEF Jobs
    <2> HIDE DEF job3
    <2> QED BY <2>2, <2>5 DEF AutoTypeOK
  <1>2. /\ runRow' \in [Worker -> {"none", "running", "completed", "failed"}]
        /\ runRow'[w] # "running"
        /\ \A v \in Worker \ {w} : runRow'[v] = runRow[v]
    BY FinishRunKeeps DEF RecordRunFailure
  <1> QED BY <1>0, <1>1, <1>2, DetachedStep DEF AutoTypeOK, Detached

\* The three releases end a worker whose row is decided.
LEMMA ReleaseKeeps ==
    ASSUME AutoInv, NEW w \in Worker, ReleaseTask(w) \/ ReleaseFailed(w) \/ ReleaseLost(w)
    PROVE  AutoInv'
  <1> USE DEF AutoInv
  <1>0. /\ worker[w].stage \in {"recorded", "failed", "marked"} /\ worker[w].task \in AutoTask
        /\ runRow[w] # "running" /\ WorkerAt(w, "ended")
        /\ UNCHANGED <<runRow, reserved, due, abandoned>>
    BY DEF RowsFollow, ReleaseTask, ReleaseFailed, ReleaseLost
  <1>1. /\ worker' \in [Worker -> Jobs]
        /\ worker'[w].stage = "ended" /\ worker'[w].task = worker[w].task
        /\ \A v \in Worker \ {w} : worker'[v] = worker[v]
    BY <1>0, StageMoves DEF AutoStages
  <1>2. task' \in [AutoTask -> TaskRows]
    <2>1. worker[w].next \in Slots /\ worker[w].tries \in Nat /\ CurrentSchedule(w) \in Slots
      BY <1>0, ScheduleType DEF AutoTypeOK, Jobs
    <2>2. CASE ReleaseTask(w)
      BY <2>1, <2>2, FinishTaskKeeps DEF ReleaseTask, AutoTypeOK
    <2>3. CASE ReleaseFailed(w)
      BY <2>1, <2>3, FinishTaskKeeps DEF ReleaseFailed
    <2>4. CASE ReleaseLost(w)
      BY <2>1, <2>4, FinishTaskKeeps DEF ReleaseLost
    <2> QED BY <2>2, <2>3, <2>4
  <1> QED BY <1>0, <1>1, <1>2, DetachedStep DEF AutoTypeOK, Detached

\* A cancellation, wherever it arrives.
LEMMA CancelKeeps ==
    ASSUME AutoInv, NEW w \in Worker, CancelWorker(w)
    PROVE  AutoInv'
  <1> USE DEF AutoInv
  <1>0. /\ worker[w].stage \in Detached
        /\ UNCHANGED <<task, runRow, reserved, due>>
    BY DEF CancelWorker, Detached
  <1>1. PICK s \in {"lost", "ended"} :
          /\ WorkerAt(w, s)
          /\ s = "ended" => worker[w].stage = "recorded" \/ abandoned'[w] = "interrupted"
          /\ abandoned' \in [Worker -> {"no", "gone", "interrupted"}]
          /\ \A v \in Worker \ {w} : abandoned'[v] = abandoned[v]
    BY DEF CancelWorker, AutoTypeOK
  <1>2. /\ worker' \in [Worker -> Jobs]
        /\ worker'[w].stage = s /\ worker'[w].task = worker[w].task
        /\ \A v \in Worker \ {w} : worker'[v] = worker[v]
    BY <1>1, StageMoves DEF AutoStages, Detached
  <1>3. worker[w].stage = "recorded" => runRow[w] # "running"
    BY DEF RowsFollow
  <1> QED BY <1>0, <1>1, <1>2, <1>3, DetachedStep DEF AutoTypeOK, Detached

\* A crash ends every worker, so that no slot is taken and no row is waited for.
LEMMA CrashKeeps ==
    ASSUME AutoInv, CrashAndStart
    PROVE  AutoInv'
  <1> USE DEF AutoInv
  <1> DEFINE alive == {w \in Worker : worker[w].stage \notin {"free", "ended"}}
  <1>1. /\ worker' \in [Worker -> Jobs]
        /\ \A w \in Worker :
              /\ worker'[w].stage \in {"free", "ended"} /\ worker'[w].task = worker[w].task
              /\ w \notin alive => worker'[w] = worker[w]
              /\ w \in alive => worker'[w].stage = "ended"
    <2>1. /\ worker \in [Worker -> Jobs]
          /\ worker' = [w \in Worker |-> IF w \in alive THEN [worker[w] EXCEPT !.stage = "ended"] ELSE worker[w]]
      BY DEF CrashAndStart, AutoTypeOK
    <2>2. \A w \in Worker : w \notin alive => worker[w].stage \in {"free", "ended"}
      OBVIOUS
    <2> HIDE DEF alive
    <2>3. ASSUME NEW w \in Worker
          PROVE  /\ worker'[w] \in Jobs
                 /\ worker'[w].stage \in {"free", "ended"} /\ worker'[w].task = worker[w].task
                 /\ w \notin alive => worker'[w] = worker[w]
                 /\ w \in alive => worker'[w].stage = "ended"
      <3>1. worker[w] \in Jobs
        BY <2>1
      <3>2. CASE w \in alive
        <4>1. worker'[w] = [worker[w] EXCEPT !.stage = "ended"]
          BY ONLY <2>1, <3>2, w \in Worker
        <4> QED  BY ONLY <3>1, <3>2, <4>1 DEF Jobs, AutoStages
      <3>3. CASE w \notin alive
        <4>1. worker'[w] = worker[w]
          BY ONLY <2>1, <3>3, w \in Worker
        <4> QED  BY <2>2, <3>1, <3>3, <4>1
      <3> QED  BY <3>2, <3>3
    <2> QED  BY ONLY <2>1, <2>3
  <1>2. Starting' = {} /\ Background' = {}
    BY <1>1 DEF Starting, Background, Detached
  <1>3. SlotsAreCounted'
    <2>1. reserved' = 0
      BY DEF CrashAndStart
    <2> QED BY <1>2, <2>1, FS_EmptySet, AutoTaskAssumption DEF SlotsAreCounted, RunsAreCapped
  <1>4. task' \in [AutoTask -> TaskRows]
    <2>1. \A k \in AutoTask :
            [task[k] EXCEPT !.status = "idle", !.lease = "none", !.token = NoWorker] \in TaskRows
      BY RowChanges DEF AutoTypeOK
    <2> QED BY <2>1 DEF CrashAndStart, AutoTypeOK
  <1>5. /\ runRow' \in [Worker -> {"none", "running", "completed", "failed"}]
        /\ abandoned' \in [Worker -> {"no", "gone", "interrupted"}]
        /\ \A w \in Worker : /\ runRow'[w] \in {runRow[w], "failed"}
                             /\ runRow[w] # "running" => runRow'[w] = runRow[w]
                             /\ w \in alive => abandoned'[w] = "gone"
                             /\ w \notin alive => abandoned'[w] = abandoned[w]
    BY DEF CrashAndStart, AutoTypeOK
  <1>6. AutoTypeOK'
    BY <1>1, <1>4, <1>5 DEF AutoTypeOK, CrashAndStart
  <1>7. RowsFollow'
    BY <1>1, <1>5 DEF RowsFollow
  <1> QED BY <1>3, <1>6, <1>7

LEMMA RenewKeeps ==
    ASSUME AutoInv, NEW w \in Worker, RenewLease(w)
    PROVE  AutoInv'
  <1>1. worker[w].task \in AutoTask
    BY DEF AutoInv, RowsFollow, RenewLease, Detached
  <1>2. task' \in [AutoTask -> TaskRows]
    BY <1>1, RowChanges DEF RenewLease, AutoInv, AutoTypeOK
  <1> QED BY <1>2, RowsOnly DEF RenewLease, AutoInv, AutoTypeOK

\* The tick: its list is read once and shrinks; what it starts is a reservation.
LEMMA TickKeeps ==
    ASSUME AutoInv, TickRead \/ TickDefer \/ \E w \in Worker : TickStart(w)
    PROVE  AutoInv'
  <1>1. CASE TickRead
    <2>1. due' \subseteq [task : AutoTask, snap : Triggers, tries : Nat]
      BY <1>1 DEF TickRead, DueTasks, AutoInv, AutoTypeOK, TaskRows
    <2> QED BY <1>1, <2>1, RowsOnly DEF TickRead, AutoInv, AutoTypeOK
  <1>2. CASE TickDefer
    <2>1. due' \subseteq due
      BY <1>2 DEF TickDefer
    <2> QED BY <1>2, <2>1, RowsOnly DEF TickDefer, AutoInv, AutoTypeOK
  <1>3. ASSUME NEW w \in Worker, TickStart(w) PROVE AutoInv'
    <2>1. PICK d \in due : Reserve(w, d.task, "tick", d.snap, d.tries) /\ due' = due \ {d}
      BY <1>3 DEF TickStart
    <2>2. d.task \in AutoTask /\ d.snap \in Triggers /\ d.tries \in Nat
      BY DEF AutoInv, AutoTypeOK
    <2> QED BY <1>3, <2>1, <2>2, ReserveKeeps DEF TickStart
  <1> QED BY <1>1, <1>2, <1>3

LEMMA TriggerKeeps ==
    ASSUME AutoInv, NEW w \in Worker, NEW k \in AutoTask, TriggerTask(w, k)
    PROVE  AutoInv'
  <1>1. task[k].trigger \in Triggers /\ task[k].retries \in Nat
    BY DEF AutoInv, AutoTypeOK, TaskRows
  <1> QED BY <1>1, ReserveKeeps DEF TriggerTask

LEMMA AutoStart == AutoInit => AutoInv
  <1> SUFFICES ASSUME AutoInit PROVE AutoInv
    OBVIOUS
  <1>1. AutoTypeOK
    BY DEF AutoInit, AutoTypeOK, TaskRows, Jobs, NoTask, NoJob, AutoStages, Triggers, Slots
  <1>2. Starting = {} /\ Background = {}
    BY DEF AutoInit, Starting, Background, NoJob, Detached
  <1>3. SlotsAreCounted
    BY <1>2, FS_EmptySet, AutoTaskAssumption DEF SlotsAreCounted, RunsAreCapped, AutoInit
  <1>4. RowsFollow
    BY DEF RowsFollow, AutoInit, NoJob
  <1> QED BY <1>1, <1>3, <1>4 DEF AutoInv

\* Every step of the scheduler, of a trigger, of a worker or of another
\* process keeps AutoInv.
LEMMA AutoStep == AutoInv /\ [AutoNext]_autoVars => AutoInv'
  <1> SUFFICES ASSUME AutoInv, [AutoNext]_autoVars PROVE AutoInv'
    OBVIOUS
  <1>1. ASSUME NEW k \in AutoTask, NEW trigger \in Triggers, CreateTask(k, trigger) \/ UpdateTask(k, trigger)
        PROVE  AutoInv'
    BY <1>1, TaskEdits
  <1>2. ASSUME NEW k \in AutoTask,
               ToggleTask(k) \/ DeleteTask(k) \/ ComesDue(k) \/ LeaseExpires(k) \/ OtherProcess(k)
        PROVE  AutoInv'
    BY <1>2, TaskEdits, DeleteKeeps
  <1>3. CASE TickRead \/ TickDefer \/ \E w \in Worker : TickStart(w)
    BY <1>3, TickKeeps
  <1>4. ASSUME NEW w \in Worker, NEW k \in AutoTask, TriggerTask(w, k) PROVE AutoInv'
    BY <1>4, TriggerKeeps
  <1>5. ASSUME NEW w \in Worker, WorkerStep(w) PROVE AutoInv'
    BY <1>5, ClaimKeeps, CreateRunKeeps, ExecuteKeeps, FailureKeeps, ReleaseKeeps DEF WorkerStep
  <1>6. ASSUME NEW w \in Worker, RenewLease(w) \/ RenewalLost(w) \/ CancelHealthy(w)
        PROVE  AutoInv'
    BY <1>6, RenewKeeps, CancelKeeps DEF RenewalLost, CancelHealthy
  <1>7. CASE CrashAndStart
    BY <1>7, CrashKeeps
  <1>8. CASE UNCHANGED autoVars
    BY <1>8, RowsOnly DEF autoVars, AutoInv, AutoTypeOK
  <1> QED BY <1>1, <1>2, <1>3, <1>4, <1>5, <1>6, <1>7, <1>8 DEF AutoNext

\* AutoInv is an invariant of the automatic tasks.
THEOREM AutoInvariant == AutoSpec => []AutoInv
  BY AutoStart, AutoStep, PTL DEF AutoSpec

\* Every run of an automatic task is accounted for, for any number of tasks
\* and starts: triggers and ticks that overlap never drive more than
\* _MAX_CONCURRENT_RUNS turns, and a worker that has ended leaves no row
\* 'running' unless it died, the database failed or a handler was cancelled.
THEOREM RunsAreAlwaysAccounted == AutoSpec => []RunsAreAccounted
  <1>1. AutoInv => RunsAreAccounted
    BY DEF AutoInv, SlotsAreCounted, RowsFollow, RunsAreAccounted, RowsAreSettled
  <1> QED BY <1>1, AutoInvariant, PTL

\* The outcome of a run is final: no second ending, late cancellation or reset
\* at startup changes what finish_run wrote first.
THEOREM OutcomesAreFinal == AutoSpec => OutcomeIsFinal
  <1> DEFINE Kept == \A w \in Worker :
               runRow[w] \in {"completed", "failed"} => runRow'[w] \in {runRow[w], "none"}
  <1>1. ASSUME AutoInv, [AutoNext]_autoVars PROVE Kept
    <2>1. ASSUME NEW k \in AutoTask, DeleteTask(k) PROVE Kept
      BY <1>1, <2>1 DEF DeleteTask, AutoInv, AutoTypeOK
    <2>2. ASSUME NEW w \in Worker, CreateRun(w) PROVE Kept
      BY <1>1, <2>2 DEF CreateRun, AutoInv, AutoTypeOK, RowsFollow
    <2>3. ASSUME NEW w \in Worker, NEW st, FinishRun(w, st) PROVE Kept
      BY <1>1, <2>3 DEF FinishRun, AutoInv, AutoTypeOK
    <2>4. CASE CrashAndStart
      BY <1>1, <2>4 DEF CrashAndStart, AutoInv, AutoTypeOK
    <2>5. CASE UNCHANGED runRow
      BY <2>5
    <2>6. ASSUME NEW w \in Worker, WorkerStep(w) \/ RenewLease(w) \/ RenewalLost(w) \/ CancelHealthy(w)
          PROVE  Kept
      BY <2>6, <2>2, <2>3, <2>5
      DEF WorkerStep, ClaimTask, Execute, RecordRun, ReleaseTask, RecordRunFailure, ReleaseFailed,
          MarkLost, ReleaseLost, RenewLease, RenewalLost, CancelHealthy, CancelWorker
    <2>7. ASSUME NEW w \in Worker, TickStart(w) \/ \E k \in AutoTask : TriggerTask(w, k)
          PROVE  UNCHANGED runRow
      BY <2>7 DEF TickStart, TriggerTask
    <2>8. CASE TickRead \/ TickDefer
      BY <2>5, <2>8 DEF TickRead, TickDefer
    <2>9. ASSUME NEW k \in AutoTask,
                 \/ \E trigger \in Triggers : CreateTask(k, trigger) \/ UpdateTask(k, trigger)
                 \/ ToggleTask(k) \/ ComesDue(k) \/ LeaseExpires(k) \/ OtherProcess(k)
          PROVE  UNCHANGED runRow
      BY <2>9 DEF CreateTask, UpdateTask, ToggleTask, ComesDue, LeaseExpires, OtherProcess
    <2>10. CASE UNCHANGED autoVars
      BY <2>5, <2>10 DEF autoVars
    <2> QED BY <1>1, <2>1, <2>4, <2>5, <2>6, <2>7, <2>8, <2>9, <2>10 DEF AutoNext
  <1>2. AutoInv /\ [AutoNext]_autoVars => [Kept]_autoVars
    BY <1>1
  <1> QED BY <1>2, AutoInvariant, PTL DEF AutoSpec, OutcomeIsFinal

-----------------------------------------------------------------------------
(* McpStdio: the pipe                                                      *)

Lines == [id : Nat, of : Nat]

StdioTypeOK ==
    /\ requestId \in 0 .. MaxRequests
    /\ waiting \in 0 .. MaxRequests
    /\ owed \subseteq Request
    /\ pipe \in Seq(Lines)
    /\ broken \in BOOLEAN
    /\ answer \in [Request -> Nat]

\* A line with the id of a request is its answer or a fragment.
Framed(lines) ==
    \A i \in 1 .. Len(lines) :
        lines[i].id \in Request =>
            \/ lines[i].of = lines[i].id
            \/ \E j \in 1 .. i - 1 : lines[j] = Oversized

\* A retired transport holds no request, and one that is in use is in frame.
RetiredIsIdle ==
    /\ broken => waiting = 0
    /\ ~ broken => Framed(pipe)

StdioInv == StdioTypeOK /\ RetiredIsIdle /\ AnswerIsOwn

\* Every line the server writes has the shape of a line, and neither an oversized
\* one nor one that is not JSON carries the id of a request.
LEMMA LineTypes ==
    ASSUME StdioTypeOK
    PROVE  /\ Oversized \in Lines /\ NotJson \in Lines /\ Line(0, 0) \in Lines
           /\ \A r \in Request, o \in Request \cup {0} : Line(r, o) \in Lines
           /\ Oversized.id \notin Request /\ NotJson.id \notin Request
           /\ NotJson # Oversized
  BY StdioAssumption DEF StdioTypeOK, Lines, Line, Oversized, NotJson, Request

\* A line that is nobody's fragment keeps the pipe in frame.
LEMMA AppendKeepsFrame ==
    ASSUME NEW lines \in Seq(Lines), NEW line \in Lines, Framed(lines),
           line.id \in Request => line.of = line.id
    PROVE  Append(lines, line) \in Seq(Lines) /\ Framed(Append(lines, line))
  <1> DEFINE more == Append(lines, line)
  <1>1. /\ more \in Seq(Lines) /\ Len(more) = Len(lines) + 1 /\ Len(lines) \in Nat
        /\ \A i \in 1 .. Len(lines) : more[i] = lines[i]
        /\ more[Len(lines) + 1] = line
    OBVIOUS
  <1> HIDE DEF more
  <1>2. ASSUME NEW i \in 1 .. Len(more), more[i].id \in Request
        PROVE  more[i].of = more[i].id \/ \E j \in 1 .. i - 1 : more[j] = Oversized
    <2>1. CASE i = Len(lines) + 1
      BY <1>1, <1>2, <2>1
    <2>2. CASE i # Len(lines) + 1
      <3>1. i \in 1 .. Len(lines) /\ more[i] = lines[i]
        BY <1>1, <2>2
      <3>2. \A j \in 1 .. i - 1 : more[j] = lines[j]
        BY <1>1, <3>1
      <3> QED BY <1>2, <3>1, <3>2 DEF Framed
    <2> QED BY <2>1, <2>2
  <1>3. Framed(more)
    BY <1>2 DEF Framed
  <1> QED BY <1>1, <1>3 DEF more

\* So does an oversized line with the fragment that follows it.
LEMMA FragmentKeepsFrame ==
    ASSUME StdioTypeOK, NEW lines \in Seq(Lines), NEW id \in Request, Framed(lines)
    PROVE  /\ lines \o <<Oversized, Line(id, 0)>> \in Seq(Lines)
           /\ Framed(lines \o <<Oversized, Line(id, 0)>>)
  <1> DEFINE more == lines \o <<Oversized, Line(id, 0)>>
  <1>0. Oversized \in Lines /\ Line(id, 0) \in Lines /\ Oversized.id \notin Request
    BY LineTypes
  <1>1. /\ more \in Seq(Lines) /\ Len(more) = Len(lines) + 2 /\ Len(lines) \in Nat
        /\ \A i \in 1 .. Len(lines) : more[i] = lines[i]
        /\ more[Len(lines) + 1] = Oversized
    BY <1>0
  <1> HIDE DEF more
  <1>2. ASSUME NEW i \in 1 .. Len(more), more[i].id \in Request
        PROVE  more[i].of = more[i].id \/ \E j \in 1 .. i - 1 : more[j] = Oversized
    <2>1. CASE i = Len(lines) + 2
      <3>1. Len(lines) + 1 \in 1 .. i - 1
        BY <1>1, <2>1
      <3> QED BY <1>1, <3>1
    <2>2. CASE i = Len(lines) + 1
      BY <1>0, <1>1, <1>2, <2>2
    <2>3. CASE i # Len(lines) + 2 /\ i # Len(lines) + 1
      <3>1. i \in 1 .. Len(lines) /\ more[i] = lines[i]
        BY <1>1, <2>3
      <3>2. \A j \in 1 .. i - 1 : more[j] = lines[j]
        BY <1>1, <3>1
      <3> QED BY <1>2, <3>1, <3>2 DEF Framed
    <2> QED BY <2>1, <2>2, <2>3
  <1>3. Framed(more)
    BY <1>2 DEF Framed
  <1> QED BY <1>1, <1>3 DEF more

\* Reading any other line leaves the rest in frame.
LEMMA TailKeepsFrame ==
    ASSUME NEW lines \in Seq(Lines), lines # <<>>, Framed(lines), Head(lines) # Oversized
    PROVE  Framed(Tail(lines))
  <1> DEFINE rest == Tail(lines)
  <1>1. /\ rest \in Seq(Lines) /\ Len(rest) = Len(lines) - 1 /\ Len(lines) \in Nat \ {0}
        /\ \A i \in 1 .. Len(rest) : rest[i] = lines[i + 1]
        /\ lines[1] # Oversized
    OBVIOUS
  <1> HIDE DEF rest
  <1>2. ASSUME NEW i \in 1 .. Len(rest), rest[i].id \in Request, rest[i].of # rest[i].id
        PROVE  \E j \in 1 .. i - 1 : rest[j] = Oversized
    <2>1. i + 1 \in 1 .. Len(lines) /\ rest[i] = lines[i + 1]
      BY <1>1
    <2>2. PICK j \in 1 .. i : lines[j] = Oversized
      BY <1>2, <2>1 DEF Framed
    <2>3. j - 1 \in 1 .. i - 1 /\ rest[j - 1] = lines[j]
      BY <1>1, <2>2
    <2> QED BY <2>2, <2>3
  <1> QED BY <1>2 DEF Framed, rest

\* The invariant holds in an empty pipe.
LEMMA StdioInvInit == StdioInit => StdioInv
  <1> SUFFICES ASSUME StdioInit PROVE StdioInv
    OBVIOUS
  <1>1. pipe = <<>> /\ waiting = 0 /\ broken = FALSE
    BY DEF StdioInit
  <1>2. RetiredIsIdle
    BY <1>1 DEF RetiredIsIdle, Framed
  <1>3. pipe \in Seq(Lines)
    BY <1>1
  <1>4. answer \in [Request -> Nat] /\ AnswerIsOwn
    BY StdioAssumption DEF StdioInit, AnswerIsOwn
  <1>5. requestId \in 0 .. MaxRequests /\ waiting \in 0 .. MaxRequests /\ owed \subseteq Request
    BY StdioAssumption DEF StdioInit
  <1>6. broken \in BOOLEAN
    BY <1>1
  <1> QED BY <1>2, <1>3, <1>4, <1>5, <1>6 DEF StdioInv, StdioTypeOK

\* Whatever a request returns, it gives the lock back.
LEMMA ReturnKeeps ==
    ASSUME StdioInv, waiting # 0, NEW result \in {waiting, Failed}, Return(result),
           pipe' \in Seq(Lines), broken' \in BOOLEAN, ~ broken' => Framed(pipe')
    PROVE  StdioInv'
  <1>1. /\ requestId' \in 0 .. MaxRequests /\ waiting' = 0 /\ owed' \subseteq Request
        /\ answer' \in [Request -> Nat]
    BY StdioAssumption DEF StdioInv, StdioTypeOK, Return, Request, Failed
  <1>2. AnswerIsOwn'
    BY StdioAssumption DEF StdioInv, StdioTypeOK, Return, AnswerIsOwn, Request, Failed
  <1> QED BY <1>1, <1>2, StdioAssumption DEF StdioInv, StdioTypeOK, RetiredIsIdle

\* Every step of the server and of the transport keeps the invariant.
LEMMA StdioInvStep == StdioInv /\ [StdioNext]_stdioVars => StdioInv'
  <1> SUFFICES ASSUME StdioInv, [StdioNext]_stdioVars PROVE StdioInv'
    OBVIOUS
  <1>0. StdioTypeOK /\ RetiredIsIdle /\ AnswerIsOwn
    BY DEF StdioInv
  <1>1. CASE ServerWrites
    <2>1. UNCHANGED <<requestId, waiting, broken, answer>> /\ owed' \subseteq Request
      BY <1>0, <1>1 DEF ServerWrites, StdioTypeOK
    <2>2. pipe' \in Seq(Lines) /\ (Framed(pipe) => Framed(pipe'))
      <3>1. CASE \E r \in owed : pipe' = Append(pipe, Line(r, r))
        <4>1. PICK r \in owed : pipe' = Append(pipe, Line(r, r))
          BY <3>1
        <4>2. Line(r, r) \in Lines /\ Line(r, r).of = Line(r, r).id
          BY <1>0, LineTypes DEF StdioTypeOK, Line
        <4> QED BY <1>0, <4>1, <4>2, AppendKeepsFrame DEF StdioTypeOK
      <3>2. CASE pipe' = Append(pipe, Line(0, 0))
        <4>1. Line(0, 0) \in Lines /\ Line(0, 0).of = Line(0, 0).id
          BY <1>0, LineTypes DEF Line
        <4> QED BY <1>0, <3>2, <4>1, AppendKeepsFrame DEF StdioTypeOK
      <3>3. CASE pipe' = Append(pipe, NotJson)
        BY <1>0, <3>3, LineTypes, AppendKeepsFrame DEF StdioTypeOK
      <3>4. CASE \E r \in owed, id \in Request : pipe' = pipe \o <<Oversized, Line(id, 0)>>
        <4>1. PICK id \in Request : pipe' = pipe \o <<Oversized, Line(id, 0)>>
          BY <3>4
        <4>2. Line(id, 0) \in Lines /\ Oversized \in Lines
          BY <1>0, LineTypes
        <4> QED BY <1>0, <4>1, <4>2, FragmentKeepsFrame DEF StdioTypeOK
      <3> QED BY <1>1, <3>1, <3>2, <3>3, <3>4 DEF ServerWrites
    <2> QED BY <1>0, <2>1, <2>2 DEF StdioInv, StdioTypeOK, RetiredIsIdle, AnswerIsOwn
  <1>2. CASE ServerExits \/ Tick
    BY <1>0, <1>2 DEF StdioInv, ServerExits, Tick, StdioTypeOK, RetiredIsIdle, Framed, AnswerIsOwn
  <1>3. CASE SendRequest
    <2>1. requestId' \in Request /\ requestId' \in 0 .. MaxRequests /\ UNCHANGED <<pipe, broken>>
      BY <1>0, <1>3, StdioAssumption DEF SendRequest, StdioTypeOK, Request
    <2>2. /\ waiting' \in 0 .. MaxRequests /\ owed' \subseteq Request
          /\ broken => waiting' = 0
      BY <1>0, <1>3, <2>1 DEF SendRequest, StdioTypeOK, RetiredIsIdle
    <2>3. answer' \in [Request -> Nat] /\ AnswerIsOwn'
      BY <1>0, <1>3, <2>1, StdioAssumption DEF SendRequest, StdioTypeOK, AnswerIsOwn, Failed
    <2> QED BY <1>0, <2>1, <2>2, <2>3 DEF StdioInv, StdioTypeOK, RetiredIsIdle, Framed
  <1>4. CASE ReadLine
    <2> DEFINE line == Head(pipe)
    <2>1. /\ waiting # 0 /\ pipe # <<>> /\ pipe' = Tail(pipe) /\ ~ broken
          /\ pipe' \in Seq(Lines) /\ waiting \in Request /\ line = pipe[1] /\ 1 \in 1 .. Len(pipe)
      BY <1>0, <1>4 DEF ReadLine, StdioTypeOK, RetiredIsIdle, Request
    <2>2. CASE line = Oversized /\ Retire /\ Return(Failed)
      <3>1. Return(Failed) /\ broken' = TRUE
        BY <2>2 DEF Retire
      <3> QED BY <2>1, <3>1, ReturnKeeps
    <2>3. CASE line # Oversized
      <3>1. Framed(pipe')
        BY <1>0, <2>1, <2>3, TailKeepsFrame DEF StdioTypeOK, RetiredIsIdle
      <3>2. CASE Return(Failed) /\ UNCHANGED broken
        BY <1>0, <2>1, <3>1, <3>2, ReturnKeeps DEF StdioTypeOK
      <3>3. CASE IsOwn(line) /\ Return(IF line.of = 0 THEN Foreign ELSE line.of) /\ UNCHANGED broken
        <4>1. line.of = waiting
          BY <1>0, <2>1, <3>3 DEF IsOwn, RetiredIsIdle, Framed
        <4>2. Return(waiting)
          BY <2>1, <3>3, <4>1 DEF Request
        <4> QED BY <1>0, <2>1, <3>1, <3>3, <4>2, ReturnKeeps DEF StdioTypeOK
      <3>4. CASE UNCHANGED <<requestId, waiting, owed, broken, eof, answer>>
        BY <1>0, <2>1, <3>1, <3>4 DEF StdioInv, StdioTypeOK, RetiredIsIdle, AnswerIsOwn
      <3> QED BY <1>4, <2>3, <3>2, <3>3, <3>4 DEF ReadLine
    <2> QED BY <1>4, <2>2, <2>3, <1>0, LineTypes DEF ReadLine
  <1>5. CASE Stall \/ ReadEof \/ CancelRequest
    <2>1. waiting # 0 /\ Return(Failed) /\ UNCHANGED <<pipe, broken>>
      BY <1>5 DEF Stall, ReadEof, CancelRequest
    <2>2. pipe' \in Seq(Lines) /\ broken' \in BOOLEAN /\ (~ broken' => Framed(pipe'))
      BY <1>0, <2>1 DEF StdioTypeOK, RetiredIsIdle
    <2> QED BY <2>1, <2>2, ReturnKeeps
  <1>6. CASE Expire
    <2>1. waiting # 0 /\ Return(Failed) /\ broken' = TRUE /\ UNCHANGED pipe
      BY <1>6 DEF Expire, Retire
    <2>2. pipe' \in Seq(Lines)
      BY <1>0, <2>1 DEF StdioTypeOK
    <2> QED BY <2>1, <2>2, ReturnKeeps
  <1>7. CASE UNCHANGED stdioVars
    BY <1>0, <1>7 DEF StdioInv, stdioVars, StdioTypeOK, RetiredIsIdle, Framed, AnswerIsOwn
  <1> QED BY <1>1, <1>2, <1>3, <1>4, <1>5, <1>6, <1>7 DEF StdioNext

\* A call over the shared pipe returns its own answer or an error, whatever the
\* server writes and whenever the call is cancelled or times out.
THEOREM AnswersAreOwn == StdioSpec => []AnswerIsOwn
  <1>1. StdioInv => AnswerIsOwn
    BY DEF StdioInv
  <1> QED BY <1>1, StdioInvInit, StdioInvStep, PTL DEF StdioSpec

-----------------------------------------------------------------------------
(* SubAgents: budget and containment                                       *)

\* The shapes the two arguments use.
ShapeInv ==
    /\ IsFiniteSet(Tasks)
    /\ DOMAIN step = Tasks /\ DOMAIN agentEnd = Tasks
    /\ DOMAIN report = Tasks /\ DOMAIN failure = Tasks
    /\ spent \in Nat /\ width \in Nat
    /\ parent = "asking" => Tasks = {} /\ spent = 0

\* At most width agents hold a permit; once the budget has run out, what they
\* may still be charged for fits the overrun that is allowed.
Owed == spent + Cardinality(Active) * MaxCharge
BudgetInv ==
    /\ Cardinality(Active) <= width
    /\ Exhausted => Owed < BatchBudget + width * MaxCharge

\* What a type of the catalog may use, and who may run.
CatalogIsSafe ==
    \A id \in DOMAIN catalog : catalog[id].tools # {} /\ Spawn \notin catalog[id].tools
ActiveIsKnown == \A t \in Active : Known(types[t])

\* An agent that ended well has its report, and has met no failure.
OkIsEarned ==
    \A t \in Tasks : agentEnd[t] = "ok" => step[t] = "done" /\ report[t] = TRUE
                                                            /\ failure[t] = FALSE
DeliveredIsAll ==
    parent = "returned" => delivered = {<<t, agentEnd[t]>> : t \in Tasks}

ContainedInv ==
    CatalogIsSafe /\ ActiveIsKnown /\ OkIsEarned /\ DeliveredIsAll /\ NothingOutlivesTheTurn

SubInv == ShapeInv /\ BudgetInv /\ ContainedInv

-----------------------------------------------------------------------------
(* The budget                                                              *)

LEMMA Constants == BatchBudget \in Nat /\ BatchBudget > 0 /\ MaxCharge \in Nat
  BY SubAgentsAssumption

\* A set of agents that loses one, or does not grow, keeps its bounds.
LEMMA ActiveShrinks ==
  ASSUME ShapeInv, NEW S \in SUBSET Active
  PROVE  /\ IsFiniteSet(Active) /\ IsFiniteSet(S)
         /\ Cardinality(Active) \in Nat /\ Cardinality(S) \in Nat
         /\ Cardinality(S) <= Cardinality(Active)
  <1>1. IsFiniteSet(Active)
    BY FS_Subset DEF ShapeInv, Active
  <1>2. IsFiniteSet(S) /\ Cardinality(S) <= Cardinality(Active)
    BY <1>1, FS_Subset
  <1> QED BY <1>1, <1>2, FS_CardinalityType

LEMMA ActiveLoses ==
  ASSUME ShapeInv, NEW t \in Active
  PROVE  Cardinality(Active \ {t}) = Cardinality(Active) - 1
  BY ActiveShrinks, FS_RemoveElement

\* One factor of a product grows, or grows by one.
LEMMA TimesGrows ==
  ASSUME NEW a \in Nat, NEW b \in Nat, NEW c \in Nat, a <= b
  PROVE  a * c \in Nat /\ b * c \in Nat /\ a * c <= b * c
  <1>1. PICK d \in Nat : b = a + d
    BY SMT
  <1>2. b * c = a * c + d * c
    BY <1>1, SMT
  <1>3. a * c \in Nat /\ d * c \in Nat /\ b * c \in Nat
    BY <1>1, SMT
  <1> QED BY <1>2, <1>3, SMT

LEMMA TimesLoses ==
  ASSUME NEW a \in Nat, NEW c \in Nat, a > 0
  PROVE  (a - 1) * c \in Nat /\ a * c \in Nat /\ a * c = (a - 1) * c + c
  BY SMT

\* No tokens are charged and no agent starts.
LEMMA BudgetKeeps ==
  ASSUME ShapeInv, BudgetInv, spent' = spent, width' = width,
         Active' \subseteq Active
  PROVE  BudgetInv'
  <1> DEFINE a == Cardinality(Active)
             b == Cardinality(Active')
  <1>1. a \in Nat /\ b \in Nat /\ b <= a
    BY ActiveShrinks
  <1>2. b * MaxCharge \in Nat /\ a * MaxCharge \in Nat /\ b * MaxCharge <= a * MaxCharge
    BY <1>1, TimesGrows, Constants
  <1>3. width * MaxCharge \in Nat
    BY Constants, TimesGrows DEF ShapeInv
  <1>4. Cardinality(Active') <= width'
    BY <1>1 DEF BudgetInv, ShapeInv
  <1>5. ASSUME Exhausted' PROVE Owed' < BatchBudget + width' * MaxCharge
    <2>1. spent + a * MaxCharge < BatchBudget + width * MaxCharge
      BY <1>5 DEF BudgetInv, Exhausted, Owed
    <2>2. spent + b * MaxCharge < BatchBudget + width * MaxCharge
      BY <1>2, <1>3, <2>1, Constants DEF ShapeInv
    <2> QED BY <2>2 DEF Owed
  <1> QED BY <1>4, <1>5 DEF BudgetInv

\* An agent is charged once more, and stops if the budget has run out by then.
LEMMA BudgetCharges ==
  ASSUME ShapeInv, BudgetInv, NEW t \in Active, NEW tokens \in 1 .. MaxCharge,
         spent' = spent + tokens, width' = width, Active' \subseteq Active,
         spent' >= BatchBudget => Active' = Active \ {t}
  PROVE  BudgetInv'
  <1> DEFINE a == Cardinality(Active)
             b == Cardinality(Active')
  <1>1. a \in Nat /\ b \in Nat /\ b <= a /\ a <= width /\ width \in Nat /\ spent \in Nat
    BY ActiveShrinks DEF BudgetInv, ShapeInv
  <1>2. tokens \in Nat /\ tokens <= MaxCharge
    BY Constants
  <1>3. ASSUME Exhausted' PROVE Owed' < BatchBudget + width' * MaxCharge
    <2>1. b = a - 1
      BY <1>3, ActiveLoses DEF Exhausted
    <2>2. /\ b * MaxCharge \in Nat /\ a * MaxCharge \in Nat
          /\ a * MaxCharge = b * MaxCharge + MaxCharge
      BY <1>1, <2>1, TimesLoses, Constants
    <2>3. width * MaxCharge \in Nat /\ a * MaxCharge <= width * MaxCharge
      BY <1>1, TimesGrows, Constants
    <2>4. CASE Exhausted
      <3>1. spent + a * MaxCharge < BatchBudget + width * MaxCharge
        BY <2>4 DEF BudgetInv, Owed
      <3>2. spent + tokens + b * MaxCharge < BatchBudget + width * MaxCharge
        BY <1>1, <1>2, <2>2, <2>3, <3>1, Constants
      <3> QED BY <3>2 DEF Owed
    <2>5. CASE spent < BatchBudget
      <3>1. spent + tokens + b * MaxCharge < BatchBudget + width * MaxCharge
        BY <1>1, <1>2, <2>2, <2>3, <2>5, Constants
      <3> QED BY <3>1 DEF Owed
    <2> QED BY <1>1, <2>4, <2>5, Constants DEF Exhausted
  <1> QED BY <1>1, <1>3 DEF BudgetInv

-----------------------------------------------------------------------------
(* The catalog                                                             *)

\* A type that is loaded has a tool, and none spawns agents.
LEMMA LoadIsSafe ==
  ASSUME NEW dir, NEW id \in DOMAIN Load(dir)
  PROVE  Load(dir)[id].tools # {} /\ Spawn \notin Load(dir)[id].tools
  <1>1. CASE ~ Loads(dir)
    BY <1>1 DEF Load
  <1>2. CASE Loads(dir)
    <2> DEFINE Read == UNION {ParseSpec(doc) : doc \in {d \in dir : d.id = id}}
    <2>1. id \in {doc.id : doc \in dir} /\ Load(dir)[id] = CHOOSE spec \in Read : TRUE
      BY <1>2 DEF Load
    <2>2. PICK doc \in dir : doc.id = id
      BY <2>1
    <2>3. \E spec \in Read : TRUE
      BY <1>2, <2>2 DEF Loads
    <2>4. Load(dir)[id] \in Read
      BY <2>1, <2>3
    <2>5. PICK from \in dir : Load(dir)[id] \in ParseSpec(from)
      BY <2>4
    <2>6. from.tools \ {Spawn} # {} /\ Load(dir)[id].tools = from.tools \ {Spawn}
      BY <2>5 DEF ParseSpec
    <2> QED BY <2>6
  <1> QED BY <1>1, <1>2

-----------------------------------------------------------------------------
(* Every step                                                              *)

LEMMA SubInvInit == SubInit => SubInv
  <1> SUFFICES ASSUME SubInit PROVE SubInv
    OBVIOUS
  <1>1. Tasks = {} /\ Active = {} /\ spent = 0 /\ width = 0 /\ parent = "asking"
    BY DEF SubInit, Tasks, Active
  <1>2. ShapeInv
    BY <1>1, FS_EmptySet DEF SubInit, ShapeInv
  <1>3. BudgetInv
    BY <1>1, FS_EmptySet, Constants DEF BudgetInv, Exhausted
  <1>4. CatalogIsSafe
    BY LoadIsSafe DEF SubInit, CatalogIsSafe
  <1>5. ContainedInv
    BY <1>1, <1>4
    DEF ContainedInv, ActiveIsKnown, OkIsEarned, DeliveredIsAll, NothingOutlivesTheTurn
  <1> QED BY <1>2, <1>3, <1>5 DEF SubInv

\* An agent gives its permit back.
LEMMA EndsKeeps ==
  ASSUME SubInv, NEW t \in Tasks, NEW result, Ends(t, result),
         step[t] # "done", parent \in {"running", "cancelling"},
         UNCHANGED report, spent' \in Nat,
         \A u \in Tasks \ {t} : failure'[u] = failure[u],
         DOMAIN failure' = Tasks,
         result = "ok" => report[t] = TRUE /\ failure'[t] = FALSE
  PROVE  ShapeInv' /\ ContainedInv' /\ Active' = Active \ {t}
  <1>1. /\ catalog' = catalog /\ parent' = parent /\ types' = types /\ width' = width
        /\ delivered' = delivered /\ Tasks' = Tasks
        /\ step' = [step EXCEPT ![t] = "done"]
        /\ agentEnd' = [agentEnd EXCEPT ![t] = result]
    BY DEF Ends, Tasks
  <1>2. ShapeInv'
    BY <1>1 DEF SubInv, ShapeInv
  <1>3. Active' = Active \ {t}
    BY <1>1 DEF SubInv, ShapeInv, Active
  <1>4. CatalogIsSafe' /\ ActiveIsKnown'
    BY <1>1, <1>3 DEF SubInv, ContainedInv, CatalogIsSafe, ActiveIsKnown, Known
  <1>5. OkIsEarned'
    BY <1>1 DEF SubInv, ShapeInv, ContainedInv, OkIsEarned
  <1>6. DeliveredIsAll' /\ NothingOutlivesTheTurn'
    BY <1>1 DEF DeliveredIsAll, NothingOutlivesTheTurn
  <1> QED BY <1>2, <1>3, <1>4, <1>5, <1>6 DEF ContainedInv

\* It does so without a charge.
LEMMA QuietEndKeeps ==
  ASSUME SubInv, NEW t \in Tasks, NEW result, Ends(t, result),
         step[t] # "done", parent \in {"running", "cancelling"}, UNCHANGED batchVars,
         result = "ok" => report[t] = TRUE /\ failure[t] = FALSE
  PROVE  SubInv'
  <1>1. /\ report' = report /\ failure' = failure /\ spent' = spent /\ spent \in Nat
        /\ DOMAIN failure = Tasks /\ width' = width
    BY DEF batchVars, SubInv, ShapeInv, Ends
  <1>2. ShapeInv' /\ ContainedInv' /\ Active' = Active \ {t}
    BY <1>1, EndsKeeps
  <1>3. BudgetInv'
    BY <1>1, <1>2, BudgetKeeps DEF SubInv
  <1> QED BY <1>2, <1>3 DEF SubInv

\* The call begins: every task waits.
LEMMA CallKeeps ==
  ASSUME SubInv, NEW n \in Nat, NEW ids \in [1 .. n -> Types], NEW w \in Widths,
         NEW viaTool \in BOOLEAN, RunSubAgents(n, ids, w, viaTool)
  PROVE  SubInv'
  <1>1. /\ parent' = "running" /\ types' = ids /\ width' = Clamped(w, n)
        /\ step' = [t \in 1 .. n |-> "waiting"]
        /\ report' = [t \in 1 .. n |-> FALSE] /\ failure' = [t \in 1 .. n |-> FALSE]
        /\ agentEnd' = [t \in 1 .. n |-> "none"]
        /\ catalog' = catalog /\ spent' = spent /\ parent = "asking"
    BY DEF RunSubAgents
  <1>2. Tasks' = 1 .. n /\ IsFiniteSet(1 .. n)
    BY <1>1, FS_Interval DEF Tasks
  <1>3. width' \in Nat
    BY <1>1, SubAgentsAssumption DEF Clamped
  <1>4. ShapeInv' /\ spent' = 0
    BY <1>1, <1>2, <1>3 DEF SubInv, ShapeInv
  <1>5. Active' = {}
    BY <1>1, <1>2 DEF Active
  <1>6. BudgetInv'
    BY <1>3, <1>4, <1>5, FS_EmptySet, Constants DEF BudgetInv, Exhausted
  <1>7. ContainedInv'
    BY <1>1, <1>2, <1>5
    DEF SubInv, ContainedInv, CatalogIsSafe, ActiveIsKnown, OkIsEarned, DeliveredIsAll,
        NothingOutlivesTheTurn
  <1> QED BY <1>4, <1>6, <1>7 DEF SubInv

\* A task gets its permit: it starts only when the budget is not used up.
LEMMA EnterKeeps ==
  ASSUME SubInv, NEW t \in Tasks, Enter(t)
  PROVE  SubInv'
  <1>1. parent = "running" /\ step[t] = "waiting" /\ Cardinality(Active) < width
        /\ UNCHANGED batchVars
    BY DEF Enter
  <1>2. CASE ~ MayStart(t)
    BY <1>1, <1>2, QuietEndKeeps DEF Enter
  <1>3. CASE MayStart(t)
    <2>1. /\ step' = [step EXCEPT ![t] = "running"]
          /\ catalog' = catalog /\ parent' = parent /\ types' = types /\ width' = width
          /\ agentEnd' = agentEnd /\ delivered' = delivered /\ spent' = spent
          /\ report' = report /\ failure' = failure /\ Tasks' = Tasks
      BY <1>3 DEF Enter, batchVars, Tasks
    <2>2. ShapeInv'
      BY <1>1, <2>1 DEF SubInv, ShapeInv
    <2>3. Active' = Active \cup {t} /\ t \notin Active
      BY <1>1, <2>1 DEF SubInv, ShapeInv, Active
    <2>4. Cardinality(Active') = Cardinality(Active) + 1 /\ Cardinality(Active) \in Nat
      BY <2>3, ActiveShrinks, FS_AddElement DEF SubInv
    <2>5. BudgetInv'
      BY <1>1, <1>3, <2>1, <2>4 DEF BudgetInv, Exhausted, MayStart, SubInv, ShapeInv
    <2>6. CatalogIsSafe' /\ ActiveIsKnown'
      BY <1>3, <2>1, <2>3
      DEF SubInv, ContainedInv, CatalogIsSafe, ActiveIsKnown, MayStart, Known
    <2>7. OkIsEarned'
      BY <1>1, <2>1 DEF SubInv, ShapeInv, ContainedInv, OkIsEarned
    <2>8. DeliveredIsAll' /\ NothingOutlivesTheTurn'
      BY <1>1, <2>1 DEF DeliveredIsAll, NothingOutlivesTheTurn
    <2> QED BY <2>2, <2>5, <2>6, <2>7, <2>8 DEF SubInv, ContainedInv
  <1> QED BY <1>2, <1>3

\* A usage event, which may end the agent.
LEMMA UsageKeeps ==
  ASSUME SubInv, NEW t \in Tasks, NEW tokens \in 1 .. MaxCharge, NEW whole \in BOOLEAN,
         TokenUsage(t, tokens, whole)
  PROVE  SubInv'
  <1>1. /\ parent = "running" /\ step[t] = "running" /\ t \in Active
        /\ spent' = spent + tokens /\ report' = report
    BY DEF TokenUsage, Runs, Active
  <1>2. spent \in Nat /\ spent' \in Nat /\ BatchBudget \in Nat
    BY <1>1, Constants DEF SubInv, ShapeInv
  <1>3. CASE Stops(t)
    <2>1. Ends(t, "failed") /\ failure' = [failure EXCEPT ![t] = TRUE]
      BY <1>3 DEF TokenUsage
    <2>2. DOMAIN failure' = Tasks /\ \A u \in Tasks \ {t} : failure'[u] = failure[u]
      BY <2>1 DEF SubInv, ShapeInv
    <2>3. ShapeInv' /\ ContainedInv' /\ Active' = Active \ {t}
      BY <1>1, <1>2, <2>1, <2>2, EndsKeeps
    <2>4. BudgetInv'
      BY <1>1, <2>1, <2>3, BudgetCharges DEF SubInv, Ends
    <2> QED BY <2>3, <2>4 DEF SubInv
  <1>4. CASE ~ Stops(t)
    <2>1. UNCHANGED <<catalog, parent, types, width, step, failure, agentEnd, delivered>>
      BY <1>4 DEF TokenUsage
    <2>2. Tasks' = Tasks /\ Active' = Active
      BY <2>1 DEF Tasks, Active
    <2>3. ShapeInv'
      BY <1>1, <1>2, <2>1, <2>2 DEF SubInv, ShapeInv
    <2>4. ContainedInv'
      BY <1>1, <2>1, <2>2
      DEF SubInv, ContainedInv, CatalogIsSafe, ActiveIsKnown, OkIsEarned, DeliveredIsAll,
          NothingOutlivesTheTurn, Known
    <2>5. ~ (spent' >= BatchBudget)
      BY <1>4 DEF Stops
    <2>6. BudgetInv'
      BY <1>1, <2>1, <2>2, <2>5, BudgetCharges DEF SubInv
    <2> QED BY <2>3, <2>4, <2>6 DEF SubInv
  <1> QED BY <1>3, <1>4

\* Text and failure events of an agent that runs.
LEMMA EventKeeps ==
  ASSUME SubInv, NEW t \in Tasks, TextDelta(t) \/ LoopReports(t)
  PROVE  SubInv'
  <1>1. /\ UNCHANGED <<catalog, parent, types, width, step, spent, agentEnd, delivered>>
        /\ parent = "running" /\ step[t] = "running" /\ Tasks' = Tasks
    BY DEF TextDelta, LoopReports, Runs, Tasks
  <1>2. /\ DOMAIN report' = Tasks /\ DOMAIN failure' = Tasks
        /\ \A u \in Tasks \ {t} : report'[u] = report[u] /\ failure'[u] = failure[u]
    BY DEF TextDelta, LoopReports, SubInv, ShapeInv
  <1>3. Active' = Active
    BY <1>1 DEF Active
  <1>4. ShapeInv'
    BY <1>1, <1>2 DEF SubInv, ShapeInv
  <1>5. BudgetInv'
    BY <1>1, <1>3, BudgetKeeps DEF SubInv
  <1>6. OkIsEarned'
    BY <1>1, <1>2 DEF SubInv, ContainedInv, OkIsEarned
  <1>7. CatalogIsSafe' /\ ActiveIsKnown' /\ DeliveredIsAll' /\ NothingOutlivesTheTurn'
    BY <1>1, <1>3
    DEF SubInv, ContainedInv, CatalogIsSafe, ActiveIsKnown, DeliveredIsAll,
        NothingOutlivesTheTurn, Known
  <1> QED BY <1>4, <1>5, <1>6, <1>7 DEF SubInv, ContainedInv

\* The parent is refused, cancelled, or reads the outcomes.
LEMMA ParentKeeps ==
  ASSUME SubInv,
         \/ \E n \in 0 .. MaxTasks + 1 : \E ids \in [1 .. n -> Types], viaTool \in BOOLEAN :
               Refuse(n, ids, viaTool)
         \/ CancelParent \/ AgentReturns
  PROVE  SubInv'
  <1>1. UNCHANGED <<catalog, types, width, step, batchVars, agentEnd>> /\ Tasks' = Tasks
    BY DEF Refuse, CancelParent, AgentReturns, Tasks
  <1>2. Active' = Active /\ spent' = spent /\ report' = report /\ failure' = failure
    BY <1>1 DEF Active, batchVars
  <1>3. parent' \in {"refused", "cancelling", "cancelled", "returned"}
    BY DEF Refuse, CancelParent, AgentReturns
  <1>4. ShapeInv'
    BY <1>1, <1>2, <1>3 DEF SubInv, ShapeInv
  <1>5. BudgetInv'
    BY <1>1, <1>2, BudgetKeeps DEF SubInv
  <1>6. CatalogIsSafe' /\ ActiveIsKnown' /\ OkIsEarned'
    BY <1>1, <1>2 DEF SubInv, ContainedInv, CatalogIsSafe, ActiveIsKnown, OkIsEarned, Known
  <1>7. DeliveredIsAll' /\ NothingOutlivesTheTurn'
    <2>1. CASE AgentReturns
      BY <1>1, <2>1 DEF AgentReturns, Gathered, DeliveredIsAll, NothingOutlivesTheTurn
    <2>2. CASE ~ AgentReturns
      BY <2>2 DEF Refuse, CancelParent, DeliveredIsAll, NothingOutlivesTheTurn
    <2> QED BY <2>1, <2>2
  <1> QED BY <1>4, <1>5, <1>6, <1>7 DEF SubInv, ContainedInv

LEMMA SubInvStep == SubInv /\ [SubNext]_subVars => SubInv'
  <1> SUFFICES ASSUME SubInv, [SubNext]_subVars PROVE SubInv'
    OBVIOUS
  <1>1. CASE UNCHANGED subVars
    BY <1>1 DEF subVars, batchVars, SubInv, ShapeInv, BudgetInv, ContainedInv, Owed, Exhausted,
                CatalogIsSafe, ActiveIsKnown, OkIsEarned, DeliveredIsAll,
                NothingOutlivesTheTurn, Known, Active, Tasks
  <1>2. ASSUME NEW n \in 0 .. MaxTasks + 1, NEW ids \in [1 .. n -> Types],
               NEW viaTool \in BOOLEAN, NEW w \in Widths, RunSubAgents(n, ids, w, viaTool)
        PROVE  SubInv'
    BY <1>2, CallKeeps, SubAgentsAssumption
  <1>3. ASSUME NEW t \in Tasks, AgentStep(t) PROVE SubInv'
    <2>1. CASE Enter(t)
      BY <2>1, EnterKeeps
    <2>2. CASE TextDelta(t) \/ LoopReports(t)
      BY <2>2, EventKeeps
    <2>3. CASE \E tokens \in 1 .. MaxCharge, whole \in BOOLEAN : TokenUsage(t, tokens, whole)
      BY <2>3, UsageKeeps
    <2>4. CASE LoopEnds(t)
      <3>1. Verdict(t) = "ok" => report[t] = TRUE /\ failure[t] = FALSE
        BY <1>3 DEF Verdict
      <3> QED BY <2>4, <3>1, QuietEndKeeps DEF LoopEnds, Runs
    <2>5. CASE Raises(t) \/ TimesOut(t) \/ CancelsItself(t)
      BY <2>5, QuietEndKeeps DEF Raises, TimesOut, CancelsItself, Runs
    <2>6. CASE Unwind(t)
      BY <2>6, QuietEndKeeps DEF Unwind
    <2> QED BY <1>3, <2>1, <2>2, <2>3, <2>4, <2>5, <2>6 DEF AgentStep
  <1>4. CASE \/ \E n \in 0 .. MaxTasks + 1 : \E ids \in [1 .. n -> Types], viaTool \in BOOLEAN :
                   Refuse(n, ids, viaTool)
             \/ CancelParent \/ AgentReturns
    BY <1>4, ParentKeeps
  <1> QED BY <1>1, <1>2, <1>3, <1>4 DEF SubNext

LEMMA SubInvariant == SubSpec => []SubInv
  BY SubInvInit, SubInvStep, PTL DEF SubSpec

-----------------------------------------------------------------------------

\* The tokens of a batch pass its budget by less than one usage event for each
\* permit of the semaphore (_BatchBudget and the checks of _run_one), whatever
\* the agents report and however they end.
THEOREM OverrunStaysBounded == SubSpec => []OverrunIsBounded
  <1>1. SubInv => OverrunIsBounded
    <2> SUFFICES ASSUME SubInv PROVE spent < BatchBudget + width * MaxCharge
      BY DEF OverrunIsBounded
    <2>1. Cardinality(Active) \in Nat /\ width \in Nat /\ spent \in Nat
      BY ActiveShrinks DEF SubInv, ShapeInv
    <2>2. Cardinality(Active) * MaxCharge \in Nat /\ width * MaxCharge \in Nat
      BY <2>1, TimesGrows, Constants
    <2>3. CASE Exhausted
      BY <2>1, <2>2, <2>3, Constants DEF SubInv, BudgetInv, Owed
    <2>4. CASE ~ Exhausted
      BY <2>1, <2>2, <2>4, Constants DEF Exhausted
    <2> QED BY <2>3, <2>4
  <1> QED BY <1>1, SubInvariant, PTL

\* However a delegation ends, none of its agents is left running, none could
\* spawn agents, and an outcome marked OK is one whose report exists and whose
\* loop met no failure (run_sub_agents, parse_spec, SubAgentOutcome).
THEOREM DelegationStaysSound == SubSpec => []DelegationIsSound
  <1>1. SubInv => DelegationIsSound
    <2> SUFFICES ASSUME SubInv PROVE DelegationIsSound
      OBVIOUS
    <2>1. OutcomesAreHonest
      <3> SUFFICES ASSUME parent = "returned"
                   PROVE  /\ {d[1] : d \in delivered} = Tasks
                          /\ \A d \in delivered :
                                d[2] = "ok" => report[d[1]] /\ ~ failure[d[1]]
        BY DEF OutcomesAreHonest
      <3>1. delivered = {<<t, agentEnd[t]>> : t \in Tasks}
        BY DEF SubInv, ContainedInv, DeliveredIsAll
      <3>2. \A t \in Tasks : <<t, agentEnd[t]>>[1] = t /\ <<t, agentEnd[t]>>[2] = agentEnd[t]
        OBVIOUS
      <3>3. \A t \in Tasks : agentEnd[t] = "ok" => report[t] = TRUE /\ failure[t] = FALSE
        BY DEF SubInv, ContainedInv, OkIsEarned
      <3>4. {d[1] : d \in delivered} = Tasks
        BY <3>1, <3>2, Zenon
      <3>5. ASSUME NEW d \in delivered, d[2] = "ok" PROVE report[d[1]] /\ ~ failure[d[1]]
        <4>1. PICK t \in Tasks : d = <<t, agentEnd[t]>>
          BY <3>1
        <4>2. d[1] = t /\ agentEnd[t] = "ok"
          BY <3>5, <4>1
        <4>3. report[d[1]] = TRUE /\ failure[d[1]] = FALSE
          BY <3>3, <4>2
        <4> QED BY <4>3
      <3> QED BY <3>4, <3>5
    <2>2. DelegationIsOneLevel
      BY DEF SubInv, ContainedInv, ActiveIsKnown, CatalogIsSafe, Known, DelegationIsOneLevel
    <2> QED BY <2>1, <2>2 DEF SubInv, ContainedInv, DelegationIsSound
  <1> QED BY <1>1, SubInvariant, PTL

=============================================================================
