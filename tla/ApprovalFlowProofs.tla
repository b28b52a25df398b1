------------------------- MODULE ApprovalFlowProofs -------------------------
(***************************************************************************)
(* Proofs about ApprovalFlow, for any number of runs, approvals and        *)
(* handlers and any bounds on restarts and lost writes: the decision of an *)
(* approval is sound, and the flow implements ApprovalContract.            *)
(*                                                                         *)
(* The argument needs to know whose an approval is: which loop holds an    *)
(* entry of the broker at which stage, what an accepted answer has left in *)
(* the broker, and, as long as no write is lost, which saved status goes   *)
(* with which stage of the loop.                                           *)
(***************************************************************************)
EXTENDS ApprovalFlow, TLAPS

Entries == [run : Runs, set : BOOLEAN, decision : BOOLEAN]
Requests == [run : Runs, approval : Approvals, yes : BOOLEAN]

\* A loop deals with an approval that was handed out to it alone, and with none
\* before it asks and after it has reported.
CurIsOwn ==
    /\ \A r \in Runs : cur[r] \in used \cup {NoApproval}
    /\ \A r \in Runs : loop[r] \in InApproval => cur[r] # NoApproval
    /\ \A r \in Runs : loop[r] \in {"off", "setup", "streaming", "drained"} => cur[r] = NoApproval
    /\ \A r, s \in Runs : cur[r] = cur[s] /\ cur[r] # NoApproval => r = s

\* An entry of the broker belongs to a loop that has not had its answer, or is
\* on its way out; and such a loop has its entry.
EntryIsHeld ==
    /\ \A a \in Approvals : pending[a] # NoEntry =>
          /\ cur[pending[a].run] = a
          /\ loop[pending[a].run] \in {"opened", "asked", "waiting", "closing", "releasing"}
    /\ \A r \in Runs : loop[r] \in {"opened", "asked", "waiting"} =>
          pending[cur[r]] # NoEntry /\ pending[cur[r]].run = r

\* An approval is spent by the execution and by nothing else.
SpentIsOver ==
    /\ \A a \in ran : pending[a] = NoEntry
    /\ \A r \in Runs : loop[r] = "granted" => cur[r] \notin ran

\* An accepted answer is the broker's, until the entry is gone.
AnswerIsTaken ==
    /\ \A h \in Handlers : hstage[h] \in {"read", "accepted", "ok"} =>
          hreq[h] \in Requests /\ hreq[h].approval \in used
    /\ \A h \in Handlers : Accepted(h) /\ pending[hreq[h].approval] # NoEntry =>
          pending[hreq[h].approval].set

\* What the run state can say while the loop is at a stage.
StatusAt(stage) ==
    CASE stage = "off" -> TerminalStatus
      [] stage = "setup" -> {"queued", "running"}
      [] stage \in {"streaming", "opened", "drained"} -> {"running"}
      [] stage \in {"asked", "waiting", "granted"} \cup Reporting -> {"running", "waiting_approval"}
      [] stage = "closing" -> LiveStatus
      [] stage = "releasing" -> {"cancelled"}

Follows(r) ==
    /\ store[r].status \in StatusAt(loop[r])
    /\ store[r].status = "waiting_approval" => store[r].approval = cur[r]
    /\ loop[r] \in {"asked", "waiting"} /\ ~ pending[cur[r]].set => IsWaitingFor(store[r], cur[r])
StoreFollows == faults = 0 => \A r \in Runs : Follows(r)

FlowInv ==
    TypeOK /\ CurIsOwn /\ EntryIsHeld /\ SpentIsOver /\ AnswerIsTaken /\ OneAcceptedAnswer
    /\ StoreFollows

-----------------------------------------------------------------------------
(* The records the flow saves                                              *)

LEMMA SavedRecords ==
  ASSUME NEW st \in RunStates
  PROVE  /\ \A t \in Status : LET new == Uncounted(Transitioned(st, t))
                              IN  new \in RunStates /\ new.status = t /\ new.approval = st.approval
         /\ \A a \in Approvals : LET new == Uncounted(ApprovalRequested(st, a))
               IN  new \in RunStates /\ new.status = "waiting_approval" /\ new.approval = a
         /\ LET new == Uncounted(ApprovalResolved(st))
            IN  new \in RunStates /\ new.status = "running" /\ new.approval = NoApproval
         /\ LET new == Uncounted(Interrupted(st))
            IN  new \in RunStates /\ new.status = "cancelled" /\ new.approval = NoApproval
         /\ LET new == Uncounted(Resumed(st))
            IN  new \in RunStates /\ new.status = "running"
  <1> USE DEF Status, LiveStatus, TerminalStatus, ResumableStatus
  <1>1. ASSUME NEW s \in RunStates, NEW t \in Status
        PROVE  LET new == Transitioned(s, t)
               IN  new \in RunStates /\ new.status = t /\ new.approval = s.approval
    <2>1. RecordEvent(s) \in RunStates /\ RecordEvent(s).approval = s.approval
      BY DEF RunStates, RecordEvent
    <2>2. \A u \in RunStates : Moved(u, t) \in RunStates /\ Moved(u, t).status = t
                               /\ Moved(u, t).approval = u.approval
      BY DEF RunStates, Moved
    <2> QED BY <2>1, <2>2 DEF Transitioned
  <1>2. ASSUME NEW s \in RunStates
        PROVE  LET new == Uncounted(s)
               IN  new \in RunStates /\ new.status = s.status /\ new.approval = s.approval
    BY DEF RunStates, Uncounted
  <1>3. ASSUME NEW s \in RunStates, NEW a \in Approvals \cup {NoApproval}
        PROVE  /\ LET new == [s EXCEPT !.approval = a]
                  IN  new \in RunStates /\ new.status = s.status /\ new.approval = a
               /\ LET new == [s EXCEPT !.approval = a, !.tool = FALSE]
                  IN  new \in RunStates /\ new.status = s.status /\ new.approval = a
    BY DEF RunStates
  <1>4. \A t \in Status : LET new == Uncounted(Transitioned(st, t))
                          IN  new \in RunStates /\ new.status = t /\ new.approval = st.approval
    BY <1>1, <1>2
  <1>5. \A a \in Approvals : LET new == Uncounted(ApprovalRequested(st, a))
               IN  new \in RunStates /\ new.status = "waiting_approval" /\ new.approval = a
    <2> TAKE a \in Approvals
    <2>1. ApprovalRequested(st, a) \in RunStates /\ ApprovalRequested(st, a).approval = a
          /\ ApprovalRequested(st, a).status = "waiting_approval"
      <3>1. Transitioned(st, "waiting_approval") \in RunStates
            /\ Transitioned(st, "waiting_approval").status = "waiting_approval"
        BY <1>1
      <3> QED BY <1>3, <3>1 DEF ApprovalRequested
    <2> QED BY <1>2, <2>1
  <1>6. LET new == Uncounted(ApprovalResolved(st))
        IN  new \in RunStates /\ new.status = "running" /\ new.approval = NoApproval
    <2>1. ApprovalResolved(st) \in RunStates /\ ApprovalResolved(st).approval = NoApproval
          /\ ApprovalResolved(st).status = "running"
      <3>1. Transitioned(st, "running") \in RunStates /\ Transitioned(st, "running").status = "running"
        BY <1>1
      <3> QED BY <1>3, <3>1 DEF ApprovalResolved
    <2> QED BY <1>2, <2>1
  <1>7. LET new == Uncounted(Interrupted(st))
        IN  new \in RunStates /\ new.status = "cancelled" /\ new.approval = NoApproval
    <2>1. Interrupted(st) \in RunStates /\ Interrupted(st).approval = NoApproval
          /\ Interrupted(st).status = "cancelled"
      <3>1. Transitioned(st, "cancelled") \in RunStates /\ Transitioned(st, "cancelled").status = "cancelled"
        BY <1>1
      <3> QED BY <1>3, <3>1 DEF Interrupted
    <2> QED BY <1>2, <2>1
  <1>8. LET new == Uncounted(Resumed(st))
        IN  new \in RunStates /\ new.status = "running"
    BY <1>1, <1>2 DEF Resumed
  <1> QED BY <1>4, <1>5, <1>6, <1>7, <1>8

\* A best-effort write changes one run, or nothing; without a fault it is not
\* lost.
LEMMA ProjectWrites ==
  ASSUME TypeOK, NEW r \in Runs, NEW accepted \in BOOLEAN, NEW new,
         Project(r, accepted, new), accepted => Uncounted(new) \in RunStates
  PROVE  /\ store' \in [Runs -> RunStates] /\ faults' \in 0 .. MaxFaults
         /\ \A s \in Runs \ {r} : store'[s] = store[s]
         /\ store'[r] = store[r] \/ (accepted /\ store'[r] = Uncounted(new))
         /\ faults' = 0 => /\ faults = 0
                          /\ store'[r] = IF accepted THEN Uncounted(new) ELSE store[r]
  <1>0. store \in [Runs -> RunStates] /\ faults \in 0 .. MaxFaults /\ MaxFaults \in Nat
    BY FlowAssumption DEF TypeOK
  <1>1. CASE accepted /\ store' = [store EXCEPT ![r] = Uncounted(new)] /\ faults' = faults
    BY <1>0, <1>1
  <1>2. CASE ~ accepted /\ store' = store /\ faults' = faults
    BY <1>0, <1>2
  <1>3. CASE store' = store /\ faults < MaxFaults /\ faults' = faults + 1
    BY <1>0, <1>3
  <1> QED BY <1>1, <1>2, <1>3 DEF Project

-----------------------------------------------------------------------------
(* Whose an approval is: the parts that do not look at the store           *)

OwnershipInv ==
    CurIsOwn /\ EntryIsHeld /\ SpentIsOver /\ AnswerIsTaken /\ OneAcceptedAnswer

\* The loop goes on; the broker is not touched.
LEMMA LoopMoves ==
  ASSUME FlowInv, NEW r \in Runs,
         \/ Start(r) \/ RecordRequest(r) \/ Wait(r) \/ Veto(r) \/ RecordCancelled(r)
         \/ Resume(r) \/ \E status \in TerminalStatus \ {"cancelled"} : Finish(r, status)
  PROVE  OwnershipInv'
  <1> USE FlowAssumption, ApprovalAssumption
      DEF FlowInv, TypeOK, Start, RecordRequest, Wait, Veto,
              RecordCancelled, Resume, Finish, Goto, handlerVars, InApproval, Reporting
  <1>1. CurIsOwn'
    BY DEF CurIsOwn
  <1>2. EntryIsHeld'
    BY DEF EntryIsHeld, CurIsOwn
  <1>3. SpentIsOver'
    BY DEF SpentIsOver, CurIsOwn, EntryIsHeld
  <1>4. AnswerIsTaken'
    BY DEF AnswerIsTaken, Accepted, Requests
  <1>5. OneAcceptedAnswer'
    BY DEF OneAcceptedAnswer, Accepted
  <1> QED BY <1>1, <1>2, <1>3, <1>4, <1>5 DEF OwnershipInv

\* An entry, or every entry of the run, is taken out of the broker.
LEMMA EntryGoes ==
  ASSUME FlowInv, NEW r \in Runs,
         Wake(r) \/ Timeout(r) \/ Drain(r) \/ Disconnect(r) \/ Release(r)
  PROVE  OwnershipInv'
  <1> USE FlowAssumption, ApprovalAssumption
      DEF FlowInv, TypeOK, Wake, Timeout, Drain, Disconnect, Release,
              Goto, Pop, CancelRun, handlerVars, InApproval, Reporting
  <1>1. CurIsOwn'
    BY DEF CurIsOwn
  <1>2. EntryIsHeld'
    BY DEF EntryIsHeld, CurIsOwn
  <1>3. SpentIsOver'
    BY DEF SpentIsOver, CurIsOwn, EntryIsHeld
  <1>4. AnswerIsTaken'
    BY DEF AnswerIsTaken, Accepted, Requests
  <1>5. OneAcceptedAnswer'
    BY DEF OneAcceptedAnswer, Accepted
  <1> QED BY <1>1, <1>2, <1>3, <1>4, <1>5 DEF OwnershipInv

\* The granted call runs, and its outcome is reported.
LEMMA CallEnds ==
  ASSUME FlowInv, NEW r \in Runs,
         Execute(r) \/ Report(r)
  PROVE  OwnershipInv'
  <1> USE FlowAssumption, ApprovalAssumption
      DEF FlowInv, TypeOK, Execute, Report, Goto, handlerVars, InApproval, Reporting
  <1>1. CurIsOwn'
    BY DEF CurIsOwn
  <1>2. EntryIsHeld'
    BY DEF EntryIsHeld, CurIsOwn
  <1>3. SpentIsOver'
    BY DEF SpentIsOver, CurIsOwn, EntryIsHeld
  <1>4. AnswerIsTaken'
    BY DEF AnswerIsTaken, Accepted, Requests
  <1>5. OneAcceptedAnswer'
    BY DEF OneAcceptedAnswer, Accepted
  <1> QED BY <1>1, <1>2, <1>3, <1>4, <1>5 DEF OwnershipInv

LEMMA EntryIsNew ==
  ASSUME NEW r \in Runs
  PROVE  Entry(r) \in Entries /\ Entry(r) # NoEntry /\ Entry(r).run = r
  <1>1. Entry(r) \in Entries /\ Entry(r).run = r
    BY DEF Entry, Entries
  <1> QED BY <1>1, FlowAssumption DEF Entries

\* A fresh id: nobody has an answer for it, and no loop deals with it.
LEMMA OpenKeeps ==
  ASSUME FlowInv, NEW r \in Runs, NEW a \in Approvals,
         Open(r, a)
  PROVE  OwnershipInv'
  <1> USE FlowAssumption, ApprovalAssumption
      DEF FlowInv, TypeOK, Open, Goto, Entry, handlerVars, InApproval, Reporting
  <1>1. CurIsOwn'
    BY DEF CurIsOwn
  <1>2. EntryIsHeld'
    <2>0. Entry(r) \in Entries /\ Entry(r) # NoEntry /\ Entry(r).run = r
      BY EntryIsNew
    <2> HIDE DEF Entry
    <2>1. /\ pending'[a] # NoEntry /\ pending'[a].run = r /\ cur'[r] = a /\ loop'[r] = "opened"
          /\ \A b \in Approvals \ {a} : pending'[b] = pending[b]
          /\ \A s \in Runs \ {r} : cur'[s] = cur[s] /\ loop'[s] = loop[s] /\ cur[s] # a
          /\ cur[r] = NoApproval /\ a # NoApproval
      BY <2>0 DEF CurIsOwn
    <2>2. \A b \in Approvals : pending[b] # NoEntry => pending[b].run \in Runs \ {r}
      BY <2>1 DEF EntryIsHeld
    <2>3. \A s \in Runs : loop[s] \in {"opened", "asked", "waiting"} => cur[s] \in Approvals
      BY DEF CurIsOwn
    <2> QED BY <2>1, <2>2, <2>3 DEF EntryIsHeld
  <1>3. SpentIsOver'
    BY DEF SpentIsOver, CurIsOwn, EntryIsHeld
  <1>4. AnswerIsTaken'
    BY DEF AnswerIsTaken, Accepted, Requests
  <1>5. OneAcceptedAnswer'
    BY DEF OneAcceptedAnswer, Accepted
  <1> QED BY <1>1, <1>2, <1>3, <1>4, <1>5 DEF OwnershipInv

\* A handler that only reads or writes the store.
LEMMA HandlerKeeps ==
  ASSUME FlowInv, NEW h \in Handlers,
         \/ Persist(h)
         \/ \E r \in Runs, a \in Approvals, yes \in BOOLEAN : Submit(h, r, a, yes)
  PROVE  OwnershipInv'
  <1> USE FlowAssumption, ApprovalAssumption
      DEF FlowInv, TypeOK, Persist, Submit, handlerVars, InApproval, Reporting
  <1>1. CurIsOwn'
    BY DEF CurIsOwn
  <1>2. EntryIsHeld'
    BY DEF EntryIsHeld, CurIsOwn
  <1>3. SpentIsOver'
    BY DEF SpentIsOver, CurIsOwn, EntryIsHeld
  <1>4. AnswerIsTaken'
    BY DEF AnswerIsTaken, Accepted, Requests
  <1>5. OneAcceptedAnswer'
    BY DEF OneAcceptedAnswer, Accepted
  <1> QED BY <1>1, <1>2, <1>3, <1>4, <1>5 DEF OwnershipInv

\* Broker, loops and handlers are gone.
LEMMA RestartKeeps ==
  ASSUME FlowInv,
         Restart
  PROVE  OwnershipInv'
  <1> USE FlowAssumption, ApprovalAssumption
      DEF FlowInv, TypeOK, Restart, handlerVars, InApproval, Reporting
  <1>1. CurIsOwn'
    BY DEF CurIsOwn
  <1>2. EntryIsHeld'
    BY DEF EntryIsHeld, CurIsOwn
  <1>3. SpentIsOver'
    BY DEF SpentIsOver, CurIsOwn, EntryIsHeld
  <1>4. AnswerIsTaken'
    BY DEF AnswerIsTaken, Accepted, Requests
  <1>5. OneAcceptedAnswer'
    BY DEF OneAcceptedAnswer, Accepted
  <1> QED BY <1>1, <1>2, <1>3, <1>4, <1>5 DEF OwnershipInv

\* The answer that is taken is the first: the entry was not set.
LEMMA DecideKeeps ==
  ASSUME FlowInv, NEW h \in Handlers, Decide(h)
  PROVE  OwnershipInv'
  <1> DEFINE q == hreq[h]
             a == q.approval
             ok == hsaw[h] = a /\ IsPending(q.run, a)
  <1>0. /\ q \in Requests /\ a \in used /\ a \in Approvals /\ q.yes \in BOOLEAN
        /\ hstage[h] = "read" /\ UNCHANGED <<loop, cur, used, ran>>
        /\ pending \in [Approvals -> Entries \cup {NoEntry}] /\ NoEntry \notin Entries
    BY FlowAssumption DEF FlowInv, AnswerIsTaken, TypeOK, Decide, Requests, Entries
  <1>1. CASE ok
    <2>1. /\ pending[a] \in Entries /\ pending[a] # NoEntry /\ ~ pending[a].set
          /\ pending' = [pending EXCEPT ![a] = [@ EXCEPT !.set = TRUE, !.decision = q.yes]]
          /\ hstage' = [hstage EXCEPT ![h] = "accepted"] /\ hreq' = hreq
      BY <1>0, <1>1 DEF IsPending, Decide
    <2>2. /\ pending'[a] \in Entries /\ pending'[a] # NoEntry
          /\ pending'[a].set /\ pending'[a].run = pending[a].run
      BY <1>0, <2>1 DEF Entries
    <2>3. \A b \in Approvals \ {a} : pending'[b] = pending[b]
      BY <1>0, <2>1
    <2> HIDE DEF ok, q, a
    <2>4. CurIsOwn'
      BY <1>0 DEF FlowInv, CurIsOwn
    <2>5. EntryIsHeld'
      BY <1>0, <2>1, <2>2, <2>3 DEF FlowInv, EntryIsHeld, CurIsOwn, InApproval, TypeOK
    <2>6. SpentIsOver'
      BY <1>0, <2>1, <2>2, <2>3 DEF FlowInv, SpentIsOver, TypeOK
    <2>7. AnswerIsTaken'
      <3>1. \A g \in Handlers \ {h} : hstage'[g] = hstage[g]
        BY <2>1 DEF FlowInv, TypeOK
      <3>2. hstage'[h] = "accepted"
        BY <2>1 DEF FlowInv, TypeOK
      <3> QED BY <1>0, <2>1, <2>2, <2>3, <3>1, <3>2 DEF FlowInv, AnswerIsTaken, Accepted, q, a, TypeOK
    <2>8. OneAcceptedAnswer'
      BY <1>0, <2>1 DEF FlowInv, OneAcceptedAnswer, AnswerIsTaken, Accepted, TypeOK, q, a
    <2> QED BY <2>4, <2>5, <2>6, <2>7, <2>8 DEF OwnershipInv
  <1>2. CASE ~ ok
    <2>1. /\ pending' = pending /\ hstage' = [hstage EXCEPT ![h] = "conflict"]
          /\ hreq' = [hreq EXCEPT ![h] = NoRequest]
      BY <1>2 DEF Decide
    <2> QED
      BY <1>0, <2>1 DEF FlowInv, OwnershipInv, TypeOK, CurIsOwn, EntryIsHeld, SpentIsOver, AnswerIsTaken,
                        OneAcceptedAnswer, Accepted
  <1> QED BY <1>1, <1>2

-----------------------------------------------------------------------------
(* What the store says while a loop is at a stage                          *)

\* What one step does to the saved states: at most one run is written, by its
\* loop or by a handler, and no write is lost without a fault.
Writes(r, accepted, status) ==
    /\ \A s \in Runs \ {r} : store'[s] = store[s]
    /\ store'[r] = store[r] \/ store'[r].status = status
    /\ faults' = 0 => faults = 0
    /\ faults' = 0 /\ accepted => store'[r].status = status
    /\ faults' = 0 /\ ~ accepted => store'[r] = store[r]

LEMMA ProjectTransition ==
  ASSUME TypeOK, NEW r \in Runs, NEW t \in Status,
         Project(r, CanTransition(store[r], t), Transitioned(store[r], t))
  PROVE  /\ store' \in [Runs -> RunStates] /\ faults' \in 0 .. MaxFaults
         /\ Writes(r, CanTransition(store[r], t), t)
         /\ store'[r].approval = store[r].approval
  <1>1. store[r] \in RunStates
    BY DEF TypeOK
  <1>2. LET new == Uncounted(Transitioned(store[r], t))
        IN  new \in RunStates /\ new.status = t /\ new.approval = store[r].approval
    BY <1>1, SavedRecords
  <1>3. CanTransition(store[r], t) \in BOOLEAN
    BY DEF CanTransition
  <1> QED BY <1>2, <1>3, ProjectWrites DEF Writes

LEMMA ProjectRequest ==
  ASSUME TypeOK, NEW r \in Runs, cur[r] \in Approvals,
         Project(r, CanRequestApproval(store[r]), ApprovalRequested(store[r], cur[r]))
  PROVE  /\ store' \in [Runs -> RunStates] /\ faults' \in 0 .. MaxFaults
         /\ Writes(r, CanRequestApproval(store[r]), "waiting_approval")
         /\ store'[r] # store[r] => store'[r].approval = cur[r]
         /\ faults' = 0 /\ CanRequestApproval(store[r]) => store'[r].approval = cur[r]
  <1>1. store[r] \in RunStates
    BY DEF TypeOK
  <1>2. LET new == Uncounted(ApprovalRequested(store[r], cur[r]))
        IN  new \in RunStates /\ new.status = "waiting_approval" /\ new.approval = cur[r]
    BY <1>1, SavedRecords
  <1>3. CanRequestApproval(store[r]) \in BOOLEAN
    BY DEF CanRequestApproval
  <1> QED BY <1>2, <1>3, ProjectWrites DEF Writes

LEMMA ProjectResolved ==
  ASSUME TypeOK, NEW r \in Runs, NEW a,
         Project(r, IsWaitingFor(store[r], a), ApprovalResolved(store[r]))
  PROVE  /\ store' \in [Runs -> RunStates] /\ faults' \in 0 .. MaxFaults
         /\ Writes(r, IsWaitingFor(store[r], a), "running")
  <1>1. store[r] \in RunStates
    BY DEF TypeOK
  <1>2. LET new == Uncounted(ApprovalResolved(store[r]))
        IN  new \in RunStates /\ new.status = "running"
    BY <1>1, SavedRecords
  <1>3. IsWaitingFor(store[r], a) \in BOOLEAN
    BY DEF IsWaitingFor
  <1> QED BY <1>2, <1>3, ProjectWrites DEF Writes

\* Everything keeps its shape.
LEMMA TypeKeeps == FlowInv /\ [Next]_vars => TypeOK'
  <1> SUFFICES ASSUME FlowInv, [Next]_vars PROVE TypeOK'
    OBVIOUS
  <1>0. TypeOK /\ CurIsOwn /\ AnswerIsTaken
    BY DEF FlowInv
  <1> USE FlowAssumption
  <1>1. ASSUME NEW r \in Runs, Start(r) \/ RecordCancelled(r)
                \/ \E status \in TerminalStatus \ {"cancelled"} : Finish(r, status)
        PROVE  TypeOK'
    <2>1. PICK t \in Status : Project(r, CanTransition(store[r], t), Transitioned(store[r], t))
      BY <1>1 DEF Start, RecordCancelled, Finish, Status, LiveStatus, TerminalStatus, ResumableStatus
    <2>2. store' \in [Runs -> RunStates] /\ faults' \in 0 .. MaxFaults
      BY <1>0, <2>1, ProjectTransition
    <2> QED BY <1>0, <1>1, <2>2 DEF TypeOK, Start, RecordCancelled, Finish, Goto, Stages, handlerVars
  <1>2. ASSUME NEW r \in Runs, RecordRequest(r) PROVE TypeOK'
    <2>1. store' \in [Runs -> RunStates] /\ faults' \in 0 .. MaxFaults
      BY <1>0, <1>2, ProjectRequest DEF RecordRequest, CurIsOwn, Goto, InApproval, TypeOK
    <2> QED BY <1>0, <1>2, <2>1 DEF TypeOK, RecordRequest, Goto, Stages, handlerVars
  <1>3. ASSUME NEW r \in Runs, Report(r) PROVE TypeOK'
    <2>1. store' \in [Runs -> RunStates] /\ faults' \in 0 .. MaxFaults
      BY <1>0, <1>3, ProjectResolved DEF Report
    <2> QED BY <1>0, <1>3, <2>1 DEF TypeOK, Report, Stages, handlerVars
  <1>4. ASSUME NEW r \in Runs, Wait(r) \/ Wake(r) \/ Timeout(r) \/ Veto(r) \/ Execute(r) PROVE TypeOK'
    <2>1. cur[r] \in used
      BY <1>0, <1>4 DEF CurIsOwn, Wait, Wake, Timeout, Veto, Execute, Goto, InApproval
    <2> QED BY <1>0, <1>4, <2>1 DEF TypeOK, Wait, Wake, Timeout, Veto, Execute, Goto, Pop, Stages, handlerVars
  <1>5. ASSUME NEW r \in Runs, Drain(r) \/ Disconnect(r) \/ Release(r) PROVE TypeOK'
    BY <1>0, <1>5 DEF TypeOK, Drain, Disconnect, Release, Goto, Pop, CancelRun, Stages, handlerVars
  <1>6. ASSUME NEW r \in Runs, Resume(r) PROVE TypeOK'
    <2>1. Uncounted(Resumed(store[r])) \in RunStates
      BY <1>0, SavedRecords DEF TypeOK
    <2> QED BY <1>0, <1>6, <2>1 DEF TypeOK, Resume, Goto, Stages, handlerVars
  <1>7. ASSUME NEW r \in Runs, NEW a \in Approvals, Open(r, a) PROVE TypeOK'
    BY <1>0, <1>7, EntryIsNew DEF TypeOK, Open, Goto, Stages, handlerVars, Entries
  <1>8. ASSUME NEW h \in Handlers, Decide(h) PROVE TypeOK'
    <2>1. hreq[h] \in Requests /\ hreq[h].approval \in Approvals /\ hreq[h].yes \in BOOLEAN
      BY <1>0, <1>8 DEF AnswerIsTaken, Decide, Requests
    <2>2. pending' \in [Approvals -> Entries \cup {NoEntry}]
      <3> DEFINE a == hreq[h].approval
      <3>1. pending[a] # NoEntry => [pending[a] EXCEPT !.set = TRUE, !.decision = hreq[h].yes] \in Entries
        BY <1>0, <2>1 DEF TypeOK, Entries
      <3>2. CASE pending' = pending
        BY <1>0, <3>2 DEF TypeOK, Entries
      <3>3. CASE /\ IsPending(hreq[h].run, a)
                 /\ pending' = [pending EXCEPT ![a] = [pending[a] EXCEPT !.set = TRUE, !.decision = hreq[h].yes]]
        BY <1>0, <2>1, <3>1, <3>3 DEF TypeOK, Entries, IsPending
      <3> QED BY <1>8, <3>2, <3>3 DEF Decide
    <2> QED BY <1>0, <1>8, <2>2 DEF TypeOK, Decide, Entries
  <1>9. ASSUME NEW h \in Handlers, Persist(h) PROVE TypeOK'
    <2>1. hreq[h].run \in Runs
      BY <1>0, <1>9 DEF AnswerIsTaken, Persist, Requests
    <2>2. store' \in [Runs -> RunStates] /\ faults' \in 0 .. MaxFaults
      BY <1>0, <1>9, <2>1, ProjectResolved DEF Persist
    <2> QED BY <1>0, <1>9, <2>2 DEF TypeOK, Persist
  <1>10. ASSUME NEW h \in Handlers, NEW r \in Runs, NEW a \in Approvals, NEW yes \in BOOLEAN,
                Submit(h, r, a, yes)
         PROVE  TypeOK'
    <2>1. store[r].approval \in Approvals \cup {NoApproval}
      BY <1>0 DEF TypeOK, RunStates
    <2> QED BY <1>0, <1>10, <2>1 DEF TypeOK, Submit
  <1>11. CASE Restart
    <2>1. store' \in [Runs -> RunStates]
      BY <1>0, <1>11, SavedRecords DEF TypeOK, Restart
    <2> QED BY <1>0, <1>11, <2>1 DEF TypeOK, Restart, Stages
  <1>12. CASE UNCHANGED vars
    BY <1>0, <1>12 DEF TypeOK, vars
  <1> QED
    BY <1>1, <1>2, <1>3, <1>4, <1>5, <1>6, <1>7, <1>8, <1>9, <1>10, <1>11, <1>12 DEF Next, LoopStep

\* A run that a step leaves alone; its entry may be answered meanwhile.
LEMMA OthersFollow ==
  ASSUME FlowInv, NEW s \in Runs, Follows(s),
         store'[s] = store[s], loop'[s] = loop[s], cur'[s] = cur[s],
         loop[s] \in {"asked", "waiting"} =>
             pending'[cur[s]] = pending[cur[s]] \/ pending'[cur[s]].set
  PROVE  Follows(s)'
  BY DEF Follows, IsWaitingFor, StatusAt

LEMMA StatusTable ==
  /\ StatusAt("off") = TerminalStatus
  /\ StatusAt("setup") = {"queued", "running"}
  /\ \A stage \in {"streaming", "opened", "drained"} : StatusAt(stage) = {"running"}
  /\ \A stage \in {"asked", "waiting", "granted"} \cup Reporting :
        StatusAt(stage) = {"running", "waiting_approval"}
  /\ StatusAt("closing") = LiveStatus
  /\ StatusAt("releasing") = {"cancelled"}
  BY DEF StatusAt, Reporting

LEMMA StoreKeeps == FlowInv /\ [Next]_vars => StoreFollows'
  <1> SUFFICES ASSUME FlowInv, [Next]_vars, faults' = 0 PROVE \A s \in Runs : Follows(s)'
    BY DEF StoreFollows
  <1>0. TypeOK /\ CurIsOwn /\ EntryIsHeld /\ AnswerIsTaken /\ StoreFollows
    BY DEF FlowInv
  <1> USE DEF Status, LiveStatus, TerminalStatus, ResumableStatus
  <1>1. ASSUME NEW r \in Runs, Start(r) \/ RecordCancelled(r)
                \/ \E status \in TerminalStatus \ {"cancelled"} : Finish(r, status)
        PROVE  \A s \in Runs : Follows(s)'
    <2>1. PICK t \in Status : /\ Project(r, CanTransition(store[r], t), Transitioned(store[r], t))
                             /\ \/ loop[r] = "setup" /\ loop'[r] = "streaming" /\ t = "running"
                                \/ loop[r] = "closing" /\ loop'[r] = "releasing" /\ t = "cancelled"
                                \/ /\ loop[r] = "drained" /\ loop'[r] = "off"
                                   /\ t \in {"completed", "incomplete", "failed"}
      BY <1>0, <1>1 DEF Start, RecordCancelled, Finish, Goto, TypeOK
    <2>2. /\ UNCHANGED <<pending, cur>>
          /\ \A s \in Runs \ {r} : loop'[s] = loop[s]
      BY <1>0, <1>1 DEF Start, RecordCancelled, Finish, Goto, TypeOK
    <2>3. Writes(r, CanTransition(store[r], t), t)
      BY <1>0, <2>1, ProjectTransition
    <2>4. faults = 0 /\ Follows(r) /\ \A s \in Runs \ {r} : Follows(s)'
      BY <1>0, <2>2, <2>3, OthersFollow DEF Writes, StoreFollows
    <2>5. CanTransition(store[r], t)
      BY <2>1, <2>4, StatusTable DEF CanTransition, AllowedTransitions, Follows
    <2>6. Follows(r)'
      BY <2>1, <2>3, <2>5, StatusTable DEF Writes, Follows
    <2> QED BY <2>4, <2>6
  <1>2. ASSUME NEW r \in Runs, RecordRequest(r) PROVE \A s \in Runs : Follows(s)'
    <2>1. /\ loop[r] = "opened" /\ loop'[r] = "asked" /\ UNCHANGED <<pending, cur>>
          /\ \A s \in Runs \ {r} : loop'[s] = loop[s]
          /\ cur[r] \in Approvals
      BY <1>0, <1>2 DEF RecordRequest, Goto, TypeOK, CurIsOwn, InApproval
    <2>2. /\ Writes(r, CanRequestApproval(store[r]), "waiting_approval")
          /\ CanRequestApproval(store[r]) => store'[r].approval = cur[r]
      BY <1>0, <1>2, <2>1, ProjectRequest DEF RecordRequest
    <2>3. faults = 0 /\ Follows(r) /\ \A s \in Runs \ {r} : Follows(s)'
      BY <1>0, <2>1, <2>2, OthersFollow DEF Writes, StoreFollows
    <2>4. CanRequestApproval(store[r])
      BY <2>1, <2>3, StatusTable DEF Follows, CanRequestApproval
    <2>5. Follows(r)'
      BY <2>1, <2>2, <2>4, StatusTable DEF Writes, Follows, IsWaitingFor
    <2> QED BY <2>3, <2>5
  <1>3. ASSUME NEW r \in Runs, Report(r) PROVE \A s \in Runs : Follows(s)'
    <2>1. /\ loop[r] \in Reporting /\ loop'[r] = "streaming" /\ cur'[r] = NoApproval
          /\ \A s \in Runs \ {r} : loop'[s] = loop[s] /\ cur'[s] = cur[s]
          /\ UNCHANGED pending
      BY <1>0, <1>3 DEF Report, TypeOK
    <2>2. Writes(r, IsWaitingFor(store[r], cur[r]), "running")
      BY <1>0, <1>3, ProjectResolved DEF Report
    <2>3. faults = 0 /\ Follows(r) /\ \A s \in Runs \ {r} : Follows(s)'
      BY <1>0, <2>1, <2>2, OthersFollow DEF Writes, StoreFollows
    <2>4. store'[r].status = "running"
      BY <2>1, <2>2, <2>3, StatusTable DEF Writes, Follows, IsWaitingFor, Reporting
    <2>5. Follows(r)'
      BY <2>1, <2>4, StatusTable DEF Follows
    <2> QED BY <2>3, <2>5
  <1>4. ASSUME NEW r \in Runs,
               \/ Wait(r) \/ Wake(r) \/ Timeout(r) \/ Veto(r) \/ Execute(r) \/ Drain(r) \/ Disconnect(r)
               \/ Release(r)
        PROVE  \A s \in Runs : Follows(s)'
    <2>1. UNCHANGED <<store, faults>> /\ \A s \in Runs \ {r} : loop'[s] = loop[s] /\ cur'[s] = cur[s]
      BY <1>0, <1>4 DEF TypeOK, Wait, Wake, Timeout, Veto, Execute, Drain, Disconnect, Release, Goto
    <2>2. \A s \in Runs \ {r} : loop[s] \in {"asked", "waiting"} => pending'[cur[s]] = pending[cur[s]]
      BY <1>0, <1>4 DEF TypeOK, CurIsOwn, EntryIsHeld, InApproval, Wait, Wake, Timeout, Veto, Execute, Drain,
                        Disconnect, Release, Goto, Pop, CancelRun
    <2>3. faults = 0 /\ Follows(r) /\ \A s \in Runs \ {r} : Follows(s)'
      BY <1>0, <2>1, <2>2, OthersFollow DEF StoreFollows
    <2>4. Follows(r)'
      BY <1>0, <1>4, <2>1, <2>3, StatusTable DEF TypeOK, Follows, IsWaitingFor, Reporting, InApproval, CurIsOwn,
         Wait, Wake, Timeout, Veto, Execute, Drain, Disconnect, Release, Goto
    <2> QED BY <2>3, <2>4
  <1>5. ASSUME NEW r \in Runs, Resume(r) PROVE \A s \in Runs : Follows(s)'
    <2>1. Uncounted(Resumed(store[r])).status = "running"
      BY <1>0, SavedRecords DEF TypeOK
    <2>2. /\ loop'[r] = "setup" /\ store'[r].status = "running" /\ UNCHANGED <<pending, cur, faults>>
          /\ \A s \in Runs \ {r} : loop'[s] = loop[s] /\ store'[s] = store[s]
      BY <1>0, <1>5, <2>1 DEF TypeOK, Resume, Goto
    <2>3. \A s \in Runs \ {r} : Follows(s)'
      BY <1>0, <2>2, OthersFollow DEF StoreFollows
    <2>4. Follows(r)'
      BY <2>2, StatusTable DEF Follows
    <2> QED BY <2>3, <2>4
  <1>6. ASSUME NEW r \in Runs, NEW a \in Approvals, Open(r, a) PROVE \A s \in Runs : Follows(s)'
    <2>1. /\ loop[r] = "streaming" /\ loop'[r] = "opened" /\ UNCHANGED <<store, faults>>
          /\ \A s \in Runs \ {r} : loop'[s] = loop[s] /\ cur'[s] = cur[s]
          /\ \A b \in Approvals \ {a} : pending'[b] = pending[b]
      BY <1>0, <1>6 DEF TypeOK, Open, Goto
    <2>2. \A s \in Runs : loop[s] \in {"asked", "waiting"} => cur[s] \in Approvals \ {a}
      BY <1>0, <1>6 DEF TypeOK, CurIsOwn, InApproval, Open
    <2>3. \A s \in Runs \ {r} : Follows(s)'
      BY <1>0, <2>1, <2>2, OthersFollow DEF StoreFollows
    <2>4. Follows(r)'
      BY <1>0, <2>1, StatusTable DEF StoreFollows, Follows
    <2> QED BY <2>3, <2>4
  <1>7. ASSUME NEW h \in Handlers, Decide(h) PROVE \A s \in Runs : Follows(s)'
    <2>1. UNCHANGED <<store, loop, cur, faults>>
      BY <1>7 DEF Decide
    <2>2. \A a \in Approvals : pending'[a] = pending[a] \/ pending'[a].set
      <3> DEFINE q == hreq[h]
      <3>1. q.approval \in Approvals /\ hstage[h] = "read"
        BY <1>0, <1>7 DEF AnswerIsTaken, Requests, Decide
      <3>2. pending \in [Approvals -> Entries \cup {NoEntry}]
        BY <1>0 DEF TypeOK, Entries
      <3>3. CASE /\ IsPending(q.run, q.approval)
                 /\ pending' = [pending EXCEPT ![q.approval] = [@ EXCEPT !.set = TRUE, !.decision = q.yes]]
        <4>1. pending[q.approval] \in Entries
          BY <3>1, <3>2, <3>3 DEF IsPending
        <4>2. pending'[q.approval].set
          BY <3>1, <3>2, <3>3, <4>1 DEF Entries
        <4> QED BY <3>1, <3>2, <3>3, <4>2
      <3> QED BY <1>7, <3>3 DEF Decide
    <2>3. \A s \in Runs : loop[s] \in {"asked", "waiting"} => cur[s] \in Approvals
      BY <1>0 DEF TypeOK, CurIsOwn, InApproval
    <2> QED BY <1>0, <2>1, <2>2, <2>3, OthersFollow DEF StoreFollows
  <1>8. ASSUME NEW h \in Handlers, Persist(h) PROVE \A s \in Runs : Follows(s)'
    <2>0. PICK r \in Runs, a \in Approvals : hreq[h].run = r /\ hreq[h].approval = a
      BY <1>0, <1>8 DEF AnswerIsTaken, Requests, Persist
    <2>1. /\ UNCHANGED <<loop, cur, pending>>
          /\ pending[a] # NoEntry => pending[a].set
      BY <1>0, <1>8, <2>0 DEF AnswerIsTaken, Persist, Accepted
    <2>2. Writes(r, IsWaitingFor(store[r], a), "running")
      BY <1>0, <1>8, <2>0, ProjectResolved DEF Persist
    <2>3. faults = 0 /\ Follows(r) /\ \A s \in Runs \ {r} : Follows(s)'
      BY <1>0, <2>1, <2>2, OthersFollow DEF Writes, StoreFollows
    <2>4. CASE IsWaitingFor(store[r], a)
      <3>1. /\ store'[r].status = "running" /\ store[r].status = "waiting_approval"
            /\ cur[r] = a
        BY <2>2, <2>3, <2>4 DEF Writes, IsWaitingFor, Follows
      <3>2. loop[r] \in {"asked", "waiting", "granted", "closing"} \cup Reporting
        BY <1>0, <2>1, <2>3, <3>1, StatusTable DEF Follows, TypeOK, Stages, Reporting
      <3>3. loop[r] \in {"asked", "waiting"} => pending[cur[r]].set
        BY <1>0, <2>1, <3>1 DEF EntryIsHeld
      <3>4. Follows(r)'
        <4>1. store'[r].status \in StatusAt(loop'[r])
          <5>1. loop'[r] = loop[r]
            BY <2>1
          <5>2. CASE loop[r] = "closing"
            BY ONLY <3>1, <5>1, <5>2, StatusTable DEF LiveStatus
          <5>3. CASE loop[r] \in {"asked", "waiting", "granted"} \cup Reporting
            <6>1. StatusAt(loop[r]) = {"running", "waiting_approval"}
              BY ONLY <5>3, StatusTable
            <6> QED BY ONLY <3>1, <5>1, <6>1
          <5> QED BY <3>2, <5>2, <5>3
        <4>2. ~ (loop'[r] \in {"asked", "waiting"} /\ ~ pending'[cur'[r]].set)
          BY <2>1, <3>3
        <4> QED BY <3>1, <4>1, <4>2 DEF Follows
      <3> QED BY <2>3, <3>4
    <2>5. CASE ~ IsWaitingFor(store[r], a)
      BY <2>1, <2>2, <2>3, <2>5, OthersFollow DEF Writes
    <2> QED BY <2>4, <2>5
  <1>9. ASSUME NEW h \in Handlers, NEW r \in Runs, NEW a \in Approvals, NEW yes \in BOOLEAN,
                Submit(h, r, a, yes)
         PROVE  \A s \in Runs : Follows(s)'
    BY <1>0, <1>9, OthersFollow DEF Submit, StoreFollows
  <1>10. CASE Restart
    <2> SUFFICES ASSUME NEW s \in Runs PROVE Follows(s)'
      OBVIOUS
    <2>1. loop'[s] = "off" /\ faults = 0 /\ Follows(s) /\ store[s] \in RunStates
      BY <1>0, <1>10 DEF Restart, StoreFollows, TypeOK
    <2>2. store'[s].status \in TerminalStatus
      BY <1>10, <2>1, SavedRecords DEF Restart, RunStates
    <2> QED BY <2>1, <2>2, StatusTable DEF Follows
  <1>11. CASE UNCHANGED vars
    BY <1>0, <1>11, OthersFollow DEF vars, StoreFollows
  <1> QED
    BY <1>1, <1>2, <1>3, <1>4, <1>5, <1>6, <1>7, <1>8, <1>9, <1>10, <1>11 DEF Next, LoopStep

LEMMA InitFlowInv == Init => FlowInv
  <1> SUFFICES ASSUME Init PROVE FlowInv
    OBVIOUS
  <1> USE FlowAssumption, ApprovalAssumption DEF Init
  <1>1. TypeOK
    <2>1. FreshState \in RunStates
      BY DEF FreshState, RunStates, Status, LiveStatus, TerminalStatus, ResumableStatus
    <2> QED BY <2>1 DEF TypeOK, Stages
  <1>2. CurIsOwn /\ EntryIsHeld /\ SpentIsOver
    BY DEF CurIsOwn, EntryIsHeld, SpentIsOver, InApproval, Reporting
  <1>3. AnswerIsTaken /\ OneAcceptedAnswer
    BY DEF AnswerIsTaken, OneAcceptedAnswer, Accepted
  <1>4. StoreFollows
    BY StatusTable DEF StoreFollows, Follows, FreshState
  <1> QED BY <1>1, <1>2, <1>3, <1>4 DEF FlowInv

LEMMA NextFlowInv == FlowInv /\ [Next]_vars => FlowInv'
  <1> SUFFICES ASSUME FlowInv, [Next]_vars PROVE FlowInv'
    OBVIOUS
  <1>1. OwnershipInv'
    <2>1. CASE UNCHANGED vars
      BY <2>1 DEF FlowInv, OwnershipInv, vars, CurIsOwn, EntryIsHeld, SpentIsOver, AnswerIsTaken,
                  OneAcceptedAnswer, Accepted
    <2> QED
      BY <2>1, LoopMoves, EntryGoes, CallEnds, OpenKeeps, HandlerKeeps, RestartKeeps, DecideKeeps
      DEF Next, LoopStep
  <1> QED BY <1>1, TypeKeeps, StoreKeeps DEF FlowInv, OwnershipInv

\* Whose each approval is and what the saved status says of its loop, in every
\* reachable state of the broker, the loops, the handlers and the store.
THEOREM FlowInvariant == Spec => []FlowInv
  <1>1. Init => FlowInv
    BY InitFlowInv
  <1>2. FlowInv /\ [Next]_vars => FlowInv'
    BY NextFlowInv
  <1> QED BY <1>1, <1>2, PTL DEF Spec

\* The decision of an approval is taken once and reaches the loop that asked
\* (broker.resolve, broker.wait and the two writers of the run state): one
\* accepted answer, a blocked loop can be answered, and no waiting status, live
\* status or broker entry outlives its loop.
THEOREM DecisionsAreAlwaysSound == Spec => []DecisionsAreSound
  <1>1. FlowInv => DecisionsAreSound
    <2> SUFFICES ASSUME FlowInv PROVE DecisionsAreSound
      OBVIOUS
    <2> USE DEF FlowInv, TypeOK
    <2>1. BlockedLoopIsAnswerable
      BY DEF BlockedLoopIsAnswerable, StoreFollows, Follows, EntryIsHeld
    <2>2. NoStaleWaiting
      BY StatusTable DEF NoStaleWaiting, StoreFollows, Follows, InApproval, Reporting, Stages,
                         TerminalStatus, ResumableStatus
    <2>3. NoLeakedEntry
      BY DEF NoLeakedEntry, EntryIsHeld
    <2>4. LiveRunHasLoop
      BY StatusTable DEF LiveRunHasLoop, StoreFollows, Follows, LiveStatus, TerminalStatus, ResumableStatus
    <2> QED BY <2>1, <2>2, <2>3, <2>4 DEF DecisionsAreSound
  <1> QED BY <1>1, FlowInvariant, PTL

-----------------------------------------------------------------------------
(* The flow implements ApprovalContract                                    *)

abstract == [a \in Approvals |-> Standing(a)]

\* The mapping, case by case.
LEMMA StandingTable ==
  ASSUME NEW a \in Approvals
  PROVE  /\ a \in ran => Standing(a) = "spent"
         /\ a \notin ran /\ pending[a] # NoEntry =>
              Standing(a) = IF ~ pending[a].set THEN "open" ELSE IF pending[a].decision THEN "yes" ELSE "no"
         /\ a \notin ran /\ pending[a] = NoEntry /\ (\E r \in Runs : cur[r] = a /\ loop[r] = "granted") =>
              Standing(a) = "yes"
         /\ a \notin ran /\ pending[a] = NoEntry /\ ~ (\E r \in Runs : cur[r] = a /\ loop[r] = "granted") =>
              Standing(a) = IF a \in used THEN "void" ELSE "unasked"
  BY DEF Standing

LEMMA StandingTableNext ==
  ASSUME NEW a \in Approvals
  PROVE  /\ a \in ran' => Standing(a)' = "spent"
         /\ a \notin ran' /\ pending'[a] # NoEntry =>
              Standing(a)' = IF ~ pending'[a].set THEN "open" ELSE IF pending'[a].decision THEN "yes" ELSE "no"
         /\ a \notin ran' /\ pending'[a] = NoEntry /\ (\E r \in Runs : cur'[r] = a /\ loop'[r] = "granted") =>
              Standing(a)' = "yes"
         /\ a \notin ran' /\ pending'[a] = NoEntry /\ ~ (\E r \in Runs : cur'[r] = a /\ loop'[r] = "granted") =>
              Standing(a)' = IF a \in used' THEN "void" ELSE "unasked"
  BY DEF Standing

\* A request keeps its standing, or lapses.
KeptOrLapsed(a) ==
    \/ Standing(a)' = Standing(a)
    \/ Standing(a) \in {"open", "yes", "no"} /\ Standing(a)' = "void"

LEMMA LapseOrStutter ==
  ASSUME \A a \in Approvals : KeptOrLapsed(a)
  PROVE  Contract!Lapse
  <1> DEFINE gone == {a \in Approvals : Standing(a)' # Standing(a)}
  <1>1. gone \in SUBSET {a \in Approvals : abstract[a] \in {"open", "yes", "no"}}
    BY DEF KeptOrLapsed, abstract
  <1>2. abstract' = [a \in Approvals |-> IF a \in gone THEN "void" ELSE abstract[a]]
    BY DEF KeptOrLapsed, abstract
  <1> QED BY <1>1, <1>2 DEF Contract!Lapse, abstract

\* One request moves, the others keep their standing.
LEMMA OneMoves ==
  ASSUME NEW a \in Approvals, NEW from, NEW to,
         Standing(a) \in from, Standing(a)' = to,
         \A b \in Approvals \ {a} : Standing(b)' = Standing(b)
  PROVE  Contract!Goes(a, from, to)
  <1>1. abstract[a] \in from /\ abstract' = [abstract EXCEPT ![a] = to]
    BY DEF abstract
  <1> QED BY <1>1 DEF Contract!Goes, abstract

\* Steps of a loop or a handler that the contract does not see.
LEMMA Unseen ==
  ASSUME FlowInv,
         \/ UNCHANGED vars
         \/ \E r \in Runs : \/ Start(r) \/ RecordRequest(r) \/ Wait(r) \/ Report(r) \/ RecordCancelled(r)
                            \/ Resume(r) \/ \E status \in TerminalStatus \ {"cancelled"} : Finish(r, status)
         \/ \E h \in Handlers :
               \/ Persist(h)
               \/ \E r \in Runs, a \in Approvals, yes \in BOOLEAN : Submit(h, r, a, yes)
  PROVE  \A a \in Approvals : KeptOrLapsed(a)
  <1>1. UNCHANGED <<pending, ran, used>>
    BY DEF vars, Start, RecordRequest, Wait, Report, RecordCancelled, Resume, Finish, Persist, Submit
  <1>2. \A a \in Approvals, r \in Runs :
            cur'[r] = a /\ loop'[r] = "granted" <=> cur[r] = a /\ loop[r] = "granted"
    BY ApprovalAssumption
    DEF FlowInv, TypeOK, vars, Start, RecordRequest, Wait, Report, RecordCancelled, Resume, Finish,
        Persist, Submit, Goto, Reporting
  <1> QED BY <1>1, <1>2, StandingTable, StandingTableNext DEF KeptOrLapsed

\* Steps that take an entry, or a grant, from its loop.
LEMMA Lapses ==
  ASSUME FlowInv, NEW r \in Runs,
         Wake(r) \/ Timeout(r) \/ Veto(r) \/ Drain(r) \/ Disconnect(r) \/ Release(r)
  PROVE  \A a \in Approvals : KeptOrLapsed(a)
  <1>0. TypeOK /\ CurIsOwn /\ EntryIsHeld /\ SpentIsOver
    BY DEF FlowInv
  <1> SUFFICES ASSUME NEW a \in Approvals PROVE KeptOrLapsed(a)
    OBVIOUS
  <1>1. UNCHANGED <<ran, used>> /\ \A s \in Runs \ {r} : loop'[s] = loop[s] /\ cur'[s] = cur[s]
    BY <1>0 DEF TypeOK, Wake, Timeout, Veto, Drain, Disconnect, Release, Goto
  <1>2. CASE cur[r] # a
    <2>1. pending'[a] = pending[a]
      BY <1>0, <1>2 DEF TypeOK, EntryIsHeld, CurIsOwn, InApproval, Wake, Timeout, Veto, Drain, Disconnect,
                        Release, Goto, Pop, CancelRun
    <2>2. cur'[r] # a
      BY <1>0, <1>2, ApprovalAssumption DEF TypeOK, Wake, Timeout, Veto, Drain, Disconnect, Release
    <2> QED BY <1>1, <1>2, <2>1, <2>2, StandingTable, StandingTableNext DEF KeptOrLapsed
  <1>3. CASE cur[r] = a
    <2>0. a \in used /\ \A s \in Runs \ {r} : cur[s] # a
      BY <1>0, <1>3, ApprovalAssumption DEF CurIsOwn
    <2>1. CASE Wake(r)
      <3>1. /\ pending'[a] = NoEntry /\ pending[a] # NoEntry /\ pending[a].set /\ a \notin ran
            /\ loop'[r] = IF pending[a].decision THEN "granted" ELSE "denied"
            /\ cur'[r] = a
        BY <1>0, <1>3, <2>1 DEF TypeOK, EntryIsHeld, SpentIsOver, Wake, Pop
      <3> QED BY <1>1, <2>0, <3>1, StandingTable, StandingTableNext DEF KeptOrLapsed
    <2>2. CASE ~ Wake(r)
      <3>1. (pending'[a] = NoEntry \/ pending'[a] = pending[a]) /\ loop'[r] # "granted"
        BY <1>0, <1>3, <2>2 DEF TypeOK, Timeout, Veto, Drain, Disconnect, Release, Goto, Pop, CancelRun
      <3>2. ~ \E s \in Runs : cur'[s] = a /\ loop'[s] = "granted"
        BY <1>1, <2>0, <3>1
      <3>3. pending[a] # NoEntry => ~ \E s \in Runs : cur[s] = a /\ loop[s] = "granted"
        BY <1>0, <2>0, <1>3 DEF EntryIsHeld, TypeOK
      <3> QED BY <1>1, <2>0, <3>1, <3>2, <3>3, StandingTable, StandingTableNext DEF KeptOrLapsed
    <2> QED BY <2>1, <2>2
  <1> QED BY <1>2, <1>3

LEMMA RestartLapses ==
  ASSUME FlowInv, Restart
  PROVE  \A a \in Approvals : KeptOrLapsed(a)
  <1> SUFFICES ASSUME NEW a \in Approvals PROVE KeptOrLapsed(a)
    OBVIOUS
  <1>1. /\ UNCHANGED <<ran, used>> /\ pending'[a] = NoEntry
        /\ ~ \E s \in Runs : cur'[s] = a /\ loop'[s] = "granted"
    BY DEF Restart
  <1>2. a \notin used => pending[a] = NoEntry /\ ~ \E s \in Runs : cur[s] = a
    BY ApprovalAssumption DEF FlowInv, CurIsOwn, EntryIsHeld, TypeOK
  <1> QED BY <1>1, <1>2, StandingTable, StandingTableNext DEF KeptOrLapsed, FlowInv, TypeOK

LEMMA OpenAsks ==
  ASSUME FlowInv, NEW r \in Runs, NEW a \in Approvals, Open(r, a)
  PROVE  Contract!Ask(a)
  <1>1. /\ pending[a] = NoEntry /\ a \notin used /\ a \notin ran /\ ran' = ran
        /\ pending'[a] = Entry(r) /\ used' = used \cup {a}
        /\ \A b \in Approvals \ {a} : pending'[b] = pending[b]
        /\ loop[r] = "streaming" /\ loop'[r] = "opened"
        /\ \A s \in Runs \ {r} : loop'[s] = loop[s] /\ cur'[s] = cur[s]
    BY DEF FlowInv, TypeOK, Open, Goto
  <1>2. ~ \E s \in Runs : cur[s] = a
    BY <1>1, ApprovalAssumption DEF FlowInv, CurIsOwn
  <1>3. pending'[a] # NoEntry /\ ~ pending'[a].set
    BY <1>1, EntryIsNew DEF Entry
  <1>4. Standing(a) = "unasked" /\ Standing(a)' = "open"
    BY <1>1, <1>2, <1>3, StandingTable, StandingTableNext
  <1>5. \A b \in Approvals \ {a} : Standing(b)' = Standing(b)
    BY <1>1, StandingTable, StandingTableNext
  <1> QED BY <1>4, <1>5, OneMoves DEF Contract!Ask

LEMMA DecideDecides ==
  ASSUME FlowInv, NEW h \in Handlers, Decide(h)
  PROVE  \/ \E a \in Approvals, answer \in {"yes", "no"} : Contract!Decide(a, answer)
         \/ \A a \in Approvals : KeptOrLapsed(a)
  <1>0. PICK a \in Approvals, run \in Runs, yes \in BOOLEAN :
            hreq[h] = [run |-> run, approval |-> a, yes |-> yes]
    BY DEF FlowInv, AnswerIsTaken, Decide, Requests
  <1>1. /\ UNCHANGED <<loop, cur, used, ran>>
        /\ pending \in [Approvals -> Entries \cup {NoEntry}] /\ NoEntry \notin Entries
    BY FlowAssumption DEF FlowInv, TypeOK, Decide, Entries
  <1>2. CASE pending' = pending
    BY <1>1, <1>2, StandingTable, StandingTableNext DEF KeptOrLapsed
  <1>3. CASE /\ IsPending(run, a)
             /\ pending' = [pending EXCEPT ![a] = [@ EXCEPT !.set = TRUE, !.decision = yes]]
    <2>1. pending[a] \in Entries /\ pending[a] # NoEntry /\ ~ pending[a].set /\ a \notin ran
      BY <1>1, <1>3 DEF IsPending, FlowInv, SpentIsOver
    <2>2. pending'[a] \in Entries /\ pending'[a] # NoEntry /\ pending'[a].set /\ pending'[a].decision = yes
      BY <1>1, <1>3, <2>1 DEF Entries
    <2>3. \A b \in Approvals \ {a} : pending'[b] = pending[b]
      BY <1>1, <1>3
    <2> DEFINE answer == IF yes THEN "yes" ELSE "no"
    <2>4. Standing(a) = "open" /\ Standing(a)' = answer
      BY <1>1, <2>1, <2>2, StandingTable, StandingTableNext
    <2>5. \A b \in Approvals \ {a} : Standing(b)' = Standing(b)
      BY <1>1, <2>3, StandingTable, StandingTableNext
    <2> QED BY <2>4, <2>5, OneMoves DEF Contract!Decide
  <1>4. hreq[h].run = run /\ hreq[h].approval = a /\ hreq[h].yes = yes
    BY <1>0
  <1>5. \/ pending' = pending
        \/ /\ IsPending(hreq[h].run, hreq[h].approval)
           /\ pending' = [pending EXCEPT ![hreq[h].approval] =
                            [@ EXCEPT !.set = TRUE, !.decision = hreq[h].yes]]
    BY DEF Decide
  <1> QED BY <1>2, <1>3, <1>4, <1>5

LEMMA ExecuteSpends ==
  ASSUME FlowInv, NEW r \in Runs, Execute(r)
  PROVE  \E a \in Approvals : Contract!Spend(a)
  <1>1. PICK a \in Approvals : cur[r] = a
    BY DEF FlowInv, CurIsOwn, TypeOK, Execute, Goto, InApproval
  <1>2. /\ loop[r] = "granted" /\ loop'[r] = "ran" /\ UNCHANGED <<pending, cur, used>>
        /\ ran' = ran \cup {a} /\ a \notin ran
        /\ \A s \in Runs \ {r} : loop'[s] = loop[s]
    BY <1>1 DEF FlowInv, TypeOK, SpentIsOver, Execute, Goto
  <1>3. pending[a] = NoEntry
    BY <1>1, <1>2, ApprovalAssumption DEF FlowInv, EntryIsHeld, CurIsOwn, TypeOK
  <1>4. Standing(a) = "yes" /\ Standing(a)' = "spent"
    BY <1>1, <1>2, <1>3, StandingTable, StandingTableNext
  <1>5. \A b \in Approvals \ {a} : Standing(b)' = Standing(b)
    BY <1>1, <1>2, StandingTable, StandingTableNext
  <1> QED BY <1>4, <1>5, OneMoves DEF Contract!Spend

\* The flow implements the contract: whatever the order of answers, timeouts,
\* disconnects, lost writes and restarts, a guarded call runs at most once and
\* only for a yes to that very request, and the first accepted answer stands.
THEOREM FlowImplementsContract == Spec => ImplementsContract
  <1>1. Init => Contract!Init
    <2> SUFFICES ASSUME Init PROVE \A a \in Approvals : Standing(a) = "unasked"
      BY DEF Contract!Init
    <2> QED BY StandingTable DEF Init
  <1>2. FlowInv /\ [Next]_vars => Contract!Next
    <2> SUFFICES ASSUME FlowInv, [Next]_vars PROVE Contract!Next
      OBVIOUS
    <2>1. (\A a \in Approvals : KeptOrLapsed(a)) => Contract!Next
      BY LapseOrStutter DEF Contract!Next
    <2>2. ASSUME NEW r \in Runs, NEW a \in Approvals, Open(r, a) PROVE Contract!Next
      BY <2>2, OpenAsks DEF Contract!Next
    <2>3. ASSUME NEW h \in Handlers, Decide(h) PROVE Contract!Next
      BY <2>1, <2>3, DecideDecides DEF Contract!Next
    <2>4. ASSUME NEW r \in Runs, Execute(r) PROVE Contract!Next
      BY <2>4, ExecuteSpends DEF Contract!Next
    <2> QED
      BY <2>1, <2>2, <2>3, <2>4, Unseen, Lapses, RestartLapses DEF Next, LoopStep
  <1> QED BY <1>1, <1>2, FlowInvariant, PTL DEF Spec, ImplementsContract, Contract!Spec

=============================================================================
