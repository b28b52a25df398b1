------------------------- MODULE RunStateStoreProofs -------------------------
(***************************************************************************)
(* Proofs about RunStateStore, for any sets of runs, attempts, handlers    *)
(* and approvals and any bounds on events, crashes and failing writes.     *)
(***************************************************************************)
EXTENDS RunStateStore, TLAPS

USE DEF LiveStatus, ResumableStatus, TerminalStatus, Status

-----------------------------------------------------------------------------
(* The operations on one record                                            *)

LEMMA RecordOps ==
    ASSUME NEW st \in RunStates
    PROVE  /\ RecordEvent(st) \in RunStates
           /\ RecordEvent(st).status = st.status
           /\ \A target \in Status : /\ Transitioned(st, target) \in RunStates
                                     /\ Transitioned(st, target).status = target
           /\ Resumed(st) \in RunStates /\ Resumed(st).status = "running"
           /\ \A a \in Approvals : /\ ApprovalRequested(st, a) \in RunStates
                                   /\ ApprovalRequested(st, a).status = "waiting_approval"
           /\ ApprovalResolved(st) \in RunStates /\ ApprovalResolved(st).status = "running"
           /\ Interrupted(st) \in RunStates /\ Interrupted(st).status = "cancelled"
           /\ ToolStarted(st) \in RunStates /\ ToolStarted(st).status = st.status
           /\ ToolEnded(st) \in RunStates /\ ToolEnded(st).status = st.status
  <1>1. ASSUME NEW s \in RunStates
        PROVE  RecordEvent(s) \in RunStates /\ RecordEvent(s).status = s.status
    BY DEF RunStates, RecordEvent
  <1>2. ASSUME NEW s \in RunStates, NEW target \in Status
        PROVE  Moved(s, target) \in RunStates /\ Moved(s, target).status = target
    BY DEF RunStates, Moved
  <1>3. ASSUME NEW target \in Status
        PROVE  /\ Transitioned(st, target) \in RunStates
               /\ Transitioned(st, target).status = target
    BY <1>1, <1>2 DEF Transitioned
  <1>4. ASSUME NEW s \in RunStates, NEW a \in Approvals \cup {NoApproval}
        PROVE  /\ [s EXCEPT !.approval = a] \in RunStates
               /\ [s EXCEPT !.approval = a].status = s.status
    BY DEF RunStates
  <1>5. ASSUME NEW s \in RunStates, NEW b \in BOOLEAN
        PROVE  /\ [s EXCEPT !.tool = b] \in RunStates
               /\ [s EXCEPT !.tool = b].status = s.status
    BY DEF RunStates
  <1>6. ASSUME NEW s \in RunStates, NEW a \in Approvals \cup {NoApproval}
        PROVE  /\ [s EXCEPT !.approval = a, !.tool = FALSE] \in RunStates
               /\ [s EXCEPT !.approval = a, !.tool = FALSE].status = s.status
    BY DEF RunStates
  <1>7. Resumed(st) \in RunStates /\ Resumed(st).status = "running"
    BY <1>3 DEF Resumed
  <1>8. ASSUME NEW a \in Approvals
        PROVE  /\ ApprovalRequested(st, a) \in RunStates
               /\ ApprovalRequested(st, a).status = "waiting_approval"
    BY <1>3, <1>6 DEF ApprovalRequested
  <1>9. ApprovalResolved(st) \in RunStates /\ ApprovalResolved(st).status = "running"
    BY <1>3, <1>4 DEF ApprovalResolved
  <1>10. Interrupted(st) \in RunStates /\ Interrupted(st).status = "cancelled"
    BY <1>3, <1>6 DEF Interrupted
  <1>11. /\ ToolStarted(st) \in RunStates /\ ToolStarted(st).status = st.status
         /\ ToolEnded(st) \in RunStates /\ ToolEnded(st).status = st.status
    BY <1>1, <1>5 DEF ToolStarted, ToolEnded
  <1> QED BY <1>1, <1>3, <1>7, <1>8, <1>9, <1>10, <1>11

LEMMA FreshOk == FreshState \in RunStates /\ FreshState.status = "queued"
  BY DEF FreshState, RunStates

\* The arguments a call is made with fit its kind.
CallOk(c) ==
    /\ c \in Calls
    /\ c.kind = "request" => c.arg \in Approvals
    /\ c.kind = "finish" => c.arg \in TerminalStatus

\* What an accepted call saves: a record (prune removes it), with a status
\* that is the old one or the call's target.
LEMMA SavedOk ==
    ASSUME NEW c, CallOk(c), NEW st \in RunStates \cup {Absent},
           ~ Refuses(c, st), ~ ReturnsEarly(c, st)
    PROVE  /\ Saved(c, st) \in RunStates \cup {Absent}
           /\ c.kind # "prune" => Saved(c, st) \in RunStates
           /\ c.kind = "prune" => Saved(c, st) = Absent
           /\ c.kind = "create" => st = Absent /\ Saved(c, st).status = "queued"
           /\ c.kind \notin {"create", "prune"} =>
                 /\ st \in RunStates
                 /\ \/ Saved(c, st).status = st.status
                    \/ Saved(c, st).status \in AllowedTransitions[st.status]
           /\ c.kind \in {"bind", "event", "tool_start", "tool_end"} =>
                 Saved(c, st).status = st.status
           /\ c.kind \in {"resume", "started", "outcome", "resolve"} =>
                 Saved(c, st).status = "running"
           /\ c.kind = "request" => Saved(c, st).status = "waiting_approval"
           /\ c.kind = "resume" => st.status \in ResumableStatus
           /\ c.kind = "prune" /\ st # Absent => st.status \notin LiveStatus
  <1> c.kind \in {"create", "resume", "bind", "started", "event", "tool_start",
                  "tool_end", "request", "outcome", "finish", "resolve", "prune"}
    BY DEF CallOk, Calls
  <1>0. c.kind \notin {"create", "prune"} => st \in RunStates /\ st # Absent
    BY DEF Refuses, FileRefuses
  <1>1. CASE c.kind = "create"
    BY <1>1, FreshOk DEF Saved, Refuses, FileRefuses
  <1>2. CASE c.kind = "resume"
    <2>1. Saved(c, st) = Resumed(st)
      BY <1>2 DEF Saved
    <2>2. st.status \in ResumableStatus
      BY <1>0, <1>2 DEF Refuses, ResumeRefuses, CanResume
    <2> QED BY <1>0, <1>2, <2>1, <2>2, RecordOps DEF AllowedTransitions
  <1>3. CASE c.kind = "bind"
    BY <1>0, <1>3 DEF Saved
  <1>4. CASE c.kind = "started"
    <2>1. Saved(c, st) = Transitioned(st, "running")
      BY <1>4 DEF Saved
    <2>2. "running" \in AllowedTransitions[st.status]
      BY <1>0, <1>4 DEF Refuses, TransitionRefuses, CanTransition
    <2> QED BY <1>0, <1>4, <2>1, <2>2, RecordOps
  <1>5. CASE c.kind \in {"event", "tool_start", "tool_end"}
    <2>1. Saved(c, st) \in {RecordEvent(st), ToolStarted(st), ToolEnded(st)}
      BY <1>5 DEF Saved
    <2> QED BY <1>0, <1>5, <2>1, RecordOps
  <1>6. CASE c.kind = "request"
    <2>1. Saved(c, st) = ApprovalRequested(st, c.arg)
      BY <1>6 DEF Saved
    <2>2. st.status = "running" /\ c.arg \in Approvals
      BY <1>0, <1>6 DEF Refuses, ApprovalRefuses, CanRequestApproval, CallOk
    <2> QED BY <1>0, <1>6, <2>1, <2>2, RecordOps DEF AllowedTransitions
  <1>7. CASE c.kind \in {"outcome", "resolve"}
    <2>1. Saved(c, st) = ApprovalResolved(st)
      BY <1>7 DEF Saved
    <2>2. st.status = "waiting_approval"
      BY <1>0, <1>7 DEF Refuses, ApprovalRefuses, ReturnsEarly, IsWaitingFor
    <2> QED BY <1>0, <1>7, <2>1, <2>2, RecordOps DEF AllowedTransitions
  <1>8. CASE c.kind = "finish"
    <2>1. Saved(c, st) = Transitioned(st, c.arg) /\ c.arg \in TerminalStatus
      BY <1>8 DEF Saved, CallOk
    <2>2. c.arg \in AllowedTransitions[st.status]
      BY <1>0, <1>8 DEF Refuses, TransitionRefuses, CanTransition
    <2> QED BY <1>0, <1>8, <2>1, <2>2, RecordOps
  <1>9. CASE c.kind = "prune"
    BY <1>9 DEF Saved, Refuses, PruneRefuses
  <1> QED BY <1>1, <1>2, <1>3, <1>4, <1>5, <1>6, <1>7, <1>8, <1>9

-----------------------------------------------------------------------------
(* The inductive invariant                                                 *)

\* Handlers and the sweep make no call of an attempt's, and an attempt that
\* ends its run drives it until the call returns.
JobsOk ==
    \A p \in Procs : job[p] # NoJob =>
        /\ CallOk(job[p])
        /\ p \notin Attempts => job[p].kind \in {"resolve", "prune"}
        /\ job[p].kind = "finish" => drives[p] = job[p].run

\* Only the holder of the lock has read, and what it read is still current.
CopiesOk ==
    \A p \in Procs : copy[p] # Unread =>
        /\ lock = p
        /\ job[p] # NoJob
        /\ copy[p] = Absent <=> disk[job[p].run] = Absent
        /\ copy[p] # Absent => copy[p].status = disk[job[p].run].status

\* A process that is down drives nothing and reads nothing.
DownOk ==
    ~ up => /\ \A p \in Attempts : drives[p] = NoRun
            /\ \A p \in Procs : copy[p] = Unread

StoreInv == TypeOK /\ JobsOk /\ CopiesOk /\ DownOk /\ OneAttemptPerRun /\ DrivenRunIsLive

LEMMA StoreInit == Init => StoreInv
  <1> SUFFICES ASSUME Init PROVE StoreInv
    OBVIOUS
  <1>1. TypeOK
    BY StoreAssumption DEF Init, TypeOK
  <1>2. JobsOk /\ CopiesOk /\ DownOk
    BY DEF Init, JobsOk, CopiesOk, DownOk, Procs
  <1>3. OneAttemptPerRun /\ DrivenRunIsLive
    BY DEF Init, OneAttemptPerRun, DrivenRunIsLive
  <1> QED BY <1>1, <1>2, <1>3 DEF StoreInv

\* Starting a store call changes nothing but the caller's own position.
LEMMA EnterKeeps ==
    ASSUME StoreInv, NEW p \in Procs, NEW c, Enter(p, c), CallOk(c),
           p \notin Attempts => c.kind \in {"resolve", "prune"},
           c.kind = "finish" => drives[p] = c.run,
           made' \subseteq Runs, phase' \in [Attempts -> {"setup", "streaming"}],
           asked' \in [Attempts -> Approvals \cup {NoApproval}],
           used' \subseteq Approvals, decided' \subseteq Approvals
    PROVE  StoreInv'
  <1> USE DEF Enter
  <1>1. TypeOK'
    <2>1. job' \in [Procs -> Calls \cup {NoJob}]
      BY DEF StoreInv, TypeOK, CallOk
    <2> QED BY <2>1 DEF StoreInv, TypeOK
  <1>2. JobsOk'
    BY DEF StoreInv, TypeOK, JobsOk
  <1>3. CopiesOk'
    BY DEF StoreInv, TypeOK, CopiesOk
  <1>4. DownOk' /\ OneAttemptPerRun' /\ DrivenRunIsLive'
    BY DEF StoreInv, DownOk, OneAttemptPerRun, DrivenRunIsLive, Live
  <1> QED BY <1>1, <1>2, <1>3, <1>4 DEF StoreInv

\* Taking the lock and reading: the copy has the status of the file.
LEMMA LoadKeeps ==
    ASSUME StoreInv, NEW p \in Procs, Load(p)
    PROVE  StoreInv'
  <1> DEFINE r == job[p].run
  <1>0. r \in Runs
    BY DEF Load, StoreInv, TypeOK, Calls
  <1>1. /\ View(p, r) \in RunStates \cup {Absent}
        /\ View(p, r) = Absent <=> disk[r] = Absent
        /\ View(p, r) # Absent => View(p, r).status = disk[r].status
    <2>1. CASE disk[r] # Absent /\ p \in Attempts
      <3>1. disk[r] \in RunStates /\ buffer[p] \in Nat
        BY <1>0, <2>1 DEF StoreInv, TypeOK
      <3>2. /\ [disk[r] EXCEPT !.seq = @ + buffer[p]] \in RunStates
            /\ [disk[r] EXCEPT !.seq = @ + buffer[p]].status = disk[r].status
        BY <3>1 DEF RunStates
      <3> QED BY <2>1, <3>2, StoreAssumption DEF View
    <2>2. CASE ~ (disk[r] # Absent /\ p \in Attempts)
      BY <1>0, <2>2 DEF View, StoreInv, TypeOK
    <2> QED BY <2>1, <2>2
  <1>2. /\ copy' = [copy EXCEPT ![p] = View(p, r)] /\ lock = Free /\ lock' = p
        /\ up /\ job[p] # NoJob
        /\ UNCHANGED <<disk, job, buffer, decided, up, crashes, faults, delivered, ahead>>
        /\ UNCHANGED <<drives, phase, asked, used, made>>
    BY DEF Load, attemptVars
  <1> HIDE DEF r
  <1>3. TypeOK'
    BY <1>1, <1>2 DEF StoreInv, TypeOK
  <1>4. \A q \in Procs : copy[q] = Unread
    BY <1>2, StoreAssumption DEF StoreInv, CopiesOk
  <1>5. CopiesOk'
    BY <1>1, <1>2, <1>4 DEF CopiesOk, StoreInv, TypeOK, r
  <1>6. JobsOk' /\ DownOk'
    BY <1>2 DEF StoreInv, JobsOk, DownOk
  <1>7. OneAttemptPerRun' /\ DrivenRunIsLive'
    BY <1>2 DEF StoreInv, OneAttemptPerRun, DrivenRunIsLive, Live
  <1> QED BY <1>3, <1>5, <1>6, <1>7 DEF StoreInv

\* What an accepted call does to its run's file, in terms of the file itself:
\* the copy it was computed from is as good as the file.
LEMMA WriteOk ==
    ASSUME StoreInv, NEW p \in Procs, Read(p),
           ~ Refuses(job[p], copy[p]), ~ ReturnsEarly(job[p], copy[p])
    PROVE  LET c == job[p]
               new == Saved(c, copy[p])
               old == disk[c.run]
           IN  /\ c.run \in Runs
               /\ new \in RunStates \cup {Absent}
               /\ c.kind # "prune" => new \in RunStates
               /\ old # Absent /\ new # Absent =>
                     new.status = old.status \/ new.status \in AllowedTransitions[old.status]
               /\ c.kind = "create" => old = Absent /\ new.status \in LiveStatus
               /\ c.kind = "resume" => ~ Live(c.run) /\ new.status \in LiveStatus
               /\ Live(c.run) /\ c.kind # "finish" => new # Absent /\ new.status \in LiveStatus
  <1> DEFINE c == job[p]
             new == Saved(c, copy[p])
             old == disk[c.run]
  <1>1. /\ c # NoJob /\ CallOk(c) /\ c \in Calls /\ copy[p] # Unread
        /\ copy[p] \in RunStates \cup {Absent}
    BY DEF Read, StoreInv, JobsOk, TypeOK
  <1>2. c.run \in Runs /\ old \in RunStates \cup {Absent}
    BY <1>1 DEF Calls, StoreInv, TypeOK
  <1>3. /\ copy[p] = Absent <=> old = Absent
        /\ copy[p] # Absent => copy[p].status = old.status
    BY <1>1 DEF StoreInv, CopiesOk
  <1>4. Absent \notin RunStates
    BY StoreAssumption
  <1>5. c.kind \in {"create", "resume", "bind", "started", "event", "tool_start",
                    "tool_end", "request", "outcome", "finish", "resolve", "prune"}
    BY <1>1 DEF Calls
  <1> HIDE DEF c
  <1>6. /\ new \in RunStates \cup {Absent}
        /\ c.kind # "prune" => new \in RunStates
        /\ c.kind = "prune" => new = Absent
        /\ c.kind = "create" => copy[p] = Absent /\ new.status = "queued"
        /\ c.kind \notin {"create", "prune"} =>
              /\ copy[p] \in RunStates
              /\ \/ new.status = copy[p].status
                 \/ new.status \in AllowedTransitions[copy[p].status]
        /\ c.kind \in {"bind", "event", "tool_start", "tool_end"} =>
              new.status = copy[p].status
        /\ c.kind \in {"resume", "started", "outcome", "resolve"} => new.status = "running"
        /\ c.kind = "request" => new.status = "waiting_approval"
        /\ c.kind = "resume" => copy[p].status \in ResumableStatus
        /\ c.kind = "prune" /\ copy[p] # Absent => copy[p].status \notin LiveStatus
    BY <1>1, SavedOk DEF c
  <1> HIDE DEF new, old
  <1>7. c.kind = "resume" => old # Absent /\ old.status \in ResumableStatus
    BY <1>3, <1>4, <1>6
  <1>8. old # Absent /\ new # Absent =>
           new.status = old.status \/ new.status \in AllowedTransitions[old.status]
    BY <1>3, <1>4, <1>6
  <1>9. old # Absent /\ old.status \in LiveStatus /\ c.kind # "finish" =>
           new # Absent /\ new.status \in LiveStatus
    BY <1>3, <1>4, <1>5, <1>6
  <1>10. c.kind = "create" => old = Absent /\ new.status \in LiveStatus
    BY <1>3, <1>6
  <1> QED BY <1>2, <1>6, <1>7, <1>8, <1>9, <1>10 DEF Live, c, new, old

\* The call returns and gives up the lock, having saved or not.
Returns(p, ok) ==
    /\ Read(p)
    /\ Continue(p, ok)
    /\ Leave(p)
    /\ buffer' \in [Attempts -> Nat]
    /\ delivered' \in [Runs -> Int] /\ ahead' \in [Runs -> Int]
    /\ faults' \in 0..MaxFaults
    /\ UNCHANGED <<made, used, decided, up, crashes>>
    /\ \/ disk' = disk /\ (ok => job[p].kind \notin {"create", "resume"})
       \/ /\ ~ Refuses(job[p], copy[p]) /\ ~ ReturnsEarly(job[p], copy[p])
          /\ disk' = [disk EXCEPT ![job[p].run] = Saved(job[p], copy[p])]

LEMMA ReturnKeeps ==
    ASSUME StoreInv, NEW p \in Procs, NEW ok \in BOOLEAN, Returns(p, ok)
    PROVE  StoreInv'
  <1> DEFINE c == job[p]
             r == c.run
             new == Saved(c, copy[p])
             written == /\ ~ Refuses(job[p], copy[p]) /\ ~ ReturnsEarly(job[p], copy[p])
                        /\ disk' = [disk EXCEPT ![r] = new]
  <1> TypeOK /\ JobsOk /\ CopiesOk /\ DownOk /\ OneAttemptPerRun /\ DrivenRunIsLive
    BY DEF StoreInv
  <1>1. c # NoJob /\ CallOk(c) /\ r \in Runs /\ copy[p] # Unread /\ up
    BY DEF Returns, Read, JobsOk, CallOk, Calls
  <1>2. disk \in [Runs -> RunStates \cup {Absent}] /\ drives \in [Attempts -> Runs \cup {NoRun}]
    BY DEF TypeOK
  <1>3. /\ job' = [job EXCEPT ![p] = NoJob] /\ copy' = [copy EXCEPT ![p] = Unread]
        /\ lock' = Free
    BY DEF Returns, Leave
  <1>4. \A q \in Procs : q # p => copy[q] = Unread
    BY <1>1 DEF CopiesOk
  <1>5. \A q \in Procs : copy'[q] = Unread
    BY <1>3, <1>4 DEF TypeOK
  <1>6. (disk' = disk /\ (ok => c.kind \notin {"create", "resume"})) \/ written
    BY DEF Returns
  <1>7. written => /\ new \in RunStates \cup {Absent}
                   /\ c.kind = "create" => disk[r] = Absent /\ new # Absent /\ new.status \in LiveStatus
                   /\ c.kind = "resume" => ~ Live(r) /\ new # Absent /\ new.status \in LiveStatus
                   /\ Live(r) /\ c.kind # "finish" => new # Absent /\ new.status \in LiveStatus
    BY WriteOk, StoreAssumption DEF Returns
  <1>8. disk' \in [Runs -> RunStates \cup {Absent}]
    BY <1>1, <1>2, <1>6, <1>7
  <1>9. drives' = IF p \in Attempts /\ c.kind \in {"create", "resume"} /\ ok
                  THEN [drives EXCEPT ![p] = r]
                  ELSE IF p \in Attempts /\ c.kind = "finish"
                       THEN [drives EXCEPT ![p] = NoRun]
                       ELSE drives
    <2>1. CASE p \notin Attempts
      BY <2>1 DEF Returns, Continue
    <2>2. CASE p \in Attempts /\ c.kind \in {"create", "resume"} /\ ok
      BY <2>2 DEF Returns, Continue
    <2>3. CASE p \in Attempts /\ c.kind = "finish"
      BY <2>3 DEF Returns, Continue
    <2>4. CASE /\ p \in Attempts /\ ~ (c.kind \in {"create", "resume"} /\ ok)
               /\ c.kind # "finish"
      BY <2>4 DEF Returns, Continue
    <2> QED BY <2>1, <2>2, <2>3, <2>4
  <1>10. drives' \in [Attempts -> Runs \cup {NoRun}]
    BY <1>1, <1>2, <1>9
  <1>11. /\ phase' \in [Attempts -> {"setup", "streaming"}]
         /\ asked' \in [Attempts -> Approvals \cup {NoApproval}]
    BY DEF Returns, Continue, TypeOK
  <1>12. /\ job' \in [Procs -> Calls \cup {NoJob}] /\ lock' \in Procs \cup {Free}
         /\ copy' \in [Procs -> RunStates \cup {Absent, Unread}]
    BY <1>3 DEF TypeOK
  <1>13. TypeOK'
    BY <1>8, <1>10, <1>11, <1>12 DEF Returns, TypeOK
  <1> HIDE DEF c, r, new, written
  <1>14. \A q \in Attempts : q # p => drives'[q] = drives[q]
    BY <1>2, <1>9
  <1>15. JobsOk'
    <2>1. \A q \in Procs : q # p => job'[q] = job[q]
      BY <1>3 DEF TypeOK
    <2>2. job'[p] = NoJob
      BY <1>3 DEF TypeOK
    <2>3. \A q \in Procs : job[q] # NoJob /\ job[q].kind = "finish" => q \in Attempts
      BY DEF JobsOk
    <2> QED BY <1>14, <2>1, <2>2, <2>3 DEF JobsOk
  <1>16. CopiesOk' /\ DownOk'
    BY <1>1, <1>5 DEF CopiesOk, DownOk, Returns
  <1>17. \A q \in Attempts : drives[q] # NoRun => Live(drives[q])
    BY DEF DrivenRunIsLive
  <1>18. CASE p \in Attempts /\ c.kind \in {"create", "resume"} /\ ok
    <2>1. written /\ drives' = [drives EXCEPT ![p] = r]
      BY <1>6, <1>9, <1>18
    <2>2. ~ Live(r) /\ disk'[r] = new /\ new # Absent /\ new.status \in LiveStatus
      BY <1>1, <1>2, <1>7, <1>18, <2>1 DEF Live, written
    <2>3. \A q \in Attempts : drives[q] # r
      BY <1>1, <1>17, <2>2, StoreAssumption
    <2>4. drives'[p] = r
      BY <1>2, <1>18, <2>1
    <2>5. \A x \in Runs : x # r => disk'[x] = disk[x]
      BY <1>1, <1>2, <2>1 DEF written
    <2>6. OneAttemptPerRun'
      BY <1>14, <2>3, <2>4 DEF OneAttemptPerRun
    <2>7. DrivenRunIsLive'
      <3> SUFFICES ASSUME NEW q \in Attempts, drives'[q] # NoRun
                   PROVE  disk'[drives'[q]] # Absent /\ disk'[drives'[q]].status \in LiveStatus
        BY DEF DrivenRunIsLive, Live
      <3>1. CASE q = p
        BY <2>2, <2>4, <3>1
      <3>2. CASE q # p
        BY <1>2, <1>14, <1>17, <2>3, <2>5, <3>2 DEF Live
      <3> QED BY <3>1, <3>2
    <2> QED BY <1>13, <1>15, <1>16, <2>6, <2>7 DEF StoreInv
  <1>19. CASE ~ (p \in Attempts /\ c.kind \in {"create", "resume"} /\ ok)
    <2>1. \A q \in Attempts : drives'[q] # NoRun => drives'[q] = drives[q]
      BY <1>2, <1>9, <1>19
    <2>2. OneAttemptPerRun'
      BY <2>1 DEF OneAttemptPerRun
    <2>3. \A q \in Attempts : drives'[q] = r /\ drives'[q] # NoRun => c.kind # "finish"
      <3> SUFFICES ASSUME NEW q \in Attempts, drives'[q] = r, drives'[q] # NoRun, c.kind = "finish"
                   PROVE  FALSE
        OBVIOUS
      <3>1. p \in Attempts /\ drives[p] = r
        BY <1>1 DEF JobsOk, c, r
      <3>2. q = p
        BY <2>1, <3>1 DEF OneAttemptPerRun
      <3>3. drives'[p] = NoRun
        BY <1>2, <1>9, <3>1
      <3> QED BY <3>2, <3>3
    <2>4. DrivenRunIsLive'
      <3> SUFFICES ASSUME NEW q \in Attempts, drives'[q] # NoRun
                   PROVE  disk'[drives'[q]] # Absent /\ disk'[drives'[q]].status \in LiveStatus
        BY DEF DrivenRunIsLive, Live
      <3>1. Live(drives[q]) /\ drives'[q] = drives[q] /\ drives[q] \in Runs
        BY <1>2, <1>17, <2>1
      <3>2. CASE disk' = disk
        BY <3>1, <3>2 DEF Live
      <3>3. CASE written
        <4>1. CASE drives[q] = r
          BY <1>1, <1>2, <1>7, <2>3, <3>1, <3>3, <4>1 DEF written
        <4>2. CASE drives[q] # r
          BY <1>1, <1>2, <3>1, <3>3, <4>2 DEF written, Live
        <4> QED BY <4>1, <4>2
      <3> QED BY <1>6, <3>2, <3>3
    <2> QED BY <1>13, <1>15, <1>16, <2>2, <2>4 DEF StoreInv
  <1> QED BY <1>18, <1>19

-----------------------------------------------------------------------------
(* Every step keeps the invariant                                          *)

LEMMA AttemptKeeps ==
    ASSUME StoreInv, NEW p \in Attempts, AttemptStep(p)
    PROVE  StoreInv'
  <1> p \in Procs
    BY DEF Procs
  <1> USE DEF Call, CallOk, Calls
  <1>0. PICK r \in Runs :
          \/ BeginCreate(p, r) \/ BeginResume(p, r) \/ BeginStarted(p, r)
          \/ \E kind \in {"bind", "event", "tool_start", "tool_end"} : BeginProgress(p, r, kind)
          \/ Defer(p, r)
          \/ \E a \in Approvals : BeginRequest(p, r, a)
          \/ BeginOutcome(p, r)
          \/ \E status \in TerminalStatus : BeginFinish(p, r, status)
    BY DEF AttemptStep
  <1> TypeOK
    BY DEF StoreInv
  <1>1. CASE BeginCreate(p, r)
    <2>1. CallOk(Call("create", r, NoApproval)) /\ made' \subseteq Runs
      BY <1>1 DEF BeginCreate, TypeOK
    <2> QED BY <1>1, <2>1, EnterKeeps DEF BeginCreate, TypeOK
  <1>2. CASE BeginResume(p, r)
    BY <1>2, EnterKeeps DEF BeginResume, TypeOK
  <1>3. CASE BeginStarted(p, r)
    <2>1. phase' \in [Attempts -> {"setup", "streaming"}]
      BY <1>3 DEF BeginStarted, TypeOK
    <2> QED BY <1>3, <2>1, EnterKeeps DEF BeginStarted, TypeOK
  <1>4. ASSUME NEW kind \in {"bind", "event", "tool_start", "tool_end"}, BeginProgress(p, r, kind)
        PROVE  StoreInv'
    BY <1>4, EnterKeeps DEF BeginProgress, TypeOK
  <1>5. CASE Defer(p, r)
    <2>1. /\ UNCHANGED <<disk, made, lock, job, copy, drives, phase, asked, used>>
          /\ UNCHANGED <<decided, up, crashes, faults, ahead>>
          /\ buffer' \in [Attempts -> Nat] /\ delivered' \in [Runs -> Int]
      BY <1>5 DEF Defer, TypeOK
    <2> QED BY <2>1 DEF StoreInv, TypeOK, JobsOk, CopiesOk, DownOk, OneAttemptPerRun,
                        DrivenRunIsLive, Live
  <1>6. ASSUME NEW a \in Approvals, BeginRequest(p, r, a) PROVE StoreInv'
    <2>1. /\ asked' \in [Attempts -> Approvals \cup {NoApproval}] /\ used' \subseteq Approvals
      BY <1>6 DEF BeginRequest, TypeOK
    <2> QED BY <1>6, <2>1, EnterKeeps DEF BeginRequest, TypeOK
  <1>7. CASE BeginOutcome(p, r)
    <2>1. asked[p] \in Approvals
      BY <1>7 DEF BeginOutcome, TypeOK
    <2> QED BY <1>7, <2>1, EnterKeeps DEF BeginOutcome, TypeOK
  <1>8. ASSUME NEW status \in TerminalStatus, BeginFinish(p, r, status) PROVE StoreInv'
    BY <1>8, EnterKeeps DEF BeginFinish, TypeOK
  <1> QED BY <1>0, <1>1, <1>2, <1>3, <1>4, <1>5, <1>6, <1>7, <1>8

LEMMA OthersKeep ==
    ASSUME StoreInv, NEW r \in Runs,
           BeginPrune(r) \/ \E p \in Handlers, a \in Approvals : BeginResolve(p, r, a)
    PROVE  StoreInv'
  <1> USE DEF Call, CallOk, Calls
  <1> TypeOK
    BY DEF StoreInv
  <1>1. ASSUME NEW p \in Handlers, NEW a \in Approvals, BeginResolve(p, r, a) PROVE StoreInv'
    <2>1. p \in Procs /\ decided' \subseteq Approvals
      BY <1>1 DEF Procs, BeginResolve, TypeOK
    <2> QED BY <1>1, <2>1, EnterKeeps DEF BeginResolve, attemptVars, TypeOK
  <1>2. CASE BeginPrune(r)
    <2>1. Pruner \in Procs
      BY DEF Procs
    <2> QED BY <1>2, <2>1, EnterKeeps DEF BeginPrune, attemptVars, TypeOK
  <1> QED BY <1>1, <1>2

LEMMA StoreStepKeeps ==
    ASSUME StoreInv, NEW p \in Procs, StoreStep(p)
    PROVE  StoreInv'
  <1> TypeOK
    BY DEF StoreInv
  <1>1. CASE Load(p)
    BY <1>1, LoadKeeps
  <1>2. ASSUME NEW saving, buffer' = Popped(p, saving) PROVE buffer' \in [Attempts -> Nat]
    BY <1>2 DEF Popped, TypeOK
  <1>3. ASSUME Read(p) PROVE job[p] \in Calls /\ job[p].run \in Runs
    BY <1>3 DEF Read, TypeOK, Calls
  <1>4. ASSUME Read(p), Written(p)
        PROVE  /\ delivered' \in [Runs -> Int] /\ ahead' \in [Runs -> Int]
               /\ disk' = [disk EXCEPT ![job[p].run] = Saved(job[p], copy[p])]
    BY <1>3, <1>4 DEF Written, TypeOK
  <1>5. CASE Store(p)
    <2>1. Returns(p, TRUE)
      BY <1>2, <1>4, <1>5 DEF Store, Returns, TypeOK
    <2> QED BY <2>1, ReturnKeeps
  <1>6. CASE Refuse(p)
    <2>1. Returns(p, FALSE)
      BY <1>2, <1>6 DEF Refuse, Returns, TypeOK
    <2> QED BY <2>1, ReturnKeeps
  <1>7. CASE ReturnEarly(p)
    <2>1. delivered' \in [Runs -> Int] /\ ahead' \in [Runs -> Int]
      BY <1>3, <1>7 DEF ReturnEarly, TypeOK
    <2>2. job[p].kind = "outcome"
      BY <1>7 DEF ReturnEarly, ReturnsEarly
    <2>3. Returns(p, TRUE)
      BY <1>7, <2>1, <2>2 DEF ReturnEarly, Returns, TypeOK
    <2> QED BY <2>3, ReturnKeeps
  <1>8. CASE StoreFails(p)
    <2>1. faults' \in 0..MaxFaults
      BY <1>8, StoreAssumption DEF StoreFails, TypeOK
    <2>2. Returns(p, FALSE)
      BY <1>2, <1>4, <1>8, <2>1 DEF StoreFails, Returns, TypeOK
    <2> QED BY <2>2, ReturnKeeps
  <1> QED BY <1>1, <1>5, <1>6, <1>7, <1>8 DEF StoreStep

LEMMA RestartKeeps ==
    ASSUME StoreInv, Crash \/ Boot \/ \E r \in Runs : Recover(r)
    PROVE  StoreInv'
  <1> TypeOK
    BY DEF StoreInv
  <1>1. CASE Crash
    <2>1. TypeOK'
      <3>1. delivered' \in [Runs -> Int]
        <4>1. \A r \in Runs : disk[r] # Absent => disk[r].seq - ahead[r] \in Int
          BY DEF TypeOK, RunStates
        <4> QED BY <1>1, <4>1 DEF Crash, TypeOK
      <3>2. crashes' \in 0..MaxCrashes
        BY <1>1, StoreAssumption DEF Crash, TypeOK
      <3> QED BY <1>1, <3>1, <3>2 DEF Crash, TypeOK
    <2>2. JobsOk' /\ CopiesOk' /\ DownOk' /\ OneAttemptPerRun' /\ DrivenRunIsLive'
      BY <1>1 DEF Crash, JobsOk, CopiesOk, DownOk, OneAttemptPerRun, DrivenRunIsLive, Procs
    <2> QED BY <2>1, <2>2 DEF StoreInv
  <1>2. CASE Boot
    <2>1. /\ UNCHANGED <<disk, made, lock, job, copy, drives, phase, asked, buffer>>
          /\ UNCHANGED <<used, decided, crashes, delivered, ahead>> /\ up' = TRUE
          /\ faults' \in 0..MaxFaults
      BY <1>2, StoreAssumption DEF Boot, TypeOK
    <2> QED BY <2>1 DEF StoreInv, TypeOK, JobsOk, CopiesOk, DownOk, OneAttemptPerRun,
                        DrivenRunIsLive, Live
  <1>3. ASSUME NEW r \in Runs, Recover(r) PROVE StoreInv'
    <2>1. /\ UNCHANGED <<made, lock, job, copy, drives, phase, asked, buffer, used>>
          /\ UNCHANGED <<decided, up, crashes, faults, ahead>> /\ ~ up
          /\ disk' = [disk EXCEPT ![r] = Interrupted(disk[r])]
          /\ delivered' = [delivered EXCEPT ![r] = @ + 1]
      BY <1>3 DEF Recover
    <2>2. disk[r] \in RunStates
      BY <1>3 DEF Recover, TypeOK
    <2>3. Interrupted(disk[r]) \in RunStates
      BY <2>2, RecordOps
    <2>4. TypeOK'
      BY <2>1, <2>3 DEF TypeOK
    <2>5. (\A p \in Attempts : drives[p] = NoRun) /\ (\A p \in Procs : copy[p] = Unread)
      BY <2>1 DEF StoreInv, DownOk
    <2> QED BY <2>1, <2>4, <2>5 DEF StoreInv, JobsOk, CopiesOk, DownOk, OneAttemptPerRun,
                                   DrivenRunIsLive
  <1> QED BY <1>1, <1>2, <1>3

LEMMA StoreNext == StoreInv /\ [Next]_vars => StoreInv'
  <1> SUFFICES ASSUME StoreInv, [Next]_vars PROVE StoreInv'
    OBVIOUS
  <1>1. CASE UNCHANGED vars
    BY <1>1 DEF vars, StoreInv, TypeOK, JobsOk, CopiesOk, DownOk, OneAttemptPerRun,
                DrivenRunIsLive, Live
  <1>2. CASE Next
    BY <1>2, AttemptKeeps, OthersKeep, StoreStepKeeps, RestartKeeps DEF Next
  <1> QED BY <1>1, <1>2

LEMMA StoreInvariant == Spec => []StoreInv
  BY StoreInit, StoreNext, PTL DEF Spec

\* Every variable of the store and its users keeps its shape: in particular a
\* saved record always has a status of RunStatus.
THEOREM StoreTypes == Spec => []TypeOK
  <1>1. StoreInv => TypeOK
    BY DEF StoreInv
  <1> QED BY <1>1, StoreInvariant, PTL

\* However many clients resume a run at once, and whatever fails or crashes, at
\* most one attempt drives it (resume() repeats its check under the lock).
THEOREM AtMostOneAttempt == Spec => []OneAttemptPerRun
  <1>1. StoreInv => OneAttemptPerRun
    BY DEF StoreInv
  <1> QED BY <1>1, StoreInvariant, PTL

\* A run that is being driven has its state file and a live status: neither
\* prune() nor a late resolve_approval() nor a failed write can change that.
THEOREM DrivenRunsStayLive == Spec => []DrivenRunIsLive
  <1>1. StoreInv => DrivenRunIsLive
    BY DEF StoreInv
  <1> QED BY <1>1, StoreInvariant, PTL

\* A saved status changes only along _ALLOWED_TRANSITIONS: the status a method
\* checked under the lock is still the one it replaces.
THEOREM TableIsFollowed == Spec => StatusFollowsTable
  <1> DEFINE Follows == \A r \in Runs : disk[r] # Absent /\ disk'[r] # Absent =>
                          \/ disk'[r].status = disk[r].status
                          \/ CanTransition(disk[r], disk'[r].status)
  <1>1. StoreInv /\ [Next]_vars => [Follows]_vars
    <2> SUFFICES ASSUME StoreInv, [Next]_vars, NEW r \in Runs, disk[r] # Absent, disk'[r] # Absent
                 PROVE  \/ disk'[r].status = disk[r].status
                        \/ disk'[r].status \in AllowedTransitions[disk[r].status]
      BY DEF CanTransition
    <2> disk \in [Runs -> RunStates \cup {Absent}]
      BY DEF StoreInv, TypeOK
    <2>1. CASE disk' = disk
      BY <2>1
    <2>2. ASSUME NEW p \in Procs, Read(p), ~ Refuses(job[p], copy[p]),
                 ~ ReturnsEarly(job[p], copy[p]), Written(p)
          PROVE  \/ disk'[r].status = disk[r].status
                 \/ disk'[r].status \in AllowedTransitions[disk[r].status]
      <3>1. disk' = [disk EXCEPT ![job[p].run] = Saved(job[p], copy[p])]
        BY <2>2 DEF Written
      <3>2. CASE r = job[p].run
        BY <2>2, <3>1, <3>2, WriteOk
      <3>3. CASE r # job[p].run
        BY <3>1, <3>3
      <3> QED BY <3>2, <3>3
    <2>3. ASSUME NEW x \in Runs, Recover(x)
          PROVE  \/ disk'[r].status = disk[r].status
                 \/ disk'[r].status \in AllowedTransitions[disk[r].status]
      <3>1. /\ disk' = [disk EXCEPT ![x] = Interrupted(disk[x])]
            /\ disk[x] \in RunStates /\ disk[x].status \in LiveStatus
        BY <2>3 DEF Recover
      <3>2. Interrupted(disk[x]).status = "cancelled"
        BY <3>1, RecordOps
      <3> QED BY <3>1, <3>2 DEF AllowedTransitions
    <2>4. ASSUME NEW p \in Procs, StoreStep(p)
          PROVE  \/ disk'[r].status = disk[r].status
                 \/ disk'[r].status \in AllowedTransitions[disk[r].status]
      BY <2>1, <2>2, <2>4 DEF StoreStep, Load, Store, Refuse, ReturnEarly, StoreFails
    <2>5. ASSUME NEW p \in Attempts, AttemptStep(p) PROVE disk' = disk
      BY <2>5 DEF AttemptStep, BeginCreate, BeginResume, BeginStarted, BeginProgress, Defer,
                  BeginRequest, BeginOutcome, BeginFinish, Enter
    <2>6. ASSUME \/ \E p \in Handlers, x \in Runs, a \in Approvals : BeginResolve(p, x, a)
                 \/ \E x \in Runs : BeginPrune(x)
                 \/ Crash \/ Boot \/ UNCHANGED vars
          PROVE  disk' = disk
      BY <2>6 DEF BeginResolve, BeginPrune, Enter, Crash, Boot, vars
    <2> QED BY <2>1, <2>3, <2>4, <2>5, <2>6 DEF Next
  <1> QED BY <1>1, StoreInvariant, PTL DEF Spec, StatusFollowsTable

\* Both halves of an attempt's ownership, for any number of runs, clients and
\* handlers: it is alone in driving its run, and no late write of the server and
\* no retention sweep ends or removes the run under it.
THEOREM AttemptsStaySound == Spec => []AttemptsAreSound
  <1>1. StoreInv => AttemptsAreSound
    BY DEF StoreInv, AttemptsAreSound
  <1> QED BY <1>1, StoreInvariant, PTL

-----------------------------------------------------------------------------
(* What recovery and a resume read                                         *)

\* An attempt that drives no run has seen nothing of one.
IdleIsFresh ==
    \A p \in Attempts : drives[p] = NoRun =>
        phase[p] = "setup" /\ asked[p] = NoApproval /\ buffer[p] = 0

\* A store call of an attempt fits what the attempt is doing.
JobFits(p, c) ==
    /\ p \in Attempts => c.kind \notin {"resolve", "prune"}
    /\ p \in Attempts /\ c.kind \notin {"create", "resume"} => drives[p] = c.run
    /\ c.kind \in {"create", "resume"} => drives[p] = NoRun
    /\ c.kind = "create" => c.run \in made /\ disk[c.run] = Absent
    /\ c.kind \in {"started", "bind", "event", "tool_start", "tool_end", "request"} =>
          phase[p] = "streaming"
    /\ c.kind \in {"bind", "event", "tool_start", "tool_end"} => asked[p] = NoApproval
    /\ c.kind = "request" => c.arg \in used
    /\ c.kind \in {"request", "outcome"} => asked[p] = c.arg
    /\ c.kind = "finish" /\ (phase[p] = "setup" \/ asked[p] # NoApproval) =>
          c.arg \in {"failed", "cancelled"}
JobsFit == \A p \in Procs : job[p] # NoJob => JobFits(p, job[p])

Creates(p, r) == job[p] # NoJob /\ job[p].kind = "create" /\ job[p].run = r
OneCreator == \A p, q \in Procs, r \in Runs : Creates(p, r) /\ Creates(q, r) => p = q

\* What the holder of the lock has read is the file, with its own buffer.
CopiesExact == \A p \in Procs : copy[p] # Unread => copy[p] = View(p, job[p].run)

\* Nothing was delivered for a run that has never had a file.
Pristine ==
    \A r \in Runs :
        /\ r \notin made => disk[r] = Absent
        /\ r \notin made \/ (\E p \in Procs : Creates(p, r)) => delivered[r] = 0 /\ ahead[r] = 0

\* As long as no write is lost: the status of a driven run says how far its
\* attempt is, and the approval it names is the one the attempt waits for.
StatusFits(p) ==
    LET st == disk[drives[p]]
    IN  /\ st.status = "waiting_approval" => asked[p] = st.approval /\ phase[p] = "streaming"
        /\ phase[p] = "setup" \/ (job[p] # NoJob /\ job[p].kind = "started") =>
              st.status \in {"queued", "running"}
        /\ phase[p] = "streaming" /\ ~ (job[p] # NoJob /\ job[p].kind = "started") =>
              st.status \in {"running", "waiting_approval"}
DrivenFits == faults = 0 => \A p \in Attempts : drives[p] # NoRun => StatusFits(p)

ExactInv ==
    /\ IdleIsFresh /\ JobsFit /\ OneCreator /\ CopiesExact /\ Pristine /\ DrivenFits
    /\ NoStrandedRun /\ EventSeqExact /\ WaitingNamesItsApproval

LEMMA TransitionedFields ==
    ASSUME NEW st \in RunStates, NEW t \in Status
    PROVE  /\ Transitioned(st, t) \in RunStates /\ Transitioned(st, t).seq = st.seq + 1
           /\ Transitioned(st, t).approval = st.approval
           /\ Transitioned(st, t).status = t
  <1>1. RecordEvent(st) \in RunStates /\ RecordEvent(st).seq = st.seq + 1
        /\ RecordEvent(st).approval = st.approval
    BY DEF RunStates, RecordEvent
  <1>2. \A s \in RunStates :
            Moved(s, t) \in RunStates /\ Moved(s, t).seq = s.seq /\ Moved(s, t).approval = s.approval
            /\ Moved(s, t).status = t
    BY DEF RunStates, Moved
  <1> QED BY <1>1, <1>2 DEF Transitioned

\* The fields an accepted call saves besides the status.
LEMMA SavedFields ==
    ASSUME NEW c, CallOk(c), NEW st \in RunStates, c.kind \notin {"create", "prune"},
           ~ Refuses(c, st), ~ ReturnsEarly(c, st)
    PROVE  /\ Saved(c, st).seq = st.seq + IF c.kind = "bind" THEN 0 ELSE 1
           /\ c.kind \in {"resume", "started", "bind", "event", "tool_start", "tool_end", "finish"} =>
                 Saved(c, st).approval = st.approval
           /\ c.kind = "request" => Saved(c, st).approval = c.arg /\ Saved(c, st).tool = FALSE
           /\ c.kind \in {"outcome", "resolve"} => Saved(c, st).approval = NoApproval
           /\ c.kind = "finish" => Saved(c, st).status = c.arg
  <1> c.kind \in {"resume", "bind", "started", "event", "tool_start",
                  "tool_end", "request", "outcome", "finish", "resolve"}
    BY DEF CallOk, Calls
  <1>1. RecordEvent(st) \in RunStates /\ RecordEvent(st).seq = st.seq + 1
        /\ RecordEvent(st).approval = st.approval
    BY DEF RunStates, RecordEvent
  <1>2. \A t \in Status : /\ Transitioned(st, t) \in RunStates /\ Transitioned(st, t).seq = st.seq + 1
                          /\ Transitioned(st, t).approval = st.approval
                          /\ Transitioned(st, t).status = t
    BY TransitionedFields
  <1>3. \A s \in RunStates, a \in Approvals \cup {NoApproval} :
            /\ [s EXCEPT !.approval = a].seq = s.seq /\ [s EXCEPT !.approval = a].approval = a
            /\ [s EXCEPT !.approval = a, !.tool = FALSE].seq = s.seq
            /\ [s EXCEPT !.approval = a, !.tool = FALSE].approval = a
            /\ [s EXCEPT !.approval = a, !.tool = FALSE].tool = FALSE
    BY DEF RunStates
  <1>4. \A s \in RunStates, b \in BOOLEAN :
            [s EXCEPT !.tool = b].seq = s.seq /\ [s EXCEPT !.tool = b].approval = s.approval
    BY DEF RunStates
  <1>5. CASE c.kind = "bind"
    BY <1>5 DEF Saved, RunStates
  <1>6. CASE c.kind = "event"
    BY <1>1, <1>6 DEF Saved
  <1>7. CASE c.kind = "tool_start"
    BY <1>1, <1>4, <1>7 DEF Saved, ToolStarted
  <1>8. CASE c.kind = "tool_end"
    BY <1>1, <1>4, <1>8 DEF Saved, ToolEnded
  <1>9. CASE c.kind \in {"resume", "started"}
    BY <1>2, <1>9 DEF Saved, Resumed
  <1>10. CASE c.kind = "finish"
    BY <1>2, <1>10 DEF Saved, CallOk
  <1>11. CASE c.kind = "request"
    <2>1. Transitioned(st, "waiting_approval") \in RunStates /\ c.arg \in Approvals
          /\ Transitioned(st, "waiting_approval").seq = st.seq + 1
      BY <1>2, <1>11 DEF CallOk
    <2>2. Saved(c, st) = ApprovalRequested(st, c.arg)
      BY <1>11 DEF Saved
    <2> QED BY <1>3, <1>11, <2>1, <2>2 DEF ApprovalRequested
  <1>12. CASE c.kind \in {"outcome", "resolve"}
    BY <1>2, <1>3, <1>12 DEF Saved, ApprovalResolved
  <1> QED BY <1>5, <1>6, <1>7, <1>8, <1>9, <1>10, <1>11, <1>12

LEMMA ExactInit == Init => ExactInv
  <1> SUFFICES ASSUME Init PROVE ExactInv
    OBVIOUS
  <1> USE DEF Init
  <1>1. IdleIsFresh /\ JobsFit /\ OneCreator /\ CopiesExact /\ Pristine
    BY DEF IdleIsFresh, JobsFit, OneCreator, Creates, CopiesExact, Pristine
  <1>2. DrivenFits /\ NoStrandedRun /\ EventSeqExact /\ WaitingNamesItsApproval
    BY DEF DrivenFits, NoStrandedRun, EventSeqExact, WaitingNamesItsApproval, Live
  <1> QED BY <1>1, <1>2 DEF ExactInv

\* Starting a store call: the files, the buffers and the counts are untouched.
LEMMA EnterExact ==
    ASSUME StoreInv, ExactInv, NEW p \in Procs, NEW c, Enter(p, c), JobFits(p, c)',
           IF c.kind = "create" THEN c.run \notin made /\ made' = made \cup {c.run} ELSE made' = made,
           used \subseteq used',
           \A q \in Attempts \ {p} : phase'[q] = phase[q] /\ asked'[q] = asked[q],
           p \in Attempts /\ drives[p] = NoRun => phase'[p] = phase[p] /\ asked'[p] = asked[p],
           p \in Attempts /\ drives[p] # NoRun /\ StatusFits(p) => StatusFits(p)'
    PROVE  ExactInv'
  <1>0. /\ IdleIsFresh /\ JobsFit /\ OneCreator /\ CopiesExact /\ Pristine /\ DrivenFits
        /\ NoStrandedRun /\ EventSeqExact /\ WaitingNamesItsApproval
    BY DEF ExactInv
  <1>1. /\ up /\ job[p] = NoJob /\ job' = [job EXCEPT ![p] = c]
        /\ UNCHANGED <<disk, lock, copy, drives, buffer>>
        /\ UNCHANGED <<up, crashes, faults, delivered, ahead>>
    BY DEF Enter
  <1>2. job'[p] = c /\ \A q \in Procs \ {p} : job'[q] = job[q]
    BY <1>1 DEF StoreInv, TypeOK
  <1>3. \A q \in Procs \ {p} : job[q] # NoJob /\ q \notin Attempts => job[q].kind \in {"resolve", "prune"}
    BY DEF StoreInv, JobsOk
  <1>4. IdleIsFresh'
    BY <1>0, <1>1 DEF IdleIsFresh
  <1>5. JobsFit'
    <2> SUFFICES ASSUME NEW q \in Procs \ {p}, job[q] # NoJob PROVE JobFits(q, job[q])'
      BY <1>2 DEF JobsFit
    <2>1. JobFits(q, job[q])
      BY <1>0 DEF JobsFit
    <2>2. q \in Attempts => phase'[q] = phase[q] /\ asked'[q] = asked[q]
      OBVIOUS
    <2>3. made \subseteq made'
      OBVIOUS
    <2> QED BY <1>1, <1>2, <1>3, <2>1, <2>2, <2>3 DEF JobFits
  <1>6. \A q \in Procs, x \in Runs : Creates(q, x)' => Creates(q, x) \/ (q = p /\ c.kind = "create" /\ c.run = x)
    BY <1>2 DEF Creates
  <1>7. \A q \in Procs, x \in Runs : Creates(q, x) => x \in made
    BY <1>0 DEF JobsFit, JobFits, Creates
  <1>8. OneCreator'
    BY <1>0, <1>6, <1>7 DEF OneCreator
  <1>9. CopiesExact'
    <2>1. copy[p] = Unread
      BY <1>1 DEF StoreInv, CopiesOk
    <2> QED BY <1>0, <1>1, <1>2, <2>1 DEF CopiesExact, View
  <1>10. Pristine'
    BY <1>0, <1>1, <1>6 DEF Pristine
  <1>11. DrivenFits'
    <2> SUFFICES ASSUME faults = 0, NEW q \in Attempts, drives[q] # NoRun PROVE StatusFits(q)'
      BY <1>1 DEF DrivenFits
    <2>1. StatusFits(q)
      BY <1>0 DEF DrivenFits
    <2>2. CASE q = p
      BY <2>1, <2>2
    <2>3. CASE q # p
      <3>1. q \in Procs /\ job'[q] = job[q] /\ phase'[q] = phase[q] /\ asked'[q] = asked[q]
        BY <1>2, <2>3 DEF Procs
      <3> QED BY <1>1, <2>1, <3>1 DEF StatusFits
    <2> QED BY <2>2, <2>3
  <1>12. NoStrandedRun' /\ EventSeqExact' /\ WaitingNamesItsApproval'
    BY <1>0, <1>1 DEF NoStrandedRun, EventSeqExact, WaitingNamesItsApproval, Live
  <1> QED BY <1>4, <1>5, <1>8, <1>9, <1>10, <1>11, <1>12 DEF ExactInv

LEMMA AttemptExact ==
    ASSUME StoreInv, ExactInv, NEW p \in Attempts, NEW r \in Runs,
           \/ BeginCreate(p, r) \/ BeginResume(p, r) \/ BeginStarted(p, r)
           \/ \E kind \in {"bind", "event", "tool_start", "tool_end"} : BeginProgress(p, r, kind)
           \/ \E a \in Approvals : BeginRequest(p, r, a)
           \/ BeginOutcome(p, r)
           \/ \E status \in TerminalStatus : BeginFinish(p, r, status)
    PROVE  ExactInv'
  <1> p \in Procs /\ NoRun \notin Runs
    BY StoreAssumption DEF Procs
  <1> TypeOK /\ IdleIsFresh /\ Pristine
    BY DEF StoreInv, ExactInv
  <1> USE DEF Call
  <1>1. CASE BeginCreate(p, r)
    <2>1. JobFits(p, Call("create", r, NoApproval))'
      BY <1>1 DEF BeginCreate, Enter, JobFits, Pristine
    <2>2. drives[p] = NoRun
      BY <1>1 DEF BeginCreate
    <2> QED BY <1>1, <2>1, <2>2, EnterExact DEF BeginCreate
  <1>2. CASE BeginResume(p, r)
    <2>1. JobFits(p, Call("resume", r, NoApproval))' /\ drives[p] = NoRun
      BY <1>2 DEF BeginResume, Enter, JobFits
    <2> QED BY <1>2, <2>1, EnterExact DEF BeginResume
  <1>3. CASE BeginStarted(p, r)
    <2>1. JobFits(p, Call("started", r, NoApproval))'
      BY <1>3 DEF BeginStarted, Driving, Enter, JobFits, TypeOK
    <2>2. drives[p] # NoRun /\ StatusFits(p) => StatusFits(p)'
      <3>1. Call("started", r, NoApproval) # NoJob
        BY StoreAssumption, ApprovalAssumption DEF Calls
      <3> QED BY <1>3, <3>1 DEF BeginStarted, Driving, Enter, StatusFits, TypeOK
    <2>3. drives[p] = r /\ \A q \in Attempts \ {p} : phase'[q] = phase[q]
      BY <1>3 DEF BeginStarted, Driving, TypeOK
    <2> QED BY <1>3, <2>1, <2>2, <2>3, EnterExact DEF BeginStarted
  <1>4. ASSUME NEW kind \in {"bind", "event", "tool_start", "tool_end"}, BeginProgress(p, r, kind)
        PROVE  ExactInv'
    <2>1. JobFits(p, Call(kind, r, NoApproval))'
      BY <1>4 DEF BeginProgress, Driving, Enter, JobFits
    <2>2. drives[p] # NoRun /\ StatusFits(p) => StatusFits(p)'
      BY <1>4 DEF BeginProgress, Driving, Enter, StatusFits, TypeOK
    <2> QED BY <1>4, <2>1, <2>2, EnterExact DEF BeginProgress
  <1>5. ASSUME NEW a \in Approvals, BeginRequest(p, r, a) PROVE ExactInv'
    <2>1. JobFits(p, Call("request", r, a))'
      BY <1>5 DEF BeginRequest, Driving, Enter, JobFits, TypeOK
    <2>2. drives[p] # NoRun /\ StatusFits(p) => StatusFits(p)'
      <3> SUFFICES ASSUME drives[p] # NoRun, StatusFits(p) PROVE StatusFits(p)'
        OBVIOUS
      <3>1. drives[p] = r /\ disk[r] \in RunStates /\ phase[p] = "streaming" /\ asked[p] = NoApproval
        BY <1>5 DEF BeginRequest, Driving, StoreInv, DrivenRunIsLive, Live, TypeOK
      <3>2. disk[r].status # "waiting_approval"
        BY <3>1, StoreAssumption, ApprovalAssumption DEF StatusFits, ExactInv, WaitingNamesItsApproval, TypeOK
      <3> QED BY <1>5, <3>1, <3>2 DEF BeginRequest, Driving, Enter, StatusFits, TypeOK
    <2>3. drives[p] = r /\ \A q \in Attempts \ {p} : asked'[q] = asked[q]
      BY <1>5 DEF BeginRequest, Driving, TypeOK
    <2> QED BY <1>5, <2>1, <2>2, <2>3, EnterExact DEF BeginRequest
  <1>6. CASE BeginOutcome(p, r)
    <2>1. JobFits(p, Call("outcome", r, asked[p]))'
      BY <1>6 DEF BeginOutcome, Driving, Enter, JobFits
    <2>2. drives[p] # NoRun /\ StatusFits(p) => StatusFits(p)'
      BY <1>6 DEF BeginOutcome, Driving, Enter, StatusFits, TypeOK
    <2> QED BY <1>6, <2>1, <2>2, EnterExact DEF BeginOutcome
  <1>7. ASSUME NEW status \in TerminalStatus, BeginFinish(p, r, status) PROVE ExactInv'
    <2>1. JobFits(p, Call("finish", r, status))'
      BY <1>7 DEF BeginFinish, Enter, JobFits
    <2>2. drives[p] # NoRun /\ StatusFits(p) => StatusFits(p)'
      BY <1>7 DEF BeginFinish, Enter, StatusFits, TypeOK
    <2> QED BY <1>7, <2>1, <2>2, EnterExact DEF BeginFinish
  <1> QED BY <1>1, <1>2, <1>3, <1>4, <1>5, <1>6, <1>7

LEMMA OthersExact ==
    ASSUME StoreInv, ExactInv, NEW r \in Runs,
           BeginPrune(r) \/ \E p \in Handlers, a \in Approvals : BeginResolve(p, r, a)
    PROVE  ExactInv'
  <1> USE DEF Call
  <1>1. ASSUME NEW p \in Handlers, NEW a \in Approvals, BeginResolve(p, r, a) PROVE ExactInv'
    <2>1. p \in Procs /\ p \notin Attempts
      BY StoreAssumption DEF Procs
    <2>2. JobFits(p, Call("resolve", r, a))'
      BY <2>1 DEF JobFits
    <2> QED BY <1>1, <2>1, <2>2, EnterExact DEF BeginResolve, attemptVars
  <1>2. CASE BeginPrune(r)
    <2>1. Pruner \in Procs /\ Pruner \notin Attempts
      BY StoreAssumption DEF Procs
    <2>2. JobFits(Pruner, Call("prune", r, NoApproval))'
      BY <2>1 DEF JobFits
    <2> QED BY <1>2, <2>1, <2>2, EnterExact DEF BeginPrune, attemptVars
  <1> QED BY <1>1, <1>2

\* An event that is only counted in memory.
LEMMA DeferExact ==
    ASSUME StoreInv, ExactInv, NEW p \in Attempts, NEW r \in Runs, Defer(p, r)
    PROVE  ExactInv'
  <1>0. /\ IdleIsFresh /\ JobsFit /\ OneCreator /\ CopiesExact /\ Pristine /\ DrivenFits
        /\ NoStrandedRun /\ EventSeqExact /\ WaitingNamesItsApproval
    BY DEF ExactInv
  <1>1. /\ drives[p] = r /\ r # NoRun /\ job[p] = NoJob /\ lock = Free
        /\ UNCHANGED <<disk, made, lock, job, copy, drives, phase, asked>>
        /\ UNCHANGED <<used, up, faults, ahead>>
        /\ buffer' = [buffer EXCEPT ![p] = @ + 1] /\ delivered' = [delivered EXCEPT ![r] = @ + 1]
    BY StoreAssumption DEF Defer, Driving
  <1>2. TypeOK /\ OneAttemptPerRun /\ Live(r)
    BY <1>1 DEF StoreInv, DrivenRunIsLive
  <1>3. \A q \in Procs : copy[q] = Unread
    BY <1>1, StoreAssumption DEF StoreInv, CopiesOk
  <1>4. \A q \in Procs : ~ Creates(q, r)
    BY <1>0, <1>2 DEF Creates, JobsFit, JobFits, Live
  <1>5. r \in made
    BY <1>0, <1>2 DEF Pristine, Live
  <1>6. IdleIsFresh' /\ JobsFit' /\ OneCreator' /\ CopiesExact'
    BY <1>0, <1>1, <1>2, <1>3 DEF IdleIsFresh, JobsFit, JobFits, OneCreator, Creates, CopiesExact, TypeOK
  <1>7. Pristine'
    BY <1>0, <1>1, <1>2, <1>4, <1>5 DEF Pristine, Creates, TypeOK
  <1>8. DrivenFits' /\ NoStrandedRun' /\ WaitingNamesItsApproval'
    BY <1>0, <1>1 DEF DrivenFits, StatusFits, NoStrandedRun, WaitingNamesItsApproval, Live
  <1>9. EventSeqExact'
    <2> SUFFICES ASSUME faults = 0, NEW x \in Runs, disk[x] # Absent
                 PROVE  /\ \A q \in Attempts : drives[q] = x =>
                              disk[x].seq + buffer'[q] = delivered'[x] + ahead[x]
                        /\ (\A q \in Attempts : drives[q] # x) => disk[x].seq = delivered'[x] + ahead[x]
      BY <1>1 DEF EventSeqExact
    <2>1. /\ \A q \in Attempts : drives[q] = x => disk[x].seq + buffer[q] = delivered[x] + ahead[x]
          /\ (\A q \in Attempts : drives[q] # x) => disk[x].seq = delivered[x] + ahead[x]
      BY <1>0 DEF EventSeqExact
    <2>2. /\ disk[x].seq \in Nat /\ ahead[x] \in Int /\ delivered[x] \in Int
          /\ \A q \in Attempts : buffer[q] \in Nat
      BY <1>2 DEF TypeOK, RunStates
    <2>3. CASE x = r
      <3>1. delivered'[x] = delivered[x] + 1 /\ buffer'[p] = buffer[p] + 1
        BY <1>1, <1>2, <2>3 DEF TypeOK
      <3>2. \A q \in Attempts : drives[q] = x => q = p
        BY <1>1, <1>2, <2>3 DEF OneAttemptPerRun
      <3> QED BY <1>1, <2>1, <2>2, <2>3, <3>1, <3>2
    <2>4. CASE x # r
      <3>1. delivered'[x] = delivered[x] /\ \A q \in Attempts : drives[q] = x => buffer'[q] = buffer[q]
        BY <1>1, <1>2, <2>4 DEF TypeOK
      <3> QED BY <2>1, <3>1
    <2> QED BY <2>3, <2>4
  <1> QED BY <1>6, <1>7, <1>8, <1>9 DEF ExactInv

LEMMA LoadExact ==
    ASSUME StoreInv, ExactInv, NEW p \in Procs, Load(p)
    PROVE  ExactInv'
  <1>0. /\ IdleIsFresh /\ JobsFit /\ OneCreator /\ CopiesExact /\ Pristine /\ DrivenFits
        /\ NoStrandedRun /\ EventSeqExact /\ WaitingNamesItsApproval
    BY DEF ExactInv
  <1>1. /\ copy' = [copy EXCEPT ![p] = View(p, job[p].run)] /\ lock = Free
        /\ UNCHANGED <<disk, job, buffer, up, faults, delivered, ahead>>
        /\ UNCHANGED <<drives, phase, asked, used, made>>
    BY DEF Load, attemptVars
  <1>2. \A q \in Procs : copy[q] = Unread
    BY <1>1, StoreAssumption DEF StoreInv, CopiesOk
  <1>3. CopiesExact'
    BY <1>1, <1>2 DEF CopiesExact, View, StoreInv, TypeOK
  <1>4. IdleIsFresh' /\ JobsFit' /\ OneCreator' /\ Pristine'
    BY <1>0, <1>1 DEF IdleIsFresh, JobsFit, JobFits, OneCreator, Creates, Pristine
  <1>5. DrivenFits' /\ NoStrandedRun' /\ EventSeqExact' /\ WaitingNamesItsApproval'
    BY <1>0, <1>1 DEF DrivenFits, StatusFits, NoStrandedRun, EventSeqExact, WaitingNamesItsApproval, Live
  <1> QED BY <1>3, <1>4, <1>5 DEF ExactInv

LEMMA RestartExact ==
    ASSUME StoreInv, ExactInv, Crash \/ Boot \/ \E r \in Runs : Recover(r)
    PROVE  ExactInv'
  <1>0. /\ IdleIsFresh /\ JobsFit /\ OneCreator /\ CopiesExact /\ Pristine /\ DrivenFits
        /\ NoStrandedRun /\ EventSeqExact /\ WaitingNamesItsApproval
    BY DEF ExactInv
  <1>1. CASE Crash
    <2> USE <1>1 DEF Crash
    <2>1. IdleIsFresh' /\ JobsFit' /\ OneCreator' /\ CopiesExact' /\ DrivenFits' /\ NoStrandedRun'
      BY DEF IdleIsFresh, JobsFit, OneCreator, Creates, CopiesExact, DrivenFits, NoStrandedRun
    <2>2. Pristine' /\ WaitingNamesItsApproval'
      BY <1>0 DEF Pristine, Creates, WaitingNamesItsApproval
    <2>3. EventSeqExact'
      <3>1. \A x \in Runs : disk[x] # Absent => disk[x].seq = (disk[x].seq - ahead[x]) + ahead[x]
        BY DEF StoreInv, TypeOK, RunStates
      <3>2. \A x \in Runs : disk[x] # Absent => delivered'[x] = disk[x].seq - ahead[x]
        OBVIOUS
      <3>3. \A q \in Attempts, x \in Runs : drives'[q] # x
        BY StoreAssumption
      <3> QED BY <3>1, <3>2, <3>3 DEF EventSeqExact
    <2> QED BY <2>1, <2>2, <2>3 DEF ExactInv
  <1>2. CASE Boot
    <2>1. /\ UNCHANGED <<disk, made, lock, job, copy, drives, phase, asked, buffer>>
          /\ UNCHANGED <<used, delivered, ahead>>
          /\ faults' = 0 => faults = 0 /\ ~ \E r \in Runs : Live(r)
      BY <1>2, StoreAssumption DEF Boot, StoreInv, TypeOK, Live
    <2>2. NoStrandedRun'
      BY <2>1 DEF NoStrandedRun, Live
    <2>3. IdleIsFresh' /\ JobsFit' /\ OneCreator' /\ CopiesExact' /\ Pristine'
      BY <1>0, <2>1 DEF IdleIsFresh, JobsFit, JobFits, OneCreator, Creates, CopiesExact, View, Pristine
    <2>4. DrivenFits' /\ EventSeqExact' /\ WaitingNamesItsApproval'
      BY <1>0, <2>1 DEF DrivenFits, StatusFits, EventSeqExact, WaitingNamesItsApproval
    <2> QED BY <2>2, <2>3, <2>4 DEF ExactInv
  <1>3. ASSUME NEW r \in Runs, Recover(r) PROVE ExactInv'
    <2>1. /\ UNCHANGED <<made, lock, job, copy, drives, phase, asked, buffer, used>>
          /\ UNCHANGED <<up, faults, ahead>> /\ ~ up
          /\ disk' = [disk EXCEPT ![r] = Interrupted(disk[r])]
          /\ delivered' = [delivered EXCEPT ![r] = @ + 1]
          /\ disk[r] # Absent
      BY <1>3 DEF Recover
    <2>2. TypeOK /\ disk[r] \in RunStates
      BY <2>1 DEF StoreInv, TypeOK
    <2>3. Interrupted(disk[r]).status = "cancelled" /\ Interrupted(disk[r]).seq = disk[r].seq + 1
          /\ Interrupted(disk[r]) \in RunStates
      <3>1. Transitioned(disk[r], "cancelled").seq = disk[r].seq + 1
            /\ Transitioned(disk[r], "cancelled") \in RunStates
        BY <2>2, TransitionedFields
      <3> QED BY <2>2, <3>1, RecordOps DEF Interrupted, RunStates
    <2>4. (\A p \in Attempts : drives[p] = NoRun) /\ (\A p \in Procs : copy[p] = Unread)
      BY <2>1 DEF StoreInv, DownOk
    <2>5. \A p \in Procs : ~ Creates(p, r)
      BY <1>0, <2>1 DEF Creates, JobsFit, JobFits
    <2>6. IdleIsFresh' /\ OneCreator' /\ CopiesExact'
      BY <1>0, <2>1, <2>4 DEF IdleIsFresh, OneCreator, Creates, CopiesExact
    <2>7. JobsFit'
      BY <1>0, <2>1, <2>2, <2>5 DEF JobsFit, JobFits, Creates, TypeOK
    <2>8. Pristine'
      BY <1>0, <2>1, <2>2, <2>5 DEF Pristine, Creates, TypeOK
    <2>9. DrivenFits' /\ NoStrandedRun'
      BY <2>1, <2>4 DEF DrivenFits, NoStrandedRun
    <2>10. WaitingNamesItsApproval'
      BY <1>0, <2>1, <2>2, <2>3 DEF WaitingNamesItsApproval, TypeOK
    <2>11. EventSeqExact'
      <3> SUFFICES ASSUME faults = 0, NEW x \in Runs, disk'[x] # Absent
                   PROVE  disk'[x].seq = delivered'[x] + ahead[x]
        BY <2>1, <2>4, StoreAssumption DEF EventSeqExact
      <3>1. disk[x] # Absent => disk[x].seq = delivered[x] + ahead[x]
        BY <1>0, <2>4, StoreAssumption DEF EventSeqExact
      <3>2. CASE x = r
        <4>1. disk[r].seq \in Nat /\ delivered[r] \in Int /\ ahead[r] \in Int
          BY <2>2 DEF TypeOK, RunStates
        <4> QED BY <2>1, <2>2, <2>3, <3>1, <3>2, <4>1 DEF TypeOK
      <3>3. CASE x # r
        BY <2>1, <2>2, <3>1, <3>3 DEF TypeOK
      <3> QED BY <3>2, <3>3
    <2> QED BY <2>6, <2>7, <2>8, <2>9, <2>10, <2>11 DEF ExactInv
  <1> QED BY <1>1, <1>2, <1>3

-----------------------------------------------------------------------------
(* A store call returns                                                    *)

\* What every return has in common: the caller p is done with run r, and
\* nothing of another attempt or of another run has changed.
Done(p, r) ==
    /\ job[p] # NoJob /\ job[p].run = r /\ CallOk(job[p]) /\ JobFits(p, job[p])
    /\ p \notin Attempts => job[p].kind \in {"resolve", "prune"}
    /\ copy[p] = View(p, r)
    /\ job'[p] = NoJob /\ \A q \in Procs \ {p} : job'[q] = job[q]
    /\ \A q \in Procs : copy'[q] = Unread
    /\ \A q \in Attempts \ {p} :
          drives'[q] = drives[q] /\ phase'[q] = phase[q] /\ asked'[q] = asked[q] /\ buffer'[q] = buffer[q]
    /\ \A x \in Runs \ {r} : disk'[x] = disk[x] /\ delivered'[x] = delivered[x] /\ ahead'[x] = ahead[x]
    /\ UNCHANGED <<made, used, up>> /\ up

\* What the attempt itself goes on with.
Moves(p, ok) ==
    /\ drives'[p] = IF job[p].kind \in {"create", "resume"} /\ ok THEN job[p].run
                    ELSE IF job[p].kind = "finish" THEN NoRun ELSE drives[p]
    /\ phase'[p] = IF job[p].kind = "finish" THEN "setup" ELSE phase[p]
    /\ asked'[p] = IF job[p].kind \in {"outcome", "finish"} THEN NoApproval ELSE asked[p]

LEMMA ContinueMoves ==
    ASSUME StoreInv, NEW p \in Attempts, NEW ok \in BOOLEAN, Continue(p, ok)
    PROVE  Moves(p, ok)
  <1>1. CASE job[p].kind \in {"create", "resume"} /\ ok
    BY <1>1 DEF Continue, Moves, StoreInv, TypeOK
  <1>2. CASE job[p].kind = "finish"
    BY <1>2 DEF Continue, Moves, StoreInv, TypeOK
  <1>3. CASE ~ (job[p].kind \in {"create", "resume"} /\ ok) /\ job[p].kind # "finish"
    BY <1>3 DEF Continue, Moves, StoreInv, TypeOK
  <1> QED BY <1>1, <1>2, <1>3

LEMMA ReturnIsDone ==
    ASSUME StoreInv, ExactInv, NEW p \in Procs, NEW ok \in BOOLEAN,
           Read(p), Continue(p, ok), Leave(p), UNCHANGED <<made, used, up>>,
           \E saving \in BOOLEAN : buffer' = Popped(p, saving) \/ buffer' = buffer,
           \/ UNCHANGED <<disk, delivered, ahead>> \/ Written(p)
           \/ /\ UNCHANGED disk
              /\ delivered' = [delivered EXCEPT ![job[p].run] = @ + 1]
              /\ ahead' = [ahead EXCEPT ![job[p].run] = @ - 1]
    PROVE  job[p].run \in Runs /\ Done(p, job[p].run)
  <1>0. TypeOK /\ JobsOk /\ CopiesOk /\ JobsFit /\ CopiesExact
    BY DEF StoreInv, ExactInv
  <1>1. /\ job[p] # NoJob /\ CallOk(job[p]) /\ JobFits(p, job[p]) /\ job[p].run \in Runs
        /\ p \notin Attempts => job[p].kind \in {"resolve", "prune"}
        /\ copy[p] = View(p, job[p].run) /\ up /\ lock = p
    BY <1>0 DEF Read, JobsOk, JobsFit, CopiesOk, CopiesExact, CallOk, Calls
  <1>2. job'[p] = NoJob /\ \A q \in Procs \ {p} : job'[q] = job[q]
    BY <1>0 DEF Leave, TypeOK
  <1>3. \A q \in Procs : copy'[q] = Unread
    BY <1>0, <1>1 DEF Leave, TypeOK, CopiesOk
  <1>4. \A q \in Attempts \ {p} :
            drives'[q] = drives[q] /\ phase'[q] = phase[q] /\ asked'[q] = asked[q]
    <2>1. CASE p \notin Attempts
      BY <2>1 DEF Continue
    <2>2. CASE p \in Attempts /\ job[p].kind \in {"create", "resume"} /\ ok
      BY <1>0, <2>2 DEF Continue, TypeOK
    <2>3. CASE p \in Attempts /\ job[p].kind = "finish"
      BY <1>0, <2>3 DEF Continue, TypeOK
    <2>4. CASE p \in Attempts /\ ~ (job[p].kind \in {"create", "resume"} /\ ok) /\ job[p].kind # "finish"
      BY <1>0, <2>4 DEF Continue, TypeOK
    <2> QED BY <2>1, <2>2, <2>3, <2>4
  <1>5. \A q \in Attempts \ {p} : buffer'[q] = buffer[q]
    BY <1>0 DEF Popped, TypeOK
  <1>6. \A x \in Runs \ {job[p].run} :
            disk'[x] = disk[x] /\ delivered'[x] = delivered[x] /\ ahead'[x] = ahead[x]
    BY <1>0, <1>1 DEF Written, TypeOK
  <1> QED BY <1>1, <1>2, <1>3, <1>4, <1>5, <1>6 DEF Done

\* Nobody else drives the run of a call of an attempt.
LEMMA DoneIsAlone ==
    ASSUME StoreInv, ExactInv, NEW p \in Attempts, NEW r \in Runs, Done(p, r),
           job[p].kind \notin {"create", "resume"}
    PROVE  drives[p] = r /\ r # NoRun /\ Live(r) /\ \A q \in Attempts \ {p} : drives[q] # r
  <1>1. drives[p] = r /\ r # NoRun
    BY StoreAssumption DEF Done, JobFits
  <1> QED BY <1>1 DEF StoreInv, OneAttemptPerRun, DrivenRunIsLive

\* The view of the holder of the lock.
LEMMA ViewFields ==
    ASSUME StoreInv, NEW p \in Procs, NEW r \in Runs
    PROVE  /\ View(p, r) = Absent <=> disk[r] = Absent
           /\ disk[r] # Absent =>
                 /\ View(p, r) \in RunStates
                 /\ View(p, r).status = disk[r].status /\ View(p, r).approval = disk[r].approval
                 /\ p \in Attempts => View(p, r).seq = disk[r].seq + buffer[p]
                 /\ p \notin Attempts => View(p, r) = disk[r]
  <1>1. CASE disk[r] # Absent /\ p \in Attempts
    <2>1. disk[r] \in RunStates /\ buffer[p] \in Nat
      BY <1>1 DEF StoreInv, TypeOK
    <2>2. /\ [disk[r] EXCEPT !.seq = @ + buffer[p]] \in RunStates
          /\ [disk[r] EXCEPT !.seq = @ + buffer[p]].status = disk[r].status
          /\ [disk[r] EXCEPT !.seq = @ + buffer[p]].approval = disk[r].approval
          /\ [disk[r] EXCEPT !.seq = @ + buffer[p]].seq = disk[r].seq + buffer[p]
      BY <2>1 DEF RunStates
    <2> QED BY <1>1, <2>2, StoreAssumption DEF View
  <1>2. CASE ~ (disk[r] # Absent /\ p \in Attempts)
    BY <1>2 DEF View, StoreInv, TypeOK
  <1> QED BY <1>1, <1>2

Writes(p, r) ==
    /\ ~ Refuses(job[p], copy[p]) /\ ~ ReturnsEarly(job[p], copy[p])
    /\ disk'[r] = Saved(job[p], copy[p])
    /\ delivered'[r] = IF IsDelivery(job[p]) THEN delivered[r] + 1 ELSE delivered[r]
    /\ ahead'[r] = IF job[p].kind = "resolve" THEN ahead[r] + 1 ELSE ahead[r]

Spares(r) ==
    /\ disk'[r] = disk[r]
    /\ disk[r] = Absent => delivered'[r] = delivered[r] /\ ahead'[r] = ahead[r]

\* A write in terms of the file it replaces.
LEMMA WriteFields ==
    ASSUME StoreInv, NEW p \in Procs, NEW r \in Runs, Done(p, r), Writes(p, r)
    PROVE  /\ job[p].kind \in {"create", "resume", "bind", "started", "event", "tool_start",
                               "tool_end", "request", "outcome", "finish", "resolve", "prune"}
           /\ job[p].kind = "create" => disk[r] = Absent /\ disk'[r] = FreshState
           /\ job[p].kind = "prune" => disk'[r] = Absent /\ ~ Live(r)
           /\ job[p].kind \notin {"create", "prune"} =>
                 /\ disk[r] \in RunStates /\ disk[r] # Absent
                 /\ disk'[r] \in RunStates /\ disk'[r] # Absent
                 /\ disk'[r].seq = disk[r].seq + (IF p \in Attempts THEN buffer[p] ELSE 0)
                                   + (IF job[p].kind = "bind" THEN 0 ELSE 1)
           /\ job[p].kind = "resume" => ~ Live(r)
           /\ job[p].kind \in {"resume", "started", "outcome", "resolve"} => disk'[r].status = "running"
           /\ job[p].kind \in {"bind", "event", "tool_start", "tool_end"} =>
                 disk'[r].status = disk[r].status /\ disk'[r].approval = disk[r].approval
           /\ job[p].kind = "request" =>
                 disk'[r].status = "waiting_approval" /\ disk'[r].approval = job[p].arg /\ ~ disk'[r].tool
           /\ job[p].kind = "finish" => disk'[r].status \in TerminalStatus
           /\ job[p].kind = "resolve" => disk[r].status = "waiting_approval"
  <1> DEFINE c == job[p]
             st == copy[p]
  <1>0. /\ CallOk(c) /\ ~ Refuses(c, st) /\ ~ ReturnsEarly(c, st) /\ disk'[r] = Saved(c, st)
        /\ st = View(p, r) /\ c.run = r /\ Absent \notin RunStates
    BY StoreAssumption DEF Done, Writes
  <1>1. c.kind \in {"create", "resume", "bind", "started", "event", "tool_start",
                    "tool_end", "request", "outcome", "finish", "resolve", "prune"}
    BY <1>0 DEF CallOk, Calls
  <1>2. /\ st = Absent <=> disk[r] = Absent
        /\ disk[r] # Absent =>
              /\ st \in RunStates
              /\ st.status = disk[r].status /\ st.approval = disk[r].approval
              /\ p \in Attempts => st.seq = disk[r].seq + buffer[p]
              /\ p \notin Attempts => st = disk[r]
    BY <1>0, ViewFields
  <1>3. /\ disk[r] \in RunStates \cup {Absent} /\ st \in RunStates \cup {Absent}
        /\ disk[r] # Absent => disk[r].seq \in Nat
    BY <1>2 DEF StoreInv, TypeOK, RunStates
  <1>4. /\ c.kind = "create" => st = Absent
        /\ c.kind \notin {"create", "prune"} => st # Absent
        /\ c.kind = "resolve" => st.status = "waiting_approval"
    BY <1>0 DEF Refuses, FileRefuses, ApprovalRefuses, IsWaitingFor
  <1>5. c.kind \notin {"create", "prune"} =>
            /\ Saved(c, st).seq = st.seq + IF c.kind = "bind" THEN 0 ELSE 1
            /\ c.kind \in {"resume", "started", "bind", "event", "tool_start", "tool_end", "finish"} =>
                  Saved(c, st).approval = st.approval
            /\ c.kind = "request" => Saved(c, st).approval = c.arg /\ Saved(c, st).tool = FALSE
            /\ c.kind = "finish" => Saved(c, st).status = c.arg
    BY <1>0, <1>2, <1>4, SavedFields
  <1>6. /\ c.kind # "prune" => Saved(c, st) \in RunStates
        /\ c.kind = "prune" => Saved(c, st) = Absent
        /\ c.kind \in {"bind", "event", "tool_start", "tool_end"} => Saved(c, st).status = st.status
        /\ c.kind \in {"resume", "started", "outcome", "resolve"} => Saved(c, st).status = "running"
        /\ c.kind = "request" => Saved(c, st).status = "waiting_approval"
        /\ c.kind = "resume" => st.status \in ResumableStatus
        /\ c.kind = "prune" /\ st # Absent => st.status \notin LiveStatus
    BY <1>0, <1>3, SavedOk
  <1>7. c.kind = "create" => Saved(c, st) = FreshState
    BY DEF Saved
  <1>8. c.kind = "finish" => c.arg \in TerminalStatus
    BY <1>0 DEF CallOk
  <1> HIDE DEF c, st
  <1>9. c.kind \notin {"create", "prune"} =>
            disk'[r].seq = disk[r].seq + (IF p \in Attempts THEN buffer[p] ELSE 0)
                           + (IF c.kind = "bind" THEN 0 ELSE 1)
    BY <1>0, <1>2, <1>3, <1>4, <1>5
  <1>10. (c.kind = "resume" => ~ Live(r)) /\ (c.kind = "prune" => ~ Live(r))
    BY <1>2, <1>4, <1>6 DEF Live
  <1> QED
    BY <1>0, <1>1, <1>2, <1>3, <1>4, <1>5, <1>6, <1>7, <1>8, <1>9, <1>10 DEF c

\* The parts that hold whether or not writes fail.
ProtocolInv ==
    /\ IdleIsFresh /\ JobsFit /\ OneCreator /\ CopiesExact /\ Pristine
    /\ \A r \in Runs : disk[r] # Absent /\ disk[r].status = "waiting_approval" => disk[r].approval \in used

LEMMA DoneKeepsProtocol ==
    ASSUME StoreInv, ExactInv, NEW p \in Procs, NEW r \in Runs, Done(p, r),
           NEW ok \in BOOLEAN, p \in Attempts => Moves(p, ok),
           p \in Attempts => buffer'[p] = 0 \/ (buffer'[p] = buffer[p] /\ job[p].kind # "finish"),
           p \in Attempts /\ job[p].kind \in {"create", "resume"} /\ ok => Writes(p, r),
           Spares(r) \/ Writes(p, r)
    PROVE  ProtocolInv'
  <1>0. /\ IdleIsFresh /\ JobsFit /\ OneCreator /\ CopiesExact /\ Pristine /\ WaitingNamesItsApproval
        /\ TypeOK /\ JobsOk
    BY DEF ExactInv, StoreInv
  <1>1. /\ job[p] # NoJob /\ job[p].run = r /\ CallOk(job[p]) /\ JobFits(p, job[p])
        /\ p \notin Attempts => job[p].kind \in {"resolve", "prune"}
        /\ job'[p] = NoJob /\ \A q \in Procs \ {p} : job'[q] = job[q]
        /\ \A q \in Procs : copy'[q] = Unread
        /\ \A q \in Attempts \ {p} :
              drives'[q] = drives[q] /\ phase'[q] = phase[q] /\ asked'[q] = asked[q] /\ buffer'[q] = buffer[q]
        /\ \A x \in Runs \ {r} : disk'[x] = disk[x] /\ delivered'[x] = delivered[x] /\ ahead'[x] = ahead[x]
        /\ UNCHANGED <<made, used>>
    BY DEF Done
  <1>2. Writes(p, r) =>
            /\ job[p].kind = "create" => disk[r] = Absent /\ disk'[r] = FreshState
            /\ job[p].kind = "prune" => disk'[r] = Absent
            /\ job[p].kind \notin {"create", "prune"} => disk[r] # Absent
            /\ disk'[r] # Absent /\ disk'[r].status = "waiting_approval" =>
                  \/ job[p].kind = "request" /\ disk'[r].approval = job[p].arg
                  \/ /\ disk[r] # Absent /\ disk[r].status = "waiting_approval"
                     /\ disk'[r].approval = disk[r].approval
            /\ job[p].kind \in {"create", "prune"} => delivered'[r] = delivered[r] /\ ahead'[r] = ahead[r]
    <2>1. ASSUME job[p].kind \in {"create", "prune"}, Writes(p, r)
          PROVE  delivered'[r] = delivered[r] /\ ahead'[r] = ahead[r]
      BY <2>1 DEF Writes, IsDelivery
    <2> QED BY <2>1, WriteFields, FreshOk
  <1>3. \A x \in Runs : disk[x] = Absent =>
            /\ disk'[x] = Absent \/ (x = r /\ job[p].kind = "create")
            /\ delivered'[x] = delivered[x] /\ ahead'[x] = ahead[x]
    BY <1>1, <1>2 DEF Spares
  <1>4. \A q \in Procs, x \in Runs : Creates(q, x)' => q # p /\ Creates(q, x)
    BY <1>1 DEF Creates
  <1>5. \A q \in Procs, x \in Runs : Creates(q, x) => x \in made /\ disk[x] = Absent
    BY <1>0 DEF Creates, JobsFit, JobFits
  <1>6. IdleIsFresh'
    <2> SUFFICES ASSUME NEW q \in Attempts, drives'[q] = NoRun
                 PROVE  phase'[q] = "setup" /\ asked'[q] = NoApproval /\ buffer'[q] = 0
      BY DEF IdleIsFresh
    <2>1. CASE q # p
      BY <1>0, <1>1, <2>1 DEF IdleIsFresh
    <2>2. CASE q = p
      BY <1>0, <1>1, <2>2, StoreAssumption DEF IdleIsFresh, Moves, JobFits
    <2> QED BY <2>1, <2>2
  <1>7. JobsFit'
    <2> SUFFICES ASSUME NEW q \in Procs \ {p}, job[q] # NoJob PROVE JobFits(q, job[q])'
      BY <1>1 DEF JobsFit
    <2>1. JobFits(q, job[q]) /\ job[q].run \in Runs /\ (q \notin Attempts => job[q].kind \in {"resolve", "prune"})
      BY <1>0 DEF JobsFit, JobsOk, CallOk, Calls
    <2>2. job[q].kind = "create" => disk'[job[q].run] = Absent
      BY <1>0, <1>1, <1>3, <2>1 DEF OneCreator, Creates, JobFits
    <2>3. q \in Attempts => drives'[q] = drives[q] /\ phase'[q] = phase[q] /\ asked'[q] = asked[q]
      BY <1>1
    <2> QED BY <1>1, <2>1, <2>2, <2>3 DEF JobFits
  <1>8. OneCreator' /\ CopiesExact'
    BY <1>0, <1>1, <1>4 DEF OneCreator, CopiesExact
  <1>9. Pristine'
    BY <1>0, <1>1, <1>3, <1>4, <1>5 DEF Pristine, Creates, JobFits
  <1>10. \A x \in Runs : disk'[x] # Absent /\ disk'[x].status = "waiting_approval" => disk'[x].approval \in used'
    BY <1>0, <1>1, <1>2, <1>3 DEF WaitingNamesItsApproval, JobFits, Spares
  <1> QED BY <1>6, <1>7, <1>8, <1>9, <1>10 DEF ProtocolInv

\* As long as no write is lost the call of an attempt that drives its run fits
\* the saved status: in particular its end is never refused.
LEMMA DrivenCallAccepted ==
    ASSUME StoreInv, ExactInv, faults = 0, NEW p \in Attempts, NEW r \in Runs, Done(p, r),
           job[p].kind \in {"started", "outcome", "finish"}
    PROVE  ~ Refuses(job[p], copy[p])
  <1>0. drives[p] = r /\ Live(r) /\ StatusFits(p) /\ p \in Procs
    BY DoneIsAlone DEF ExactInv, DrivenFits, Procs
  <1>1. /\ copy[p] # Absent /\ copy[p].status = disk[r].status
        /\ CallOk(job[p]) /\ JobFits(p, job[p]) /\ job[p] # NoJob
    BY <1>0, ViewFields, StoreAssumption DEF Done, Live
  <1>2. CASE job[p].kind = "started"
    BY <1>0, <1>1, <1>2 DEF StatusFits, Refuses, FileRefuses, ResumeRefuses, TransitionRefuses, ApprovalRefuses,
                            PruneRefuses, CanTransition, AllowedTransitions
  <1>3. CASE job[p].kind = "outcome"
    BY <1>1, <1>3 DEF Refuses, FileRefuses, ResumeRefuses, TransitionRefuses, ApprovalRefuses, PruneRefuses
  <1>4. CASE job[p].kind = "finish"
    <2>1. job[p].arg \in TerminalStatus /\ phase[p] \in {"setup", "streaming"}
      BY <1>1, <1>4 DEF CallOk, StoreInv, TypeOK
    <2>2. disk[r].status = "waiting_approval" => asked[p] # NoApproval
      BY <1>0, ApprovalAssumption DEF StatusFits, ExactInv, WaitingNamesItsApproval, Live, StoreInv, TypeOK
    <2>3. job[p].arg \in AllowedTransitions[disk[r].status]
      BY <1>0, <1>1, <1>4, <2>1, <2>2 DEF StatusFits, JobFits, AllowedTransitions
    <2> QED
      BY <1>1, <1>4, <2>3 DEF Refuses, FileRefuses, ResumeRefuses, TransitionRefuses, ApprovalRefuses,
                              PruneRefuses, CanTransition
  <1> QED BY <1>2, <1>3, <1>4

\* The parts that need every write.
FaithfulInv ==
    /\ \A p \in Attempts : drives[p] # NoRun => StatusFits(p)
    /\ up => \A r \in Runs : Live(r) => \E p \in Attempts : drives[p] = r
    /\ \A r \in Runs : disk[r] # Absent =>
            /\ \A p \in Attempts : drives[p] = r =>
                  disk[r].seq + buffer[p] = delivered[r] + ahead[r]
            /\ (\A p \in Attempts : drives[p] # r) =>
                  disk[r].seq = delivered[r] + ahead[r]
    /\ \A r \in Runs : disk[r] # Absent /\ disk[r].status = "waiting_approval" => ~ disk[r].tool

LEMMA ExactParts ==
    ExactInv => ProtocolInv /\ (faults = 0 => FaithfulInv)
  BY DEF ProtocolInv, FaithfulInv, ExactInv, DrivenFits, NoStrandedRun, EventSeqExact, WaitingNamesItsApproval

LEMMA ExactPartsNext == ProtocolInv' /\ (faults' = 0 => FaithfulInv') => ExactInv'
  BY DEF ProtocolInv, FaithfulInv, ExactInv, DrivenFits, NoStrandedRun, EventSeqExact, WaitingNamesItsApproval

\* A call that saves.
LEMMA StoreFaithful ==
    ASSUME StoreInv, ExactInv, faults = 0, NEW p \in Procs, NEW r \in Runs, Done(p, r), Writes(p, r),
           p \in Attempts => Moves(p, TRUE) /\ buffer'[p] = 0
    PROVE  FaithfulInv'
  <1>0. FaithfulInv /\ ProtocolInv /\ TypeOK /\ OneAttemptPerRun /\ DrivenRunIsLive /\ NoRun \notin Runs
    BY ExactParts, StoreAssumption DEF StoreInv
  <1>1. /\ job[p] # NoJob /\ job[p].run = r /\ JobFits(p, job[p])
        /\ p \notin Attempts => job[p].kind \in {"resolve", "prune"}
        /\ job'[p] = NoJob /\ \A q \in Procs \ {p} : job'[q] = job[q]
        /\ \A q \in Attempts \ {p} :
              drives'[q] = drives[q] /\ phase'[q] = phase[q] /\ asked'[q] = asked[q] /\ buffer'[q] = buffer[q]
        /\ \A x \in Runs \ {r} : disk'[x] = disk[x] /\ delivered'[x] = delivered[x] /\ ahead'[x] = ahead[x]
        /\ up /\ up' /\ Attempts \subseteq Procs
    BY DEF Done, Procs
  <1>2. /\ job[p].kind \in {"create", "resume", "bind", "started", "event", "tool_start",
                            "tool_end", "request", "outcome", "finish", "resolve", "prune"}
        /\ job[p].kind = "create" => disk[r] = Absent /\ disk'[r] = FreshState
        /\ job[p].kind = "prune" => disk'[r] = Absent /\ ~ Live(r)
        /\ job[p].kind \notin {"create", "prune"} =>
              /\ disk[r] \in RunStates /\ disk[r] # Absent
              /\ disk'[r] \in RunStates /\ disk'[r] # Absent
        /\ job[p].kind = "resume" => ~ Live(r)
        /\ job[p].kind \in {"resume", "started", "outcome", "resolve"} => disk'[r].status = "running"
        /\ job[p].kind \in {"bind", "event", "tool_start", "tool_end"} =>
              disk'[r].status = disk[r].status /\ disk'[r].approval = disk[r].approval
        /\ job[p].kind = "request" =>
              disk'[r].status = "waiting_approval" /\ disk'[r].approval = job[p].arg /\ ~ disk'[r].tool
        /\ job[p].kind = "finish" => disk'[r].status \in TerminalStatus
        /\ job[p].kind = "resolve" => disk[r].status = "waiting_approval"
    BY WriteFields
  <1>3. FreshState.status = "queued" /\ FreshState.seq = 0
    BY DEF FreshState
  \* who drives r, before and after
  <1>4. p \in Attempts /\ job[p].kind \notin {"create", "resume"} =>
            drives[p] = r /\ \A q \in Attempts \ {p} : drives[q] # r
    BY DoneIsAlone
  <1>5. p \in Attempts /\ job[p].kind \in {"create", "resume"} =>
            drives[p] = NoRun /\ drives'[p] = r /\ \A q \in Attempts \ {p} : drives[q] # r
    BY <1>0, <1>1, <1>2 DEF JobFits, Moves, DrivenRunIsLive, Live
  <1>6. p \in Attempts /\ job[p].kind \notin {"create", "resume", "finish"} => drives'[p] = r
    BY <1>4, <1>0 DEF Moves
  <1>7. p \in Attempts /\ job[p].kind = "finish" => drives'[p] = NoRun
    BY DEF Moves
  <1>8. p \in Attempts => \A x \in Runs \ {r} : drives[p] # x /\ drives'[p] # x
    BY <1>0, <1>4, <1>5, <1>6, <1>7
  <1>9. ASSUME NEW q \in Attempts, drives'[q] # NoRun PROVE StatusFits(q)'
    <2>0. drives'[q] \in Runs
      BY <1>0, <1>1, <1>4, <1>5, <1>6, <1>7, <1>9 DEF TypeOK
    <2>1. CASE q # p
      <3>1. StatusFits(q) /\ drives[q] = drives'[q] /\ q \in Procs
        BY <1>0, <1>1, <1>9, <2>1 DEF FaithfulInv
      <3>2. CASE drives[q] # r
        BY <1>1, <2>0, <2>1, <3>1, <3>2 DEF StatusFits
      <3>3. CASE drives[q] = r
        <4>1. p \notin Attempts /\ job[p].kind = "resolve"
          BY <1>0, <1>1, <1>2, <1>4, <1>5, <2>1, <3>1, <3>3 DEF DrivenRunIsLive
        <4> QED BY <1>1, <1>2, <2>1, <3>1, <3>3, <4>1 DEF StatusFits
      <3> QED BY <3>2, <3>3
    <2>2. CASE q = p
      <3>1. job[p].kind \notin {"finish", "resolve", "prune"} /\ drives'[p] = r
        BY <1>1, <1>4, <1>5, <1>6, <1>7, <1>9, <2>2 DEF JobFits
      <3>2. CASE job[p].kind \in {"create", "resume"}
        <4>1. phase'[p] = "setup"
          BY <1>0, <1>1, <2>2, <3>2 DEF Moves, JobFits, ProtocolInv, IdleIsFresh
        <4> QED BY <1>1, <1>2, <1>3, <2>2, <3>1, <3>2, <4>1 DEF StatusFits
      <3>3. CASE job[p].kind \in {"started", "outcome"}
        BY <1>1, <1>2, <2>2, <3>1, <3>3 DEF StatusFits
      <3>4. CASE job[p].kind \in {"bind", "event", "tool_start", "tool_end"}
        <4>1. StatusFits(p) /\ drives[p] = r
          BY <1>0, <1>4, <2>2, <3>4 DEF FaithfulInv
        <4>2. phase'[p] = phase[p] /\ asked'[p] = asked[p]
          BY <2>2, <3>4 DEF Moves
        <4> QED BY <1>1, <1>2, <2>2, <3>1, <3>4, <4>1, <4>2 DEF StatusFits
      <3>5. CASE job[p].kind = "request"
        <4>1. phase'[p] = "streaming" /\ asked'[p] = job[p].arg
          BY <1>1, <2>2, <3>5 DEF Moves, JobFits
        <4> QED BY <1>1, <1>2, <2>2, <3>1, <3>5, <4>1 DEF StatusFits
      <3> QED BY <1>2, <3>1, <3>2, <3>3, <3>4, <3>5
    <2> QED BY <2>1, <2>2
  <1>10. ASSUME NEW x \in Runs, Live(x)' PROVE \E q \in Attempts : drives'[q] = x
    <2>1. CASE x # r
      <3>1. PICK q \in Attempts : drives[q] = x
        BY <1>0, <1>1, <1>10, <2>1 DEF FaithfulInv, Live
      <3> QED BY <1>1, <1>8, <2>1, <3>1
    <2>2. CASE x = r /\ p \in Attempts
      BY <1>2, <1>5, <1>6, <1>10, <2>2 DEF Live
    <2>3. CASE x = r /\ p \notin Attempts
      <3>1. job[p].kind = "resolve" /\ Live(r)
        BY <1>1, <1>2, <1>10, <2>3 DEF Live
      <3>2. PICK q \in Attempts : drives[q] = r
        BY <1>0, <1>1, <3>1 DEF FaithfulInv
      <3> QED BY <1>1, <2>3, <3>2
    <2> QED BY <2>1, <2>2, <2>3
  <1>11. ASSUME NEW x \in Runs, disk'[x] # Absent, disk'[x].status = "waiting_approval" PROVE ~ disk'[x].tool
    <2>1. CASE x # r
      BY <1>0, <1>1, <1>11, <2>1 DEF FaithfulInv
    <2>2. CASE x = r
      <3>1. job[p].kind \in {"request", "bind", "event", "tool_start", "tool_end"}
        BY <1>2, <1>3, <1>11, <2>2
      <3>2. job[p].kind # "request" => p \in Attempts /\ asked[p] = NoApproval /\ StatusFits(p) /\ drives[p] = r
        BY <1>0, <1>1, <1>4, <3>1 DEF FaithfulInv, JobFits
      <3>3. job[p].kind = "request"
        BY <1>0, <1>2, <1>11, <2>2, <3>1, <3>2, ApprovalAssumption DEF StatusFits, ProtocolInv, TypeOK
      <3> QED BY <1>2, <2>2, <3>3
    <2> QED BY <2>1, <2>2
  <1>12. ASSUME NEW x \in Runs, disk'[x] # Absent
         PROVE  /\ \A q \in Attempts : drives'[q] = x => disk'[x].seq + buffer'[q] = delivered'[x] + ahead'[x]
                /\ (\A q \in Attempts : drives'[q] # x) => disk'[x].seq = delivered'[x] + ahead'[x]
    <2>0. /\ delivered[r] \in Int /\ ahead[r] \in Int /\ \A q \in Attempts : buffer[q] \in Nat
          /\ disk[r] # Absent => disk[r].seq \in Nat
      BY <1>0 DEF TypeOK, RunStates
    <2>1. disk[x] # Absent =>
            /\ \A q \in Attempts : drives[q] = x => disk[x].seq + buffer[q] = delivered[x] + ahead[x]
            /\ (\A q \in Attempts : drives[q] # x) => disk[x].seq = delivered[x] + ahead[x]
      BY <1>0 DEF FaithfulInv
    <2>2. CASE x # r
      <3>1. \A q \in Attempts : drives'[q] = x <=> drives[q] = x
        BY <1>1, <1>8, <2>2
      <3>2. \A q \in Attempts : drives[q] = x => buffer'[q] = buffer[q]
        BY <1>1, <1>8, <2>2
      <3> QED BY <1>1, <1>12, <2>1, <2>2, <3>1, <3>2
    <2>3. CASE x = r /\ job[p].kind = "create"
      <3>1. delivered[r] = 0 /\ ahead[r] = 0
        BY <1>0, <1>1, <2>3 DEF ProtocolInv, Pristine, Creates
      <3>2. delivered'[r] = 0 /\ ahead'[r] = 0 /\ disk'[r].seq = 0
        BY <1>2, <1>3, <2>3, <3>1 DEF Writes, IsDelivery
      <3>3. p \in Attempts /\ \A q \in Attempts : drives'[q] = r => buffer'[q] = 0
        BY <1>1, <1>5, <2>3
      <3> QED BY <2>3, <3>2, <3>3
    <2>4. CASE x = r /\ job[p].kind # "create"
      <3>0. job[p].kind \notin {"create", "prune"}
        BY <1>2, <1>12, <2>4
      <3>1. disk'[r].seq = disk[r].seq + (IF p \in Attempts THEN buffer[p] ELSE 0)
                           + (IF job[p].kind = "bind" THEN 0 ELSE 1)
        BY <3>0, WriteFields
      <3>2. /\ delivered'[r] = IF job[p].kind \in {"bind", "resolve"} THEN delivered[r] ELSE delivered[r] + 1
            /\ ahead'[r] = IF job[p].kind = "resolve" THEN ahead[r] + 1 ELSE ahead[r]
        BY <1>2, <3>0 DEF Writes, IsDelivery
      <3>3. CASE p \notin Attempts
        <4>1. job[p].kind = "resolve"
          BY <1>1, <3>0, <3>3
        <4>2. disk'[r].seq = disk[r].seq + 1 /\ delivered'[r] + ahead'[r] = delivered[r] + ahead[r] + 1
          BY <1>2, <2>0, <3>0, <3>1, <3>2, <3>3, <4>1
        <4>3. \A q \in Attempts : drives'[q] = drives[q] /\ buffer'[q] = buffer[q]
          BY <1>1, <3>3
        <4> QED BY <1>2, <2>0, <2>1, <2>4, <3>0, <4>2, <4>3
      <3>4. CASE p \in Attempts
        <4>1. disk[r].seq + buffer[p] = delivered[r] + ahead[r]
          <5>1. CASE job[p].kind = "resume"
            <6>1. buffer[p] = 0
              BY <1>0, <1>5, <3>4, <5>1 DEF ProtocolInv, IdleIsFresh
            <6>2. \A q \in Attempts : drives[q] # r
              BY <1>0, <1>5, <3>4, <5>1
            <6> QED BY <1>2, <2>0, <2>1, <2>4, <3>0, <6>1, <6>2
          <5>2. CASE job[p].kind # "resume"
            BY <1>2, <1>4, <2>1, <2>4, <3>0, <3>4, <5>2
          <5> QED BY <5>1, <5>2
        <4>2. disk'[r].seq = delivered'[r] + ahead'[r]
          <5>1. job[p].kind # "resolve"
            BY <1>1, <3>4 DEF JobFits
          <5> QED BY <1>2, <2>0, <3>0, <3>1, <3>2, <3>4, <4>1, <5>1
        <4>3. \A q \in Attempts : drives'[q] = r => buffer'[q] = 0
          BY <1>1, <1>4, <1>5, <3>4
        <4>4. disk'[r].seq \in Nat
          BY <1>2, <3>0 DEF RunStates
        <4> QED BY <2>4, <4>2, <4>3, <4>4
      <3> QED BY <3>3, <3>4
    <2> QED BY <2>2, <2>3, <2>4
  <1> QED BY <1>9, <1>10, <1>11, <1>12 DEF FaithfulInv

\* A call that raises, or returns early, changes no file; a run that ends is
\* never refused its last write.
LEMMA SparesFaithful ==
    ASSUME StoreInv, ExactInv, faults = 0, NEW p \in Procs, NEW r \in Runs, Done(p, r),
           disk'[r] = disk[r], NEW ok \in BOOLEAN, ok => job[p].kind = "outcome",
           p \in Attempts => Moves(p, ok) /\ buffer'[p] = buffer[p],
           p \in Attempts => job[p].kind \notin {"started", "finish"},
           job[p].kind = "outcome" => ~ IsWaitingFor(copy[p], job[p].arg) /\ p \in Attempts,
           delivered'[r] + ahead'[r] = delivered[r] + ahead[r]
    PROVE  FaithfulInv'
  <1>0. FaithfulInv /\ TypeOK
    BY ExactParts DEF StoreInv
  <1>1. /\ job[p] # NoJob /\ job[p].run = r /\ JobFits(p, job[p])
        /\ job'[p] = NoJob /\ \A q \in Procs \ {p} : job'[q] = job[q]
        /\ \A q \in Attempts \ {p} :
              drives'[q] = drives[q] /\ phase'[q] = phase[q] /\ asked'[q] = asked[q] /\ buffer'[q] = buffer[q]
        /\ \A x \in Runs : disk'[x] = disk[x] /\ delivered'[x] + ahead'[x] = delivered[x] + ahead[x]
        /\ up /\ up' /\ Attempts \subseteq Procs
    BY DEF Done, Procs
  <1>2. p \in Attempts => /\ drives'[p] = drives[p] /\ phase'[p] = phase[p]
                          /\ asked'[p] = IF job[p].kind = "outcome" THEN NoApproval ELSE asked[p]
    BY DEF Moves
  <1>3. \A q \in Attempts : drives'[q] = drives[q] /\ phase'[q] = phase[q] /\ buffer'[q] = buffer[q]
    BY <1>1, <1>2
  <1>4. ASSUME NEW q \in Attempts, drives'[q] # NoRun PROVE StatusFits(q)'
    <2>1. StatusFits(q) /\ drives[q] = drives'[q] /\ drives[q] \in Runs
      BY <1>0, <1>3, <1>4 DEF FaithfulInv, TypeOK
    <2>2. CASE q # p
      BY <1>1, <1>3, <2>1, <2>2 DEF StatusFits
    <2>3. CASE q = p /\ job[p].kind # "outcome"
      BY <1>1, <1>2, <1>3, <2>1, <2>3 DEF StatusFits
    <2>4. CASE q = p /\ job[p].kind = "outcome"
      <3>1. drives[p] = r /\ Live(r) /\ asked[p] = job[p].arg
        BY <1>1, <2>4, DoneIsAlone DEF JobFits
      <3>2. copy[p].status = disk[r].status /\ copy[p].approval = disk[r].approval
        BY <3>1, ViewFields DEF Done, Live
      <3>3. disk[r].status # "waiting_approval"
        BY <2>1, <2>4, <3>1, <3>2 DEF StatusFits, IsWaitingFor
      <3> QED BY <1>1, <1>2, <1>3, <2>1, <2>4, <3>1, <3>3 DEF StatusFits
    <2> QED BY <2>2, <2>3, <2>4
  <1>5. ASSUME NEW x \in Runs, Live(x)' PROVE \E q \in Attempts : drives'[q] = x
    BY <1>0, <1>1, <1>3, <1>5 DEF FaithfulInv, Live
  <1>6. ASSUME NEW x \in Runs, disk'[x] # Absent
         PROVE  /\ \A q \in Attempts : drives'[q] = x => disk'[x].seq + buffer'[q] = delivered'[x] + ahead'[x]
                /\ (\A q \in Attempts : drives'[q] # x) => disk'[x].seq = delivered'[x] + ahead'[x]
                /\ disk'[x].status = "waiting_approval" => ~ disk'[x].tool
    BY <1>0, <1>1, <1>3, <1>6 DEF FaithfulInv
  <1> QED BY <1>4, <1>5, <1>6 DEF FaithfulInv

LEMMA StoreStepExact ==
    ASSUME StoreInv, ExactInv, NEW p \in Procs, StoreStep(p)
    PROVE  ExactInv'
  <1> DEFINE r == job[p].run
  <1>0. TypeOK
    BY DEF StoreInv
  <1>1. CASE Load(p)
    BY <1>1, LoadExact
  <1>2. ASSUME Written(p), r \in Runs, ~ Refuses(job[p], copy[p]), ~ ReturnsEarly(job[p], copy[p])
        PROVE  Writes(p, r)
    BY <1>0, <1>2 DEF Written, Writes, TypeOK
  <1>3. ASSUME NEW saving \in BOOLEAN, buffer' = Popped(p, saving), p \in Attempts
        PROVE  buffer'[p] = IF saving \/ job[p].kind = "finish" THEN 0 ELSE buffer[p]
    BY <1>0, <1>3 DEF Popped, TypeOK
  <1>4. CASE Store(p)
    <2>1. r \in Runs /\ Done(p, r)
      BY <1>4, ReturnIsDone DEF Store
    <2>2. Writes(p, r) /\ faults' = faults
      BY <1>2, <1>4, <2>1 DEF Store
    <2>3. p \in Attempts => Moves(p, TRUE) /\ buffer'[p] = 0
      BY <1>3, <1>4, ContinueMoves DEF Store
    <2> HIDE DEF r
    <2>4. ProtocolInv'
      BY <2>1, <2>2, <2>3, DoneKeepsProtocol
    <2>5. faults = 0 => FaithfulInv'
      BY <2>1, <2>2, <2>3, StoreFaithful
    <2> QED BY <2>2, <2>4, <2>5, ExactPartsNext
  <1>5. CASE Refuse(p)
    <2>1. r \in Runs /\ Done(p, r)
      BY <1>5, ReturnIsDone DEF Refuse
    <2>2. Spares(r) /\ UNCHANGED <<disk, delivered, ahead, faults>> /\ Refuses(job[p], copy[p])
      BY <1>5 DEF Refuse, Spares
    <2>3. p \in Attempts => /\ Moves(p, FALSE)
                            /\ buffer'[p] = IF job[p].kind = "finish" THEN 0 ELSE buffer[p]
      BY <1>3, <1>5, ContinueMoves DEF Refuse
    <2> HIDE DEF r
    <2>4. ProtocolInv'
      BY <2>1, <2>2, <2>3, DoneKeepsProtocol
    <2>5. faults = 0 => FaithfulInv'
      <3> SUFFICES ASSUME faults = 0 PROVE FaithfulInv'
        OBVIOUS
      <3>1. p \in Attempts => job[p].kind \notin {"started", "outcome", "finish"}
        BY <2>1, <2>2, DrivenCallAccepted
      <3>2. job[p].kind # "outcome"
        BY <2>1, <3>1 DEF Done
      <3> QED BY <2>1, <2>2, <2>3, <3>1, <3>2, SparesFaithful
    <2> QED BY <2>2, <2>4, <2>5, ExactPartsNext
  <1>6. CASE ReturnEarly(p)
    <2>1. r \in Runs /\ Done(p, r)
      BY <1>6, ReturnIsDone DEF ReturnEarly
    <2>2. /\ UNCHANGED <<disk, faults, buffer>> /\ job[p].kind = "outcome" /\ copy[p] # Absent
          /\ ~ IsWaitingFor(copy[p], job[p].arg)
          /\ delivered'[r] = delivered[r] + 1 /\ ahead'[r] = ahead[r] - 1
      BY <1>0, <1>6, <2>1 DEF ReturnEarly, ReturnsEarly, TypeOK
    <2>3. p \in Attempts
      BY <2>1, <2>2 DEF Done
    <2>4. Moves(p, TRUE)
      BY <1>6, <2>3, ContinueMoves DEF ReturnEarly
    <2> HIDE DEF r
    <2>5. delivered'[r] + ahead'[r] = delivered[r] + ahead[r]
      BY <1>0, <2>1, <2>2 DEF TypeOK
    <2>6. Spares(r)
      BY <2>1, <2>2, ViewFields DEF Spares, Done
    <2>7. ProtocolInv'
      BY <2>1, <2>2, <2>3, <2>4, <2>6, DoneKeepsProtocol
    <2>8. faults = 0 => FaithfulInv'
      BY <2>1, <2>2, <2>3, <2>4, <2>5, SparesFaithful
    <2> QED BY <2>2, <2>7, <2>8, ExactPartsNext
  <1>7. CASE StoreFails(p)
    <2>1. r \in Runs /\ Done(p, r)
      BY <1>7, ReturnIsDone DEF StoreFails
    <2>2. Spares(r) \/ Writes(p, r)
      BY <1>2, <1>7, <2>1 DEF StoreFails, Spares
    <2>3. p \in Attempts => Moves(p, FALSE) /\ buffer'[p] = 0
      BY <1>3, <1>7, ContinueMoves DEF StoreFails
    <2>4. faults' # 0
      BY <1>0, <1>7 DEF StoreFails, TypeOK
    <2> HIDE DEF r
    <2>5. ProtocolInv'
      BY <2>1, <2>2, <2>3, DoneKeepsProtocol
    <2> QED BY <2>4, <2>5, ExactPartsNext
  <1> QED BY <1>1, <1>4, <1>5, <1>6, <1>7 DEF StoreStep

LEMMA ExactNext == StoreInv /\ ExactInv /\ [Next]_vars => ExactInv'
  <1> SUFFICES ASSUME StoreInv, ExactInv, [Next]_vars PROVE ExactInv'
    OBVIOUS
  <1>1. CASE UNCHANGED vars
    BY <1>1 DEF vars, ExactInv, IdleIsFresh, JobsFit, JobFits, OneCreator, Creates, CopiesExact, View, Pristine,
                DrivenFits, StatusFits, NoStrandedRun, EventSeqExact, WaitingNamesItsApproval, Live
  <1>2. ASSUME NEW p \in Attempts, AttemptStep(p) PROVE ExactInv'
    BY <1>2, AttemptExact, DeferExact DEF AttemptStep
  <1> QED BY <1>1, <1>2, OthersExact, StoreStepExact, RestartExact DEF Next

\* What recovery and a resume read is exact, for any number of runs, clients,
\* crashes and events: while no write is lost every live run has the attempt
\* that will end it, event_seq counts every delivered event once (deferred ones
\* and the decisions the server records included), and a waiting run names the
\* approval that would release it.
THEOREM RecoveryStaysExact == Spec => []RecoveryIsExact
  <1>1. Spec => []ExactInv
    BY ExactInit, ExactNext, StoreInvariant, PTL DEF Spec
  <1>2. ExactInv => RecoveryIsExact
    BY DEF ExactInv, RecoveryIsExact
  <1> QED BY <1>1, <1>2, PTL

=============================================================================
