------------------------------ MODULE Pipeline ------------------------------
(***************************************************************************)
(* The pipeline runs of ONE session: run_pipeline walking a SkillChain     *)
(* (engine/execution/pipeline/pipeline.py), the checkpoint file of the     *)
(* session (checkpoint.py), the choice agent_loop.py makes between         *)
(* resuming that file and starting fresh, and the failure guard            *)
(* (backtrack.py).  Two messages of one session can run at the same time:  *)
(* they share the file, which names the run that wrote it.                 *)
(*                                                                         *)
(* A node is an index into the chain the run loaded; its skill names it.   *)
(* An output is the pair of the skill that wrote it and the request it was *)
(* written for.  What a model, a gate or a condition answers is a choice.  *)
(***************************************************************************)
EXTENDS Naturals, Sequences, FiniteSets

CONSTANTS
    Runs,           \* run ids; a resumed run keeps its id
    Msgs,           \* texts of user messages
    Skills,         \* skill names of the chains
    Routes,         \* route ids
    RouteOf,        \* the route an ordinary message is given
    ChainsOf,       \* route -> the chains its YAML may hold when a run reads it
    BacktrackOf,    \* route -> backtrack_map: failing skill -> skill to go back to
    Conditional,    \* skills whose node has a condition
    Pausing,        \* skills whose node has await_user_input_marker
    Missing,        \* skills disabled or not installed
    BaseGates,      \* the chain declares base gates
    MaxBase,        \* _BASE_GATE_MAX_RETRIES
    MaxSame,        \* FailureLoopGuard.max_same
    MaxAttempts,    \* FailureLoopGuard.max_attempts
    MaxBacktracks,  \* max_backtracks
    MaxBreaks,      \* bound: crashes of the process and streams cut off
    FileFaults,     \* whether writing or unlinking the checkpoint may fail
    None

ASSUME PipelineAssumption ==
    /\ RouteOf \in [Msgs -> Routes]
    /\ \A rt \in Routes : ChainsOf[rt] \subseteq Seq(Skills) \ {<<>>}
    /\ \A rt \in Routes : DOMAIN BacktrackOf[rt] \subseteq Skills
    /\ Conditional \subseteq Skills /\ Pausing \subseteq Skills /\ Missing \subseteq Skills
    /\ BaseGates \in BOOLEAN /\ FileFaults \in BOOLEAN
    /\ {MaxBase, MaxSame, MaxAttempts} \subseteq Nat \ {0}
    /\ {MaxBacktracks, MaxBreaks} \subseteq Nat
    /\ None \notin Runs \cup Msgs \cup Skills \cup Routes

VARIABLES
    file,       \* the session's checkpoint, or None
    run,        \* run id -> what its generator holds
    late,       \* checkpoint a worker thread of a gone run may still write, or None
    newest,     \* run of the session's newest user turn, or None
    breaks

walkVars == <<file, run, late, newest, breaks>>

Outputs == Skills \X Msgs

Checkpoints ==
    [run : Runs, route : Routes, idx : Nat, skill : Skills, req : Msgs,
     awaiting : BOOLEAN, outs : SUBSET Outputs, skipped : SUBSET Skills]

Idle ==
    [pc |-> "idle", msg |-> None, route |-> None, req |-> None, chain |-> <<>>,
     idx |-> 0, att |-> 0, fb |-> {}, hint |-> None, outs |-> {}, skipped |-> {},
     fails |-> [s \in Skills |-> 0], backs |-> 0, answering |-> FALSE, pause |-> FALSE]

\* A run whose state file says queued, running or waiting_approval.
Live(r) == run[r].pc \in {"queued", "node", "work", "gate", "saving", "completing", "stopping"}

Node(r) == run[r].chain[run[r].idx]
Falling(r) == run[r].idx \in run[r].fb

WalkInit ==
    /\ file = None
    /\ run = [r \in Runs |-> Idle]
    /\ late = None
    /\ newest = None
    /\ breaks = 0

\* A write of the checkpoint file; one that fails is logged and changes nothing.
Puts(f) == file' \in {f} \cup (IF FileFaults THEN {file} ELSE {})

\* _clear_checkpoint
Clear == Puts(None)

-----------------------------------------------------------------------------
(* Arrival of a run                                                        *)

\* _route_pending_user_input: while a node waits for an answer, the session's
\* next message is given that node's route.
Routed(m) == IF file # None /\ file.awaiting THEN file.route ELSE RouteOf[m]

Queued(r, m) ==
    run' = [run EXCEPT ![r] = [Idle EXCEPT !.pc = "queued", !.msg = m, !.route = Routed(m)]]

\* A new message of the session.
Receive(r, m) ==
    /\ run[r].pc = "idle"
    /\ Queued(r, m)
    /\ newest' = r
    /\ UNCHANGED <<file, late, breaks>>

\* "cancel" while a node waits: the file is cleared and the message goes to
\* the direct loop, which uses no checkpoint.
Abandon(r) ==
    /\ run[r].pc = "idle"
    /\ file # None /\ file.awaiting
    /\ file' = None
    /\ run' = [run EXCEPT ![r].pc = "completed"]
    /\ newest' = r
    /\ UNCHANGED <<late, breaks>>

\* prepare_resume_run: the run's message is still the session's newest turn.
Resume(r) ==
    /\ run[r].pc = "stopped"
    /\ newest = r
    /\ Queued(r, run[r].msg)
    /\ UNCHANGED <<file, late, newest, breaks>>

-----------------------------------------------------------------------------
(* _apply_session_checkpoint                                               *)

\* _resume_node_still_matches
NodeStillMatches(f, chain) == f.idx <= Len(chain) /\ chain[f.idx] = f.skill

\* _checkpoint_owner_still_running
OwnerStillRunning(f, r) == f.run # r /\ Live(f.run)

SameScope(f, r, chain) == f.route = run[r].route /\ NodeStillMatches(f, chain)

Adoptable(r, chain) ==
    file # None /\ ~ OwnerStillRunning(file, r) /\ SameScope(file, r, chain)

\* Mutant: any message of the route continues the chain.
FateOfAnyRequest(r, chain) ==
    CASE file = None -> "none"
      [] file # None /\ OwnerStillRunning(file, r) -> "leave"
      [] Adoptable(r, chain) /\ file.awaiting -> "answer"
      [] Adoptable(r, chain) /\ ~ file.awaiting -> "continue"
      [] OTHER -> "clear"

\* What the run that reads the file does with it.
Fate(r, chain) ==
    CASE file = None -> "none"
      [] file # None /\ OwnerStillRunning(file, r) -> "leave"
      [] Adoptable(r, chain) /\ file.awaiting -> "answer"
      [] Adoptable(r, chain) /\ ~ file.awaiting /\ file.req = run[r].msg -> "continue"
      [] OTHER -> "clear"

\* _validate_chain_topology: no skill twice, no backtrack that goes forward.
ValidTopology(chain, back) ==
    /\ \A i, j \in DOMAIN chain : chain[i] = chain[j] => i = j
    /\ \A s \in DOMAIN back : \E i \in DOMAIN chain :
           chain[i] = s /\ \A j \in DOMAIN chain : chain[j] = back[s] => j < i

\* The chain is read from YAML anew, the checkpoint is applied to it, and
\* run_pipeline validates its topology before it walks the first node.
Start(r) == run[r].pc = "queued" /\ \E chain \in ChainsOf[run[r].route] :
    LET fate == Fate(r, chain)
        fresh == [run[r] EXCEPT !.chain = chain, !.idx = 1, !.req = run[r].msg]
        adopted == [fresh EXCEPT !.outs = file.outs, !.skipped = file.skipped]
        next == CASE fate = "answer" -> [adopted EXCEPT !.idx = file.idx, !.req = file.req,
                                                        !.answering = TRUE]
                  [] fate = "continue" -> [adopted EXCEPT !.idx = file.idx + 1]
                  [] OTHER -> fresh
    IN  /\ run' = [run EXCEPT ![r] = [next EXCEPT
                     !.pc = IF ValidTopology(chain, BacktrackOf[run[r].route]) THEN "node"
                            ELSE "stopping"]]
        /\ IF fate = "clear" THEN Clear ELSE UNCHANGED file
        /\ UNCHANGED <<late, newest, breaks>>

-----------------------------------------------------------------------------
(* Ends of the generator.  The run stays live in its state file until the  *)
(* lifecycle has saved its terminal status.                                *)

Ends(r, pc) == run' = [run EXCEPT ![r] = [Idle EXCEPT !.pc = pc, !.msg = run[r].msg]]

\* blocked, incomplete, failed and raised ends: the checkpoint is cleared.
Abort(r) ==
    /\ Ends(r, "stopping")
    /\ Clear
    /\ UNCHANGED <<late, newest, breaks>>

\* Ends that leave the checkpoint: _gate_unavailable_events (the gate's own
\* model failed), and an exception raised between two nodes.
StopKeeping(r) ==
    /\ Ends(r, "stopping")
    /\ UNCHANGED <<file, late, newest, breaks>>

\* RUN_FINISHED is recorded.
Over(r) ==
    /\ run[r].pc \in {"completing", "stopping"}
    /\ run' = [run EXCEPT ![r].pc = IF @ = "completing" THEN "completed" ELSE "stopped"]
    /\ UNCHANGED <<file, late, newest, breaks>>

Internal(r, next) ==
    /\ run' = [run EXCEPT ![r] = next]
    /\ UNCHANGED <<file, late, newest, breaks>>

-----------------------------------------------------------------------------
(* The walk                                                                *)

\* The last node has passed or was skipped: the reply is sent and the
\* checkpoint cleared.
Finish(r) ==
    /\ run[r].pc = "node" /\ run[r].idx > Len(run[r].chain)
    /\ Ends(r, "completing")
    /\ Clear
    /\ UNCHANGED <<late, newest, breaks>>

\* node.condition(context) is false.
Skip(r) ==
    /\ run[r].pc = "node" /\ run[r].idx <= Len(run[r].chain)
    /\ Node(r) \in Conditional
    /\ Internal(r, [run[r] EXCEPT !.idx = @ + 1, !.hint = None, !.answering = FALSE,
                                  !.skipped = @ \cup {Node(r)}])

\* node.condition raises, outside the handler that clears the checkpoint.
ConditionRaises(r) ==
    /\ run[r].pc = "node" /\ run[r].idx <= Len(run[r].chain)
    /\ Node(r) \in Conditional
    /\ StopKeeping(r)

\* One more attempt at the node: through its skill, or through the node's
\* ReAct fallback once the skill has failed, is disabled or is not installed.
Attempt(st) ==
    LET s == st.chain[st.idx]
    IN  [st EXCEPT !.pc = "work", !.fb = IF s \in Missing THEN @ \cup {st.idx} ELSE @]

Begin(r) ==
    /\ run[r].pc = "node" /\ run[r].idx <= Len(run[r].chain)
    /\ Internal(r, Attempt([run[r] EXCEPT !.att = 0]))

FallBack(st) == Attempt([st EXCEPT !.fb = @ \cup {st.idx}])

\* A node that may pause does so when its output ends in a question.
AsksUser(r) == Node(r) \in Pausing

\* What the events of one attempt come to: it raised, failed or ended
\* incomplete, it asks the user, or it has an output for the gates.
Collected(r) == {"failure", "output"} \cup (IF AsksUser(r) THEN {"question"} ELSE {})

\* A gate that has to ask a model answers or is unavailable; a content gate or
\* the model's reply can be anything, so either verdict may come.
GateVerdicts == {"pass", "fail", "unavailable"}

\* The base gates in order: the first that does not pass decides.
BaseVerdicts == IF BaseGates THEN GateVerdicts ELSE {"pass"}

SkillFails(r) ==
    /\ run[r].pc = "work" /\ ~ Falling(r) /\ "failure" \in Collected(r)
    /\ Internal(r, FallBack(run[r]))

\* So did the fallback, or a gate raised.
FallbackFails(r) ==
    /\ run[r].pc = "work" /\ Falling(r) /\ "failure" \in Collected(r)
    /\ Abort(r)

GateRaises(r) ==
    /\ run[r].pc \in (IF BaseGates THEN {"work", "gate"} ELSE {"gate"})
    /\ Abort(r)

\* The output asks the user: it becomes the node's output and the chain stays
\* on this node.
Pause(r) ==
    /\ run[r].pc = "work" /\ "question" \in Collected(r)
    /\ Internal(r, [run[r] EXCEPT !.pc = "saving", !.pause = TRUE,
                                  !.outs = @ \cup {<<Node(r), run[r].req>>}])

BaseUnavailable(r) ==
    /\ run[r].pc = "work" /\ "unavailable" \in BaseVerdicts
    /\ StopKeeping(r)

BasePasses(r) ==
    /\ run[r].pc = "work" /\ "pass" \in BaseVerdicts
    /\ Internal(r, [run[r] EXCEPT !.pc = "gate", !.hint = None])

\* A rejected skill is retried through the fallback; the fallback is retried
\* until its attempts run out.
BaseRejects(r) ==
    /\ run[r].pc = "work" /\ "fail" \in BaseVerdicts
    /\ IF Falling(r) /\ run[r].att + 1 >= MaxBase
       THEN Abort(r)
       ELSE LET hinted == [run[r] EXCEPT !.hint = run[r].idx]
            IN  Internal(r, IF Falling(r) THEN Attempt([hinted EXCEPT !.att = @ + 1])
                                          ELSE FallBack(hinted))

-----------------------------------------------------------------------------
(* The node's own gate                                                     *)

GateUnavailable(r) ==
    /\ run[r].pc = "gate" /\ "unavailable" \in GateVerdicts
    /\ StopKeeping(r)

GatePasses(r) ==
    /\ run[r].pc = "gate"
    /\ Internal(r, [run[r] EXCEPT !.pc = "saving", !.pause = FALSE,
                                  !.fb = @ \ {run[r].idx},
                                  !.outs = @ \cup {<<Node(r), run[r].req>>}])

\* FailureLoopGuard.record, for the n-th failure of a node.
GuardAction(n) ==
    CASE n < MaxSame -> "retry"
      [] n >= MaxSame /\ n < MaxAttempts -> "switch"
      [] OTHER -> "blocked"

\* Mutant: outputs the backtrack supersedes stay in the context.
EvictNothing(st, target) == st

\* _evict_outputs_at_or_after
EvictAtOrAfter(st, target) ==
    LET again == {st.chain[i] : i \in target..Len(st.chain)}
    IN  [st EXCEPT !.outs = {o \in @ : o[1] \notin again},
                   !.skipped = @ \ again]

\* The hint is optional: a gate may reject without one.
MayHint(st, target) == {st, [st EXCEPT !.hint = target]}

TargetsOf(r) ==
    LET back == BacktrackOf[run[r].route]
    IN  {i \in DOMAIN run[r].chain : Node(r) \in DOMAIN back /\ run[r].chain[i] = back[Node(r)]}

\* First rejection of a skill: the fallback repairs the same node.
GateRejectsSkill(r) ==
    /\ run[r].pc = "gate" /\ ~ Falling(r)
    /\ \E next \in MayHint(run[r], run[r].idx) :
           Internal(r, [next EXCEPT !.pc = "node", !.fb = @ \cup {run[r].idx}])

Failures(r) == run[r].fails[Node(r)] + 1

\* Mutant: the failure is not recorded.
GateRetriesUncounted(r) ==
    /\ run[r].pc = "gate" /\ Falling(r)
    /\ GuardAction(Failures(r)) = "retry"
    /\ \E next \in MayHint(run[r], run[r].idx) : Internal(r, [next EXCEPT !.pc = "node"])

GateRetries(r) ==
    /\ run[r].pc = "gate" /\ Falling(r)
    /\ GuardAction(Failures(r)) = "retry"
    /\ \E next \in MayHint(run[r], run[r].idx) :
           Internal(r, [next EXCEPT !.pc = "node", !.fails[Node(r)] = Failures(r)])

GateSwitches(r) ==
    /\ run[r].pc = "gate" /\ Falling(r)
    /\ GuardAction(Failures(r)) = "switch"
    /\ run[r].backs < MaxBacktracks
    /\ \E target \in TargetsOf(r) :
           \E next \in MayHint(EvictAtOrAfter(run[r], target), target) :
               Internal(r, [next EXCEPT !.pc = "node", !.idx = target, !.backs = @ + 1,
                                        !.answering = FALSE,
                                        !.fb = {i \in @ : i < target},
                                        !.fails[Node(r)] = Failures(r)])

\* No attempt, no backtrack, or no node to go back to is left.
GateBlocks(r) ==
    /\ run[r].pc = "gate" /\ Falling(r)
    /\ \/ GuardAction(Failures(r)) = "blocked"
       \/ /\ GuardAction(Failures(r)) = "switch"
          /\ run[r].backs >= MaxBacktracks \/ TargetsOf(r) = {}
    /\ Abort(r)

-----------------------------------------------------------------------------
(* _save_checkpoint, in a worker thread                                    *)

CheckpointOf(r) ==
    [run |-> r, route |-> run[r].route, idx |-> run[r].idx, skill |-> Node(r),
     req |-> run[r].req, awaiting |-> run[r].pause, outs |-> run[r].outs,
     skipped |-> run[r].skipped]

\* A save that fails is logged, and the walk goes on.
Save(r) ==
    /\ run[r].pc = "saving"
    /\ IF run[r].pause
       THEN Ends(r, "stopping")
       ELSE run' = [run EXCEPT ![r].pc = "node", ![r].idx = @ + 1, ![r].answering = FALSE]
    /\ Puts(CheckpointOf(r))
    /\ UNCHANGED <<late, newest, breaks>>

\* The stream is closed or the run cancelled: the generator is gone, nothing
\* is cleared, and a save under way may still land later.
Disconnect(r) ==
    /\ run[r].pc \in {"queued", "node", "work", "gate", "saving"}
    /\ Ends(r, "stopping")
    /\ late' \in {late, IF run[r].pc = "saving" /\ late = None THEN CheckpointOf(r) ELSE late}
    /\ breaks < MaxBreaks /\ breaks' = breaks + 1
    /\ UNCHANGED <<file, newest>>

LateSave ==
    /\ late # None
    /\ file' = late
    /\ late' = None
    /\ UNCHANGED <<run, newest, breaks>>

\* The process dies; its restart marks the runs it left as cancelled
\* (recover_interrupted), and threads die with it.
Crash ==
    /\ breaks < MaxBreaks /\ breaks' = breaks + 1
    /\ run' = [r \in Runs |-> IF Live(r) THEN [Idle EXCEPT !.pc = "stopped", !.msg = run[r].msg]
                                         ELSE run[r]]
    /\ late' = None
    /\ UNCHANGED <<file, newest>>

-----------------------------------------------------------------------------

Step(r) ==
    \/ Start(r) \/ Finish(r) \/ Skip(r) \/ ConditionRaises(r) \/ Begin(r)
    \/ SkillFails(r) \/ FallbackFails(r) \/ GateRaises(r) \/ Pause(r)
    \/ BaseUnavailable(r) \/ BasePasses(r) \/ BaseRejects(r)
    \/ GateUnavailable(r) \/ GatePasses(r) \/ GateRejectsSkill(r)
    \/ GateRetries(r) \/ GateSwitches(r) \/ GateBlocks(r)
    \/ Save(r) \/ Over(r)

WalkNext ==
    \/ \E r \in Runs, m \in Msgs : Receive(r, m)
    \/ \E r \in Runs : Abandon(r) \/ Resume(r) \/ Step(r) \/ Disconnect(r)
    \/ LateSave
    \/ Crash

WalkSpec == WalkInit /\ [][WalkNext]_walkVars

\* Every step of a generator is taken: model and gate calls return or raise
\* (the client's timeouts), worker threads end, the lifecycle records the end.
FairWalkSpec == WalkSpec /\ \A r \in Runs : WF_walkVars(Step(r))

-----------------------------------------------------------------------------
(* Properties                                                              *)

RunRecords ==
    [pc : {"idle", "queued", "node", "work", "gate", "saving", "completing", "stopping",
           "completed", "stopped"},
     msg : Msgs \cup {None}, route : Routes \cup {None}, req : Msgs \cup {None},
     chain : {<<>>} \cup UNION {ChainsOf[rt] : rt \in Routes}, idx : Nat, att : 0..MaxBase,
     fb : SUBSET Nat, hint : Nat \cup {None}, outs : SUBSET Outputs, skipped : SUBSET Skills,
     fails : [Skills -> 0..MaxAttempts], backs : 0..MaxBacktracks,
     answering : BOOLEAN, pause : BOOLEAN]

WalkTypeOK ==
    /\ file \in Checkpoints \cup {None}
    /\ run \in [Runs -> RunRecords]
    /\ late \in Checkpoints \cup {None}
    /\ newest \in Runs \cup {None}
    /\ breaks \in 0..MaxBreaks

Walking(r) == run[r].pc \in {"node", "work", "gate"}
Written(r) == {o[1] : o \in run[r].outs}

\* However a walk came to its node (advancing, going back, answering a pause,
\* resuming after a crash with a chain edited meanwhile): each node before it
\* has an output or was skipped, so no node runs without its predecessors; no
\* node after it has one, so nothing superseded is handed on or sent as the
\* reply; and it has one itself only when it asked the question being answered.
OutputsMatchProgress == \A r \in Runs : Walking(r) =>
    \A i \in DOMAIN run[r].chain :
        LET s == run[r].chain[i]
        IN  /\ i < run[r].idx => s \in Written(r) \cup run[r].skipped
            /\ i = run[r].idx => (s \in Written(r) <=> run[r].answering)
            /\ i > run[r].idx => s \notin Written(r)

\* A walk only ever holds outputs written for the request it serves, even when
\* two runs write the session's one checkpoint and late saves land.
ContextIsOneRequest == \A r \in Runs :
    run[r].pc # "queued" => \A o \in run[r].outs : o[2] = run[r].req

\* Two chains of a route that have the same node at the same place have the
\* same nodes before it: what _resume_node_still_matches, which looks at the
\* one node the checkpoint names, can tell of an edit.
EditsAreSeen ==
    \A rt \in Routes : \A c, d \in ChainsOf[rt] : \A i \in DOMAIN c \cap DOMAIN d :
        c[i] = d[i] => \A j \in 1 .. i : c[j] = d[j]

\* Gate feedback is shown to the node it was written for and to no other.
HintReachesItsNode == \A r \in Runs :
    run[r].pc = "work" => run[r].hint \in {None, run[r].idx}

\* Fallbacks, gate retries, base retries and backtracks do not go on for ever:
\* a run that arrived ends.
ChainEnds == \A r \in Runs : Live(r) ~> ~ Live(r)

\* _gate_unavailable_events: "the checkpoint survives so re-sending the message
\* once the gate LLM is back resumes at this node rather than at node 0".  A
\* stopped run whose own checkpoint is still there, sent again, takes the chain
\* up where that checkpoint says.
ResentMessageResumes ==
    [][\A r \in Runs :
         run[r].pc = "queued" /\ run'[r].pc = "node" /\ file # None /\ file.run = r
           => run'[r].idx = IF file.awaiting THEN file.idx ELSE file.idx + 1]_walkVars

\* A chain that resumes, retries or goes back hands every node what belongs to
\* it: the outputs of exactly the nodes passed, and no feedback for another.
ProgressIsConsistent == OutputsMatchProgress /\ HintReachesItsNode

=============================================================================
