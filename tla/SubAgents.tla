------------------------------ MODULE SubAgents ------------------------------
(***************************************************************************)
(* The sub_agent tool (agents/tools/sub_agent.py), the catalog of types it *)
(* may spawn (engine/execution/subagent/catalog.py) and the fan-out that   *)
(* runs them (runner.py): a semaphore of bounded width, a token budget per *)
(* agent and one for the whole batch, a wall clock per agent, and the      *)
(* parent turn, which may be cancelled while its agents run.  What the     *)
(* react loop of an agent yields is arbitrary.                             *)
(***************************************************************************)
EXTENDS Naturals, FiniteSets

CONSTANTS
    Documents,      \* YAML documents a subagents directory may hold
    Types,          \* ids the parent model may ask for
    MaxTasks,       \* MAX_TASKS_PER_CALL
    Ceiling,        \* MAX_PARALLEL_CEILING
    Widths,         \* values of max_parallel the parent model may pass
    BudgetCeiling,  \* MAX_DECLARED_TOKEN_BUDGET
    BatchBudget,    \* DEFAULT_BATCH_TOKEN_BUDGET
    MaxCharge,      \* bound: tokens of one TOKEN_USAGE event
    Spawn           \* SUB_AGENT_TOOL_NAME

ASSUME SubAgentsAssumption ==
    /\ {MaxTasks, Ceiling, BatchBudget, MaxCharge, BudgetCeiling} \subseteq Nat \ {0}
    /\ Widths \subseteq Nat

VARIABLES
    catalog,    \* type id -> SubAgentSpec; no type when it is empty or rejected
    parent,     \* the sub_agent call of the parent turn
    types,      \* task -> agent_type
    width,      \* permits of the semaphore
    step,       \* task -> where guarded() is
    spent,      \* _BatchBudget.spent
    charged,    \* task -> tokens its usage events cost
    total,      \* task -> usage["total_tokens"]
    report,     \* task -> text_parts holds something that is not blank
    failure,    \* task -> failure is set
    agentEnd,   \* task -> what guarded() ended with
    delivered   \* the outcomes the parent model reads

batchVars == <<spent, charged, total, report, failure>>
subVars == <<catalog, parent, types, width, step, batchVars, agentEnd, delivered>>

Tasks == DOMAIN types
Active == {t \in Tasks : step[t] = "running"}

-----------------------------------------------------------------------------
(* The catalog                                                             *)

\* A document is rejected when a field is malformed; it is abstracted to its
\* id, its declared tools and its token budget (0: not a positive integer).
ParseSpec(doc) ==
    LET tools == doc.tools \ {Spawn}
    IN  IF tools = {} \/ doc.budget = 0 THEN {}
        ELSE {[tools |-> tools,
               budget |-> IF doc.budget < BudgetCeiling THEN doc.budget
                          ELSE BudgetCeiling]}

\* One bad document, or two of one id, reject the whole directory.
Loads(dir) ==
    /\ \A doc \in dir : ParseSpec(doc) # {}
    /\ \A a, b \in dir : a.id = b.id => a = b

Load(dir) ==
    IF ~ Loads(dir) THEN [id \in {} |-> {}]
    ELSE [id \in {doc.id : doc \in dir} |->
            CHOOSE spec \in UNION {ParseSpec(doc) : doc \in {d \in dir : d.id = id}} : TRUE]

Known(id) == id \in DOMAIN catalog

SubInit ==
    /\ \E dir \in SUBSET Documents : catalog = Load(dir)
    /\ parent = "asking" /\ types = [t \in {} |-> 0] /\ width = 0
    /\ step = [t \in {} |-> 0] /\ spent = 0
    /\ charged = [t \in {} |-> 0] /\ total = [t \in {} |-> 0]
    /\ report = [t \in {} |-> 0] /\ failure = [t \in {} |-> 0]
    /\ agentEnd = [t \in {} |-> 0] /\ delivered = {}

-----------------------------------------------------------------------------
(* The call                                                                *)

\* The tool refuses when no type is installed, for an empty task list and for
\* an unknown type; run_sub_agents refuses a batch that is too large.  A caller
\* other than the tool (an embedding) has validated nothing.
Refused(n, ids, viaTool) ==
    \/ n = 0 \/ n > MaxTasks
    \/ viaTool /\ \/ DOMAIN catalog = {}
                  \/ \E t \in 1 .. n : ~ Known(ids[t])

Clamped(w, n) ==
    LET cap == IF n < Ceiling THEN n ELSE Ceiling
    IN  IF w = 0 THEN 1 ELSE IF w < cap THEN w ELSE cap

RunSubAgents(n, ids, w, viaTool) ==
    /\ parent = "asking" /\ ~ Refused(n, ids, viaTool)
    /\ parent' = "running"
    /\ types' = ids
    /\ width' = Clamped(w, n)
    /\ step' = [t \in 1 .. n |-> "waiting"]
    /\ charged' = [t \in 1 .. n |-> 0]
    /\ total' = [t \in 1 .. n |-> 0]
    /\ report' = [t \in 1 .. n |-> FALSE]
    /\ failure' = [t \in 1 .. n |-> FALSE]
    /\ agentEnd' = [t \in 1 .. n |-> "none"]
    /\ UNCHANGED <<catalog, spent, delivered>>

Refuse(n, ids, viaTool) ==
    /\ parent = "asking" /\ Refused(n, ids, viaTool)
    /\ parent' = "refused"
    /\ UNCHANGED <<catalog, types, width, step, batchVars, agentEnd, delivered>>

-----------------------------------------------------------------------------
(* One sub-agent                                                           *)

Exhausted == spent >= BatchBudget

Ends(t, result) ==
    /\ step' = [step EXCEPT ![t] = "done"]
    /\ agentEnd' = [agentEnd EXCEPT ![t] = result]
    /\ UNCHANGED <<catalog, parent, types, width, delivered>>

\* The checks _run_one makes with the permit held and before its first await.
MayStartAlways(t) == Known(types[t])
MayStart(t) == Known(types[t]) /\ ~ Exhausted

Enter(t) ==
    /\ parent = "running" /\ step[t] = "waiting"
    /\ Cardinality(Active) < width
    /\ IF MayStart(t)
       THEN /\ step' = [step EXCEPT ![t] = "running"]
            /\ UNCHANGED <<catalog, parent, types, width, agentEnd, delivered>>
       ELSE Ends(t, "failed")
    /\ UNCHANGED batchVars

\* CancelledError is thrown at the next resumption: a cancelled fan-out handles
\* no further event.
Runs(t) == parent = "running" /\ step[t] = "running"

TextDelta(t) ==
    /\ Runs(t) /\ ~ report[t]
    /\ report' = [report EXCEPT ![t] = TRUE]
    /\ UNCHANGED <<catalog, parent, types, width, step, spent, charged, total,
                   failure, agentEnd, delivered>>

\* FAILED and INCOMPLETE: recorded, and the loop goes on reading.
LoopReports(t) ==
    /\ Runs(t) /\ ~ failure[t]
    /\ failure' = [failure EXCEPT ![t] = TRUE]
    /\ UNCHANGED <<catalog, parent, types, width, step, spent, charged, total,
                   report, agentEnd, delivered>>

\* _accumulate_usage: a provider that reports no total is charged the sum, and
\* usage["total_tokens"] stays what it was.
OverBudget(t) == total'[t] >= catalog[types[t]].budget
Stops(t) == OverBudget(t) \/ spent' >= BatchBudget

TokenUsage(t, tokens, reportsTotal) ==
    /\ Runs(t)
    /\ spent' = spent + tokens
    /\ charged' = [charged EXCEPT ![t] = @ + tokens]
    /\ total' = [total EXCEPT ![t] = IF reportsTotal THEN @ + tokens ELSE @]
    /\ IF Stops(t)
       THEN /\ failure' = [failure EXCEPT ![t] = TRUE]
            /\ Ends(t, "failed")
       ELSE UNCHANGED <<catalog, parent, types, width, step, failure, agentEnd, delivered>>
    /\ UNCHANGED report

\* The loop's generator is exhausted.
Verdict(t) == IF report[t] /\ ~ failure[t] THEN "ok" ELSE "failed"
LoopEnds(t) == Runs(t) /\ Ends(t, Verdict(t)) /\ UNCHANGED batchVars

\* An exception of the loop; the text gathered so far is kept as the summary.
Raises(t) == Runs(t) /\ Ends(t, "failed") /\ UNCHANGED batchVars

TimesOutNever(t) == FALSE /\ Ends(t, "failed") /\ UNCHANGED batchVars
TimesOut(t) == Runs(t) /\ Ends(t, "failed") /\ UNCHANGED batchVars

\* A CancelledError of the loop's own: guarded() raises it.
CancelsItself(t) == Runs(t) /\ Ends(t, "cancelled") /\ UNCHANGED batchVars

-----------------------------------------------------------------------------
(* The parent                                                              *)

CancelParent ==
    /\ parent = "running"
    /\ parent' = "cancelling"
    /\ UNCHANGED <<catalog, types, width, step, batchVars, agentEnd, delivered>>

\* gather cancels every child that is not done and waits for all of them.
Unwind(t) ==
    /\ parent = "cancelling" /\ step[t] # "done"
    /\ Ends(t, "cancelled")
    /\ UNCHANGED batchVars

\* gather(return_exceptions=True): the results are read once all are in.
GatheredFailFast == \/ \A t \in Tasks : step[t] = "done"
                    \/ \E t \in Tasks : agentEnd[t] = "cancelled"
Gathered == \A t \in Tasks : step[t] = "done"

AgentReturns ==
    /\ parent \in {"running", "cancelling"}
    /\ Gathered
    /\ IF parent = "cancelling" \/ \E t \in Tasks : agentEnd[t] = "cancelled"
       THEN parent' = "cancelled" /\ UNCHANGED delivered
       ELSE /\ parent' = "returned"
            /\ delivered' = {<<t, agentEnd[t]>> : t \in Tasks}
    /\ UNCHANGED <<catalog, types, width, step, batchVars, agentEnd>>

-----------------------------------------------------------------------------
AgentStep(t) ==
    \/ Enter(t) \/ TextDelta(t) \/ LoopReports(t) \/ LoopEnds(t)
    \/ \E tokens \in 1 .. MaxCharge, whole \in BOOLEAN : TokenUsage(t, tokens, whole)
    \/ Raises(t) \/ TimesOut(t) \/ CancelsItself(t) \/ Unwind(t)

SubNext ==
    \/ \E n \in 0 .. MaxTasks + 1 : \E ids \in [1 .. n -> Types], viaTool \in BOOLEAN :
          \/ \E w \in Widths : RunSubAgents(n, ids, w, viaTool)
          \/ Refuse(n, ids, viaTool)
    \/ \E t \in Tasks : AgentStep(t)
    \/ CancelParent
    \/ AgentReturns

\* The event loop runs what is ready, and asyncio.timeout fires.
SubFairness ==
    /\ \A t \in 1 .. MaxTasks :
          /\ WF_subVars(t \in Tasks /\ Enter(t))
          /\ WF_subVars(t \in Tasks /\ TimesOut(t))
          /\ WF_subVars(t \in Tasks /\ Unwind(t))
    /\ WF_subVars(AgentReturns)

SubSpec == SubInit /\ [][SubNext]_subVars /\ SubFairness

-----------------------------------------------------------------------------
(* Properties                                                              *)

\* The batch budget is overrun by at most one usage event of every agent that
\* was running when it ran out: an agent stops at its own next event, and a
\* task that gets its permit later starts nothing (_BatchBudget, _run_one).
OverrunIsBounded == spent < BatchBudget + width * MaxCharge

\* The parent turn ends, by a return or by a cancellation, only when none of
\* its agents is running or can still start (gather with return_exceptions).
NothingOutlivesTheTurn ==
    parent \in {"returned", "cancelled"} => \A t \in Tasks : step[t] = "done"

\* What the parent model reads has one outcome for every task it asked for,
\* and one marked OK has a report, met no failure event and stayed in budget.
OutcomesAreHonest ==
    parent = "returned" =>
        /\ {d[1] : d \in delivered} = Tasks
        /\ \A d \in delivered :
              d[2] = "ok" => report[d[1]] /\ ~ failure[d[1]]

\* An agent that runs has at least one tool and cannot spawn agents itself.
DelegationIsOneLevel ==
    \A t \in Active : LET tools == catalog[types[t]].tools
                      IN  tools # {} /\ Spawn \notin tools

\* A call of the tool ends although a provider never answers: the wall clock of
\* each agent gives its permit back, so the waiting tasks get their turn.
FanOutEnds == parent = "running" ~> parent \in {"returned", "cancelled"}

\* "a missing total_tokens cannot make a run look free to the budget"
\* (_accumulate_usage): an agent overruns its own budget by one event at most.
AgentBudgetHolds ==
    \A t \in Tasks : Known(types[t]) => charged[t] < catalog[types[t]].budget + MaxCharge

\* A delegation is contained: no agent outlives the turn that asked for it,
\* none spawns agents of its own, and what the parent reads is what happened.
DelegationIsSound == NothingOutlivesTheTurn /\ OutcomesAreHonest /\ DelegationIsOneLevel

=============================================================================
