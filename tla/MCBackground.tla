---------------------------- MODULE MCBackground ----------------------------
(* Components that must come to an end whatever the world outside does: the *)
(* generator of a run, an automatic task, an MCP stdio connection and a     *)
(* sub-agent fan-out. They share no state: a behaviour picks one (focus)    *)
(* and follows its specification; the others stay in one of their initial   *)
(* states.                                                                  *)
EXTENDS RunLifecycle, AutoTasks, McpStdio, SubAgents
VARIABLE focus

Everywhere == Awaits

Doc(id, tools, budget) == [id |-> id, tools |-> tools, budget |-> budget]
MCDocuments ==
    {Doc("reader", {"read", Spawn}, 1), Doc("writer", {"write"}, 2),
     Doc("looper", {Spawn}, 2), Doc("reader", {"read"}, 0)}

allVars == <<vars, autoVars, stdioVars, subVars, focus>>

BackInit ==
    /\ focus \in {"run", "tasks", "stdio", "agents"}
    /\ Init /\ AutoInit /\ StdioInit /\ SubInit
    /\ focus # "run" => status = "queued"
    /\ focus # "agents" => catalog = Load({})

RunStep == focus = "run" /\ Next /\ UNCHANGED <<autoVars, stdioVars, subVars, focus>>
AutoStep == focus = "tasks" /\ AutoNext /\ UNCHANGED <<vars, stdioVars, subVars, focus>>
StdioStep == focus = "stdio" /\ StdioNext /\ UNCHANGED <<vars, autoVars, subVars, focus>>
SubStep == focus = "agents" /\ SubNext /\ UNCHANGED <<vars, autoVars, stdioVars, focus>>

BackNext == RunStep \/ AutoStep \/ StdioStep \/ SubStep

\* The fairness of each component. But for the generator's Step no fair action
\* is enabled in a component's initial states, so that it asks nothing of the
\* behaviours that leave the component there.
BackSpec ==
    /\ BackInit /\ [][BackNext]_allVars
    /\ WF_vars(focus = "run" /\ Step)
    /\ WF_vars(\E write \in detached : LandDetached(write))
    /\ AutoFairness /\ StdioFairness /\ SubFairness
=============================================================================
