------------------------------- MODULE MCTurn --------------------------------
(* What a round of the loop calls: the context window, the stream of the    *)
(* model's answer, the gate before a tool call and the pool of MCP          *)
(* connections. They share no state: a behaviour picks one (focus) and      *)
(* follows its specification; the others stay in one of their initial       *)
(* states.                                                                  *)
EXTENDS ContextWindow, ProviderStream, ToolGate, McpPool
VARIABLE focus

MCFleet == {<<"x">>, <<"x", "y">>}

\* A working directory with a sensitive file, a hard link to it and one link;
\* outside it a plain file in one directory with the runtime's own files.
MCPath == {"src", "env", "hard", "alias", "out", "secret", "state", "tools", "rule"}
MCAlias == {"alias", "env"}
MCInside == {"src", "env", "hard", "alias"}
MCKind == ("env" :> "credential") @@ ("state" :> "platform") @@ ("secret" :> "runtime")
    @@ ("tools" :> "provider") @@ [p \in MCPath |-> "plain"]
MCRuled == {<<"shell", "rule">>, <<"read_file", "rule">>, <<"write_file", "tools">>}
MCDirOf == [p \in MCInside |-> "w"] @@ [p \in MCPath |-> "h"]
MCInode == ("hard" :> "env") @@ [p \in MCPath |-> p]

vars == <<windowVars, providerVars, gateVars, poolVars, focus>>

Init ==
    /\ focus \in {"window", "provider", "gate", "pool"}
    /\ WindowInit /\ ProviderInit /\ GateInit /\ PoolInit
    /\ focus # "window" => Len(conversation) = 2 /\ conversation[1].size = 1
    /\ focus # "provider" => provider = "openai" /\ callMode = "stream" /\ draftShown
    /\ focus # "gate" => enabled

WindowStep ==
    focus = "window" /\ WindowNext /\ UNCHANGED <<providerVars, gateVars, poolVars, focus>>
ProviderStep ==
    focus = "provider" /\ ProviderNext /\ UNCHANGED <<windowVars, gateVars, poolVars, focus>>
GateStep ==
    focus = "gate" /\ GateNext /\ UNCHANGED <<windowVars, providerVars, poolVars, focus>>
PoolStep ==
    focus = "pool" /\ PoolNext /\ UNCHANGED <<windowVars, providerVars, gateVars, focus>>

Next == WindowStep \/ ProviderStep \/ GateStep \/ PoolStep

Spec == Init /\ [][Next]_vars
=============================================================================
