------------------------------- MODULE MCShell -------------------------------
(* A conversation from both ends: the shell's bridge and its transcript,    *)
(* and the turns of one session in the server. They meet over HTTP and      *)
(* share no state: a behaviour picks one (focus) and follows its            *)
(* specification; the others stay in their initial state.                   *)
EXTENDS ShellBridge, ShellTranscript, SessionTurns, TLC
VARIABLE focus

vars == <<shellVars, transcriptVars, sessionVars, focus>>

Init ==
    /\ focus \in {"bridge", "transcript", "turns"}
    /\ ShellInit /\ TranscriptInit /\ SessionInit

BridgeStep == focus = "bridge" /\ ShellNext /\ UNCHANGED <<transcriptVars, sessionVars, focus>>
TranscriptStep == focus = "transcript" /\ TranscriptNext /\ UNCHANGED <<shellVars, sessionVars, focus>>
TurnsStep == focus = "turns" /\ SessionNext /\ UNCHANGED <<shellVars, transcriptVars, focus>>

Next == BridgeStep \/ TranscriptStep \/ TurnsStep

Spec == Init /\ [][Next]_vars

\* The turns are interchangeable: no action tells one from another.
TurnSymmetry == Permutations(NewTurns)
=============================================================================
