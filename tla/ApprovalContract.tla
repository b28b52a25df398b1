-------------------------- MODULE ApprovalContract --------------------------
(***************************************************************************)
(* What the approval mechanism promises, one request at a time: a guarded  *)
(* call runs at most once, and only after the user said yes to exactly     *)
(* that request; a decision is taken once and never reversed; a request    *)
(* may lapse at any time before its call has run (timeout, cancellation,   *)
(* restart, a veto of a hook), and a lapsed request authorises nothing.    *)
(***************************************************************************)
CONSTANT Requests

VARIABLE standing   \* request -> where it stands

Init == standing = [a \in Requests |-> "unasked"]

Goes(a, from, to) ==
    /\ standing[a] \in from
    /\ standing' = [standing EXCEPT ![a] = to]

Ask(a) == Goes(a, {"unasked"}, "open")
Decide(a, answer) == Goes(a, {"open"}, answer)
Spend(a) == Goes(a, {"yes"}, "spent")

\* Any set of requests may lapse together (a restart, the end of a run).
Lapse ==
    \E gone \in SUBSET {a \in Requests : standing[a] \in {"open", "yes", "no"}} :
        standing' = [a \in Requests |-> IF a \in gone THEN "void" ELSE standing[a]]

Next ==
    \/ \E a \in Requests : Ask(a) \/ Spend(a)
    \/ \E a \in Requests, answer \in {"yes", "no"} : Decide(a, answer)
    \/ Lapse

Spec == Init /\ [][Next]_standing

=============================================================================
