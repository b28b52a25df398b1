--------------------------- MODULE MCRunStateStore ---------------------------
(* Instances of RunStateStore for TLC. *)
EXTENDS RunStateStore, TLC

CONSTANTS e1, e2, h1, h2, a1, a2, r1

MCAttempts == {e1, e2}
MCApprovals == {a1, a2}
Symmetry == Permutations(MCAttempts) \cup Permutations(MCApprovals)

=============================================================================
