--------------------------- MODULE MCApprovalFlow ---------------------------
(* Instances of ApprovalFlow for TLC. *)
EXTENDS ApprovalFlow, TLC

CONSTANTS r1, r2, a1, a2, h1, h2

Symmetry ==
    Permutations(Runs) \cup Permutations(Approvals) \cup Permutations(Handlers)

=============================================================================
