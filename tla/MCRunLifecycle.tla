--------------------------- MODULE MCRunLifecycle ---------------------------
(* Instances of RunLifecycle for TLC. *)
EXTENDS RunLifecycle

Everywhere == Awaits
AtEnd == {"rec_finished"}

=============================================================================
