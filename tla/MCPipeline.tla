----------------------------- MODULE MCPipeline -----------------------------
(* Instances of Pipeline for TLC. *)
EXTENDS Pipeline, TLC

CONSTANTS m1, m2, m3, rt1, rt2, a, b, c

\* Two texts that ask for one pipeline, and one that asks for another.
RouteOfMsg == m1 :> rt1 @@ m2 :> rt1 @@ m3 :> rt2
OneMessage == m1 :> rt1

\* A node may be inserted or taken out between two runs, one edit removes the
\* target of the backtrack and one makes the backtrack go forward.
LongChains == rt1 :> {<<b>>, <<a, b>>, <<a, c, b>>, <<b, a>>} @@ rt2 :> {<<c>>}
ShortChains == rt1 :> {<<b>>, <<a, b>>} @@ rt2 :> {<<c>>}

\* No edit replaces a node and keeps the one behind it at its place.
ASSUME EditsShow == EditsAreSeen

BackToFirst == rt1 :> (b :> a) @@ rt2 :> <<>>
NoBacktrack == rt1 :> <<>> @@ rt2 :> <<>>

RunSymmetry == Permutations(Runs)

=============================================================================
