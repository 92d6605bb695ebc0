---------------------------- MODULE MCJvmRebuild ----------------------------
(* Small instances of JvmRebuild, together with the positions of what its   *)
(* checks report, in every text within the bound.                           *)
EXTENDS JvmRebuild, Lines

CONSTANTS t1, t2, q1, q2, q3

\* A reply that a thread is about to write has its diagnostics where an editor has
\* them, whatever the source.
PositionsAreTrue ==
  \A t \in Threads : pc[t] = "encode" => PositionsMatchCursors
=============================================================================
