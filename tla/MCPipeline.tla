----------------------------- MODULE MCPipeline -----------------------------
(* Instances of Pipeline for TLC. *)
EXTENDS Pipeline, TLC

\* Ticks run the same code and are compared only for equality.
TickSymmetry == Permutations(Ticks)

=============================================================================
