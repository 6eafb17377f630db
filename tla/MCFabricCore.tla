---------------------------- MODULE MCFabricCore ----------------------------
(* Instances of FabricCore and of its refinement for TLC. *)
EXTENDS FabricRefinement, TLC

CONSTANTS k1, k2, t1, t2, t3

\* All keys compile the same logical operation.
MCSharedOp == [k \in Keys |-> "gemm"]

\* Threads are interchangeable; so are keys, since they share their operation.
Symmetry == Permutations(Threads) \cup Permutations(Keys)
=============================================================================
