--------------------------- MODULE MCArtifactStore --------------------------
(* Instances of ArtifactStore for TLC. *)
EXTENDS ArtifactStore, TLC

CONSTANTS s1, s2, k1, c1, c2

Symmetry == Permutations(Slots) \cup Permutations(Contents)
=============================================================================
