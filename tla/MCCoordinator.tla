--------------------------- MODULE MCCoordinator ----------------------------
(* Instances of Coordinator for TLC. *)
EXTENDS Coordinator, TLC

CONSTANTS c1, c2, r1, r2, b1, b2, b3, q1, q2

\* b1 and b2 are two runs of worker 1, b3 is worker 2.
MCWorkerOf == [b \in Boots |-> IF b = b3 THEN 2 ELSE 1]

Symmetry == Permutations(Clients) \cup Permutations(RequestIds) \cup Permutations(BodyKeys)

\* A bound: bodies of two keys are submitted only where no generation moves and no
\* failed compile is on its way.
NotPassed(m) == m.verdict # "passed"
InScope ==
    \/ Cardinality(UNION {bodies[r] : r \in RequestIds}) <= 1
    \/ /\ gens = FirstGens
       /\ \A b \in Boots : /\ \A i \in 1 .. Len(toCoord[b]) : ~NotPassed(toCoord[b][i])
                           /\ hpc[b] \in {"arrived", "authorised"} => ~NotPassed(hmsg[b])

ScopedSpec == CoordInit /\ [][CoordNext /\ InScope']_coordVars
=============================================================================
