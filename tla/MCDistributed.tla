--------------------------- MODULE MCDistributed ----------------------------
(***************************************************************************)
(* The distributed path for TLC: what its messages mean (MCWire) and who   *)
(* is answered (MCCoordinator).  The machines share nothing; a behaviour   *)
(* runs one of them, the coordinator only where the others are off.        *)
(***************************************************************************)
EXTENDS MCWire, MCCoordinator

WireOff == /\ stage = [i \in Slots |-> "off"]
           /\ ChannelIdle

DistributedVars == <<WireVars, coordVars>>
DistributedInit ==
    /\ CoordInit
    /\ \/ WireInit
       \/ PathStart("off") /\ sent = [i \in Slots |-> BaseRequest] /\ ChannelIdle
DistributedNext ==
    \/ WireNext /\ UNCHANGED coordVars
    \/ WireOff /\ CoordNext /\ UNCHANGED WireVars
DistributedSpec == DistributedInit /\ [][DistributedNext]_DistributedVars /\ CoordFairness
=============================================================================
