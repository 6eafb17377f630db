-------------------------- MODULE DeploymentProofs --------------------------
(***************************************************************************)
(* Deploying and leasing beside compile(), and restarts of the process:    *)
(* what FabricCoreProofs establishes for one process carries over, since   *)
(* the added operations leave the fabric alone and a restart begins it     *)
(* anew.  Then what the states of a deployed artifact stand for: the table *)
(* of Lifecycle.cpp, read edge by edge, and what follows for a path of any *)
(* length.                                                                 *)
(***************************************************************************)
EXTENDS Deployment, Lifecycle, FabricCoreProofs

allVars == <<vars, deployVars>>

\* A new process has no flight, whatever it finds on disk.
LEMMA RestartKeepsFlightInv ==
    ASSUME FlightInv, Restart
    PROVE  FlightInv'
  <1>1. NoArtifact \in Artifacts
    BY DEF NoArtifact, Artifacts
  <1>2. NoEntry \in CacheEntries /\ NoOutcome \in Outcomes /\ Unallocated \in InflightEntries
    BY <1>1 DEF NoEntry, CacheEntries, NoOutcome, Outcomes, Unallocated, InflightEntries, ErrorCodes
  <1>3. disk' \in SUBSET PersistedRecords
    BY DEF Restart, FlightInv, TypeOK
  <1>4. TypeOK'
    BY <1>1, <1>2, <1>3, CoreAssumption DEF Restart, TypeOK, PCs
  <1>5. QED
    BY <1>4 DEF Restart, FlightInv, LocalsSet, CounterCovers, OwnersRegistered, FlightsOwned,
       NoStrandedWaiter, InFlight, Owning, Waiting

\* A process that starts again has cached and served nothing yet.
LEMMA RestartKeepsFreshInv ==
    ASSUME Restart
    PROVE  FreshInv'
  BY DEF Restart, FreshInv, NumbersOrdered, BirthsRecorded, FreshAfterInvalidation,
     HitsAndBuildsAreFresh, Owning, NoEntry, NoArtifact, NoOutcome

\* A step of the composition is a step of the fabric, a restart, or none of its business.
LEMMA FabricSide ==
    ASSUME [DeployNext]_allVars
    PROVE  FabricStep \/ Restart \/ UNCHANGED vars
  <1>1. ASSUME NEW c \in Clients, NEW id \in Attempts, DeployCopies(c, id) \/ DeployRefused(c, id)
        PROVE  UNCHANGED vars
    BY <1>1 DEF DeployCopies, DeployRefused
  <1>2. ASSUME NEW c \in Clients, DeployLoads(c) PROVE UNCHANGED vars
    BY <1>2 DEF DeployLoads
  <1>3. ASSUME NEW id \in LeasedIds, Acquire(id) \/ Release(id) PROVE UNCHANGED vars
    BY <1>3 DEF Acquire, Release
  <1>4. QED
    BY <1>1, <1>2, <1>3 DEF DeployNext, allVars

\* The single flight is kept by the fabric's steps, by deployments and leases, and by a restart.
LEMMA FlightInvDeployNext ==
    ASSUME FlightInv, [DeployNext]_allVars
    PROVE  FlightInv'
  <1>1. CASE FabricStep
    BY <1>1, FlightInvNext DEF FabricStep
  <1>2. CASE Restart
    BY <1>2, RestartKeepsFlightInv
  <1>3. CASE UNCHANGED vars
    BY <1>3, FlightInvNext
  <1>4. QED
    BY <1>1, <1>2, <1>3, FabricSide

\* The single-flight invariant of compile() holds while artifacts are deployed and
\* leased, and over restarts of the process.
THEOREM FlightInvOverRestarts == DeploySpec => []FlightInv
  <1>1. DeployInit => FlightInv
    BY FlightInvInit DEF DeployInit
  <1>2. FlightInv /\ [DeployNext]_allVars => FlightInv'
    BY FlightInvDeployNext
  <1>3. QED
    BY <1>1, <1>2, PTL DEF DeploySpec, allVars

-----------------------------------------------------------------------------
(* deploy() *)

DeployInv ==
    /\ FlightInv /\ FreshInv
    /\ deploying \in [Clients -> [key : Keys \cup {NoKey}, art : Artifacts, fresh : BOOLEAN]]
    /\ DeploysAreFresh

\* A copy that deploy() makes is as fresh as the entry it was made from.
LEMMA DeployInvNext ==
    ASSUME ~PersistenceEnabled, DeployInv, [DeployNext]_allVars
    PROVE  DeployInv'
  <1>1. FlightInv'
    BY FlightInvDeployNext DEF DeployInv
  <1>2. FreshInv'
    <2>1. CASE FabricStep
      BY <2>1, FreshInvNext DEF FabricStep, DeployInv
    <2>2. CASE Restart
      BY <2>2, RestartKeepsFreshInv
    <2>3. CASE UNCHANGED vars
      BY <2>3, FreshInvNext DEF DeployInv
    <2>4. QED
      BY <2>1, <2>2, <2>3, FabricSide
  <1>3. NoDeploy \in [key : Keys \cup {NoKey}, art : Artifacts, fresh : BOOLEAN] /\ NoDeploy.fresh
    BY DEF NoDeploy, NoArtifact, Artifacts
  <1> DEFINE Kept == /\ deploying' \in [Clients -> [key : Keys \cup {NoKey}, art : Artifacts, fresh : BOOLEAN]]
                     /\ DeploysAreFresh'
  <1>4. ASSUME NEW c \in Clients, NEW id \in Attempts, DeployCopies(c, id) PROVE Kept
    <2>1. PICK k \in Named(id) :
             /\ Eligible(cache[k])
             /\ deploying' = [deploying EXCEPT ![c] =
                    [key |-> k, art |-> cache[k].art,
                     fresh |-> k \in restored \/ cache[k].art.born >= lastInval[k]]]
      BY <1>4 DEF DeployCopies
    <2>2. k \in Keys /\ cache[k].art \in Artifacts
      BY NaturalNumbers DEF Named, DeployInv, FlightInv
    <2>3. cache[k].art.born >= lastInval[k]
      BY <2>1, <2>2 DEF Eligible, DeployInv, FreshInv, FreshAfterInvalidation
    <2>4. QED
      BY <2>1, <2>2, <2>3 DEF DeployInv, DeploysAreFresh
  <1>5. ASSUME NEW c \in Clients, DeployLoads(c) PROVE Kept
    BY <1>3, <1>5 DEF DeployLoads, DeployInv, DeploysAreFresh
  <1>6. ASSUME Restart PROVE Kept
    BY <1>3, <1>6 DEF Restart, DeploysAreFresh
  <1>7. ASSUME UNCHANGED deploying PROVE Kept
    BY <1>7 DEF DeployInv, DeploysAreFresh
  <1>8. ASSUME NEW c \in Clients, NEW id \in Attempts, DeployRefused(c, id) PROVE UNCHANGED deploying
    BY <1>8 DEF DeployRefused, deployVars
  <1>9. ASSUME NEW id \in LeasedIds, Acquire(id) \/ Release(id) PROVE UNCHANGED deploying
    BY <1>9 DEF Acquire, Release
  <1>10. FabricStep \/ UNCHANGED allVars => UNCHANGED deploying
    BY DEF FabricStep, allVars, deployVars
  <1>11. Kept
    BY <1>4, <1>5, <1>6, <1>7, <1>8, <1>9, <1>10 DEF DeployNext
  <1>12. QED
    BY <1>1, <1>2, <1>11 DEF DeployInv

\* Without persistence, deploy() never loads an artifact whose build began before an
\* invalidation that precedes the call, over any number of restarts.
THEOREM DeployedArtifactsAreFresh ==
    ASSUME ~PersistenceEnabled PROVE DeploySpec => []DeploysAreFresh
  <1>1. DeployInit => DeployInv
    <2>1. NoDeploy \in [key : Keys \cup {NoKey}, art : Artifacts, fresh : BOOLEAN] /\ NoDeploy.fresh
      BY DEF NoDeploy, NoArtifact, Artifacts
    <2>2. QED
      BY <2>1, FlightInvInit, FreshInvInit DEF DeployInit, DeployInv, DeploysAreFresh
  <1>2. DeployInv /\ [DeployNext]_allVars => DeployInv'
    BY DeployInvNext
  <1>3. DeployInv => DeploysAreFresh
    BY DEF DeployInv
  <1>4. QED
    BY <1>1, <1>2, <1>3, PTL DEF DeploySpec, allVars

-----------------------------------------------------------------------------
\* Being made, up to the validation; and validated, nothing against it so far.
Making == {"Submitted", "Planning", "Planned", "Queued", "Preparing", "Compiling", "Optimizing",
           "Linking", "Validating"}
Live   == ActiveOrValid \cup {"Persisting", "Deploying"}

\* Nothing returns to the making of an artifact; what is live was live or has just
\* been validated.
LEMMA EdgesRespectPhases ==
    ASSUME NEW from \in States, NEW to \in States, CanTransition(from, to)
    PROVE  /\ to \in Making => from \in Making
           /\ to \in Live => from \in Live \/ from = "Validating"
  <1> USE DEF Making, Live, ActiveOrValid
  <1>1. from \in DOMAIN Edges /\ to \in Edges[from]
    BY DEF CanTransition, States
  <1>2. CASE from = "Submitted"
    BY <1>1, <1>2 DEF Edges, Aborted
  <1>3. CASE from = "Planning"
    BY <1>1, <1>3 DEF Edges, Aborted
  <1>4. CASE from = "Planned"
    BY <1>1, <1>4 DEF Edges, Aborted
  <1>5. CASE from = "Queued"
    BY <1>1, <1>5 DEF Edges
  <1>6. CASE from = "Preparing"
    BY <1>1, <1>6 DEF Edges, Aborted
  <1>7. CASE from = "Compiling"
    BY <1>1, <1>7 DEF Edges, Aborted
  <1>8. CASE from = "Optimizing"
    BY <1>1, <1>8 DEF Edges, Aborted
  <1>9. CASE from = "Linking"
    BY <1>1, <1>9 DEF Edges, Aborted
  <1>10. CASE from = "Validating"
    BY <1>1, <1>10 DEF Edges
  <1>11. CASE from = "Valid"
    BY <1>1, <1>11 DEF Edges
  <1>12. CASE from = "Persisting"
    BY <1>1, <1>12 DEF Edges
  <1>13. CASE from = "Persisted"
    BY <1>1, <1>13 DEF Edges
  <1>14. CASE from = "Deployable"
    BY <1>1, <1>14 DEF Edges
  <1>15. CASE from = "Deploying"
    BY <1>1, <1>15 DEF Edges
  <1>16. CASE from = "Deployed"
    BY <1>1, <1>16 DEF Edges
  <1>17. CASE from = "InUse"
    BY <1>1, <1>17 DEF Edges
  <1>18. CASE from = "Superseded"
    BY <1>1, <1>18 DEF Edges
  <1>19. CASE from = "InvalidationPending"
    BY <1>1, <1>19 DEF Edges
  <1>20. QED
    BY <1>1, <1>2, <1>3, <1>4, <1>5, <1>6, <1>7, <1>8, <1>9, <1>10,
       <1>11, <1>12, <1>13, <1>14, <1>15, <1>16, <1>17, <1>18, <1>19 DEF Edges

\* Where an artifact has been, by the phase it is in.
PhaseInv ==
    /\ life \in States
    /\ life \in Making => passed \subseteq Making
    /\ life \in Live => "Validating" \in passed /\ passed \subseteq Making \cup Live

\* A new artifact is being made and has been nowhere.
LEMMA PhaseInvInit == LifeInit => PhaseInv
  BY DEF LifeInit, PhaseInv, States, Edges, Making, Live, ActiveOrValid

\* Every edge of the table keeps to the phases.
LEMMA PhaseInvStep == PhaseInv /\ [LifeNext]_lifeVars => PhaseInv'
  <1> SUFFICES ASSUME PhaseInv, [LifeNext]_lifeVars PROVE PhaseInv'
    OBVIOUS
  <1>1. CASE UNCHANGED lifeVars
    BY <1>1 DEF PhaseInv, lifeVars
  <1>2. ASSUME NEW next \in States, To(next) PROVE PhaseInv'
    <2>1. life \in States /\ CanTransition(life, next) /\ life' = next /\ passed' = passed \cup {life}
      BY <1>2 DEF To, PhaseInv
    <2>2. /\ next \in Making => life \in Making
          /\ next \in Live => life \in Live \/ life = "Validating"
      BY <2>1, EdgesRespectPhases
    <2>3. "Validating" \in Making
      BY DEF Making
    <2>4. QED
      BY <2>1, <2>2, <2>3 DEF PhaseInv
  <1>3. ASSUME NEW next \in States, ToRefused(next) PROVE PhaseInv'
    BY <1>3 DEF ToRefused, PhaseInv, lifeVars
  <1>4. QED
    BY <1>1, <1>2, <1>3 DEF LifeNext

\* Whatever is active, valid or being deployed was validated, and was never
\* superseded, up for invalidation or in a terminal state (Lifecycle::to() with
\* the table of canTransition()).
THEOREM LiveArtifactsEarnedIt == LifeSpec => []EligibilityIsEarned
  <1>1. PhaseInv => EligibilityIsEarned
    <2>1. (Making \cup Live) \cap ({"Superseded", "InvalidationPending"} \cup Terminal) = {}
      BY DEF Making, Live, ActiveOrValid, Terminal
    <2>2. QED
      BY <2>1 DEF PhaseInv, EligibilityIsEarned, Live
  <1>2. QED
    BY <1>1, PhaseInvInit, PhaseInvStep, PTL DEF LifeSpec
=============================================================================
