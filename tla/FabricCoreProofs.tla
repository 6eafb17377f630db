-------------------------- MODULE FabricCoreProofs --------------------------
(***************************************************************************)
(* Theorems about FabricCore, for any sets of threads and keys and any     *)
(* bounds.                                                                 *)
(***************************************************************************)
EXTENDS FabricCore, TLAPS

-----------------------------------------------------------------------------
(* Typing *)

\* A fresh fabric has the declared types.
LEMMA TypeOKInit == Init => TypeOK
  <1> SUFFICES ASSUME Init PROVE TypeOK
    OBVIOUS
  <1>1. NoArtifact \in Artifacts
    BY DEF NoArtifact, Artifacts
  <1>2. NoEntry \in CacheEntries /\ NoOutcome \in Outcomes /\ Unallocated \in InflightEntries
    BY <1>1 DEF NoEntry, CacheEntries, NoOutcome, Outcomes, Unallocated, InflightEntries, ErrorCodes
  <1>3. QED
    BY <1>1, <1>2, CoreAssumption DEF Init, TypeOK, PCs

\* The successor of a thread's position when the owner t wakes its waiters.
LEMMA NotifyAllType ==
    ASSUME TypeOK, NEW t \in Threads
    PROVE  NotifyAll(t) \in [Threads -> PCs]
  BY DEF TypeOK, NotifyAll, PCs

\* The records the actions build have their types.
LEMMA EntryTypes ==
    ASSUME TypeOK
    PROVE  /\ NoArtifact \in Artifacts
           /\ \A e \in InflightEntries, c \in ErrorCodes : FailedEntry(e, c) \in InflightEntries
           /\ \A e \in InflightEntries, a \in Artifacts : SucceededEntry(e, a) \in InflightEntries
           /\ \A t \in Threads : NewEntry(t) \in InflightEntries
           /\ \A a \in Artifacts : DeployableEntry(a) \in CacheEntries
           /\ \A e \in CacheEntries : InvalidatedEntry(e) \in CacheEntries /\ SupersededEntry(e) \in CacheEntries
           /\ \A c \in ErrorCodes : Failed(c) \in Outcomes
           /\ \A a \in Artifacts, kind \in {"hit", "built", "joined"} : Returned(kind, a) \in Outcomes
  <1>0. NoArtifact \in Artifacts
    BY DEF NoArtifact, Artifacts
  <1>1. \A e \in InflightEntries, c \in ErrorCodes : FailedEntry(e, c) \in InflightEntries
    BY DEF FailedEntry, InflightEntries
  <1>2. \A e \in InflightEntries, a \in Artifacts : SucceededEntry(e, a) \in InflightEntries
    BY DEF SucceededEntry, InflightEntries
  <1>3. \A t \in Threads : NewEntry(t) \in InflightEntries
    BY <1>0 DEF NewEntry, Unallocated, InflightEntries, ErrorCodes, TypeOK
  <1>4. \A a \in Artifacts : DeployableEntry(a) \in CacheEntries
    BY DEF DeployableEntry, CacheEntries, TypeOK
  <1>5. \A e \in CacheEntries : InvalidatedEntry(e) \in CacheEntries /\ SupersededEntry(e) \in CacheEntries
    BY DEF InvalidatedEntry, SupersededEntry, CacheEntries
  <1>6. \A c \in ErrorCodes : Failed(c) \in Outcomes
    BY <1>0 DEF Failed, Outcomes
  <1>7. \A a \in Artifacts, kind \in {"hit", "built", "joined"} : Returned(kind, a) \in Outcomes
    BY DEF Returned, Outcomes, ErrorCodes
  <1>8. QED
    BY <1>0, <1>1, <1>2, <1>3, <1>4, <1>5, <1>6, <1>7

\* Completing an entry with a failure keeps the types.
LEMMA FailFlightType ==
    ASSUME TypeOK, NEW t \in Threads, NEW code \in ErrorCodes, FailFlight(t, code)
    PROVE  TypeOK'
  <1>1. flight' \in [Attempts -> InflightEntries]
    BY EntryTypes DEF FailFlight, TypeOK
  <1>2. pc' \in [Threads -> PCs]
    BY NotifyAllType DEF FailFlight
  <1>3. outcome' \in [Threads -> Outcomes]
    BY EntryTypes DEF FailFlight, TypeOK
  <1>4. QED
    BY <1>1, <1>2, <1>3 DEF FailFlight, TypeOK, historyVars

\* Every step keeps the types.
LEMMA TypeOKNext ==
    ASSUME TypeOK, LocalsSet, [Next]_vars
    PROVE  TypeOK'
  <1> USE EntryTypes
  <1>1. ASSUME NEW t \in Threads, NEW k \in Keys, Call(t, k) PROVE TypeOK'
    BY <1>1 DEF Call, TypeOK, fabricVars, PCs
  <1>2. ASSUME NEW t \in Threads, PlanRejected(t) PROVE TypeOK'
    <2>1. "NoBackend" \in ErrorCodes
      BY DEF ErrorCodes
    <2>2. QED
      BY <1>2, <2>1 DEF PlanRejected, TypeOK, fabricVars, historyVars, PCs
  <1>3. ASSUME NEW t \in Threads, CacheHit(t) PROVE TypeOK'
    <2>1. call[t] \in Keys
      BY <1>3 DEF CacheHit, LocalsSet
    <2>2. cache[call[t]].art \in Artifacts
      BY <2>1 DEF TypeOK, CacheEntries
    <2>3. QED
      BY <1>3, <2>2 DEF CacheHit, TypeOK, fabricVars, historyVars, PCs
  <1>4. ASSUME NEW t \in Threads, CacheMiss(t) PROVE TypeOK'
    BY <1>4 DEF CacheMiss, TypeOK, fabricVars, historyVars, PCs
  <1>5. ASSUME NEW t \in Threads, JoinFlight(t) PROVE TypeOK'
    <2>1. call[t] \in Keys
      BY <1>5 DEF JoinFlight, LocalsSet
    <2>2. QED
      BY <1>5, <2>1 DEF JoinFlight, TypeOK, fabricVars, historyVars, PCs
  <1>6. ASSUME NEW t \in Threads, OwnFlight(t) PROVE TypeOK'
    <2>1. artifactCounter + 1 \in Attempts /\ artifactCounter + 1 \in 0..MaxCounter
      BY <1>6, CoreAssumption DEF OwnFlight, StartFlight, TypeOK, Attempts
    <2>2. QED
      BY <1>6, <2>1 DEF OwnFlight, StartFlight, TypeOK, historyVars, PCs
  <1>7. ASSUME NEW t \in Threads, BuildFails(t) PROVE TypeOK'
    <2>1. "BuildFailed" \in ErrorCodes
      BY DEF ErrorCodes
    <2>2. QED
      BY <1>7, <2>1, FailFlightType DEF BuildFails
  <1>8. ASSUME NEW t \in Threads, NumberArtifact(t) PROVE TypeOK'
    <2>1. artifactCounter + 1 \in 0..MaxCounter
      BY <1>8, CoreAssumption DEF NumberArtifact, TypeOK
    <2>2. own[t] \in Attempts
      BY <1>8, CoreAssumption DEF NumberArtifact, LocalsSet, TypeOK, Owning, Attempts
    <2>3. flight[own[t]].baseCacheGen \in Nat
      BY <2>2 DEF TypeOK, InflightEntries
    <2>4. art' \in [Threads -> Artifacts]
      BY <1>8, <2>1, <2>3, CoreAssumption DEF NumberArtifact, TypeOK, Artifacts
    <2>5. QED
      BY <1>8, <2>1, <2>4 DEF NumberArtifact, TypeOK, historyVars, PCs
  <1>9. ASSUME NEW t \in Threads, ReadGeneration(t) PROVE TypeOK'
    <2>1. artifactCounter \in Nat
      BY CoreAssumption DEF TypeOK
    <2>2. art' \in [Threads -> Artifacts]
      BY <1>9, <2>1 DEF ReadGeneration, TypeOK, Artifacts
    <2>3. QED
      BY <1>9, <2>2 DEF ReadGeneration, TypeOK, fabricVars, historyVars, PCs
  <1>10. ASSUME NEW t \in Threads, ValidationFails(t) PROVE TypeOK'
    <2>1. "ValidationFailed" \in ErrorCodes
      BY DEF ErrorCodes
    <2>2. QED
      BY <1>10, <2>1, FailFlightType DEF ValidationFails
  <1>11. ASSUME NEW t \in Threads, CommitRejected(t) PROVE TypeOK'
    <2>1. "StaleGeneration" \in ErrorCodes
      BY DEF ErrorCodes
    <2>2. QED
      BY <1>11, <2>1, FailFlightType DEF CommitRejected
  <1>12. ASSUME NEW t \in Threads, Commit(t) PROVE TypeOK'
    <2>1. call[t] \in Keys
      BY <1>12 DEF Commit, LocalsSet
    <2>2. [key |-> call[t], art |-> art[t]] \in PersistedRecords
      BY <2>1 DEF TypeOK, PersistedRecords
    <2>3. disk' \in SUBSET PersistedRecords /\ published' \in SUBSET PersistedRecords
      BY <1>12, <2>2 DEF Commit, Stored, TypeOK
    <2>4. cache' \in [Keys -> CacheEntries]
      BY <1>12 DEF Commit, TypeOK
    <2>5. QED
      BY <1>12, <2>3, <2>4 DEF Commit, TypeOK, PCs
  <1>13. ASSUME NEW t \in Threads, CompleteFlight(t) PROVE TypeOK'
    <2>1. flight' \in [Attempts -> InflightEntries] /\ outcome' \in [Threads -> Outcomes]
      BY <1>13 DEF CompleteFlight, TypeOK
    <2>2. pc' \in [Threads -> PCs]
      BY <1>13, NotifyAllType DEF CompleteFlight
    <2>3. QED
      BY <1>13, <2>1, <2>2 DEF CompleteFlight, TypeOK, historyVars
  <1>14. ASSUME NEW t \in Threads, SpuriousWakeup(t) \/ SleepAgain(t) PROVE TypeOK'
    BY <1>14 DEF SpuriousWakeup, SleepAgain, TypeOK, fabricVars, historyVars, PCs
  <1>15. ASSUME NEW t \in Threads, WaiterReturns(t) PROVE TypeOK'
    <2>1. own[t] \in Attempts
      BY <1>15, CoreAssumption DEF WaiterReturns, LocalsSet, TypeOK, Waiting, Attempts
    <2>2. flight[own[t]].result \in Artifacts /\ flight[own[t]].failure \in ErrorCodes
      BY <2>1 DEF TypeOK, InflightEntries
    <2>3. outcome' \in [Threads -> Outcomes]
      BY <1>15, <2>2 DEF WaiterReturns, TypeOK
    <2>4. QED
      BY <1>15, <2>3 DEF WaiterReturns, TypeOK, fabricVars, historyVars, PCs
  <1>16. ASSUME NEW t \in Threads, Return(t) PROVE TypeOK'
    <2>1. NoOutcome \in Outcomes
      BY DEF NoOutcome, Outcomes, ErrorCodes
    <2>2. QED
      BY <1>16, <2>1, CoreAssumption DEF Return, TypeOK, fabricVars, PCs
  <1>17. ASSUME NEW t \in Threads, RecoverScan(t) PROVE TypeOK'
    BY <1>17 DEF RecoverScan, TypeOK, fabricVars, historyVars, PCs
  <1>18. ASSUME NEW t \in Threads, RecoverInstall(t) PROVE TypeOK'
    <2> DEFINE recovered == {r.key : r \in scan[t]}
    <2>1. PICK last \in [recovered -> scan[t]] :
            cache' = [k \in Keys |-> IF k \in recovered THEN DeployableEntry(last[k].art) ELSE cache[k]]
      BY <1>18 DEF RecoverInstall
    <2>2. \A k \in recovered : last[k].art \in Artifacts
      BY DEF TypeOK, PersistedRecords
    <2>3. cache' \in [Keys -> CacheEntries]
      BY <2>1, <2>2 DEF TypeOK
    <2>4. QED
      BY <1>18, <2>3 DEF RecoverInstall, TypeOK, historyVars, PCs
  <1>19. ASSUME InvalidateStep PROVE TypeOK'
    <2>1. ASSUME NEW K, NEW H, InvalidateEntries(K, H), toolchainGen' \in Nat PROVE TypeOK'
      BY <2>1 DEF InvalidateEntries, TypeOK, threadVars
    <2>2. ASSUME NEW id \in Attempts, NEW newGen \in 1..(MaxCounter + 1), Supersede(id, newGen) PROVE TypeOK'
      BY <2>2 DEF Supersede, TypeOK, threadVars, historyVars
    <2>3. toolchainGen \in Nat /\ toolchainGen + 1 \in Nat
      BY DEF TypeOK
    <2>4. QED
      BY <1>19, <2>1, <2>2, <2>3 DEF InvalidateStep, InvalidateByKey, InvalidateById,
         InvalidateByLogicalOperation, InvalidateByCompilerGeneration, InvalidateByDependencyGeneration
  <1>20. ASSUME UNCHANGED vars PROVE TypeOK'
    BY <1>20 DEF vars, fabricVars, threadVars, historyVars, TypeOK
  <1>21. QED
    BY <1>1, <1>2, <1>3, <1>4, <1>5, <1>6, <1>7, <1>8, <1>9, <1>10, <1>11, <1>12, <1>13, <1>14,
       <1>15, <1>16, <1>17, <1>18, <1>19, <1>20 DEF Next, CompileStep, RecoverStep, Quiescent

-----------------------------------------------------------------------------
(* The single flight *)

\* After an owner completed its entry, its own waiters are awake, it is done
\* itself, and everyone else is where they were.
LEMMA NotifyAllFacts ==
    ASSUME TypeOK, NEW t \in Threads, NEW u \in Threads
    PROVE  /\ NotifyAll(t)[t] = "done"
           /\ u # t => (NotifyAll(t)[u] \in Owning <=> pc[u] \in Owning)
           /\ u # t => (NotifyAll(t)[u] \in Waiting <=> pc[u] \in Waiting)
           /\ u # t => (NotifyAll(t)[u] \in {"idle", "recovering"} <=> pc[u] \in {"idle", "recovering"})
           /\ u # t /\ own[u] = own[t] => NotifyAll(t)[u] # "asleep"
           /\ u # t /\ NotifyAll(t)[u] # pc[u] => NotifyAll(t)[u] = "woken"
           /\ u # t /\ own[u] # own[t] => NotifyAll(t)[u] = pc[u]
  BY DEF TypeOK, NotifyAll, Owning, Waiting, PCs

\* The owner t completes its entry with an entry e that is done.
LEMMA CompletionKeepsFlightInv ==
    ASSUME FlightInv, TypeOK', NEW t \in Threads, pc[t] \in Owning, NEW e \in InflightEntries, e.done,
           flight' = [flight EXCEPT ![own[t]] = e], pc' = NotifyAll(t),
           UNCHANGED <<inflight, artifactCounter, call, own>>
    PROVE  FlightInv'
  <1> USE DEF FlightInv
  <1>1. own[t] \in Attempts /\ flight'[own[t]] = e
    BY CoreAssumption DEF LocalsSet, TypeOK, Attempts
  <1>2. \A a \in Attempts : a # own[t] => flight'[a] = flight[a]
    BY DEF TypeOK
  <1>3. \A u \in Threads : pc'[u] \in Owning => u # t /\ pc[u] \in Owning /\ own[u] # own[t] /\ own[u] \in Attempts
    <2> SUFFICES ASSUME NEW u \in Threads, pc'[u] \in Owning
                 PROVE  u # t /\ pc[u] \in Owning /\ own[u] # own[t] /\ own[u] \in Attempts
      OBVIOUS
    <2>1. u # t /\ pc[u] \in Owning
      BY NotifyAllFacts DEF Owning
    <2>2. own[u] # own[t]
      BY <2>1 DEF OwnersRegistered
    <2>3. own[u] \in Attempts
      BY <2>1, CoreAssumption DEF LocalsSet, TypeOK, Attempts
    <2>4. QED
      BY <2>1, <2>2, <2>3
  <1>4. \A u \in Threads : pc[u] \in Owning /\ u # t => pc'[u] \in Owning
    BY NotifyAllFacts
  <1>5. LocalsSet'
    BY NotifyAllFacts DEF LocalsSet, Owning, Waiting
  <1>6. CounterCovers'
    BY <1>1, <1>2 DEF CounterCovers, TypeOK, Attempts
  <1>7. OwnersRegistered'
    BY <1>2, <1>3 DEF OwnersRegistered
  <1>8. FlightsOwned'
    <2> SUFFICES ASSUME NEW k \in Keys, InFlight(k)'
                 PROVE  \E u \in Threads : pc'[u] \in Owning /\ own[u] = inflight[k]
      BY DEF FlightsOwned
    <2>1. inflight[k] \in Attempts /\ inflight[k] # own[t]
      BY <1>1, CoreAssumption DEF InFlight, TypeOK, Attempts
    <2>2. InFlight(k)
      BY <1>2, <2>1 DEF InFlight
    <2>3. QED
      BY <1>4, <2>1, <2>2 DEF FlightsOwned
  <1>9. NoStrandedWaiter'
    <2> SUFFICES ASSUME NEW u \in Threads, pc'[u] \in Waiting
                 PROVE  IF flight'[own[u]].done THEN pc'[u] = "woken"
                        ELSE \E v \in Threads : pc'[v] \in Owning /\ own[v] = own[u]
      BY DEF NoStrandedWaiter
    <2>1. u # t /\ pc[u] \in Waiting /\ own[u] \in Attempts
      BY NotifyAllFacts, CoreAssumption DEF Waiting, LocalsSet, TypeOK, Attempts
    <2>2. CASE own[u] = own[t]
      BY <1>1, <2>1, <2>2, NotifyAllFacts DEF Waiting
    <2>3. CASE own[u] # own[t]
      <3>1. flight'[own[u]] = flight[own[u]] /\ pc'[u] = pc[u]
        BY <1>2, <2>1, <2>3, NotifyAllFacts
      <3>2. QED
        BY <1>4, <2>1, <2>3, <3>1 DEF NoStrandedWaiter
    <2>4. QED
      BY <2>2, <2>3
  <1>10. QED
    BY <1>5, <1>6, <1>7, <1>8, <1>9

\* A step that leaves the flights and their owners and waiters alone.
LEMMA QuietKeepsFlightInv ==
    ASSUME FlightInv, TypeOK', LocalsSet',
           UNCHANGED <<inflight, flight>>, artifactCounter' >= artifactCounter,
           \A u \in Threads : own'[u] \in {own[u], 0},
           \A u \in Threads : pc'[u] \in Owning \cup Waiting \/ pc[u] \in Owning \cup Waiting =>
                                own'[u] = own[u] /\ call'[u] = call[u],
           \A u \in Threads : pc'[u] \in Owning <=> pc[u] \in Owning,
           \A u \in Threads : pc'[u] \in Waiting =>
                pc[u] \in Waiting /\ (pc'[u] = "asleep" => pc[u] = "asleep" \/ ~flight[own[u]].done)
    PROVE  FlightInv'
  <1> USE DEF FlightInv
  <1>1. CounterCovers'
    <2>1. artifactCounter \in Nat /\ artifactCounter' \in Nat
      BY CoreAssumption DEF TypeOK
    <2>2. \A k \in Keys : inflight[k] \in Nat
      BY CoreAssumption DEF TypeOK
    <2>3. \A u \in Threads : own[u] \in Nat
      BY CoreAssumption DEF TypeOK
    <2>4. \A k \in Keys : inflight'[k] <= artifactCounter'
      BY <2>1, <2>2 DEF CounterCovers
    <2>5. \A u \in Threads : own'[u] <= artifactCounter'
      BY <2>1, <2>3 DEF CounterCovers
    <2>6. \A a \in Attempts : a > artifactCounter' => flight'[a] = Unallocated
      BY <2>1 DEF CounterCovers, Attempts
    <2>7. QED
      BY <2>4, <2>5, <2>6 DEF CounterCovers
  <1>2. OwnersRegistered'
    BY DEF OwnersRegistered
  <1>3. FlightsOwned'
    BY DEF FlightsOwned, InFlight
  <1>4. NoStrandedWaiter'
    BY DEF NoStrandedWaiter, Waiting
  <1>5. QED
    BY <1>1, <1>2, <1>3, <1>4


\* Starting a flight for a key that has none open.
LEMMA StartKeepsFlightInv ==
    ASSUME FlightInv, TypeOK', NEW t \in Threads, OwnFlight(t)
    PROVE  FlightInv'
  <1> DEFINE a == artifactCounter + 1
  <1> USE DEF FlightInv
  <1>1. a \in Attempts /\ artifactCounter \in Nat
    BY CoreAssumption DEF OwnFlight, StartFlight, TypeOK, Attempts
  <1>2. call[t] \in Keys /\ pc[t] = "missed" /\ ~InFlight(call[t])
    BY DEF OwnFlight, LocalsSet
  <1>3. /\ pc' = [pc EXCEPT ![t] = "building"]
        /\ own' = [own EXCEPT ![t] = a]
        /\ inflight' = [inflight EXCEPT ![call[t]] = a]
        /\ flight' = [flight EXCEPT ![a] = NewEntry(t)]
        /\ artifactCounter' = a
        /\ call' = call
    BY DEF OwnFlight, StartFlight
  <1>4. flight'[a] = NewEntry(t) /\ \A b \in Attempts : b # a => flight'[b] = flight[b]
    BY <1>1, <1>3 DEF TypeOK
  <1>5. NewEntry(t).owner = t /\ ~NewEntry(t).done
    BY DEF NewEntry, Unallocated
  <1>6. \A u \in Threads : u # t => pc'[u] = pc[u] /\ own'[u] = own[u]
    BY <1>3 DEF TypeOK
  <1>7. pc'[t] = "building" /\ own'[t] = a
    BY <1>3 DEF TypeOK
  <1>8. \A u \in Threads : own[u] # a /\ own[u] \in Nat
    BY <1>1, CoreAssumption DEF CounterCovers, TypeOK
  <1>9. \A u \in Threads : pc[u] \in Owning \cup Waiting => u # t /\ own[u] \in Attempts
    BY <1>2, CoreAssumption DEF LocalsSet, TypeOK, Attempts, Owning, Waiting
  <1>10. LocalsSet'
    <2> SUFFICES ASSUME NEW u \in Threads
                 PROVE  /\ pc'[u] \notin {"idle", "recovering"} => call'[u] \in Keys
                        /\ pc'[u] \in Owning \cup Waiting => own'[u] # 0
      BY DEF LocalsSet
    <2>1. CASE u = t
      BY <1>1, <1>2, <1>3, <1>7, <2>1
    <2>2. CASE u # t
      BY <1>3, <1>6, <2>2 DEF LocalsSet
    <2>3. QED
      BY <2>1, <2>2
  <1>11. CounterCovers'
    <2>1. \A k \in Keys : inflight'[k] <= a
      BY <1>1, <1>3, CoreAssumption DEF CounterCovers, TypeOK
    <2>2. \A u \in Threads : own'[u] <= a
      BY <1>1, <1>6, <1>7, <1>8 DEF CounterCovers
    <2>3. \A b \in Attempts : b > a => flight'[b] = Unallocated
      BY <1>1, <1>4 DEF CounterCovers, Attempts
    <2>4. QED
      BY <1>3, <2>1, <2>2, <2>3 DEF CounterCovers
  <1>12. OwnersRegistered'
    <2> SUFFICES ASSUME NEW u \in Threads, pc'[u] \in Owning
                 PROVE  /\ inflight'[call'[u]] = own'[u]
                        /\ flight'[own'[u]].owner = u
                        /\ ~flight'[own'[u]].done
      BY DEF OwnersRegistered
    <2>1. CASE u = t
      BY <1>2, <1>3, <1>4, <1>5, <1>7, <2>1 DEF TypeOK
    <2>2. CASE u # t
      <3>1. pc[u] \in Owning /\ own[u] \in Attempts /\ own'[u] = own[u] /\ own[u] # a
        BY <1>6, <1>8, <1>9, <2>2
      <3>2. flight'[own'[u]] = flight[own[u]]
        BY <1>4, <3>1
      <3>3. call[u] \in Keys
        BY <3>1 DEF LocalsSet, Owning
      <3>4. InFlight(call[u])
        BY <3>1, <3>3 DEF OwnersRegistered, InFlight, Attempts
      <3>5. call[u] # call[t]
        BY <1>2, <3>4
      <3>6. inflight'[call'[u]] = inflight[call[u]]
        BY <1>3, <3>3, <3>5 DEF TypeOK
      <3>7. QED
        BY <3>1, <3>2, <3>6 DEF OwnersRegistered
    <2>3. QED
      BY <2>1, <2>2
  <1>13. FlightsOwned'
    <2> SUFFICES ASSUME NEW k \in Keys, InFlight(k)'
                 PROVE  \E u \in Threads : pc'[u] \in Owning /\ own'[u] = inflight'[k]
      BY DEF FlightsOwned
    <2>1. CASE k = call[t]
      <3>1. inflight'[k] = a
        BY <1>2, <1>3, <2>1 DEF TypeOK
      <3>2. QED
        BY <1>7, <3>1 DEF Owning
    <2>2. CASE k # call[t]
      <3>1. inflight'[k] = inflight[k] /\ inflight[k] # a
        BY <1>1, <1>3, <2>2, CoreAssumption DEF CounterCovers, TypeOK
      <3>2. InFlight(k)
        BY <1>4, <3>1, CoreAssumption DEF InFlight, TypeOK, Attempts
      <3>3. PICK u \in Threads : pc[u] \in Owning /\ own[u] = inflight[k]
        BY <3>2 DEF FlightsOwned
      <3>4. QED
        BY <1>6, <1>9, <3>1, <3>3
    <2>3. QED
      BY <2>1, <2>2
  <1>14. NoStrandedWaiter'
    <2> SUFFICES ASSUME NEW u \in Threads, pc'[u] \in Waiting
                 PROVE  IF flight'[own'[u]].done THEN pc'[u] = "woken"
                        ELSE \E v \in Threads : pc'[v] \in Owning /\ own'[v] = own'[u]
      BY DEF NoStrandedWaiter
    <2>1. u # t /\ pc[u] \in Waiting
      BY <1>6, <1>7 DEF Waiting
    <2>2. own'[u] = own[u] /\ pc'[u] = pc[u] /\ flight'[own'[u]] = flight[own[u]]
      BY <1>4, <1>6, <1>8, <1>9, <2>1
    <2>3. \A v \in Threads : pc[v] \in Owning => pc'[v] \in Owning /\ own'[v] = own[v]
      BY <1>6, <1>9
    <2>4. QED
      BY <2>1, <2>2, <2>3 DEF NoStrandedWaiter
  <1>15. QED
    BY <1>10, <1>11, <1>12, <1>13, <1>14

\* Joining an open flight.
LEMMA JoinKeepsFlightInv ==
    ASSUME FlightInv, TypeOK', NEW t \in Threads, JoinFlight(t)
    PROVE  FlightInv'
  <1> USE DEF FlightInv
  <1>1. call[t] \in Keys /\ pc[t] = "missed" /\ InFlight(call[t]) /\ inflight[call[t]] # 0
    BY DEF JoinFlight, LocalsSet, InFlight
  <1>2. /\ pc' = [pc EXCEPT ![t] = "asleep"] /\ own' = [own EXCEPT ![t] = inflight[call[t]]]
        /\ UNCHANGED <<inflight, flight, artifactCounter, call>>
    BY DEF JoinFlight, fabricVars
  <1>3. \A u \in Threads : u # t => pc'[u] = pc[u] /\ own'[u] = own[u]
    BY <1>2 DEF TypeOK
  <1>4. pc'[t] = "asleep" /\ own'[t] = inflight[call[t]]
    BY <1>2 DEF TypeOK
  <1>5. \A u \in Threads : (pc'[u] \in Owning <=> pc[u] \in Owning) /\ (pc[u] \in Owning => own'[u] = own[u])
    BY <1>1, <1>3, <1>4 DEF Owning
  <1>6. LocalsSet'
    BY <1>1, <1>2, <1>3, <1>4 DEF LocalsSet
  <1>7. CounterCovers'
    BY <1>1, <1>2, <1>3, <1>4 DEF CounterCovers
  <1>8. OwnersRegistered'
    BY <1>2, <1>5 DEF OwnersRegistered
  <1>9. FlightsOwned'
    BY <1>2, <1>5 DEF FlightsOwned, InFlight
  <1>10. NoStrandedWaiter'
    <2> SUFFICES ASSUME NEW u \in Threads, pc'[u] \in Waiting
                 PROVE  IF flight[own'[u]].done THEN pc'[u] = "woken"
                        ELSE \E v \in Threads : pc'[v] \in Owning /\ own'[v] = own'[u]
      BY <1>2 DEF NoStrandedWaiter
    <2>1. CASE u = t
      BY <1>1, <1>4, <1>5, <2>1 DEF FlightsOwned, InFlight
    <2>2. CASE u # t
      BY <1>3, <1>5, <2>2 DEF NoStrandedWaiter
    <2>3. QED
      BY <2>1, <2>2
  <1>11. QED
    BY <1>6, <1>7, <1>8, <1>9, <1>10


\* Every step keeps the inductive invariant of the single flight.
LEMMA FlightInvNext ==
    ASSUME FlightInv, [Next]_vars
    PROVE  FlightInv'
  <1>0. TypeOK' /\ TypeOK /\ LocalsSet /\ artifactCounter \in Nat
    BY TypeOKNext, CoreAssumption DEF FlightInv, TypeOK
  <1> USE <1>0
  <1>1. ASSUME NEW t \in Threads, NEW k \in Keys, Call(t, k) PROVE FlightInv'
    <2>1. LocalsSet'
      BY <1>1 DEF Call, LocalsSet, TypeOK, Owning, Waiting
    <2>2. QED
      BY <1>1, <2>1, QuietKeepsFlightInv DEF Call, fabricVars, TypeOK, Owning, Waiting
  <1>2. ASSUME NEW t \in Threads, PlanRejected(t) \/ CacheHit(t) \/ CacheMiss(t) PROVE FlightInv'
    <2>1. LocalsSet'
      BY <1>2 DEF PlanRejected, CacheHit, CacheMiss, LocalsSet, TypeOK, Owning, Waiting
    <2>2. QED
      BY <1>2, <2>1, QuietKeepsFlightInv DEF PlanRejected, CacheHit, CacheMiss, fabricVars, TypeOK, Owning, Waiting
  <1>3. ASSUME NEW t \in Threads, JoinFlight(t) PROVE FlightInv'
    BY <1>3, JoinKeepsFlightInv
  <1>4. ASSUME NEW t \in Threads, OwnFlight(t) PROVE FlightInv'
    BY <1>4, StartKeepsFlightInv
  <1>5. ASSUME NEW t \in Threads, NEW code \in ErrorCodes, pc[t] \in Owning, FailFlight(t, code) PROVE FlightInv'
    <2>1. own[t] \in Attempts
      BY <1>5, CoreAssumption DEF LocalsSet, TypeOK, Attempts
    <2>2. FailedEntry(flight[own[t]], code) \in InflightEntries
      BY <2>1, EntryTypes DEF TypeOK
    <2>3. FailedEntry(flight[own[t]], code).done
      BY <2>1 DEF FailedEntry, TypeOK, InflightEntries
    <2>4. QED
      BY <1>5, <2>2, <2>3, CompletionKeepsFlightInv DEF FailFlight
  <1>6. ASSUME NEW t \in Threads, BuildFails(t) \/ ValidationFails(t) \/ CommitRejected(t) PROVE FlightInv'
    BY <1>5, <1>6 DEF BuildFails, ValidationFails, CommitRejected, Owning, ErrorCodes
  <1>7. ASSUME NEW t \in Threads, NumberArtifact(t) PROVE FlightInv'
    <2>1. LocalsSet'
      BY <1>7 DEF NumberArtifact, LocalsSet, TypeOK, Owning, Waiting
    <2>2. artifactCounter' >= artifactCounter
      BY <1>7 DEF NumberArtifact
    <2>3. QED
      BY <1>7, <2>1, <2>2, QuietKeepsFlightInv DEF NumberArtifact, TypeOK, Owning, Waiting
  <1>8. ASSUME NEW t \in Threads, ReadGeneration(t) \/ Commit(t) PROVE FlightInv'
    <2>1. LocalsSet'
      BY <1>8 DEF ReadGeneration, Commit, LocalsSet, TypeOK, Owning, Waiting
    <2>2. QED
      BY <1>8, <2>1, QuietKeepsFlightInv DEF ReadGeneration, Commit, fabricVars, TypeOK, Owning, Waiting
  <1>9. ASSUME NEW t \in Threads, CompleteFlight(t) PROVE FlightInv'
    <2>1. pc[t] \in Owning /\ own[t] \in Attempts
      BY <1>9, CoreAssumption DEF CompleteFlight, LocalsSet, TypeOK, Attempts, Owning
    <2>2. SucceededEntry(flight[own[t]], art[t]) \in InflightEntries
      BY <2>1, EntryTypes DEF TypeOK
    <2>3. SucceededEntry(flight[own[t]], art[t]).done
      BY <2>1 DEF SucceededEntry, TypeOK, InflightEntries
    <2>4. QED
      BY <1>9, <2>1, <2>2, <2>3, CompletionKeepsFlightInv DEF CompleteFlight
  <1>10. ASSUME NEW t \in Threads, SpuriousWakeup(t) \/ SleepAgain(t) \/ WaiterReturns(t) PROVE FlightInv'
    <2>1. LocalsSet'
      BY <1>10 DEF SpuriousWakeup, SleepAgain, WaiterReturns, LocalsSet, TypeOK, Owning, Waiting
    <2>2. QED
      BY <1>10, <2>1, QuietKeepsFlightInv
         DEF SpuriousWakeup, SleepAgain, WaiterReturns, fabricVars, TypeOK, Owning, Waiting
  <1>11. ASSUME NEW t \in Threads, Return(t) PROVE FlightInv'
    <2>1. LocalsSet'
      BY <1>11 DEF Return, LocalsSet, TypeOK, Owning, Waiting
    <2>2. QED
      BY <1>11, <2>1, QuietKeepsFlightInv DEF Return, fabricVars, TypeOK, Owning, Waiting
  <1>12. ASSUME NEW t \in Threads, RecoverStep(t) PROVE FlightInv'
    <2>1. LocalsSet'
      BY <1>12 DEF RecoverStep, RecoverScan, RecoverInstall, LocalsSet, TypeOK, Owning, Waiting
    <2>2. QED
      BY <1>12, <2>1, QuietKeepsFlightInv
         DEF RecoverStep, RecoverScan, RecoverInstall, fabricVars, TypeOK, Owning, Waiting
  <1>13. ASSUME UNCHANGED <<inflight, flight, artifactCounter, pc, call, own>> PROVE FlightInv'
    BY <1>13 DEF FlightInv, LocalsSet, CounterCovers, OwnersRegistered, FlightsOwned, NoStrandedWaiter, InFlight
  <1>14. ASSUME InvalidateStep PROVE FlightInv'
    BY <1>13, <1>14 DEF InvalidateStep, InvalidateByKey, InvalidateById, InvalidateByLogicalOperation,
       InvalidateByCompilerGeneration, InvalidateByDependencyGeneration, InvalidateEntries, Supersede, threadVars
  <1>15. ASSUME UNCHANGED vars PROVE FlightInv'
    BY <1>13, <1>15 DEF vars, fabricVars, threadVars
  <1>16. QED
    BY <1>1, <1>2, <1>3, <1>4, <1>6, <1>7, <1>8, <1>9, <1>10, <1>11, <1>12, <1>14, <1>15
       DEF Next, CompileStep, Quiescent

\* A fresh fabric has no flight, so FlightInv holds of it.
LEMMA FlightInvInit == Init => FlightInv
  <1> SUFFICES ASSUME Init PROVE FlightInv
    OBVIOUS
  <1>1. TypeOK
    BY TypeOKInit
  <1>2. QED
    BY <1>1 DEF Init, FlightInv, LocalsSet, CounterCovers, OwnersRegistered, FlightsOwned,
       NoStrandedWaiter, InFlight, Owning, Waiting

\* The inductive invariant holds in every reachable state of compile(), invalidation
\* and recovery.
THEOREM FlightInvariance == Spec => []FlightInv
  <1>1. FlightInv /\ [Next]_vars => FlightInv'
    BY FlightInvNext
  <1>2. QED
    BY <1>1, FlightInvInit, PTL DEF Spec

\* The state of the fabric keeps its types.
THEOREM TypeCorrect == Spec => []TypeOK
  <1>1. FlightInv => TypeOK
    BY DEF FlightInv
  <1>2. QED
    BY <1>1, FlightInvariance, PTL

\* compile() has at most one owner per key at any time, whatever the number of
\* threads and keys and whatever is invalidated or recovered meanwhile.
THEOREM SingleFlightSafe == Spec => []SingleFlight
  <1>1. FlightInv => SingleFlight
    BY DEF FlightInv, OwnersRegistered, SingleFlight
  <1>2. QED
    BY <1>1, FlightInvariance, PTL

\* No waiter sleeps on an entry that is done or that nobody will complete.
THEOREM WaitersAreServed == Spec => []NoStrandedWaiter
  <1>1. FlightInv => NoStrandedWaiter
    BY DEF FlightInv
  <1>2. QED
    BY <1>1, FlightInvariance, PTL

-----------------------------------------------------------------------------
(* What invalidation and the generation authority guarantee.  The theorems *)
(* about the cache's contents are for a fabric without persistence:        *)
(* recover() installs what was stored before an invalidation.              *)


\* The numbers the invariants compare are natural numbers.
LEMMA NaturalNumbers ==
    ASSUME TypeOK
    PROVE  /\ artifactCounter \in Nat /\ cacheGen \in Nat /\ toolchainGen \in Nat
           /\ \A t \in Threads : own[t] \in Nat /\ seen[t] \in Nat /\ art[t].gen \in Nat /\ art[t].born \in Nat
           /\ \A k \in Keys : /\ lastInval[k] \in Nat /\ cache[k].art \in Artifacts
                              /\ cache[k].art.gen \in Nat /\ cache[k].art.born \in Nat
                              /\ cache[k].baseToolchainGen \in Nat
           /\ \A a \in Attempts : flight[a].baseCacheGen \in Nat
  <1>1. artifactCounter \in Nat /\ cacheGen \in Nat /\ toolchainGen \in Nat
    BY CoreAssumption DEF TypeOK
  <1>2. \A t \in Threads : own[t] \in Nat /\ seen[t] \in Nat
    BY CoreAssumption DEF TypeOK
  <1>3. \A t \in Threads : art[t].gen \in Nat /\ art[t].born \in Nat
    BY DEF TypeOK, Artifacts
  <1>4. \A k \in Keys : lastInval[k] \in Nat /\ cache[k].art \in Artifacts /\ cache[k].baseToolchainGen \in Nat
    BY DEF TypeOK, CacheEntries
  <1>5. \A k \in Keys : cache[k].art.gen \in Nat /\ cache[k].art.born \in Nat
    BY <1>4 DEF Artifacts
  <1>6. \A a \in Attempts : flight[a].baseCacheGen \in Nat
    BY DEF TypeOK, InflightEntries
  <1>7. QED
    BY <1>1, <1>2, <1>3, <1>4, <1>5, <1>6

\* An owner's entry is one of the allocated ones, and its key is a key.
LEMMA OwnerFacts ==
    ASSUME FlightInv, NEW t \in Threads, pc[t] \in Owning
    PROVE  own[t] \in Attempts /\ call[t] \in Keys /\ ~flight[own[t]].done
  <1>1. own[t] \in Attempts
    BY CoreAssumption DEF FlightInv, LocalsSet, TypeOK, Attempts
  <1>2. call[t] \in Keys
    BY DEF FlightInv, LocalsSet, Owning
  <1>3. QED
    BY <1>1, <1>2 DEF FlightInv, OwnersRegistered

-----------------------------------------------------------------------------
\* Once an entry is done no step of any thread changes it: what the waiters of a
\* flight return is decided once, by its owner.
THEOREM CompletedFlightsAreFinal == Spec => CompletedFlightIsFinal
  <1>1. ASSUME FlightInv, [Next]_vars, NEW a \in Attempts, flight[a].done
        PROVE  flight'[a] = flight[a]
    <2>1. CASE UNCHANGED flight
      BY <2>1
    <2>2. ASSUME NEW t \in Threads, pc[t] \in Owning, NEW e, flight' = [flight EXCEPT ![own[t]] = e]
          PROVE  flight'[a] = flight[a]
      BY <1>1, <2>2, OwnerFacts DEF FlightInv, TypeOK
    <2>3. ASSUME NEW t \in Threads, OwnFlight(t)
          PROVE  flight'[a] = flight[a]
      <3>1. artifactCounter + 1 \in Attempts /\ artifactCounter \in Nat
        BY <1>1, <2>3, CoreAssumption DEF OwnFlight, StartFlight, FlightInv, TypeOK, Attempts
      <3>2. ~flight[artifactCounter + 1].done
        BY <1>1, <3>1 DEF FlightInv, CounterCovers, Unallocated
      <3>3. QED
        BY <1>1, <2>3, <3>2 DEF OwnFlight, StartFlight, FlightInv, TypeOK
    <2>4. ASSUME NEW t \in Threads, BuildFails(t) \/ ValidationFails(t) \/ CommitRejected(t) \/ CompleteFlight(t)
          PROVE  flight'[a] = flight[a]
      BY <2>2, <2>4 DEF BuildFails, ValidationFails, CommitRejected, CompleteFlight, FailFlight, Owning
    <2>5. QED
      BY <1>1, <2>1, <2>3, <2>4 DEF Next, CompileStep, RecoverStep, InvalidateStep, Quiescent, Call, PlanRejected,
         CacheHit, CacheMiss, JoinFlight, NumberArtifact, ReadGeneration, Commit, SpuriousWakeup, SleepAgain,
         WaiterReturns, Return, RecoverScan, RecoverInstall, InvalidateByKey, InvalidateById,
         InvalidateByLogicalOperation, InvalidateByCompilerGeneration, InvalidateByDependencyGeneration,
         InvalidateEntries, Supersede, vars, fabricVars
  <1>2. FlightInv /\ [Next]_vars => [\A a \in Attempts : flight[a].done => flight'[a] = flight[a]]_vars
    BY <1>1
  <1>3. QED
    BY <1>2, FlightInvariance, PTL DEF Spec, CompletedFlightIsFinal

-----------------------------------------------------------------------------
(* The inductive step of FreshInv, action by action *)

\* Steps that touch neither the cache nor the generations, and start no flight:
\* the thread t moves on, possibly having completed its entry.
LEMMA FreshLocalStep ==
    ASSUME FlightInv, FreshInv, NEW t \in Threads,
           UNCHANGED <<cache, cacheGen, toolchainGen, artifactCounter, lastInval, call, own, art, seen>>,
           \A u \in Threads \ {t} : outcome'[u] = outcome[u] /\ (pc'[u] = pc[u] \/ (pc[u] = "asleep" /\ pc'[u] = "woken")),
           \A u \in Threads : pc'[u] \in Owning => flight'[own[u]].baseCacheGen = flight[own[u]].baseCacheGen,
           \/ /\ pc'[t] = "done"
              /\ outcome'[t].kind \in {"hit", "built"} => outcome'[t].art.born >= seen[t]
           \/ /\ outcome'[t] = outcome[t]
              /\ \/ pc[t] = "planned" /\ pc'[t] = "missed"
                 \/ pc[t] = "asleep" /\ pc'[t] = "woken"
                 \/ pc[t] = "woken" /\ pc'[t] = "asleep"
    PROVE  FreshInv'
  <1>1. \A u \in Threads : \/ pc'[u] = pc[u] /\ outcome'[u] = outcome[u]
                           \/ pc'[u] = "done"
                           \/ pc'[u] \in Waiting /\ pc[u] # "done" /\ outcome'[u] = outcome[u]
                           \/ pc'[u] = "missed" /\ pc[u] = "planned" /\ outcome'[u] = outcome[u]
    BY DEF Waiting
  <1>2. NumbersOrdered'
    BY <1>1 DEF FreshInv, NumbersOrdered, Owning, Waiting
  <1>3. BirthsRecorded'
    BY <1>1 DEF FreshInv, BirthsRecorded, Owning, Waiting
  <1>4. FreshAfterInvalidation'
    BY DEF FreshInv, FreshAfterInvalidation
  <1>5. HitsAndBuildsAreFresh'
    BY DEF FreshInv, HitsAndBuildsAreFresh
  <1>6. \A u \in Threads : pc'[u] # "recovering"
    BY <1>1 DEF FreshInv, Waiting
  <1>7. QED
    BY <1>2, <1>3, <1>4, <1>5, <1>6 DEF FreshInv

\* An owner that completes its entry is a local step.
LEMMA FreshCompletion ==
    ASSUME FlightInv, FreshInv, NEW t \in Threads,
           BuildFails(t) \/ ValidationFails(t) \/ CommitRejected(t) \/ CompleteFlight(t)
    PROVE  FreshInv'
  <1>1. pc[t] \in Owning /\ own[t] \in Attempts
    BY OwnerFacts DEF BuildFails, ValidationFails, CommitRejected, CompleteFlight, Owning
  <1>2. PICK e \in InflightEntries : /\ flight' = [flight EXCEPT ![own[t]] = e]
                                     /\ e.baseCacheGen = flight[own[t]].baseCacheGen
    <2>0. flight[own[t]] \in InflightEntries /\ art[t] \in Artifacts
      BY <1>1 DEF FlightInv, TypeOK
    <2>1. \A code \in ErrorCodes : /\ FailedEntry(flight[own[t]], code) \in InflightEntries
                                   /\ FailedEntry(flight[own[t]], code).baseCacheGen = flight[own[t]].baseCacheGen
      BY <2>0 DEF FailedEntry, InflightEntries
    <2>2. /\ SucceededEntry(flight[own[t]], art[t]) \in InflightEntries
          /\ SucceededEntry(flight[own[t]], art[t]).baseCacheGen = flight[own[t]].baseCacheGen
      BY <2>0 DEF SucceededEntry, InflightEntries
    <2>3. QED
      BY <2>1, <2>2 DEF BuildFails, ValidationFails, CommitRejected, CompleteFlight, FailFlight, ErrorCodes
  <1>3. \A u \in Threads : flight'[own[u]].baseCacheGen = flight[own[u]].baseCacheGen
    BY <1>1, <1>2 DEF FlightInv, TypeOK
  <1>4. pc' = NotifyAll(t)
    BY DEF BuildFails, ValidationFails, CommitRejected, CompleteFlight, FailFlight
  <1>5. pc'[t] = "done" /\ \A u \in Threads \ {t} : pc'[u] = pc[u] \/ (pc[u] = "asleep" /\ pc'[u] = "woken")
    <2>1. \A u \in Threads : pc'[u] = CASE u = t -> "done"
                                       [] u # t /\ pc[u] = "asleep" /\ own[u] = own[t] -> "woken"
                                       [] OTHER -> pc[u]
      BY <1>4 DEF NotifyAll
    <2>2. QED
      BY <2>1
  <1>6. outcome'[t].kind \in {"hit", "built"} => outcome'[t].art.born >= seen[t]
    <2>1. CASE CompleteFlight(t)
      <3>1. outcome'[t].art = art[t]
        BY <2>1 DEF CompleteFlight, Returned, FlightInv, TypeOK
      <3>2. art[t].born = flight[own[t]].baseCacheGen /\ seen[t] <= flight[own[t]].baseCacheGen
        BY <2>1 DEF CompleteFlight, FreshInv, BirthsRecorded, Owning
      <3>3. art[t].born \in Nat /\ seen[t] \in Nat
        BY NaturalNumbers DEF FlightInv
      <3>4. QED
        BY <3>1, <3>2, <3>3
    <2>2. CASE ~CompleteFlight(t)
      BY <2>2 DEF BuildFails, ValidationFails, CommitRejected, FailFlight, Failed, FlightInv, TypeOK
    <2>3. QED
      BY <2>1, <2>2
  <1>7. /\ UNCHANGED <<cache, cacheGen, toolchainGen, artifactCounter, lastInval, call, own, art, seen>>
        /\ \A u \in Threads \ {t} : outcome'[u] = outcome[u]
    BY DEF BuildFails, ValidationFails, CommitRejected, CompleteFlight, FailFlight, historyVars, FlightInv, TypeOK
  <1>8. QED
    BY <1>3, <1>5, <1>6, <1>7, FreshLocalStep

\* Registering an entry: the flight begins now, after everything cached so far.
LEMMA FreshStart ==
    ASSUME FlightInv, FreshInv, NEW t \in Threads, OwnFlight(t)
    PROVE  FreshInv'
  <1> DEFINE a == artifactCounter + 1
  <1>0. call[t] \in Keys /\ pc[t] = "missed"
    BY DEF OwnFlight, FlightInv, LocalsSet
  <1>1. a \in Attempts /\ artifactCounter \in Nat /\ call[t] \in Keys /\ pc[t] = "missed"
    BY <1>0, CoreAssumption DEF OwnFlight, StartFlight, FlightInv, TypeOK, Attempts
  <1>2. /\ UNCHANGED <<cache, cacheGen, toolchainGen, call, art, outcome, lastInval, seen>>
        /\ artifactCounter' = a
    BY DEF OwnFlight, StartFlight, historyVars
  <1>3. /\ pc'[t] = "building" /\ own'[t] = a /\ flight'[a] = NewEntry(t)
        /\ \A u \in Threads \ {t} : pc'[u] = pc[u] /\ own'[u] = own[u]
        /\ \A b \in Attempts \ {a} : flight'[b] = flight[b]
    BY <1>1 DEF OwnFlight, StartFlight, FlightInv, TypeOK
  <1>4. NewEntry(t).baseCacheGen = cacheGen
    BY DEF NewEntry, Unallocated
  <1>5. \A u \in Threads : pc[u] \in Owning => u # t /\ own[u] \in Attempts \ {a}
    BY <1>1, OwnerFacts DEF FlightInv, CounterCovers, Owning, Attempts
  <1>6. NumbersOrdered'
    BY <1>1, <1>2, <1>3, <1>5, NaturalNumbers DEF FreshInv, NumbersOrdered, FlightInv, Owning
  <1>7. BirthsRecorded'
    <2>1. \A u \in Threads : pc'[u] \in Owning /\ u # t => flight'[own'[u]] = flight[own[u]] /\ pc[u] \in Owning
      BY <1>3, <1>5
    <2>2. seen[t] <= cacheGen
      BY <1>1, NaturalNumbers DEF FreshInv, BirthsRecorded, FlightInv
    <2>3. QED
      BY <1>2, <1>3, <1>4, <2>1, <2>2, <1>1 DEF FreshInv, BirthsRecorded, Owning
  <1>8. FreshAfterInvalidation' /\ HitsAndBuildsAreFresh'
    BY <1>2 DEF FreshInv, FreshAfterInvalidation, HitsAndBuildsAreFresh
  <1>9. QED
    BY <1>3, <1>6, <1>7, <1>8 DEF FreshInv

\* Invalidating entries: a hit entry is no longer deployable, the others keep
\* the artifact and the last invalidation they had.
LEMMA FreshInvalidate ==
    ASSUME FlightInv, FreshInv, NEW K, NEW H, InvalidateEntries(K, H), toolchainGen' \in Nat,
           toolchainGen' >= toolchainGen,
           \A k \in Keys : k \in H => k \in K \/ cache[k].state = "Absent"
    PROVE  FreshInv'
  <1> USE NaturalNumbers DEF FlightInv
  <1>1. /\ cacheGen' = cacheGen + 1
        /\ UNCHANGED <<flight, artifactCounter, pc, call, own, art, outcome, seen>>
        /\ \A k \in Keys : lastInval'[k] = IF k \in H THEN cacheGen + 1 ELSE lastInval[k]
    BY DEF InvalidateEntries, threadVars
  <1>2. \A k \in Keys : /\ cache'[k].art = cache[k].art
                        /\ cache'[k].baseToolchainGen = cache[k].baseToolchainGen
                        /\ cache'[k].state = "Deployable" => cache[k].state = "Deployable" /\ k \notin K
    <2> SUFFICES ASSUME NEW k \in Keys
                 PROVE  /\ cache'[k].art = cache[k].art
                        /\ cache'[k].baseToolchainGen = cache[k].baseToolchainGen
                        /\ cache'[k].state = "Deployable" => cache[k].state = "Deployable" /\ k \notin K
      OBVIOUS
    <2>1. cache'[k] = IF k \in K /\ Present(cache[k]) THEN InvalidatedEntry(cache[k]) ELSE cache[k]
      BY DEF InvalidateEntries
    <2>2. cache[k] \in CacheEntries
      BY DEF TypeOK
    <2>3. QED
      BY <2>1, <2>2 DEF Present, InvalidatedEntry, CacheEntries
  <1>3. NumbersOrdered'
    <2>1. \A t \in Threads : pc[t] \in Owning => call[t] \in Keys
      BY OwnerFacts
    <2>2. QED
      BY <1>1, <1>2, <2>1 DEF FreshInv, NumbersOrdered
  <1>4. BirthsRecorded'
    <2>1. \A k \in Keys : lastInval'[k] <= cacheGen' /\ lastInval'[k] >= lastInval[k]
      BY <1>1 DEF FreshInv, BirthsRecorded
    <2>2. \A k \in Keys : cache'[k].baseToolchainGen <= toolchainGen'
      BY <1>2 DEF FreshInv, BirthsRecorded
    <2>3. \A t \in Threads : pc[t] \in {"planned", "missed"} => seen[t] <= lastInval'[call[t]]
      <3> SUFFICES ASSUME NEW t \in Threads, pc[t] \in {"planned", "missed"}
                   PROVE  seen[t] <= lastInval'[call[t]]
        OBVIOUS
      <3>1. call[t] \in Keys
        BY DEF LocalsSet
      <3>2. seen[t] <= lastInval[call[t]]
        BY DEF FreshInv, BirthsRecorded
      <3>3. lastInval'[call[t]] \in Nat
        BY <1>1, <3>1
      <3>4. QED
        BY <2>1, <3>1, <3>2, <3>3
    <2>4. QED
      BY <1>1, <2>1, <2>2, <2>3 DEF FreshInv, BirthsRecorded
  <1>5. FreshAfterInvalidation'
    BY <1>1, <1>2 DEF FreshInv, FreshAfterInvalidation
  <1>6. HitsAndBuildsAreFresh'
    BY <1>1 DEF FreshInv, HitsAndBuildsAreFresh
  <1>7. QED
    BY <1>1, <1>3, <1>4, <1>5, <1>6 DEF FreshInv

\* The other steps that write the cache, or an artifact under construction.
LEMMA FreshCommit ==
    ASSUME FlightInv, FreshInv, NEW t \in Threads, Commit(t)
    PROVE  FreshInv'
  <1> USE NaturalNumbers DEF FlightInv
  <1>1. pc[t] = "validating" /\ call[t] \in Keys /\ own[t] \in Attempts /\ Authority(flight[own[t]])
    BY OwnerFacts DEF Commit, Owning
  <1>2. /\ UNCHANGED <<flight, cacheGen, toolchainGen, artifactCounter, call, own, art, outcome, lastInval, seen>>
        /\ pc'[t] = "committed" /\ \A u \in Threads \ {t} : pc'[u] = pc[u]
    BY DEF Commit, TypeOK
  <1>3. /\ cache'[call[t]] = DeployableEntry(art[t])
        /\ \A k \in Keys \ {call[t]} : cache'[k] = cache[k]
    BY <1>1 DEF Commit, TypeOK
  <1>4. /\ DeployableEntry(art[t]).art = art[t] /\ DeployableEntry(art[t]).baseToolchainGen = toolchainGen
    BY DEF DeployableEntry
  <1>5. \A u \in Threads \ {t} : pc[u] \in Owning => call[u] \in Keys \ {call[t]}
    BY <1>1, OwnerFacts DEF OwnersRegistered, Owning
  <1>6. NumbersOrdered'
    <2>1. \A k \in Keys : cache'[k].art.gen <= artifactCounter
      BY <1>1, <1>3, <1>4 DEF FreshInv, NumbersOrdered
    <2>2. QED
      BY <1>2, <1>3, <1>5, <2>1 DEF FreshInv, NumbersOrdered, Owning
  <1>7. BirthsRecorded'
    <2>1. \A k \in Keys : cache'[k].baseToolchainGen <= toolchainGen
      BY <1>3, <1>4 DEF FreshInv, BirthsRecorded
    <2>2. QED
      BY <1>1, <1>2, <2>1 DEF FreshInv, BirthsRecorded, Owning
  <1>8. FreshAfterInvalidation'
    <2>1. art[t].born = cacheGen
      BY <1>1 DEF FreshInv, BirthsRecorded, Authority, Owning
    <2>2. art[t].born >= lastInval[call[t]]
      BY <1>1, <2>1 DEF FreshInv, BirthsRecorded
    <2>3. QED
      BY <1>2, <1>3, <1>4, <2>2 DEF FreshInv, FreshAfterInvalidation
  <1>9. HitsAndBuildsAreFresh'
    BY <1>2 DEF FreshInv, HitsAndBuildsAreFresh
  <1>10. QED
    BY <1>2, <1>6, <1>7, <1>8, <1>9 DEF FreshInv

\* Drawing an id and reading the generation: both lie above the number the flight began
\* with, and the artifact records the cache generation of its flight.
LEMMA FreshNumber ==
    ASSUME FlightInv, FreshInv, NEW t \in Threads, NumberArtifact(t) \/ ReadGeneration(t)
    PROVE  FreshInv'
  <1> USE NaturalNumbers DEF FlightInv
  <1>1. pc[t] \in {"building", "numbered"} /\ own[t] \in Attempts
    BY OwnerFacts DEF NumberArtifact, ReadGeneration, Owning
  <1>2. /\ UNCHANGED <<cache, flight, cacheGen, toolchainGen, call, own, outcome, lastInval, seen>>
        /\ \A u \in Threads \ {t} : pc'[u] = pc[u] /\ art'[u] = art[u]
        /\ artifactCounter' \in Nat /\ artifactCounter' >= artifactCounter
    BY DEF NumberArtifact, ReadGeneration, fabricVars, historyVars, TypeOK
  <1>3. CASE NumberArtifact(t)
    <2>1. /\ pc[t] = "building" /\ pc'[t] = "numbered" /\ artifactCounter' = artifactCounter + 1
          /\ art'[t].born = flight[own[t]].baseCacheGen
      BY <1>3 DEF NumberArtifact, TypeOK
    <2>2. own[t] < artifactCounter'
      BY <2>1 DEF CounterCovers
    <2>3. NumbersOrdered'
      BY <1>2, <2>1, <2>2 DEF FreshInv, NumbersOrdered, Owning
    <2>4. BirthsRecorded'
      BY <1>2, <2>1 DEF FreshInv, BirthsRecorded, Owning
    <2>5. QED
      BY <1>2, <2>1, <2>3, <2>4 DEF FreshInv, FreshAfterInvalidation, HitsAndBuildsAreFresh
  <1>4. CASE ReadGeneration(t)
    <2>1. /\ pc[t] = "numbered" /\ pc'[t] = "validating" /\ artifactCounter' = artifactCounter
      BY <1>4 DEF ReadGeneration, fabricVars, TypeOK
    <2>2. art'[t].gen = artifactCounter /\ art'[t].born = art[t].born
      BY <1>4 DEF ReadGeneration, TypeOK, Artifacts
    <2>3. NumbersOrdered'
      BY <1>2, <2>1, <2>2 DEF FreshInv, NumbersOrdered, Owning
    <2>4. BirthsRecorded'
      BY <1>2, <2>1, <2>2 DEF FreshInv, BirthsRecorded, Owning
    <2>5. QED
      BY <1>2, <2>1, <2>3, <2>4 DEF FreshInv, FreshAfterInvalidation, HitsAndBuildsAreFresh
  <1>5. QED
    BY <1>3, <1>4

\* A call that begins, joins a flight or returns to its caller.
LEMMA FreshCallJoinReturn ==
    ASSUME FlightInv, FreshInv, NEW t \in Threads,
           (\E k \in Keys : Call(t, k)) \/ JoinFlight(t) \/ Return(t)
    PROVE  FreshInv'
  <1> USE NaturalNumbers DEF FlightInv
  <1>1. /\ UNCHANGED <<cache, flight, cacheGen, toolchainGen, artifactCounter, lastInval>>
        /\ \A u \in Threads \ {t} : /\ pc'[u] = pc[u] /\ call'[u] = call[u] /\ own'[u] = own[u]
                                    /\ art'[u] = art[u] /\ outcome'[u] = outcome[u] /\ seen'[u] = seen[u]
    BY DEF Call, JoinFlight, Return, fabricVars, historyVars, TypeOK
  <1>2. pc'[t] \in {"planned", "asleep", "idle"}
    BY DEF Call, JoinFlight, Return, TypeOK
  <1>3. pc'[t] = "planned" => call'[t] \in Keys /\ seen'[t] = lastInval[call'[t]]
    BY DEF Call, JoinFlight, Return, TypeOK
  <1>4. outcome'[t].kind = "none"
    <2>1. CASE Return(t)
      BY <2>1 DEF Return, NoOutcome, TypeOK
    <2>2. CASE ~Return(t)
      BY <2>2 DEF Call, JoinFlight, FreshInv, BirthsRecorded
    <2>3. QED
      BY <2>1, <2>2
  <1>5. NumbersOrdered'
    BY <1>1, <1>2 DEF FreshInv, NumbersOrdered, Owning
  <1>6. BirthsRecorded'
    <2>1. pc'[t] = "planned" => seen'[t] <= lastInval'[call'[t]]
      BY <1>1, <1>3
    <2>2. QED
      BY <1>1, <1>2, <1>4, <2>1 DEF FreshInv, BirthsRecorded, Owning
  <1>7. FreshAfterInvalidation' /\ HitsAndBuildsAreFresh'
    BY <1>1, <1>4 DEF FreshInv, FreshAfterInvalidation, HitsAndBuildsAreFresh
  <1>8. QED
    BY <1>1, <1>2, <1>5, <1>6, <1>7 DEF FreshInv

\* supersede() changes states only: no artifact, number or generation moves.
LEMMA FreshSupersede ==
    ASSUME FlightInv, FreshInv, NEW id \in Attempts, NEW newGen \in 1..(MaxCounter + 1), Supersede(id, newGen)
    PROVE  FreshInv'
  <1>1. \A k \in Keys : /\ cache'[k].art = cache[k].art
                        /\ cache'[k].baseToolchainGen = cache[k].baseToolchainGen
                        /\ cache'[k].state = "Deployable" => cache[k].state = "Deployable"
    <2> SUFFICES ASSUME NEW k \in Keys
                 PROVE  /\ cache'[k].art = cache[k].art
                        /\ cache'[k].baseToolchainGen = cache[k].baseToolchainGen
                        /\ cache'[k].state = "Deployable" => cache[k].state = "Deployable"
      OBVIOUS
    <2>1. cache'[k] = SupersededEntry(cache[k]) \/ cache'[k] = cache[k]
      BY DEF Supersede
    <2>2. cache[k] \in CacheEntries
      BY DEF FlightInv, TypeOK
    <2>3. QED
      BY <2>1, <2>2 DEF SupersededEntry, CacheEntries
  <1>2. UNCHANGED <<flight, cacheGen, toolchainGen, artifactCounter, pc, call, own, art, outcome, lastInval, seen>>
    BY DEF Supersede, threadVars, historyVars
  <1>3. \A t \in Threads : pc[t] \in Owning => call[t] \in Keys
    BY OwnerFacts
  <1>4. QED
    BY <1>1, <1>2, <1>3 DEF FreshInv, NumbersOrdered, BirthsRecorded, FreshAfterInvalidation, HitsAndBuildsAreFresh

\* Every step of a fabric without persistence keeps FreshInv.
LEMMA FreshInvNext ==
    ASSUME ~PersistenceEnabled, FlightInv, FreshInv, [Next]_vars
    PROVE  FreshInv'
  <1>1. ASSUME NEW t \in Threads, PlanRejected(t) \/ CacheHit(t) \/ CacheMiss(t) PROVE FreshInv'
    <2>1. pc[t] = "planned" /\ call[t] \in Keys
      BY <1>1 DEF PlanRejected, CacheHit, CacheMiss, FlightInv, LocalsSet
    <2>2. /\ UNCHANGED <<cache, cacheGen, toolchainGen, artifactCounter, lastInval, call, own, art, seen, flight>>
          /\ \A u \in Threads \ {t} : outcome'[u] = outcome[u] /\ pc'[u] = pc[u]
      BY <1>1 DEF PlanRejected, CacheHit, CacheMiss, fabricVars, historyVars, FlightInv, TypeOK
    <2>3. CASE PlanRejected(t)
      BY <2>2, <2>3, FreshLocalStep DEF PlanRejected, Failed, FlightInv, TypeOK
    <2>4. CASE CacheHit(t)
      <3>1. pc'[t] = "done" /\ outcome'[t].art = cache[call[t]].art /\ cache[call[t]].state = "Deployable"
        BY <2>4 DEF CacheHit, Returned, ServesFastPath, FlightInv, TypeOK
      <3>2. cache[call[t]].art.born >= lastInval[call[t]] /\ seen[t] <= lastInval[call[t]]
        BY <2>1, <3>1 DEF FreshInv, FreshAfterInvalidation, BirthsRecorded
      <3>3. outcome'[t].art.born >= seen[t]
        BY <2>1, <3>1, <3>2, NaturalNumbers DEF FlightInv
      <3>4. QED
        BY <2>2, <3>1, <3>3, FreshLocalStep
    <2>5. CASE CacheMiss(t)
      BY <2>1, <2>2, <2>5, FreshLocalStep DEF CacheMiss, FlightInv, TypeOK
    <2>6. QED
      BY <1>1, <2>3, <2>4, <2>5
  <1>2. ASSUME NEW t \in Threads, SpuriousWakeup(t) \/ SleepAgain(t) PROVE FreshInv'
    BY <1>2, FreshLocalStep DEF SpuriousWakeup, SleepAgain, fabricVars, historyVars, FlightInv, TypeOK
  <1>3. ASSUME NEW t \in Threads, WaiterReturns(t) PROVE FreshInv'
    <2>1. outcome'[t].kind \in {"joined", "failed"} /\ pc'[t] = "done"
      BY <1>3 DEF WaiterReturns, Returned, Failed, FlightInv, TypeOK
    <2>2. /\ UNCHANGED <<cache, cacheGen, toolchainGen, artifactCounter, lastInval, call, own, art, seen, flight>>
          /\ \A u \in Threads \ {t} : outcome'[u] = outcome[u] /\ pc'[u] = pc[u]
      BY <1>3 DEF WaiterReturns, fabricVars, historyVars, FlightInv, TypeOK
    <2>3. QED
      BY <2>1, <2>2, FreshLocalStep
  <1>4. ASSUME NEW t \in Threads, RecoverStep(t) PROVE FreshInv'
    BY <1>4 DEF RecoverStep, RecoverScan, RecoverInstall, FreshInv
  <1>5. ASSUME InvalidateStep PROVE FreshInv'
    <2>0. toolchainGen \in Nat /\ toolchainGen + 1 \in Nat
      BY NaturalNumbers DEF FlightInv
    <2>1. ASSUME NEW k \in Keys, InvalidateByKey(k) PROVE FreshInv'
      BY <2>0, <2>1, FreshInvalidate DEF InvalidateByKey
    <2>2. ASSUME NEW id \in Attempts, InvalidateById(id) PROVE FreshInv'
      BY <2>0, <2>2, FreshInvalidate DEF InvalidateById
    <2>3. ASSUME NEW op \in Ops, InvalidateByLogicalOperation(op) PROVE FreshInv'
      BY <2>0, <2>3, FreshInvalidate DEF InvalidateByLogicalOperation
    <2>4. ASSUME NEW gen \in 1..MaxGen, InvalidateByCompilerGeneration(gen) PROVE FreshInv'
      <3> DEFINE K == {k \in Keys : Present(cache[k]) /\ cache[k].baseToolchainGen <= gen}
                 H == IF toolchainGen <= gen THEN Keys ELSE K
      <3>1. InvalidateEntries(K, H) /\ toolchainGen' = toolchainGen + 1
        BY <2>4 DEF InvalidateByCompilerGeneration
      <3>2. \A k \in Keys : k \in H => k \in K \/ cache[k].state = "Absent"
        <4> SUFFICES ASSUME NEW k \in Keys, toolchainGen <= gen, cache[k].state # "Absent"
                     PROVE  cache[k].baseToolchainGen <= gen
          BY DEF Present
        <4>1. cache[k].baseToolchainGen <= toolchainGen
          BY DEF FreshInv, BirthsRecorded
        <4>2. gen \in Nat
          BY CoreAssumption
        <4>3. QED
          BY <4>1, <4>2, NaturalNumbers DEF FlightInv
      <3>3. toolchainGen' >= toolchainGen /\ toolchainGen' \in Nat
        BY <2>0, <3>1
      <3> HIDE DEF K, H
      <3>4. QED
        BY <3>1, <3>2, <3>3, FreshInvalidate
    <2>5. ASSUME InvalidateByDependencyGeneration PROVE FreshInv'
      BY <2>0, <2>5, FreshInvalidate DEF InvalidateByDependencyGeneration
    <2>6. QED
      BY <1>5, <2>1, <2>2, <2>3, <2>4, <2>5, FreshSupersede DEF InvalidateStep
  <1>6. ASSUME UNCHANGED vars PROVE FreshInv'
    BY <1>6 DEF vars, fabricVars, threadVars, historyVars, FreshInv, NumbersOrdered, BirthsRecorded,
       FreshAfterInvalidation, HitsAndBuildsAreFresh
  <1>7. QED
    BY <1>1, <1>2, <1>3, <1>4, <1>5, <1>6, FreshCompletion, FreshStart, FreshCommit, FreshNumber,
       FreshCallJoinReturn DEF Next, CompileStep, Quiescent

\* An empty cache is fresh.
LEMMA FreshInvInit == Init => FreshInv
  BY DEF Init, FreshInv, NumbersOrdered, BirthsRecorded, FreshAfterInvalidation, HitsAndBuildsAreFresh,
     Owning, NoEntry, NoArtifact, NoOutcome

-----------------------------------------------------------------------------
\* FreshInv holds in every reachable state of a fabric that never recovers.
LEMMA FreshInvariance == ASSUME ~PersistenceEnabled PROVE Spec => []FreshInv
  <1>1. FlightInv /\ FreshInv /\ [Next]_vars => FreshInv'
    BY FreshInvNext
  <1>2. QED
    BY <1>1, FreshInvInit, FlightInvariance, PTL DEF Spec

\* An artifact whose build began before an invalidation that hit its key is never
\* left deployable in the cache: invalidation marks what is cached, and the
\* generation check at commit keeps out what was still being built.
THEOREM CacheIsFresh == ASSUME ~PersistenceEnabled PROVE Spec => []FreshAfterInvalidation
  <1>1. FreshInv => FreshAfterInvalidation
    BY DEF FreshInv
  <1>2. QED
    BY <1>1, FreshInvariance, PTL

\* A compile() that is answered from the cache, or that builds itself, never
\* returns an artifact begun before an invalidation that preceded the call.
THEOREM CallersGetFreshArtifacts == ASSUME ~PersistenceEnabled PROVE Spec => []HitsAndBuildsAreFresh
  <1>1. FreshInv => HitsAndBuildsAreFresh
    BY DEF FreshInv
  <1>2. QED
    BY <1>1, FreshInvariance, PTL

\* The artifact cached for a key is replaced only by one of a higher generation,
\* although id and generation are drawn from a counter that all keys share in two
\* separate reads.
THEOREM CachedGenerationsGrow == ASSUME ~PersistenceEnabled PROVE Spec => GenerationsGrow
  <1>1. ASSUME FlightInv, FreshInv, [Next]_vars, NEW k \in Keys, cache'[k].art # cache[k].art
        PROVE  cache'[k].art.gen > cache[k].art.gen
    <2>1. ASSUME NEW t \in Threads, Commit(t)
          PROVE  cache'[k].art.gen > cache[k].art.gen
      <3>1. pc[t] = "validating" /\ call[t] \in Keys /\ own[t] \in Attempts
        BY <1>1, <2>1, OwnerFacts DEF Commit, Owning
      <3>2. k = call[t] /\ cache'[k].art = art[t]
        BY <1>1, <2>1, <3>1 DEF Commit, DeployableEntry, FlightInv, TypeOK
      <3>3. cache[k].art.gen < own[t] /\ own[t] < art[t].gen
        BY <1>1, <3>1, <3>2 DEF FreshInv, NumbersOrdered, Owning
      <3>4. QED
        BY <1>1, <3>1, <3>2, <3>3, NaturalNumbers DEF FlightInv
    <2>2. ASSUME NEW K, NEW H, InvalidateEntries(K, H) PROVE FALSE
      <3>1. cache'[k] = InvalidatedEntry(cache[k]) \/ cache'[k] = cache[k]
        BY <2>2 DEF InvalidateEntries
      <3>2. cache[k] \in CacheEntries
        BY <1>1 DEF FlightInv, TypeOK
      <3>3. QED
        BY <1>1, <3>1, <3>2 DEF InvalidatedEntry, CacheEntries
    <2>3. ASSUME NEW id \in Attempts, NEW newGen \in 1..(MaxCounter + 1), Supersede(id, newGen) PROVE FALSE
      <3>1. cache'[k] = SupersededEntry(cache[k]) \/ cache'[k] = cache[k]
        BY <2>3 DEF Supersede
      <3>2. cache[k] \in CacheEntries
        BY <1>1 DEF FlightInv, TypeOK
      <3>3. QED
        BY <1>1, <3>1, <3>2 DEF SupersededEntry, CacheEntries
    <2>4. ASSUME NEW t \in Threads, RecoverStep(t) PROVE FALSE
      BY <1>1, <2>4 DEF RecoverStep, RecoverScan, RecoverInstall, FreshInv
    <2>5. CASE UNCHANGED cache
      BY <1>1, <2>5
    <2>6. InvalidateStep => FALSE
      BY <2>2, <2>3 DEF InvalidateStep, InvalidateByKey, InvalidateById, InvalidateByLogicalOperation,
         InvalidateByCompilerGeneration, InvalidateByDependencyGeneration
    <2>7. QED
      BY <1>1, <2>1, <2>4, <2>5, <2>6 DEF Next, CompileStep, Quiescent, Call, PlanRejected, CacheHit, CacheMiss,
         JoinFlight, OwnFlight, StartFlight, BuildFails, ValidationFails, CommitRejected, FailFlight, CompleteFlight,
         NumberArtifact, ReadGeneration, SpuriousWakeup, SleepAgain, WaiterReturns, Return, vars, fabricVars
  <1>2. FlightInv /\ FreshInv /\ [Next]_vars =>
          [\A k \in Keys : cache'[k].art # cache[k].art => cache'[k].art.gen > cache[k].art.gen]_vars
    BY <1>1
  <1>3. QED
    BY <1>2, FlightInvariance, FreshInvariance, PTL DEF Spec, GenerationsGrow

=============================================================================
