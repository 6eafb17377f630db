----------------------- MODULE FabricRefinementProofs -----------------------
(***************************************************************************)
(* FabricCore implements CompileService, and an artifact id names one key: *)
(* for any threads and keys, with or without persistence and recovery.     *)
(***************************************************************************)
EXTENDS FabricRefinement, FabricCoreProofs

-----------------------------------------------------------------------------
(* Frames *)

\* Whatever one thread may do next, in compile() or in recover().
ThreadStep(t) == CompileStep(t) \/ SpuriousWakeup(t) \/ RecoverStep(t) \/ \E k \in Keys : Call(t, k)

\* A step of thread t leaves the locals of another thread alone, but may wake it.
LEMMA ThreadsSeparate ==
    ASSUME TypeOK, NEW t \in Threads, NEW u \in Threads, u # t, ThreadStep(t)
    PROVE  /\ call'[u] = call[u] /\ own'[u] = own[u] /\ art'[u] = art[u]
           /\ scan'[u] = scan[u] /\ outcome'[u] = outcome[u]
           /\ pc'[u] = pc[u] \/ (pc[u] = "asleep" /\ pc'[u] = "woken")
  <1>1. CASE SpuriousWakeup(t) \/ RecoverStep(t) \/ \E k \in Keys : Call(t, k)
    BY <1>1 DEF SpuriousWakeup, RecoverStep, RecoverScan, RecoverInstall, Call, TypeOK
  <1>2. CASE PlanRejected(t) \/ CacheHit(t) \/ CacheMiss(t) \/ JoinFlight(t) \/ OwnFlight(t)
    BY <1>2 DEF PlanRejected, CacheHit, CacheMiss, JoinFlight, OwnFlight, StartFlight, TypeOK
  <1>3. CASE BuildFails(t) \/ ValidationFails(t) \/ CommitRejected(t) \/ CompleteFlight(t)
    BY <1>3 DEF BuildFails, ValidationFails, CommitRejected, FailFlight, CompleteFlight, NotifyAll, TypeOK
  <1>4. CASE NumberArtifact(t) \/ ReadGeneration(t) \/ Commit(t)
    BY <1>4 DEF NumberArtifact, ReadGeneration, Commit, TypeOK
  <1>5. CASE SleepAgain(t) \/ WaiterReturns(t) \/ Return(t)
    BY <1>5 DEF SleepAgain, WaiterReturns, Return, TypeOK
  <1>6. QED
    BY <1>1, <1>2, <1>3, <1>4, <1>5 DEF ThreadStep, CompileStep

\* Invalidation and supersession only change what is said of cached artifacts.
LEMMA InvalidateFrame ==
    ASSUME TypeOK, InvalidateStep
    PROVE  /\ UNCHANGED <<inflight, flight, artifactCounter, disk, threadVars, published>>
           /\ \A k \in Keys : /\ cache'[k].art = cache[k].art
                              /\ Present(cache'[k]) <=> Present(cache[k])
  <1>1. \A k \in Keys : cache[k] \in CacheEntries
    BY DEF TypeOK
  <1>2. ASSUME NEW K, NEW H, InvalidateEntries(K, H)
        PROVE  /\ UNCHANGED <<inflight, flight, artifactCounter, disk, threadVars, published>>
               /\ \A k \in Keys : /\ cache'[k].art = cache[k].art
                                  /\ Present(cache'[k]) <=> Present(cache[k])
    BY <1>1, <1>2 DEF InvalidateEntries, InvalidatedEntry, Present, CacheEntries
  <1>3. ASSUME NEW id \in Attempts, NEW newGen \in 1..(MaxCounter + 1), Supersede(id, newGen)
        PROVE  /\ UNCHANGED <<inflight, flight, artifactCounter, disk, threadVars, published>>
               /\ \A k \in Keys : /\ cache'[k].art = cache[k].art
                                  /\ Present(cache'[k]) <=> Present(cache[k])
    BY <1>1, <1>3 DEF Supersede, SupersededEntry, Present, CacheEntries, historyVars
  <1>4. QED
    BY <1>2, <1>3 DEF InvalidateStep, InvalidateByKey, InvalidateById, InvalidateByLogicalOperation,
       InvalidateByCompilerGeneration, InvalidateByDependencyGeneration

\* Only Commit publishes, only it and recovery write the cache, only OwnFlight registers
\* an entry, and only it and NumberArtifact draw a number.
LEMMA SharedFrame ==
    ASSUME NEW t \in Threads, ThreadStep(t)
    PROVE  /\ ~Commit(t) => UNCHANGED <<published, disk>>
           /\ ~(Commit(t) \/ RecoverInstall(t)) => cache' = cache
           /\ ~OwnFlight(t) => inflight' = inflight
           /\ ~(OwnFlight(t) \/ NumberArtifact(t)) => artifactCounter' = artifactCounter
  <1> USE DEF fabricVars, historyVars
  <1>1. CASE SpuriousWakeup(t) \/ RecoverStep(t) \/ \E k \in Keys : Call(t, k)
    BY <1>1 DEF SpuriousWakeup, RecoverStep, RecoverScan, RecoverInstall, Call
  <1>2. CASE PlanRejected(t) \/ CacheHit(t) \/ CacheMiss(t) \/ JoinFlight(t) \/ OwnFlight(t)
    BY <1>2 DEF PlanRejected, CacheHit, CacheMiss, JoinFlight, OwnFlight, StartFlight
  <1>3. CASE BuildFails(t) \/ ValidationFails(t) \/ CommitRejected(t) \/ CompleteFlight(t)
    BY <1>3 DEF BuildFails, ValidationFails, CommitRejected, FailFlight, CompleteFlight
  <1>4. CASE NumberArtifact(t) \/ ReadGeneration(t) \/ Commit(t)
    BY <1>4 DEF NumberArtifact, ReadGeneration, Commit
  <1>5. CASE SleepAgain(t) \/ WaiterReturns(t) \/ Return(t)
    BY <1>5 DEF SleepAgain, WaiterReturns, Return
  <1>6. QED
    BY <1>1, <1>2, <1>3, <1>4, <1>5 DEF ThreadStep, CompileStep

\* What a step does to the position, the key and the entry of its own thread.
LEMMA OwnPositions ==
    ASSUME TypeOK, NEW t \in Threads, ThreadStep(t)
    PROVE  /\ pc'[t] \in Owning => OwnFlight(t) \/ NumberArtifact(t) \/ ReadGeneration(t) \/ Commit(t)
           /\ pc'[t] \in Waiting => JoinFlight(t) \/ SpuriousWakeup(t) \/ SleepAgain(t)
           /\ NumberArtifact(t) => pc[t] = "building" /\ pc'[t] = "numbered" /\ call' = call /\ own' = own
           /\ ReadGeneration(t) => /\ pc[t] = "numbered" /\ pc'[t] = "validating" /\ call' = call /\ own' = own
                                   /\ art'[t].id = art[t].id
           /\ Commit(t) => pc[t] = "validating" /\ pc'[t] = "committed" /\ call' = call /\ own' = own /\ art' = art
           /\ OwnFlight(t) => pc[t] = "missed" /\ pc'[t] = "building" /\ call' = call
           /\ SpuriousWakeup(t) \/ SleepAgain(t) => pc[t] \in Waiting /\ call' = call /\ own' = own
  <1>1. /\ NumberArtifact(t) => pc[t] = "building" /\ pc'[t] = "numbered" /\ call' = call /\ own' = own
        /\ Commit(t) => pc[t] = "validating" /\ pc'[t] = "committed" /\ call' = call /\ own' = own /\ art' = art
        /\ OwnFlight(t) => pc[t] = "missed" /\ pc'[t] = "building" /\ call' = call
        /\ SpuriousWakeup(t) \/ SleepAgain(t) => pc[t] \in Waiting /\ call' = call /\ own' = own
    BY DEF NumberArtifact, Commit, OwnFlight, StartFlight, SpuriousWakeup, SleepAgain, TypeOK, Waiting
  <1>2. ReadGeneration(t) => /\ pc[t] = "numbered" /\ pc'[t] = "validating" /\ call' = call /\ own' = own
                             /\ art'[t].id = art[t].id
    BY DEF ReadGeneration, TypeOK, Artifacts
  <1>3. ASSUME ~(OwnFlight(t) \/ NumberArtifact(t) \/ ReadGeneration(t) \/ Commit(t)) PROVE pc'[t] \notin Owning
    <2>1. CASE SpuriousWakeup(t) \/ RecoverStep(t) \/ \E k \in Keys : Call(t, k)
      BY <2>1 DEF SpuriousWakeup, RecoverStep, RecoverScan, RecoverInstall, Call, TypeOK, Owning
    <2>2. CASE PlanRejected(t) \/ CacheHit(t) \/ CacheMiss(t) \/ JoinFlight(t)
      BY <2>2 DEF PlanRejected, CacheHit, CacheMiss, JoinFlight, TypeOK, Owning
    <2>3. CASE BuildFails(t) \/ ValidationFails(t) \/ CommitRejected(t) \/ CompleteFlight(t)
      BY <2>3 DEF BuildFails, ValidationFails, CommitRejected, FailFlight, CompleteFlight, NotifyAll, TypeOK, Owning
    <2>4. CASE SleepAgain(t) \/ WaiterReturns(t) \/ Return(t)
      BY <2>4 DEF SleepAgain, WaiterReturns, Return, TypeOK, Owning
    <2>5. QED
      BY <1>3, <2>1, <2>2, <2>3, <2>4 DEF ThreadStep, CompileStep
  <1>4. ASSUME ~(JoinFlight(t) \/ SpuriousWakeup(t) \/ SleepAgain(t)) PROVE pc'[t] \notin Waiting
    <2>1. CASE RecoverStep(t) \/ \E k \in Keys : Call(t, k)
      BY <2>1 DEF RecoverStep, RecoverScan, RecoverInstall, Call, TypeOK, Waiting
    <2>2. CASE PlanRejected(t) \/ CacheHit(t) \/ CacheMiss(t) \/ OwnFlight(t)
      BY <2>2 DEF PlanRejected, CacheHit, CacheMiss, OwnFlight, StartFlight, TypeOK, Waiting
    <2>3. CASE BuildFails(t) \/ ValidationFails(t) \/ CommitRejected(t) \/ CompleteFlight(t)
      BY <2>3 DEF BuildFails, ValidationFails, CommitRejected, FailFlight, CompleteFlight, NotifyAll, TypeOK, Waiting
    <2>4. CASE NumberArtifact(t) \/ ReadGeneration(t) \/ Commit(t) \/ WaiterReturns(t) \/ Return(t)
      BY <2>4 DEF NumberArtifact, ReadGeneration, Commit, WaiterReturns, Return, TypeOK, Waiting
    <2>5. QED
      BY <1>4, <2>1, <2>2, <2>3, <2>4 DEF ThreadStep, CompileStep
  <1>5. QED
    BY <1>1, <1>2, <1>3, <1>4

-----------------------------------------------------------------------------
(* Identities *)

\* Ids and numbers are natural numbers, and a record is its key and its artifact.
LEMMA IdTypes ==
    ASSUME TypeOK
    PROVE  /\ artifactCounter \in Nat
           /\ \A t \in Threads : own[t] \in Nat /\ art[t].id \in Nat
           /\ \A r \in published : r.key \in Keys /\ r.art.id \in Nat
           /\ \A r \in PersistedRecords : r.key \in Keys /\ r = [key |-> r.key, art |-> r.art]
           /\ \A k \in Keys, a \in Artifacts : [key |-> k, art |-> a] \in PersistedRecords
  <1>1. artifactCounter \in Nat /\ \A t \in Threads : own[t] \in Nat
    BY CoreAssumption DEF TypeOK
  <1>2. \A t \in Threads : art[t].id \in Nat
    BY DEF TypeOK, Artifacts
  <1>3. \A r \in published : r.key \in Keys /\ r.art \in Artifacts
    BY DEF TypeOK, PersistedRecords
  <1>4. \A r \in published : r.key \in Keys /\ r.art.id \in Nat
    BY <1>3 DEF Artifacts
  <1>5. \A r \in PersistedRecords : r.key \in Keys /\ r = [key |-> r.key, art |-> r.art]
    BY DEF PersistedRecords
  <1>6. \A k \in Keys, a \in Artifacts : [key |-> k, art |-> a] \in PersistedRecords
    BY DEF PersistedRecords
  <1>7. QED
    BY <1>1, <1>2, <1>4, <1>5, <1>6

\* What Commit adds to the published records.
LEMMA CommitPublishes ==
    ASSUME FlightInv, NEW t \in Threads, Commit(t)
    PROVE  /\ call[t] \in Keys /\ art[t] \in Artifacts
           /\ published' = published \cup {[key |-> call[t], art |-> art[t]]}
           /\ \A r \in published' : r \in published \/ (r.key = call[t] /\ r.art = art[t])
           /\ cache' = [cache EXCEPT ![call[t]] = DeployableEntry(art[t])]
           /\ disk \subseteq published => disk' \subseteq published'
  <1>1. call[t] \in Keys /\ art[t] \in Artifacts
    BY DEF Commit, FlightInv, LocalsSet, TypeOK
  <1>2. /\ published' = published \cup {[key |-> call[t], art |-> art[t]]}
        /\ cache' = [cache EXCEPT ![call[t]] = DeployableEntry(art[t])]
    BY DEF Commit
  <1>3. disk' \subseteq disk \cup {[key |-> call[t], art |-> art[t]]}
    BY DEF Commit, Stored
  <1>4. QED
    BY <1>1, <1>2, <1>3

\* A published id stays one number of one key.
LEMMA NumberedStep ==
    ASSUME FlightInv, IdentityInv, NEW t \in Threads, ThreadStep(t)
    PROVE  PublishedNumbered'
  <1> USE DEF FlightInv, IdentityInv
  <1>1. CASE Commit(t)
    <2>1. artifactCounter' = artifactCounter /\ pc[t] = "validating"
      BY <1>1 DEF Commit
    <2>2. own[t] < art[t].id /\ art[t].id <= artifactCounter /\ \A r \in published : r.art.id # art[t].id
      BY <2>1 DEF DrawnIdsUnique
    <2>3. QED
      BY <1>1, <2>1, <2>2, CommitPublishes, IdTypes DEF PublishedNumbered
  <1>2. CASE ~Commit(t)
    <2>1. published' = published
      BY <1>2, SharedFrame
    <2>2. artifactCounter' \in Nat /\ artifactCounter' >= artifactCounter
      BY IdTypes, SharedFrame DEF OwnFlight, StartFlight, NumberArtifact
    <2>3. QED
      BY <2>1, <2>2, IdTypes DEF PublishedNumbered
  <1>3. QED
    BY <1>1, <1>2

\* Two threads never hold the same new id, and a new id is after all the ids that
\* its key has published.
LEMMA DrawnStep ==
    ASSUME FlightInv, IdentityInv, NEW t \in Threads, ThreadStep(t)
    PROVE  DrawnIdsUnique'
  <1> USE DEF FlightInv, IdentityInv
  <1> DEFINE Drawn(u) == pc[u] \in {"numbered", "validating"}
             Open(u) == pc[u] \in Owning \ {"committed"}
  <1>1. /\ \A u \in Threads : Drawn(u) =>
              /\ own[u] < art[u].id /\ art[u].id <= artifactCounter
              /\ \A r \in published : r.art.id # art[u].id
              /\ \A v \in Threads : Drawn(v) /\ art[v].id = art[u].id => v = u
        /\ \A u \in Threads : Open(u) => \A r \in published : r.key = call[u] => r.art.id < own[u]
    BY DEF DrawnIdsUnique
  <1>2. \A u \in Threads : u # t => /\ call'[u] = call[u] /\ own'[u] = own[u] /\ art'[u] = art[u]
                                    /\ pc'[u] = pc[u] \/ (pc[u] = "asleep" /\ pc'[u] = "woken")
    BY ThreadsSeparate
  <1>3. \A u \in Threads : u # t => (Drawn(u)' => Drawn(u)) /\ (Open(u)' => Open(u))
    BY <1>2 DEF Owning
  <1>4. artifactCounter' \in Nat /\ artifactCounter' >= artifactCounter
    BY IdTypes, SharedFrame DEF OwnFlight, StartFlight, NumberArtifact
  <1>5. CASE Commit(t)
    <2>1. pc[t] = "validating" /\ pc'[t] = "committed"
      BY <1>5 DEF Commit, TypeOK
    <2>2. \A u \in Threads : u # t /\ Open(u) => call[u] # call[t]
      BY <2>1 DEF OwnersRegistered, Owning
    <2>3. \A r \in published' : r \in published \/ (r.key = call[t] /\ r.art = art[t])
      BY <1>5, CommitPublishes
    <2>4. ASSUME NEW u \in Threads, Drawn(u)'
          PROVE  /\ own'[u] < art'[u].id /\ art'[u].id <= artifactCounter'
                 /\ \A r \in published' : r.art.id # art'[u].id
                 /\ \A v \in Threads : Drawn(v)' /\ art'[v].id = art'[u].id => v = u
      <3>1. u # t /\ Drawn(u) /\ art'[u] = art[u] /\ own'[u] = own[u]
        BY <1>2, <1>3, <2>1, <2>4
      <3>2. art[t].id # art[u].id
        BY <1>1, <2>1, <3>1
      <3>3. \A v \in Threads : Drawn(v)' => v # t /\ Drawn(v) /\ art'[v] = art[v]
        BY <1>2, <1>3, <2>1
      <3>4. own'[u] < art'[u].id /\ art'[u].id <= artifactCounter'
        BY <1>1, <1>4, <3>1, IdTypes
      <3>5. QED
        BY <1>1, <2>3, <3>1, <3>2, <3>3, <3>4
    <2>5. ASSUME NEW u \in Threads, Open(u)', NEW r \in published', r.key = call'[u] PROVE r.art.id < own'[u]
      <3>1. u # t /\ Open(u)
        BY <1>3, <2>1, <2>5
      <3>2. QED
        BY <1>1, <1>2, <2>2, <2>3, <2>5, <3>1
    <2>6. QED
      BY <2>4, <2>5 DEF DrawnIdsUnique
  <1>6. CASE NumberArtifact(t)
    <2>1. /\ pc[t] = "building" /\ pc'[t] = "numbered" /\ own'[t] = own[t] /\ call'[t] = call[t]
          /\ art'[t].id = artifactCounter + 1 /\ artifactCounter' = artifactCounter + 1 /\ published' = published
      BY <1>6 DEF NumberArtifact, TypeOK, historyVars
    <2>2. own[t] <= artifactCounter /\ \A r \in published : r.art.id <= artifactCounter
      BY DEF CounterCovers, PublishedNumbered
    <2>3. Open(t)
      BY <2>1 DEF Owning
    <2>4. ASSUME NEW u \in Threads, Drawn(u)'
          PROVE  /\ own'[u] < art'[u].id /\ art'[u].id <= artifactCounter'
                 /\ \A r \in published' : r.art.id # art'[u].id
      BY <1>1, <1>2, <1>3, <2>1, <2>2, <2>4, IdTypes
    <2>5. ASSUME NEW u \in Threads, Drawn(u)', NEW v \in Threads, Drawn(v)', art'[v].id = art'[u].id PROVE v = u
      BY <1>1, <1>2, <1>3, <2>1, <2>5, IdTypes
    <2>6. ASSUME NEW u \in Threads, Open(u)', NEW r \in published', r.key = call'[u] PROVE r.art.id < own'[u]
      BY <1>1, <1>2, <1>3, <2>1, <2>3, <2>6
    <2>7. QED
      BY <2>4, <2>5, <2>6 DEF DrawnIdsUnique
  <1>7. CASE OwnFlight(t)
    <2>1. pc'[t] = "building" /\ own'[t] = artifactCounter + 1 /\ published' = published
      BY <1>7 DEF OwnFlight, StartFlight, TypeOK, historyVars
    <2>2. \A r \in published : r.art.id <= artifactCounter
      BY DEF PublishedNumbered
    <2>3. ASSUME NEW u \in Threads, Drawn(u)'
          PROVE  /\ own'[u] < art'[u].id /\ art'[u].id <= artifactCounter'
                 /\ \A r \in published' : r.art.id # art'[u].id
                 /\ \A v \in Threads : Drawn(v)' /\ art'[v].id = art'[u].id => v = u
      BY <1>1, <1>2, <1>3, <1>4, <2>1, <2>3, IdTypes
    <2>4. ASSUME NEW u \in Threads, Open(u)', NEW r \in published', r.key = call'[u] PROVE r.art.id < own'[u]
      BY <1>1, <1>2, <1>3, <2>1, <2>2, <2>4, IdTypes
    <2>5. QED
      BY <2>3, <2>4 DEF DrawnIdsUnique
  <1>8. CASE ~(Commit(t) \/ NumberArtifact(t) \/ OwnFlight(t))
    <2>1. published' = published
      BY <1>8, SharedFrame
    <2>2. Open(t)' => Open(t) /\ own'[t] = own[t] /\ call'[t] = call[t]
      BY <1>8, OwnPositions DEF Owning
    <2>3. Drawn(t)' => Drawn(t) /\ own'[t] = own[t] /\ art'[t].id = art[t].id
      BY <1>8, OwnPositions DEF Owning
    <2>4. ASSUME NEW u \in Threads, Drawn(u)'
          PROVE  /\ own'[u] < art'[u].id /\ art'[u].id <= artifactCounter'
                 /\ \A r \in published' : r.art.id # art'[u].id
                 /\ \A v \in Threads : Drawn(v)' /\ art'[v].id = art'[u].id => v = u
      BY <1>1, <1>2, <1>3, <1>4, <2>1, <2>3, <2>4, IdTypes
    <2>5. ASSUME NEW u \in Threads, Open(u)', NEW r \in published', r.key = call'[u] PROVE r.art.id < own'[u]
      BY <1>1, <1>2, <1>3, <2>1, <2>2, <2>5
    <2>6. QED
      BY <2>4, <2>5 DEF DrawnIdsUnique
  <1>9. QED
    BY <1>5, <1>6, <1>7, <1>8

\* An entry stays registered for one key, and joined only by threads that ask for it.
LEMMA FlightsStep ==
    ASSUME FlightInv, IdentityInv, NEW t \in Threads, ThreadStep(t)
    PROVE  FlightsOfOneKey'
  <1> USE DEF FlightInv, IdentityInv
  <1>1. \A u \in Threads : u # t => /\ call'[u] = call[u] /\ own'[u] = own[u]
                                    /\ pc'[u] \in Waiting => pc[u] \in Waiting
                                    /\ pc'[u] \in Owning => pc[u] \in Owning
    BY ThreadsSeparate DEF Waiting, Owning
  <1>2. /\ \A k, j \in Keys : inflight[k] # 0 /\ inflight[k] = inflight[j] => k = j
        /\ \A v, u \in Threads : pc[v] \in Waiting /\ pc[u] \in Owning /\ own[v] = own[u] => call[v] = call[u]
    BY DEF FlightsOfOneKey
  <1>3. /\ \A u \in Threads : own[u] <= artifactCounter
        /\ \A k \in Keys : inflight[k] \in Nat /\ inflight[k] <= artifactCounter
    BY CoreAssumption DEF CounterCovers, TypeOK
  <1>4. CASE OwnFlight(t)
    <2>1. /\ pc'[t] = "building" /\ own'[t] = artifactCounter + 1
          /\ inflight' = [inflight EXCEPT ![call[t]] = artifactCounter + 1]
      BY <1>4 DEF OwnFlight, StartFlight, TypeOK
    <2>2. \A k, j \in Keys : inflight'[k] # 0 /\ inflight'[k] = inflight'[j] => k = j
      BY <1>2, <1>3, <2>1, IdTypes DEF TypeOK
    <2>3. pc'[t] \notin Waiting
      BY <2>1 DEF Waiting
    <2>4. ASSUME NEW v \in Threads, NEW u \in Threads, pc'[v] \in Waiting, pc'[u] \in Owning, own'[v] = own'[u]
          PROVE  call'[v] = call'[u]
      BY <1>1, <1>2, <1>3, <2>1, <2>3, <2>4, IdTypes
    <2>5. QED
      BY <2>2, <2>4 DEF FlightsOfOneKey
  <1>5. CASE JoinFlight(t)
    <2>1. /\ pc'[t] = "asleep" /\ own'[t] = inflight[call[t]] /\ call' = call /\ inflight' = inflight
          /\ call[t] \in Keys /\ inflight[call[t]] # 0
      BY <1>5 DEF JoinFlight, InFlight, LocalsSet, TypeOK, fabricVars
    <2>2. pc'[t] \notin Owning
      BY <2>1 DEF Owning
    <2>3. \A u \in Threads : pc[u] \in Owning => call[u] \in Keys /\ inflight[call[u]] = own[u]
      BY OwnerFacts DEF OwnersRegistered
    <2>4. ASSUME NEW v \in Threads, NEW u \in Threads, pc'[v] \in Waiting, pc'[u] \in Owning, own'[v] = own'[u]
          PROVE  call'[v] = call'[u]
      <3>1. u # t /\ pc[u] \in Owning /\ own'[u] = own[u]
        BY <1>1, <2>2, <2>4
      <3>2. CASE v = t
        BY <1>2, <2>1, <2>3, <2>4, <3>1, <3>2
      <3>3. CASE v # t
        BY <1>1, <1>2, <2>4, <3>1, <3>3
      <3>4. QED
        BY <3>2, <3>3
    <2>5. QED
      BY <1>2, <2>1, <2>4 DEF FlightsOfOneKey
  <1>6. CASE ~(OwnFlight(t) \/ JoinFlight(t))
    <2>1. inflight' = inflight
      BY <1>6, SharedFrame
    <2>2. /\ pc'[t] \in Waiting => pc[t] \in Waiting /\ call'[t] = call[t] /\ own'[t] = own[t]
          /\ pc'[t] \in Owning => pc[t] \in Owning /\ call'[t] = call[t] /\ own'[t] = own[t]
      BY <1>6, OwnPositions DEF Owning
    <2>3. QED
      BY <1>1, <1>2, <2>1, <2>2 DEF FlightsOfOneKey
  <1>7. QED
    BY <1>4, <1>5, <1>6

\* What was published for a key stays so.
LEMMA PublishedStays ==
    ASSUME FlightInv, NEW t \in Threads, ThreadStep(t)
    PROVE  published \subseteq published'
  BY SharedFrame, CommitPublishes

\* Completing an entry and giving it a number are all that happens to entries.
LEMMA EntryFrame ==
    ASSUME FlightInv, NEW t \in Threads, ThreadStep(t)
    PROVE  \/ flight' = flight
           \/ /\ OwnFlight(t) /\ artifactCounter + 1 \in Attempts
              /\ flight' = [flight EXCEPT ![artifactCounter + 1] = NewEntry(t)]
           \/ /\ pc[t] \in Owning /\ pc'[t] = "done"
              /\ \E code \in ErrorCodes : flight' = [flight EXCEPT ![own[t]] = FailedEntry(@, code)]
           \/ /\ pc[t] = "committed" /\ pc'[t] = "done"
              /\ flight' = [flight EXCEPT ![own[t]] = SucceededEntry(@, art[t])]
  <1> USE DEF fabricVars, FlightInv
  <1>1. CASE SpuriousWakeup(t) \/ RecoverStep(t) \/ \E k \in Keys : Call(t, k)
    BY <1>1 DEF SpuriousWakeup, RecoverStep, RecoverScan, RecoverInstall, Call
  <1>2. CASE PlanRejected(t) \/ CacheHit(t) \/ CacheMiss(t) \/ JoinFlight(t)
    BY <1>2 DEF PlanRejected, CacheHit, CacheMiss, JoinFlight
  <1>3. CASE OwnFlight(t)
    BY <1>3, IdTypes, CoreAssumption DEF OwnFlight, StartFlight, Attempts
  <1>4. CASE BuildFails(t) \/ ValidationFails(t) \/ CommitRejected(t)
    BY <1>4 DEF BuildFails, ValidationFails, CommitRejected, FailFlight, NotifyAll, Owning, ErrorCodes
  <1>5. CASE CompleteFlight(t)
    BY <1>5 DEF CompleteFlight, NotifyAll
  <1>6. CASE NumberArtifact(t) \/ ReadGeneration(t) \/ Commit(t)
    BY <1>6 DEF NumberArtifact, ReadGeneration, Commit
  <1>7. CASE SleepAgain(t) \/ WaiterReturns(t) \/ Return(t)
    BY <1>7 DEF SleepAgain, WaiterReturns, Return
  <1>8. QED
    BY <1>1, <1>2, <1>3, <1>4, <1>5, <1>6, <1>7 DEF ThreadStep, CompileStep

\* Wherever the next caller may find an artifact, it was published for that key.
LEMMA SourcesStep ==
    ASSUME FlightInv, TypeOK', IdentityInv, NEW t \in Threads, ThreadStep(t)
    PROVE  SourcesPublished'
  <1> USE DEF FlightInv, IdentityInv
  <1>0. published \subseteq published'
    BY PublishedStays
  <1>1. ASSUME NEW k, NEW a, Made(k, a) PROVE Made(k, a)'
    BY <1>0, <1>1 DEF Made
  <1>2. ASSUME NEW k \in Keys PROVE (IF Present(cache[k]) THEN Made(k, cache[k].art) ELSE cache[k].art = NoArtifact)'
    <2>1. IF Present(cache[k]) THEN Made(k, cache[k].art) ELSE cache[k].art = NoArtifact
      BY DEF SourcesPublished
    <2>2. CASE cache'[k] = cache[k]
      BY <1>0, <2>1, <2>2 DEF Made
    <2>3. CASE Commit(t)
      <3>1. CASE k = call[t]
        <4>1. cache'[k] = DeployableEntry(art[t])
          BY <2>3, <3>1, CommitPublishes DEF TypeOK
        <4>2. [key |-> k, art |-> art[t]] \in published'
          BY <2>3, <3>1, CommitPublishes
        <4>3. QED
          BY <4>1, <4>2 DEF DeployableEntry, Present, Made
      <3>2. CASE k # call[t]
        BY <2>2, <2>3, <3>2, CommitPublishes DEF TypeOK
      <3>3. QED
        BY <3>1, <3>2
    <2>4. CASE RecoverInstall(t)
      <3>1. PICK last \in [{r.key : r \in scan[t]} -> scan[t]] :
              /\ \A j \in {r.key : r \in scan[t]} : last[j].key = j
              /\ cache' = [j \in Keys |-> IF j \in {r.key : r \in scan[t]}
                                          THEN DeployableEntry(last[j].art) ELSE cache[j]]
        BY <2>4 DEF RecoverInstall
      <3>2. CASE k \in {r.key : r \in scan[t]}
        <4>1. cache'[k] = DeployableEntry(last[k].art) /\ last[k] \in scan[t] /\ last[k].key = k
          BY <3>1, <3>2
        <4>2. last[k] \in published /\ last[k] \in PersistedRecords
          BY <4>1 DEF SourcesPublished, TypeOK
        <4>3. [key |-> k, art |-> last[k].art] \in published'
          BY <1>0, <4>1, <4>2, IdTypes
        <4>4. QED
          BY <4>1, <4>3 DEF DeployableEntry, Present, Made
      <3>3. CASE k \notin {r.key : r \in scan[t]}
        BY <2>2, <3>1, <3>3
      <3>4. QED
        BY <3>2, <3>3
    <2>5. CASE ~(Commit(t) \/ RecoverInstall(t))
      BY <2>2, <2>5, SharedFrame
    <2>6. QED
      BY <2>3, <2>4, <2>5
  <1>3. disk' \subseteq published'
    BY SharedFrame, CommitPublishes DEF SourcesPublished
  <1>4. ASSUME NEW u \in Threads PROVE scan'[u] \subseteq published'
    <2>1. scan'[u] \in {scan[u], disk, {}}
      <3>1. CASE u # t
        BY <3>1, ThreadsSeparate
      <3>2. CASE RecoverStep(t)
        BY <3>2 DEF RecoverStep, RecoverScan, RecoverInstall, TypeOK
      <3>3. CASE ~RecoverStep(t)
        BY <3>3 DEF ThreadStep, SpuriousWakeup, Call, CompileStep, PlanRejected, CacheHit, CacheMiss, JoinFlight,
           OwnFlight, StartFlight, BuildFails, ValidationFails, CommitRejected, FailFlight, CompleteFlight,
           NumberArtifact, ReadGeneration, Commit, SleepAgain, WaiterReturns, Return
      <3>4. QED
        BY <3>1, <3>2, <3>3
    <2>2. QED
      BY <1>0, <2>1 DEF SourcesPublished
  <1>5. ASSUME NEW u \in Threads, pc'[u] = "committed" PROVE Made(call[u], art[u])'
    <2>1. CASE Commit(t) /\ u = t
      BY <2>1, CommitPublishes, OwnPositions DEF Made
    <2>2. CASE ~(Commit(t) /\ u = t)
      <3>1. u # t
        BY <1>5, <2>2, OwnPositions DEF Owning
      <3>2. pc[u] = "committed" /\ call'[u] = call[u] /\ art'[u] = art[u]
        BY <1>5, <3>1, ThreadsSeparate
      <3>3. QED
        BY <1>0, <3>2 DEF SourcesPublished, Made
    <2>3. QED
      BY <2>1, <2>2
  <1> DEFINE Final(a) == flight[a].success => flight[a].done
             Kept(u) == pc[u] \in Waiting /\ flight[own[u]].success => Made(call[u], flight[own[u]].result)
  <1>6. (\A a \in Attempts : Final(a)) /\ \A u \in Threads : Kept(u)
    BY DEF SourcesPublished
  <1>7. \A a \in Attempts : flight[a] \in InflightEntries
    BY DEF TypeOK
  <1>8. ASSUME NEW a \in Attempts PROVE Final(a)'
    <2>1. CASE flight'[a] = flight[a]
      BY <1>6, <2>1
    <2>2. CASE flight'[a] = NewEntry(t)
      BY <2>2 DEF NewEntry, Unallocated
    <2>3. ASSUME NEW code \in ErrorCodes, flight'[a] = FailedEntry(flight[a], code) PROVE Final(a)'
      BY <1>7, <2>3 DEF FailedEntry, InflightEntries
    <2>4. CASE flight'[a] = SucceededEntry(flight[a], art[t])
      BY <1>7, <2>4 DEF SucceededEntry, InflightEntries
    <2>5. QED
      BY <2>1, <2>2, <2>3, <2>4, EntryFrame DEF TypeOK
  <1>9. ASSUME NEW u \in Threads, pc'[u] \in Waiting, flight'[own'[u]].success
        PROVE  Made(call[u], flight[own[u]].result)'
    <2>1. CASE JoinFlight(t) /\ u = t
      <3>1. /\ flight' = flight /\ own'[u] = inflight[call[u]] /\ ~flight[inflight[call[u]]].done
            /\ call[u] \in Keys /\ inflight[call[u]] # 0
        BY <2>1 DEF JoinFlight, InFlight, LocalsSet, TypeOK, fabricVars
      <3>2. inflight[call[u]] \in Attempts
        BY <3>1, CoreAssumption DEF TypeOK, Attempts
      <3>3. QED
        BY <1>6, <1>9, <3>1, <3>2
    <2>2. CASE ~(JoinFlight(t) /\ u = t)
      <3>1. pc[u] \in Waiting /\ own'[u] = own[u] /\ call'[u] = call[u]
        BY <1>9, <2>2, OwnPositions, ThreadsSeparate DEF Waiting
      <3>2. own[u] \in Attempts /\ own[u] # artifactCounter + 1
        <4>1. own[u] \in 0..MaxCounter /\ own[u] # 0 /\ own[u] <= artifactCounter
          BY <3>1 DEF LocalsSet, CounterCovers, TypeOK
        <4>2. QED
          BY <4>1, CoreAssumption, IdTypes DEF Attempts
      <3>3. CASE flight'[own[u]] = flight[own[u]]
        BY <1>0, <1>6, <1>9, <3>1, <3>3 DEF Made
      <3>4. CASE flight'[own[u]] # flight[own[u]]
        <4>1. /\ pc[t] \in Owning /\ own[t] = own[u] /\ u # t
              /\ \/ \E code \in ErrorCodes : flight'[own[u]] = FailedEntry(flight[own[u]], code)
                 \/ pc[t] = "committed" /\ flight'[own[u]] = SucceededEntry(flight[own[u]], art[t])
          BY <3>1, <3>2, <3>4, EntryFrame DEF TypeOK, Owning, Waiting
        <4>2. call[u] = call[t] /\ ~flight[own[u]].success
          BY <1>6, <3>1, <3>2, <4>1 DEF FlightsOfOneKey, OwnersRegistered
        <4>3. ASSUME NEW code \in ErrorCodes, flight'[own[u]] = FailedEntry(flight[own[u]], code) PROVE FALSE
          BY <1>7, <1>9, <3>1, <3>2, <4>2, <4>3 DEF FailedEntry, InflightEntries
        <4>4. pc[t] = "committed" /\ flight'[own[u]].result = art[t]
          BY <1>7, <3>2, <4>1, <4>3 DEF SucceededEntry, InflightEntries
        <4>5. Made(call[t], art[t])
          BY <4>4 DEF SourcesPublished
        <4>6. QED
          BY <1>0, <3>1, <4>2, <4>4, <4>5 DEF Made
      <3>5. QED
        BY <3>3, <3>4
    <2>3. QED
      BY <2>1, <2>2
  <1>10. QED
    BY <1>2, <1>3, <1>4, <1>5, <1>8, <1>9 DEF SourcesPublished

\* A call's outcome, once it is there, names what was published for its key.
LEMMA OutcomesStep ==
    ASSUME FlightInv, IdentityInv, NEW t \in Threads, ThreadStep(t)
    PROVE  OutcomesPublished'
  <1> USE DEF FlightInv, IdentityInv
  <1> DEFINE Named(u) == IF outcome[u].kind \in {"none", "failed"} THEN outcome[u].art = NoArtifact
                                                                   ELSE Made(call[u], outcome[u].art)
             Marked(u) == /\ pc[u] \in {"idle", "recovering"} => call[u] = NoKey
                          /\ outcome[u].kind = "none" <=> pc[u] # "done"
  <1>0. published \subseteq published'
    BY PublishedStays
  <1>1. \A u \in Threads : Marked(u) /\ Named(u)
    BY DEF OutcomesPublished
  <1>2. ASSUME NEW u \in Threads, u # t PROVE Marked(u)' /\ Named(u)'
    BY <1>0, <1>1, <1>2, ThreadsSeparate DEF Made
  <1>3. CASE PlanRejected(t) \/ BuildFails(t) \/ ValidationFails(t) \/ CommitRejected(t)
    <2>1. PICK code \in ErrorCodes : outcome'[t] = Failed(code) /\ pc'[t] = "done"
      BY <1>3 DEF PlanRejected, BuildFails, ValidationFails, CommitRejected, FailFlight, NotifyAll, TypeOK, ErrorCodes
    <2>2. QED
      BY <1>2, <2>1 DEF Failed, OutcomesPublished
  <1>4. ASSUME NEW kind \in {"hit", "built", "joined"}, NEW a,
               pc'[t] = "done", outcome'[t] = Returned(kind, a), call'[t] = call[t], Made(call[t], a)
        PROVE  OutcomesPublished'
    <2>1. Marked(t)' /\ Named(t)'
      BY <1>0, <1>4 DEF Returned, Made
    <2>2. QED
      BY <1>2, <2>1 DEF OutcomesPublished
  <1>5. CASE CacheHit(t)
    <2>1. /\ pc'[t] = "done" /\ outcome'[t] = Returned("hit", cache[call[t]].art) /\ call'[t] = call[t]
          /\ call[t] \in Keys /\ Present(cache[call[t]])
      BY <1>5 DEF CacheHit, ServesFastPath, Present, LocalsSet, TypeOK
    <2>2. Made(call[t], cache[call[t]].art)
      BY <2>1 DEF SourcesPublished
    <2>3. QED
      BY <1>4, <2>1, <2>2
  <1>6. CASE CompleteFlight(t)
    <2>1. /\ pc'[t] = "done" /\ outcome'[t] = Returned("built", art[t]) /\ call'[t] = call[t]
          /\ pc[t] = "committed"
      BY <1>6 DEF CompleteFlight, NotifyAll, TypeOK
    <2>2. Made(call[t], art[t])
      BY <2>1 DEF SourcesPublished
    <2>3. QED
      BY <1>4, <2>1, <2>2
  <1>7. CASE WaiterReturns(t)
    <2>1. pc[t] \in Waiting /\ pc'[t] = "done" /\ call'[t] = call[t]
      BY <1>7 DEF WaiterReturns, TypeOK, Waiting
    <2>2. CASE flight[own[t]].success
      <3>1. outcome'[t] = Returned("joined", flight[own[t]].result)
        BY <1>7, <2>2 DEF WaiterReturns, TypeOK
      <3>2. Made(call[t], flight[own[t]].result)
        BY <2>1, <2>2 DEF SourcesPublished
      <3>3. QED
        BY <1>4, <2>1, <3>1, <3>2
    <2>3. CASE ~flight[own[t]].success
      <3>1. outcome'[t] = Failed(flight[own[t]].failure)
        BY <1>7, <2>3 DEF WaiterReturns, TypeOK
      <3>2. Marked(t)' /\ Named(t)'
        BY <2>1, <3>1 DEF Failed
      <3>3. QED
        BY <1>2, <3>2 DEF OutcomesPublished
    <2>4. QED
      BY <2>2, <2>3
  <1>8. CASE Return(t)
    <2>1. pc'[t] = "idle" /\ outcome'[t] = NoOutcome /\ call'[t] = NoKey
      BY <1>8 DEF Return, TypeOK
    <2>2. Marked(t)' /\ Named(t)'
      BY <2>1 DEF NoOutcome
    <2>3. QED
      BY <1>2, <2>2 DEF OutcomesPublished
  <1>9. ASSUME outcome'[t] = outcome[t], pc[t] # "done", pc'[t] # "done",
               pc'[t] \in {"idle", "recovering"} => pc[t] \in {"idle", "recovering"} /\ call'[t] = call[t]
        PROVE  OutcomesPublished'
    <2>1. outcome[t].kind = "none" /\ outcome[t].art = NoArtifact
      BY <1>1, <1>9
    <2>2. Marked(t)' /\ Named(t)'
      BY <1>1, <1>9, <2>1
    <2>3. QED
      BY <1>2, <2>2 DEF OutcomesPublished
  <1>10. CASE SpuriousWakeup(t) \/ RecoverStep(t) \/ (\E k \in Keys : Call(t, k)) \/ CacheMiss(t) \/ JoinFlight(t)
    BY <1>9, <1>10 DEF SpuriousWakeup, RecoverStep, RecoverScan, RecoverInstall, Call, CacheMiss, JoinFlight, TypeOK
  <1>11. CASE OwnFlight(t) \/ NumberArtifact(t) \/ ReadGeneration(t) \/ Commit(t) \/ SleepAgain(t)
    BY <1>9, <1>11 DEF OwnFlight, StartFlight, NumberArtifact, ReadGeneration, Commit, SleepAgain, TypeOK
  <1>12. QED
    BY <1>3, <1>5, <1>6, <1>7, <1>8, <1>10, <1>11 DEF ThreadStep, CompileStep

\* A fabric that has just started has published nothing.
LEMMA IdentityInit == Init => IdentityInv
  <1> SUFFICES ASSUME Init PROVE IdentityInv
    OBVIOUS
  <1>1. PublishedNumbered /\ DrawnIdsUnique /\ FlightsOfOneKey
    BY DEF Init, PublishedNumbered, DrawnIdsUnique, FlightsOfOneKey, Owning, Waiting
  <1>2. SourcesPublished
    BY DEF Init, SourcesPublished, Present, NoEntry, Unallocated, Waiting
  <1>3. OutcomesPublished
    BY DEF Init, OutcomesPublished, NoOutcome
  <1>4. QED
    BY <1>1, <1>2, <1>3 DEF IdentityInv

\* Every step of every thread, and every invalidation, keeps identities in order.
LEMMA IdentityNext ==
    ASSUME FlightInv, IdentityInv, [Next]_vars
    PROVE  IdentityInv'
  <1>1. TypeOK /\ TypeOK'
    BY TypeOKNext DEF FlightInv
  <1>2. ASSUME NEW t \in Threads, ThreadStep(t) PROVE IdentityInv'
    BY <1>1, <1>2, NumberedStep, DrawnStep, FlightsStep, SourcesStep, OutcomesStep DEF IdentityInv
  <1>3. ASSUME UNCHANGED <<inflight, flight, artifactCounter, disk, threadVars, published>>,
               \A k \in Keys : cache'[k].art = cache[k].art /\ (Present(cache'[k]) <=> Present(cache[k]))
        PROVE  IdentityInv'
    <2>1. PublishedNumbered' /\ DrawnIdsUnique' /\ FlightsOfOneKey' /\ OutcomesPublished'
      BY <1>3 DEF IdentityInv, PublishedNumbered, DrawnIdsUnique, FlightsOfOneKey, OutcomesPublished, Made, threadVars
    <2>2. SourcesPublished'
      BY <1>3 DEF IdentityInv, SourcesPublished, Made, threadVars
    <2>3. QED
      BY <2>1, <2>2 DEF IdentityInv
  <1>4. CASE InvalidateStep
    BY <1>1, <1>3, <1>4, InvalidateFrame
  <1>5. CASE UNCHANGED vars
    BY <1>3, <1>5 DEF vars, fabricVars, historyVars
  <1>6. QED
    BY <1>2, <1>4, <1>5 DEF Next, Quiescent, ThreadStep

\* The identity invariant holds with any persistence setting, recoveries included.
THEOREM IdentityInvariance == Spec => []IdentityInv
  <1>1. FlightInv /\ IdentityInv /\ [Next]_vars => IdentityInv'
    BY IdentityNext
  <1>2. QED
    BY <1>1, IdentityInit, FlightInvariance, PTL DEF Spec

\* In one process an artifact id is never found under two keys, and no cached entry of
\* another key carries the id a compile() returned.
THEOREM IdsAreOfOneKey == Spec => []IdsNameOneKey
  <1>1. ASSUME TypeOK, IdentityInv PROVE IdsNameOneKey
    <2> USE DEF IdentityInv
    <2>1. ASSUME NEW k, NEW a, Made(k, a) PROVE a.id # 0
      BY <1>1, <2>1 DEF PublishedNumbered, Made
    <2>2. ASSUME NEW k, NEW a, NEW j, NEW b, Made(k, a), Made(j, b), a.id = b.id PROVE k = j
      BY <1>1, <2>2 DEF PublishedNumbered, Made
    <2>3. ASSUME NEW k \in Keys, cache[k].art.id # 0 PROVE Made(k, cache[k].art)
      BY <1>1, <2>3 DEF SourcesPublished, NoArtifact
    <2>4. ASSUME NEW k \in Keys, NEW j \in Keys, Present(cache[k]), cache[k].art.id = cache[j].art.id PROVE k = j
      <3>1. Made(k, cache[k].art)
        BY <1>1, <2>4 DEF SourcesPublished
      <3>2. Made(j, cache[j].art)
        BY <2>1, <2>3, <2>4, <3>1
      <3>3. QED
        BY <2>2, <2>4, <3>1, <3>2
    <2>5. ASSUME NEW t \in Threads, NEW k \in Keys, outcome[t].art # NoArtifact, cache[k].art.id = outcome[t].art.id
          PROVE  k = call[t]
      <3>1. Made(call[t], outcome[t].art)
        BY <1>1, <2>5 DEF OutcomesPublished
      <3>2. Made(k, cache[k].art)
        BY <2>1, <2>3, <2>5, <3>1
      <3>3. QED
        BY <2>2, <2>5, <3>1, <3>2
    <2>6. QED
      BY <2>4, <2>5 DEF IdsNameOneKey
  <1>2. QED
    BY <1>1, TypeCorrect, IdentityInvariance, PTL

-----------------------------------------------------------------------------
(* Refinement *)

\* The service's builder of a key is the thread of the fabric that owns its flight.
BuildersOwn ==
    \A k \in Keys :
        \/ Builder(k) = NoThread /\ \A u \in Threads : ~(pc[u] \in Owning /\ call[u] = k)
        \/ Builder(k) \in Threads /\ \A u \in Threads : u = Builder(k) <=> pc[u] \in Owning /\ call[u] = k

\* The builder is determined by the threads' positions and keys.
LEMMA BuildersAreOwners == FlightInv /\ IdentityInv => BuildersOwn
  <1> SUFFICES ASSUME FlightInv, IdentityInv, NEW k \in Keys
               PROVE  \/ Builder(k) = NoThread /\ \A u \in Threads : ~(pc[u] \in Owning /\ call[u] = k)
                      \/ Builder(k) \in Threads /\ \A u \in Threads : u = Builder(k) <=> pc[u] \in Owning /\ call[u] = k
    BY DEF BuildersOwn
  <1> USE DEF FlightInv, IdentityInv
  <1>1. ASSUME NEW u \in Threads, pc[u] \in Owning, call[u] = k PROVE InFlight(k) /\ Builder(k) = u
    <2>1. inflight[k] = own[u] /\ flight[own[u]].owner = u /\ ~flight[own[u]].done /\ own[u] # 0
      BY <1>1 DEF OwnersRegistered, LocalsSet
    <2>2. QED
      BY <2>1 DEF InFlight, Builder
  <1>2. ASSUME InFlight(k) PROVE \E u \in Threads : pc[u] \in Owning /\ call[u] = k
    <2>1. PICK u \in Threads : pc[u] \in Owning /\ own[u] = inflight[k]
      BY <1>2 DEF FlightsOwned
    <2>2. call[u] \in Keys /\ inflight[call[u]] = inflight[k] /\ inflight[k] # 0
      BY <1>2, <2>1, OwnerFacts DEF OwnersRegistered, InFlight
    <2>3. QED
      BY <2>1, <2>2 DEF FlightsOfOneKey
  <1>3. CASE InFlight(k)
    BY <1>1, <1>2, <1>3
  <1>4. CASE ~InFlight(k)
    BY <1>1, <1>4 DEF Builder
  <1>5. QED
    BY <1>3, <1>4

\* A fabric that has just started is a service nobody has called.
LEMMA ServiceInit == Init => Service!Init
  BY DEF Init, Service!Init, Builder, InFlight, ReplyOf, NoOutcome

\* Steps that touch neither entries nor calls nor outcomes are invisible to callers.
LEMMA Invisible ==
    ASSUME UNCHANGED <<inflight, flight, published, call, outcome>>
    PROVE  UNCHANGED Service!serviceVars
  BY DEF Service!serviceVars, Builder, InFlight

\* A thread that is inside compile() and not done is waiting for the service.
LEMMA PendingCall ==
    ASSUME FlightInv, IdentityInv, NEW t \in Threads, pc[t] \notin {"idle", "recovering", "done"}
    PROVE  Service!Pending(t) /\ call[t] \in Keys
  <1>1. call[t] \in Keys /\ call[t] # NoKey
    BY CoreAssumption DEF FlightInv, LocalsSet
  <1>2. outcome[t].kind = "none"
    BY DEF IdentityInv, OutcomesPublished
  <1>3. QED
    BY <1>1, <1>2 DEF Service!Pending, ReplyOf

\* What callers see of an outcome.
LEMMA ReplyValues ==
    ASSUME NEW o
    PROVE  /\ o.kind = "none" => ReplyOf(o) = -1
           /\ o.kind = "failed" => ReplyOf(o) = 0
           /\ o.kind \notin {"none", "failed"} => ReplyOf(o) = o.art.id
  BY DEF ReplyOf

\* The reply of a call that is done: an error, or an artifact published for its key.
RepliesPublished ==
    \A t \in Threads : pc[t] = "done" =>
        /\ ReplyOf(outcome[t]) \in 0..MaxCounter
        /\ \/ ReplyOf(outcome[t]) = 0
           \/ \E r \in published : r.key = call[t] /\ r.art.id = ReplyOf(outcome[t])

\* Outcomes satisfy what the service says of replies.
LEMMA DoneReplies == FlightInv /\ IdentityInv => RepliesPublished
  <1> SUFFICES ASSUME FlightInv, IdentityInv, NEW t \in Threads, pc[t] = "done"
               PROVE  /\ ReplyOf(outcome[t]) \in 0..MaxCounter
                      /\ \/ ReplyOf(outcome[t]) = 0
                         \/ \E r \in published : r.key = call[t] /\ r.art.id = ReplyOf(outcome[t])
    BY DEF RepliesPublished
  <1> USE DEF FlightInv, IdentityInv
  <1>1. outcome[t].kind # "none"
    BY DEF OutcomesPublished
  <1>2. CASE outcome[t].kind = "failed"
    BY <1>2, ReplyValues, CoreAssumption
  <1>3. CASE outcome[t].kind # "failed"
    <2>1. ReplyOf(outcome[t]) = outcome[t].art.id
      BY <1>1, <1>3, ReplyValues
    <2> DEFINE r == [key |-> call[t], art |-> outcome[t].art]
    <2>2. r \in published
      BY <1>1, <1>3 DEF OutcomesPublished, Made
    <2>3. 0 < r.art.id /\ r.art.id <= artifactCounter /\ r.art.id \in Nat /\ artifactCounter \in 0..MaxCounter
      BY <2>2, IdTypes DEF PublishedNumbered, TypeOK
    <2>4. r.key = call[t] /\ r.art.id = ReplyOf(outcome[t])
      BY <2>1
    <2> HIDE DEF r
    <2>5. QED
      BY <2>2, <2>3, <2>4, CoreAssumption
  <1>4. QED
    BY <1>2, <1>3

\* What the refinement needs of the state before and after a step.
ServiceInv == FlightInv /\ IdentityInv /\ BuildersOwn /\ RepliesPublished

\* It follows from the two inductive invariants.
LEMMA ServiceInvHolds == FlightInv /\ IdentityInv => ServiceInv
  BY BuildersAreOwners, DoneReplies DEF ServiceInv

\* A thread that returns from inside compile(), whichever way, is a reply of the service:
\* an error or an artifact published for its key, and whoever was building stops.
LEMMA ReplyStep ==
    ASSUME ServiceInv, ServiceInv',
           NEW t \in Threads, pc[t] \notin {"idle", "recovering", "done"}, pc'[t] = "done",
           UNCHANGED <<call, published>>,
           \A u \in Threads : u # t => outcome'[u] = outcome[u] /\ (pc'[u] \in Owning <=> pc[u] \in Owning)
    PROVE  \E id \in 0..MaxCounter : Service!Reply(t, id)
  <1> USE DEF ServiceInv
  <1> DEFINE id == ReplyOf(outcome'[t])
  <1>1. Service!Pending(t) /\ call[t] \in Keys
    BY PendingCall
  <1>2. /\ id \in 0..MaxCounter
        /\ id = 0 \/ \E r \in published : r.key = call[t] /\ r.art.id = id
    BY DEF RepliesPublished
  <1>3. id = 0 \/ <<call[t], id>> \in {<<r.key, r.art.id>> : r \in published}
    BY <1>2
  <1>4. pc'[t] \notin Owning
    BY DEF Owning
  <1>5. ASSUME NEW k \in Keys PROVE Builder(k)' = IF Builder(k) = t THEN NoThread ELSE Builder(k)
    <2>1. \/ Builder(k) = NoThread /\ \A u \in Threads : ~(pc[u] \in Owning /\ call[u] = k)
          \/ Builder(k) \in Threads /\ \A u \in Threads : u = Builder(k) <=> pc[u] \in Owning /\ call[u] = k
      BY DEF BuildersOwn
    <2>2. \/ Builder(k)' = NoThread /\ \A u \in Threads : ~(pc'[u] \in Owning /\ call[u] = k)
          \/ Builder(k)' \in Threads /\ \A u \in Threads : u = Builder(k)' <=> pc'[u] \in Owning /\ call[u] = k
      BY DEF BuildersOwn
    <2>3. QED
      BY <1>4, <2>1, <2>2, CoreAssumption
  <1>6. ASSUME NEW k \in Keys, k # call[t] PROVE Builder(k) # t
    BY <1>6, CoreAssumption DEF BuildersOwn
  <1>7. [k \in Keys |-> Builder(k)]' =
          [[k \in Keys |-> Builder(k)] EXCEPT ![call[t]] = IF @ = t THEN NoThread ELSE @]
    BY <1>1, <1>5, <1>6
  <1>8. [u \in Threads |-> ReplyOf(outcome[u])]' = [[u \in Threads |-> ReplyOf(outcome[u])] EXCEPT ![t] = id]
    OBVIOUS
  <1>9. {<<r.key, r.art.id>> : r \in published}' = {<<r.key, r.art.id>> : r \in published}
    OBVIOUS
  <1>10. Service!Reply(t, id)
    BY <1>1, <1>3, <1>7, <1>8, <1>9 DEF Service!Reply
  <1>11. QED
    BY <1>2, <1>10

\* A call into compile() is an invocation of the service.
LEMMA InvokeStep ==
    ASSUME ServiceInv, NEW t \in Threads, NEW k \in Keys, Call(t, k)
    PROVE  Service!Invoke(t, k)
  <1>1. call[t] = NoKey /\ call' = [call EXCEPT ![t] = k]
    BY DEF ServiceInv, IdentityInv, OutcomesPublished, Call
  <1>2. UNCHANGED <<inflight, flight, published, outcome>>
    BY DEF Call, fabricVars
  <1>3. UNCHANGED <<[j \in Keys |-> Builder(j)], {<<r.key, r.art.id>> : r \in published},
                    [u \in Threads |-> ReplyOf(outcome[u])]>>
    BY <1>2 DEF Builder, InFlight
  <1>4. QED
    BY <1>1, <1>3 DEF Service!Invoke

\* The thread that registers an entry starts the service's one build of its key.
LEMMA StartStep ==
    ASSUME ServiceInv, ServiceInv', NEW t \in Threads, OwnFlight(t)
    PROVE  Service!StartBuild(t)
  <1> USE DEF ServiceInv
  <1>1. /\ pc[t] = "missed" /\ ~InFlight(call[t]) /\ pc'[t] = "building"
        /\ UNCHANGED <<call, outcome, published>>
        /\ \A u \in Threads : u # t => pc'[u] = pc[u]
    BY DEF OwnFlight, StartFlight, FlightInv, TypeOK, historyVars
  <1>2. Service!Pending(t) /\ call[t] \in Keys
    BY <1>1, PendingCall
  <1>3. Builder(call[t]) = NoThread
    BY <1>1 DEF Builder
  <1>4. pc'[t] \in Owning /\ pc[t] \notin Owning
    BY <1>1 DEF Owning
  <1>5. ASSUME NEW k \in Keys PROVE Builder(k)' = IF k = call[t] THEN t ELSE Builder(k)
    <2>1. \/ Builder(k) = NoThread /\ \A u \in Threads : ~(pc[u] \in Owning /\ call[u] = k)
          \/ Builder(k) \in Threads /\ \A u \in Threads : u = Builder(k) <=> pc[u] \in Owning /\ call[u] = k
      BY DEF BuildersOwn
    <2>2. \/ Builder(k)' = NoThread /\ \A u \in Threads : ~(pc'[u] \in Owning /\ call[u] = k)
          \/ Builder(k)' \in Threads /\ \A u \in Threads : u = Builder(k)' <=> pc'[u] \in Owning /\ call[u] = k
      BY <1>1 DEF BuildersOwn
    <2>3. QED
      BY <1>1, <1>4, <2>1, <2>2, CoreAssumption
  <1>6. [k \in Keys |-> Builder(k)]' = [[k \in Keys |-> Builder(k)] EXCEPT ![call[t]] = t]
    BY <1>2, <1>5
  <1>7. UNCHANGED <<{<<r.key, r.art.id>> : r \in published}, call, [u \in Threads |-> ReplyOf(outcome[u])]>>
    BY <1>1
  <1>8. QED
    BY <1>2, <1>3, <1>6, <1>7 DEF Service!StartBuild

\* A commit publishes, with an id above all those its key has published before.
LEMMA PublishStep ==
    ASSUME ServiceInv, ServiceInv', NEW t \in Threads, Commit(t)
    PROVE  \E id \in 0..MaxCounter : Service!Publish(t, id)
  <1> USE DEF ServiceInv, FlightInv, IdentityInv
  <1>0. PICK id : id = art[t].id
    OBVIOUS
  <1>1. pc[t] = "validating" /\ UNCHANGED <<inflight, flight, call, outcome>>
    BY DEF Commit
  <1>2. Service!Pending(t) /\ call[t] \in Keys
    BY <1>1, PendingCall
  <1>3. own[t] < id /\ id <= artifactCounter /\ own[t] \in Nat /\ id \in Nat /\ artifactCounter \in 0..MaxCounter
    BY <1>0, <1>1, IdTypes DEF DrawnIdsUnique, TypeOK
  <1>4. id \in 0..MaxCounter /\ id > 0
    BY <1>3, CoreAssumption
  <1>5. pc[t] \in Owning \ {"committed"}
    BY <1>1 DEF Owning
  <1>6. \A r \in published : r.key = call[t] => id > r.art.id
    BY <1>3, <1>5, IdTypes DEF DrawnIdsUnique
  <1>7. \A p \in {<<r.key, r.art.id>> : r \in published} : p[1] = call[t] => id > p[2]
    BY <1>6
  <1>8. {<<r.key, r.art.id>> : r \in published}' = {<<r.key, r.art.id>> : r \in published} \cup {<<call[t], id>>}
    <2> DEFINE x == [key |-> call[t], art |-> art[t]]
    <2>1. published' = published \cup {x} /\ <<x.key, x.art.id>> = <<call[t], id>>
      BY <1>0, CommitPublishes
    <2> HIDE DEF x
    <2>2. {<<r.key, r.art.id>> : r \in published}' = {<<r.key, r.art.id>> : r \in published} \cup {<<x.key, x.art.id>>}
      BY <2>1
    <2>3. QED
      BY <2>1, <2>2
  <1>9. [k \in Keys |-> Builder(k)][call[t]] = t
    BY <1>2, <1>5, CoreAssumption DEF BuildersOwn
  <1>10. UNCHANGED <<[k \in Keys |-> Builder(k)], call, [u \in Threads |-> ReplyOf(outcome[u])]>>
    BY <1>1 DEF Builder, InFlight
  <1>11. Service!Publish(t, id)
    BY <1>2, <1>4, <1>7, <1>8, <1>9, <1>10 DEF Service!Publish
  <1>12. QED
    BY <1>4, <1>11

\* compile() hands its result to its caller.
LEMMA ReturnStep ==
    ASSUME ServiceInv, NEW t \in Threads, Return(t)
    PROVE  Service!Return(t)
  <1> USE DEF ServiceInv
  <1>1. /\ pc[t] = "done" /\ call' = [call EXCEPT ![t] = NoKey]
        /\ outcome' = [outcome EXCEPT ![t] = NoOutcome]
        /\ UNCHANGED <<inflight, flight, published>>
    BY DEF Return, fabricVars
  <1>2. call[t] # NoKey
    BY <1>1, CoreAssumption DEF FlightInv, LocalsSet
  <1>3. ReplyOf(outcome[t]) # -1
    BY <1>1, CoreAssumption DEF RepliesPublished
  <1>4. ReplyOf(NoOutcome) = -1
    BY ReplyValues DEF NoOutcome
  <1>5. [u \in Threads |-> ReplyOf(outcome[u])]' = [[u \in Threads |-> ReplyOf(outcome[u])] EXCEPT ![t] = -1]
    BY <1>1, <1>4 DEF FlightInv, TypeOK
  <1>6. UNCHANGED <<[k \in Keys |-> Builder(k)], {<<r.key, r.art.id>> : r \in published}>>
    BY <1>1 DEF Builder, InFlight
  <1>7. QED
    BY <1>1, <1>2, <1>3, <1>5, <1>6 DEF Service!Return

\* Every step of the fabric is one of the service's or changes nothing its callers see.
LEMMA ServiceNext ==
    ASSUME ServiceInv, ServiceInv', [Next]_vars
    PROVE  [Service!Next]_(Service!serviceVars)
  <1> USE DEF ServiceInv
  <1>1. ASSUME NEW t \in Threads, NEW k \in Keys, Call(t, k) PROVE Service!Next
    BY <1>1, InvokeStep DEF Service!Next
  <1>2. ASSUME NEW t \in Threads, OwnFlight(t) PROVE Service!Next
    BY <1>2, StartStep DEF Service!Next
  <1>3. ASSUME NEW t \in Threads, Commit(t) PROVE Service!Next
    BY <1>3, PublishStep DEF Service!Next
  <1>4. ASSUME NEW t \in Threads, Return(t) PROVE Service!Next
    BY <1>4, ReturnStep DEF Service!Next
  <1>5. ASSUME NEW t \in Threads,
               \/ PlanRejected(t) \/ CacheHit(t) \/ WaiterReturns(t)
               \/ BuildFails(t) \/ ValidationFails(t) \/ CommitRejected(t) \/ CompleteFlight(t)
        PROVE  Service!Next
    <2>1. ThreadStep(t)
      BY <1>5 DEF ThreadStep, CompileStep
    <2>2. \A u \in Threads : u # t => outcome'[u] = outcome[u] /\ (pc'[u] \in Owning <=> pc[u] \in Owning)
      BY <2>1, ThreadsSeparate DEF FlightInv, Owning
    <2>3. /\ pc[t] \notin {"idle", "recovering", "done"} /\ pc'[t] = "done"
          /\ UNCHANGED <<call, published>>
      <3>1. CASE PlanRejected(t) \/ CacheHit(t) \/ WaiterReturns(t)
        BY <3>1 DEF PlanRejected, CacheHit, WaiterReturns, FlightInv, TypeOK, historyVars
      <3>2. CASE BuildFails(t) \/ ValidationFails(t) \/ CommitRejected(t) \/ CompleteFlight(t)
        BY <3>2 DEF BuildFails, ValidationFails, CommitRejected, FailFlight, CompleteFlight, NotifyAll, historyVars
      <3>3. QED
        BY <1>5, <3>1, <3>2
    <2>4. \E id \in 0..MaxCounter : Service!Reply(t, id)
      BY <2>2, <2>3, ReplyStep
    <2>5. QED
      BY <2>4 DEF Service!Next
  <1>6. ASSUME NEW t \in Threads,
               \/ CacheMiss(t) \/ JoinFlight(t) \/ NumberArtifact(t) \/ ReadGeneration(t)
               \/ SleepAgain(t) \/ SpuriousWakeup(t) \/ RecoverStep(t)
        PROVE  UNCHANGED Service!serviceVars
    <2>1. UNCHANGED <<inflight, flight, published, call, outcome>>
      BY <1>6 DEF CacheMiss, JoinFlight, NumberArtifact, ReadGeneration, SleepAgain, SpuriousWakeup,
         RecoverStep, RecoverScan, RecoverInstall, fabricVars, historyVars
    <2>2. QED
      BY <2>1, Invisible
  <1>7. ASSUME InvalidateStep PROVE UNCHANGED Service!serviceVars
    BY <1>7, InvalidateFrame, Invisible DEF FlightInv, threadVars
  <1>8. ASSUME UNCHANGED vars PROVE UNCHANGED Service!serviceVars
    BY <1>8, Invisible DEF vars, fabricVars, threadVars, historyVars
  <1>9. QED
    BY <1>1, <1>2, <1>3, <1>4, <1>5, <1>6, <1>7, <1>8 DEF Next, CompileStep, Quiescent

\* The cache, the single flight, invalidation and recovery together implement the
\* service that callers of compile() may rely on.
THEOREM FabricImplementsService == Spec => ImplementsCompileService
  <1>1. Spec => []ServiceInv
    BY FlightInvariance, IdentityInvariance, ServiceInvHolds, PTL
  <1>2. ServiceInv /\ ServiceInv' /\ [Next]_vars => [Service!Next]_(Service!serviceVars)
    BY ServiceNext
  <1>3. QED
    BY <1>1, <1>2, ServiceInit, PTL DEF Spec, ImplementsCompileService, Service!Spec
=============================================================================
