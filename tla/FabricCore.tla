----------------------------- MODULE FabricCore -----------------------------
(***************************************************************************)
(* CompilationFabric (src/Fabric.cpp): the artifact cache, the per-key     *)
(* single flight of compile(), the generation authority, invalidation and  *)
(* supersession, and the in-process half of recover().                     *)
(*                                                                         *)
(* Every critical section of regMutex_ is one action, and so is every      *)
(* stretch of code between two of them that touches shared state; the      *)
(* mutex itself is therefore not a variable.  Backends, hashing, planning  *)
(* and key building are pure and appear only by their outcome.             *)
(***************************************************************************)
EXTENDS Integers, FiniteSets

CONSTANTS
    Threads,             \* client threads calling into one fabric
    Keys,                \* compilation keys
    LogicalOp,           \* logicalOperation() field of every key
    NoThread, NoKey,     \* "none" for a thread and for a key
    PersistenceEnabled,  \* config.persistenceEnabled && persistOnCompile
    MaxCounter,          \* bound on artifactCounter
    MaxGen               \* bound on cacheGen, toolchainGen and generations

ASSUME CoreAssumption ==
    /\ NoThread \notin Threads
    /\ NoKey \notin Keys
    /\ DOMAIN LogicalOp = Keys
    /\ PersistenceEnabled \in BOOLEAN
    /\ MaxCounter \in Nat
    /\ MaxGen \in Nat \ {0}

VARIABLES
    cache,            \* Impl::cache: key -> CacheEntry
    inflight,         \* Impl::inflight: key -> attempt of its InflightEntry, 0 if none
    flight,           \* the InflightEntry objects (shared_ptr), by attempt number
    cacheGen, toolchainGen, artifactCounter,
    disk,             \* records the PersistenceStore holds
    pc, call, own, art, scan,  \* locals of each thread: position, key, entry, artifact, recovered records
    outcome,          \* what a thread's call returned
    (* history, read by no action *)
    published,        \* artifacts ever committed, with their key
    lastInval,        \* per key: cacheGen set by the last invalidation that hit it
    seen              \* per thread: lastInval of its key when its call began

fabricVars  == <<cache, inflight, flight, cacheGen, toolchainGen, artifactCounter, disk>>
threadVars  == <<pc, call, own, art, scan, outcome>>
historyVars == <<published, lastInval, seen>>
vars == <<fabricVars, threadVars, historyVars>>

-----------------------------------------------------------------------------
(* Values *)

Attempts == 1..MaxCounter
Ops == {LogicalOp[k] : k \in Keys}

\* What the failures of compile() are told apart by: the phase that failed.
ErrorCodes == {"Ok", "NoBackend", "BuildFailed", "ValidationFailed", "StaleGeneration"}

\* An artifact as a result names it; born is the cache generation in which its build began.
Artifacts == [id : Nat, gen : Nat, born : Nat]
NoArtifact == [id |-> 0, gen |-> 0, born |-> 0]

CacheEntries == [art : Artifacts, deployable : BOOLEAN, passed : BOOLEAN,
                 state : {"Absent", "Deployable", "Invalidated", "Superseded"},
                 baseToolchainGen : Nat]
NoEntry == [art |-> NoArtifact, deployable |-> FALSE, passed |-> FALSE,
            state |-> "Absent", baseToolchainGen |-> 0]

\* owner is history: the thread whose local `owned` points at the entry.
InflightEntries == [owner : Threads \cup {NoThread}, done : BOOLEAN, success : BOOLEAN, failure : ErrorCodes,
                    result : Artifacts, baseCacheGen : Nat, baseToolchainGen : Nat]
Unallocated == [owner |-> NoThread, done |-> FALSE, success |-> FALSE, failure |-> "Ok",
                result |-> NoArtifact, baseCacheGen |-> 0, baseToolchainGen |-> 0]

Outcomes == [kind : {"none", "hit", "built", "joined", "failed"}, failure : ErrorCodes, art : Artifacts]
NoOutcome == [kind |-> "none", failure |-> "Ok", art |-> NoArtifact]
Failed(code) == [kind |-> "failed", failure |-> code, art |-> NoArtifact]
Returned(kind, a) == [kind |-> kind, failure |-> "Ok", art |-> a]

PersistedRecords == [key : Keys, art : Artifacts]

PCs == {"idle", "planned", "missed", "asleep", "woken", "building", "numbered",
        "validating", "committed", "done", "recovering"}
Owning  == {"building", "numbered", "validating", "committed"}
Waiting == {"asleep", "woken"}

TypeOK ==
    /\ cache \in [Keys -> CacheEntries]
    /\ inflight \in [Keys -> 0..MaxCounter]
    /\ flight \in [Attempts -> InflightEntries]
    /\ cacheGen \in Nat
    /\ toolchainGen \in Nat
    /\ artifactCounter \in 0..MaxCounter
    /\ disk \in SUBSET PersistedRecords
    /\ pc \in [Threads -> PCs]
    /\ call \in [Threads -> Keys \cup {NoKey}]
    /\ own \in [Threads -> 0..MaxCounter]
    /\ art \in [Threads -> Artifacts]
    /\ scan \in [Threads -> SUBSET PersistedRecords]
    /\ outcome \in [Threads -> Outcomes]
    /\ published \in SUBSET PersistedRecords
    /\ lastInval \in [Keys -> Nat]
    /\ seen \in [Threads -> Nat]

Init ==
    /\ cache = [k \in Keys |-> NoEntry]
    /\ inflight = [k \in Keys |-> 0]
    /\ flight = [a \in Attempts |-> Unallocated]
    /\ cacheGen = 1
    /\ toolchainGen = 1
    /\ artifactCounter = 0
    /\ disk = {}
    /\ pc = [t \in Threads |-> "idle"]
    /\ call = [t \in Threads |-> NoKey]
    /\ own = [t \in Threads |-> 0]
    /\ art = [t \in Threads |-> NoArtifact]
    /\ scan = [t \in Threads |-> {}]
    /\ outcome = [t \in Threads |-> NoOutcome]
    /\ published = {}
    /\ lastInval = [k \in Keys |-> 0]
    /\ seen = [t \in Threads |-> 0]

-----------------------------------------------------------------------------
(* compile() up to the single-flight decision *)

\* A compile takes at most two numbers from artifactCounter: a call may begin
\* while the numbers below MaxCounter cover every call already running.
Running == {t \in Threads : pc[t] \notin {"idle", "done", "recovering"}}
CounterBound == artifactCounter + 2 * (Cardinality(Running) + 1) <= MaxCounter

\* plan() and buildCompilationKey(), outside any lock.
Call(t, k) ==
    /\ pc[t] = "idle"
    /\ CounterBound
    /\ pc' = [pc EXCEPT ![t] = "planned"]
    /\ call' = [call EXCEPT ![t] = k]
    /\ seen' = [seen EXCEPT ![t] = lastInval[k]]
    /\ UNCHANGED <<fabricVars, own, art, scan, outcome, published, lastInval>>

\* plan() rejects a backend nobody registered.
PlanRejected(t) ==
    /\ pc[t] = "planned"
    /\ pc' = [pc EXCEPT ![t] = "done"]
    /\ outcome' = [outcome EXCEPT ![t] = Failed("NoBackend")]
    /\ UNCHANGED <<fabricVars, call, own, art, scan, historyVars>>

\* The entry is found under the request's own key, so decide() answers
\* ExactReusable in every state it does not refuse outright.
DecideReusable(e) == e.state \notin {"Absent", "Invalidated"}

\* Mutation: the fast path serves whatever the map holds.
AnyEntry(e) == e.state # "Absent"
ServesFastPath(e) == DecideReusable(e) /\ e.state = "Deployable"

CacheHit(t) ==
    /\ pc[t] = "planned"
    /\ ServesFastPath(cache[call[t]])
    /\ pc' = [pc EXCEPT ![t] = "done"]
    /\ outcome' = [outcome EXCEPT ![t] = Returned("hit", cache[call[t]].art)]
    /\ UNCHANGED <<fabricVars, call, own, art, scan, historyVars>>

CacheMiss(t) ==
    /\ pc[t] = "planned"
    /\ ~ServesFastPath(cache[call[t]])
    /\ pc' = [pc EXCEPT ![t] = "missed"]
    /\ UNCHANGED <<fabricVars, call, own, art, scan, outcome, historyVars>>

\* An attempt owns the compilation of k: its entry is registered and not done.
InFlight(k) == inflight[k] # 0 /\ ~flight[inflight[k]].done

\* The predicate of cv.wait is false here, so the thread goes to sleep.
JoinFlight(t) ==
    /\ pc[t] = "missed"
    /\ InFlight(call[t])
    /\ pc' = [pc EXCEPT ![t] = "asleep"]
    /\ own' = [own EXCEPT ![t] = inflight[call[t]]]
    /\ UNCHANGED <<fabricVars, call, art, scan, outcome, historyVars>>

NewEntry(t) == [Unallocated EXCEPT !.owner = t, !.baseCacheGen = cacheGen,
                                   !.baseToolchainGen = toolchainGen]
StartFlight(t) ==
    LET a == artifactCounter + 1 IN
    /\ a <= MaxCounter
    /\ artifactCounter' = a
    /\ flight' = [flight EXCEPT ![a] = NewEntry(t)]
    /\ inflight' = [inflight EXCEPT ![call[t]] = a]
    /\ own' = [own EXCEPT ![t] = a]
    /\ pc' = [pc EXCEPT ![t] = "building"]
    /\ UNCHANGED <<cache, cacheGen, toolchainGen, disk, call, art, scan, outcome, historyVars>>

\* Mutation: the key's entry is registered without looking for a flight in progress.
OwnUnchecked(t) == pc[t] = "missed" /\ StartFlight(t)
OwnFlight(t) == pc[t] = "missed" /\ ~InFlight(call[t]) /\ StartFlight(t)

-----------------------------------------------------------------------------
(* compile() of the owner, outside the lock, and its completion *)

\* Mutation: the entry is marked done and nobody is woken.
NotifyNobody(t) == [pc EXCEPT ![t] = "done"]
\* cv.notify_all() of the entry t owns; t itself returns.
NotifyAll(t) ==
    [u \in Threads |-> CASE u = t -> "done"
                         [] u # t /\ pc[u] = "asleep" /\ own[u] = own[t] -> "woken"
                         [] OTHER -> pc[u]]

FailedEntry(e, code) == [e EXCEPT !.done = TRUE, !.failure = code]
SucceededEntry(e, a) == [e EXCEPT !.done = TRUE, !.success = TRUE, !.result = a]

\* The owner completes its entry with a failure and returns the same failure.
FailFlight(t, code) ==
    /\ flight' = [flight EXCEPT ![own[t]] = FailedEntry(@, code)]
    /\ pc' = NotifyAll(t)
    /\ outcome' = [outcome EXCEPT ![t] = Failed(code)]
    /\ UNCHANGED <<cache, inflight, cacheGen, toolchainGen, artifactCounter, disk,
                   call, own, art, scan, historyVars>>

\* No backend, an incompatible toolchain, a failed compile or an empty executable.
BuildFails(t) == pc[t] = "building" /\ FailFlight(t, "BuildFailed")

\* Mutation: the id is read from the counter and not drawn from it.
NumberRead(t) ==
    /\ pc[t] = "building"
    /\ art' = [art EXCEPT ![t] = [id |-> artifactCounter, gen |-> 0,
                                  born |-> flight[own[t]].baseCacheGen]]
    /\ pc' = [pc EXCEPT ![t] = "numbered"]
    /\ UNCHANGED <<fabricVars, call, own, scan, outcome, historyVars>>
\* The backend produced an executable; its id is the next number ...
NumberArtifact(t) ==
    /\ pc[t] = "building"
    /\ artifactCounter < MaxCounter
    /\ artifactCounter' = artifactCounter + 1
    /\ art' = [art EXCEPT ![t] = [id |-> artifactCounter + 1, gen |-> 0,
                                  born |-> flight[own[t]].baseCacheGen]]
    /\ pc' = [pc EXCEPT ![t] = "numbered"]
    /\ UNCHANGED <<cache, inflight, flight, cacheGen, toolchainGen, disk,
                   call, own, scan, outcome, historyVars>>

\* ... and its generation is a second, separate read of the shared counter.
ReadGeneration(t) ==
    /\ pc[t] = "numbered"
    /\ art' = [art EXCEPT ![t].gen = artifactCounter]
    /\ pc' = [pc EXCEPT ![t] = "validating"]
    /\ UNCHANGED <<fabricVars, call, own, scan, outcome, historyVars>>

\* validate() could not run, or ran and did not pass.
ValidationFails(t) == pc[t] = "validating" /\ FailFlight(t, "ValidationFailed")

\* Mutation: only the toolchain generation is compared.
ToolchainAuthority(e) == e.baseToolchainGen = toolchainGen
Authority(e) == e.baseCacheGen = cacheGen /\ e.baseToolchainGen = toolchainGen

\* Mutation: the rejection does not return, the owner goes on to the success path.
RejectAndFallThrough(t) ==
    /\ pc[t] = "validating"
    /\ ~Authority(flight[own[t]])
    /\ flight' = [flight EXCEPT ![own[t]] = FailedEntry(@, "StaleGeneration")]
    /\ pc' = [NotifyAll(t) EXCEPT ![t] = "committed"]
    /\ UNCHANGED <<cache, inflight, cacheGen, toolchainGen, artifactCounter, disk,
                   call, own, art, scan, outcome, historyVars>>
CommitRejected(t) ==
    /\ pc[t] = "validating"
    /\ ~Authority(flight[own[t]])
    /\ FailFlight(t, "StaleGeneration")

\* The CacheEntry of a validated artifact, stamped with the current generations.
DeployableEntry(a) == [art |-> a, deployable |-> TRUE, passed |-> TRUE,
                       state |-> "Deployable", baseToolchainGen |-> toolchainGen]

\* store() writes the files named after id and generation, replacing older ones.
Stored(rec) == {r \in disk : r.art.id # rec.art.id \/ r.art.gen # rec.art.gen} \cup {rec}

\* The artifact passed validation and the generations are those it began with.
\* store() may fail: the failure is counted and ignored.
Commit(t) ==
    LET k == call[t]
        rec == [key |-> k, art |-> art[t]] IN
    /\ pc[t] = "validating"
    /\ Authority(flight[own[t]])
    /\ cache' = [cache EXCEPT ![k] = DeployableEntry(art[t])]
    /\ disk' \in {disk} \cup (IF PersistenceEnabled THEN {Stored(rec)} ELSE {})
    /\ published' = published \cup {rec}
    /\ pc' = [pc EXCEPT ![t] = "committed"]
    /\ UNCHANGED <<inflight, flight, cacheGen, toolchainGen, artifactCounter,
                   call, own, art, scan, outcome, lastInval, seen>>

\* The second critical section: only now do the waiters get the result.
CompleteFlight(t) ==
    /\ pc[t] = "committed"
    /\ flight' = [flight EXCEPT ![own[t]] = SucceededEntry(@, art[t])]
    /\ pc' = NotifyAll(t)
    /\ outcome' = [outcome EXCEPT ![t] = Returned("built", art[t])]
    /\ UNCHANGED <<cache, inflight, cacheGen, toolchainGen, artifactCounter, disk,
                   call, own, art, scan, historyVars>>

-----------------------------------------------------------------------------
(* Waiters *)

SpuriousWakeup(t) ==
    /\ pc[t] = "asleep"
    /\ pc' = [pc EXCEPT ![t] = "woken"]
    /\ UNCHANGED <<fabricVars, call, own, art, scan, outcome, historyVars>>

\* cv.wait re-evaluates its predicate.
SleepAgain(t) ==
    /\ pc[t] = "woken"
    /\ ~flight[own[t]].done
    /\ pc' = [pc EXCEPT ![t] = "asleep"]
    /\ UNCHANGED <<fabricVars, call, own, art, scan, outcome, historyVars>>

WaiterReturns(t) ==
    LET e == flight[own[t]] IN
    /\ pc[t] = "woken"
    /\ e.done
    /\ pc' = [pc EXCEPT ![t] = "done"]
    /\ outcome' = [outcome EXCEPT ![t] = IF e.success THEN Returned("joined", e.result)
                                                      ELSE Failed(e.failure)]
    /\ UNCHANGED <<fabricVars, call, own, art, scan, historyVars>>

\* compile() is back in its caller, its locals are gone.
Return(t) ==
    /\ pc[t] = "done"
    /\ pc' = [pc EXCEPT ![t] = "idle"]
    /\ call' = [call EXCEPT ![t] = NoKey]
    /\ own' = [own EXCEPT ![t] = 0]
    /\ art' = [art EXCEPT ![t] = NoArtifact]
    /\ outcome' = [outcome EXCEPT ![t] = NoOutcome]
    /\ seen' = [seen EXCEPT ![t] = 0]
    /\ UNCHANGED <<fabricVars, scan, published, lastInval>>

-----------------------------------------------------------------------------
(* Invalidation and supersession: one critical section each *)

Present(e) == e.state # "Absent"
InvalidatedEntry(e) == [e EXCEPT !.state = "Invalidated", !.deployable = FALSE, !.passed = FALSE]

SupersededEntry(e) == [e EXCEPT !.state = "Superseded", !.deployable = FALSE]

\* Invalidate the cached entries of K and note that the keys in H were hit.
InvalidateEntries(K, H) ==
    /\ cache' = [k \in Keys |-> IF k \in K /\ Present(cache[k]) THEN InvalidatedEntry(cache[k]) ELSE cache[k]]
    /\ cacheGen' = cacheGen + 1
    /\ lastInval' = [k \in Keys |-> IF k \in H THEN cacheGen + 1 ELSE lastInval[k]]
    /\ UNCHANGED <<inflight, flight, artifactCounter, disk, threadVars, published, seen>>

InvalidateByKey(k) ==
    /\ cacheGen < MaxGen
    /\ InvalidateEntries({k}, {k})
    /\ UNCHANGED toolchainGen

InvalidateById(id) ==
    LET K == {k \in Keys : Present(cache[k]) /\ cache[k].art.id = id} IN
    /\ cacheGen < MaxGen
    /\ InvalidateEntries(K, K)
    /\ UNCHANGED toolchainGen

InvalidateByLogicalOperation(op) ==
    LET K == {k \in Keys : LogicalOp[k] = op} IN
    /\ cacheGen < MaxGen
    /\ InvalidateEntries(K, K)
    /\ UNCHANGED toolchainGen

\* When gen covers the current toolchain generation, the builds in flight are hit too.
InvalidateByCompilerGeneration(gen) ==
    LET K == {k \in Keys : Present(cache[k]) /\ cache[k].baseToolchainGen <= gen} IN
    /\ cacheGen < MaxGen
    /\ toolchainGen' = toolchainGen + 1
    /\ InvalidateEntries(K, IF toolchainGen <= gen THEN Keys ELSE K)

\* u64Field() decodes exactly eight bytes; DependencyGenerations is written as a
\* counted list (four bytes more), so no entry ever matches.
InvalidateByDependencyGeneration ==
    /\ cacheGen < MaxGen
    /\ InvalidateEntries({}, {})
    /\ UNCHANGED toolchainGen

\* supersede() advances no generation.
Supersede(id, newGen) ==
    LET K == {k \in Keys : Present(cache[k]) /\ cache[k].art.id = id /\ cache[k].art.gen < newGen} IN
    /\ K # {}
    /\ cache' = [k \in Keys |-> IF k \in K THEN SupersededEntry(cache[k]) ELSE cache[k]]
    /\ UNCHANGED <<inflight, flight, cacheGen, toolchainGen, artifactCounter, disk, threadVars, historyVars>>

-----------------------------------------------------------------------------
(* recover(): the store is scanned before regMutex_ is taken *)

RecoverScan(t) ==
    /\ PersistenceEnabled
    /\ pc[t] = "idle"
    /\ pc' = [pc EXCEPT ![t] = "recovering"]
    /\ scan' = [scan EXCEPT ![t] = disk]
    /\ UNCHANGED <<fabricVars, call, own, art, outcome, historyVars>>

\* Of several records for one key the last in directory order stays: any of them.
RecoverInstall(t) ==
    LET recovered == {r.key : r \in scan[t]} IN
    /\ pc[t] = "recovering"
    /\ \E last \in [recovered -> scan[t]] :
         /\ \A k \in recovered : last[k].key = k
         /\ cache' = [k \in Keys |->
                        IF k \in recovered
                        THEN DeployableEntry(last[k].art)
                        ELSE cache[k]]
    /\ pc' = [pc EXCEPT ![t] = "idle"]
    /\ scan' = [scan EXCEPT ![t] = {}]
    /\ UNCHANGED <<inflight, flight, cacheGen, toolchainGen, artifactCounter, disk,
                   call, own, art, outcome, historyVars>>

-----------------------------------------------------------------------------
CompileStep(t) ==
    \/ PlanRejected(t) \/ CacheHit(t) \/ CacheMiss(t) \/ JoinFlight(t) \/ OwnFlight(t)
    \/ BuildFails(t) \/ NumberArtifact(t) \/ ReadGeneration(t)
    \/ ValidationFails(t) \/ CommitRejected(t) \/ Commit(t) \/ CompleteFlight(t)
    \/ SleepAgain(t) \/ WaiterReturns(t) \/ Return(t)

RecoverStep(t) == RecoverScan(t) \/ RecoverInstall(t)

InvalidateStep ==
    \/ \E k \in Keys : InvalidateByKey(k)
    \/ \E id \in Attempts : InvalidateById(id)
    \/ \E op \in Ops : InvalidateByLogicalOperation(op)
    \/ \E gen \in 1..MaxGen : InvalidateByCompilerGeneration(gen)
    \/ InvalidateByDependencyGeneration
    \/ \E id \in Attempts, newGen \in 1..(MaxCounter + 1) : Supersede(id, newGen)

\* No call is running and none has to come.
Quiescent == (\A t \in Threads : pc[t] = "idle") /\ UNCHANGED vars

Next ==
    \/ \E t \in Threads, k \in Keys : Call(t, k)
    \/ \E t \in Threads : CompileStep(t) \/ SpuriousWakeup(t) \/ RecoverStep(t)
    \/ InvalidateStep
    \/ Quiescent

Spec == Init /\ [][Next]_vars

\* A thread inside compile() is scheduled, and backends return.
FairSpec == Spec /\ \A t \in Threads : WF_vars(CompileStep(t))

-----------------------------------------------------------------------------
(* Properties *)

\* No two threads compile the same key at the same time: the single-flight
\* section of compile() admits one owner per key until its entry is done.
SingleFlight ==
    \A t, u \in Threads :
        pc[t] \in Owning /\ pc[u] \in Owning /\ call[t] = call[u] => t = u

\* A waiter of the single flight is never stranded: while its entry is not done
\* some thread still owns that entry, and once it is done the waiter is awake.
NoStrandedWaiter ==
    \A t \in Threads : pc[t] \in Waiting =>
        IF flight[own[t]].done THEN pc[t] = "woken"
        ELSE \E u \in Threads : pc[u] \in Owning /\ own[u] = own[t]

\* Without recovery, whatever the fast path may serve was begun after the last
\* invalidation that hit its key: an invalidation during a build keeps the
\* build's artifact out of the cache.
FreshAfterInvalidation ==
    \A k \in Keys : cache[k].state = "Deployable" => cache[k].art.born >= lastInval[k]

\* A call that hit the cache, or compiled itself, never returns an artifact whose
\* build began before an invalidation that preceded the call.
HitsAndBuildsAreFresh ==
    \A t \in Threads : outcome[t].kind \in {"hit", "built"} => outcome[t].art.born >= seen[t]

\* A completed flight is final: no later step of any thread changes what its
\* waiters read from the entry (done, result and failure are written once).
CompletedFlightIsFinal ==
    [][\A a \in Attempts : flight[a].done => flight'[a] = flight[a]]_vars

\* "No stale attempt overwrites a newer generation": the artifact cached for a
\* key is only ever replaced by one of a higher generation.
GenerationsGrow ==
    [][\A k \in Keys : cache'[k].art # cache[k].art => cache'[k].art.gen > cache[k].art.gen]_vars

\* In the life of one process the id a compile returned names an artifact of its
\* key alone, however attempts and artifacts of several threads share the counter:
\* deploy(), acquire() and invalidateById() find entries by the id only.
IdsNameOneKey ==
    /\ \A k, j \in Keys : Present(cache[k]) /\ cache[k].art.id = cache[j].art.id => k = j
    /\ \A t \in Threads, k \in Keys :
          outcome[t].art # NoArtifact /\ cache[k].art.id = outcome[t].art.id => k = call[t]

\* Every call into compile() returns: the owner on each of its paths, and every
\* thread that joined its flight.
CallsReturn ==
    \A t \in Threads : pc[t] = "planned" ~> pc[t] = "idle"

(* The inductive invariant behind SingleFlight and NoStrandedWaiter *)

\* A thread inside compile() has a key, and one that owns or joined a flight an entry.
LocalsSet ==
    \A t \in Threads :
        /\ pc[t] \notin {"idle", "recovering"} => call[t] \in Keys
        /\ pc[t] \in Owning \cup Waiting => own[t] # 0

\* Numbers not handed out yet name no entry.
CounterCovers ==
    /\ \A k \in Keys : inflight[k] <= artifactCounter
    /\ \A t \in Threads : own[t] <= artifactCounter
    /\ \A a \in Attempts : a > artifactCounter => flight[a] = Unallocated

\* The entry of an owner is the one registered for its key, and still open.
OwnersRegistered ==
    \A t \in Threads : pc[t] \in Owning =>
        /\ inflight[call[t]] = own[t]
        /\ flight[own[t]].owner = t
        /\ ~flight[own[t]].done

\* A registered entry that is open belongs to a thread that is building.
FlightsOwned ==
    \A k \in Keys : InFlight(k) =>
        \E u \in Threads : pc[u] \in Owning /\ own[u] = inflight[k]

FlightInv == TypeOK /\ LocalsSet /\ CounterCovers /\ OwnersRegistered /\ FlightsOwned /\ NoStrandedWaiter

(* Inductive invariants of the generations, for a fabric that never recovers *)

\* The generation of a cached artifact was drawn before any flight now open for its
\* key began, and the artifact of that flight is numbered after it began.
NumbersOrdered ==
    /\ \A k \in Keys : cache[k].art.gen <= artifactCounter
    /\ \A t \in Threads : pc[t] \in Owning \ {"committed"} => cache[call[t]].art.gen < own[t]
    /\ \A t \in Threads : pc[t] \in {"numbered", "validating"} => own[t] < artifactCounter
    /\ \A t \in Threads : pc[t] = "validating" => own[t] < art[t].gen /\ art[t].gen <= artifactCounter

\* What an attempt began with bounds what it may be compared to later.
BirthsRecorded ==
    /\ \A t \in Threads : pc[t] \in Owning \ {"building"} => art[t].born = flight[own[t]].baseCacheGen
    /\ \A t \in Threads : pc[t] \in Owning => seen[t] <= flight[own[t]].baseCacheGen
    /\ \A t \in Threads : pc[t] \in {"planned", "missed"} => seen[t] <= lastInval[call[t]]
    /\ \A t \in Threads : outcome[t].kind # "none" => pc[t] = "done"
    /\ \A k \in Keys : lastInval[k] <= cacheGen /\ cache[k].baseToolchainGen <= toolchainGen

FreshInv ==
    /\ \A t \in Threads : pc[t] # "recovering"
    /\ NumbersOrdered /\ BirthsRecorded /\ FreshAfterInvalidation /\ HitsAndBuildsAreFresh

(* The inductive invariant behind IdsNameOneKey and the refinement of CompileService *)

\* Published ids were drawn from the counter, each for one key.
PublishedNumbered ==
    /\ \A r \in published : 0 < r.art.id /\ r.art.id <= artifactCounter
    /\ \A r, s \in published : r.art.id = s.art.id => r.key = s.key

\* The id of an artifact on its way to publication is after the number of its flight,
\* is nobody else's, and what its key has published is before that flight.
DrawnIdsUnique ==
    /\ \A t \in Threads : pc[t] \in {"numbered", "validating"} =>
         /\ own[t] < art[t].id /\ art[t].id <= artifactCounter
         /\ \A r \in published : r.art.id # art[t].id
         /\ \A u \in Threads : pc[u] \in {"numbered", "validating"} /\ art[u].id = art[t].id => u = t
    /\ \A t \in Threads : pc[t] \in Owning \ {"committed"} =>
         \A r \in published : r.key = call[t] => r.art.id < own[t]

\* An entry is registered for one key, and whoever joined it asked for the owner's key.
FlightsOfOneKey ==
    /\ \A k, j \in Keys : inflight[k] # 0 /\ inflight[k] = inflight[j] => k = j
    /\ \A t, u \in Threads :
         pc[t] \in Waiting /\ pc[u] \in Owning /\ own[t] = own[u] => call[t] = call[u]

Made(k, a) == [key |-> k, art |-> a] \in published

\* Wherever an artifact may come from (the map, the store, a scan of it, a joined
\* entry, a build), it was published for the key it is found under.
SourcesPublished ==
    /\ \A k \in Keys : IF Present(cache[k]) THEN Made(k, cache[k].art) ELSE cache[k].art = NoArtifact
    /\ disk \subseteq published
    /\ \A t \in Threads : scan[t] \subseteq published
    /\ \A t \in Threads : pc[t] = "committed" => Made(call[t], art[t])
    /\ \A a \in Attempts : flight[a].success => flight[a].done
    /\ \A t \in Threads : pc[t] \in Waiting /\ flight[own[t]].success => Made(call[t], flight[own[t]].result)

\* A call has an outcome when it is done, of an artifact published for its key.
OutcomesPublished ==
    \A t \in Threads :
        /\ pc[t] \in {"idle", "recovering"} => call[t] = NoKey
        /\ outcome[t].kind = "none" <=> pc[t] # "done"
        /\ IF outcome[t].kind \in {"none", "failed"} THEN outcome[t].art = NoArtifact
                                                     ELSE Made(call[t], outcome[t].art)

\* The invariant behind IdsNameOneKey and the refinement: an id drawn from the
\* shared counter goes with one flight of one key from the build to whatever serves
\* it (the map, the store, recover(), a joined entry), also when recover() installs
\* over entries that other threads commit meanwhile.
IdentityInv ==
    /\ PublishedNumbered /\ DrawnIdsUnique /\ FlightsOfOneKey
    /\ SourcesPublished /\ OutcomesPublished

(* What the repository says and the code does not do, refuted by a run *)

\* tests/concurrency.cpp: after an invalidation "all future submits must recompile
\* (never reuse the invalidated artifact)", whichever way a call gets its result.
NoInvalidatedReturn ==
    \A t \in Threads : outcome[t].kind \in {"hit", "built", "joined"} => outcome[t].art.born >= seen[t]
=============================================================================
