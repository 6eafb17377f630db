# Compilation Fabric in TLA+

TLA+ modules, TLC configurations and TLAPS proofs for the Compilation Fabric:
its concurrent core, its store, its coordinator, the keys and formats that carry
a request through them, and its two backends. Paths below are those of the
repository (`src/Fabric.cpp`); `PROJECT.json` maps every definition to the lines
it models.

## 1. The system

| Part | State it keeps | Operations | Talks to |
|---|---|---|---|
| `CompilationFabric` (`src/Fabric.cpp`) | cache by key, in-flight entries by key, `cacheGen`, `toolchainGen`, `artifactCounter`, leases, backends; one mutex `regMutex_` | `compile`, `lookup`, five `invalidateBy...`, `supersede`, `deploy`, `acquire`/`release`, `recover`, queries | backends (calls outside the lock), store (inside it), waiters (condition variable per entry) |
| `PersistenceStore` (`src/Persistence.cpp`) | a directory: one `.meta` and one `.bin` file per artifact id and generation, `.tmp` files | `store`, `load`, `list`, `remove`, `recover` | the file system |
| `DistributedCoordinator` (`src/Distributed.cpp`) | registered workers and their channels, `pending_` promises, `reqToKey_`, `published_`, `artifactGen_`, epoch and generations; one mutex `mtx_` | one thread per connection: client frames (submit, invalidate, control) and worker frames (register, result) | workers and clients over framed TCP |
| `DistributedWorker` | its connection | receive a dispatch, compile, answer | coordinator |
| Protocol (`src/Protocol.cpp`) | a socket | `sendFrame` (two writes), `recvFrame`, envelopes, payloads | both ends |
| Key (`src/Key.cpp`, `src/Request.cpp`), canonical encoding (`src/Canonical.cpp`) | none | request to key, key to bytes and back | fabric, coordinator, store |
| Reuse decision (`src/Compatibility.cpp`) | none | `decide`, `fieldDiffs` | called by `compile` and `lookup` |
| Descriptors and JSON (`src/Descriptor.cpp`, `src/Semantic.cpp`, `src/Json.cpp`) | none | `toJson`/`fromJson`, `dump`/`parse` | protocol, store |
| CPU backend (`src/CpuBackend.cpp`) | none | parse, optimise, encode, decode, validate, execute | fabric, workers |
| CUDA backend (`src/Cuda.cpp`) | the loaded libraries; contexts, modules and buffers of modules in use | `compile`, `validate`, `load` | NVRTC, nvcc, the driver |
| Lifecycle (`src/Lifecycle.cpp`) | a state | `to`, `canTransition` | nobody in the library |
| Toolchain probe, observability, CLI, benchmark | counters, values | I/O, printing | everywhere |

What is hard here:

* `compile()` takes `regMutex_` four times. Between the sections other threads
  hit, miss, join, commit, invalidate, supersede, deploy and recover. The fast
  path and the single-flight test are two sections, and so are the commit to the
  cache and the completion of the entry that waiters sleep on.
* Waiters sleep without a timeout; each of the owner's seven ways out of
  `compile()` has to complete the entry and notify.
* Generations are read when a flight starts and compared when it commits; the
  counter that numbers attempts, ids and generations restarts with the process,
  while the artifacts it numbered stay on disk.
* `store()` is four file operations, `recover()` runs beside it without its
  lock, and the process may die anywhere.
* The coordinator checks a result's authority in one critical section and
  publishes it in another; clients choose their request ids, so one id may be
  retried or carry two different sources; workers die and return under the same
  id; client threads share a worker's socket; and `fut.get()` waits without a
  timeout.
* A request is escaped, dumped, parsed and re-dumped on its way to a worker, and
  a descriptor on every restart. Whatever those trips lose is lost to the key,
  and two requests with one key share one artifact.
* Decoders add lengths they have read to positions; damaged files and frames
  reach them.
* `validate()` and `load()` of the CUDA backend unwind six driver calls by hand,
  and one launch on one input decides whether a kernel is valid.

`PROJECT.json` lists these as hazards, each at its line, with the properties
that cover it or the reason why none does.

## 2. Modules

| Module | Models |
|---|---|
| `FabricCore` | the fabric's cache, single flight, invalidation and in-memory recovery |
| `CompileService`, `FabricRefinement` | what `compile()` promises, without cache, locks or waiting, and the mapping to it |
| `Deployment` | `FabricCore` with `deploy()`, leases, and processes that end and start again on the same store |
| `ArtifactStore` | the store's files, crashes and damage |
| `Coordinator` | coordinator, workers, clients and the streams between them |
| `JsonText`, `DescriptorCodec` | JSON text; the members of every descriptor and their JSON form |
| `CompilationKey` | planning, the key of a request, the reuse decision |
| `CanonicalCodec` | the canonical writer and reader; keys, frames, envelopes and metadata as bytes |
| `CpuProgram` | the CPU backend from source text to output values |
| `RequestPath` | composes the last five: a request over the coordinator, or through a fabric that is restarted, to its answer |
| `ByteChannel` | every binary format between its encoder and its decoder, with damage on the way |
| `CudaBackend` | the CUDA backend: kernels, validation, library handles |
| `Lifecycle` | the table of legal states and the holder that follows it |
| `...Proofs` | theorems about the module they are named after; `DeploymentProofs` also holds `Lifecycle`'s |
| `WireProofs` | theorems about `ByteChannel`, with the formats it uses, and `CompilationKey` |
| `FoldFacts` | what a `FoldLeft`, a table of powers and a division compute; instantiated by the proofs with the operator that is folded |
| `MC...` | constants and symmetry sets for TLC; `MCDistributed`, `MCWire` and `MCRuntime` put machines that share nothing into one run |

### FabricCore

`cache`, `inflight`, `cacheGen`, `toolchainGen` and `artifactCounter` are the
members of `Impl`. `flight` holds the `InflightEntry` objects, indexed by attempt
number, because a waiter keeps its `shared_ptr` after the map entry is replaced.
`disk` is the set of records the store holds; a record replaces one of the same
id and generation (`Stored`). Each thread has a program counter and the locals of
`compile()`: the key (`call`), the entry it owns or waits for (`own`), its
artifact (`art`), and the records `recover()` scanned (`scan`).

One action is one critical section of `regMutex_`, or one stretch of code
between two of them that touches shared state:

    Call -> CacheHit                                            (226-247)
         -> CacheMiss -> JoinFlight -> SleepAgain* -> WaiterReturns (254-266)
                      -> OwnFlight -> BuildFails                (267-356)
                                   -> NumberArtifact -> ReadGeneration
                                      -> ValidationFails        (376-391)
                                      -> CommitRejected         (400-404)
                                      -> Commit -> CompleteFlight (405-436)

The id and the generation of an artifact are two reads of the shared counter,
so they are two actions. Waking up (`NotifyAll`) and returning are separate
steps of different threads, and `SpuriousWakeup` is always possible. An
artifact carries the cache generation in which its build began (`born`), and
history variables record the last invalidation that hit a key (`lastInval`) and
the value a call saw when it began (`seen`); no action reads them.

A detail worth knowing: `invalidateByDependencyGeneration` decodes a field of
exactly eight bytes, while the field is written as a counted list, so it
advances the generation and never matches an entry. The model says so.

### Deployment

Extends `FabricCore`. `deploy()` is a copy under the mutex (`DeployCopies`,
`DeployRefused`) and a load after it (`DeployLoads`). `leaseCounts` is the length
of the lease list of an id, which `acquire()` clears when it passes the limit;
`held` counts what the clients still have. A lease is a value, so `Release` also
takes one that was given back before or never taken; `strays` remembers the ids
for which that happened. `Restart` ends the process: every
variable starts again except the disk.

### ArtifactStore

A slot is an `<<id, generation>>` pair; `meta` and `bin` are the files under
that name and `tmp` the temporary names. `store()` is four actions, `remove()`
two, `recover()` a cleaning pass, a listing and two reads per record. `Crash`
ends whatever runs and keeps the files; `Damage` overwrites, truncates or copies
files at rest. The same slot can be stored again, as happens after a restart. A
content stands for its digest, so the collision resistance of SHA-256 is an
assumption.

### Coordinator

Client threads follow `handleClientFrame()` through its critical sections;
worker-connection threads follow `handleWorker()`. A worker process is a boot,
several boots may share a worker id, and the earlier one is dead when the later
one registers although the coordinator may not have noticed. A frame travels as
two writes, so that two client threads may interleave them; the receiving end
takes the bytes after a length for its body. Workers answer with a verdict:
passed, failed validation, or nothing at all. `Events` names what happens beside
submits (deaths, failed compiles, bumps of a generation, invalidations).

A submit is an id and a body, and a body is what the coordinator makes of it: its
key. The two are independent, since the id is the client's choice (zero when the
request has none) and every submit overwrites the id's entry of `reqToKey_`. A
result (`publications` is `published_`) finds the key it is published under in a critical section of its own
(`LookupKey`), as the last submit of the id left it. The history `bodies` has
every key submitted under an id.

### JsonText, DescriptorCodec, CompilationKey, CanonicalCodec, CpuProgram

These hold no state. A text is a sequence of symbols: the characters the
escaping code tells apart are single symbols, other words are one symbol each.
Numbers in JSON are doubles of `Mantissa` bits; one that does not fit an `int64_t`
(`Int64Limit`) is printed with `PrintedDigits` significant digits, any other in
full. The runs scale 53 bits, 2^63 and six digits down to 6 bits, 128 and one
digit, which keeps their order (2^Mantissa below the limit). Every `toJson()`/`fromJson()`
pair of the program walks over the members of a struct, so a struct is its
schema (a function from members to kinds) and one encoder and decoder serve all
of them. What is lost on the way depends on the kind: an enumeration is written
as `Datatype::F64` and looked up as `F64`, so it comes back as its default, and
integers, alone or in a shape, come back as `OverWire` says.

A key is a function from the tags that are present to their values, which is
what `operator==` compares. `Decide` is `decide()` over two keys, a state and a
policy.

`CanonicalCodec` scales byte values (`Base`) and widths down and computes
positions modulo the width of `size_t`, so that sums wrap where the program's do.
A reader ends `ok`, `rejected`, or `thrown` (`str()` with a length that wraps
passes the bounds check and leaves with `std::length_error`).

`CpuProgram` has signed zeros and rounds F32 values to `FloatBits` bits, since the
optimiser's rules (drop `scale 1`, `add 0`, `sub 0`) are about exactly those. It
computes with whole numbers.

### RequestPath and ByteChannel

Two requests each take one of two ways: `SubmitRequest`, `WorkerCompile`, `PublishResult` over
the coordinator, with the trips through JSON each hop makes, or `CompileLocally`
in a fabric whose cache is persisted and read back by `Restart` (a reuse counts up
in the cached descriptor only, so `CacheKeepsDescriptors` leaves that count out;
timestamps are abstracted away). Each way is a
few large steps; their interleavings are the subject of the modules above, and
this one is about what the data mean. `ByteChannel` encodes one value of each
binary format, lets `Overwrite`, `Erase`, `Truncate` and `Extend` act on the bytes
and hands what is left to the decoder.

### CudaBackend and Lifecycle

Threads inside the backend take one library call per step and each may fail.
`handles` are the live programs, contexts, modules and buffers with the thread or
module they belong to. `SpecOf` is the reduction of a request to one operation,
`Launched` what the generated kernel leaves in the output buffer, `Reference`
what `computeCudaReference()` expects, and `Near` the tolerance they are compared
with. The kernel works in its own type, so `Accumulate` rounds every partial
result of a reduction, in the strided phase and at every halving, where the CPU
rounds once. `CudaAssumption` says that an installed NVRTC has
`nvrtcDestroyProgram`; without it `cleanupProg` would keep the program. The device and its libraries are external:
a call succeeds or fails, and a launched kernel does what its source says.

`Lifecycle` is the table of `canTransition()` with the states passed so far.

## 3. Runs

Passing runs:

| Run | Bounds | Shows |
|---|---|---|
| `core_safety` | 2 threads, 2 keys, counter 5, one invalidation | one builder per key; no stranded waiter; an entry is completed once; ids name one key; generations grow; nothing cached, hit or built is older than an invalidation before it; `FlightInv` is an invariant |
| `core_service` | 2 threads, 1 key, counter 4, one invalidation, persistence and recovery | the fabric implements `CompileService`; whatever serves an artifact had it published for its key (`IdentityInv`); every call returns |
| `store_recovery` | 2 slots, 1 key, 2 contents, 2 different records | authenticity, durability and exactness of recovery; `StoreInv` |
| `coord_safety` | 2 clients, 2 ids, 2 keys in every combination, 2 boots of one worker, 2 dispatches, 1 bump, deaths and failures; bodies of two keys only while no generation moves and no failed compile is on its way (`InScope`) | promises are set once, for the right request; results outdated on arrival are refused; an artifact of another key is published or returned only when one id was submitted with the bodies of both; `CoordInv` |
| `distributed` | every pair of 17 requests, 1 restart; 5 formats, 2 damages; or 1 client of the coordinator with 2 ids, 2 keys, 2 workers and 4 dispatches | an answer computes what its caller's source computes; answers are shared only between requests equal in every member of the key; the cache holds what was committed; a worker compiles what was keyed; decoders accept only encodings; a client of the coordinator that is alone is answered |
| `deployment` | 1 compiling thread, 1 deploying client, 1 key, counter 4, lease limit 1 with 2 leases, 1 restart; 2 threads in the CUDA backend, blocks of 4; the whole lifecycle table | deployments are fresh; every handle is released once; a validated kernel whose arithmetic is exact is right on every input; eligibility is earned |

Why the bounds are enough to meet the hard cases: two threads give an owner and
a waiter, and an owner with another thread in the gap between the fast path and
the single flight; counter 5 lets one thread's attempt, id and generation
interleave with another's; one invalidation can fall into any gap of a build, and
the theorems below cover every number of threads and invalidations. Two records
with two slots give an overwrite of one name and copies of files between names.
Two dispatches are a request and its retry, or two bodies under one id; two boots
of one worker id are a restart.
The seventeen requests are one request and its variations in a single member, so
each pair differs in one or two; among them are sources with quotes, backslashes
and control characters, sources that do not parse, autotuning, an unregistered
backend, two shapes that are one double, and two alignments that are two doubles
and one text (the first dimension of a shape stays small: `execute()` takes it for
a length). Two damages reach a
length and what it counts. A lease limit of 1 with two leases clears the table; a
block of 4 has sizes that halve evenly, sizes that do not, and sizes beyond it.
`MaxCounter`, `MaxGen`, `MaxStores`, `MaxDispatch`, `MaxBumps`, `MaxLeases`,
`MaxRestarts`, `MaxDamage`, `MaxArtifacts` and `MaxModules` only appear in guards.

Symmetry is used where no property is a liveness property and threads, clients
or keys are interchangeable. Deadlock checking is off where the system may stop:
a client in `fut.get()` whose result was dropped really waits for ever; the two
requests of `RequestPath`, a byte string that was read and a terminal life cycle
state are the end of their behaviours.

`ReuseNeedsEqualMembers` and `CacheKeepsDescriptors` except what a trip through
JSON is known to lose (enumerations, integers that print alike);
`wire_specialization` is about the enumerations. `DeploysAreFresh` excepts
artifacts that `recover()` put back, and says that the copy was fresh when
`deploy()` was called: an invalidation between the copy and `load()` stops nothing.
`ExactKernelsAreRight` excepts sums of floats, scalars a float does not hold, and
reductions over a size below the block limit that is no power of two, for which
the halving loop loses elements. `CudaParity` does not except them: `cuda_parity`
refutes it with a source of two operations, and the requests of `deployment` refute
it with a maximum over three elements, which loses one of them, passes on the input
it is validated on and is wrong on another.

Runs that refute a statement of the repository:

| Run | Statement | What the code does |
|---|---|---|
| `core_invalidated_return` | `tests/concurrency.cpp`: "all future submits must recompile (never reuse the invalidated artifact)" | a submit after the invalidation joins a flight that has committed and is not yet done |
| `coord_torn_frame` | `docs/protocol.md`: "Each frame is body length prefixed" | unsynchronised writers interleave halves of frames |
| `wire_specialization` | `docs/specialization.md`: "distinct specialization creates distinct artifact identity" | the datatype of a request is lost on the wire, and two requests share a key |
| `restart_identity` | `docs/artifacts.md`: "Executable bytes are never mutated under an existing immutable artifact identity." | the counter restarts and a new artifact overwrites the files of a recovered one |
| `lease_underflow` | `tests/concurrency.cpp`: "Lease acquire/release must never underflow." | the list is cleared at its limit, and a lease given back once finds it empty |
| `cuda_parity` | `docs/architecture.md`: "CPU-reference parity" | only the last operation of a source is compiled, and the reference is rebuilt from it |

Other places where the models behave differently from what a reader of the
documents would expect, visible in the definitions named:

* two threads may both build a key, the second replacing the first's artifact
  (`OwnFlight` after `CacheMiss`; `docs/lifecycle.md`: "No duplicate authoritative
  publish");
* `recover()` makes an invalidated artifact deployable again, since
  invalidations are not written to the store (`RecoverInstall`;
  `docs/recovery.md`), and keeps whichever generation of a key is listed last;
* `supersede()` turns an invalidated entry into one that `lookup()` returns
  (`Supersede`, `DecideReusable`);
* a store over an existing name leaves it unloadable between the renames
  (`RenameMeta`); recovery removes the temporary file of a store in progress
  (`CleanTmp`);
* two sources submitted under one request id may each be published and answered
  with the other's artifact (`Submit`, `LookupKey`, `Publish`); the attempt of a
  result is never compared, so a submit that replaces the promise of an earlier one
  with its id is given the earlier one's result (`PublicationAllowed`;
  `docs/protocol.md`: "stale attempt ... and completion after replacement",
  `docs/limitations.md`: "attempt freshness"); a result that is rejected as stale is dropped and its client
  never told (`DropResult`; `Distributed.hpp`: "with a structured reason"), and a
  generation bumped between check and publication does not stop the publication (`PassChecks`, `Publish`);
* an Invalidate frame erases nothing (`Invalidate`); two requests for one key are
  both dispatched (`PublishedMiss`);
* a result reused from `published_` carries the first request's id (`SubmitRequest`), a
  worker's result carries no bytes, and workers that announce CUDA compile with the
  CPU backend (`WorkerResult`);
* a request for CUDA without CUDA is silently planned for the CPU (`PlanBackend`);
  `optimizeLevel` and `blockSize` are not part of the key (`BuildCompilationKey`);
* the reuse decision lets a changed environment cover a changed target, driver,
  namespace or tenant when the policy is not strict (`Decide`); no caller uses such a policy;
* keys with unsorted tags are accepted (`FromCanonicalBytes`);
* NVRTC always compiles for `sm_120`, whatever architecture was asked for; a scale
  by zero becomes a scale by one, and a shape given only in the source is ignored
  (`SpecOf`); entry points `ensure()` does not insist on may be null when called
  (`Ensured`);
* the fabric assigns states that the lifecycle table forbids, such as
  Deployable to Invalidated (`InvalidatedEntry`, `Edges`).

## 4. Fairness

`FairSpec` assumes weak fairness of `CompileStep(t)` for each thread: the
operating system schedules threads, the mutex is released after every critical
section, and backends return. Nothing is assumed of callers, invalidations or
spurious wakeups. `CoordFairness` assumes the same of client threads, workers
and worker-connection threads, and that TCP delivers what was sent on a
connection that stays up.

## 5. Proofs

For every set of threads, keys and clients and every bound:

* `FabricCoreProofs`: `FlightInv` is inductive. Besides types it says that an
  owner's entry is the one registered for its key and is open
  (`OwnersRegistered`), that an open registered entry has an owner
  (`FlightsOwned`), and that numbers not drawn yet name no entry
  (`CounterCovers`). `SingleFlight` follows, since two owners of a key would own
  the same entry, which has one owner; `NoStrandedWaiter` is a conjunct, for it is
  itself needed to carry a waiter over the completion of its entry.
  An entry that is done is final, also from `FlightInv`. For a fabric without
  persistence, `FreshInv` adds the order of the numbers (a cached generation is
  below the attempt of any flight now open for its key) and of the generations (an
  attempt began no earlier than its call), which gives `FreshAfterInvalidation`,
  `HitsAndBuildsAreFresh` and `GenerationsGrow`. The assumption
  `~PersistenceEnabled` is necessary there: `recover()` reinstalls what was
  invalidated.
* `FabricRefinementProofs`: `IdentityInv` is inductive relative to `FlightInv`, with
  and without persistence. `IdsNameOneKey` alone is not inductive: a number on its
  way from the counter to publication could be anybody's. So `DrawnIdsUnique`
  follows each number from the draw (it is above its flight's attempt, nobody else
  has it, and what the key published is below the attempt), `FlightsOfOneKey` says
  that whoever joined an entry asked for its owner's key, and `SourcesPublished`
  that the map, the store, a scan of it, a committed build and a successful entry
  only hold artifacts published for their key. From there the refinement goes step
  by step: the service's builder of a key is the one thread that owns its flight
  (`BuildersOwn`), the reply of a finished call is an error or a published id
  (`RepliesPublished`), and every action is mapped to a request, a start, a
  publication, a reply or a stutter. Both halves of the implication are proved: the
  initial states map to initial states and the steps to steps.
* `CoordinatorProofs`: `CoordInv` is inductive for any clients, ids, keys, worker
  processes and bounds. `PromisesAreOpen` needs to know where a client thread is
  when another thread finds its promise (`ClientLocals`). `MixUpsNeedASharedId`
  needs that every dispatch in a local, in a stream or in a handler is of a body
  that was submitted under its id (`DispatchesRecorded`), and that `reqToKey_`, and
  what a handler has read of it, is the key of some body of the id (`KeysNoted`);
  torn frames deliver one client's dispatch under another's length, and the
  invariant survives because both are recorded. It follows that clients whose ids
  each name one body get artifacts of just that key (`OwnIdsGetOwnKeys`).
  `AcceptedWasCurrentOnArrival` needs the order stamp <= arrival <= now of the
  generations, and that a boot that is down never returns (`ArrivalsOrdered`):
  equality with the present at the check then gives equality with the arrival.
* `DeploymentProofs`: `FlightInv` holds over restarts and beside deployments.
  `DeployedArtifactsAreFresh` carries `FreshAfterInvalidation` into the copy
  `deploy()` makes: a deployable entry is a reusable one, and `supersede()`, the
  only other writer of states, leaves no entry deployable.
* `ArtifactStoreProofs`: `StoreInv` is inductive. `MetaFirst` and
  `MetaIsAuthentic` say where metadata comes from; `RecoveryProgress` says that an
  undisturbed recovery has so far sorted exactly the names it has dealt with.
  Authenticity, durability and exactness follow.
* `CudaBackendProofs`: `HandlesAccounted` says nothing of threads between the calls.
  `HandleInv` does: a thread holds exactly what the calls behind it have made, or
  exactly what is left on its list of releases, which is one of six lists closed
  under taking the first element off; a module holds a context, a module and two
  buffers; and the owner of every object is a thread or a live module. The steps
  that move objects to another owner (`LoadReturns`, `DropModule`) are the only
  ones that need an argument about two owners. That threads and modules have
  different names is part of `CudaAssumption`.
  A kernel whose arithmetic is exact (`Exact`) agrees with the reference on every
  input (`ExactKernelsMatch`), for any seed and any largest block that is a power
  of two. `SpecInv` says that whatever is compiled or validated is marked as a
  reduction exactly when it is one. That every partial result is rounded makes no
  difference then: doubles are not rounded in this model, and a maximum or minimum
  of rounded values is one of them (`AccumulateIs`, `RoundTwice`). An elementwise kernel is the reference element by element. For
  a reduction both sides are compared with the total of the values taken in order
  (`Total`): `execute()` is that fold (`ReduceIs`); the strided first phase deals
  every further element to one thread (`Columns`), and combining a number into one
  of the positions combines it into their total (`TotalDealt`), because the order
  makes no difference to whole numbers (`MixIs`); each halving folds the second
  half into the first (`HalveKeepsTotal`), and a block of 2^m threads is halved m
  times, down to one (`HalvesAre`). The two sides may differ in the sign of a zero,
  which rounding keeps a zero (`RoundSame`).
* `DeploymentProofs`, second part: `EligibilityIsEarned` is not inductive, since it
  says nothing of the states before validation. `PhaseInv` does: a state before
  validation has only such states behind it, and none after a withdrawal leads back.
* `WireProofs`: `DecodingIsExact`, for byte strings of any length over any base and
  after any damage. A reader is followed through the bytes it was given: a read
  that succeeds has moved past exactly the bytes its value is written to (`Took`),
  and reads one after the other cover what they passed without a gap (`Covers`).
  The hard leaf is the bounds check of strings and blobs, where position plus
  length may wrap. Byte strings are shorter than `size_t` counts
  (`ChannelAssumption`), so a count that passes the check by wrapping is larger
  than what remains: `str()` throws, and `bytesBlob()` moves to a position before
  the end, where the check that nothing remains refuses the frame. Envelopes,
  executables and keys are read by loops, which are folds, one number, operation
  or field at a time; a key's tags are new each time, so its fields are found once
  each, in the order the bytes have them.
  In the second half, for any two keys, any state and any policy, `ReuseCrossesOnly`
  says field by field what `Decide` lets a reuse cross: driver, driver version,
  architecture, compute capability, ISA, vendor and family, all of which count as a
  changed architecture, when equivalent targets are allowed; and with an environment
  that is not strict, when its fingerprint differs, those, the fingerprint,
  namespace and tenant. Under the default policy it crosses nothing
  (`StrictReuseIsExact`). Any two requests with one key agree in
  every member the key takes from a request: each group of setters writes tags of
  its own, so merging them loses nothing (`KeyShowsGroups`), and a field that is left
  out when empty can still be told from the key (`FieldTold`). Together: a reuse
  under the default policy is for an equal request.
* `FoldFacts`: the lemmas about folds that the last two rest on. The prover cannot
  instantiate a lemma that quantifies over an operator, so the operator is a
  constant of the module, every fold is proved about in an instance of its own, and
  induction is over the set of numbers that have the property (`SetInduction`, from
  the well-foundedness of the naturals).

Assumptions are those the modules state on their constants, which TLC evaluates
on every run that extends them.

Only model-checked:

* `CallsReturn` and `LoneClientAnswered`: liveness under fairness is beyond the
  prover;
* `AnswerComputesSource`, `ReuseNeedsEqualMembers`, `CacheKeepsDescriptors` and
  `KeyIsOfWhatIsCompiled`: requests and descriptors go through `JsonText` and
  `DescriptorCodec`, whose printer and parser are recursive operators over nested
  values, which the prover does not take, and digests are `ToString`, of which it
  knows nothing. The part of `ReuseNeedsEqualMembers` that is about keys is proved
  (`EqualKeysMeanEqualRequests`, `ReuseIsForEqualRequests`);
* `MetadataIsWhatWasWritten`: it rests on the digest at the end of the file. The
  model's digest has a bounded range, as the program's has, so some damage to some
  file collides; the statement holds for the values and damages of the run and is
  false for arbitrary ones.

## 6. Not modelled

* Toolchain probe: runs compilers and reads their versions; it keeps no state.
* Observability: counters and events no decision reads.
* CLI and benchmark: argument parsing and printing.
* The CUDA device probe (`listTargets`, `defaultTarget`), the text of generated
  kernels, and `executeSmoke()`, which hashes a buffer.
* Opening, binding and closing sockets; a client's reconnection (there is none).
* SHA-256, random identifiers and time.
* Fractions: the numbers of `CpuProgram` are whole, so rounding happens only to
  large values.
* Data races on plain memory (the backend map, a channel destroyed while another
  thread sends on it) appear only with the outcomes a closed connection shows.

## 7. State of the work

Modelled and proved in this order: `FabricCore`, `CompileService` and the
refinement, `ArtifactStore`, `Coordinator`, `Deployment` over restarts, the codecs and
keys with `RequestPath` and `ByteChannel`, the backends, `Lifecycle`. Every
invariant and action property of a passing run has a theorem, except those listed
as only model-checked in section 5.

Left open: recursion over nested JSON values in a form the prover takes, which the
properties of `RequestPath` would need, and the identity of artifacts under
`Deployment` within the life of one process (over several it is refuted by
`restart_identity`).
