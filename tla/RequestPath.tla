----------------------------- MODULE RequestPath -----------------------------
(***************************************************************************)
(* What becomes of a request: from the client over the wire to the         *)
(* coordinator and on to a worker, or into a local fabric whose cache is   *)
(* persisted and recovered; the key it is filed under; the program the CPU *)
(* backend makes of it; and the artifact that answers it.  Each request is *)
(* handled in a few large steps: their interleavings are the subject of    *)
(* Coordinator and FabricCore, this module is about what the data mean.    *)
(***************************************************************************)
EXTENDS DescriptorCodec, CompilationKey, CpuProgram

CONSTANTS Requests,      \* the requests callers may make
          MaxRestarts    \* bound on restarts of the local fabric

Slots == 1 .. 2
None  == [artifact |-> "none"]

VARIABLES sent,        \* the requests as their callers made them
          stage,       \* how far each has come
          seen,        \* the request as the compiling process sees it
          key,         \* its key there
          exe,         \* the executable built for it
          result,      \* the worker's result, on its way back
          published,   \* coordinator: published_, by key
          cache,       \* fabric: cache, by key
          disk,        \* fabric: persisted records, by artifact id
          counter,     \* fabric: artifactCounter
          restarts,    \* restarts so far
          committed,   \* history: descriptors as they were committed, by slot
          answer       \* the result each caller got

wireVars   == <<result, published>>
fabricVars == <<cache, disk, counter, restarts, committed>>
pathVars   == <<sent, stage, seen, key, exe, wireVars, fabricVars, answer>>

PathStart(first) ==
    /\ sent \in [Slots -> Requests]
    /\ stage = [i \in Slots |-> first]
    /\ seen = [i \in Slots |-> sent[i]]
    /\ key = [i \in Slots |-> <<>>]
    /\ exe = [i \in Slots |-> <<>>]
    /\ result = [i \in Slots |-> None]
    /\ published = <<>>
    /\ cache = <<>> /\ disk = <<>> /\ counter = 0 /\ restarts = 0
    /\ committed = [i \in Slots |-> None]
    /\ answer = [i \in Slots |-> None]

PathInit == PathStart("new")

DigestOf(x) == ToString(x)

(* -------------------------- over the coordinator ----------------------- *)
\* handleClientFrame() goes on with an empty plan when planning fails.
CoordinatorKey(r) ==
    BuildCompilationKey(r, IF PlanRefused(r) THEN NoPlan(Default(CompilationRequest)) ELSE Plan(r),
                        CoordinatorTc)

\* resultFromJson(): planId and reused are not read.
ResultFromJson(d) == [d EXCEPT !.planId = "zero", !.reused = FALSE]
\* encodeResult() and decodeResult(): errorMessage is not read.
ToClient(d) == [Hop(CompilationResult, d) EXCEPT !.errorMessage = <<>>]

\* Submit: decoded, keyed, and answered from published_ or dispatched.
SubmitAs(i, r, k) ==
    /\ key' = [key EXCEPT ![i] = k]
    /\ IF k \in DOMAIN published
       THEN /\ stage' = [stage EXCEPT ![i] = "answered"]
            /\ answer' = [answer EXCEPT ![i] =
                   ToClient([ResultFromJson(published[k]) EXCEPT !.reused = TRUE])]
            /\ seen' = [seen EXCEPT ![i] = r]
       ELSE /\ stage' = [stage EXCEPT ![i] = "dispatched"]
            /\ seen' = [seen EXCEPT ![i] = Hop(CompilationRequest, r)]
            /\ UNCHANGED answer
    /\ UNCHANGED <<sent, exe, wireVars, fabricVars>>

SubmitRequest(i) ==
    /\ stage[i] = "new"
    /\ \E r \in {Hop(CompilationRequest, sent[i])} : SubmitAs(i, r, CoordinatorKey(r))

\* The worker compiles what it decoded and reports.  Workers of either kind use the
\* CPU backend; the JSON of a result carries a digest and no bytes.
WorkerResult(r, bytes) ==
    [Default(CompilationResult) EXCEPT
        !.requestId = r.requestId, !.artifactId = DigestOf(r.requestId), !.generation = 1,
        !.validated = TRUE, !.deployable = TRUE, !.referenceMatched = TRUE,
        !.backendUsed = <<"cpu">>, !.artifact.backend.id = <<"cpu">>,
        !.artifact.specialization.datatype = Reconcile(ParseSource(r.source), r).datatype,
        !.artifact.contentDigest = DigestOf(bytes), !.artifact.validation.passed = TRUE]

Report(i, bytes) ==
    IF bytes # <<>> /\ Validates(bytes)
    THEN /\ exe' = [exe EXCEPT ![i] = bytes]
         /\ result' = [result EXCEPT ![i] = WorkerResult(seen[i], bytes)]
         /\ stage' = [stage EXCEPT ![i] = "compiled"]
    ELSE stage' = [stage EXCEPT ![i] = "dropped"] /\ UNCHANGED <<exe, result>>

WorkerCompile(i) ==
    /\ stage[i] = "dispatched"
    /\ Report(i, Compile(seen[i], seen[i].optimizeLevel))
    /\ UNCHANGED <<sent, seen, key, published, fabricVars, answer>>

\* The coordinator files the result under the request's key and passes it on.
PublishResult(i) ==
    LET json == Hop(CompilationResult, result[i])
    IN /\ stage[i] = "compiled"
       /\ published' = (key[i] :> json) @@ published
       /\ answer' = [answer EXCEPT ![i] = ToClient(ResultFromJson(json))]
       /\ stage' = [stage EXCEPT ![i] = "answered"]
       /\ UNCHANGED <<sent, seen, key, exe, result, fabricVars>>

(* ----------------------------- local fabric ---------------------------- *)
DefaultPolicy == [allowEquivalentTarget |-> FALSE, strictEnvironment |-> TRUE]
FabricKey(r)  == BuildCompilationKey(r, Plan(r), MakeTc(Plan(r)))

\* Autotuning tries level 0 and the request's own; the fastest that validates
\* wins, and which one that is depends on the clock.
Levels(r) == IF r.autotune /\ r.autotuneCandidates > 1
             THEN {0, IF r.optimizeLevel > 1 THEN r.optimizeLevel ELSE 1}
             ELSE {r.optimizeLevel}

\* The descriptor compile() commits: plan p, reconciled program c, key k.
Descriptor(r, p, c, k, id, bytes) ==
    [Default(ArtifactDescriptor) EXCEPT
          !.id = ToString(id), !.generation = id, !.format = "Bytecode",
          !.contentDigest = DigestOf(bytes), !.byteSize = Len(bytes),
          !.keyDigest = DigestOf(k), !.state = <<"Deployable">>,
          !.backend.id = <<"cpu">>, !.compiler.id = <<"cf-cpu">>,
          !.target.vendor = p.target.vendor, !.target.family = p.target.family,
          !.target.architecture = p.target.architecture, !.target.isa = p.target.isa,
          !.target.abi = p.target.abi, !.target.deviceCount = 1,
          !.specialization.datatype = c.datatype, !.specialization.shape = <<c.shapeN>>,
          !.specialization.launchSpecialization = r.launchSpecialization,
          !.provenance.requestId = r.requestId,
          !.provenance.attemptId = ToString(id - 1), !.validation.passed = TRUE,
          !.deployment.deployable = TRUE, !.deployment.runtimeCompatible = TRUE,
          !.deployment.architectureValidated = TRUE, !.deployment.generationValidated = TRUE,
          !.deployment.method = <<"cpu-execute">>]

LocalResult(i, d, reused) ==
    [Default(CompilationResult) EXCEPT !.requestId = sent[i].requestId, !.artifactId = d.id,
        !.generation = d.generation, !.artifact = d, !.reused = reused]

\* The cached entry counts its reuses; the stored record does not.
Reused(d) == [d EXCEPT !.reuseCount = @ + 1]
ReuseCached(i, k) ==
    /\ cache' = [cache EXCEPT ![k] = Reused(@)]
    /\ answer' = [answer EXCEPT ![i] = LocalResult(i, Reused(cache[k]), TRUE)]
    /\ stage' = [stage EXCEPT ![i] = "answered"]
    /\ UNCHANGED <<exe, disk, counter, restarts, committed>>

\* The commit: cache, persistence and answer.
Commit(i, k, bytes, d) ==
    /\ exe' = [exe EXCEPT ![i] = bytes]
    /\ cache' = (k :> d) @@ cache
    /\ disk' = (d.id :> [key |-> k, json |-> Dump(ToJson(ArtifactDescriptor, d))]) @@ disk
    /\ committed' = [committed EXCEPT ![i] = d]
    /\ answer' = [answer EXCEPT ![i] = LocalResult(i, d, FALSE)]
    /\ stage' = [stage EXCEPT ![i] = "answered"]
    /\ UNCHANGED restarts

\* The build: the counter numbers the attempt and then the artifact, and bytes
\* that do not validate are not committed.
BuildArtifact(i, k, bytes) ==
    /\ counter' = counter + (IF bytes # <<>> THEN 2 ELSE 1)
    /\ IF bytes # <<>> /\ Validates(bytes)
       THEN Commit(i, k, bytes,
                   Descriptor(sent[i], Plan(sent[i]), Reconcile(ParseSource(sent[i].source), sent[i]),
                              k, counter + 2, bytes))
       ELSE /\ stage' = [stage EXCEPT ![i] = "failed"]
            /\ UNCHANGED <<exe, cache, disk, restarts, committed, answer>>

CompileUnder(i, k) ==
    /\ key' = [key EXCEPT ![i] = k]
    /\ IF k \in DOMAIN cache /\ Decide(k, k, cache[k].state[1], DefaultPolicy) = "exact"
       THEN ReuseCached(i, k)
       ELSE \E level \in Levels(sent[i]) : BuildArtifact(i, k, Compile(sent[i], level))
    /\ UNCHANGED <<sent, seen, wireVars>>

CompileLocally(i) ==
    /\ stage[i] = "new" /\ ~PlanRefused(sent[i])
    /\ CompileUnder(i, FabricKey(sent[i]))

RefuseLocally(i) ==
    /\ stage[i] = "new" /\ PlanRefused(sent[i])
    /\ stage' = [stage EXCEPT ![i] = "failed"]
    /\ UNCHANGED <<sent, seen, key, exe, wireVars, fabricVars, answer>>

\* A new process opens the store and recovers: every record is decoded and put
\* into the cache under its key.
Recovered(rec) == [FromJson(ArtifactDescriptor, Parse(rec.json).val)
                      EXCEPT !.deployment.moduleResident = FALSE]
Restart ==
    /\ restarts < MaxRestarts /\ disk # <<>>
    /\ restarts' = restarts + 1
    /\ counter' = 0
    /\ cache' = [k \in {disk[id].key : id \in DOMAIN disk} |->
                    Recovered(disk[CHOOSE id \in DOMAIN disk : disk[id].key = k])]
    /\ UNCHANGED <<sent, stage, seen, key, exe, wireVars, disk, committed, answer>>

PathNext ==
    \/ \E i \in Slots : SubmitRequest(i) \/ WorkerCompile(i) \/ PublishResult(i)
                        \/ CompileLocally(i) \/ RefuseLocally(i)
    \/ Restart

-----------------------------------------------------------------------------
Answered(i) == stage[i] = "answered"
Remote(i)   == DOMAIN result[i] # {"artifact"} \/ (Answered(i) /\ answer[i].artifact.id = "zero")

\* The executable whose digest an answer names, loaded and run.
BuiltFor(i) == CHOOSE j \in Slots : /\ exe[j] # <<>>
                                    /\ DigestOf(exe[j]) = answer[i].artifact.contentDigest
RunAnswer(i, seed) == Execute(Loaded(Decode(exe[BuiltFor(i)]).value), seed)

\* What a caller's own source computes, nothing optimised away.  Over the wire a
\* request arrives without its datatype (see DistinctSpecializations).
AskedFor(i) == Reconcile(ParseSource(sent[i].source),
                         IF Remote(i) THEN [sent[i] EXCEPT !.datatype = "None"] ELSE sent[i])

\* Every answer, freshly built at any optimisation level, autotuned, reused from
\* another request or recovered from disk, computes what the caller's own source
\* computes: escaping, decoding, keys, folding and the artifact format keep the
\* meaning of a program (CpuBackend.cpp: variants remain "semantically equal").
AnswerComputesSource ==
    \A i \in Slots : Answered(i) =>
        \A seed \in {0, 4} : SameOutput(RunAnswer(i, seed), Execute(AskedFor(i), seed))

\* Members of a request that its key leaves out, and those the wire loses.
Unkeyed == {"requestId", "backend", "compilerId", "frontend", "sourceLanguage", "autotune",
            "autotuneCandidates", "autotuneSeed", "blockSize", "unrollFactor",
            "offlinePreferred", "optimizeLevel", "targetArchitecture", "computeCapability",
            "isa", "abi"}
IsEnum(m) == CompilationRequest[m] \in DOMAIN Enums
SameMember(m, a, b) ==
    CASE CompilationRequest[m] = "num"  -> OverWire(a) = OverWire(b)
      [] CompilationRequest[m] = "nums" -> Map(OverWire, a) = Map(OverWire, b)
      [] OTHER -> a = b

\* An answer reused from another caller's request is reused only if the two
\* requests agree in every member of the key (namespace, tenant, source, shape and
\* so on), but for what the wire loses: enumerations, and the low digits of integers
\* and shapes that a double, or the text of one beyond an int64_t, does not hold.
ReuseNeedsEqualMembers ==
    \A i \in Slots : Answered(i) /\ answer[i].reused =>
        \E j \in Slots \ {i} : /\ exe[j] # <<>> /\ Remote(i) = Remote(j)
            /\ \A m \in DOMAIN CompilationRequest \ Unkeyed :
                 \/ sent[i][m] = sent[j][m]
                 \/ Remote(i) /\ (IsEnum(m) \/ SameMember(m, sent[i][m], sent[j][m]))

\* Two descriptors agree but for enumerations without a readable name.
RECURSIVE Agree(_, _, _)
Agree(schema, a, b) ==
    \A m \in DOMAIN schema :
        CASE schema[m] \in DOMAIN Schemas -> Agree(Schemas[schema[m]], a[m], b[m])
          [] schema[m] \in DOMAIN Enums \ {"ArtifactFormat"} -> TRUE
          [] OTHER -> a[m] = b[m]

\* A cached artifact, recovered over any number of restarts, is the one committed
\* under its key: identity, generation, state, digests, shape and provenance are
\* those of the commit (decodeMeta() and ArtifactDescriptor::fromJson()); only the
\* reuse count moves on.
CacheKeepsDescriptors ==
    \A k \in DOMAIN cache : \E i \in Slots :
        /\ key[i] = k /\ committed[i] # None
        /\ Agree(ArtifactDescriptor, [cache[k] EXCEPT !.reuseCount = 0], committed[i])

\* What a worker compiles is what the coordinator keyed: a second trip over the
\* wire changes nothing more.
KeyIsOfWhatIsCompiled ==
    \A i \in Slots : stage[i] \in {"dispatched", "compiled"} => key[i] = CoordinatorKey(seen[i])

\* docs/specialization.md: "distinct specialization creates distinct artifact
\* identity".
Specialization(r) == <<r.staticShape, r.datatype, r.layout, r.quantization, r.precision,
                       r.scalarConstants, r.launchSpecialization, r.featureFlags,
                       r.modelRevision>>
DistinctSpecializations ==
    \A i \in Slots : Answered(i) /\ answer[i].reused =>
        \E j \in Slots \ {i} : Specialization(sent[i]) = Specialization(sent[j])
=============================================================================
