---------------------------- MODULE CudaBackend ----------------------------
(***************************************************************************)
(* The CUDA backend (Cuda.cpp): loading NVRTC and the driver, compiling    *)
(* the last operation of a source to a kernel, validating the kernel by    *)
(* launching it once and comparing with the CPU, and loading it as a       *)
(* module.  Every call into the libraries is a step that may fail; several *)
(* threads use the backend at once.                                        *)
(***************************************************************************)
EXTENDS CpuProgram, FiniteSets

CONSTANTS CudaThreads,   \* threads inside the backend
          CudaRequests,  \* requests planned for a CUDA backend
          Libraries,     \* what may be installed: sets of libraries and entry points
          Seeds,         \* seeds a key digest may give
          MaxBlock,      \* 1024, the largest block of a reduction
          MaxArtifacts,  \* bound on artifacts that passed validation
          MaxModules     \* bound on modules alive at once

ASSUME CudaAssumption ==
    /\ MaxBlock \in {TwoTo[k] : k \in 0 .. 10}
    /\ MaxArtifacts \in Nat /\ MaxModules \in Nat
    /\ \A w \in CudaThreads : w \notin 1 .. MaxModules   \* threads and modules have different names
    /\ \A r \in CudaRequests : r.staticShape \in Seq(Nat) /\ r.rank \in Nat
    /\ Seeds \subseteq Int
    \* No NVRTC comes without nvrtcDestroyProgram; cleanupProg() would leave the program.
    /\ \A installed \in Libraries : "nvrtc.dll" \in installed => "nvrtcDestroyProgram" \in installed

VARIABLES
    api,        \* the process-wide CudaApi: "unloaded", "available" or "error"
    handles,    \* live objects of the libraries, each with the object it was made for
    thread,     \* per thread: the backend call it is in
    artifacts,  \* descriptors of executables that passed validation
    modules     \* CudaLoadedModules alive

cudaVars == <<api, handles, thread, artifacts, modules>>

(* ------------------------------- ensure() ------------------------------ *)
NvrtcEntries  == {"nvrtcCreateProgram", "nvrtcCompileProgram", "nvrtcGetProgramLogSize",
                  "nvrtcGetProgramLog"}
DriverEntries == {"cuInit", "cuDeviceGetCount", "cuModuleLoadData", "cuLaunchKernel",
                  "cuCtxSynchronize"}
\* The entry points without which ensure() leaves an error; the others may be null.
Ensured(installed) ==
    /\ {"nvrtc.dll", "nvcuda.dll"} \subseteq installed
    /\ NvrtcEntries \cup DriverEntries \subseteq installed

\* call_once: the first getApi() decides, for the life of the process.
Ensure ==
    /\ api = "unloaded"
    /\ \E installed \in Libraries, initialised \in BOOLEAN :
          api' = IF Ensured(installed) /\ initialised THEN "available" ELSE "error"
    /\ UNCHANGED <<handles, thread, artifacts, modules>>

(* ------------------------------ the kernel ----------------------------- *)
Reductions == {"sum", "max", "min"}
\* opNameFor(): everything that is not an operation of its own copies its input.
OpName(kind) == IF kind = "nop" THEN "id" ELSE kind

DefaultSpec == [op |-> "scale", scalar |-> 1, reduce |-> FALSE]
\* The spec of a request: the last operation of its source, a shape that the
\* source has no say in, and the request's datatype.
SpecOf(r) ==
    LET p == ParseSource(r.source)
        op == p.ops[Len(p.ops)]
        base == IF ~p.ok THEN DefaultSpec
                ELSE [op |-> OpName(op.kind), scalar |-> op.scalar, reduce |-> op.kind \in Reductions]
        n == IF r.staticShape # <<>> THEN r.staticShape[1]
             ELSE IF r.rank # 0 THEN r.rank ELSE DefaultShape
    IN [op |-> base.op, reduce |-> base.reduce, n |-> n,
        scalar |-> IF base.op = "scale" /\ base.scalar = 0 THEN 1 ELSE base.scalar,
        dt |-> IF r.datatype # "None" THEN r.datatype ELSE "F32"]

\* encode() and parse(): the datatype is written with datatypeName() and not found
\* by datatypeFromName(), so the parsed spec has the default; the six decimals of
\* to_string() keep a whole number.
ParsedSpec(launch) == [launch EXCEPT !.dt = "F32"]

\* Mutation: the halving stops before the last pair of a power of two.
ShortHalves(b) == [i \in 1 .. Cardinality({k \in 1 .. b : TwoTo[k] < b}) |-> b \div TwoTo[i]]
\* The strides of the halving loop: b \div 2 and on, down to 1.
Halves(b) == [i \in 1 .. Cardinality({k \in 1 .. b : TwoTo[k] <= b}) |-> b \div TwoTo[i]]

\* generateKernel(), run by one block of b threads that work in the type T of the
\* kernel, k = [op, dt]: every partial result is a T.  First every thread folds the
\* elements b apart from its own, then half of the threads at a time add the other
\* half to theirs.
Accumulate(k, x, y) == Round(Combine(k.op, x, y), k.dt)
Halve(k, sh, st) ==
    [t \in DOMAIN sh |-> IF t <= st THEN Accumulate(k, sh[t], sh[t + st]) ELSE sh[t]]
Strided(k, in, b) ==
    [t \in 1 .. b |-> FoldLeft(LAMBDA x, y : Accumulate(k, x, y), in[t],
                               [j \in 1 .. (Len(in) - t) \div b |-> in[t + j * b]])]
ReduceKernel(k, in, b) ==
    <<FoldLeft(LAMBDA sh, st : Halve(k, sh, st), Strided(k, in, b), Halves(b))[1]>>

\* The scalar is passed as a T.
ScalarArgument(spec, dt) == Value(Round(Double(spec.scalar), dt))

\* What a launch leaves in the part of the output buffer that is compared.
Launched(spec, in, dt) ==
    IF spec.reduce
    THEN ReduceKernel([op |-> spec.op, dt |-> dt], in, IF Len(in) < MaxBlock THEN Len(in) ELSE MaxBlock)
    ELSE [i \in DOMAIN in |->
            Round(Elementwise([kind |-> spec.op, scalar |-> ScalarArgument(spec, dt)], in[i]), dt)]

\* computeCudaReference(): a program of that one operation.
Reference(spec, n, dt, seed) ==
    Execute([shapeN |-> n, datatype |-> dt,
             ops |-> <<[kind |-> spec.op, scalar |-> spec.scalar, n |-> n]>>], seed)

\* fabs(got - exp) <= tol * (1 + fabs(exp)), with a tolerance of 1e-9 or 1e-3.
Near(got, exp, dt) ==
    LET distance == Value(got) - Value(exp)
        allowed == (1 + exp.mag) \div (IF dt = "F64" THEN 1000000000 ELSE 1000)
    IN Value(got) = Value(exp) \/ (distance <= allowed /\ -distance <= allowed)
SameWithin(out, ref, dt) == Len(out) = Len(ref) /\ \A i \in DOMAIN ref : Near(out[i], ref[i], dt)

Matches(a, seed) ==
    LET spec == ParsedSpec(a.spec)
        in == HostInput([shapeN |-> a.spec.n, datatype |-> a.spec.dt], seed)
    IN SameWithin(Launched(spec, in, a.spec.dt), Reference(spec, a.spec.n, a.spec.dt, seed), a.spec.dt)

(* --------------------------- library handles --------------------------- *)
\* The calls of validate() and load() up to the launch.
Calls == <<"device", "context", "module", "function", "in", "out">>
Makes(c) == c \notin {"device", "function"}

\* Mutation: a failure of the second allocation forgets the first.
LeakyReleases(c) ==
    CASE c \in {"device", "context"} -> <<>>
      [] c = "module"                -> <<"context">>
      [] c \in {"function", "in", "out"} -> <<"module", "context">>
      [] c = "end"                   -> <<"in", "out", "module", "context">>
\* What is released, in this order, when call c fails, or at the "end".
Releases(c) ==
    CASE c \in {"device", "context"} -> <<>>
      [] c = "module"                -> <<"context">>
      [] c \in {"function", "in"}    -> <<"module", "context">>
      [] c = "out"                   -> <<"in", "module", "context">>
      [] c = "end"                   -> <<"in", "out", "module", "context">>

NoSpec == [spec |-> <<>>, of |-> <<>>]
At(position, call, release, a) == [in |-> position, call |-> call, release |-> release, a |-> a]
IdleThread == At("idle", 0, <<>>, NoSpec)
Handle(kind, w) == [kind |-> kind, by |-> w]

CudaInit ==
    /\ api = "unloaded" /\ handles = {} /\ artifacts = {} /\ modules = {}
    /\ thread = [w \in CudaThreads |-> IdleThread]

Leave(w) == thread' = [thread EXCEPT ![w] = IdleThread]
Become(w, position) == thread' = [thread EXCEPT ![w].in = position]

(* ------------------------------- compile() ----------------------------- *)
\* checkCompatible() knows these architectures, "" among them.
Architectures == {"", "sm_120", "sm_121", "sm_100", "sm_110", "sm_103", "sm_90"}
Offline(r) == r.backend = "cuda-nvcc" \/ r.offlinePreferred

\* nvrtcCreateProgram(), or the temporary directory of compileWithNvcc().
BeginCompile(w, r) ==
    /\ api = "available" /\ thread[w].in = "idle" /\ Cardinality(artifacts) < MaxArtifacts
    /\ r.targetArchitecture \in Architectures
    /\ handles' = handles \cup {Handle(IF Offline(r) THEN "directory" ELSE "program", w)}
    /\ thread' = [thread EXCEPT ![w] = At("compiling", 0, <<>>, [spec |-> SpecOf(r), of |-> r])]
    /\ UNCHANGED <<api, artifacts, modules>>

\* The compiler returns and its program or directory is removed on either path, by
\* cleanupProg() or remove_all().
Destroyed(w) == handles \ {Handle("program", w), Handle("directory", w)}
CompileFails(w) ==
    /\ thread[w].in = "compiling" /\ handles' = Destroyed(w) /\ Leave(w)
    /\ UNCHANGED <<api, artifacts, modules>>
Compiled(w) ==
    /\ thread[w].in = "compiling" /\ handles' = Destroyed(w)
    /\ thread' = [thread EXCEPT ![w].in = "validate", ![w].call = 1]
    /\ UNCHANGED <<api, artifacts, modules>>

(* ------------------------ validate() and load() ------------------------ *)
BeginLoad(w, a) ==
    /\ thread[w].in = "idle" /\ Cardinality(modules) < MaxModules
    /\ thread' = [thread EXCEPT ![w] = At("load", 1, <<>>, a)]
    /\ UNCHANGED <<api, handles, artifacts, modules>>

Calling(w) == thread[w].in \in {"validate", "load"} /\ thread[w].call <= Len(Calls)
CallSucceeds(w) ==
    LET c == Calls[thread[w].call] IN
    /\ Calling(w)
    /\ handles' = IF Makes(c) THEN handles \cup {Handle(c, w)} ELSE handles
    /\ thread' = [thread EXCEPT ![w].call = @ + 1]
    /\ UNCHANGED <<api, artifacts, modules>>
CallFails(w) ==
    /\ Calling(w)
    /\ thread' = [thread EXCEPT ![w].in = "release", ![w].release = Releases(Calls[thread[w].call])]
    /\ UNCHANGED <<api, handles, artifacts, modules>>

\* The launch, the copy back and the comparison; the verdict is kept when it passed.
Judged(w, launched, seed) ==
    /\ thread[w].in = "validate" /\ thread[w].call > Len(Calls)
    /\ artifacts' = IF launched /\ Matches(thread[w].a, seed) THEN artifacts \cup {thread[w].a} ELSE artifacts
    /\ thread' = [thread EXCEPT ![w].in = "release", ![w].release = Releases("end")]
    /\ UNCHANGED <<api, handles, modules>>

\* The module takes the handles over; its destructor will release them.
Owned(w, id) == {IF h.by = w THEN [h EXCEPT !.by = id] ELSE h : h \in handles}
FreeIds == {i \in 1 .. MaxModules : \A m \in modules : m # i}
LoadReturns(w) ==
    LET id == CHOOSE i \in FreeIds : TRUE IN
    /\ thread[w].in = "load" /\ thread[w].call > Len(Calls) /\ FreeIds # {}
    /\ handles' = Owned(w, id)
    /\ modules' = modules \cup {id}
    /\ Leave(w)
    /\ UNCHANGED <<api, artifacts>>

ReleaseOne(w) ==
    /\ thread[w].in = "release" /\ thread[w].release # <<>>
    /\ handles' = handles \ {Handle(Head(thread[w].release), w)}
    /\ thread' = [thread EXCEPT ![w].release = Tail(@)]
    /\ UNCHANGED <<api, artifacts, modules>>
ReturnReleased(w) ==
    /\ thread[w].in = "release" /\ thread[w].release = <<>> /\ Leave(w)
    /\ UNCHANGED <<api, handles, artifacts, modules>>

\* ~CudaLoadedModule() on the thread that drops the last reference.
DropModule(w, id) ==
    /\ thread[w].in = "idle"
    /\ modules' = modules \ {id}
    /\ handles' = {IF h.by = id THEN [h EXCEPT !.by = w] ELSE h : h \in handles}
    /\ thread' = [thread EXCEPT ![w] = At("release", 0, Releases("end"), NoSpec)]
    /\ UNCHANGED <<api, artifacts>>

CudaNext ==
    \/ Ensure
    \/ \E w \in CudaThreads :
         \/ \E r \in CudaRequests : BeginCompile(w, r)
         \/ CompileFails(w) \/ Compiled(w)
         \/ \E a \in artifacts : BeginLoad(w, a)
         \/ CallSucceeds(w) \/ CallFails(w)
         \/ \E launched \in BOOLEAN, seed \in Seeds : Judged(w, launched, seed)
         \/ LoadReturns(w) \/ ReleaseOne(w) \/ ReturnReleased(w)
         \/ \E id \in modules : DropModule(w, id)

CudaSpec == CudaInit /\ [][CudaNext]_cudaVars

-----------------------------------------------------------------------------
\* Every object of the libraries is released exactly once and before the context
\* it lives in, on every path through the failures of compile(), validate() and
\* load(): a thread outside the backend holds none, what a thread is about to
\* release is live, and a live buffer or module has its context.
HandlesAccounted ==
    /\ \A w \in CudaThreads : thread[w].in = "idle" => \A h \in handles : h.by # w
    /\ \A w \in CudaThreads : \A kind \in ToSet(thread[w].release) : Handle(kind, w) \in handles
    /\ \A h \in handles : h.kind \in {"module", "in", "out"} => Handle("context", h.by) \in handles
    /\ \A id \in modules : {h.kind : h \in {g \in handles : g.by = id}} = {"context", "module", "in", "out"}

\* A kernel whose arithmetic is exact: a thread per element and a scalar the type
\* holds, or a reduction that rounds nothing, by a block that can be halved.
Exact(spec) ==
    IF ~spec.reduce THEN ScalarArgument(spec, spec.dt) = spec.scalar
    ELSE /\ spec.op # "sum" \/ spec.dt # "F32"
         /\ spec.n >= MaxBlock \/ spec.n \in {TwoTo[k] : k \in 0 .. 10}

\* validate() runs a kernel on one input; where its arithmetic is exact, the kernel
\* then computes its operation on every input.
ExactKernelsAreRight ==
    \A a \in artifacts : Exact(a.spec) => \A seed \in Seeds : Matches(a, seed)

\* docs/architecture.md: the CUDA backend has "CPU-reference parity", an artifact
\* that passed validation computes what the CPU backend computes for its request.
CudaParity ==
    \A a \in artifacts :
        LET p == ParseSource(a.of.source) IN
        p.ok => \A seed \in Seeds :
            SameWithin(Launched(ParsedSpec(a.spec),
                                HostInput([shapeN |-> a.spec.n, datatype |-> a.spec.dt], seed), a.spec.dt),
                       Execute(Reconcile(p, a.of), seed), a.spec.dt)
=============================================================================
