---------------------------- MODULE CompilationKey ----------------------------
(***************************************************************************)
(* From a request to its compilation key: CompilationFabric::plan(),       *)
(* makeTc() and buildCompilationKey().  A key is the function from the     *)
(* tags that are present to their values.  put() keeps the fields sorted   *)
(* by tag and replaces an earlier value, and operator== compares the       *)
(* fields as such a function, so the order of the setters cannot matter.   *)
(* Texts are sequences, the empty text is <<>>; an absent digest or        *)
(* identifier is "zero".                                                   *)
(***************************************************************************)
EXTENDS Integers, Sequences

CONSTANTS CudaAvailable,   \* CudaBackend::api()->available()
          AllowCuda,       \* config.allowCuda
          Environment      \* config.environmentFingerprint

ASSUME PlatformAssumption ==
    /\ CudaAvailable \in BOOLEAN
    /\ AllowCuda \in BOOLEAN

(* The fabric's constructor: the CUDA backend serves two names.            *)
Backends == {<<"cpu">>} \cup
            (IF AllowCuda /\ CudaAvailable THEN {<<"cuda-nvrtc">>, <<"cuda-nvcc">>} ELSE {})

IsSm(text) == text # <<>> /\ text[1] \in {"sm_120", "sm_90"}

(* An explicit backend must be registered, except that cuda-nvcc may be    *)
(* asked for without being there.                                          *)
PlanRefused(r) ==
    r.backend # <<>> /\ r.backend \notin Backends /\ r.backend # <<"cuda-nvcc">>

WantCuda(r) == \/ r.backend \in {<<"cuda-nvrtc">>, <<"cuda-nvcc">>}
               \/ IsSm(r.targetArchitecture) \/ r.computeCapability # <<>> \/ IsSm(r.isa)

PlanBackend(r) ==
    IF WantCuda(r) /\ CudaAvailable /\ <<"cuda-nvrtc">> \in Backends
    THEN IF r.backend = <<"cuda-nvcc">> THEN <<"cuda-nvcc">> ELSE <<"cuda-nvrtc">>
    ELSE <<"cpu">>
OnCuda(backend) == backend \in {<<"cuda-nvrtc">>, <<"cuda-nvcc">>}

(* The target of the plan.  The advertised CUDA target of the constructor  *)
(* is the starting point for a CUDA plan.                                  *)
PlanTarget(r) ==
    IF OnCuda(PlanBackend(r))
    THEN LET arch == IF r.targetArchitecture = <<>> THEN <<"sm_120">> ELSE r.targetArchitecture
         IN [vendor |-> "Nvidia", family |-> "NvidiaBlackwell", architecture |-> arch,
             computeCapability |-> IF r.computeCapability = <<>> THEN <<"12.0">>
                                   ELSE r.computeCapability,
             isa |-> arch, abi |-> <<"cuda">>, kernelABI |-> <<"nvrtc">>, graphABI |-> <<>>]
    ELSE [vendor |-> "CPU", family |-> "X86_64", architecture |-> <<"host-x86_64">>,
          computeCapability |-> <<>>, isa |-> <<"x86_64">>, abi |-> <<"sysv64">>,
          kernelABI |-> <<>>, graphABI |-> <<>>]

Plan(r) == [backend |-> PlanBackend(r), target |-> PlanTarget(r), request |-> r]

(* The plan a coordinator goes on with when plan() refused the request.    *)
NoPlan(blank) == [backend |-> <<>>, request |-> blank,
                  target |-> [vendor |-> "Unknown", family |-> "Unknown", architecture |-> <<>>,
                              computeCapability |-> <<>>, isa |-> <<>>, abi |-> <<>>,
                              kernelABI |-> <<>>, graphABI |-> <<>>]]

NoTc == [frontend |-> <<>>, frontendVersion |-> <<>>, compiler |-> <<>>,
         compilerVersion |-> <<>>, backend |-> <<>>, backendVersion |-> <<>>,
         codeGenerator |-> <<>>, optimizer |-> <<>>, linker |-> <<>>, runtime |-> <<>>,
         driver |-> <<>>, driverVersion |-> <<>>, environment |-> <<>>]

(* makeTc(): both CUDA backends have one context.                          *)
MakeTc(p) ==
    LET common == [NoTc EXCEPT !.frontend = <<"cf-frontend">>, !.frontendVersion = <<"1.0.0">>,
                               !.environment = Environment]
    IN IF OnCuda(p.backend)
       THEN [common EXCEPT !.compiler = <<"nvrtc">>, !.compilerVersion = <<"nvrtc-version">>,
                           !.backend = <<"cuda-nvrtc">>, !.backendVersion = <<"nvrtc-version">>,
                           !.codeGenerator = <<"nvrtc">>, !.optimizer = <<"nvrtc-opt">>,
                           !.linker = <<"nvrtc">>, !.runtime = <<"cuda-driver">>,
                           !.driver = <<"nvidia">>, !.driverVersion = <<"driver-version">>]
       ELSE [common EXCEPT !.compiler = <<"cf-cpu">>, !.compilerVersion = <<"1.0.0">>,
                           !.backend = <<"cpu">>, !.backendVersion = <<"1.0.0">>,
                           !.codeGenerator = <<"cf-cpu-codegen">>, !.optimizer = <<"cf-cpu-opt">>,
                           !.linker = <<"cf-cpu-link">>, !.runtime = <<"cf-cpu-runtime">>]

(* The context the coordinator makes up for its own keys.                  *)
CoordinatorTc == [NoTc EXCEPT !.compiler = <<"cf-cpu">>, !.backend = <<"cpu">>,
                              !.frontend = <<"cf-frontend">>]

(* The fields of two groups of setters.                                    *)
f ++ g == [tag \in DOMAIN f \cup DOMAIN g |-> IF tag \in DOMAIN f THEN f[tag] ELSE g[tag]]

(* The fields that are set only when they differ from their empty value.   *)
NonEmpty(fields, empty) == [t \in {t \in DOMAIN fields : fields[t] # empty} |-> fields[t]]
OrElse(v, empty, w)     == IF v # empty THEN v ELSE w

ToolchainFields(t) ==
    NonEmpty([Frontend |-> t.frontend, FrontendVersion |-> t.frontendVersion,
              Compiler |-> t.compiler, CompilerVersion |-> t.compilerVersion,
              Backend |-> t.backend, BackendVersion |-> t.backendVersion,
              CodeGenerator |-> t.codeGenerator, Optimizer |-> t.optimizer,
              Linker |-> t.linker, Runtime |-> t.runtime, Driver |-> t.driver,
              DriverVersion |-> t.driverVersion, EnvFingerprint |-> t.environment], <<>>)

TargetFields(r, p) ==
    [AcceleratorVendor |-> p.target.vendor, AcceleratorFamily |-> p.target.family] ++
    NonEmpty([TargetArchitecture |-> OrElse(p.target.architecture, <<>>, r.targetArchitecture),
              ComputeCapability |-> OrElse(p.target.computeCapability, <<>>, r.computeCapability),
              ISA |-> OrElse(p.target.isa, <<>>, r.isa),
              ABI |-> OrElse(p.target.abi, <<>>, r.abi),
              KernelABI |-> OrElse(p.target.kernelABI, <<>>, r.kernelABI),
              GraphABI |-> p.target.graphABI], <<>>)

SourceFields(r) ==
    [LogicalOperation |-> r.logicalOperation, SourceIdentity |-> r.sourceDigest,
     SourceDigest |-> r.sourceDigest, SourceContent |-> r.source] ++
    NonEmpty([IRIdentity |-> r.irDigest, IRDigest |-> r.irDigest], "zero")

SpecializationFields(r, p) ==
    [Datatype |-> OrElse(r.datatype, "None", p.request.datatype),
     Layout |-> OrElse(r.layout, "None", p.request.layout),
     Rank |-> OrElse(r.rank, 0, p.request.rank),
     StaticShape |-> OrElse(r.staticShape, <<>>, p.request.staticShape),
     Alignment |-> OrElse(r.alignment, 0, p.request.alignment),
     DebugRelease |-> r.debugRelease,
     RuntimeCompatibilityGeneration |-> 0, CompilerPolicyGeneration |-> 0] ++
    NonEmpty([Quantization |-> r.quantization, Precision |-> r.precision], "None") ++
    NonEmpty([Determinism |-> r.determinism, Reproducibility |-> r.reproducibility],
             "Unspecified")

\* Mutation: the tenant is no part of the key.
TenantFree(r) ==
    NonEmpty([IRFormat |-> r.irFormat, SymbolicShape |-> r.symbolicShape,
              LaunchSpecialization |-> r.launchSpecialization,
              ScalarConstants |-> r.scalarConstants, FeatureFlags |-> r.featureFlags,
              OptimizationFlags |-> r.optimizationFlags, CodegenFlags |-> r.codegenFlags,
              DependencyIdentities |-> r.dependencyIdentities,
              DependencyGenerations |-> r.dependencyGenerations,
              ModelRevision |-> r.modelRevision, Namespace |-> r.namespaceName], <<>>)
TextFields(r) ==
    NonEmpty([IRFormat |-> r.irFormat, SymbolicShape |-> r.symbolicShape,
              LaunchSpecialization |-> r.launchSpecialization,
              ScalarConstants |-> r.scalarConstants, FeatureFlags |-> r.featureFlags,
              OptimizationFlags |-> r.optimizationFlags, CodegenFlags |-> r.codegenFlags,
              DependencyIdentities |-> r.dependencyIdentities,
              DependencyGenerations |-> r.dependencyGenerations,
              ModelRevision |-> r.modelRevision, Namespace |-> r.namespaceName,
              Tenant |-> r.tenant], <<>>)

BuildCompilationKey(r, p, t) ==
    SourceFields(r) ++ ToolchainFields(t) ++ TargetFields(r, p)
    ++ SpecializationFields(r, p) ++ TextFields(r)

(* ---------------------------- reuse decision --------------------------- *)
(* reasonForKeyField(): the kind of change a differing field stands for.   *)
FieldsOf ==
    [SourceChanged |-> {"LogicalOperation", "SourceIdentity", "SourceDigest", "SourceContent"},
     IRChanged |-> {"IRIdentity", "IRDigest", "IRFormat", "IRContent"},
     CompilerChanged |-> {"Frontend", "FrontendVersion", "Compiler", "CompilerVersion"},
     BackendChanged |-> {"Backend", "BackendVersion"},
     OptimizerChanged |-> {"CodeGenerator", "Optimizer", "OptimizerVersion", "Linker",
                           "LinkerVersion"},
     RuntimeGenerationChanged |-> {"Runtime", "RuntimeVersion",
                                   "RuntimeCompatibilityGeneration"},
     ArchitectureChanged |-> {"Driver", "DriverVersion", "TargetArchitecture",
                              "ComputeCapability", "ISA", "AcceleratorVendor",
                              "AcceleratorFamily"},
     ABIChanged |-> {"ABI", "CallingConvention", "KernelABI", "GraphABI"},
     DatatypeChanged |-> {"Datatype"}, LayoutChanged |-> {"Layout"},
     ShapeChanged |-> {"Rank", "StaticShape", "SymbolicShape"},
     QuantizationChanged |-> {"Alignment", "Quantization"},
     PrecisionChanged |-> {"Precision"},
     SpecializationChanged |-> {"LaunchSpecialization", "ScalarConstants", "FeatureFlags",
                                "OptimizationFlags", "CodegenFlags", "DebugRelease",
                                "Determinism", "Reproducibility", "ModelRevision",
                                "OperatorRevision"},
     DependencyGenerationChanged |-> {"DependencyIdentities", "DependencyGenerations"},
     ToolchainGenerationChanged |-> {"CompilerPolicyGeneration"},
     EnvironmentFingerprint |-> {"EnvFingerprint"}, Policy |-> {"Namespace", "Tenant"}]
ReasonForKeyField(f) == CHOOSE reason \in DOMAIN FieldsOf : f \in FieldsOf[reason]

(* fieldDiffs(): the tags on which two keys differ.                        *)
FieldDiffs(a, b) ==
    {t \in DOMAIN a \cup DOMAIN b :
        ~(t \in DOMAIN a /\ t \in DOMAIN b /\ a[t] = b[t])}
Reasons(a, b) == {ReasonForKeyField(t) : t \in FieldDiffs(a, b)}

RefusedState == {"", "Corrupt", "Invalidated", "Retired", "Invalid", "Failed", "Cancelled"}

(* decide(): the kind of reuse, or "recompile".                            *)
Decide(artifactKey, requestKey, state, policy) ==
    LET reasons == Reasons(artifactKey, requestKey)
        soft    == {"EnvironmentFingerprint", "ArchitectureChanged", "Policy"}
    IN CASE state \in RefusedState -> "refused"
         [] state \notin RefusedState /\ reasons = {} -> "exact"
         [] OTHER ->
              IF reasons = {"ArchitectureChanged"} /\ policy.allowEquivalentTarget
              THEN "equivalent-target"
              ELSE IF reasons \subseteq soft /\ "EnvironmentFingerprint" \in reasons
                      /\ ~policy.strictEnvironment
              THEN "runtime-validation"
              ELSE "recompile"
=============================================================================
