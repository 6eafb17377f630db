--------------------------- MODULE DescriptorCodec ---------------------------
(***************************************************************************)
(* The JSON form of the descriptors, requests, plans and results           *)
(* (Descriptor.cpp, Request.cpp, Semantic.cpp).  Every toJson()/fromJson() *)
(* pair walks over the members of its struct, so a struct is modelled by   *)
(* its schema, the kind of each member, and one generic encoder and        *)
(* decoder stand for the pairs.  What is lost on the way is lost by the    *)
(* kind: enum names, numbers beyond a double, members that are not read.   *)
(***************************************************************************)
EXTENDS JsonText

(* The enumerators with a name (datatypeName() and its siblings).          *)
Datatype == {"None", "F32", "F64", "F16", "BF16", "TF32", "I8", "I16", "I32", "I64",
             "U8", "U16", "U32", "U64", "Bool", "INT4", "UINT4", "FP8_E4M3",
             "FP8_E5M2", "F8E5M2", "F8E4M3"}
Layout == {"None", "RowMajor", "ColMajor", "NCHW", "NHWC", "Blocked", "Planar",
           "Interleaved"}
QuantizationMode == {"None", "Int8", "Int4", "FP8", "DynamicInt", "DynamicFP8"}
PrecisionMode == {"None", "Full", "Reduced", "TF32", "FP16", "BF16", "Mixed"}
DeterminismMode == {"Unspecified", "Deterministic", "Stochastic"}
ReproducibilityMode == {"Unspecified", "BestEffort", "Strict"}
DebugReleaseMode == {"Debug", "Release", "RelWithDebInfo", "MinSizeRel"}
AcceleratorVendor == {"Unknown", "Nvidia", "AMD", "Intel", "CPU", "Custom"}
AcceleratorFamily == {"Unknown", "NvidiaCUDA", "NvidiaBlackwell", "NvidiaHopper",
                      "NvidiaAmpere", "AMD_HIP", "IntelOneAPI", "X86_64", "Arm64",
                      "Generic"}
ArtifactFormat == {"Unknown", "Executable", "Object", "StaticLibrary", "SharedLibrary",
                   "PTX", "CUBIN", "Fatbinary", "Bytecode", "IR", "Source", "Graph",
                   "KernelImage", "Operational"}
StageKind == {"normalize", "lower", "optimize", "codegen", "assemble", "link",
              "validate", "persist", "deploy", "skip", "not-applicable"}

Enums == [Datatype |-> Datatype, Layout |-> Layout, QuantizationMode |-> QuantizationMode,
          PrecisionMode |-> PrecisionMode, DeterminismMode |-> DeterminismMode,
          ReproducibilityMode |-> ReproducibilityMode, DebugReleaseMode |-> DebugReleaseMode,
          AcceleratorVendor |-> AcceleratorVendor, AcceleratorFamily |-> AcceleratorFamily,
          ArtifactFormat |-> ArtifactFormat]
EnumDefault == [Datatype |-> "None", Layout |-> "None", QuantizationMode |-> "None",
                PrecisionMode |-> "None", DeterminismMode |-> "Unspecified",
                ReproducibilityMode |-> "Unspecified", DebugReleaseMode |-> "Release",
                AcceleratorVendor |-> "Unknown", AcceleratorFamily |-> "Unknown",
                ArtifactFormat |-> "Unknown"]

(* NAME_CASE(x) is #x: the name of Datatype::F32 is "Datatype::F32".  Only *)
(* artifactFormatName() and stageKindName() spell their names out.         *)
EnumName(E, x) == IF E = "ArtifactFormat" THEN <<x>> ELSE <<E, "::", x>>

(* The ...FromName() functions look for the enumerator's own name; without *)
(* a match fromJson() leaves the member at its default.                    *)
EnumFromName(E, s) == IF \E x \in Enums[E] : s = <<x>> THEN s[1] ELSE EnumDefault[E]

(* Identifiers and digests travel as 32 and 64 hex digits.                 *)
HexDigits   == [id |-> "hex32", digest |-> "hex64"]
ToHex(k, v) == <<HexDigits[k], v>>
\* Mutation: a digest is read with the length of an identifier.
ShortHex(k, s) == IF Len(s) = 2 /\ s[1] = HexDigits.id THEN s[2] ELSE "zero"
FromHex(k, s) == IF Len(s) = 2 /\ s[1] = HexDigits[k] THEN s[2] ELSE "zero"

Of(kind, members) == [m \in members |-> kind]

(* ------------------------------- schemas ------------------------------- *)
TargetDescriptor ==
    [vendor |-> "AcceleratorVendor", family |-> "AcceleratorFamily"]
    @@ Of("str", {"architecture", "computeCapability", "isa", "abi", "callingConvention",
                  "kernelABI", "graphABI", "deviceName", "driverVersion", "runtimeVersion"})
    @@ Of("num", {"deviceCount", "deviceMemoryBytes"})

CompilerDescriptor == Of("str", {"id", "version", "vendor", "backendType"})

ToolchainDescriptor ==
    Of("Compiler", {"msvc", "nvcc"})
    @@ Of("flag", {"msvcPresent", "nvccPresent", "nvrtcPresent", "cudaDriverPresent",
                   "cmakePresent", "ninjaPresent", "windowsSdkPresent", "cudaToolkitPresent"})
    @@ Of("str", {"nvrtcVersion", "cudaDriverVersion", "cmakeVersion", "ninjaVersion",
                  "windowsSdkVersion", "cudaToolkitPath"})

BackendDescriptor ==
    Of("str", {"id", "name", "compilerId", "compilerVersion", "codeGenerator", "optimizer",
               "linker", "runtime", "targetArchitecture", "capabilityDescriptor"})
    @@ Of("flag", {"supportsNVRTC", "supportsOffline", "isSyntheticCPU"})
    @@ Of("strs", {"supportedDatatypes", "supportedLayouts", "featureFlags"})

SourceDescriptor ==
    [identity |-> "id", digest |-> "digest", byteSize |-> "num"]
    @@ Of("str", {"language", "format", "frontend"})

IRDescriptor ==
    [identity |-> "id", digest |-> "digest", datatype |-> "Datatype", layout |-> "Layout",
     staticShape |-> "nums"]
    @@ Of("str", {"format", "symbolicShape"}) @@ Of("num", {"byteSize", "rank"})

SpecializationDescriptor ==
    [shape |-> "nums", datatype |-> "Datatype", layout |-> "Layout",
     quantization |-> "QuantizationMode", precision |-> "PrecisionMode"]
    @@ Of("str", {"scalarConstants", "launchSpecialization", "featureFlags", "architecture",
                  "modelRev"})

ValidationDescriptor ==
    Of("flag", {"executed", "passed", "contentDigestOk", "formatOk", "architectureOk",
                "abiOk", "dependencyOk", "metadataConsistent", "loadable",
                "executionSmoke", "referenceComparison"})
    @@ Of("str", {"method", "message"}) @@ Of("num", {"durationMs"})

DeploymentDescriptor ==
    Of("flag", {"deployable", "runtimeCompatible", "architectureValidated",
                "generationValidated", "moduleResident"})
    @@ Of("str", {"method"}) @@ Of("num", {"lastLoadDurationMs", "lastLoadAt", "activeLeases"})

ProvenanceDescriptor ==
    Of("id", {"requestId", "planId", "attemptId"}) @@ Of("digest", {"sourceDigest", "irDigest"})
    @@ Of("str", {"toolchainFingerprint", "environmentFingerprint"})
    @@ [reproducibility |-> "ReproducibilityMode", deterministic |-> "flag"]
    @@ Of("num", {"compileDurationMs", "optimizeDurationMs", "analyzeDurationMs",
                  "validateDurationMs", "linkDurationMs", "deployDurationMs", "createdAt"})

ArtifactDescriptor ==
    [id |-> "id", format |-> "ArtifactFormat", target |-> "Target", compiler |-> "Compiler",
     backend |-> "Backend", specialization |-> "Specialization",
     validation |-> "Validation", deployment |-> "Deployment", provenance |-> "Provenance"]
    @@ Of("num", {"generation", "byteSize", "createdAt", "lastAccess", "reuseCount"})
    @@ Of("digest", {"contentDigest", "keyDigest"})
    @@ Of("str", {"state", "namespaceName", "tenant"})

CompilationRequest ==
    [datatype |-> "Datatype", layout |-> "Layout", quantization |-> "QuantizationMode",
     precision |-> "PrecisionMode", debugRelease |-> "DebugReleaseMode",
     determinism |-> "DeterminismMode", reproducibility |-> "ReproducibilityMode",
     staticShape |-> "nums", dependencyGenerations |-> "nums",
     dependencyIdentities |-> "ids", optimizeLevel |-> "level"]
    @@ Of("id", {"requestId", "logicalOperation"}) @@ Of("digest", {"sourceDigest", "irDigest"})
    @@ Of("str", {"source", "sourceLanguage", "irFormat", "symbolicShape", "scalarConstants",
                  "launchSpecialization", "targetArchitecture", "computeCapability", "isa",
                  "abi", "kernelABI", "backend", "compilerId", "frontend", "featureFlags",
                  "optimizationFlags", "codegenFlags", "modelRevision", "namespaceName",
                  "tenant"})
    @@ Of("num", {"rank", "alignment", "autotuneCandidates", "autotuneSeed", "blockSize",
                  "unrollFactor"})
    @@ Of("flag", {"autotune", "offlinePreferred"})

CompilationPlan ==
    [planId |-> "id", request |-> "Request", target |-> "Target",
     expectedFormat |-> "ArtifactFormat", reproducibility |-> "ReproducibilityMode",
     dependencyIdentities |-> "ids", dependencyGenerations |-> "nums", stages |-> "stages",
     requiredToolchainCapabilities |-> "strs", createdAt |-> "num"]
    @@ Of("str", {"reason", "frontend", "compiler", "backend", "optimizer", "linker",
                  "runtime", "specializationStrategy", "expectedValidationMethod",
                  "expectedDeploymentMethod", "cachePolicy"})

(* The members of a result that both ends of the wire know; the rest of    *)
(* CompilationResult::toJson() is written and never read.                  *)
CompilationResult ==
    Of("id", {"requestId", "planId", "attemptId", "artifactId"})
    @@ [generation |-> "num", artifact |-> "Artifact"]
    @@ Of("flag", {"reused", "validated", "deployable", "referenceMatched"})
    @@ Of("str", {"backendUsed", "errorMessage"})

Schemas == [Target |-> TargetDescriptor, Compiler |-> CompilerDescriptor,
            Backend |-> BackendDescriptor, Specialization |-> SpecializationDescriptor,
            Validation |-> ValidationDescriptor, Deployment |-> DeploymentDescriptor,
            Provenance |-> ProvenanceDescriptor, Artifact |-> ArtifactDescriptor,
            Request |-> CompilationRequest]

(* ------------------------- encoder and decoder ------------------------- *)
Map(F(_), s) == [i \in DOMAIN s |-> F(s[i])]

RECURSIVE ToJson(_, _)
FieldToJson(k, v) ==
    CASE k = "str"  -> JStr(v)
      [] k = "flag" -> JBool(v)
      [] k \in {"num", "level"} -> JNum(v)
      [] k \in {"id", "digest"} -> JStr(ToHex(k, v))
      [] k \in DOMAIN Enums -> JStr(EnumName(k, v))
      [] k = "strs"   -> JArr(Map(JStr, v))
      [] k = "nums"   -> JArr(Map(JNum, v))
      [] k = "stages" -> JArr(Map(LAMBDA x : JStr(<<x>>), v))
      [] k = "ids"    -> JArr(Map(LAMBDA x : JStr(ToHex("id", x)), v))
      [] k \in DOMAIN Schemas -> ToJson(Schemas[k], v)
ToJson(schema, d) == JObj([m \in DOMAIN schema |-> FieldToJson(schema[m], d[m])])

(* What fromJson() leaves in a member it cannot read.                      *)
RECURSIVE Default(_)
FieldDefault(k) ==
    CASE k \in {"str", "strs", "nums", "ids", "stages"} -> <<>>
      [] k = "flag" -> FALSE
      [] k = "num"  -> 0
      [] k = "level" -> 1
      [] k \in {"id", "digest"} -> "zero"
      [] k \in DOMAIN Enums -> EnumDefault[k]
      [] k \in DOMAIN Schemas -> Default(Schemas[k])
Default(schema) == [m \in DOMAIN schema |-> FieldDefault(schema[m])]

(* JSTR, JBOOL, JNUM: a member that is missing or of another JSON type     *)
(* reads as the empty value.  Nothing makes fromJson() fail.               *)
JsonType == [str |-> "string", flag |-> "bool", num |-> "number", level |-> "number",
             id |-> "string", digest |-> "string", strs |-> "array", nums |-> "array",
             ids |-> "array", stages |-> "array"]
Expected(k) == IF k \in DOMAIN Enums THEN "string"
               ELSE IF k \in DOMAIN Schemas THEN "object" ELSE JsonType[k]

RECURSIVE FromJson(_, _)
FieldFromJson(k, j) ==
    CASE k \in {"str", "flag", "num"} -> j.v
      [] k = "level" -> IF j.v <= 0 THEN 1 ELSE j.v
      [] k \in {"id", "digest"} -> FromHex(k, j.v)
      [] k \in DOMAIN Enums -> EnumFromName(k, j.v)
      [] k \in {"strs", "nums"} -> Map(LAMBDA e : e.v, j.v)
      [] k = "stages" -> Map(LAMBDA e : e.v[1],
                             SelectSeq(j.v, LAMBDA e : \E x \in StageKind : e.v = <<x>>))
      [] k = "ids" -> Map(LAMBDA e : e.v[2],
                          SelectSeq(j.v, LAMBDA e : FromHex("id", e.v) # "zero" \/
                                                    e.v = ToHex("id", "zero")))
      [] k \in DOMAIN Schemas -> FromJson(Schemas[k], j)
FromJson(schema, j) ==
    [m \in DOMAIN schema |->
        IF m \in DOMAIN j.v /\ j.v[m].t = Expected(schema[m])
        THEN FieldFromJson(schema[m], j.v[m]) ELSE FieldDefault(schema[m])]

(* One hop: toJson().dump() on one side, parse() and fromJson() on the     *)
(* other (encodeSubmit() and decodeSubmit(), and the request half of a     *)
(* dispatch).                                                              *)
Hop(schema, d) == FromJson(schema, Parse(Dump(ToJson(schema, d))).val)
=============================================================================
