------------------------------- MODULE MCWire -------------------------------
(***************************************************************************)
(* RequestPath and ByteChannel for TLC.  The two machines share nothing; a *)
(* behaviour runs one of them.                                             *)
(***************************************************************************)
EXTENDS RequestPath, ByteChannel

\* One request and variations of it in single members.

BaseRequest ==
    [Default(CompilationRequest) EXCEPT
        !.requestId = "r1", !.logicalOperation = "gemm", !.sourceDigest = "d1",
        !.source = <<"shape2", "nl", "scale", "s1", "nl", "neg", "nl", "add", "s1">>,
        !.optimizeLevel = 1]

MCEnvironment == <<"lab">>
With(m, v) == [BaseRequest EXCEPT ![m] = v]

MCRequests ==
    {BaseRequest,
     With("source", <<"#", "quote", "backslash", "n", "nl", "shape2", "nl", "neg">>),
     With("source", <<"dtF64", "nl", "tab", "nl", "nop", "nl", "sub", "s0">>),
     With("source", <<"divide">>),
     With("datatype", "F64"), With("tenant", <<"quote">>), With("staticShape", <<3>>),
     With("staticShape", <<2, 64>>), With("staticShape", <<2, 65>>),   \* one double
     With("alignment", 128), With("alignment", 132),                    \* one text
     With("dependencyIdentities", <<"dep">>),
     With("backend", <<"cuda-nvrtc">>), With("targetArchitecture", <<"sm_90">>),
     With("launchSpecialization", <<"wide">>),
     With("optimizeLevel", 0),
     [With("autotune", TRUE) EXCEPT !.autotuneCandidates = 2,
        !.source = <<"mul", "s0", "nl", "add", "s0", "nl", "max">>]}

\* Two requests that differ in the datatype.
MCDatatypeRequests == {BaseRequest, With("datatype", "F64")}

\* One value of every format, with the edge of each length in reach of a damage.
MCProgram == [name |-> <<7>>, datatype |-> "F64", shapeN |-> 2, alignment |-> 4,
              launchConfig |-> <<"wide">>,
              ops |-> <<[kind |-> "scale", scalar |-> 2, n |-> 2],
                        [kind |-> "sum", scalar |-> 0, n |-> 2]>>]
MCKey     == (1 :> <<2>>) @@ (3 :> EncU64s(<<1>>))
MCWritten == {<<"executable", MCProgram>>, <<"key", MCKey>>,
              <<"frame", [type |-> 3, flags |-> 0, seq |-> 1, payload |-> <<1, 2>>]>>,
              <<"envelope", <<1, 2, 3, 1, 1, 4, 5, 6, 1>>>>,
              <<"meta", [key |-> 1 :> <<2>>, json |-> <<1, 1>>, content |-> <<9>>]>>}
MCNoise   == {0, 1, 2, Base - 1}

WireVars == <<pathVars, channelVars>>
WireInit == \/ PathInit /\ ChannelIdle
            \/ PathStart("off") /\ sent = [i \in Slots |-> BaseRequest] /\ ChannelInit
WireNext == \/ PathNext /\ UNCHANGED channelVars
            \/ ChannelNext /\ UNCHANGED pathVars
WireSpec == WireInit /\ [][WireNext]_WireVars
=============================================================================
