----------------------------- MODULE MCRuntime -----------------------------
(***************************************************************************)
(* Deployment, CudaBackend and Lifecycle for TLC.  The three machines      *)
(* share nothing; from the common initial state a behaviour runs one.      *)
(***************************************************************************)
EXTENDS Deployment, CudaBackend, Lifecycle, TLC

CONSTANTS k1, k2, t1, t2, c1, w1, w2

MCSharedOp == [k \in Keys |-> "gemm"]

\* A request with the members the CUDA backend reads.
Planned(source, shape, datatype, backend) ==
    [source |-> source, staticShape |-> shape, rank |-> 0, datatype |-> datatype,
     backend |-> backend, offlinePreferred |-> FALSE, targetArchitecture |-> "sm_120",
     launchSpecialization |-> <<>>]

\* One element per thread, a block that is halved evenly, one that is not, and
\* more elements than the largest block has threads.
MCCudaRequests ==
    {Planned(<<"scale", "s2">>, <<2>>, "F64", "cuda-nvrtc"),
     Planned(<<"sum">>, <<4>>, "F32", "cuda-nvcc"),
     Planned(<<"max">>, <<3>>, "F64", "cuda-nvrtc"),
     Planned(<<"min">>, <<6>>, "None", "cuda-nvrtc")}
\* Sources of two operations.
MCTwoOperations == {Planned(<<"neg", "nl", "add", "s2">>, <<2>>, "F64", "cuda-nvrtc")}

Installed   == {"nvrtc.dll", "nvcuda.dll", "nvrtcDestroyProgram"} \cup NvrtcEntries \cup DriverEntries
MCLibraries == {Installed, Installed \ {"cuLaunchKernel"}, Installed \ {"nvrtc.dll"}}

Symmetry == Permutations(CudaThreads)

RuntimeVars == <<vars, deployVars, cudaVars, lifeVars>>
RuntimeInit == DeployInit /\ CudaInit /\ LifeInit
RuntimeNext ==
    \/ CudaInit /\ LifeInit /\ DeployNext /\ UNCHANGED <<cudaVars, lifeVars>>
    \/ DeployInit /\ LifeInit /\ CudaNext /\ UNCHANGED <<vars, deployVars, lifeVars>>
    \/ DeployInit /\ CudaInit /\ LifeNext /\ UNCHANGED <<vars, deployVars, cudaVars>>
RuntimeSpec == RuntimeInit /\ [][RuntimeNext]_RuntimeVars
=============================================================================
