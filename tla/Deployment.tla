----------------------------- MODULE Deployment -----------------------------
(***************************************************************************)
(* The fabric with the clients that deploy and lease its artifacts, and    *)
(* with processes that end and start again on the same artifact root.      *)
(* FabricCore gives compile(), invalidation, supersession and recover();   *)
(* this module adds deploy(), acquire(), release(), stats() and restarts.  *)
(***************************************************************************)
EXTENDS FabricCore

CONSTANTS Clients,       \* threads that deploy
          LeaseLimit,    \* 100000, where acquire() clears the table of an id
          LeasedIds,     \* ids that clients take leases of
          MaxLeases,     \* bound on the leases held of one id
          MaxRestarts    \* bound on restarts

ASSUME DeploymentAssumption ==
    /\ LeasedIds \subseteq Nat
    /\ LeaseLimit \in Nat /\ MaxLeases \in Nat /\ MaxRestarts \in Nat

VARIABLES
    deploying,     \* per client: the entry deploy() has copied, NoDeploy outside
    leaseCounts,   \* Impl::leaseCounts: per id, the length of its list
    restarts,
    (* history, read by no guard *)
    held,          \* leases the clients have and did not give back
    strays,        \* ids released with a lease nobody held
    restored       \* keys whose cache entry came from the store

leaseVars  == <<leaseCounts, held, strays>>
deployVars == <<deploying, leaseVars, restarts, restored>>

NoDeploy == [key |-> NoKey, art |-> NoArtifact, fresh |-> TRUE]

DeployInit ==
    /\ Init
    /\ deploying = [c \in Clients |-> NoDeploy]
    /\ leaseCounts = [id \in LeasedIds |-> 0] /\ held = [id \in LeasedIds |-> 0]
    /\ strays = {} /\ restarts = 0 /\ restored = {}

Named(id) == {k \in Keys : Present(cache[k]) /\ cache[k].art.id = id}

-----------------------------------------------------------------------------
(* deploy() *)

\* Mutation: whatever is not invalidated is eligible.
NotInvalidated(e) == e.state # "Invalidated"
\* "Deployable" or "Deployed"; nothing in the program sets the second.
Eligible(e) == e.state = "Deployable"

\* The critical section copies descriptor and bytes of an entry with this id.
DeployCopies(c, id) ==
    /\ deploying[c] = NoDeploy
    /\ \E k \in Named(id) :
         /\ Eligible(cache[k])
         /\ deploying' = [deploying EXCEPT ![c] =
                [key |-> k, art |-> cache[k].art,
                 fresh |-> k \in restored \/ cache[k].art.born >= lastInval[k]]]
    /\ UNCHANGED <<vars, leaseVars, restarts, restored>>

\* NotFound or NotDeployable.
DeployRefused(c, id) ==
    /\ deploying[c] = NoDeploy
    /\ Named(id) = {} \/ \E k \in Named(id) : ~Eligible(cache[k])
    /\ UNCHANGED <<vars, deployVars>>

\* Outside the mutex the backend loads the copy, or fails to; the module is the
\* client's (see CudaBackend for what it holds).
DeployLoads(c) ==
    /\ deploying[c] # NoDeploy
    /\ deploying' = [deploying EXCEPT ![c] = NoDeploy]
    /\ UNCHANGED <<vars, leaseVars, restarts, restored>>

-----------------------------------------------------------------------------
(* Leases: acquire() looks at no state, release() at no artifact *)

\* push_back, and the whole list is cleared past the limit.
Pushed(n) == IF n + 1 > LeaseLimit THEN 0 ELSE n + 1

Acquire(id) ==
    /\ Named(id) # {} /\ held[id] < MaxLeases
    /\ leaseCounts' = [leaseCounts EXCEPT ![id] = Pushed(@)]
    /\ held' = [held EXCEPT ![id] = @ + 1]
    /\ UNCHANGED <<vars, deploying, strays, restarts, restored>>

\* A lease is a value that says an id: one that is held, or one that was given back
\* before, made up, or taken from an earlier process.  An empty list answers
\* LeaseUnderflow.
Release(id) ==
    /\ \/ held[id] > 0 /\ held' = [held EXCEPT ![id] = @ - 1] /\ UNCHANGED strays
       \/ strays' = strays \cup {id} /\ UNCHANGED held
    /\ \/ leaseCounts[id] = 0 /\ UNCHANGED leaseCounts
       \/ leaseCounts[id] # 0 /\ leaseCounts' = [leaseCounts EXCEPT ![id] = @ - 1]
    /\ UNCHANGED <<vars, deploying, restarts, restored>>

-----------------------------------------------------------------------------
(* A process ends and another one starts: every number begins again *)

Restart ==
    /\ restarts < MaxRestarts
    /\ restarts' = restarts + 1
    /\ cache' = [k \in Keys |-> NoEntry] /\ inflight' = [k \in Keys |-> 0]
    /\ flight' = [a \in Attempts |-> Unallocated]
    /\ cacheGen' = 1 /\ toolchainGen' = 1 /\ artifactCounter' = 0
    /\ pc' = [t \in Threads |-> "idle"] /\ call' = [t \in Threads |-> NoKey]
    /\ own' = [t \in Threads |-> 0] /\ art' = [t \in Threads |-> NoArtifact]
    /\ scan' = [t \in Threads |-> {}] /\ outcome' = [t \in Threads |-> NoOutcome]
    /\ published' = {} /\ lastInval' = [k \in Keys |-> 0] /\ seen' = [t \in Threads |-> 0]
    /\ deploying' = [c \in Clients |-> NoDeploy] /\ restored' = {}
    /\ leaseCounts' = [id \in LeasedIds |-> 0] /\ held' = [id \in LeasedIds |-> 0] /\ strays' = {}
    /\ UNCHANGED disk

\* A step of FabricCore; a commit replaces what a recovery put into the cache.
FabricStep ==
    /\ Next
    /\ restored' = {k \in Keys :
            \/ k \in restored /\ cache'[k].art = cache[k].art
            \/ \E t \in Threads : /\ pc[t] = "recovering" /\ pc'[t] = "idle"
                                  /\ k \in {r.key : r \in scan[t]}}
    /\ UNCHANGED <<deploying, leaseVars, restarts>>

DeployNext ==
    \/ FabricStep
    \/ \E c \in Clients, id \in Attempts : DeployCopies(c, id) \/ DeployRefused(c, id)
    \/ \E c \in Clients : DeployLoads(c)
    \/ \E id \in LeasedIds : Acquire(id) \/ Release(id)
    \/ Restart

DeploySpec == DeployInit /\ [][DeployNext]_<<vars, deployVars>>
-----------------------------------------------------------------------------
\* deploy() never loads an artifact that an invalidation had hit before the call:
\* not when supersede() rewrites the state the invalidation left, and not while a
\* build of the same key commits.  (An artifact put back by recover() is excepted:
\* invalidations are not written to the store.)
DeploysAreFresh ==
    \A c \in Clients : deploying[c].fresh

(* What the repository says and the code does not do, refuted by runs *)

\* tests/concurrency.cpp, "Lease acquire/release must never underflow", and
\* Request.hpp, "Leases are never negative; the orchestrator guards acquire/release":
\* while every lease of an id is given back once, a client that gives one back does
\* not meet an empty list.
NoLeaseUnderflow ==
    \A id \in LeasedIds \ strays : held[id] > 0 => leaseCounts[id] > 0

\* docs/artifacts.md: "Executable bytes are never mutated under an existing
\* immutable artifact identity."
IdentityIsImmutable ==
    [][\A r \in disk, s \in disk' : r.art.id = s.art.id /\ r.art.gen = s.art.gen => r.key = s.key]_<<vars, deployVars>>
=============================================================================
