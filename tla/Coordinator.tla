----------------------------- MODULE Coordinator ----------------------------
(***************************************************************************)
(* The distributed control plane (src/Distributed.cpp): the coordinator's  *)
(* client and worker connection threads, the workers and the TCP streams   *)
(* between them.                                                           *)
(*                                                                         *)
(* Every critical section of mtx_ is one action.  The atomic generation    *)
(* counters are read together (they only grow, and each is compared for    *)
(* itself).  A worker is identified by its boot: a process that is killed  *)
(* and started again is another boot of the same worker id.                *)
(***************************************************************************)
EXTENDS Integers, Sequences, FiniteSets

CONSTANTS
    Clients,            \* client connections, each with its coordinator thread
    RequestIds,           \* request ids, the clients' choice
    BodyKeys,           \* what buildCompilationKey() makes of the bodies sent
    Boots, WorkerOf,    \* worker processes and the worker id each registers
    NoClient, NoBody, NoBoot, NoRequest,
    Events,             \* what happens besides submits: some of EventKinds
    MaxDispatch,        \* bound on dispatched_
    MaxBumps            \* bound on the sum of the generation counters

EventKinds == {"death", "failure", "bump", "invalidate"}

ASSUME CoordinatorAssumption ==
    /\ NoClient \notin Clients
    /\ NoBoot \notin Boots
    /\ NoRequest \notin RequestIds
    /\ NoBody \notin BodyKeys
    /\ BodyKeys \cap RequestIds = {}
    /\ WorkerOf \in [Boots -> Nat]
    /\ Events \subseteq EventKinds
    /\ MaxDispatch \in Nat /\ MaxBumps \in Nat

VARIABLES
    gens,       \* epoch_, cacheGen_ and toolchainGen_
    workers,    \* workers_ and workerChannels_: worker id -> boot whose connection it is
    pending,    \* pending_: request -> client thread whose promise it holds
    reqToKey,   \* reqToKey_
    publications, \* published_: key -> artifact
    known,      \* artifactGen_: artifacts with a published generation
    dispatched, \* dispatched_
    (* locals of each client thread *)
    cpc, creq, ckey, cworker, cenv, cchan,
    promise,    \* the value its promise was given
    reply,      \* what it sent back
    (* per boot: the connection, its streams, the worker-connection thread's locals *)
    link, toWorker, toCoord, hpc, hmsg, hkey,
    (* history, read by no action *)
    harrival,   \* generations and registration when hmsg arrived
    bodies,     \* request -> keys of the bodies submitted under it
    torn        \* a worker has read bytes that are not one frame

authorityVars == <<gens, workers, dispatched>>
resultVars  == <<pending, reqToKey, publications, known>>
clientVars  == <<cpc, creq, ckey, cworker, cenv, cchan, promise, reply>>
streamVars  == <<link, toWorker, toCoord>>
handlerVars == <<hpc, hmsg, hkey, harrival>>
noteVars    == <<bodies, torn>>
coordVars   == <<authorityVars, resultVars, clientVars, streamVars, handlerVars, noteVars>>

-----------------------------------------------------------------------------
(* Values *)

Counters == {"epoch", "cacheGen", "toolchainGen"}
Generations == [Counters -> Nat]
FirstGens == [g \in Counters |-> 1]

Workers == {WorkerOf[b] : b \in Boots}

\* The artifact of an attempt, with the request id and the key it was built for: its
\* id is drawn from the worker's clock, its generation is always 1.  Attempt 0
\* stands for none.
BuiltArtifacts == [req : RequestIds \cup {NoRequest}, key : BodyKeys \cup {NoBody}, attempt : Nat]
NothingBuilt == [req |-> NoRequest, key |-> NoBody, attempt |-> 0]

\* What DispatchCompile carries: an envelope, the request and its key.
Dispatches == [req : RequestIds \cup {NoRequest}, key : BodyKeys \cup {NoBody}, attempt : Nat,
               gens : Generations]
NoDispatch == [req |-> NoRequest, key |-> NoBody, attempt |-> 0, gens |-> FirstGens]

\* What CompileResult carries: the dispatch it answers, and how the compile went.
\* No output at all leaves the artifact generation zero.
Verdicts == {"passed", "invalid", "nothing"}
CompileResults == [dispatch : Dispatches, verdict : Verdicts]
NoResult == [dispatch |-> NoDispatch, verdict |-> "nothing"]
NoArrival == [gens |-> FirstGens, boot |-> NoBoot]

Replies == [kind : {"none", "hit", "built", "reject"}, art : BuiltArtifacts]
NoReply == [kind |-> "none", art |-> NothingBuilt]
Reject == [kind |-> "reject", art |-> NothingBuilt]

ClientPCs == {"idle", "lookup", "select", "promise", "stamp", "channel", "sendLength",
              "sendBody", "waiting", "replied"}
HandlerPCs == {"none", "reading", "arrived", "authorised", "checked", "keyed", "gone"}
Halves == {"length", "body"}

CoordTypeOK ==
    /\ gens \in Generations
    /\ workers \in [Workers -> Boots \cup {NoBoot}]
    /\ pending \in [RequestIds -> Clients \cup {NoClient}]
    /\ reqToKey \in [RequestIds -> BodyKeys \cup {NoBody}]
    /\ publications \in [BodyKeys -> BuiltArtifacts]
    /\ known \in SUBSET Nat
    /\ dispatched \in Nat
    /\ cpc \in [Clients -> ClientPCs]
    /\ creq \in [Clients -> RequestIds \cup {NoRequest}]
    /\ ckey \in [Clients -> BodyKeys \cup {NoBody}]
    /\ cworker \in [Clients -> Nat]
    /\ cenv \in [Clients -> Dispatches]
    /\ cchan \in [Clients -> Boots \cup {NoBoot}]
    /\ promise \in [Clients -> BuiltArtifacts]
    /\ reply \in [Clients -> Replies]
    /\ link \in [Boots -> {"down", "up", "broken"}]
    /\ toWorker \in [Boots -> Seq([half : Halves, dispatch : Dispatches])]
    /\ toCoord \in [Boots -> Seq(CompileResults)]
    /\ hpc \in [Boots -> HandlerPCs]
    /\ hmsg \in [Boots -> CompileResults]
    /\ hkey \in [Boots -> BodyKeys \cup {NoBody}]
    /\ harrival \in [Boots -> [gens : Generations, boot : Boots \cup {NoBoot}]]
    /\ bodies \in [RequestIds -> SUBSET BodyKeys]
    /\ torn \in BOOLEAN

CoordInit ==
    /\ gens = FirstGens
    /\ workers = [w \in Workers |-> NoBoot]
    /\ pending = [r \in RequestIds |-> NoClient]
    /\ reqToKey = [r \in RequestIds |-> NoBody]
    /\ publications = [k \in BodyKeys |-> NothingBuilt]
    /\ known = {}
    /\ dispatched = 0
    /\ cpc = [c \in Clients |-> "idle"]
    /\ creq = [c \in Clients |-> NoRequest]
    /\ ckey = [c \in Clients |-> NoBody]
    /\ cworker = [c \in Clients |-> 0]
    /\ cenv = [c \in Clients |-> NoDispatch]
    /\ cchan = [c \in Clients |-> NoBoot]
    /\ promise = [c \in Clients |-> NothingBuilt]
    /\ reply = [c \in Clients |-> NoReply]
    /\ link = [b \in Boots |-> "down"]
    /\ toWorker = [b \in Boots |-> <<>>]
    /\ toCoord = [b \in Boots |-> <<>>]
    /\ hpc = [b \in Boots |-> "none"]
    /\ hmsg = [b \in Boots |-> NoResult]
    /\ hkey = [b \in Boots |-> NoBody]
    /\ harrival = [b \in Boots |-> NoArrival]
    /\ bodies = [r \in RequestIds |-> {}]
    /\ torn = FALSE

-----------------------------------------------------------------------------
(* handleClientFrame() *)

SendReply(c, rep) ==
    /\ reply' = [reply EXCEPT ![c] = rep]
    /\ cpc' = [cpc EXCEPT ![c] = "replied"]

\* Every client that has yet to dispatch finds an attempt number below the bound.
Undispatched == {c \in Clients : cpc[c] \in {"lookup", "select", "promise", "stamp"}}
DispatchBound == dispatched + Cardinality(Undispatched) < MaxDispatch

\* A Submit frame: the key of the body is built and noted for the request id, over
\* what an earlier submit noted for it.  The client chooses the id, and nothing ties
\* it to one body.
Submit(c, r, k) ==
    /\ cpc[c] = "idle"
    /\ DispatchBound
    /\ cpc' = [cpc EXCEPT ![c] = "lookup"]
    /\ creq' = [creq EXCEPT ![c] = r]
    /\ ckey' = [ckey EXCEPT ![c] = k]
    /\ reqToKey' = [reqToKey EXCEPT ![r] = k]
    /\ bodies' = [bodies EXCEPT ![r] = @ \cup {k}]
    /\ UNCHANGED <<authorityVars, pending, publications, known, cworker, cenv, cchan, promise, reply,
                   streamVars, handlerVars, torn>>

\* A published result is served whatever the generations are by now.
PublishedHit(c) ==
    LET art == publications[ckey[c]] IN
    /\ cpc[c] = "lookup"
    /\ art # NothingBuilt
    /\ SendReply(c, [kind |-> "hit", art |-> art])
    /\ UNCHANGED <<authorityVars, resultVars, creq, ckey, cworker, cenv, cchan, promise,
                   streamVars, handlerVars, noteVars>>

PublishedMiss(c) ==
    /\ cpc[c] = "lookup"
    /\ publications[ckey[c]] = NothingBuilt
    /\ cpc' = [cpc EXCEPT ![c] = "select"]
    /\ UNCHANGED <<authorityVars, resultVars, creq, ckey, cworker, cenv, cchan, promise, reply,
                   streamVars, handlerVars, noteVars>>

\* All workers offer the wanted backend: the first in map order is taken.
SelectWorker(c) ==
    /\ cpc[c] = "select"
    /\ \E w \in Workers :
         /\ workers[w] # NoBoot
         /\ \A v \in Workers : workers[v] # NoBoot => w <= v
         /\ cworker' = [cworker EXCEPT ![c] = w]
    /\ cpc' = [cpc EXCEPT ![c] = "promise"]
    /\ UNCHANGED <<authorityVars, resultVars, creq, ckey, cenv, cchan, promise, reply,
                   streamVars, handlerVars, noteVars>>

NoCapableWorker(c) ==
    /\ cpc[c] = "select"
    /\ \A w \in Workers : workers[w] = NoBoot
    /\ SendReply(c, Reject)
    /\ UNCHANGED <<authorityVars, resultVars, creq, ckey, cworker, cenv, cchan, promise,
                   streamVars, handlerVars, noteVars>>

\* Mutation: the promise is made and not registered.
UnregisteredPromise(c) ==
    /\ cpc[c] = "promise"
    /\ cpc' = [cpc EXCEPT ![c] = "stamp"]
    /\ UNCHANGED <<authorityVars, resultVars, creq, ckey, cworker, cenv, cchan, promise, reply,
                   streamVars, handlerVars, noteVars>>
\* Any promise another thread has registered for the same request is replaced.
RegisterPromise(c) ==
    /\ cpc[c] = "promise"
    /\ pending' = [pending EXCEPT ![creq[c]] = c]
    /\ cpc' = [cpc EXCEPT ![c] = "stamp"]
    /\ UNCHANGED <<authorityVars, reqToKey, publications, known, creq, ckey, cworker, cenv, cchan,
                   promise, reply, streamVars, handlerVars, noteVars>>

\* The dispatch is stamped with the current generations and the next attempt.
StampDispatch(c) ==
    /\ cpc[c] = "stamp"
    /\ dispatched' = dispatched + 1
    /\ cenv' = [cenv EXCEPT ![c] = [req |-> creq[c], key |-> ckey[c],
                                         attempt |-> dispatched + 1, gens |-> gens]]
    /\ cpc' = [cpc EXCEPT ![c] = "channel"]
    /\ UNCHANGED <<gens, workers, resultVars, creq, ckey, cworker, cchan, promise, reply,
                   streamVars, handlerVars, noteVars>>

FindChannel(c) ==
    /\ cpc[c] = "channel"
    /\ workers[cworker[c]] # NoBoot
    /\ cchan' = [cchan EXCEPT ![c] = workers[cworker[c]]]
    /\ cpc' = [cpc EXCEPT ![c] = "sendLength"]
    /\ UNCHANGED <<authorityVars, resultVars, creq, ckey, cworker, cenv, promise, reply,
                   streamVars, handlerVars, noteVars>>

\* Mutation: a failed dispatch leaves its promise registered.
LeavePromise(c) ==
    /\ SendReply(c, Reject)
    /\ UNCHANGED <<authorityVars, resultVars, creq, ckey, cworker, cenv, cchan, promise,
                   streamVars, handlerVars, noteVars>>
\* pending_.erase(reqKey), whoever's promise is there, and a Reject.
GiveUp(c) ==
    /\ pending' = [pending EXCEPT ![creq[c]] = NoClient]
    /\ SendReply(c, Reject)
    /\ UNCHANGED <<authorityVars, reqToKey, publications, known, creq, ckey, cworker, cenv, cchan,
                   promise, streamVars, handlerVars, noteVars>>

WorkerGone(c) == cpc[c] = "channel" /\ workers[cworker[c]] = NoBoot /\ GiveUp(c)

\* A frame is sent by two writes to the socket, its length and its body, and no lock
\* is held.  What is written to a connection that is not up any more is lost.
Write(c, half) ==
    LET b == cchan[c] IN
    toWorker' = [toWorker EXCEPT ![b] =
                   IF link[b] = "up" THEN Append(@, [half |-> half, dispatch |-> cenv[c]]) ELSE @]

SendLength(c) ==
    /\ cpc[c] = "sendLength"
    /\ Write(c, "length")
    /\ cpc' = [cpc EXCEPT ![c] = "sendBody"]
    /\ UNCHANGED <<authorityVars, resultVars, creq, ckey, cworker, cenv, cchan, promise, reply,
                   link, toCoord, handlerVars, noteVars>>

SendBody(c) ==
    /\ cpc[c] = "sendBody"
    /\ Write(c, "body")
    /\ cpc' = [cpc EXCEPT ![c] = "waiting"]
    /\ UNCHANGED <<authorityVars, resultVars, creq, ckey, cworker, cenv, cchan, promise, reply,
                   link, toCoord, handlerVars, noteVars>>

\* The channel may be broken by now, or its object destroyed with its thread.
SendFails(c) ==
    /\ cpc[c] \in {"sendLength", "sendBody"}
    /\ link[cchan[c]] # "up"
    /\ GiveUp(c)

\* fut.get() returns.  resultFromJson() leaves error at Ok, so the reply is a Result.
FutureReady(c) ==
    /\ cpc[c] = "waiting"
    /\ promise[c] # NothingBuilt
    /\ SendReply(c, [kind |-> "built", art |-> promise[c]])
    /\ UNCHANGED <<authorityVars, resultVars, creq, ckey, cworker, cenv, cchan, promise,
                   streamVars, handlerVars, noteVars>>

\* Back in handleClient(), the frame's locals are gone.
NextFrame(c) ==
    /\ cpc[c] = "replied"
    /\ cpc' = [cpc EXCEPT ![c] = "idle"]
    /\ creq' = [creq EXCEPT ![c] = NoRequest]
    /\ ckey' = [ckey EXCEPT ![c] = NoBody]
    /\ cworker' = [cworker EXCEPT ![c] = 0]
    /\ cenv' = [cenv EXCEPT ![c] = NoDispatch]
    /\ cchan' = [cchan EXCEPT ![c] = NoBoot]
    /\ promise' = [promise EXCEPT ![c] = NothingBuilt]
    /\ reply' = [reply EXCEPT ![c] = NoReply]
    /\ UNCHANGED <<authorityVars, resultVars, streamVars, handlerVars, noteVars>>

\* An Invalidate frame erases published_ at the request id; published_ is indexed by keys.
Invalidate(r) ==
    /\ "invalidate" \in Events
    /\ publications' = [k \in BodyKeys |-> IF k = r THEN NothingBuilt ELSE publications[k]]
    /\ UNCHANGED <<authorityVars, pending, reqToKey, known, clientVars, streamVars, handlerVars, noteVars>>

\* A Control frame: RollEpoch, SetCacheGen or SetToolchainGen.
Bump(g) ==
    /\ "bump" \in Events
    /\ gens["epoch"] + gens["cacheGen"] + gens["toolchainGen"] < 3 + MaxBumps
    /\ gens' = [gens EXCEPT ![g] = @ + 1]
    /\ UNCHANGED <<workers, dispatched, resultVars, clientVars, streamVars, handlerVars, noteVars>>

-----------------------------------------------------------------------------
(* DistributedWorker::run() *)

\* A worker process connects and its Register frame is handled: the entry of its id
\* is overwritten.  An earlier process of the same id is dead by then, but the
\* coordinator need not have noticed.
Register(b) ==
    /\ link[b] = "down"
    /\ \A x \in Boots : WorkerOf[x] = WorkerOf[b] => link[x] # "up"
    /\ link' = [link EXCEPT ![b] = "up"]
    /\ workers' = [workers EXCEPT ![WorkerOf[b]] = b]
    /\ hpc' = [hpc EXCEPT ![b] = "reading"]
    /\ UNCHANGED <<gens, dispatched, resultVars, clientVars, toWorker, toCoord, hmsg, hkey, harrival,
                   noteVars>>

\* The next two writes in the stream are the length and the body of one frame.
WholeFrame(b) ==
    /\ toWorker[b][1].half = "length" /\ toWorker[b][2].half = "body"
    /\ toWorker[b][1].dispatch = toWorker[b][2].dispatch

CompileAndAnswer(b) ==
    /\ link[b] = "up"
    /\ Len(toWorker[b]) >= 2 /\ WholeFrame(b)
    /\ \E v \in IF "failure" \in Events THEN Verdicts ELSE {"passed"} :
         toCoord' = [toCoord EXCEPT ![b] =
                       Append(@, [dispatch |-> toWorker[b][2].dispatch, verdict |-> v])]
    /\ toWorker' = [toWorker EXCEPT ![b] = Tail(Tail(@))]
    /\ UNCHANGED <<authorityVars, resultVars, clientVars, link, handlerVars, noteVars>>

\* recvFrame() takes the bytes after the first length for a body: decodeFrameBody()
\* refuses them, and the worker exits.
ReadTornFrame(b) ==
    /\ link[b] = "up"
    /\ Len(toWorker[b]) >= 2 /\ ~WholeFrame(b)
    /\ \E i \in 2..Len(toWorker[b]) : toWorker[b][i].half = "body"
    /\ link' = [link EXCEPT ![b] = "broken"]
    /\ toWorker' = [toWorker EXCEPT ![b] = <<>>]
    /\ torn' = TRUE
    /\ UNCHANGED <<authorityVars, resultVars, clientVars, toCoord, handlerVars, bodies>>

\* The process is killed; what it sent may or may not still arrive.
WorkerDies(b) ==
    /\ "death" \in Events
    /\ link[b] = "up"
    /\ link' = [link EXCEPT ![b] = "broken"]
    /\ toWorker' = [toWorker EXCEPT ![b] = <<>>]
    /\ toCoord' \in {toCoord, [toCoord EXCEPT ![b] = <<>>]}
    /\ UNCHANGED <<authorityVars, resultVars, clientVars, handlerVars, noteVars>>

-----------------------------------------------------------------------------
(* handleWorker() *)

ReceiveResult(b) ==
    /\ hpc[b] = "reading"
    /\ toCoord[b] # <<>>
    /\ hmsg' = [hmsg EXCEPT ![b] = Head(toCoord[b])]
    /\ toCoord' = [toCoord EXCEPT ![b] = Tail(@)]
    /\ harrival' = [harrival EXCEPT ![b] = [gens |-> gens, boot |-> workers[WorkerOf[b]]]]
    /\ hpc' = [hpc EXCEPT ![b] = "arrived"]
    /\ UNCHANGED <<authorityVars, resultVars, clientVars, link, toWorker, hkey, noteVars>>

\* The next turn of the loop: the frame's locals are gone.
NextResult(b) ==
    /\ hpc' = [hpc EXCEPT ![b] = "reading"]
    /\ hmsg' = [hmsg EXCEPT ![b] = NoResult]
    /\ hkey' = [hkey EXCEPT ![b] = NoBody]
    /\ harrival' = [harrival EXCEPT ![b] = NoArrival]

\* continue: nobody is told.
DropResult(b) ==
    /\ NextResult(b)
    /\ UNCHANGED <<authorityVars, resultVars, clientVars, streamVars, noteVars>>

\* Mutation: the epoch is compared and the generations are not.
EpochIsCurrent(m) == m.dispatch.gens["epoch"] = gens["epoch"]
\* rejectStalePublication() before its lock: epoch, cache and toolchain generation.
GensAreCurrent(m) == m.dispatch.gens = gens

\* Mutation: a worker id is enough, whichever process answers.
AnyBoot(b, m) ==
    /\ workers[WorkerOf[b]] # NoBoot
    /\ m.verdict # "nothing"
    /\ m.dispatch.attempt \notin known
    /\ pending[m.dispatch.req] # NoClient
\* rejectStalePublication() under its lock: the boot registered for the worker id, an
\* artifact generation that is not zero and newer than a published one, and a
\* request that somebody waits for.  The attempt is not compared.
PublicationAllowed(b, m) ==
    /\ workers[WorkerOf[b]] = b
    /\ m.verdict # "nothing"
    /\ m.dispatch.attempt \notin known
    /\ pending[m.dispatch.req] # NoClient

PassGenerations(b) ==
    /\ hpc[b] = "arrived"
    /\ GensAreCurrent(hmsg[b])
    /\ hpc' = [hpc EXCEPT ![b] = "authorised"]
    /\ UNCHANGED <<authorityVars, resultVars, clientVars, streamVars, hmsg, hkey, harrival, noteVars>>

RejectGenerations(b) == hpc[b] = "arrived" /\ ~GensAreCurrent(hmsg[b]) /\ DropResult(b)

PassChecks(b) ==
    /\ hpc[b] = "authorised"
    /\ PublicationAllowed(b, hmsg[b])
    /\ hmsg[b].verdict = "passed"
    /\ hpc' = [hpc EXCEPT ![b] = "checked"]
    /\ UNCHANGED <<authorityVars, resultVars, clientVars, streamVars, hmsg, hkey, harrival, noteVars>>

RejectPublication(b) == hpc[b] = "authorised" /\ ~PublicationAllowed(b, hmsg[b]) /\ DropResult(b)

\* An artifact that failed validation: success is false.
IgnoreFailure(b) ==
    /\ hpc[b] = "authorised"
    /\ PublicationAllowed(b, hmsg[b])
    /\ hmsg[b].verdict # "passed"
    /\ DropResult(b)

\* Mutation: the promise stays registered after it was given its value.
KeepPending(r) == pending
ErasePending(r) == [pending EXCEPT ![r] = NoClient]

\* pubKey: the key the last submit of the request id left, whichever body that had.
\* Every id that was dispatched has one.
LookupKey(b) ==
    /\ hpc[b] = "checked"
    /\ hkey' = [hkey EXCEPT ![b] = reqToKey[hmsg[b].dispatch.req]]
    /\ hpc' = [hpc EXCEPT ![b] = "keyed"]
    /\ UNCHANGED <<authorityVars, resultVars, clientVars, streamVars, hmsg, harrival, noteVars>>

\* A critical section of its own: publish the result under pubKey, remember the
\* generation, fulfil the promise that the request id has by now.
Publish(b) ==
    LET d == hmsg[b].dispatch
        art == [req |-> d.req, key |-> d.key, attempt |-> d.attempt] IN
    /\ hpc[b] = "keyed"
    /\ publications' = [publications EXCEPT ![hkey[b]] = art]
    /\ known' = known \cup {d.attempt}
    /\ IF pending[d.req] # NoClient
       THEN /\ promise' = [promise EXCEPT ![pending[d.req]] = art]
            /\ pending' = ErasePending(d.req)
       ELSE UNCHANGED <<promise, pending>>
    /\ NextResult(b)
    /\ UNCHANGED <<authorityVars, reqToKey, cpc, creq, ckey, cworker, cenv, cchan, reply,
                   streamVars, noteVars>>

\* recvFrame() fails: the entry of the worker id is erased, be it of this boot or of a later one.
Disconnect(b) ==
    /\ hpc[b] = "reading"
    /\ link[b] = "broken" /\ toCoord[b] = <<>>
    /\ workers' = [workers EXCEPT ![WorkerOf[b]] = NoBoot]
    /\ hpc' = [hpc EXCEPT ![b] = "gone"]
    /\ UNCHANGED <<gens, dispatched, resultVars, clientVars, streamVars, hmsg, hkey, harrival, noteVars>>

-----------------------------------------------------------------------------
ClientStep(c) ==
    \/ PublishedHit(c) \/ PublishedMiss(c) \/ SelectWorker(c) \/ NoCapableWorker(c)
    \/ RegisterPromise(c) \/ StampDispatch(c) \/ FindChannel(c) \/ WorkerGone(c)
    \/ SendLength(c) \/ SendBody(c) \/ SendFails(c) \/ FutureReady(c) \/ NextFrame(c)

WorkerStep(b) == CompileAndAnswer(b) \/ ReadTornFrame(b)

HandlerStep(b) ==
    \/ ReceiveResult(b) \/ PassGenerations(b) \/ RejectGenerations(b)
    \/ PassChecks(b) \/ RejectPublication(b) \/ IgnoreFailure(b)
    \/ LookupKey(b) \/ Publish(b) \/ Disconnect(b)

CoordNext ==
    \/ \E c \in Clients, r \in RequestIds, k \in BodyKeys : Submit(c, r, k)
    \/ \E c \in Clients : ClientStep(c)
    \/ \E b \in Boots : Register(b) \/ WorkerStep(b) \/ WorkerDies(b) \/ HandlerStep(b)
    \/ \E r \in RequestIds : Invalidate(r)
    \/ \E g \in Counters : Bump(g)

CoordSpec == CoordInit /\ [][CoordNext]_coordVars

\* Threads and worker processes run, and what was sent is received.
CoordFairness ==
    /\ \A c \in Clients : WF_coordVars(ClientStep(c))
    /\ \A b \in Boots : WF_coordVars(WorkerStep(b)) /\ WF_coordVars(HandlerStep(b))
CoordFairSpec == CoordSpec /\ CoordFairness

-----------------------------------------------------------------------------
(* Properties *)

\* A promise registered in pending_ belongs to a thread that is working on just that
\* request and has no value yet: no promise is ever set twice (std::future_error in a
\* detached thread ends the coordinator), and none is set for another request.
PromisesAreOpen ==
    \A r \in RequestIds : pending[r] # NoClient =>
        LET c == pending[r] IN
        /\ creq[c] = r
        /\ cpc[c] \in {"stamp", "channel", "sendLength", "sendBody", "waiting"}
        /\ promise[c] = NothingBuilt

\* The artifact was built for a request id under which the body of key k, too, was
\* submitted.
OfOneId(k, art) == art.req \in RequestIds /\ {k, art.key} \subseteq bodies[art.req]

\* Whatever was retried, replaced or re-registered on the way, a promise is given a
\* result of its own request id; and a key is published with, or a client is answered
\* with, an artifact built for another key only when one request id was submitted with
\* the bodies of both.  Clients whose ids each name one body are answered for it.
MixUpsNeedASharedId ==
    /\ \A k \in BodyKeys : publications[k] # NothingBuilt => OfOneId(k, publications[k])
    /\ \A c \in Clients : promise[c] # NothingBuilt =>
         promise[c].req = creq[c] /\ OfOneId(ckey[c], promise[c])
    /\ \A c \in Clients : reply[c].kind \in {"hit", "built"} => OfOneId(ckey[c], reply[c].art)

\* A result that arrives after its epoch or a generation has moved on, or after its
\* worker id was registered by another process, never gets as far as publication.
AcceptedWasCurrentOnArrival ==
    \A b \in Boots : hpc[b] \in {"checked", "keyed"} =>
        /\ hmsg[b].dispatch.gens = harrival[b].gens
        /\ harrival[b].boot = b

\* While workers live, compiles succeed and nothing is bumped, a client that is alone
\* is always answered.
LoneClientAnswered ==
    \A c \in Clients : cpc[c] = "lookup" ~> cpc[c] = "idle"

(* The inductive invariant behind these *)

\* A client thread's locals at each point of handleClientFrame().
ClientLocal(c) ==
    /\ cpc[c] # "idle" => creq[c] \in RequestIds /\ ckey[c] \in bodies[creq[c]]
    /\ cpc[c] \in {"idle", "lookup", "select", "promise"} => promise[c] = NothingBuilt
    /\ cpc[c] \in {"promise", "stamp", "channel"} => cworker[c] \in Workers
    /\ cpc[c] \in {"sendLength", "sendBody", "waiting"} => cchan[c] \in Boots
    /\ cpc[c] \in {"channel", "sendLength", "sendBody"} =>
         cenv[c].req = creq[c] /\ cenv[c].key = ckey[c]
    /\ reply[c].kind # "none" => cpc[c] = "replied"
ClientLocals == \A c \in Clients : ClientLocal(c)

\* A dispatch, wherever it is, was stamped with generations since reached, for a body
\* that was submitted under its request id.
Recorded(d) ==
    /\ d.req \in RequestIds /\ d.key \in bodies[d.req]
    /\ \A g \in Counters : d.gens[g] <= gens[g]

DispatchesRecorded ==
    /\ \A c \in Clients : cpc[c] \in {"channel", "sendLength", "sendBody"} => Recorded(cenv[c])
    /\ \A b \in Boots : \A i \in 1..Len(toWorker[b]) : Recorded(toWorker[b][i].dispatch)
    /\ \A b \in Boots : \A i \in 1..Len(toCoord[b]) : Recorded(toCoord[b][i].dispatch)
    /\ \A b \in Boots : hpc[b] \in {"arrived", "authorised", "checked", "keyed"} => Recorded(hmsg[b].dispatch)

\* reqToKey_ has the key of some body of each request id submitted, and so has pubKey.
KeysNoted ==
    /\ \A r \in RequestIds : bodies[r] # {} => reqToKey[r] \in bodies[r]
    /\ \A b \in Boots : hpc[b] = "keyed" => hkey[b] \in bodies[hmsg[b].dispatch.req]

\* The generations of a result are between its stamp and now, and no boot registers twice.
ArrivalsOrdered ==
    /\ \A b \in Boots : link[b] = "down" => hpc[b] = "none" /\ workers[WorkerOf[b]] # b
    /\ \A b \in Boots : hpc[b] \in {"arrived", "authorised", "checked", "keyed"} =>
         /\ \A g \in Counters : /\ hmsg[b].dispatch.gens[g] <= harrival[b].gens[g]
                                  /\ harrival[b].gens[g] <= gens[g]
         /\ workers[WorkerOf[b]] = b => harrival[b].boot = b
    /\ \A b \in Boots : hpc[b] = "authorised" => hmsg[b].dispatch.gens = harrival[b].gens

CoordInv ==
    /\ CoordTypeOK /\ ClientLocals /\ DispatchesRecorded /\ KeysNoted /\ ArrivalsOrdered
    /\ PromisesAreOpen /\ MixUpsNeedASharedId /\ AcceptedWasCurrentOnArrival

(* What the repository says and the code does not do, refuted by a run *)

\* docs/protocol.md, "Each frame is body length prefixed": what follows a length on
\* the stream is the body of that length.
FramesIntact == ~torn
=============================================================================
