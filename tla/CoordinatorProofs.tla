------------------------- MODULE CoordinatorProofs --------------------------
(***************************************************************************)
(* Theorems about Coordinator, for any sets of clients, requests and       *)
(* worker processes and any bounds: CoordInv is an inductive invariant.    *)
(***************************************************************************)
EXTENDS Coordinator, SequenceTheorems, TLAPS

-----------------------------------------------------------------------------
(* Streams *)

\* Reading a frame takes two elements off a stream, the rest moves up by two.
LEMMA TailTwice ==
    ASSUME NEW S, NEW s \in Seq(S), Len(s) >= 2
    PROVE  /\ s[1] \in S /\ s[2] \in S
           /\ Tail(Tail(s)) \in Seq(S)
           /\ Len(Tail(Tail(s))) = Len(s) - 2
           /\ \A i \in 1 .. Len(s) - 2 : Tail(Tail(s))[i] = s[i + 2]
  <1>1. s[1] \in S /\ s[2] \in S
    BY ElementOfSeq
  <1>2. ASSUME NEW t \in Seq(S), Len(t) >= 1
        PROVE  /\ Tail(t) \in Seq(S) /\ Len(Tail(t)) = Len(t) - 1
               /\ \A i \in 1 .. Len(t) - 1 : Tail(t)[i] = t[i + 1]
    <2>1. t # <<>>
      BY <1>2
    <2>2. QED
      BY <2>1, HeadTailProperties
  <1> DEFINE u == Tail(s)
  <1>3. u \in Seq(S) /\ Len(u) = Len(s) - 1 /\ \A i \in 1 .. Len(s) - 1 : u[i] = s[i + 1]
    BY <1>2
  <1> HIDE DEF u
  <1>4. Tail(u) \in Seq(S) /\ Len(Tail(u)) = Len(s) - 2 /\ \A i \in 1 .. Len(s) - 2 : Tail(u)[i] = u[i + 1]
    <2>1. Len(u) >= 1
      BY <1>3
    <2>2. QED
      BY <1>2, <1>3, <2>1
  <1>5. \A i \in 1 .. Len(s) - 2 : Tail(u)[i] = s[i + 2]
    BY <1>3, <1>4
  <1>6. QED
    BY <1>1, <1>4, <1>5 DEF u

-----------------------------------------------------------------------------
(* Typing *)

\* The values that stand for "nothing" have the types of what they stand for, and
\* worker ids are those of some process.
LEMMA Values ==
    /\ FirstGens \in Generations
    /\ NothingBuilt \in BuiltArtifacts /\ NoDispatch \in Dispatches /\ NoResult \in CompileResults
    /\ NoReply \in Replies /\ Reject \in Replies
    /\ NoArrival \in [gens : Generations, boot : Boots \cup {NoBoot}]
    /\ \A b \in Boots : WorkerOf[b] \in Workers
    /\ Workers \subseteq Nat
  <1>1. FirstGens \in Generations
    BY DEF FirstGens, Generations
  <1>2. NothingBuilt \in BuiltArtifacts /\ NoDispatch \in Dispatches
    BY <1>1 DEF NothingBuilt, BuiltArtifacts, NoDispatch, Dispatches
  <1>3. NoResult \in CompileResults
    BY <1>2 DEF NoResult, CompileResults, Verdicts
  <1>4. NoReply \in Replies /\ Reject \in Replies
    BY <1>2 DEF NoReply, Reject, Replies
  <1>5. NoArrival \in [gens : Generations, boot : Boots \cup {NoBoot}]
    BY <1>1 DEF NoArrival
  <1>6. (\A b \in Boots : WorkerOf[b] \in Workers) /\ Workers \subseteq Nat
    BY CoordinatorAssumption DEF Workers
  <1>7. QED
    BY <1>1, <1>2, <1>3, <1>4, <1>5, <1>6

\* A coordinator that has just started has the declared types.
LEMMA TypeInit == CoordInit => CoordTypeOK
  <1> SUFFICES ASSUME CoordInit PROVE CoordTypeOK
    OBVIOUS
  <1>1. harrival \in [Boots -> [gens : Generations, boot : Boots \cup {NoBoot}]]
    BY Values DEF CoordInit
  <1>2. toWorker \in [Boots -> Seq([half : Halves, dispatch : Dispatches])]
    BY DEF CoordInit
  <1>3. toCoord \in [Boots -> Seq(CompileResults)]
    BY DEF CoordInit
  <1>4. QED
    BY <1>1, <1>2, <1>3, Values DEF CoordInit, CoordTypeOK, ClientPCs, HandlerPCs

\* A client thread that has a request has the key of its body.
LEMMA RequestTypes ==
    ASSUME CoordTypeOK, ClientLocals, NEW c \in Clients, cpc[c] # "idle"
    PROVE  creq[c] \in RequestIds /\ ckey[c] \in BodyKeys /\ publications[ckey[c]] \in BuiltArtifacts
  <1>1. creq[c] \in RequestIds /\ ckey[c] \in bodies[creq[c]]
    BY DEF ClientLocals, ClientLocal
  <1>2. bodies[creq[c]] \subseteq BodyKeys
    BY <1>1 DEF CoordTypeOK
  <1>3. QED
    BY <1>1, <1>2 DEF CoordTypeOK

\* Steps of a client thread keep the types.
LEMMA TypeClient ==
    ASSUME CoordTypeOK, ClientLocals, NEW c \in Clients, ClientStep(c)
    PROVE  CoordTypeOK'
  <1> USE Values
  <1> USE DEF authorityVars, resultVars, clientVars, streamVars, handlerVars, noteVars
  <1>1. CASE PublishedHit(c)
    <2>1. [kind |-> "hit", art |-> publications[ckey[c]]] \in Replies
      BY <1>1, RequestTypes DEF PublishedHit, Replies
    <2>2. QED
      BY <1>1, <2>1 DEF PublishedHit, SendReply, CoordTypeOK, ClientPCs
  <1>2. CASE PublishedMiss(c)
    BY <1>2 DEF PublishedMiss, CoordTypeOK, ClientPCs
  <1>3. CASE SelectWorker(c)
    <2>1. PICK w \in Workers : cworker' = [cworker EXCEPT ![c] = w]
      BY <1>3 DEF SelectWorker
    <2>2. cworker' \in [Clients -> Nat]
      BY <2>1 DEF CoordTypeOK
    <2>3. QED
      BY <1>3, <2>2 DEF SelectWorker, CoordTypeOK, ClientPCs
  <1>4. CASE NoCapableWorker(c)
    BY <1>4 DEF NoCapableWorker, SendReply, CoordTypeOK, ClientPCs
  <1>5. CASE RegisterPromise(c)
    BY <1>5 DEF RegisterPromise, CoordTypeOK, ClientPCs
  <1>6. CASE StampDispatch(c)
    <2>1. dispatched + 1 \in Nat
      BY DEF CoordTypeOK
    <2>2. [req |-> creq[c], key |-> ckey[c], attempt |-> dispatched + 1, gens |-> gens] \in Dispatches
      BY <2>1 DEF CoordTypeOK, Dispatches
    <2>3. QED
      BY <1>6, <2>1, <2>2 DEF StampDispatch, CoordTypeOK, ClientPCs
  <1>7. CASE FindChannel(c)
    <2>1. workers[cworker[c]] \in Boots \cup {NoBoot}
      BY <1>7 DEF FindChannel, ClientLocals, ClientLocal, CoordTypeOK
    <2>2. QED
      BY <1>7, <2>1 DEF FindChannel, CoordTypeOK, ClientPCs
  <1>8. ASSUME GiveUp(c) PROVE CoordTypeOK'
    BY <1>8 DEF GiveUp, SendReply, CoordTypeOK, ClientPCs
  <1>9. ASSUME NEW half \in Halves, Write(c, half), cchan[c] \in Boots
        PROVE  toWorker' \in [Boots -> Seq([half : Halves, dispatch : Dispatches])]
    <2>1. [half |-> half, dispatch |-> cenv[c]] \in [half : Halves, dispatch : Dispatches]
      BY DEF CoordTypeOK
    <2>2. QED
      BY <1>9, <2>1, AppendProperties DEF Write, CoordTypeOK
  <1>10. CASE SendLength(c)
    <2>1. toWorker' \in [Boots -> Seq([half : Halves, dispatch : Dispatches])]
      BY <1>9, <1>10 DEF SendLength, ClientLocals, ClientLocal, Halves
    <2>2. QED
      BY <1>10, <2>1 DEF SendLength, CoordTypeOK, ClientPCs
  <1>11. CASE SendBody(c)
    <2>1. toWorker' \in [Boots -> Seq([half : Halves, dispatch : Dispatches])]
      BY <1>9, <1>11 DEF SendBody, ClientLocals, ClientLocal, Halves
    <2>2. QED
      BY <1>11, <2>1 DEF SendBody, CoordTypeOK, ClientPCs
  <1>12. CASE FutureReady(c)
    <2>1. [kind |-> "built", art |-> promise[c]] \in Replies
      BY DEF Replies, CoordTypeOK
    <2>2. QED
      BY <1>12, <2>1 DEF FutureReady, SendReply, CoordTypeOK, ClientPCs
  <1>13. CASE NextFrame(c)
    BY <1>13 DEF NextFrame, CoordTypeOK, ClientPCs
  <1>14. QED
    BY <1>1, <1>2, <1>3, <1>4, <1>5, <1>6, <1>7, <1>8, <1>10, <1>11, <1>12, <1>13
       DEF ClientStep, WorkerGone, SendFails

\* Steps of worker processes keep the types.
LEMMA TypeWorker ==
    ASSUME CoordTypeOK, NEW b \in Boots, Register(b) \/ WorkerStep(b) \/ WorkerDies(b)
    PROVE  CoordTypeOK'
  <1> USE Values
  <1> USE DEF authorityVars, resultVars, clientVars, streamVars, handlerVars, noteVars
  <1>1. CASE Register(b)
    BY <1>1 DEF Register, CoordTypeOK, HandlerPCs
  <1>2. CASE CompileAndAnswer(b)
    <2>1. PICK v \in Verdicts : toCoord' = [toCoord EXCEPT ![b] =
                       Append(@, [dispatch |-> toWorker[b][2].dispatch, verdict |-> v])]
      BY <1>2 DEF CompileAndAnswer, Verdicts
    <2>2. toWorker[b] \in Seq([half : Halves, dispatch : Dispatches]) /\ Len(toWorker[b]) >= 2
      BY <1>2 DEF CompileAndAnswer, CoordTypeOK
    <2>3. [dispatch |-> toWorker[b][2].dispatch, verdict |-> v] \in CompileResults
      <3>1. toWorker[b][2] \in [half : Halves, dispatch : Dispatches]
        BY <2>2, TailTwice
      <3>2. QED
        BY <3>1 DEF CompileResults
    <2>4. toCoord' \in [Boots -> Seq(CompileResults)]
      BY <2>1, <2>3, AppendProperties DEF CoordTypeOK
    <2>5. Tail(Tail(toWorker[b])) \in Seq([half : Halves, dispatch : Dispatches])
      BY <2>2, TailTwice
    <2>6. QED
      BY <1>2, <2>4, <2>5 DEF CompileAndAnswer, CoordTypeOK
  <1>3. CASE ReadTornFrame(b)
    <2>1. <<>> \in Seq([half : Halves, dispatch : Dispatches])
      OBVIOUS
    <2>2. QED
      BY <1>3, <2>1 DEF ReadTornFrame, CoordTypeOK
  <1>4. CASE WorkerDies(b)
    <2>1. <<>> \in Seq([half : Halves, dispatch : Dispatches]) /\ <<>> \in Seq(CompileResults)
      OBVIOUS
    <2>2. toCoord' \in [Boots -> Seq(CompileResults)]
      BY <1>4, <2>1 DEF WorkerDies, CoordTypeOK
    <2>3. toWorker' \in [Boots -> Seq([half : Halves, dispatch : Dispatches])]
      BY <1>4, <2>1 DEF WorkerDies, CoordTypeOK
    <2>4. QED
      BY <1>4, <2>2, <2>3 DEF WorkerDies, CoordTypeOK
  <1>5. QED
    BY <1>1, <1>2, <1>3, <1>4 DEF WorkerStep

\* Steps of the threads that serve worker connections keep the types.
LEMMA TypeHandler ==
    ASSUME CoordTypeOK, DispatchesRecorded, KeysNoted, NEW b \in Boots, HandlerStep(b)
    PROVE  CoordTypeOK'
  <1> USE Values
  <1> USE DEF authorityVars, resultVars, clientVars, streamVars, handlerVars, noteVars
  <1>1. CASE ReceiveResult(b)
    <2>1. Head(toCoord[b]) \in CompileResults /\ Tail(toCoord[b]) \in Seq(CompileResults)
      BY <1>1 DEF ReceiveResult, CoordTypeOK
    <2>2. [gens |-> gens, boot |-> workers[WorkerOf[b]]] \in [gens : Generations, boot : Boots \cup {NoBoot}]
      BY DEF CoordTypeOK
    <2>3. QED
      BY <1>1, <2>1, <2>2 DEF ReceiveResult, CoordTypeOK, HandlerPCs
  <1>2. ASSUME DropResult(b) PROVE CoordTypeOK'
    BY <1>2 DEF DropResult, NextResult, CoordTypeOK, HandlerPCs
  <1>3. CASE PassGenerations(b)
    BY <1>3 DEF PassGenerations, CoordTypeOK, HandlerPCs
  <1>4. CASE PassChecks(b)
    BY <1>4 DEF PassChecks, CoordTypeOK, HandlerPCs
  <1>5. CASE Publish(b)
    <2> DEFINE d == hmsg[b].dispatch
               a == [req |-> d.req, key |-> d.key, attempt |-> d.attempt]
    <2>0. d \in Dispatches /\ d.req \in RequestIds /\ hkey[b] \in bodies[d.req]
      BY <1>5 DEF Publish, DispatchesRecorded, Recorded, KeysNoted, CoordTypeOK, CompileResults
    <2>1. d.req \in RequestIds /\ d.key \in BodyKeys \cup {NoBody} /\ d.attempt \in Nat /\ hkey[b] \in BodyKeys
      BY <2>0 DEF Dispatches, CoordTypeOK
    <2>2. a \in BuiltArtifacts
      BY <2>1 DEF BuiltArtifacts
    <2>3. publications' \in [BodyKeys -> BuiltArtifacts] /\ known' \in SUBSET Nat
      BY <1>5, <2>1, <2>2 DEF Publish, CoordTypeOK
    <2> HIDE DEF a
    <2>4. promise' \in [Clients -> BuiltArtifacts] /\ pending' \in [RequestIds -> Clients \cup {NoClient}]
      <3>1. promise \in [Clients -> BuiltArtifacts] /\ pending \in [RequestIds -> Clients \cup {NoClient}]
        BY DEF CoordTypeOK
      <3>2. \/ /\ promise' = [promise EXCEPT ![pending[d.req]] = a]
               /\ pending' = [pending EXCEPT ![d.req] = NoClient]
            \/ UNCHANGED <<promise, pending>>
        BY <1>5 DEF Publish, ErasePending, a
      <3>3. QED
        BY <2>1, <2>2, <3>1, <3>2
    <2>5. QED
      BY <1>5, <2>3, <2>4 DEF Publish, NextResult, CoordTypeOK, HandlerPCs
  <1>6. CASE Disconnect(b)
    BY <1>6 DEF Disconnect, CoordTypeOK, HandlerPCs
  <1>7. CASE LookupKey(b)
    <2>1. hmsg[b].dispatch.req \in RequestIds
      BY <1>7 DEF LookupKey, DispatchesRecorded, Recorded
    <2>2. hkey' \in [Boots -> BodyKeys \cup {NoBody}]
      BY <1>7, <2>1 DEF LookupKey, CoordTypeOK
    <2>3. QED
      BY <1>7, <2>2 DEF LookupKey, CoordTypeOK, HandlerPCs
  <1>8. QED
    BY <1>1, <1>2, <1>3, <1>4, <1>5, <1>6, <1>7
       DEF HandlerStep, RejectGenerations, RejectPublication, IgnoreFailure

\* Every step keeps the types.
LEMMA TypeNext ==
    ASSUME CoordTypeOK, ClientLocals, DispatchesRecorded, KeysNoted, [CoordNext]_coordVars
    PROVE  CoordTypeOK'
  <1> USE Values
  <1> USE DEF authorityVars, resultVars, clientVars, streamVars, handlerVars, noteVars
  <1>1. ASSUME NEW c \in Clients, NEW r \in RequestIds, NEW k \in BodyKeys, Submit(c, r, k) PROVE CoordTypeOK'
    BY <1>1 DEF Submit, CoordTypeOK, ClientPCs
  <1>2. ASSUME NEW r \in RequestIds, Invalidate(r) PROVE CoordTypeOK'
    BY <1>2 DEF Invalidate, CoordTypeOK
  <1>3. ASSUME NEW g \in Counters, Bump(g) PROVE CoordTypeOK'
    <2>1. gens' \in Generations
      <3>1. gens \in [Counters -> Nat] /\ gens' = [gens EXCEPT ![g] = @ + 1]
        BY <1>3 DEF Bump, CoordTypeOK, Generations
      <3>2. QED
        BY <3>1 DEF Generations
    <2>2. QED
      BY <1>3, <2>1 DEF Bump, CoordTypeOK
  <1>4. CASE UNCHANGED coordVars
    BY <1>4 DEF coordVars, CoordTypeOK
  <1>5. QED
    BY <1>1, <1>2, <1>3, <1>4, TypeClient, TypeWorker, TypeHandler DEF CoordNext

-----------------------------------------------------------------------------
(* Clients *)

\* Apart from clients themselves only Publish writes a client's local, a promise.
LEMMA OthersKeepClients ==
    ASSUME NEW b \in Boots, Register(b) \/ WorkerStep(b) \/ WorkerDies(b) \/ (HandlerStep(b) /\ ~Publish(b))
    PROVE  UNCHANGED <<clientVars, resultVars, bodies>>
  <1> USE DEF authorityVars, resultVars, clientVars, streamVars, handlerVars, noteVars
  <1>1. CASE Register(b) \/ WorkerStep(b) \/ WorkerDies(b)
    BY <1>1 DEF Register, WorkerStep, CompileAndAnswer, ReadTornFrame, WorkerDies
  <1>2. CASE HandlerStep(b) /\ ~Publish(b)
    BY <1>2 DEF HandlerStep, ReceiveResult, PassGenerations, RejectGenerations, PassChecks,
       RejectPublication, IgnoreFailure, DropResult, LookupKey, Disconnect
  <1>3. QED
    BY <1>1, <1>2

\* A step of client c leaves the other clients alone.
LEMMA ClientsSeparate ==
    ASSUME CoordTypeOK, NEW c \in Clients, NEW d \in Clients, d # c,
           ClientStep(c) \/ \E r \in RequestIds, k \in BodyKeys : Submit(c, r, k)
    PROVE  /\ cpc'[d] = cpc[d] /\ creq'[d] = creq[d] /\ ckey'[d] = ckey[d] /\ cworker'[d] = cworker[d]
           /\ cenv'[d] = cenv[d] /\ cchan'[d] = cchan[d] /\ promise'[d] = promise[d]
           /\ reply'[d] = reply[d]
  <1> USE DEF authorityVars, resultVars, clientVars, streamVars, handlerVars, noteVars
  <1>1. CASE \E r \in RequestIds, k \in BodyKeys : Submit(c, r, k)
    BY <1>1 DEF Submit, CoordTypeOK
  <1>2. CASE PublishedHit(c) \/ PublishedMiss(c) \/ SelectWorker(c) \/ NoCapableWorker(c)
    BY <1>2 DEF PublishedHit, PublishedMiss, SelectWorker, NoCapableWorker, SendReply, CoordTypeOK
  <1>3. CASE RegisterPromise(c) \/ StampDispatch(c) \/ FindChannel(c) \/ WorkerGone(c)
    BY <1>3 DEF RegisterPromise, StampDispatch, FindChannel, WorkerGone, GiveUp, SendReply, CoordTypeOK
  <1>4. CASE SendLength(c) \/ SendBody(c) \/ SendFails(c) \/ FutureReady(c) \/ NextFrame(c)
    BY <1>4 DEF SendLength, SendBody, SendFails, GiveUp, FutureReady, NextFrame, SendReply, CoordTypeOK
  <1>5. QED
    BY <1>1, <1>2, <1>3, <1>4 DEF ClientStep

\* A client's own steps keep its locals in order.
LEMMA OwnLocals ==
    ASSUME CoordTypeOK, NEW c \in Clients, ClientLocal(c),
           ClientStep(c) \/ \E r \in RequestIds, k \in BodyKeys : Submit(c, r, k)
    PROVE  ClientLocal(c)'
  <1> USE Values DEF ClientLocal, authorityVars, resultVars, clientVars, streamVars, handlerVars, noteVars
  <1>1. CASE \E r \in RequestIds, k \in BodyKeys : Submit(c, r, k)
    BY <1>1 DEF Submit, CoordTypeOK
  <1>2. CASE PublishedHit(c) \/ PublishedMiss(c) \/ SelectWorker(c) \/ NoCapableWorker(c)
    BY <1>2 DEF PublishedHit, PublishedMiss, SelectWorker, NoCapableWorker, SendReply, CoordTypeOK
  <1>3. CASE RegisterPromise(c) \/ StampDispatch(c) \/ FindChannel(c)
    BY <1>3 DEF RegisterPromise, StampDispatch, FindChannel, CoordTypeOK
  <1>4. CASE WorkerGone(c) \/ SendFails(c)
    BY <1>4 DEF WorkerGone, SendFails, GiveUp, SendReply, CoordTypeOK
  <1>5. CASE SendLength(c) \/ SendBody(c)
    BY <1>5 DEF SendLength, SendBody, CoordTypeOK
  <1>6. CASE FutureReady(c) \/ NextFrame(c)
    BY <1>6 DEF FutureReady, NextFrame, SendReply, NoReply, CoordTypeOK
  <1>7. QED
    BY <1>1, <1>2, <1>3, <1>4, <1>5, <1>6 DEF ClientStep

\* Authority and history only move forward: no generation falls, and what was
\* submitted under a request id stays on record.
LEMMA RecordsStay ==
    ASSUME CoordTypeOK, CoordTypeOK', [CoordNext]_coordVars
    PROVE  /\ \A g \in Counters : gens[g] <= gens'[g]
           /\ \A r \in RequestIds : bodies[r] \subseteq bodies'[r]
  <1> USE DEF authorityVars, resultVars, clientVars, streamVars, handlerVars, noteVars
  <1> DEFINE Keeps == UNCHANGED <<gens, bodies>>
  <1>0. \A g \in Counters : gens[g] \in Nat
    BY DEF CoordTypeOK, Generations
  <1>1. ASSUME NEW c \in Clients, NEW r \in RequestIds, NEW k \in BodyKeys, Submit(c, r, k)
        PROVE  gens' = gens /\ \A q \in RequestIds : bodies[q] \subseteq bodies'[q]
    BY <1>1 DEF Submit, CoordTypeOK
  <1>2. ASSUME NEW c \in Clients, ClientStep(c) PROVE Keeps
    <2>1. CASE PublishedHit(c) \/ PublishedMiss(c) \/ SelectWorker(c) \/ NoCapableWorker(c)
      BY <2>1 DEF PublishedHit, PublishedMiss, SelectWorker, NoCapableWorker
    <2>2. CASE RegisterPromise(c) \/ StampDispatch(c) \/ FindChannel(c) \/ WorkerGone(c)
      BY <2>2 DEF RegisterPromise, StampDispatch, FindChannel, WorkerGone, GiveUp
    <2>3. CASE SendLength(c) \/ SendBody(c) \/ SendFails(c) \/ FutureReady(c) \/ NextFrame(c)
      BY <2>3 DEF SendLength, SendBody, SendFails, GiveUp, FutureReady, NextFrame
    <2>4. QED
      BY <1>2, <2>1, <2>2, <2>3 DEF ClientStep
  <1>3. ASSUME NEW b \in Boots, Register(b) \/ WorkerStep(b) \/ WorkerDies(b) \/ HandlerStep(b) PROVE Keeps
    BY <1>3 DEF Register, WorkerStep, CompileAndAnswer, ReadTornFrame, WorkerDies, HandlerStep,
       ReceiveResult, PassGenerations, RejectGenerations, PassChecks, RejectPublication,
       IgnoreFailure, DropResult, NextResult, LookupKey, Publish, Disconnect
  <1>4. ASSUME NEW r \in RequestIds, Invalidate(r) PROVE Keeps
    BY <1>4 DEF Invalidate
  <1>5. ASSUME NEW g \in Counters, Bump(g) PROVE bodies' = bodies /\ \A h \in Counters : gens[h] <= gens'[h]
    BY <1>0, <1>5 DEF Bump, CoordTypeOK, Generations
  <1>6. CASE UNCHANGED coordVars
    BY <1>0, <1>6 DEF coordVars
  <1>7. QED
    BY <1>0, <1>1, <1>2, <1>3, <1>4, <1>5, <1>6 DEF CoordNext

\* A dispatch that was recorded stays recorded.
LEMMA RecordedStays ==
    ASSUME CoordTypeOK, CoordTypeOK', [CoordNext]_coordVars, NEW d \in Dispatches, Recorded(d)
    PROVE  Recorded(d)'
  <1>1. \A g \in Counters : d.gens[g] \in Nat /\ gens[g] \in Nat /\ gens'[g] \in Nat
    BY DEF CoordTypeOK, Dispatches, Generations
  <1>2. QED
    BY <1>1, RecordsStay DEF Recorded

\* No step disturbs the locals of a client.
LEMMA LocalsNext ==
    ASSUME CoordInv, CoordTypeOK', [CoordNext]_coordVars
    PROVE  ClientLocals'
  <1> USE DEF CoordInv
  <1> SUFFICES ASSUME NEW d \in Clients PROVE ClientLocal(d)'
    BY DEF ClientLocals
  <1>0. ClientLocal(d)
    BY DEF ClientLocals
  <1>1. \A r \in RequestIds : bodies[r] \subseteq bodies'[r]
    BY RecordsStay
  <1>2. ASSUME NEW c \in Clients, ClientStep(c) \/ \E r \in RequestIds, k \in BodyKeys : Submit(c, r, k) PROVE ClientLocal(d)'
    <2>1. CASE c = d
      BY <1>0, <1>2, <2>1, OwnLocals
    <2>2. CASE c # d
      BY <1>0, <1>1, <1>2, <2>2, ClientsSeparate DEF ClientLocal
    <2>3. QED
      BY <2>1, <2>2
  <1>3. ASSUME UNCHANGED clientVars PROVE ClientLocal(d)'
    BY <1>0, <1>1, <1>3 DEF ClientLocal, clientVars
  <1>4. ASSUME NEW b \in Boots, Publish(b) PROVE ClientLocal(d)'
    <2>1. hmsg[b].dispatch.req \in RequestIds
      BY <1>4 DEF Publish, DispatchesRecorded, Recorded
    <2>2. promise'[d] = promise[d] \/ cpc[d] \in {"stamp", "channel", "sendLength", "sendBody", "waiting"}
      BY <1>4, <2>1 DEF Publish, PromisesAreOpen, CoordTypeOK
    <2>3. QED
      BY <1>0, <1>1, <1>4, <2>2 DEF Publish, ClientLocal
  <1>5. ASSUME NEW r \in RequestIds, Invalidate(r) PROVE ClientLocal(d)'
    BY <1>3, <1>5 DEF Invalidate
  <1>6. ASSUME NEW g \in Counters, Bump(g) PROVE ClientLocal(d)'
    BY <1>3, <1>6 DEF Bump
  <1>7. ASSUME UNCHANGED coordVars PROVE ClientLocal(d)'
    BY <1>3, <1>7 DEF coordVars
  <1>8. QED
    BY <1>2, <1>3, <1>4, <1>5, <1>6, <1>7, OthersKeepClients DEF CoordNext

\* A promise in pending_ stays open until it is given its value or given up.
LEMMA PromisesNext ==
    ASSUME CoordInv, CoordTypeOK', [CoordNext]_coordVars
    PROVE  PromisesAreOpen'
  <1> USE DEF CoordInv
  <1> SUFFICES ASSUME NEW q \in RequestIds, pending'[q] # NoClient
               PROVE  LET c == pending'[q] IN
                      /\ creq'[c] = q
                      /\ cpc'[c] \in {"stamp", "channel", "sendLength", "sendBody", "waiting"}
                      /\ promise'[c] = NothingBuilt
    BY DEF PromisesAreOpen
  <1> DEFINE Open(c) == /\ creq'[c] = q
                        /\ cpc'[c] \in {"stamp", "channel", "sendLength", "sendBody", "waiting"}
                        /\ promise'[c] = NothingBuilt
  <1>0. pending'[q] \in Clients
    BY DEF CoordTypeOK
  <1>1. ASSUME NEW c \in Clients, NEW r \in RequestIds, NEW k \in BodyKeys, Submit(c, r, k) PROVE Open(pending'[q])
    BY <1>0, <1>1 DEF Submit, CoordTypeOK, PromisesAreOpen
  <1>2. ASSUME NEW c \in Clients, ClientStep(c) PROVE Open(pending'[q])
    <2>1. CASE RegisterPromise(c)
      <3>1. creq[c] \in RequestIds /\ promise[c] = NothingBuilt
        BY <2>1 DEF RegisterPromise, ClientLocals, ClientLocal
      <3>2. CASE pending'[q] = c
        <4>1. creq[c] = q
          BY <2>1, <3>1, <3>2 DEF RegisterPromise, CoordTypeOK, PromisesAreOpen
        <4>2. QED
          BY <2>1, <3>1, <3>2, <4>1 DEF RegisterPromise, CoordTypeOK
      <3>3. CASE pending'[q] # c
        <4>1. pending'[q] = pending[q]
          BY <2>1, <3>1, <3>3 DEF RegisterPromise, CoordTypeOK
        <4>2. QED
          BY <1>0, <1>2, <3>3, <4>1, ClientsSeparate DEF PromisesAreOpen
      <3>4. QED
        BY <3>2, <3>3
    <2>2. CASE ~RegisterPromise(c)
      <3>1. pending'[q] = pending[q]
        <4>1. CASE WorkerGone(c) \/ SendFails(c)
          BY <1>0, <4>1, CoordinatorAssumption DEF WorkerGone, SendFails, GiveUp, CoordTypeOK
        <4>2. CASE ~(WorkerGone(c) \/ SendFails(c))
          BY <1>2, <2>2, <4>2 DEF ClientStep, PublishedHit, PublishedMiss, SelectWorker,
             NoCapableWorker, StampDispatch, FindChannel, SendLength, SendBody, FutureReady,
             NextFrame, resultVars
        <4>3. QED
          BY <4>1, <4>2
      <3>2. CASE pending[q] # c
        BY <1>0, <1>2, <3>1, <3>2, ClientsSeparate DEF PromisesAreOpen
      <3>3. CASE pending[q] = c
        <4>1. /\ creq[c] = q /\ promise[c] = NothingBuilt
              /\ cpc[c] \in {"stamp", "channel", "sendLength", "sendBody", "waiting"}
          BY <1>0, <3>1, <3>3 DEF PromisesAreOpen
        <4>2. ~(WorkerGone(c) \/ SendFails(c))
          BY <3>1, <3>3, <4>1, CoordinatorAssumption DEF WorkerGone, SendFails, GiveUp, CoordTypeOK
        <4>3. StampDispatch(c) \/ FindChannel(c) \/ SendLength(c) \/ SendBody(c)
          BY <1>2, <2>2, <4>1, <4>2 DEF ClientStep, PublishedHit, PublishedMiss, SelectWorker,
             NoCapableWorker, FutureReady, NextFrame
        <4>4. QED
          BY <3>1, <3>3, <4>1, <4>3 DEF StampDispatch, FindChannel, SendLength, SendBody, CoordTypeOK
      <3>4. QED
        BY <3>2, <3>3
    <2>3. QED
      BY <2>1, <2>2
  <1>3. ASSUME UNCHANGED <<clientVars, pending>> PROVE Open(pending'[q])
    BY <1>0, <1>3 DEF clientVars, PromisesAreOpen
  <1>4. ASSUME NEW b \in Boots, Publish(b) PROVE Open(pending'[q])
    <2>1. hmsg[b].dispatch.req \in RequestIds
      BY <1>4 DEF Publish, DispatchesRecorded, Recorded
    <2>2. pending'[q] = pending[q] /\ pending[q] \in Clients
      BY <1>0, <1>4, <2>1 DEF Publish, ErasePending, CoordTypeOK
    <2>3. promise'[pending[q]] = promise[pending[q]]
      BY <1>0, <1>4, <2>1, <2>2 DEF Publish, ErasePending, CoordTypeOK, PromisesAreOpen
    <2>4. QED
      BY <1>4, <2>2, <2>3, CoordinatorAssumption DEF Publish, PromisesAreOpen
  <1>5. ASSUME NEW r \in RequestIds, Invalidate(r) PROVE Open(pending'[q])
    BY <1>3, <1>5 DEF Invalidate
  <1>6. ASSUME NEW g \in Counters, Bump(g) PROVE Open(pending'[q])
    BY <1>3, <1>6 DEF Bump, resultVars
  <1>7. ASSUME UNCHANGED coordVars PROVE Open(pending'[q])
    BY <1>3, <1>7 DEF coordVars, resultVars
  <1>8. QED
    BY <1>1, <1>2, <1>3, <1>4, <1>5, <1>6, <1>7, OthersKeepClients DEF CoordNext, resultVars

\* What a step finds of one id stays of one id.
LEMMA OfOneIdStays ==
    ASSUME CoordTypeOK, CoordTypeOK', [CoordNext]_coordVars
    PROVE  \A k, art : OfOneId(k, art) => OfOneId(k, art)'
  BY RecordsStay DEF OfOneId

\* Publications, promises and replies stay of one id.
LEMMA AnswersNext ==
    ASSUME CoordInv, CoordTypeOK', [CoordNext]_coordVars
    PROVE  MixUpsNeedASharedId'
  <1> USE DEF CoordInv
  <1> DEFINE Published == \A k \in BodyKeys : publications[k] # NothingBuilt => OfOneId(k, publications[k])
             Promised(c) == promise[c] # NothingBuilt =>
                              promise[c].req = creq[c] /\ OfOneId(ckey[c], promise[c])
             Answered(c) == reply[c].kind \in {"hit", "built"} => OfOneId(ckey[c], reply[c].art)
             Client(c) == Promised(c) /\ Answered(c)
  <1>1. Published /\ \A c \in Clients : Client(c)
    BY DEF MixUpsNeedASharedId
  <1>2. SUFFICES Published' /\ \A c \in Clients : Client(c)'
    BY DEF MixUpsNeedASharedId
  <1>3. \A k, art : OfOneId(k, art) => OfOneId(k, art)'
    BY OfOneIdStays
  \* What a step leaves alone.
  <1>4. ASSUME publications' = publications PROVE Published'
    BY <1>1, <1>3, <1>4
  <1>5. ASSUME NEW c \in Clients, promise'[c] = promise[c], reply'[c] = reply[c],
               creq'[c] = creq[c], ckey'[c] = ckey[c]
        PROVE  Client(c)'
    BY <1>1, <1>3, <1>5
  <1>6. ASSUME NEW b \in Boots, Publish(b) PROVE Published' /\ \A c \in Clients : Client(c)'
    <2> DEFINE d == hmsg[b].dispatch
               a == [req |-> d.req, key |-> d.key, attempt |-> d.attempt]
    <2>1. /\ d.req \in RequestIds /\ d.key \in bodies[d.req] /\ hkey[b] \in bodies[d.req]
          /\ hkey[b] \in BodyKeys
      BY <1>6 DEF Publish, DispatchesRecorded, Recorded, KeysNoted, CoordTypeOK
    <2>2. publications' = [publications EXCEPT ![hkey[b]] = a] /\ UNCHANGED <<creq, ckey, reply>>
      BY <1>6 DEF Publish
    <2>3. \A k : k \in bodies[d.req] => OfOneId(k, a)
      BY <2>1 DEF OfOneId
    <2> HIDE DEF a
    <2>4. Published'
      BY <1>1, <1>3, <2>1, <2>2, <2>3 DEF CoordTypeOK
    <2>5. ASSUME NEW c \in Clients PROVE Client(c)'
      <3>1. promise'[c] = promise[c] \/ (promise'[c] = a /\ pending[d.req] = c)
        BY <1>6, <2>1 DEF Publish, CoordTypeOK, a
      <3>2. CASE promise'[c] = promise[c]
        BY <1>5, <2>2, <3>2
      <3>3. CASE promise'[c] = a /\ pending[d.req] = c
        <4>1. creq[c] = d.req /\ cpc[c] # "idle"
          BY <2>1, <3>3, CoordinatorAssumption DEF PromisesAreOpen
        <4>2. ckey[c] \in bodies[d.req]
          BY <4>1 DEF ClientLocals, ClientLocal
        <4>3. OfOneId(ckey[c], a)
          BY <2>3, <4>2
        <4>4. a.req = d.req
          BY DEF a
        <4>5. Promised(c)'
          BY <1>3, <2>2, <3>3, <4>1, <4>3, <4>4
        <4>6. Answered(c)'
          BY <1>1, <1>3, <2>2
        <4>7. QED
          BY <4>5, <4>6
      <3>4. QED
        BY <3>1, <3>2, <3>3
    <2>6. QED
      BY <2>4, <2>5
  <1>7. ASSUME NEW r \in RequestIds, Invalidate(r) PROVE Published' /\ \A c \in Clients : Client(c)'
    <2>1. UNCHANGED clientVars /\ \A k \in BodyKeys : publications'[k] = publications[k] \/ publications'[k] = NothingBuilt
      BY <1>7 DEF Invalidate
    <2>2. Published'
      BY <1>1, <1>3, <2>1
    <2>3. QED
      BY <1>5, <2>1, <2>2 DEF clientVars
  <1>8. ASSUME UNCHANGED <<clientVars, publications>> PROVE Published' /\ \A c \in Clients : Client(c)'
    BY <1>4, <1>5, <1>8 DEF clientVars
  <1>9. ASSUME NEW c \in Clients, NEW r \in RequestIds, NEW k \in BodyKeys, Submit(c, r, k)
        PROVE  Published' /\ \A d \in Clients : Client(d)'
    <2>1. promise'[c] = NothingBuilt /\ reply'[c].kind = "none" /\ publications' = publications
      BY <1>9 DEF Submit, ClientLocals, ClientLocal, CoordTypeOK, Replies
    <2>2. Client(c)'
      BY <2>1
    <2>3. ASSUME NEW d \in Clients, d # c PROVE Client(d)'
      BY <1>5, <1>9, <2>3, ClientsSeparate
    <2>4. QED
      BY <1>4, <2>1, <2>2, <2>3
  <1>10. ASSUME NEW c \in Clients, ClientStep(c) PROVE Published' /\ \A d \in Clients : Client(d)'
    <2>1. publications' = publications
      BY <1>10 DEF ClientStep, PublishedHit, PublishedMiss, SelectWorker, NoCapableWorker,
         RegisterPromise, StampDispatch, FindChannel, WorkerGone, GiveUp, SendLength, SendBody,
         SendFails, FutureReady, NextFrame, resultVars
    <2>2. ASSUME NEW d \in Clients, d # c PROVE Client(d)'
      BY <1>5, <1>10, <2>2, ClientsSeparate
    <2>3. Client(c)'
      <3>1. CASE PublishedHit(c)
        <4>1. ckey[c] \in BodyKeys
          BY <3>1, RequestTypes DEF PublishedHit
        <4>2. /\ reply'[c] = [kind |-> "hit", art |-> publications[ckey[c]]]
              /\ UNCHANGED <<promise, creq, ckey>>
          BY <3>1 DEF PublishedHit, SendReply, CoordTypeOK
        <4>3. OfOneId(ckey[c], publications[ckey[c]])
          BY <1>1, <3>1, <4>1 DEF PublishedHit
        <4>4. QED
          BY <1>1, <1>3, <4>2, <4>3
      <3>2. CASE FutureReady(c)
        <4>1. /\ reply'[c] = [kind |-> "built", art |-> promise[c]]
              /\ UNCHANGED <<promise, creq, ckey>> /\ promise[c] # NothingBuilt
          BY <3>2 DEF FutureReady, SendReply, CoordTypeOK
        <4>2. QED
          BY <1>1, <1>3, <4>1
      <3>3. CASE NextFrame(c)
        BY <3>3 DEF NextFrame, NoReply, CoordTypeOK
      <3>4. CASE NoCapableWorker(c) \/ WorkerGone(c) \/ SendFails(c)
        <4>1. reply'[c] = Reject /\ UNCHANGED <<promise, creq, ckey>>
          BY <3>4 DEF NoCapableWorker, WorkerGone, SendFails, GiveUp, SendReply, CoordTypeOK
        <4>2. QED
          BY <1>1, <1>3, <4>1 DEF Reject
      <3>5. CASE ~(PublishedHit(c) \/ FutureReady(c) \/ NextFrame(c) \/ NoCapableWorker(c)
                   \/ WorkerGone(c) \/ SendFails(c))
        <4>1. UNCHANGED <<promise, reply, creq, ckey>>
          BY <1>10, <3>5 DEF ClientStep, PublishedMiss, SelectWorker, RegisterPromise,
             StampDispatch, FindChannel, SendLength, SendBody
        <4>2. QED
          BY <1>5, <4>1
      <3>6. QED
        BY <3>1, <3>2, <3>3, <3>4, <3>5
    <2>4. QED
      BY <1>4, <2>1, <2>2, <2>3
  <1>11. ASSUME NEW b \in Boots, Register(b) \/ WorkerStep(b) \/ WorkerDies(b) \/ HandlerStep(b)
         PROVE  Published' /\ \A c \in Clients : Client(c)'
    BY <1>6, <1>8, <1>11, OthersKeepClients DEF resultVars
  <1>12. ASSUME (\E g \in Counters : Bump(g)) \/ UNCHANGED coordVars
         PROVE  Published' /\ \A c \in Clients : Client(c)'
    BY <1>8, <1>12 DEF Bump, coordVars, resultVars
  <1>13. QED
    BY <1>7, <1>9, <1>10, <1>11, <1>12 DEF CoordNext

\* reqToKey_ and pubKey stay keys of bodies submitted under their request id.
LEMMA KeysNext ==
    ASSUME CoordInv, CoordTypeOK', [CoordNext]_coordVars
    PROVE  KeysNoted'
  <1> USE DEF CoordInv
  <1> DEFINE Noted == \A r \in RequestIds : bodies[r] # {} => reqToKey[r] \in bodies[r]
             Looked(b) == hpc[b] = "keyed" => hkey[b] \in bodies[hmsg[b].dispatch.req]
  <1>1. Noted /\ \A b \in Boots : Looked(b)
    BY DEF KeysNoted
  <1>2. SUFFICES Noted' /\ \A b \in Boots : Looked(b)'
    BY DEF KeysNoted
  <1>3. \A r \in RequestIds : bodies[r] \subseteq bodies'[r]
    BY RecordsStay
  <1>4. ASSUME UNCHANGED <<reqToKey, bodies>> PROVE Noted'
    BY <1>1, <1>4
  <1>5. ASSUME NEW b \in Boots, hpc'[b] = hpc[b], hmsg'[b] = hmsg[b], hkey'[b] = hkey[b] PROVE Looked(b)'
    BY <1>1, <1>3, <1>5 DEF DispatchesRecorded, Recorded
  <1>6. ASSUME UNCHANGED <<hpc, hmsg, hkey>> PROVE \A b \in Boots : Looked(b)'
    BY <1>5, <1>6
  <1>7. ASSUME NEW c \in Clients, NEW r \in RequestIds, NEW k \in BodyKeys, Submit(c, r, k)
        PROVE  Noted' /\ \A b \in Boots : Looked(b)'
    <2>1. Noted'
      BY <1>1, <1>7 DEF Submit, CoordTypeOK
    <2>2. QED
      BY <1>6, <1>7, <2>1 DEF Submit, handlerVars
  <1>8. ASSUME NEW c \in Clients, ClientStep(c) PROVE Noted' /\ \A b \in Boots : Looked(b)'
    <2>1. UNCHANGED <<reqToKey, bodies, hpc, hmsg, hkey>>
      BY <1>8 DEF ClientStep, PublishedHit, PublishedMiss, SelectWorker, NoCapableWorker,
         RegisterPromise, StampDispatch, FindChannel, WorkerGone, GiveUp, SendLength, SendBody,
         SendFails, FutureReady, NextFrame, resultVars, handlerVars, noteVars
    <2>2. QED
      BY <1>4, <1>6, <2>1
  <1>9. ASSUME NEW b \in Boots, LookupKey(b) PROVE Noted' /\ \A a \in Boots : Looked(a)'
    <2>1. /\ hmsg[b].dispatch.req \in RequestIds
          /\ hmsg[b].dispatch.key \in bodies[hmsg[b].dispatch.req]
      BY <1>9 DEF LookupKey, DispatchesRecorded, Recorded
    <2>2. reqToKey[hmsg[b].dispatch.req] \in bodies[hmsg[b].dispatch.req]
      BY <1>1, <2>1
    <2>3. /\ hkey'[b] = reqToKey[hmsg[b].dispatch.req] /\ UNCHANGED <<hmsg, reqToKey, bodies>>
          /\ \A a \in Boots : a # b => hkey'[a] = hkey[a] /\ hpc'[a] = hpc[a]
      BY <1>9 DEF LookupKey, CoordTypeOK, resultVars, noteVars
    <2>4. Looked(b)'
      BY <2>2, <2>3
    <2>5. ASSUME NEW a \in Boots, a # b PROVE Looked(a)'
      BY <1>5, <2>3, <2>5
    <2>6. QED
      BY <1>4, <2>3, <2>4, <2>5
  <1>10. ASSUME NEW b \in Boots,
                \/ Register(b) \/ WorkerStep(b) \/ WorkerDies(b) \/ HandlerStep(b), ~LookupKey(b)
         PROVE  Noted' /\ \A a \in Boots : Looked(a)'
    <2> USE DEF resultVars, handlerVars, noteVars, authorityVars
    <2>1. UNCHANGED <<reqToKey, bodies>>
      BY <1>10, OthersKeepClients DEF Publish
    <2>2. ASSUME NEW a \in Boots PROVE Looked(a)'
      <3>1. \/ hpc'[a] \in {"reading", "arrived", "authorised", "checked", "gone"}
            \/ hpc'[a] = hpc[a] /\ hmsg'[a] = hmsg[a] /\ hkey'[a] = hkey[a]
        <4>1. CASE Register(b) \/ WorkerStep(b) \/ WorkerDies(b)
          BY <4>1 DEF Register, WorkerStep, CompileAndAnswer, ReadTornFrame, WorkerDies, CoordTypeOK
        <4>2. CASE ReceiveResult(b) \/ PassGenerations(b) \/ PassChecks(b) \/ Disconnect(b)
          BY <4>2 DEF ReceiveResult, PassGenerations, PassChecks, Disconnect, CoordTypeOK
        <4>3. CASE NextResult(b)
          BY <4>3 DEF NextResult, CoordTypeOK
        <4>4. QED
          BY <1>10, <4>1, <4>2, <4>3 DEF HandlerStep, RejectGenerations, RejectPublication,
             IgnoreFailure, DropResult, Publish
      <3>2. QED
        BY <1>5, <3>1
    <2>3. QED
      BY <1>4, <2>1, <2>2
  <1>11. ASSUME (\E r \in RequestIds : Invalidate(r)) \/ (\E g \in Counters : Bump(g)) \/ UNCHANGED coordVars
         PROVE  Noted' /\ \A b \in Boots : Looked(b)'
    BY <1>4, <1>6, <1>11 DEF Invalidate, Bump, coordVars, resultVars, handlerVars, noteVars
  <1>12. QED
    BY <1>7, <1>8, <1>9, <1>10, <1>11 DEF CoordNext

-----------------------------------------------------------------------------
(* Dispatches and results *)

\* What the streams and the handlers hold when a dispatch is written.
LEMMA WriteKeepsRecorded ==
    ASSUME CoordTypeOK, NEW c \in Clients, NEW half \in Halves, cchan[c] \in Boots, Write(c, half),
           NEW b \in Boots, NEW i \in 1 .. Len(toWorker'[b])
    PROVE  toWorker'[b][i].dispatch = cenv[c] \/ (i \in 1 .. Len(toWorker[b]) /\ toWorker'[b][i] = toWorker[b][i])
  <1> DEFINE m == [half |-> half, dispatch |-> cenv[c]]
  <1>1. m \in [half : Halves, dispatch : Dispatches]
    BY DEF CoordTypeOK
  <1>2. toWorker[b] \in Seq([half : Halves, dispatch : Dispatches])
    BY DEF CoordTypeOK
  <1>3. toWorker'[b] = toWorker[b] \/ toWorker'[b] = Append(toWorker[b], m)
    BY DEF Write, CoordTypeOK
  <1>4. CASE toWorker'[b] = toWorker[b]
    BY <1>4
  <1>5. CASE toWorker'[b] = Append(toWorker[b], m)
    BY <1>1, <1>2, <1>5, AppendProperties
  <1>6. QED
    BY <1>3, <1>4, <1>5

\* Wherever a dispatch travels, it stays one that was stamped and recorded.
LEMMA DispatchesNext ==
    ASSUME CoordInv, CoordTypeOK', [CoordNext]_coordVars
    PROVE  DispatchesRecorded'
  <1> USE DEF CoordInv
  <1> DEFINE OfClient(c) == cpc[c] \in {"channel", "sendLength", "sendBody"} => Recorded(cenv[c])
             ToWorker(b) == \A i \in 1..Len(toWorker[b]) : Recorded(toWorker[b][i].dispatch)
             ToCoord(b) == \A i \in 1..Len(toCoord[b]) : Recorded(toCoord[b][i].dispatch)
             OfHandler(b) == hpc[b] \in {"arrived", "authorised", "checked", "keyed"} => Recorded(hmsg[b].dispatch)
  <1>0. /\ \A c \in Clients : OfClient(c)
        /\ \A b \in Boots : ToWorker(b) /\ ToCoord(b) /\ OfHandler(b)
    BY DEF DispatchesRecorded
  <1>1. ASSUME NEW d \in Dispatches, Recorded(d) PROVE Recorded(d)'
    BY <1>1, RecordedStays
  <1>2. /\ \A c \in Clients : cenv[c] \in Dispatches
        /\ \A b \in Boots : /\ hmsg[b].dispatch \in Dispatches
                              /\ toWorker[b] \in Seq([half : Halves, dispatch : Dispatches])
                              /\ toCoord[b] \in Seq(CompileResults)
    BY DEF CoordTypeOK, CompileResults
  <1>3. ASSUME NEW b \in Boots
        PROVE  /\ \A i \in 1..Len(toWorker[b]) : toWorker[b][i].dispatch \in Dispatches
               /\ \A i \in 1..Len(toCoord[b]) : toCoord[b][i].dispatch \in Dispatches
    <2>1. \A i \in 1..Len(toWorker[b]) : toWorker[b][i] \in [half : Halves, dispatch : Dispatches]
      BY <1>2, ElementOfSeq
    <2>2. \A i \in 1..Len(toCoord[b]) : toCoord[b][i] \in CompileResults
      BY <1>2, ElementOfSeq
    <2>3. QED
      BY <2>1, <2>2 DEF CompileResults
  \* What a step leaves alone.
  <1>4. ASSUME NEW c \in Clients, cpc'[c] = cpc[c], cenv'[c] = cenv[c] PROVE OfClient(c)'
    BY <1>0, <1>1, <1>2, <1>4
  <1>5. ASSUME NEW b \in Boots, toWorker'[b] = toWorker[b] PROVE ToWorker(b)'
    BY <1>0, <1>1, <1>3, <1>5
  <1>6. ASSUME NEW b \in Boots, toCoord'[b] = toCoord[b] PROVE ToCoord(b)'
    BY <1>0, <1>1, <1>3, <1>6
  <1>7. ASSUME NEW b \in Boots, hpc'[b] = hpc[b], hmsg'[b] = hmsg[b] PROVE OfHandler(b)'
    BY <1>0, <1>1, <1>2, <1>7
  <1>8. ASSUME UNCHANGED <<toWorker, toCoord, hpc, hmsg>>
        PROVE  \A b \in Boots : ToWorker(b)' /\ ToCoord(b)' /\ OfHandler(b)'
    BY <1>5, <1>6, <1>7, <1>8
  <1>9. ASSUME UNCHANGED <<cpc, cenv>> PROVE \A c \in Clients : OfClient(c)'
    BY <1>4, <1>9
  \* Client threads.
  <1>10. ASSUME NEW c \in Clients, ClientStep(c) \/ \E r \in RequestIds, k \in BodyKeys : Submit(c, r, k), OfClient(c)'
         PROVE  \A d \in Clients : OfClient(d)'
    <2>1. ASSUME NEW d \in Clients, d # c PROVE OfClient(d)'
      BY <1>4, <1>10, <2>1, ClientsSeparate
    <2>2. QED
      BY <1>10, <2>1
  <1>11. ASSUME NEW c \in Clients, ClientStep(c) \/ \E r \in RequestIds, k \in BodyKeys : Submit(c, r, k)
         PROVE  OfClient(c)'
    <2> USE DEF authorityVars, resultVars, clientVars, streamVars, handlerVars, noteVars
    <2>1. CASE StampDispatch(c)
      <3>1. creq[c] \in RequestIds /\ ckey[c] \in bodies[creq[c]]
        BY <2>1 DEF StampDispatch, ClientLocals, ClientLocal
      <3>2. \A g \in Counters : gens[g] <= gens[g]
        BY DEF CoordTypeOK, Generations
      <3>3. cenv'[c] = [req |-> creq[c], key |-> ckey[c], attempt |-> dispatched + 1, gens |-> gens]
        BY <2>1 DEF StampDispatch, CoordTypeOK
      <3>4. UNCHANGED <<gens, bodies>>
        BY <2>1 DEF StampDispatch
      <3>5. QED
        BY <3>1, <3>2, <3>3, <3>4 DEF Recorded
    <2>2. CASE FindChannel(c) \/ SendLength(c)
      <3>1. cpc[c] \in {"channel", "sendLength", "sendBody"} /\ cenv'[c] = cenv[c]
        BY <2>2 DEF FindChannel, SendLength
      <3>2. Recorded(cenv[c])'
        <4>1. Recorded(cenv[c]) /\ cenv[c] \in Dispatches
          BY <1>0, <1>2, <3>1
        <4>2. UNCHANGED <<gens, bodies, cenv>>
          BY <2>2 DEF FindChannel, SendLength
        <4>3. QED
          BY <4>1, <4>2 DEF Recorded
      <3>3. QED
        BY <3>2
    <2>3. CASE ~(StampDispatch(c) \/ FindChannel(c) \/ SendLength(c))
      <3>1. cpc'[c] \in ClientPCs \ {"channel", "sendLength", "sendBody"}
        \/ SendBody(c)
        BY <1>11, <2>3 DEF ClientStep, Submit, PublishedHit, PublishedMiss, SelectWorker,
           NoCapableWorker, RegisterPromise, WorkerGone, GiveUp, SendFails, FutureReady,
           NextFrame, SendReply, CoordTypeOK, ClientPCs
      <3>2. SendBody(c) => cpc'[c] = "waiting"
        BY DEF SendBody, CoordTypeOK
      <3>3. QED
        BY <3>1, <3>2
    <2>4. QED
      BY <2>1, <2>2, <2>3
  <1>12. ASSUME NEW c \in Clients, ClientStep(c) \/ \E r \in RequestIds, k \in BodyKeys : Submit(c, r, k)
         PROVE  \A b \in Boots : ToWorker(b)' /\ ToCoord(b)' /\ OfHandler(b)'
    <2> USE DEF authorityVars, resultVars, clientVars, streamVars, handlerVars, noteVars
    <2>1. CASE SendLength(c) \/ SendBody(c)
      <3>1. /\ cchan[c] \in Boots /\ Recorded(cenv[c]) /\ cenv[c] \in Dispatches
            /\ Write(c, "length") \/ Write(c, "body")
            /\ UNCHANGED <<gens, bodies, toCoord, hpc, hmsg>>
        BY <1>0, <1>2, <2>1 DEF SendLength, SendBody, ClientLocals, ClientLocal
      <3>2. ASSUME NEW b \in Boots, NEW i \in 1..Len(toWorker'[b])
            PROVE  Recorded(toWorker'[b][i].dispatch)
        <4>1. \/ toWorker'[b][i].dispatch = cenv[c]
              \/ i \in 1 .. Len(toWorker[b]) /\ toWorker'[b][i] = toWorker[b][i]
          BY <3>1, WriteKeepsRecorded DEF Halves
        <4>2. QED
          BY <1>0, <3>1, <4>1
      <3>3. ASSUME NEW b \in Boots PROVE ToWorker(b)'
        BY <3>1, <3>2 DEF Recorded
      <3>4. QED
        BY <1>6, <1>7, <3>1, <3>3
    <2>2. CASE ~(SendLength(c) \/ SendBody(c))
      <3>1. UNCHANGED <<toWorker, toCoord, hpc, hmsg>>
        BY <1>12, <2>2 DEF ClientStep, Submit, PublishedHit, PublishedMiss, SelectWorker,
           NoCapableWorker, RegisterPromise, StampDispatch, FindChannel, WorkerGone, GiveUp,
           SendFails, FutureReady, NextFrame
      <3>2. QED
        BY <1>8, <3>1
    <2>3. QED
      BY <2>1, <2>2
  \* Worker processes.
  <1>13. ASSUME NEW b \in Boots, CompileAndAnswer(b)
         PROVE  \A a \in Boots : ToWorker(a)' /\ ToCoord(a)' /\ OfHandler(a)'
    <2> DEFINE s == toWorker[b]
    <2>1. PICK v \in Verdicts : toCoord' = [toCoord EXCEPT ![b] =
                       Append(@, [dispatch |-> s[2].dispatch, verdict |-> v])]
      BY <1>13 DEF CompileAndAnswer, Verdicts
    <2>2. s \in Seq([half : Halves, dispatch : Dispatches]) /\ Len(s) >= 2
      BY <1>2, <1>13 DEF CompileAndAnswer
    <2>3. /\ toWorker' = [toWorker EXCEPT ![b] = Tail(Tail(s))]
          /\ UNCHANGED <<gens, bodies, hpc, hmsg>>
      BY <1>13 DEF CompileAndAnswer, authorityVars, handlerVars, noteVars
    <2>4. /\ Tail(Tail(s)) \in Seq([half : Halves, dispatch : Dispatches])
          /\ Len(Tail(Tail(s))) = Len(s) - 2
          /\ \A i \in 1 .. Len(s) - 2 : Tail(Tail(s))[i] = s[i + 2]
      BY <2>2, TailTwice
    <2>5. ToWorker(b)'
      <3>1. \A i \in 1 .. Len(s) : Recorded(s[i].dispatch)
        BY <1>0
      <3>2. toWorker'[b] = Tail(Tail(s))
        BY <2>3 DEF CoordTypeOK
      <3> DEFINE u == Tail(Tail(s))
      <3>3. Len(s) \in Nat
        BY <2>2, LenProperties
      <3> HIDE DEF s
      <3>4. \A i \in 1 .. Len(toWorker'[b]) : Recorded(toWorker'[b][i].dispatch)
        <4>1. toWorker'[b] = u /\ Len(u) = Len(s) - 2 /\ \A i \in 1 .. Len(s) - 2 : u[i] = s[i + 2]
          BY <2>4, <3>2
        <4> HIDE DEF u
        <4>2. QED
          BY <3>1, <3>3, <4>1
      <3>5. QED
        BY <2>3, <3>4 DEF Recorded
    <2>6. ToCoord(b)'
      <3> DEFINE m == [dispatch |-> s[2].dispatch, verdict |-> v]
      <3>1. s[2].dispatch \in Dispatches /\ Recorded(s[2].dispatch)
        BY <1>0, <1>3, <2>2
      <3>2. m \in CompileResults /\ Recorded(m.dispatch)
        BY <3>1 DEF CompileResults
      <3>3. toCoord'[b] = Append(toCoord[b], m) /\ toCoord[b] \in Seq(CompileResults)
        BY <1>2, <2>1 DEF CoordTypeOK
      <3> HIDE DEF m, s
      <3>4. \A i \in 1 .. Len(toCoord'[b]) : Recorded(toCoord'[b][i].dispatch)
        BY <1>0, <3>2, <3>3, AppendProperties
      <3>5. QED
        BY <2>3, <3>4 DEF Recorded
    <2>7. ASSUME NEW a \in Boots PROVE ToWorker(a)' /\ ToCoord(a)' /\ OfHandler(a)'
      <3>1. a # b => toWorker'[a] = toWorker[a] /\ toCoord'[a] = toCoord[a]
        BY <2>1, <2>3 DEF CoordTypeOK
      <3>2. OfHandler(a)'
        BY <1>7, <2>3
      <3>3. QED
        BY <1>5, <1>6, <2>5, <2>6, <3>1, <3>2
    <2>8. QED
      BY <2>7
  <1>14. ASSUME NEW b \in Boots, ReadTornFrame(b) \/ WorkerDies(b)
         PROVE  \A a \in Boots : ToWorker(a)' /\ ToCoord(a)' /\ OfHandler(a)'
    <2>1. ASSUME NEW a \in Boots PROVE ToWorker(a)' /\ ToCoord(a)' /\ OfHandler(a)'
      <3>1. (toWorker'[a] = toWorker[a] \/ toWorker'[a] = <<>>) /\ (toCoord'[a] = toCoord[a] \/ toCoord'[a] = <<>>)
        BY <1>14 DEF ReadTornFrame, WorkerDies, CoordTypeOK
      <3>2. UNCHANGED <<hpc, hmsg>>
        BY <1>14 DEF ReadTornFrame, WorkerDies, handlerVars
      <3>3. ToWorker(a)'
        BY <1>5, <3>1
      <3>4. ToCoord(a)'
        BY <1>6, <3>1
      <3>5. QED
        BY <1>7, <3>2, <3>3, <3>4
    <2>2. QED
      BY <2>1
  \* The threads of worker connections.
  <1>15. ASSUME NEW b \in Boots, ReceiveResult(b)
         PROVE  \A a \in Boots : ToWorker(a)' /\ ToCoord(a)' /\ OfHandler(a)'
    <2> DEFINE s == toCoord[b]
    <2>1. s \in Seq(CompileResults) /\ s # <<>>
      BY <1>2, <1>15 DEF ReceiveResult
    <2>2. /\ Len(s) \in Nat /\ Len(s) >= 1 /\ Len(Tail(s)) = Len(s) - 1
          /\ Head(s) = s[1] /\ \A i \in 1 .. Len(Tail(s)) : Tail(s)[i] = s[i + 1]
      BY <2>1, HeadTailProperties, EmptySeq
    <2>3. \A i \in 1 .. Len(s) : Recorded(s[i].dispatch)
      BY <1>0
    <2>4. /\ toCoord'[b] = Tail(s) /\ hmsg'[b] = Head(s)
          /\ UNCHANGED <<gens, bodies, toWorker>>
          /\ \A a \in Boots : a # b => toCoord'[a] = toCoord[a] /\ hmsg'[a] = hmsg[a] /\ hpc'[a] = hpc[a]
      BY <1>15 DEF ReceiveResult, authorityVars, noteVars, CoordTypeOK
    <2> HIDE DEF s
    <2>5. ToCoord(b)'
      <3>1. \A i \in 1 .. Len(toCoord'[b]) : Recorded(toCoord'[b][i].dispatch)
        BY <2>2, <2>3, <2>4
      <3>2. QED
        BY <2>4, <3>1 DEF Recorded
    <2>6. OfHandler(b)'
      <3>1. Recorded(hmsg'[b].dispatch)
        BY <2>2, <2>3, <2>4
      <3>2. QED
        BY <2>4, <3>1 DEF Recorded
    <2>7. ASSUME NEW a \in Boots PROVE ToWorker(a)' /\ ToCoord(a)' /\ OfHandler(a)'
      BY <1>5, <1>6, <1>7, <2>4, <2>5, <2>6
    <2>8. QED
      BY <2>7
  <1>16. ASSUME NEW b \in Boots,
                \/ Register(b) \/ PassGenerations(b) \/ RejectGenerations(b) \/ PassChecks(b)
                \/ RejectPublication(b) \/ IgnoreFailure(b) \/ LookupKey(b) \/ Publish(b) \/ Disconnect(b)
         PROVE  \A a \in Boots : ToWorker(a)' /\ ToCoord(a)' /\ OfHandler(a)'
    <2> USE DEF authorityVars, resultVars, clientVars, streamVars, handlerVars, noteVars
    <2>1. UNCHANGED <<toWorker, toCoord>>
      BY <1>16 DEF Register, PassGenerations, RejectGenerations, PassChecks, RejectPublication,
         IgnoreFailure, DropResult, NextResult, LookupKey, Publish, Disconnect
    <2>2. ASSUME NEW a \in Boots PROVE OfHandler(a)'
      <3>1. \/ hpc'[a] \in {"reading", "gone"}
            \/ hmsg'[a] = hmsg[a] /\ (hpc'[a] = hpc[a] \/ hpc[a] \in {"arrived", "authorised", "checked"})
        BY <1>16 DEF Register, PassGenerations, RejectGenerations, PassChecks, RejectPublication,
           IgnoreFailure, DropResult, NextResult, LookupKey, Publish, Disconnect, CoordTypeOK
      <3>2. ASSUME hpc[a] \in {"arrived", "authorised", "checked"}, hmsg'[a] = hmsg[a] PROVE OfHandler(a)'
        BY <1>0, <1>1, <1>2, <3>2
      <3>3. QED
        BY <1>7, <3>1, <3>2
    <2>3. QED
      BY <1>5, <1>6, <2>1, <2>2
  \* All of them.
  <1>17. ASSUME NEW b \in Boots, Register(b) \/ WorkerStep(b) \/ WorkerDies(b) \/ HandlerStep(b)
         PROVE  DispatchesRecorded'
    <2>1. UNCHANGED <<cpc, cenv>>
      BY <1>17, OthersKeepClients DEF clientVars, Publish
    <2>2. \A c \in Clients : OfClient(c)'
      BY <1>9, <2>1
    <2>3. \A a \in Boots : ToWorker(a)' /\ ToCoord(a)' /\ OfHandler(a)'
      BY <1>13, <1>14, <1>15, <1>16, <1>17 DEF WorkerStep, HandlerStep
    <2>4. QED
      BY <2>2, <2>3 DEF DispatchesRecorded
  <1>18. ASSUME NEW c \in Clients, ClientStep(c) \/ \E r \in RequestIds, k \in BodyKeys : Submit(c, r, k)
         PROVE  DispatchesRecorded'
    BY <1>10, <1>11, <1>12, <1>18 DEF DispatchesRecorded
  <1>19. ASSUME (\E r \in RequestIds : Invalidate(r)) \/ (\E g \in Counters : Bump(g)) \/ UNCHANGED coordVars
         PROVE  DispatchesRecorded'
    <2>1. UNCHANGED <<toWorker, toCoord, hpc, hmsg, cpc, cenv>>
      BY <1>19 DEF Invalidate, Bump, coordVars, clientVars, streamVars, handlerVars
    <2>2. QED
      BY <1>8, <1>9, <2>1 DEF DispatchesRecorded
  <1>20. QED
    BY <1>17, <1>18, <1>19 DEF CoordNext

\* Two vectors of generations that agree at every counter are the same.
LEMMA SameGenerations ==
    ASSUME NEW x \in Generations, NEW y \in Generations, \A g \in Counters : x[g] = y[g]
    PROVE  x = y
  BY DEF Generations

\* Handlers keep results ordered by the generations, and a result is accepted only
\* where stamp, arrival and the comparison agree.
LEMMA ArrivalsNext ==
    ASSUME CoordInv, CoordTypeOK', [CoordNext]_coordVars
    PROVE  ArrivalsOrdered' /\ AcceptedWasCurrentOnArrival'
  <1> USE DEF CoordInv
  <1> DEFINE Fresh(b) == link[b] = "down" => hpc[b] = "none" /\ workers[WorkerOf[b]] # b
             Holds(b) == hpc[b] \in {"arrived", "authorised", "checked", "keyed"} =>
                           /\ \A g \in Counters : /\ hmsg[b].dispatch.gens[g] <= harrival[b].gens[g]
                                                  /\ harrival[b].gens[g] <= gens[g]
                           /\ workers[WorkerOf[b]] = b => harrival[b].boot = b
             Equal(b) == /\ hpc[b] = "authorised" => hmsg[b].dispatch.gens = harrival[b].gens
                         /\ hpc[b] \in {"checked", "keyed"} =>
                              hmsg[b].dispatch.gens = harrival[b].gens /\ harrival[b].boot = b
  <1>1. \A b \in Boots : Fresh(b) /\ Holds(b) /\ Equal(b)
    BY DEF ArrivalsOrdered, AcceptedWasCurrentOnArrival
  <1>2. SUFFICES ASSUME NEW a \in Boots PROVE Fresh(a)' /\ Holds(a)' /\ Equal(a)'
    BY DEF ArrivalsOrdered, AcceptedWasCurrentOnArrival
  <1>3. /\ hmsg[a].dispatch.gens \in Generations /\ harrival[a].gens \in Generations
        /\ gens \in Generations /\ gens' \in Generations
    BY DEF CoordTypeOK, CompileResults, Dispatches
  <1>4. \A g \in Counters : /\ hmsg[a].dispatch.gens[g] \in Nat /\ harrival[a].gens[g] \in Nat
                            /\ gens[g] \in Nat /\ gens'[g] \in Nat /\ gens[g] <= gens'[g]
    BY <1>3, RecordsStay DEF Generations
  \* A step that leaves the connection of a alone and registers nothing for it.
  <1>5. ASSUME link'[a] = link[a] \/ link'[a] # "down", hpc'[a] = hpc[a], hmsg'[a] = hmsg[a],
               harrival'[a] = harrival[a],
               workers'[WorkerOf[a]] = a => workers[WorkerOf[a]] = a
        PROVE  Fresh(a)' /\ Holds(a)' /\ Equal(a)'
    <2>1. Fresh(a)' /\ Equal(a)'
      BY <1>1, <1>5
    <2>2. Holds(a)'
      BY <1>1, <1>4, <1>5
    <2>3. QED
      BY <2>1, <2>2
  <1>6. ASSUME UNCHANGED <<workers, link, handlerVars>> PROVE Fresh(a)' /\ Holds(a)' /\ Equal(a)'
    BY <1>5, <1>6 DEF handlerVars
  <1>7. ASSUME NEW c \in Clients, ClientStep(c) \/ \E r \in RequestIds, k \in BodyKeys : Submit(c, r, k)
        PROVE  UNCHANGED <<workers, link, handlerVars>>
    <2> USE DEF authorityVars, streamVars
    <2>1. CASE SendLength(c) \/ SendBody(c)
      BY <2>1 DEF SendLength, SendBody
    <2>2. CASE ~(SendLength(c) \/ SendBody(c))
      BY <1>7, <2>2 DEF ClientStep, Submit, PublishedHit, PublishedMiss, SelectWorker,
         NoCapableWorker, RegisterPromise, StampDispatch, FindChannel, WorkerGone, GiveUp,
         SendFails, FutureReady, NextFrame
    <2>3. QED
      BY <2>1, <2>2
  <1>8. ASSUME NEW b \in Boots, Register(b) PROVE Fresh(a)' /\ Holds(a)' /\ Equal(a)'
    <2>1. CASE a = b
      BY <1>8, <2>1 DEF Register, CoordTypeOK
    <2>2. CASE a # b
      <3>1. /\ link'[a] = link[a] /\ hpc'[a] = hpc[a] /\ hmsg'[a] = hmsg[a] /\ harrival'[a] = harrival[a]
        BY <1>8, <2>2 DEF Register, CoordTypeOK
      <3>2. workers'[WorkerOf[a]] = a => workers[WorkerOf[a]] = a
        BY <1>8, <2>2, Values DEF Register, CoordTypeOK
      <3>3. QED
        BY <1>5, <3>1, <3>2
    <2>3. QED
      BY <2>1, <2>2
  <1>9. ASSUME NEW b \in Boots, WorkerStep(b) \/ WorkerDies(b) PROVE Fresh(a)' /\ Holds(a)' /\ Equal(a)'
    <2>1. /\ link'[a] = link[a] \/ link'[a] # "down"
          /\ UNCHANGED <<workers, hpc, hmsg, harrival>>
      BY <1>9 DEF WorkerStep, CompileAndAnswer, ReadTornFrame, WorkerDies, handlerVars, authorityVars, CoordTypeOK
    <2>2. QED
      BY <1>5, <2>1
  <1>10. ASSUME NEW b \in Boots, HandlerStep(b), b # a PROVE Fresh(a)' /\ Holds(a)' /\ Equal(a)'
    <2> USE DEF authorityVars, streamVars, handlerVars
    <2>1. link'[a] = link[a] /\ hpc'[a] = hpc[a] /\ hmsg'[a] = hmsg[a] /\ harrival'[a] = harrival[a]
      <3>1. CASE ReceiveResult(b) \/ PassGenerations(b) \/ PassChecks(b) \/ LookupKey(b) \/ Disconnect(b)
        BY <1>10, <3>1 DEF ReceiveResult, PassGenerations, PassChecks, LookupKey, Disconnect, CoordTypeOK
      <3>2. CASE NextResult(b) /\ link' = link
        BY <1>10, <3>2 DEF NextResult, CoordTypeOK
      <3>3. QED
        BY <1>10, <3>1, <3>2 DEF HandlerStep, RejectGenerations, RejectPublication, IgnoreFailure,
           DropResult, Publish
    <2>2. workers'[WorkerOf[a]] = a => workers[WorkerOf[a]] = a
      <3>1. CASE Disconnect(b)
        BY <3>1, Values, CoordinatorAssumption DEF Disconnect, CoordTypeOK
      <3>2. CASE ~Disconnect(b)
        BY <1>10, <3>2 DEF HandlerStep, ReceiveResult, PassGenerations, RejectGenerations, PassChecks,
           RejectPublication, IgnoreFailure, DropResult, NextResult, LookupKey, Publish
      <3>3. QED
        BY <3>1, <3>2
    <2>3. QED
      BY <1>5, <2>1, <2>2
  <1>11. ASSUME ReceiveResult(a) PROVE Fresh(a)' /\ Holds(a)' /\ Equal(a)'
    <2>1. /\ UNCHANGED <<gens, workers, link>> /\ hpc[a] = "reading" /\ hpc'[a] = "arrived"
          /\ harrival'[a] = [gens |-> gens, boot |-> workers[WorkerOf[a]]]
          /\ hmsg'[a] = Head(toCoord[a]) /\ toCoord[a] # <<>> /\ toCoord[a] \in Seq(CompileResults)
      BY <1>11 DEF ReceiveResult, authorityVars, CoordTypeOK
    <2>2. Recorded(hmsg'[a].dispatch)
      <3>1. Len(toCoord[a]) \in Nat /\ Len(toCoord[a]) >= 1 /\ Head(toCoord[a]) = toCoord[a][1]
        BY <2>1, EmptySeq, LenProperties
      <3>2. QED
        BY <2>1, <3>1 DEF DispatchesRecorded
    <2>3. Holds(a)'
      BY <1>4, <2>1, <2>2 DEF Recorded
    <2>4. QED
      BY <1>1, <2>1, <2>3
  <1>12. ASSUME PassGenerations(a) PROVE Fresh(a)' /\ Holds(a)' /\ Equal(a)'
    <2>1. /\ UNCHANGED <<gens, workers, link, hmsg, harrival>> /\ hpc[a] = "arrived" /\ hpc'[a] = "authorised"
          /\ hmsg[a].dispatch.gens = gens
      BY <1>12 DEF PassGenerations, GensAreCurrent, authorityVars, streamVars, CoordTypeOK
    <2>2. \A g \in Counters : harrival[a].gens[g] = gens[g]
      BY <1>1, <1>4, <2>1
    <2>3. harrival[a].gens = gens
      BY <1>3, <2>2, SameGenerations
    <2>4. QED
      BY <1>1, <2>1, <2>3
  <1>13. ASSUME PassChecks(a) PROVE Fresh(a)' /\ Holds(a)' /\ Equal(a)'
    <2>1. /\ UNCHANGED <<gens, workers, link, hmsg, harrival>> /\ hpc[a] = "authorised" /\ hpc'[a] = "checked"
          /\ workers[WorkerOf[a]] = a
      BY <1>13 DEF PassChecks, PublicationAllowed, authorityVars, streamVars, CoordTypeOK
    <2>2. QED
      BY <1>1, <2>1
  <1>14. ASSUME RejectGenerations(a) \/ RejectPublication(a) \/ IgnoreFailure(a) \/ Publish(a)
         PROVE  Fresh(a)' /\ Holds(a)' /\ Equal(a)'
    <2>1. /\ UNCHANGED <<workers, link>> /\ hpc[a] \in {"arrived", "authorised", "checked", "keyed"} /\ hpc'[a] = "reading"
      BY <1>14 DEF RejectGenerations, RejectPublication, IgnoreFailure, DropResult, NextResult, LookupKey, Publish,
         authorityVars, streamVars, CoordTypeOK
    <2>2. QED
      BY <1>1, <2>1
  <1>15. ASSUME Disconnect(a) PROVE Fresh(a)' /\ Holds(a)' /\ Equal(a)'
    <2>1. link' = link /\ hpc[a] = "reading" /\ hpc'[a] = "gone"
      BY <1>15 DEF Disconnect, streamVars, CoordTypeOK
    <2>2. QED
      BY <1>1, <2>1
  <1>16. ASSUME LookupKey(a) PROVE Fresh(a)' /\ Holds(a)' /\ Equal(a)'
    <2>1. /\ UNCHANGED <<gens, workers, link, hmsg, harrival>> /\ hpc[a] = "checked" /\ hpc'[a] = "keyed"
      BY <1>16 DEF LookupKey, authorityVars, streamVars, CoordTypeOK
    <2>2. QED
      BY <1>1, <2>1
  <1>17. ASSUME (\E r \in RequestIds : Invalidate(r)) \/ (\E g \in Counters : Bump(g)) \/ UNCHANGED coordVars
         PROVE  UNCHANGED <<workers, link, handlerVars>>
    BY <1>17 DEF Invalidate, Bump, coordVars, authorityVars, streamVars
  <1>18. ASSUME NEW b \in Boots, HandlerStep(b) PROVE Fresh(a)' /\ Holds(a)' /\ Equal(a)'
    <2>1. CASE a = b
      BY <1>11, <1>12, <1>13, <1>14, <1>15, <1>18, <1>16, <2>1 DEF HandlerStep
    <2>2. CASE a # b
      BY <1>10, <1>18, <2>2
    <2>3. QED
      BY <2>1, <2>2
  <1>19. QED
    BY <1>6, <1>7, <1>8, <1>9, <1>17, <1>18 DEF CoordNext

-----------------------------------------------------------------------------
(* The theorems *)

\* A coordinator that has just started satisfies the invariant.
LEMMA CoordInvInit == CoordInit => CoordInv
  <1> SUFFICES ASSUME CoordInit PROVE CoordInv
    OBVIOUS
  <1>1. ClientLocals /\ PromisesAreOpen /\ MixUpsNeedASharedId /\ KeysNoted
    BY DEF CoordInit, ClientLocals, ClientLocal, PromisesAreOpen, MixUpsNeedASharedId, KeysNoted, NoReply
  <1>2. \A b \in Boots : Len(toWorker[b]) = 0 /\ Len(toCoord[b]) = 0
    BY DEF CoordInit
  <1>3. DispatchesRecorded
    BY <1>2 DEF CoordInit, DispatchesRecorded
  <1>4. ArrivalsOrdered /\ AcceptedWasCurrentOnArrival
    BY Values, CoordinatorAssumption DEF CoordInit, ArrivalsOrdered, AcceptedWasCurrentOnArrival
  <1>5. QED
    BY <1>1, <1>3, <1>4, TypeInit DEF CoordInv

\* Every step of every thread and every worker process preserves the invariant.
LEMMA CoordInvNext == CoordInv /\ [CoordNext]_coordVars => CoordInv'
  <1> SUFFICES ASSUME CoordInv, [CoordNext]_coordVars PROVE CoordInv'
    OBVIOUS
  <1>1. CoordTypeOK'
    BY TypeNext DEF CoordInv
  <1>2. QED
    BY <1>1, LocalsNext, DispatchesNext, ArrivalsNext, PromisesNext, AnswersNext, KeysNext DEF CoordInv

\* The control plane keeps its invariant for any number of clients, requests and
\* worker processes, whatever is killed, registered again, bumped or interleaved.
THEOREM CoordinatorInvariant == CoordSpec => []CoordInv
  <1>1. QED
    BY CoordInvInit, CoordInvNext, PTL DEF CoordSpec

\* No promise is ever fulfilled twice or for a request its thread is not working on:
\* pending_ only holds open promises.
THEOREM PromisesStayOpen == CoordSpec => []PromisesAreOpen
  <1>1. CoordInv => PromisesAreOpen
    BY DEF CoordInv
  <1>2. QED
    BY <1>1, CoordinatorInvariant, PTL

\* The key of a result is read from a table that any submit of the same request id
\* overwrites, and its attempt is never compared: still, a promise is given a result
\* of its own id, and an artifact stands for another key only where one id was
\* submitted with both bodies.
THEOREM MixUpsAreOfSharedIds == CoordSpec => []MixUpsNeedASharedId
  <1>1. CoordInv => MixUpsNeedASharedId
    BY DEF CoordInv
  <1>2. QED
    BY <1>1, CoordinatorInvariant, PTL

\* So as long as every request id has named one body, every publication and every
\* answer is of the key it stands for.
THEOREM OwnIdsGetOwnKeys ==
    CoordSpec => []((\A r \in RequestIds : \A k, l \in bodies[r] : k = l) =>
                      /\ \A k \in BodyKeys : publications[k] # NothingBuilt => publications[k].key = k
                      /\ \A c \in Clients : reply[c].kind \in {"hit", "built"} => reply[c].art.key = ckey[c])
  <1> DEFINE OneBody == \A r \in RequestIds : \A k, l \in bodies[r] : k = l
             OwnKeys == /\ \A k \in BodyKeys : publications[k] # NothingBuilt => publications[k].key = k
                        /\ \A c \in Clients : reply[c].kind \in {"hit", "built"} => reply[c].art.key = ckey[c]
  <1>1. MixUpsNeedASharedId => (OneBody => OwnKeys)
    BY DEF MixUpsNeedASharedId, OfOneId
  <1> HIDE DEF OneBody, OwnKeys
  <1>2. CoordSpec => [](OneBody => OwnKeys)
    BY <1>1, MixUpsAreOfSharedIds, PTL
  <1>3. QED
    BY <1>2 DEF OneBody, OwnKeys

\* rejectStalePublication() compares in two steps, before and under the lock: still, a
\* result it lets through carried the generations of its arrival and came from the
\* process that was registered then.
THEOREM AcceptedWasCurrent == CoordSpec => []AcceptedWasCurrentOnArrival
  <1>1. CoordInv => AcceptedWasCurrentOnArrival
    BY DEF CoordInv
  <1>2. QED
    BY <1>1, CoordinatorInvariant, PTL
=============================================================================
