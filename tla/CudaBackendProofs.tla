------------------------- MODULE CudaBackendProofs -------------------------
(***************************************************************************)
(* The CUDA backend: its handles, for any number of threads and modules,   *)
(* and its kernels, for any length and any largest block.                  *)
(***************************************************************************)
EXTENDS CudaBackend, FiniteSetTheorems, TLAPS

(* ------------------------------- handles ------------------------------- *)
ObjectKinds == {"program", "directory", "context", "module", "in", "out"}
Whole == {"context", "module", "in", "out"}
\* What a thread has still to release: the tails of the lists Releases() gives.
Unwinding == {<<>>, <<"context">>, <<"module", "context">>, <<"in", "module", "context">>,
              <<"out", "module", "context">>, <<"in", "out", "module", "context">>}

\* What the calls before the i-th have made.
MadeBefore(i) == CASE i \in {1, 2} -> {}
                   [] i = 3        -> {"context"}
                   [] i \in {4, 5} -> {"context", "module"}
                   [] i = 6        -> {"context", "module", "in"}
                   [] i = 7        -> Whole

\* The objects of w, thread or module.
Held(w) == {k \in ObjectKinds : Handle(k, w) \in handles}

\* A thread at position p with call c ahead and the list s to release holds H: exactly
\* what the calls behind it made, or what it has not yet released.
Accounts(p, c, s, H) ==
    /\ p \in {"idle", "compiling", "validate", "load", "release"}
    /\ s \in Unwinding /\ (p # "release" => s = <<>>)
    /\ p = "idle" => H = {}
    /\ p = "compiling" => H \subseteq {"program", "directory"}
    /\ p \in {"validate", "load"} => c \in 1 .. 7 /\ H = MadeBefore(c)
    /\ p = "release" => H = ToSet(s)

ThreadInv(w) ==
    /\ thread[w] = At(thread[w].in, thread[w].call, thread[w].release, thread[w].a)
    /\ Accounts(thread[w].in, thread[w].call, thread[w].release, Held(w))

\* The inductive invariant: every object belongs to a thread that accounts for it or to
\* a loaded module, which has all four of its objects.
HandleInv ==
    /\ thread = [w \in CudaThreads |-> thread[w]]
    /\ handles \subseteq [kind : ObjectKinds, by : CudaThreads \cup modules]
    /\ modules \subseteq 1 .. MaxModules
    /\ \A w \in CudaThreads : ThreadInv(w)
    /\ \A id \in modules : Held(id) = Whole

\* Before the first call into the backend there is nothing to account for.
LEMMA HandleInvInit == CudaInit => HandleInv
  BY DEF CudaInit, HandleInv, ThreadInv, Accounts, Held, IdleThread, At, Unwinding

\* The kinds in a list of releases are the ones written in it.
LEMMA KindsOfLists ==
    /\ ToSet(<<>>) = {}
    /\ ToSet(<<"context">>) = {"context"}
    /\ ToSet(<<"module", "context">>) = {"module", "context"}
    /\ ToSet(<<"in", "module", "context">>) = {"in", "module", "context"}
    /\ ToSet(<<"out", "module", "context">>) = {"out", "module", "context"}
    /\ ToSet(<<"in", "out", "module", "context">>) = Whole
  <1>1. ToSet(<<>>) = {}
    BY DEF ToSet
  <1>2. ToSet(<<"context">>) = {"context"}
    BY DEF ToSet
  <1>3. ToSet(<<"module", "context">>) = {"module", "context"}
    BY DEF ToSet
  <1>4. ToSet(<<"in", "module", "context">>) = {"in", "module", "context"}
    BY DEF ToSet
  <1>5. ToSet(<<"out", "module", "context">>) = {"out", "module", "context"}
    BY DEF ToSet
  <1>6. ToSet(<<"in", "out", "module", "context">>) = Whole
    BY DEF ToSet, Whole
  <1>7. QED
    BY <1>1, <1>2, <1>3, <1>4, <1>5, <1>6

\* Releasing the first object of a list leaves the others, and the context is last.
LEMMA UnwindingStep ==
    ASSUME NEW s \in Unwinding, s # <<>>
    PROVE  /\ Tail(s) \in Unwinding /\ Head(s) \in ToSet(s)
           /\ ToSet(Tail(s)) = ToSet(s) \ {Head(s)}
           /\ "context" \in ToSet(s) /\ ToSet(s) \subseteq Whole
  <1> USE KindsOfLists DEF Unwinding, Whole
  <1>1. CASE s = <<"context">>
    <2>1. Head(s) = "context" /\ Tail(s) = <<>>
      BY <1>1
    <2>2. QED
      BY <1>1, <2>1
  <1>2. CASE s = <<"module", "context">>
    <2>1. Head(s) = "module" /\ Tail(s) = <<"context">>
      BY <1>2
    <2>2. QED
      BY <1>2, <2>1
  <1>3. CASE s = <<"in", "module", "context">>
    <2>1. Head(s) = "in" /\ Tail(s) = <<"module", "context">>
      BY <1>3
    <2>2. QED
      BY <1>3, <2>1
  <1>4. CASE s = <<"out", "module", "context">>
    <2>1. Head(s) = "out" /\ Tail(s) = <<"module", "context">>
      BY <1>4
    <2>2. QED
      BY <1>4, <2>1
  <1>5. CASE s = <<"in", "out", "module", "context">>
    <2>1. Head(s) = "in" /\ Tail(s) = <<"out", "module", "context">>
      BY <1>5
    <2>2. QED
      BY <1>5, <2>1
  <1>6. QED
    BY <1>1, <1>2, <1>3, <1>4, <1>5

\* What call i makes is what is held before call i + 1 beyond what was held before it,
\* and the list for its failure is exactly what was held before it.
LEMMA CallsMake ==
    /\ Len(Calls) = 6
    /\ \A i \in 1 .. 6 :
         /\ MadeBefore(i + 1) = MadeBefore(i) \cup (IF Makes(Calls[i]) THEN {Calls[i]} ELSE {})
         /\ Makes(Calls[i]) => Calls[i] \in Whole
         /\ Releases(Calls[i]) \in Unwinding
         /\ ToSet(Releases(Calls[i])) = MadeBefore(i)
    /\ Releases("end") \in Unwinding /\ ToSet(Releases("end")) = Whole
    /\ MadeBefore(1) = {} /\ MadeBefore(7) = Whole
  <1> USE KindsOfLists DEF Releases, Unwinding, MadeBefore, Makes, Whole
  <1>1. /\ Len(Calls) = 6
        /\ Calls[1] = "device" /\ Calls[2] = "context" /\ Calls[3] = "module"
        /\ Calls[4] = "function" /\ Calls[5] = "in" /\ Calls[6] = "out"
    BY DEF Calls
  <1>2. ASSUME NEW i \in 1 .. 6
        PROVE  /\ MadeBefore(i + 1) = MadeBefore(i) \cup (IF Makes(Calls[i]) THEN {Calls[i]} ELSE {})
               /\ Makes(Calls[i]) => Calls[i] \in Whole
               /\ Releases(Calls[i]) \in Unwinding
               /\ ToSet(Releases(Calls[i])) = MadeBefore(i)
    <2>1. CASE i = 1
      BY <1>1, <2>1
    <2>2. CASE i = 2
      BY <1>1, <2>2
    <2>3. CASE i = 3
      BY <1>1, <2>3
    <2>4. CASE i = 4
      BY <1>1, <2>4
    <2>5. CASE i = 5
      BY <1>1, <2>5
    <2>6. CASE i = 6
      BY <1>1, <2>6
    <2>7. i = 1 \/ i = 2 \/ i = 3 \/ i = 4 \/ i = 5 \/ i = 6
      OBVIOUS
    <2> HIDE KindsOfLists DEF Releases, Unwinding, MadeBefore, Makes, Whole
    <2>8. QED
      BY <2>1, <2>2, <2>3, <2>4, <2>5, <2>6, <2>7
  <1>3. QED
    BY <1>1, <1>2

\* Before the first call nothing is held.
LEMMA NothingYet ==
    ASSUME NEW H, H = {}
    PROVE  Accounts("validate", 1, <<>>, H) /\ Accounts("load", 1, <<>>, H)
  <1>1. <<>> \in Unwinding
    BY DEF Unwinding
  <1>2. MadeBefore(1) = {} /\ 1 \in 1 .. 7
    BY DEF MadeBefore
  <1>3. QED
    BY <1>1, <1>2 DEF Accounts

\* A step of thread w that leaves it at position p with call c ahead and s to release.
Moves(w, p, c, s) ==
    /\ thread' = [v \in CudaThreads |-> IF v = w THEN thread'[w] ELSE thread[v]]
    /\ thread'[w] = At(p, c, s, thread'[w].a)

\* Nobody else's objects are touched.
OthersKeep(w) ==
    /\ handles' \subseteq [kind : ObjectKinds, by : CudaThreads \cup modules]
    /\ \A k \in ObjectKinds : \A v \in (CudaThreads \cup modules) \ {w} :
           Handle(k, v) \in handles' <=> Handle(k, v) \in handles

\* Such a step only has to account for the objects of its own thread.
LEMMA LocalStep ==
    ASSUME HandleInv, NEW w \in CudaThreads, NEW p, NEW c, NEW s, UNCHANGED modules,
           Moves(w, p, c, s), OthersKeep(w), Accounts(p, c, s, Held(w)')
    PROVE  HandleInv'
  <1>1. \A v \in (CudaThreads \cup modules) \ {w} : Held(v)' = Held(v)
    BY DEF Held, OthersKeep
  <1>2. w \notin modules
    BY CudaAssumption DEF HandleInv
  <1>3. ThreadInv(w)'
    <2>1. thread'[w].in = p /\ thread'[w].call = c /\ thread'[w].release = s
      BY DEF Moves, At
    <2>2. QED
      BY <2>1 DEF Moves, ThreadInv
  <1>4. ASSUME NEW v \in CudaThreads, v # w PROVE ThreadInv(v)'
    <2>1. thread'[v] = thread[v]
      BY <1>4 DEF Moves
    <2>2. Held(v)' = Held(v)
      BY <1>1, <1>4
    <2>3. QED
      BY <2>1, <2>2 DEF HandleInv, ThreadInv
  <1>5. \A id \in modules : Held(id)' = Whole
    BY <1>1, <1>2 DEF HandleInv
  <1>6. thread' = [v \in CudaThreads |-> thread'[v]]
    BY DEF Moves
  <1>7. QED
    BY <1>3, <1>4, <1>5, <1>6 DEF HandleInv, OthersKeep

\* Threads and modules differ, and an object is known by its kind and its owner.
LEMMA Owners ==
    ASSUME HandleInv
    PROVE  /\ CudaThreads \cap modules = {}
           /\ \A h \in handles : /\ h = Handle(h.kind, h.by) /\ h.kind \in Held(h.by)
                                 /\ h.by \in CudaThreads \cup modules
  BY CudaAssumption DEF HandleInv, Handle, Held

\* The thread table as a table of records.
LEMMA Records ==
    ASSUME HandleInv, NEW w \in CudaThreads
    PROVE  /\ thread = [v \in CudaThreads |-> thread[v]]
           /\ thread[w] = At(thread[w].in, thread[w].call, thread[w].release, thread[w].a)
           /\ Accounts(thread[w].in, thread[w].call, thread[w].release, Held(w))
  BY DEF HandleInv, ThreadInv

\* compile(): the program, or the directory, of a compilation.
LEMMA CompileKeepsHandles ==
    ASSUME HandleInv, NEW w \in CudaThreads,
           \/ \E r \in CudaRequests : BeginCompile(w, r)
           \/ CompileFails(w) \/ Compiled(w)
    PROVE  HandleInv'
  <1>1. ASSUME NEW r \in CudaRequests, BeginCompile(w, r) PROVE HandleInv'
    <2>1. PICK k \in {"program", "directory"} : handles' = handles \cup {Handle(k, w)}
      BY <1>1 DEF BeginCompile
    <2>2. Moves(w, "compiling", 0, <<>>)
      BY <1>1, Records DEF BeginCompile, Moves, At
    <2>3. Held(w) = {}
      BY <1>1, Records DEF BeginCompile, Accounts
    <2>4. Held(w)' \subseteq {"program", "directory"}
      BY <2>1, <2>3 DEF Held, Handle
    <2>5. OthersKeep(w)
      BY <2>1 DEF OthersKeep, HandleInv, Handle, ObjectKinds
    <2>6. QED
      BY <1>1, <2>2, <2>4, <2>5, LocalStep DEF BeginCompile, Accounts, Unwinding
  <1>2. ASSUME CompileFails(w) \/ Compiled(w) PROVE HandleInv'
    <2>1. /\ thread[w].in = "compiling" /\ UNCHANGED modules
          /\ handles' = handles \ {Handle("program", w), Handle("directory", w)}
      BY <1>2 DEF CompileFails, Compiled, Destroyed
    <2>2. Held(w) \subseteq {"program", "directory"} /\ thread[w].release = <<>>
      BY <2>1, Records DEF Accounts
    <2>3. Held(w)' = {}
      BY <2>1, <2>2 DEF Held
    <2>4. OthersKeep(w)
      BY <2>1 DEF OthersKeep, HandleInv, Handle
    <2>5. CASE CompileFails(w)
      <3>1. Moves(w, "idle", 0, <<>>)
        BY <2>5, Records DEF CompileFails, Leave, IdleThread, Moves, At
      <3>2. QED
        BY <2>1, <2>3, <2>4, <3>1, LocalStep DEF Accounts, Unwinding
    <2>6. CASE Compiled(w)
      <3>1. Moves(w, "validate", 1, <<>>)
        <4>1. thread' = [thread EXCEPT ![w].in = "validate", ![w].call = 1]
          BY <2>6 DEF Compiled
        <4>2. /\ thread = [v \in CudaThreads |-> thread[v]]
              /\ thread[w] = At(thread[w].in, thread[w].call, thread[w].release, thread[w].a)
          BY Records
        <4>3. thread'[w] = At("validate", 1, thread[w].release, thread[w].a)
          BY <4>1, <4>2 DEF At
        <4>4. QED
          BY <4>1, <4>2, <4>3, <2>2 DEF Moves, At
      <3>2. QED
        BY <2>1, <2>3, <2>4, <3>1, LocalStep, NothingYet
    <2>7. QED
      BY <1>2, <2>5, <2>6
  <1>3. QED
    BY <1>1, <1>2

\* validate() and load() up to the launch: every call that succeeds or fails.
LEMMA CallsKeepHandles ==
    ASSUME HandleInv, NEW w \in CudaThreads,
           \/ \E a \in artifacts : BeginLoad(w, a)
           \/ CallSucceeds(w) \/ CallFails(w)
           \/ \E launched \in BOOLEAN, seed \in Seeds : Judged(w, launched, seed)
    PROVE  HandleInv'
  <1>1. ASSUME UNCHANGED handles PROVE OthersKeep(w) /\ Held(w)' = Held(w)
    BY <1>1 DEF OthersKeep, HandleInv, Held
  <1>2. ASSUME NEW a \in artifacts, BeginLoad(w, a) PROVE HandleInv'
    <2>1. thread[w].in = "idle" /\ UNCHANGED <<handles, modules>>
      BY <1>2 DEF BeginLoad
    <2>2. Moves(w, "load", 1, <<>>)
      BY <1>2, Records DEF BeginLoad, Moves, At
    <2>3. Held(w) = {}
      BY <2>1, Records DEF Accounts
    <2>4. Accounts("load", 1, <<>>, Held(w)')
      BY <1>1, <2>1, <2>3, NothingYet
    <2>5. QED
      BY <1>1, <2>1, <2>2, <2>4, LocalStep
  <1>3. ASSUME CallSucceeds(w) PROVE HandleInv'
    <2>1. PICK i \in 1 .. 6 : i = thread[w].call
      BY <1>3, Records, CallsMake DEF CallSucceeds, Calling, Accounts
    <2>2. /\ thread[w].in \in {"validate", "load"} /\ UNCHANGED modules
          /\ handles' = IF Makes(Calls[i]) THEN handles \cup {Handle(Calls[i], w)} ELSE handles
      BY <1>3, <2>1 DEF CallSucceeds, Calling
    <2>3. PICK p \in {"validate", "load"} : p = thread[w].in
      BY <2>2
    <2>4. Held(w) = MadeBefore(i) /\ thread[w].release = <<>>
      BY <2>1, <2>2, Records DEF Accounts
    <2>5. Moves(w, p, i + 1, <<>>)
      <3>1. thread' = [thread EXCEPT ![w].call = i + 1]
        BY <1>3, <2>1 DEF CallSucceeds
      <3>2. /\ thread = [v \in CudaThreads |-> thread[v]]
            /\ thread[w] = At(thread[w].in, thread[w].call, thread[w].release, thread[w].a)
        BY Records
      <3>3. thread'[w] = At(thread[w].in, i + 1, thread[w].release, thread[w].a)
        BY <3>1, <3>2 DEF At
      <3>4. QED
        BY <3>1, <3>2, <3>3, <2>3, <2>4 DEF Moves, At
    <2>6. Makes(Calls[i]) => Calls[i] \in ObjectKinds
      BY CallsMake DEF Whole, ObjectKinds
    <2>7. Held(w)' = Held(w) \cup (IF Makes(Calls[i]) THEN {Calls[i]} ELSE {})
      BY <2>2, <2>6 DEF Held, Handle
    <2>8. Held(w)' = MadeBefore(i + 1)
      BY <2>4, <2>7, CallsMake
    <2>9. Accounts(p, i + 1, <<>>, Held(w)')
      BY <2>8 DEF Accounts, Unwinding
    <2>10. OthersKeep(w)
      BY <2>2, <2>6 DEF HandleInv, Handle, OthersKeep
    <2>11. QED
      BY <2>2, <2>5, <2>9, <2>10, LocalStep
  <1>4. ASSUME CallFails(w) PROVE HandleInv'
    <2>1. PICK i \in 1 .. 6 : i = thread[w].call
      BY <1>4, Records, CallsMake DEF CallFails, Calling, Accounts
    <2>2. thread[w].in \in {"validate", "load"} /\ UNCHANGED <<handles, modules>>
      BY <1>4 DEF CallFails, Calling
    <2>3. PICK s : s = Releases(Calls[i])
      OBVIOUS
    <2>4. Moves(w, "release", i, s)
      <3>1. thread' = [thread EXCEPT ![w].in = "release", ![w].release = s]
        BY <1>4, <2>1, <2>3 DEF CallFails
      <3>2. /\ thread = [v \in CudaThreads |-> thread[v]]
            /\ thread[w] = At(thread[w].in, thread[w].call, thread[w].release, thread[w].a)
        BY Records
      <3>3. thread'[w] = At("release", thread[w].call, s, thread[w].a)
        BY <3>1, <3>2 DEF At
      <3>4. QED
        BY <3>1, <3>2, <3>3, <2>1 DEF Moves, At
    <2>5. s \in Unwinding /\ Held(w) = ToSet(s)
      BY <2>1, <2>2, <2>3, Records, CallsMake DEF Accounts
    <2>6. Accounts("release", i, s, Held(w)')
      BY <1>1, <2>2, <2>5 DEF Accounts
    <2>7. QED
      BY <1>1, <2>2, <2>4, <2>6, LocalStep
  <1>5. ASSUME NEW launched \in BOOLEAN, NEW seed \in Seeds, Judged(w, launched, seed) PROVE HandleInv'
    <2>1. /\ thread[w].in = "validate" /\ thread[w].call > Len(Calls) /\ UNCHANGED <<handles, modules>>
      BY <1>5 DEF Judged
    <2>2. thread[w].call = 7 /\ Held(w) = Whole
      BY <2>1, Records, CallsMake DEF Accounts
    <2>3. PICK s : s = Releases("end")
      OBVIOUS
    <2>4. Moves(w, "release", 7, s)
      <3>1. thread' = [thread EXCEPT ![w].in = "release", ![w].release = s]
        BY <1>5, <2>3 DEF Judged
      <3>2. /\ thread = [v \in CudaThreads |-> thread[v]]
            /\ thread[w] = At(thread[w].in, thread[w].call, thread[w].release, thread[w].a)
        BY Records
      <3>3. thread'[w] = At("release", thread[w].call, s, thread[w].a)
        BY <3>1, <3>2 DEF At
      <3>4. QED
        BY <3>1, <3>2, <3>3, <2>2 DEF Moves, At
    <2>5. Accounts("release", 7, s, Held(w)')
      BY <1>1, <2>1, <2>2, <2>3, CallsMake DEF Accounts
    <2>6. QED
      BY <1>1, <2>1, <2>4, <2>5, LocalStep
  <1>6. QED
    BY <1>2, <1>3, <1>4, <1>5

\* The way back, one object at a time.
LEMMA ReleasesKeepHandles ==
    ASSUME HandleInv, NEW w \in CudaThreads, ReleaseOne(w) \/ ReturnReleased(w)
    PROVE  HandleInv'
  <1>1. CASE ReleaseOne(w)
    <2>1. PICK s \in Unwinding : s = thread[w].release
      BY Records DEF Accounts
    <2>2. /\ thread[w].in = "release" /\ s # <<>> /\ UNCHANGED modules
          /\ handles' = handles \ {Handle(Head(s), w)}
      BY <1>1, <2>1 DEF ReleaseOne
    <2>3. PICK c : c = thread[w].call
      OBVIOUS
    <2>4. Moves(w, "release", c, Tail(s))
      <3>1. thread' = [thread EXCEPT ![w].release = Tail(s)]
        BY <1>1, <2>1 DEF ReleaseOne
      <3>2. /\ thread = [v \in CudaThreads |-> thread[v]]
            /\ thread[w] = At(thread[w].in, thread[w].call, thread[w].release, thread[w].a)
        BY Records
      <3>3. thread'[w] = At(thread[w].in, thread[w].call, Tail(s), thread[w].a)
        BY <3>1, <3>2 DEF At
      <3>4. QED
        BY <3>1, <3>2, <3>3, <2>2, <2>3 DEF Moves, At
    <2>5. Held(w) = ToSet(s)
      BY <2>1, <2>2, Records DEF Accounts
    <2>6. Held(w)' = Held(w) \ {Head(s)}
      BY <2>2 DEF Held, Handle
    <2>7. Accounts("release", c, Tail(s), Held(w)')
      BY <2>2, <2>5, <2>6, UnwindingStep DEF Accounts
    <2>8. OthersKeep(w)
      BY <2>2 DEF OthersKeep, HandleInv, Handle
    <2>9. QED
      BY <2>2, <2>4, <2>7, <2>8, LocalStep
  <1>2. CASE ReturnReleased(w)
    <2>1. thread[w].in = "release" /\ thread[w].release = <<>> /\ UNCHANGED <<handles, modules>>
      BY <1>2 DEF ReturnReleased
    <2>2. Moves(w, "idle", 0, <<>>)
      BY <1>2, Records DEF ReturnReleased, Leave, IdleThread, Moves, At
    <2>3. Held(w)' = {}
      BY <2>1, Records, KindsOfLists DEF Accounts, Held
    <2>4. Accounts("idle", 0, <<>>, Held(w)')
      BY <2>3 DEF Accounts, Unwinding
    <2>5. OthersKeep(w)
      BY <2>1 DEF OthersKeep, HandleInv
    <2>6. QED
      BY <2>1, <2>2, <2>4, <2>5, LocalStep
  <1>3. QED
    BY <1>1, <1>2

\* load() returns a module that takes its thread's objects over.
LEMMA LoadKeepsHandles ==
    ASSUME HandleInv, NEW w \in CudaThreads, LoadReturns(w)
    PROVE  HandleInv'
  <1>1. PICK id \in FreeIds : /\ handles' = Owned(w, id) /\ modules' = modules \cup {id}
                              /\ thread[w].in = "load" /\ thread[w].call > Len(Calls) /\ Leave(w)
    BY DEF LoadReturns
  <1>2. id \in 1 .. MaxModules /\ id \notin modules /\ id \notin CudaThreads
    BY CudaAssumption DEF FreeIds
  <1>3. Held(w) = Whole
    <2>1. thread[w].call = 7
      BY <1>1, Records, CallsMake DEF Accounts
    <2>2. QED
      BY <1>1, <2>1, Records, CallsMake DEF Accounts
  <1>4. \A h \in handles : /\ h = Handle(h.kind, h.by) /\ h.kind \in ObjectKinds
                           /\ h.by \in CudaThreads \cup modules
    BY Owners DEF HandleInv
  <1>5. handles' = {IF h.by = w THEN Handle(h.kind, id) ELSE h : h \in handles}
    BY <1>1, <1>4 DEF Owned, Handle
  <1>6. handles' \subseteq [kind : ObjectKinds, by : CudaThreads \cup modules']
    BY <1>1, <1>4, <1>5 DEF Handle
  <1>7. Held(w)' = {}
    <2>1. \A g \in handles' : g.by # w
      BY <1>2, <1>5 DEF Handle
    <2>2. QED
      BY <2>1 DEF Held, Handle
  <1>8. Held(id)' = Whole
    <2>1. ASSUME NEW k \in ObjectKinds PROVE Handle(k, id) \in handles' <=> Handle(k, w) \in handles
      BY <1>2, <1>4, <1>5 DEF Handle
    <2>2. QED
      BY <1>3, <2>1 DEF Held
  <1>9. ASSUME NEW v \in CudaThreads \cup modules, v # w PROVE Held(v)' = Held(v)
    BY <1>2, <1>4, <1>5, <1>9 DEF Held, Handle
  <1>10. Moves(w, "idle", 0, <<>>)
    BY <1>1, Records DEF Leave, IdleThread, Moves, At
  <1>11. ASSUME NEW v \in CudaThreads PROVE ThreadInv(v)'
    <2>1. CASE v = w
      <3>1. thread'[w].in = "idle" /\ thread'[w].call = 0 /\ thread'[w].release = <<>>
        BY <1>10 DEF Moves, At
      <3>2. QED
        BY <1>7, <1>10, <2>1, <3>1 DEF ThreadInv, Moves, Accounts, Unwinding
    <2>2. CASE v # w
      <3>1. thread'[v] = thread[v] /\ Held(v)' = Held(v)
        BY <1>9, <1>10, <2>2 DEF Moves
      <3>2. QED
        BY <3>1 DEF HandleInv, ThreadInv
    <2>3. QED
      BY <2>1, <2>2
  <1>12. \A i \in modules' : Held(i)' = Whole
    <2>1. ASSUME NEW i \in modules PROVE Held(i)' = Whole
      <3>1. i # w
        BY Owners
      <3>2. QED
        BY <1>9, <3>1 DEF HandleInv
    <2>2. QED
      BY <1>1, <1>8, <2>1
  <1>13. thread' = [v \in CudaThreads |-> thread'[v]]
    BY <1>10 DEF Moves
  <1>14. QED
    BY <1>1, <1>2, <1>6, <1>11, <1>12, <1>13 DEF HandleInv

\* ~CudaLoadedModule(): a thread takes the objects back to release them.
LEMMA DropKeepsHandles ==
    ASSUME HandleInv, NEW w \in CudaThreads, NEW id \in modules, DropModule(w, id)
    PROVE  HandleInv'
  <1>1. /\ thread[w].in = "idle" /\ modules' = modules \ {id}
        /\ handles' = {IF h.by = id THEN [h EXCEPT !.by = w] ELSE h : h \in handles}
        /\ thread' = [thread EXCEPT ![w] = At("release", 0, Releases("end"), NoSpec)]
    BY DEF DropModule
  <1>2. w # id /\ w \notin modules
    BY Owners
  <1>3. Held(w) = {} /\ Held(id) = Whole
    BY <1>1, Records DEF Accounts, HandleInv
  <1>4. \A h \in handles : /\ h = Handle(h.kind, h.by) /\ h.kind \in ObjectKinds
                           /\ h.by \in CudaThreads \cup modules
    BY Owners DEF HandleInv
  <1>5. handles' = {IF h.by = id THEN Handle(h.kind, w) ELSE h : h \in handles}
    BY <1>1, <1>4 DEF Handle
  <1>6. handles' \subseteq [kind : ObjectKinds, by : CudaThreads \cup modules']
    BY <1>1, <1>4, <1>5 DEF Handle
  <1>7. Held(w)' = Whole
    <2>1. ASSUME NEW k \in ObjectKinds
          PROVE  Handle(k, w) \in handles' <=> Handle(k, id) \in handles \/ Handle(k, w) \in handles
      BY <1>2, <1>4, <1>5 DEF Handle
    <2>2. QED
      BY <1>3, <2>1 DEF Held
  <1>8. ASSUME NEW v \in (CudaThreads \cup modules) \ {w, id} PROVE Held(v)' = Held(v)
    BY <1>2, <1>4, <1>5 DEF Held, Handle
  <1>9. PICK s : s = Releases("end")
    OBVIOUS
  <1>10. Moves(w, "release", 0, s)
    BY <1>1, <1>9, Records DEF Moves, At
  <1>11. ASSUME NEW v \in CudaThreads PROVE ThreadInv(v)'
    <2>1. CASE v = w
      <3>1. thread'[w].in = "release" /\ thread'[w].call = 0 /\ thread'[w].release = s
        BY <1>10 DEF Moves, At
      <3>2. s \in Unwinding /\ ToSet(s) = Whole
        BY <1>9, CallsMake
      <3>3. QED
        BY <1>7, <1>10, <2>1, <3>1, <3>2 DEF ThreadInv, Moves, Accounts
    <2>2. CASE v # w
      <3>1. thread'[v] = thread[v] /\ Held(v)' = Held(v)
        BY <1>8, <1>10, <2>2, Owners DEF Moves
      <3>2. QED
        BY <3>1 DEF HandleInv, ThreadInv
    <2>3. QED
      BY <2>1, <2>2
  <1>12. \A i \in modules' : Held(i)' = Whole
    BY <1>1, <1>2, <1>8 DEF HandleInv
  <1>13. thread' = [v \in CudaThreads |-> thread'[v]]
    BY <1>10 DEF Moves
  <1>14. QED
    BY <1>1, <1>6, <1>11, <1>12, <1>13 DEF HandleInv

\* Every library call, successful or not, keeps the account.
LEMMA HandleInvNext == HandleInv /\ [CudaNext]_cudaVars => HandleInv'
  <1> SUFFICES ASSUME HandleInv, [CudaNext]_cudaVars PROVE HandleInv'
    OBVIOUS
  <1>1. CASE UNCHANGED cudaVars \/ Ensure
    <2>1. UNCHANGED <<handles, thread, modules>>
      BY <1>1 DEF Ensure, cudaVars
    <2>2. QED
      BY <2>1 DEF HandleInv, ThreadInv, Held
  <1>2. CASE \E w \in CudaThreads : \/ \E r \in CudaRequests : BeginCompile(w, r)
                                    \/ CompileFails(w) \/ Compiled(w)
    BY <1>2, CompileKeepsHandles
  <1>3. CASE \E w \in CudaThreads : \/ \E a \in artifacts : BeginLoad(w, a)
                                    \/ CallSucceeds(w) \/ CallFails(w)
                                    \/ \E launched \in BOOLEAN, seed \in Seeds : Judged(w, launched, seed)
    BY <1>3, CallsKeepHandles
  <1>4. CASE \E w \in CudaThreads : ReleaseOne(w) \/ ReturnReleased(w)
    BY <1>4, ReleasesKeepHandles
  <1>5. CASE \E w \in CudaThreads : LoadReturns(w)
    BY <1>5, LoadKeepsHandles
  <1>6. CASE \E w \in CudaThreads : \E id \in modules : DropModule(w, id)
    BY <1>6, DropKeepsHandles
  <1>7. QED
    BY <1>1, <1>2, <1>3, <1>4, <1>5, <1>6 DEF CudaNext

\* For any number of threads and modules and whichever library calls fail: a thread
\* outside the backend holds no object, what is about to be released is live, buffers
\* and modules go before their context, and a loaded module has all of its objects
\* (validate(), load() and ~CudaLoadedModule()).
THEOREM HandlesAreAccounted == CudaSpec => []HandlesAccounted
  <1>1. ASSUME HandleInv PROVE HandlesAccounted
    <2>1. ASSUME NEW w \in CudaThreads, thread[w].in = "idle", NEW h \in handles PROVE h.by # w
      BY <1>1, <2>1, Records, Owners DEF Accounts
    <2>2. ASSUME NEW w \in CudaThreads, NEW kind \in ToSet(thread[w].release)
          PROVE  Handle(kind, w) \in handles
      <3>1. thread[w].in = "release"
        BY <1>1, <2>2, Records, KindsOfLists DEF Accounts
      <3>2. kind \in Held(w)
        BY <1>1, <2>2, <3>1, Records DEF Accounts
      <3>3. QED
        BY <3>2 DEF Held
    <2>3. ASSUME NEW h \in handles, h.kind \in {"module", "in", "out"}
          PROVE  Handle("context", h.by) \in handles
      <3>1. h.kind \in Held(h.by) /\ h.by \in CudaThreads \cup modules
        BY <1>1, Owners
      <3>2. CASE h.by \in modules
        BY <1>1, <3>2 DEF HandleInv, Held, Whole
      <3>3. CASE h.by \in CudaThreads
        <4>1. PICK w \in CudaThreads : w = h.by
          BY <3>3
        <4>2. Accounts(thread[w].in, thread[w].call, thread[w].release, Held(w)) /\ h.kind \in Held(w)
          BY <1>1, <3>1, <4>1, Records
        <4>3. CASE thread[w].in \in {"validate", "load"}
          <5>1. PICK i \in 1 .. 7 : Held(w) = MadeBefore(i)
            BY <4>2, <4>3 DEF Accounts
          <5>2. h.kind \in MadeBefore(i) => "context" \in MadeBefore(i)
            BY <2>3 DEF MadeBefore, Whole
          <5>3. QED
            BY <4>1, <4>2, <5>1, <5>2 DEF Held
        <4>4. CASE thread[w].in = "release"
          <5>1. PICK s \in Unwinding : s = thread[w].release
            BY <4>2 DEF Accounts
          <5>2. h.kind \in ToSet(s) /\ Held(w) = ToSet(s)
            BY <4>2, <4>4, <5>1 DEF Accounts
          <5>3. s # <<>>
            BY <5>2, KindsOfLists
          <5>4. QED
            BY <4>1, <5>2, <5>3, UnwindingStep DEF Held
        <4>5. QED
          BY <2>3, <4>2, <4>3, <4>4 DEF Accounts
      <3>4. QED
        BY <3>1, <3>2, <3>3
    <2>4. ASSUME NEW id \in modules
          PROVE  {h.kind : h \in {g \in handles : g.by = id}} = {"context", "module", "in", "out"}
      <3>1. Held(id) = Whole
        BY <1>1 DEF HandleInv
      <3>2. \A h \in handles : h.by = id => h.kind \in Held(id)
        BY <1>1, Owners
      <3>3. \A k \in Whole : Handle(k, id) \in handles
        BY <3>1 DEF Held
      <3>4. QED
        BY <3>1, <3>2, <3>3 DEF Handle, Whole
    <2>5. QED
      BY <2>1, <2>2, <2>3, <2>4 DEF HandlesAccounted
  <1>2. QED
    BY <1>1, HandleInvInit, HandleInvNext, PTL DEF CudaSpec

(* ------------------------------- numbers ------------------------------- *)
\* Combine under another name, to instantiate with.
CombineIn(op, x, y) == Combine(op, x, y)
Folded == INSTANCE FoldFacts WITH Op <- CombineIn, Mx <- Max

\* The recursion that defines the powers of two has a solution, so TwoTo follows it.
LEMMA TwoToIs == \A n \in Nat : TwoTo[n] = IF n = 0 THEN 1 ELSE TwoTo[n - 1] * 2
  <1>1. TwoTo = CHOOSE f : Folded!IsPowers(2, f)
    BY DEF TwoTo, PowersOf, Folded!IsPowers
  <1>2. Folded!IsPowers(2, TwoTo)
    BY <1>1, Folded!PowersExist, Zenon
  <1>3. QED
    BY <1>2 DEF Folded!IsPowers

\* Every power is a number beyond its exponent and twice the one before it.
LEMMA TwoToStep ==
    TwoTo[0] = 1 /\ \A n \in Nat : TwoTo[n] \in Nat /\ n < TwoTo[n] /\ TwoTo[n + 1] = 2 * TwoTo[n]
  <1> DEFINE S == {n \in Nat : TwoTo[n] \in Nat /\ n < TwoTo[n]}
  <1>1. 0 \in S /\ TwoTo[0] = 1
    BY TwoToIs
  <1>2. ASSUME NEW n \in Nat, n \in S PROVE n + 1 \in S /\ TwoTo[n + 1] = 2 * TwoTo[n]
    <2>1. TwoTo[n + 1] = TwoTo[n] * 2
      BY TwoToIs
    <2>2. QED
      BY <1>2, <2>1
  <1>3. Nat \subseteq S
    <2> HIDE DEF S
    <2>1. QED
      BY <1>1, <1>2, Folded!SetInduction
  <1>4. QED
    BY <1>1, <1>2, <1>3

\* Powers multiply, and grow with the exponent.
LEMMA TwoToSum ==
    ASSUME NEW i \in Nat
    PROVE  \A j \in Nat : TwoTo[i + j] = TwoTo[i] * TwoTo[j] /\ TwoTo[i] <= TwoTo[i + j]
  <1> DEFINE S == {j \in Nat : TwoTo[i + j] = TwoTo[i] * TwoTo[j] /\ TwoTo[i] <= TwoTo[i + j]}
  <1>1. 0 \in S
    BY TwoToStep
  <1>2. ASSUME NEW j \in Nat, j \in S PROVE j + 1 \in S
    <2>1. i + j \in Nat /\ i + (j + 1) = (i + j) + 1
      OBVIOUS
    <2>2. TwoTo[i + (j + 1)] = 2 * TwoTo[i + j] /\ TwoTo[j + 1] = 2 * TwoTo[j]
      BY <2>1, TwoToStep
    <2>3. PICK a \in Nat, b \in Nat : a = TwoTo[i] /\ b = TwoTo[j]
      BY TwoToStep
    <2>4. TwoTo[i + j] = a * b /\ a <= a * b
      BY <1>2, <2>3
    <2>5. 2 * (a * b) = a * (2 * b) /\ a <= 2 * (a * b)
      BY <2>4
    <2>6. QED
      BY <2>2, <2>3, <2>4, <2>5
  <1>3. Nat \subseteq S
    <2> HIDE DEF S
    <2>1. QED
      BY <1>1, <1>2, Folded!SetInduction
  <1>4. QED
    BY <1>3

\* Powers of two are positive.
LEMMA TwoToPositive == \A n \in Nat : TwoTo[n] \in Nat /\ TwoTo[n] > 0
  <1> SUFFICES ASSUME NEW n \in Nat PROVE TwoTo[n] \in Nat /\ TwoTo[n] > 0
    OBVIOUS
  <1>1. TwoTo[n] \in Nat /\ n < TwoTo[n]
    BY TwoToStep
  <1>2. QED
    BY <1>1

\* The doubles of the model, each with its sign bit.
Doubles == [neg : BOOLEAN, mag : Nat]

\* The double of a whole number is a double of that value.
LEMMA DoubleIs == ASSUME NEW v \in Int PROVE Double(v) \in Doubles /\ Value(Double(v)) = v
  <1>1. CASE v < 0
    <2>1. Double(v) = [neg |-> TRUE, mag |-> -v]
      BY <1>1 DEF Double
    <2>2. QED
      BY <1>1, <2>1 DEF Doubles, Value
  <1>2. CASE ~(v < 0)
    <2>1. Double(v) = [neg |-> FALSE, mag |-> v]
      <3>1. (v < 0) = FALSE
        BY <1>2
      <3>2. (IF v < 0 THEN -v ELSE v) = v
        BY <1>2, Zenon
      <3>3. QED
        BY <3>1, <3>2, Zenon DEF Double
    <2>2. QED
      BY <1>2, <2>1 DEF Doubles, Value
  <1>3. QED
    BY <1>1, <1>2

\* The value of a double is a whole number.
LEMMA ValueIs == ASSUME NEW x \in Doubles PROVE Value(x) \in Int
  BY DEF Value, Doubles

\* What is combined, as numbers.
Mix(op, v, w) == CASE op = "sum" -> v + w
                   [] op = "max" -> IF v < w THEN w ELSE v
                   [] op = "min" -> IF w < v THEN w ELSE v

\* Combining two doubles combines their values, whatever the signs of zeros.
LEMMA CombineIs ==
    ASSUME NEW op \in Reductions, NEW x \in Doubles, NEW y \in Doubles
    PROVE  Combine(op, x, y) \in Doubles /\ Value(Combine(op, x, y)) = Mix(op, Value(x), Value(y))
  <1>0. Value(x) \in Int /\ Value(y) \in Int
    BY ValueIs
  <1>1. CASE op = "sum"
    <2>0. Combine(op, x, y) = Plus(x, y) /\ Mix(op, Value(x), Value(y)) = Value(x) + Value(y)
      BY <1>1 DEF Combine, Mix
    <2>1. CASE Value(x) + Value(y) = 0
      <3>1. Plus(x, y) = [neg |-> x.neg /\ y.neg, mag |-> 0]
        BY <2>1 DEF Plus
      <3>2. (x.neg /\ y.neg) \in BOOLEAN
        BY Zenon
      <3>3. PICK b \in BOOLEAN : Plus(x, y) = [neg |-> b, mag |-> 0]
        BY <3>1, <3>2
      <3>4. QED
        BY <2>0, <2>1, <3>3 DEF Doubles, Value
    <2>2. CASE Value(x) + Value(y) # 0
      <3>1. Plus(x, y) = Double(Value(x) + Value(y))
        BY <2>2 DEF Plus
      <3>2. QED
        BY <1>0, <2>0, <3>1, DoubleIs
    <2>3. QED
      BY <2>1, <2>2
  <1>2. CASE op = "max"
    BY <1>0, <1>2 DEF Combine, Mix, Larger
  <1>3. CASE op = "min"
    BY <1>0, <1>3 DEF Combine, Mix, Smaller
  <1>4. QED
    BY <1>1, <1>2, <1>3 DEF Reductions

\* The order in which numbers are combined makes no difference.
LEMMA MixIs ==
    ASSUME NEW op \in Reductions, NEW u \in Int, NEW v \in Int, NEW w \in Int
    PROVE  /\ Mix(op, u, v) \in Int
           /\ Mix(op, Mix(op, u, v), w) = Mix(op, u, Mix(op, v, w))
           /\ Mix(op, Mix(op, u, v), w) = Mix(op, Mix(op, u, w), v)
  <1>1. CASE op = "sum"
    BY <1>1 DEF Mix
  <1>2. CASE op = "max"
    BY <1>2 DEF Mix
  <1>3. CASE op = "min"
    BY <1>3 DEF Mix
  <1>4. QED
    BY <1>1, <1>2, <1>3 DEF Reductions

(* ------------------------------- totals -------------------------------- *)
\* Numbers under the first n positions.
Numbers(f, n) == \A i \in 1 .. n : f[i] \in Int
\* T holds the totals of the first numbers of f, each from the one before it.
Totals(op, f, n, T) ==
    T[1] = f[1] /\ \A i \in 1 .. n : i < n => T[i + 1] = Mix(op, T[i], f[i + 1])
Total(op, f, n) == (CHOOSE T : Totals(op, f, n, T))[n]

\* The running totals exist, for every number of elements.
LEMMA TotalsExist ==
    ASSUME NEW op, NEW f
    PROVE  \A n \in Nat : \E T : Totals(op, f, n, T)
  <1> DEFINE S == {n \in Nat : \E T : Totals(op, f, n, T)}
  <1>1. 0 \in S
    <2>1. Totals(op, f, 0, [i \in {1} |-> f[1]])
      BY DEF Totals
    <2>2. QED
      BY <2>1
  <1>2. ASSUME NEW n \in Nat, n \in S PROVE n + 1 \in S
    <2>1. PICK T : Totals(op, f, n, T)
      BY <1>2
    <2> DEFINE U == [i \in 1 .. n + 1 |-> IF i = 1 THEN f[1] ELSE Mix(op, T[i - 1], f[i])]
    <2>2. ASSUME NEW i \in 1 .. n + 1, i < n + 1 PROVE U[i + 1] = Mix(op, U[i], f[i + 1])
      <3>1. U[i + 1] = Mix(op, T[i], f[i + 1])
        BY <2>2
      <3>2. U[i] = T[i]
        <4>1. CASE i = 1
          BY <2>1, <4>1 DEF Totals
        <4>2. CASE i # 1
          <5>1. i - 1 \in 1 .. n /\ i - 1 < n /\ (i - 1) + 1 = i
            BY <2>2, <4>2
          <5>2. T[i] = Mix(op, T[i - 1], f[i])
            BY <2>1, <5>1 DEF Totals
          <5>3. QED
            BY <4>2, <5>2
        <4>3. QED
          BY <4>1, <4>2
      <3>3. QED
        BY <3>1, <3>2
    <2>3. U[1] = f[1]
      OBVIOUS
    <2> HIDE DEF U
    <2>4. Totals(op, f, n + 1, U)
      BY <2>2, <2>3 DEF Totals
    <2>5. QED
      BY <2>4
  <1>3. Nat \subseteq S
    <2> HIDE DEF S
    <2>1. QED
      BY <1>1, <1>2, Folded!SetInduction
  <1>4. QED
    BY <1>3

\* Running totals agree where both are defined.
LEMMA TotalsAgree ==
    ASSUME NEW op, NEW f, NEW n \in Nat, NEW m \in Nat,
           NEW T, NEW U, Totals(op, f, n, T), Totals(op, f, m, U), n <= m
    PROVE  \A i \in 1 .. n : T[i] = U[i]
  <1> DEFINE S == {i \in Nat : i \in 1 .. n => T[i] = U[i]}
  <1>1. 0 \in S
    OBVIOUS
  <1>2. ASSUME NEW i \in Nat, i \in S PROVE i + 1 \in S
    <2> SUFFICES ASSUME i + 1 <= n PROVE T[i + 1] = U[i + 1]
      OBVIOUS
    <2>1. CASE i = 0
      BY <2>1 DEF Totals
    <2>2. CASE i > 0
      <3>1. i \in 1 .. n /\ i < n /\ i \in 1 .. m /\ i < m /\ T[i] = U[i]
        BY <1>2, <2>2
      <3>2. T[i + 1] = Mix(op, T[i], f[i + 1]) /\ U[i + 1] = Mix(op, U[i], f[i + 1])
        BY <3>1 DEF Totals
      <3>3. QED
        BY <3>1, <3>2
    <2>3. QED
      BY <2>1, <2>2
  <1>3. Nat \subseteq S
    <2> HIDE DEF S
    <2>1. QED
      BY <1>1, <1>2, Folded!SetInduction
  <1>4. QED
    BY <1>3

\* The total of one number, and with one number more.
LEMMA TotalStep ==
    ASSUME NEW op, NEW f
    PROVE  /\ Total(op, f, 1) = f[1]
           /\ \A n \in Nat : n > 0 => Total(op, f, n + 1) = Mix(op, Total(op, f, n), f[n + 1])
  <1> DEFINE T(n) == CHOOSE U : Totals(op, f, n, U)
  <1>1. \A n \in Nat : Totals(op, f, n, T(n)) /\ Total(op, f, n) = T(n)[n]
    BY TotalsExist, Zenon DEF Total
  <1> HIDE DEF T
  <1>2. Total(op, f, 1) = f[1]
    BY <1>1 DEF Totals
  <1>3. ASSUME NEW n \in Nat, n > 0 PROVE Total(op, f, n + 1) = Mix(op, Total(op, f, n), f[n + 1])
    <2>1. PICK V, W : V = T(n) /\ W = T(n + 1)
      OBVIOUS
    <2>2. /\ Totals(op, f, n, V) /\ Total(op, f, n) = V[n]
          /\ Totals(op, f, n + 1, W) /\ Total(op, f, n + 1) = W[n + 1]
      BY <1>1, <2>1
    <2>3. \A i \in 1 .. n : V[i] = W[i]
      <3>1. n + 1 \in Nat /\ n <= n + 1
        OBVIOUS
      <3>2. QED
        BY <2>2, <3>1, TotalsAgree
    <2>4. n \in 1 .. n /\ n \in 1 .. n + 1 /\ n < n + 1
      BY <1>3
    <2>5. W[n + 1] = Mix(op, W[n], f[n + 1])
      BY <2>2, <2>4 DEF Totals
    <2>6. QED
      BY <2>2, <2>3, <2>4, <2>5
  <1>4. QED
    BY <1>2, <1>3

\* The total of whole numbers is one.
LEMMA TotalIsNumber ==
    ASSUME NEW op \in Reductions, NEW f, NEW n \in Nat, n > 0, Numbers(f, n)
    PROVE  Total(op, f, n) \in Int
  <1> DEFINE S == {i \in Nat : i \in 1 .. n => Total(op, f, i) \in Int}
  <1>1. 0 \in S
    OBVIOUS
  <1>2. ASSUME NEW i \in Nat, i \in S PROVE i + 1 \in S
    <2> SUFFICES ASSUME i + 1 <= n PROVE Total(op, f, i + 1) \in Int
      OBVIOUS
    <2>1. CASE i = 0
      BY <2>1, TotalStep DEF Numbers
    <2>2. CASE i > 0
      <3>1. Total(op, f, i) \in Int /\ f[i + 1] \in Int
        BY <1>2, <2>2 DEF Numbers
      <3>2. Total(op, f, i + 1) = Mix(op, Total(op, f, i), f[i + 1])
        BY <2>2, TotalStep
      <3>3. QED
        BY <3>1, <3>2, MixIs
    <2>3. QED
      BY <2>1, <2>2
  <1>3. Nat \subseteq S
    <2> HIDE DEF S
    <2>1. QED
      BY <1>1, <1>2, Folded!SetInduction
  <1>4. QED
    BY <1>3

\* Only the numbers count.
LEMMA TotalSame ==
    ASSUME NEW op, NEW f, NEW g, NEW n \in Nat, n > 0, \A i \in 1 .. n : f[i] = g[i]
    PROVE  Total(op, f, n) = Total(op, g, n)
  <1> DEFINE S == {i \in Nat : i \in 1 .. n => Total(op, f, i) = Total(op, g, i)}
  <1>1. 0 \in S
    OBVIOUS
  <1>2. ASSUME NEW i \in Nat, i \in S PROVE i + 1 \in S
    <2> SUFFICES ASSUME i + 1 <= n PROVE Total(op, f, i + 1) = Total(op, g, i + 1)
      OBVIOUS
    <2>1. CASE i = 0
      BY <2>1, TotalStep
    <2>2. CASE i > 0
      <3>1. Total(op, f, i) = Total(op, g, i) /\ f[i + 1] = g[i + 1]
        BY <1>2, <2>2
      <3>2. /\ Total(op, f, i + 1) = Mix(op, Total(op, f, i), f[i + 1])
            /\ Total(op, g, i + 1) = Mix(op, Total(op, g, i), g[i + 1])
        BY <2>2, TotalStep
      <3>3. QED
        BY <3>1, <3>2
    <2>3. QED
      BY <2>1, <2>2
  <1>3. Nat \subseteq S
    <2> HIDE DEF S
    <2>1. QED
      BY <1>1, <1>2, Folded!SetInduction
  <1>4. QED
    BY <1>3

\* g is f with v combined into one position.
Dealt(op, f, g, n, v) ==
    \E t \in 1 .. n : g[t] = Mix(op, f[t], v) /\ \A i \in 1 .. n : i # t => g[i] = f[i]

\* A number that is combined into one of the positions is combined into the total.
LEMMA TotalDealt ==
    ASSUME NEW op \in Reductions, NEW f, NEW g, NEW n \in Nat, n > 0, NEW v \in Int,
           Numbers(f, n), Dealt(op, f, g, n, v)
    PROVE  Total(op, g, n) = Mix(op, Total(op, f, n), v)
  <1>1. PICK t \in 1 .. n : g[t] = Mix(op, f[t], v) /\ \A i \in 1 .. n : i # t => g[i] = f[i]
    BY DEF Dealt
  <1>2. Total(op, g, t) = Mix(op, Total(op, f, t), v)
    <2>1. CASE t = 1
      BY <1>1, <2>1, TotalStep
    <2>2. CASE t > 1
      <3>1. PICK m \in Nat : m + 1 = t /\ m > 0 /\ m < n
        <4>1. t - 1 \in Nat /\ (t - 1) + 1 = t /\ t - 1 > 0 /\ t - 1 < n
          BY <2>2
        <4>2. QED
          BY <4>1
      <3>2. Total(op, g, m) = Total(op, f, m)
        <4>1. \A i \in 1 .. m : g[i] = f[i]
          BY <1>1, <3>1
        <4>2. QED
          BY <3>1, <4>1, TotalSame
      <3>3. Total(op, f, m) \in Int /\ f[t] \in Int
        <4>1. Numbers(f, m)
          BY <3>1 DEF Numbers
        <4>2. QED
          BY <3>1, <4>1, TotalIsNumber DEF Numbers
      <3>4. /\ Total(op, g, t) = Mix(op, Total(op, g, m), g[t])
            /\ Total(op, f, t) = Mix(op, Total(op, f, m), f[t])
        BY <3>1, TotalStep
      <3>5. Mix(op, Mix(op, Total(op, f, m), f[t]), v) = Mix(op, Total(op, f, m), Mix(op, f[t], v))
        BY <3>3, MixIs
      <3>6. QED
        BY <1>1, <3>2, <3>4, <3>5
    <2>3. QED
      BY <2>1, <2>2
  <1> DEFINE S == {j \in Nat : t + j <= n => Total(op, g, t + j) = Mix(op, Total(op, f, t + j), v)}
  <1>3. 0 \in S
    BY <1>2
  <1>4. ASSUME NEW j \in Nat, j \in S PROVE j + 1 \in S
    <2> SUFFICES ASSUME t + (j + 1) <= n
                 PROVE  Total(op, g, t + (j + 1)) = Mix(op, Total(op, f, t + (j + 1)), v)
      OBVIOUS
    <2>1. PICK m \in Nat : m = t + j /\ m > 0 /\ m < n /\ t + (j + 1) = m + 1
      <3>1. t + j \in Nat /\ t + j > 0 /\ t + j < n /\ t + (j + 1) = (t + j) + 1
        OBVIOUS
      <3>2. QED
        BY <3>1
    <2>2. Total(op, g, m) = Mix(op, Total(op, f, m), v)
      BY <1>4, <2>1
    <2>3. g[m + 1] = f[m + 1] /\ f[m + 1] \in Int
      BY <1>1, <2>1 DEF Numbers
    <2>4. Total(op, f, m) \in Int
      <3>1. Numbers(f, m)
        BY <2>1 DEF Numbers
      <3>2. QED
        BY <2>1, <3>1, TotalIsNumber
    <2>5. /\ Total(op, g, m + 1) = Mix(op, Total(op, g, m), g[m + 1])
          /\ Total(op, f, m + 1) = Mix(op, Total(op, f, m), f[m + 1])
      BY <2>1, TotalStep
    <2>6. Mix(op, Mix(op, Total(op, f, m), v), f[m + 1]) = Mix(op, Mix(op, Total(op, f, m), f[m + 1]), v)
      BY <2>3, <2>4, MixIs
    <2>7. QED
      BY <2>1, <2>2, <2>3, <2>5, <2>6
  <1>5. Nat \subseteq S
    <2> HIDE DEF S
    <2>1. QED
      BY <1>3, <1>4, Folded!SetInduction
  <1>6. n - t \in S /\ t + (n - t) = n
    BY <1>5
  <1>7. QED
    BY <1>6

\* W[0] has the first m numbers of f; each further number is combined into one position.
Deals(op, f, m, k, W) ==
    /\ \A i \in 1 .. m : W[0][i] = f[i]
    /\ \A j \in 0 .. k : j < k => Dealt(op, W[j], W[j + 1], m, f[(m + j) + 1])

\* Dealing all further numbers out to the first m positions keeps the total.
LEMMA TotalDeals ==
    ASSUME NEW op \in Reductions, NEW f, NEW m \in Nat, m > 0, NEW k \in Nat, Numbers(f, m + k),
           NEW W, Deals(op, f, m, k, W), \A j \in 0 .. k : Numbers(W[j], m)
    PROVE  Total(op, W[k], m) = Total(op, f, m + k)
  <1> DEFINE S == {j \in Nat : j <= k => Total(op, W[j], m) = Total(op, f, m + j)}
  <1>1. 0 \in S
    <2>1. \A i \in 1 .. m : W[0][i] = f[i]
      BY DEF Deals
    <2>2. Total(op, W[0], m) = Total(op, f, m)
      BY <2>1, TotalSame
    <2>3. QED
      BY <2>2
  <1>2. ASSUME NEW j \in Nat, j \in S PROVE j + 1 \in S
    <2> SUFFICES ASSUME j + 1 <= k PROVE Total(op, W[j + 1], m) = Total(op, f, m + (j + 1))
      OBVIOUS
    <2>1. j \in 0 .. k /\ j < k /\ m + j \in Nat /\ m + j > 0 /\ m + (j + 1) = (m + j) + 1
      OBVIOUS
    <2>2. Dealt(op, W[j], W[j + 1], m, f[(m + j) + 1]) /\ Numbers(W[j], m)
      BY <2>1 DEF Deals
    <2>3. f[(m + j) + 1] \in Int
      BY <2>1 DEF Numbers
    <2>4. Total(op, W[j + 1], m) = Mix(op, Total(op, W[j], m), f[(m + j) + 1])
      BY <2>2, <2>3, TotalDealt
    <2>5. Total(op, W[j], m) = Total(op, f, m + j)
      BY <1>2, <2>1
    <2>6. Total(op, f, (m + j) + 1) = Mix(op, Total(op, f, m + j), f[(m + j) + 1])
      BY <2>1, TotalStep
    <2>7. QED
      BY <2>1, <2>4, <2>5, <2>6
  <1>3. Nat \subseteq S
    <2> HIDE DEF S
    <2>1. QED
      BY <1>1, <1>2, Folded!SetInduction
  <1>4. QED
    BY <1>3

\* Half of the positions combine the other half into theirs.
LEMMA TotalHalved ==
    ASSUME NEW op \in Reductions, NEW f, NEW m \in Nat, m > 0, Numbers(f, m + m),
           NEW h, \A t \in 1 .. m : h[t] = Mix(op, f[t], f[t + m])
    PROVE  Total(op, h, m) = Total(op, f, m + m)
  <1> DEFINE w(j) == [t \in 1 .. m |-> IF t <= j THEN Mix(op, f[t], f[t + m]) ELSE f[t]]
             W == [j \in 0 .. m |-> w(j)]
  <1>0. \A t \in 1 .. m : f[t] \in Int /\ f[t + m] \in Int /\ Mix(op, f[t], f[t + m]) \in Int
    <2>1. \A t \in 1 .. m : f[t] \in Int /\ f[t + m] \in Int
      BY DEF Numbers
    <2>2. QED
      BY <2>1, MixIs
  <1>1. \A j \in 0 .. m : W[j] = w(j)
    OBVIOUS
  <1>2. \A j \in 0 .. m : \A t \in 1 .. m : W[j][t] = IF t <= j THEN Mix(op, f[t], f[t + m]) ELSE f[t]
    BY <1>1
  <1> HIDE DEF W
  <1>3. \A j \in 0 .. m : Numbers(W[j], m)
    BY <1>0, <1>2 DEF Numbers
  <1>4. ASSUME NEW j \in 0 .. m, j < m PROVE Dealt(op, W[j], W[j + 1], m, f[(m + j) + 1])
    <2>1. j + 1 \in 1 .. m /\ j + 1 \in 0 .. m /\ (m + j) + 1 = (j + 1) + m
      BY <1>4
    <2>2. W[j + 1][j + 1] = Mix(op, f[j + 1], f[(j + 1) + m]) /\ W[j][j + 1] = f[j + 1]
      BY <1>2, <2>1
    <2>3. \A i \in 1 .. m : i # j + 1 => W[j + 1][i] = W[j][i]
      BY <1>2, <2>1
    <2>4. QED
      BY <2>1, <2>2, <2>3 DEF Dealt
  <1>5. Deals(op, f, m, m, W)
    BY <1>2, <1>4 DEF Deals
  <1>6. Total(op, W[m], m) = Total(op, f, m + m)
    BY <1>3, <1>5, TotalDeals
  <1>7. \A t \in 1 .. m : W[m][t] = h[t]
    BY <1>2
  <1>8. Total(op, W[m], m) = Total(op, h, m)
    BY <1>7, TotalSame
  <1>9. QED
    BY <1>6, <1>8

\* The number at position b + j + 1 is the q-th further one of thread t0, and no other
\* thread reaches its next one there.
LEMMA Columns ==
    ASSUME NEW b \in Nat, b > 0, NEW j \in Nat
    PROVE  \E t0 \in 1 .. b, q \in Nat :
             /\ (b + j) + 1 = t0 + (q + 1) * b
             /\ ((b + j) - t0) \div b = q /\ ((b + (j + 1)) - t0) \div b = q + 1
             /\ \A t \in 1 .. b : t # t0 => ((b + (j + 1)) - t) \div b = ((b + j) - t) \div b
  <1>1. PICK q \in Nat, r \in Nat : j = q * b + r /\ r < b
    <2>1. j \div b \in Nat /\ j % b \in Nat /\ j % b < b /\ j = (j \div b) * b + (j % b)
      OBVIOUS
    <2>2. QED
      BY <2>1
  <1>2. r + 1 \in 1 .. b
    BY <1>1
  <1>3. PICK z \in Nat : z = q * b
    OBVIOUS
  <1>4. (q + 1) * b = z + b
    BY <1>3
  <1>5. (b + j) + 1 = (r + 1) + (q + 1) * b
    BY <1>1, <1>3, <1>4
  <1>6. ((b + j) - (r + 1)) \div b = q
    <2>1. (b + j) - (r + 1) = q * b + (b - 1) /\ b - 1 \in Nat /\ b - 1 < b
      BY <1>1, <1>3
    <2>2. QED
      BY <2>1, Folded!Division
  <1>7. ((b + (j + 1)) - (r + 1)) \div b = q + 1
    <2>1. (b + (j + 1)) - (r + 1) = (q + 1) * b + 0 /\ 0 < b /\ q + 1 \in Nat
      BY <1>1, <1>3, <1>4
    <2>2. QED
      BY <2>1, Folded!Division
  <1>8. ASSUME NEW t \in 1 .. b, t # r + 1
        PROVE  ((b + (j + 1)) - t) \div b = ((b + j) - t) \div b
    <2>1. CASE t < r + 1
      <3>1. /\ (b + j) - t = (q + 1) * b + (r - t) /\ r - t \in Nat /\ r - t < b
            /\ (b + (j + 1)) - t = (q + 1) * b + ((r - t) + 1) /\ (r - t) + 1 \in Nat /\ (r - t) + 1 < b
        BY <1>1, <1>3, <1>4, <2>1
      <3>2. q + 1 \in Nat
        OBVIOUS
      <3>3. ((b + j) - t) \div b = q + 1
        BY <3>1, <3>2, Folded!Division
      <3>4. ((b + (j + 1)) - t) \div b = q + 1
        BY <3>1, <3>2, Folded!Division
      <3>5. QED
        BY <3>3, <3>4
    <2>2. CASE t > r + 1
      <3>1. /\ (b + j) - t = q * b + ((b + r) - t) /\ (b + r) - t \in Nat /\ (b + r) - t < b
            /\ (b + (j + 1)) - t = q * b + (((b + r) - t) + 1)
            /\ ((b + r) - t) + 1 \in Nat /\ ((b + r) - t) + 1 < b
        BY <1>1, <1>3, <2>2
      <3>3. ((b + j) - t) \div b = q
        BY <3>1, Folded!Division
      <3>4. ((b + (j + 1)) - t) \div b = q
        BY <3>1, Folded!Division
      <3>5. QED
        BY <3>3, <3>4
    <2>3. QED
      BY <1>8, <2>1, <2>2, <1>1
  <1>9. QED
    BY <1>2, <1>5, <1>6, <1>7, <1>8

\* D[t] holds what thread t of b has accumulated after each of its elements.
Strides(op, f, b, N, D) ==
    \A t \in 1 .. b :
        /\ D[t][0] = f[t]
        /\ \A q \in Nat : t + (q + 1) * b <= N => D[t][q + 1] = Mix(op, D[t][q], f[t + (q + 1) * b])

\* acc holds what each thread has accumulated at its last element.
LastOf(acc, D, b, N) == \A t \in 1 .. b : acc[t] = D[t][(N - t) \div b]

\* What the threads have accumulated has the total of all elements.
LEMMA TotalStrided ==
    ASSUME NEW op \in Reductions, NEW f, NEW b \in Nat, b > 0, NEW N \in Nat, N >= b, Numbers(f, N),
           NEW D, Strides(op, f, b, N, D), NEW acc, LastOf(acc, D, b, N)
    PROVE  Numbers(acc, b) /\ Total(op, acc, b) = Total(op, f, N)
  <1>0. PICK k \in Nat : N = b + k
    <2>1. N - b \in Nat /\ N = b + (N - b)
      OBVIOUS
    <2>2. QED
      BY <2>1
  <1> USE <1>0
  <1> DEFINE w(j) == [t \in 1 .. b |-> D[t][((b + j) - t) \div b]]
             W == [j \in 0 .. k |-> w(j)]
  <1>1. \A j \in 0 .. k : \A t \in 1 .. b : W[j][t] = D[t][((b + j) - t) \div b]
    <2>1. \A j \in 0 .. k : W[j] = w(j)
      OBVIOUS
    <2>2. QED
      BY <2>1
  <1> HIDE DEF W
  <1>2. \A i \in 1 .. b : W[0][i] = f[i]
    <2> SUFFICES ASSUME NEW i \in 1 .. b PROVE W[0][i] = f[i]
      OBVIOUS
    <2>1. (b + 0) - i = 0 * b + (b - i) /\ b - i \in Nat /\ b - i < b
      OBVIOUS
    <2>2. ((b + 0) - i) \div b = 0
      BY <2>1, Folded!Division
    <2>3. W[0][i] = D[i][((b + 0) - i) \div b]
      BY <1>1
    <2>4. QED
      BY <2>2, <2>3 DEF Strides
  <1>3. ASSUME NEW j \in 0 .. k, j < k PROVE Dealt(op, W[j], W[j + 1], b, f[(b + j) + 1])
    <2>0. j \in Nat /\ j + 1 \in 0 .. k
      BY <1>3
    <2>1. PICK t0 \in 1 .. b, q \in Nat :
             /\ (b + j) + 1 = t0 + (q + 1) * b
             /\ ((b + j) - t0) \div b = q /\ ((b + (j + 1)) - t0) \div b = q + 1
             /\ \A t \in 1 .. b : t # t0 => ((b + (j + 1)) - t) \div b = ((b + j) - t) \div b
      BY <2>0, Columns
    <2>2. W[j][t0] = D[t0][q] /\ W[j + 1][t0] = D[t0][q + 1]
      BY <1>1, <2>0, <2>1
    <2>3. t0 + (q + 1) * b <= b + k
      <3>1. (b + j) + 1 <= b + k
        BY <1>3
      <3>2. QED
        BY <2>1, <3>1
    <2>4. D[t0][q + 1] = Mix(op, D[t0][q], f[(b + j) + 1])
      <3>1. PICK p : p = t0 + (q + 1) * b
        OBVIOUS
      <3>2. p = (b + j) + 1 /\ p <= b + k
        BY <2>1, <2>3, <3>1
      <3>3. D[t0][q + 1] = Mix(op, D[t0][q], f[p])
        BY <3>1, <3>2 DEF Strides
      <3>4. QED
        BY <3>2, <3>3
    <2>5. \A i \in 1 .. b : i # t0 => W[j + 1][i] = W[j][i]
      <3> SUFFICES ASSUME NEW i \in 1 .. b, i # t0 PROVE W[j + 1][i] = W[j][i]
        OBVIOUS
      <3>1. PICK x : x = ((b + j) - i) \div b /\ x = ((b + (j + 1)) - i) \div b
        BY <2>1
      <3>2. W[j][i] = D[i][x]
        BY <1>1, <3>1
      <3>3. W[j + 1][i] = D[i][x]
        BY <1>1, <2>0, <3>1
      <3>4. QED
        BY <3>2, <3>3
    <2>6. QED
      BY <2>2, <2>4, <2>5 DEF Dealt
  <1>4. Deals(op, f, b, k, W)
    BY <1>2, <1>3 DEF Deals
  <1>5. \A j \in 0 .. k : Numbers(W[j], b)
    <2> DEFINE S == {j \in Nat : j <= k => Numbers(W[j], b)}
    <2>1. 0 \in S
      BY <1>2 DEF Numbers
    <2>2. ASSUME NEW j \in Nat, j \in S PROVE j + 1 \in S
      <3> SUFFICES ASSUME j + 1 <= k PROVE Numbers(W[j + 1], b)
        OBVIOUS
      <3>1. Numbers(W[j], b) /\ f[(b + j) + 1] \in Int /\ j \in 0 .. k /\ j < k
        BY <2>2 DEF Numbers
      <3>2. Dealt(op, W[j], W[j + 1], b, f[(b + j) + 1])
        BY <1>3, <3>1
      <3>3. \A t \in 1 .. b : Mix(op, W[j][t], f[(b + j) + 1]) \in Int
        BY <3>1, MixIs DEF Numbers
      <3>4. QED
        BY <3>1, <3>2, <3>3 DEF Dealt, Numbers
    <2>3. Nat \subseteq S
      <3> HIDE DEF S
      <3>1. QED
        BY <2>1, <2>2, Folded!SetInduction
    <2>4. QED
      BY <2>3
  <1>6. Total(op, W[k], b) = Total(op, f, b + k)
    BY <1>4, <1>5, TotalDeals
  <1>7. k \in 0 .. k /\ \A t \in 1 .. b : acc[t] = W[k][t]
    BY <1>1 DEF LastOf
  <1>8. Total(op, acc, b) = Total(op, W[k], b)
    BY <1>7, TotalSame
  <1>9. QED
    BY <1>5, <1>6, <1>7, <1>8 DEF Numbers

(* -------------------------------- folds -------------------------------- *)
Accumulating == INSTANCE FoldFacts WITH Op <- Accumulate, Mx <- Max
Halving == INSTANCE FoldFacts WITH Op <- Halve, Mx <- Max
Applying == INSTANCE FoldFacts WITH Op <- Apply, Mx <- Max

\* out is what comes of combining the elements of s one after the other into b.
Combined(op, b, s, n, out) ==
    \E st : /\ st[0] = b
            /\ \A i \in 1 .. n : st[i] = Combine(op, st[i - 1], s[i])
            /\ out = st[n]

AllCombined(op, b, s) == FoldLeft(LAMBDA x, y : Combine(op, x, y), b, s)

\* A fold with Combine goes through its elements in order.
LEMMA CombinedTrace ==
    ASSUME NEW op, NEW b, NEW s, NEW n \in Nat, DOMAIN s = 1 .. n
    PROVE  Combined(op, b, s, n, AllCombined(op, b, s))
  <1> DEFINE g == CHOOSE g : Folded!IsTable(op, b, s, n, g)
  <1>1. Folded!MxIsMax
    BY Zenon DEF Folded!MxIsMax, Max
  <1>2. AllCombined(op, b, s) = g[DOMAIN s]
    BY DEF AllCombined, FoldLeft, MapThenFoldSet, Folded!IsTable, Folded!Table, CombineIn
  <1>3. \E h : Folded!IsTable(op, b, s, n, h)
    BY <1>1, Folded!TableExists
  <1>4. Folded!IsTable(op, b, s, n, g)
    BY <1>3
  <1> HIDE DEF g
  <1>5. Folded!Trace(op, b, s, n, g[1 .. n])
    BY <1>1, <1>4, Folded!TableTrace
  <1>6. QED
    BY <1>2, <1>5 DEF Folded!Trace, CombineIn, Combined

\* out is what comes of accumulating the elements of s one after the other onto b.
Accumulated(k, b, s, n, out) ==
    \E st : /\ st[0] = b
            /\ \A i \in 1 .. n : st[i] = Accumulate(k, st[i - 1], s[i])
            /\ out = st[n]

AllAccumulated(k, b, s) == FoldLeft(LAMBDA x, y : Accumulate(k, x, y), b, s)

\* A fold with Accumulate goes through its elements in order.
LEMMA AccumulatedTrace ==
    ASSUME NEW k, NEW b, NEW s, NEW n \in Nat, DOMAIN s = 1 .. n
    PROVE  Accumulated(k, b, s, n, AllAccumulated(k, b, s))
  <1> DEFINE g == CHOOSE g : Accumulating!IsTable(k, b, s, n, g)
  <1>1. Accumulating!MxIsMax
    BY Zenon DEF Accumulating!MxIsMax, Max
  <1>2. AllAccumulated(k, b, s) = g[DOMAIN s]
    BY DEF AllAccumulated, FoldLeft, MapThenFoldSet, Accumulating!IsTable, Accumulating!Table
  <1>3. \E h : Accumulating!IsTable(k, b, s, n, h)
    BY <1>1, Accumulating!TableExists
  <1>4. Accumulating!IsTable(k, b, s, n, g)
    BY <1>3
  <1> HIDE DEF g
  <1>5. Accumulating!Trace(k, b, s, n, g[1 .. n])
    BY <1>1, <1>4, Accumulating!TableTrace
  <1>6. QED
    BY <1>2, <1>5 DEF Accumulating!Trace, Accumulated

\* out is what comes of halving sh by these strides, one after the other.
Halved(k, sh, s, n, out) ==
    \E st : /\ st[0] = sh
            /\ \A i \in 1 .. n : st[i] = Halve(k, st[i - 1], s[i])
            /\ out = st[n]

AllHalved(k, sh, s) == FoldLeft(LAMBDA a, st : Halve(k, a, st), sh, s)

\* A fold with Halve goes through its strides in order.
LEMMA HalvedTrace ==
    ASSUME NEW k, NEW sh, NEW s, NEW n \in Nat, DOMAIN s = 1 .. n
    PROVE  Halved(k, sh, s, n, AllHalved(k, sh, s))
  <1> DEFINE g == CHOOSE g : Halving!IsTable(k, sh, s, n, g)
  <1>1. Halving!MxIsMax
    BY Zenon DEF Halving!MxIsMax, Max
  <1>2. AllHalved(k, sh, s) = g[DOMAIN s]
    BY DEF AllHalved, FoldLeft, MapThenFoldSet, Halving!IsTable, Halving!Table
  <1>3. \E h : Halving!IsTable(k, sh, s, n, h)
    BY <1>1, Halving!TableExists
  <1>4. Halving!IsTable(k, sh, s, n, g)
    BY <1>3
  <1> HIDE DEF g
  <1>5. Halving!Trace(k, sh, s, n, g[1 .. n])
    BY <1>1, <1>4, Halving!TableTrace
  <1>6. QED
    BY <1>2, <1>5 DEF Halving!Trace, Halved

\* A program of one operation.
LEMMA ExecuteOne ==
    ASSUME NEW p, NEW o, p.ops = <<o>>, NEW seed
    PROVE  Execute(p, seed) = Apply(p, HostInput(p, seed), o)
  <1> DEFINE g == CHOOSE g : Applying!IsTable(p, HostInput(p, seed), p.ops, 1, g)
  <1>0. DOMAIN p.ops = 1 .. 1 /\ p.ops[1] = o
    OBVIOUS
  <1>1. Applying!MxIsMax
    BY Zenon DEF Applying!MxIsMax, Max
  <1>2. Execute(p, seed) = g[DOMAIN p.ops]
    BY <1>0 DEF Execute, FoldLeft, MapThenFoldSet, Applying!IsTable, Applying!Table
  <1>3. \E h : Applying!IsTable(p, HostInput(p, seed), p.ops, 1, h)
    BY <1>1, Applying!TableExists
  <1>4. Applying!IsTable(p, HostInput(p, seed), p.ops, 1, g)
    BY <1>3
  <1> HIDE DEF g
  <1>5. Applying!Trace(p, HostInput(p, seed), p.ops, 1, g[1 .. 1])
    BY <1>1, <1>4, Applying!TableTrace
  <1>6. PICK st : st[0] = HostInput(p, seed) /\ st[1] = Apply(p, st[1 - 1], p.ops[1]) /\ g[1 .. 1] = st[1]
    BY <1>5 DEF Applying!Trace
  <1>7. QED
    BY <1>0, <1>2, <1>6

(* ------------------------- rounding and inputs ------------------------- *)
FitsUnit(mag, k) == mag < TwoTo[FloatBits + k] /\ (k = 0 \/ mag >= TwoTo[FloatBits + k - 1])

\* There is a unit for every magnitude.
LEMMA UnitFits ==
    ASSUME NEW mag \in Nat
    PROVE  \E k \in Nat : FitsUnit(mag, k) /\ FloatUnit(mag) = TwoTo[k] /\ (mag = 0 => k = 0)
  <1>0. FloatBits \in Nat
    BY CpuAssumption
  <1>1. \E k \in 0 .. mag : FitsUnit(mag, k)
    <2> SUFFICES ASSUME \A k \in 0 .. mag : ~FitsUnit(mag, k) PROVE FALSE
      OBVIOUS
    <2> DEFINE S == {k \in Nat : k <= mag => mag >= TwoTo[FloatBits + k]}
    <2>1. 0 \in S
      <3>1. FloatBits + 0 \in Nat /\ 0 \in 0 .. mag
        BY <1>0
      <3>2. TwoTo[FloatBits + 0] \in Nat
        BY <3>1, TwoToPositive
      <3>3. QED
        BY <3>1, <3>2 DEF FitsUnit
    <2>2. ASSUME NEW k \in Nat, k \in S PROVE k + 1 \in S
      <3> SUFFICES ASSUME k + 1 <= mag PROVE mag >= TwoTo[FloatBits + (k + 1)]
        OBVIOUS
      <3>1. FloatBits + (k + 1) \in Nat /\ FloatBits + (k + 1) - 1 = FloatBits + k /\ k + 1 \in 0 .. mag
        BY <1>0
      <3>2. TwoTo[FloatBits + (k + 1)] \in Nat
        BY <3>1, TwoToPositive
      <3>3. mag >= TwoTo[FloatBits + (k + 1) - 1]
        BY <2>2, <3>1
      <3>4. QED
        BY <3>1, <3>2, <3>3 DEF FitsUnit
    <2>3. Nat \subseteq S
      <3> HIDE DEF S
      <3>1. QED
        BY <2>1, <2>2, Folded!SetInduction
    <2>4. mag >= TwoTo[FloatBits + mag]
      BY <2>3
    <2>5. PICK n \in Nat : n = FloatBits + mag /\ mag <= n
      BY <1>0
    <2>6. TwoTo[n] \in Nat /\ n < TwoTo[n]
      BY TwoToStep
    <2>7. QED
      BY <2>4, <2>5, <2>6
  <1>2. PICK k : k = CHOOSE j \in 0 .. mag : FitsUnit(mag, j)
    OBVIOUS
  <1>3. k \in 0 .. mag /\ FitsUnit(mag, k)
    BY <1>1, <1>2
  <1>4. FloatUnit(mag) = TwoTo[k]
    BY <1>2 DEF FloatUnit, FitsUnit
  <1>5. QED
    BY <1>3, <1>4

\* The unit is a positive number.
LEMMA FloatUnitIs ==
    ASSUME NEW mag \in Nat
    PROVE  FloatUnit(mag) \in Nat /\ FloatUnit(mag) > 0 /\ (mag = 0 => FloatUnit(mag) = 1)
  <1>1. PICK k \in Nat : FloatUnit(mag) = TwoTo[k] /\ (mag = 0 => k = 0)
    BY UnitFits
  <1>2. TwoTo[k] \in Nat /\ TwoTo[k] > 0 /\ TwoTo[0] = 1
    BY TwoToPositive, TwoToStep
  <1>3. QED
    BY <1>1, <1>2

\* Rounding keeps a double a double, and a zero zero.
LEMMA RoundIs ==
    ASSUME NEW x \in Doubles, NEW dt
    PROVE  Round(x, dt) \in Doubles /\ (x.mag = 0 => Round(x, dt).mag = 0)
  <1>1. CASE dt # "F32"
    BY <1>1 DEF Round
  <1>2. CASE dt = "F32"
    <2>1. PICK mag \in Nat : mag = x.mag
      BY DEF Doubles
    <2>2. PICK u \in Nat : u = FloatUnit(mag) /\ u > 0 /\ (mag = 0 => u = 1)
      BY FloatUnitIs
    <2>3. PICK q \in Nat, r \in Nat : q = mag \div u /\ r = mag % u /\ (mag = 0 => q = 0 /\ r = 0)
      <3>1. mag \div u \in Nat /\ mag % u \in Nat
        BY <2>2
      <3>2. mag = 0 => mag \div u = 0 /\ mag % u = 0
        BY <2>2
      <3>3. QED
        BY <3>1, <3>2
    <2>4. PICK up : up = (2 * r > u \/ (2 * r = u /\ q % 2 = 1))
      OBVIOUS
    <2>5. Round(x, dt) = [x EXCEPT !.mag = u * (IF up THEN q + 1 ELSE q)]
      BY <1>2, <2>1, <2>2, <2>3, <2>4 DEF Round
    <2>6. PICK w : w = u * (IF up THEN q + 1 ELSE q)
      OBVIOUS
    <2>7. w \in Nat
      <3>1. u * (q + 1) \in Nat /\ u * q \in Nat
        OBVIOUS
      <3>2. QED
        BY <2>6, <3>1
    <2>8. mag = 0 => w = 0
      <3> SUFFICES ASSUME mag = 0 PROVE w = 0
        OBVIOUS
      <3>1. u = 1 /\ q = 0 /\ r = 0
        BY <2>2, <2>3
      <3>2. ~(2 * r > u) /\ 2 * r # u
        BY <3>1
      <3>3. ~up
        BY <2>4, <3>2
      <3>4. u * q = 0
        BY <3>1
      <3>5. QED
        BY <2>6, <3>3, <3>4
    <2>9. QED
      BY <2>1, <2>5, <2>6, <2>7, <2>8 DEF Doubles
  <1>3. QED
    BY <1>1, <1>2

\* Equal values round to equal values, for either zero.
LEMMA RoundSame ==
    ASSUME NEW x \in Doubles, NEW y \in Doubles, Value(x) = Value(y), NEW dt
    PROVE  Value(Round(x, dt)) = Value(Round(y, dt))
  <1>1. x.mag \in Nat /\ y.mag \in Nat /\ x.neg \in BOOLEAN /\ y.neg \in BOOLEAN
    BY DEF Doubles
  <1>2. CASE x.mag = 0
    <2>1. y.mag = 0
      BY <1>1, <1>2 DEF Value
    <2>2. Round(x, dt).mag = 0 /\ Round(y, dt).mag = 0
      BY <1>2, <2>1, RoundIs
    <2>3. QED
      BY <2>2 DEF Value
  <1>3. CASE x.mag # 0
    <2>1. x.mag = y.mag
      BY <1>1 DEF Value
    <2>2. x.neg <=> y.neg
      BY <1>1, <1>3, <2>1 DEF Value
    <2>3. x.neg = y.neg
      BY <1>1, <2>2
    <2>4. x = y
      BY <2>1, <2>3 DEF Doubles
    <2>5. QED
      BY <2>4
  <1>4. QED
    BY <1>2, <1>3

\* A whole number of units, at most as many as a float can count, is a whole number of
\* the units of its own magnitude.
LEMMA UnitDivides ==
    ASSUME NEW k \in Nat, NEW c \in Nat, c <= TwoTo[FloatBits], NEW w \in Nat, w = TwoTo[k] * c
    PROVE  \E d \in Nat : w = FloatUnit(w) * d
  <1>0. PICK fb \in Nat, f \in Nat : fb = FloatBits /\ fb = 1 + f
    <2>1. FloatBits \in Nat /\ FloatBits - 1 \in Nat /\ FloatBits = 1 + (FloatBits - 1)
      BY CpuAssumption
    <2>2. QED
      BY <2>1
  <1>1. PICK j \in Nat : FitsUnit(w, j) /\ FloatUnit(w) = TwoTo[j]
    BY UnitFits
  <1>2. CASE j <= k
    <2>1. PICK e \in Nat : k = j + e
      <3>1. k - j \in Nat /\ k = j + (k - j)
        BY <1>2
      <3>2. QED
        BY <3>1
    <2>2. PICK x \in Nat, y \in Nat : x = TwoTo[j] /\ y = TwoTo[e] /\ TwoTo[k] = x * y
      <3>1. TwoTo[j + e] = TwoTo[j] * TwoTo[e] /\ TwoTo[j] \in Nat /\ TwoTo[e] \in Nat
        BY TwoToPositive, TwoToSum
      <3>2. QED
        BY <2>1, <3>1
    <2>3. (x * y) * c = x * (y * c) /\ y * c \in Nat
      OBVIOUS
    <2>4. QED
      BY <1>1, <2>2, <2>3
  <1>3. CASE j > k
    <2>1. PICK e \in Nat : j = (k + 1) + e
      <3>1. j - (k + 1) \in Nat /\ j = (k + 1) + (j - (k + 1))
        BY <1>3
      <3>2. QED
        BY <3>1
    <2>2. PICK z \in Nat : z = fb + k
      OBVIOUS
    <2>3. w >= TwoTo[z + e]
      <3>1. j # 0 /\ FloatBits + j - 1 = z + e
        BY <1>0, <2>1, <2>2
      <3>2. QED
        BY <1>1, <3>1 DEF FitsUnit
    <2>4. PICK x \in Nat, y \in Nat, t \in Nat : x = TwoTo[z] /\ y = TwoTo[e] /\ t = TwoTo[k] /\ x > 0 /\ e < y
      BY TwoToPositive, TwoToStep
    <2>5. TwoTo[z + e] = x * y
      BY <2>4, TwoToSum
    <2>6. w <= x
      <3>1. PICK g \in Nat : g = TwoTo[fb] /\ c <= g
        BY <1>0, TwoToPositive
      <3>2. x = g * t
        BY <2>2, <2>4, <3>1, TwoToSum
      <3>3. t * c <= g * t
        BY <3>1
      <3>4. QED
        BY <2>4, <3>2, <3>3
    <2>7. y = 1
      <3>1. x * y <= x
        BY <2>3, <2>5, <2>6
      <3>2. y >= 2 => x * y >= x + x
        OBVIOUS
      <3>3. QED
        BY <2>4, <3>1, <3>2
    <2>8. e = 0 /\ w = x /\ j = k + 1
      <3>1. x * y = x
        BY <2>4, <2>7
      <3>2. QED
        BY <2>1, <2>3, <2>4, <2>5, <2>6, <2>7, <3>1
    <2>9. z = j + f
      BY <1>0, <2>2, <2>8
    <2>10. TwoTo[z] = TwoTo[j] * TwoTo[f] /\ TwoTo[f] \in Nat
      BY <2>9, TwoToSum, TwoToPositive
    <2>11. QED
      BY <1>1, <2>4, <2>8, <2>10
  <1>4. QED
    BY <1>2, <1>3

\* What is a whole number of its units is not changed by rounding.
LEMMA RoundExact ==
    ASSUME NEW x \in Doubles, NEW d \in Nat, x.mag = FloatUnit(x.mag) * d, NEW dt
    PROVE  Round(x, dt) = x
  <1>1. CASE dt # "F32"
    BY <1>1 DEF Round
  <1>2. CASE dt = "F32"
    <2>1. PICK mag \in Nat : mag = x.mag
      BY DEF Doubles
    <2>2. PICK u \in Nat : u = FloatUnit(mag) /\ u > 0
      BY FloatUnitIs
    <2>3. mag = u * d
      BY <2>1, <2>2
    <2>4. PICK q \in Nat, r \in Nat : q = mag \div u /\ r = mag % u /\ mag = u * q + r /\ r < u
      BY <2>2
    <2>5. q = d /\ r = 0
      <3>1. q > d => u * q >= u * d + u
        OBVIOUS
      <3>2. q < d => u * d >= u * q + u
        OBVIOUS
      <3>3. u * q \in Nat /\ u * d \in Nat
        OBVIOUS
      <3>4. q = d
        BY <2>3, <2>4, <3>1, <3>2, <3>3
      <3>5. QED
        BY <2>3, <2>4, <3>3, <3>4
    <2>6. PICK up : up = (2 * r > u \/ (2 * r = u /\ q % 2 = 1))
      OBVIOUS
    <2>7. ~up
      <3>1. ~(2 * r > u) /\ 2 * r # u
        BY <2>2, <2>5
      <3>2. QED
        BY <2>6, <3>1
    <2>8. Round(x, dt) = [x EXCEPT !.mag = u * (IF up THEN q + 1 ELSE q)]
      BY <1>2, <2>1, <2>2, <2>4, <2>6 DEF Round
    <2>9. u * (IF up THEN q + 1 ELSE q) = x.mag
      BY <2>1, <2>3, <2>5, <2>7
    <2>10. QED
      BY <2>8, <2>9 DEF Doubles
  <1>3. QED
    BY <1>1, <1>2

\* Rounding once is enough.
LEMMA RoundTwice ==
    ASSUME NEW x \in Doubles, NEW dt
    PROVE  Round(Round(x, dt), dt) = Round(x, dt)
  <1>1. CASE dt # "F32"
    BY <1>1 DEF Round
  <1>2. CASE dt = "F32"
    <2>1. PICK mag \in Nat : mag = x.mag
      BY DEF Doubles
    <2>2. PICK k \in Nat : FitsUnit(mag, k) /\ FloatUnit(mag) = TwoTo[k]
      BY UnitFits
    <2>3. PICK u \in Nat : u = TwoTo[k] /\ u > 0
      BY TwoToPositive
    <2>4. PICK g \in Nat : g = TwoTo[FloatBits] /\ mag < g * u
      <3>1. FloatBits \in Nat
        BY CpuAssumption
      <3>2. TwoTo[FloatBits + k] = TwoTo[FloatBits] * TwoTo[k] /\ TwoTo[FloatBits] \in Nat
        BY <3>1, TwoToSum, TwoToPositive
      <3>3. QED
        BY <2>2, <2>3, <3>2 DEF FitsUnit
    <2>5. PICK q \in Nat, r \in Nat : q = mag \div u /\ r = mag % u /\ mag = u * q + r /\ r < u
      <3>1. u > 0
        BY <2>3
      <3>2. \E q \in Nat, r \in Nat : q = mag \div u /\ r = mag % u /\ mag = u * q + r /\ r < u
        BY <3>1
      <3>3. QED
        BY <3>2
    <2>6. q < g
      <3>1. q >= g => u * q >= g * u
        OBVIOUS
      <3>2. u * q \in Nat /\ g * u \in Nat
        OBVIOUS
      <3>3. PICK a \in Nat, b \in Nat : a = u * q /\ b = g * u
        BY <3>2
      <3>4. mag = a + r /\ mag < b /\ (q >= g => a >= b)
        BY <2>4, <2>5, <3>1, <3>3
      <3>5. QED
        BY <3>4
    <2>7. PICK up : up = (2 * r > u \/ (2 * r = u /\ q % 2 = 1))
      OBVIOUS
    <2>8. PICK c \in Nat : c = (IF up THEN q + 1 ELSE q) /\ c <= g
      BY <2>6
    <2>9. Round(x, dt) = [x EXCEPT !.mag = u * c]
      BY <1>2, <2>1, <2>2, <2>3, <2>5, <2>7, <2>8 DEF Round
    <2>10. PICK w \in Nat : w = u * c
      OBVIOUS
    <2>11. \E d \in Nat : w = FloatUnit(w) * d
      BY <2>3, <2>4, <2>8, <2>10, UnitDivides
    <2>12. PICK y \in Doubles : y = Round(x, dt)
      BY RoundIs
    <2>13. y.mag = w
      BY <2>9, <2>10, <2>12 DEF Doubles
    <2>14. QED
      BY <2>11, <2>12, <2>13, RoundExact
  <1>3. QED
    BY <1>1, <1>2

\* The doubles a datatype holds.
Kept(dt) == {x \in Doubles : Round(x, dt) = x}

\* Reductions that round nothing: the larger and the smaller of two floats are floats.
RoundsNothing(k) == k.op \in Reductions /\ (k.op # "sum" \/ k.dt # "F32")

\* Such a reduction combines the values of what it accumulates.
LEMMA AccumulateIs ==
    ASSUME NEW k, RoundsNothing(k), NEW x \in Kept(k.dt), NEW y \in Kept(k.dt)
    PROVE  /\ Accumulate(k, x, y) \in Kept(k.dt)
           /\ Value(Accumulate(k, x, y)) = Mix(k.op, Value(x), Value(y))
  <1>1. PICK z : z = Combine(k.op, x, y)
    OBVIOUS
  <1>2. z \in Doubles /\ Value(z) = Mix(k.op, Value(x), Value(y))
    BY <1>1, CombineIs DEF Kept, RoundsNothing
  <1>3. Round(z, k.dt) = z
    <2>1. CASE k.dt # "F32"
      BY <2>1 DEF Round
    <2>2. CASE k.op = "max"
      <3>1. z = x \/ z = y
        BY <1>1, <2>2 DEF Combine, Larger
      <3>2. QED
        BY <3>1 DEF Kept
    <2>3. CASE k.op = "min"
      <3>1. z = x \/ z = y
        BY <1>1, <2>3 DEF Combine, Smaller
      <3>2. QED
        BY <3>1 DEF Kept
    <2>4. QED
      BY <2>1, <2>2, <2>3 DEF RoundsNothing, Reductions
  <1>4. Accumulate(k, x, y) = z
    BY <1>1, <1>3 DEF Accumulate
  <1>5. QED
    BY <1>2, <1>3, <1>4 DEF Kept

\* hostInput() is a vector of the length asked for, of numbers its datatype holds.
LEMMA HostInputIs ==
    ASSUME NEW p, p.shapeN \in Nat, NEW seed \in Int
    PROVE  \E N \in Nat : /\ N > 0 /\ (p.shapeN # 0 => N = p.shapeN)
                          /\ DOMAIN HostInput(p, seed) = 1 .. N /\ Len(HostInput(p, seed)) = N
                          /\ \A i \in 1 .. N : HostInput(p, seed)[i] \in Kept(p.datatype)
  <1> DEFINE v(i) == IF seed % 2 = 0 THEN seed + 3 * i ELSE seed - 3 * i
  <1>1. PICK N \in Nat : N > 0 /\ N = IF p.shapeN = 0 THEN DefaultShape ELSE p.shapeN
    BY CpuAssumption
  <1>2. HostInput(p, seed) = [i \in 1 .. N |-> Round(Double(v(i)), p.datatype)]
    BY <1>1 DEF HostInput
  <1>3. ASSUME NEW i \in 1 .. N PROVE Round(Double(v(i)), p.datatype) \in Kept(p.datatype)
    <2>1. PICK x \in Int : x = v(i)
      <3>1. seed + 3 * i \in Int /\ seed - 3 * i \in Int
        OBVIOUS
      <3>2. QED
        BY <3>1
    <2> HIDE DEF v
    <2>2. Double(x) \in Doubles
      BY DoubleIs
    <2>3. QED
      BY <2>1, <2>2, RoundIs, RoundTwice DEF Kept
  <1> HIDE DEF v
  <1>4. Len(HostInput(p, seed)) = N
    BY <1>2
  <1>5. QED
    BY <1>1, <1>2, <1>3, <1>4

(* ------------------------- the two reductions -------------------------- *)
\* f holds the values of the first n doubles of s.
ValuesOf(f, s, n) == \A i \in 1 .. n : s[i] \in Doubles /\ f[i] = Value(s[i])

\* The values of doubles are whole numbers.
LEMMA ValuesAreNumbers ==
    ASSUME NEW f, NEW s, NEW n, ValuesOf(f, s, n) PROVE Numbers(f, n)
  BY ValueIs DEF ValuesOf, Numbers

\* st holds what comes of combining the first doubles of s, one after the other.
CombinesInto(op, s, n, st) ==
    /\ st[0] \in Doubles
    /\ \A i \in 1 .. n : s[i] \in Doubles /\ st[i] = Combine(op, st[i - 1], s[i])

\* Combining doubles one after the other combines their values.
LEMMA CombinedIs ==
    ASSUME NEW op \in Reductions, NEW n \in Nat, NEW s, NEW st, CombinesInto(op, s, n, st)
    PROVE  /\ \A i \in 0 .. n : st[i] \in Doubles
           /\ \A i \in 1 .. n : Value(st[i]) = Mix(op, Value(st[i - 1]), Value(s[i]))
  <1> USE DEF CombinesInto
  <1> DEFINE S == {i \in Nat : i <= n => st[i] \in Doubles}
  <1>1. 0 \in S
    OBVIOUS
  <1>2. ASSUME NEW i \in Nat, i \in S PROVE i + 1 \in S
    <2> SUFFICES ASSUME i + 1 <= n PROVE st[i + 1] \in Doubles
      OBVIOUS
    <2>1. i + 1 \in 1 .. n /\ (i + 1) - 1 = i /\ st[i] \in Doubles /\ s[i + 1] \in Doubles
      BY <1>2
    <2>2. st[i + 1] = Combine(op, st[i], s[i + 1])
      BY <2>1
    <2>3. QED
      BY <2>1, <2>2, CombineIs
  <1>3. Nat \subseteq S
    <2> HIDE DEF S
    <2>1. QED
      BY <1>1, <1>2, Folded!SetInduction
  <1>4. \A i \in 0 .. n : st[i] \in Doubles
    BY <1>3
  <1> HIDE DEF S
  <1>5. ASSUME NEW i \in 1 .. n PROVE Value(st[i]) = Mix(op, Value(st[i - 1]), Value(s[i]))
    <2>1. st[i - 1] \in Doubles /\ s[i] \in Doubles /\ st[i] = Combine(op, st[i - 1], s[i])
      BY <1>4
    <2>2. QED
      BY <2>1, CombineIs
  <1>6. QED
    BY <1>4, <1>5

\* execute() combines every element once.
LEMMA ReduceIs ==
    ASSUME NEW o, o.kind \in Reductions, NEW s, NEW n \in Nat, n > 0, DOMAIN s = 1 .. n,
           NEW f, ValuesOf(f, s, n)
    PROVE  Reduce(o, s) \in Doubles /\ Value(Reduce(o, s)) = Total(o.kind, f, n)
  <1>1. PICK op \in Reductions : op = o.kind
    OBVIOUS
  <1>2. PICK b : b = IF op = "sum" THEN Double(0) ELSE s[1]
    OBVIOUS
  <1>3. Reduce(o, s) = AllCombined(op, b, s)
    <2>1. Reduce(o, s) = AllCombined(o.kind, IF o.kind = "sum" THEN Double(0) ELSE s[1], s)
      BY DEF Reduce, AllCombined
    <2>2. QED
      BY <1>1, <1>2, <2>1
  <1>4. PICK st : /\ st[0] = b
                  /\ \A i \in 1 .. n : st[i] = Combine(op, st[i - 1], s[i])
                  /\ Reduce(o, s) = st[n]
    <2>1. Combined(op, b, s, n, Reduce(o, s))
      BY <1>3, CombinedTrace
    <2>2. QED
      BY <2>1 DEF Combined
  <1>5. b \in Doubles /\ \A i \in 1 .. n : s[i] \in Doubles /\ f[i] = Value(s[i]) /\ f[i] \in Int
    BY <1>2, DoubleIs, ValueIs DEF ValuesOf
  <1>6. /\ \A i \in 0 .. n : st[i] \in Doubles
        /\ \A i \in 1 .. n : Value(st[i]) = Mix(op, Value(st[i - 1]), Value(s[i]))
    <2>1. CombinesInto(op, s, n, st)
      BY <1>4, <1>5 DEF CombinesInto
    <2>2. QED
      BY <2>1, CombinedIs
  <1>7. Value(st[1]) = f[1]
    <2>1. 1 \in 1 .. n /\ 1 - 1 = 0
      OBVIOUS
    <2>2. Value(st[1]) = Mix(op, Value(b), f[1]) /\ f[1] \in Int /\ f[1] = Value(s[1])
      BY <1>4, <1>5, <1>6, <2>1
    <2>3. CASE op = "sum"
      <3>1. Value(b) = 0
        BY <1>2, <2>3, DoubleIs
      <3>2. QED
        BY <2>2, <2>3, <3>1 DEF Mix
    <2>4. CASE op # "sum"
      <3>1. Value(b) = f[1]
        BY <1>2, <2>2, <2>4
      <3>2. QED
        BY <2>2, <2>4, <3>1 DEF Mix, Reductions
    <2>5. QED
      BY <2>3, <2>4
  <1> DEFINE S == {i \in Nat : i \in 1 .. n => Value(st[i]) = Total(op, f, i)}
  <1>8. 0 \in S
    OBVIOUS
  <1>9. ASSUME NEW i \in Nat, i \in S PROVE i + 1 \in S
    <2> SUFFICES ASSUME i + 1 <= n PROVE Value(st[i + 1]) = Total(op, f, i + 1)
      OBVIOUS
    <2>1. CASE i = 0
      BY <1>7, <2>1, TotalStep
    <2>2. CASE i > 0
      <3>1. i + 1 \in 1 .. n /\ (i + 1) - 1 = i /\ Value(st[i]) = Total(op, f, i)
        BY <1>9, <2>2
      <3>2. Value(st[i + 1]) = Mix(op, Value(st[i]), f[i + 1])
        BY <1>5, <1>6, <3>1
      <3>3. Total(op, f, i + 1) = Mix(op, Total(op, f, i), f[i + 1])
        BY <2>2, TotalStep
      <3>4. QED
        BY <3>1, <3>2, <3>3
    <2>3. QED
      BY <2>1, <2>2
  <1>10. Nat \subseteq S
    <2> HIDE DEF S
    <2>1. QED
      BY <1>8, <1>9, Folded!SetInduction
  <1>11. n \in 1 .. n /\ n \in 0 .. n
    OBVIOUS
  <1>12. Value(st[n]) = Total(op, f, n)
    BY <1>10, <1>11
  <1> HIDE DEF S
  <1>13. QED
    BY <1>1, <1>4, <1>6, <1>11, <1>12

\* f holds the values of the first n elements of s, numbers the kernel's type holds.
KeptValues(k, f, s, n) == \A i \in 1 .. n : s[i] \in Kept(k.dt) /\ f[i] = Value(s[i])

\* They are the values of doubles.
LEMMA KeptAreValues ==
    ASSUME NEW k, NEW f, NEW s, NEW n, KeptValues(k, f, s, n)
    PROVE  ValuesOf(f, s, n) /\ Numbers(f, n)
  <1>1. ValuesOf(f, s, n)
    BY DEF KeptValues, ValuesOf, Kept
  <1>2. QED
    BY <1>1, ValuesAreNumbers

\* st holds what comes of accumulating the first elements of s, one after the other.
AccumulatesInto(k, s, n, st) ==
    /\ st[0] \in Kept(k.dt)
    /\ \A i \in 1 .. n : s[i] \in Kept(k.dt) /\ st[i] = Accumulate(k, st[i - 1], s[i])

\* Where nothing is rounded, accumulating combines the values.
LEMMA AccumulatedIs ==
    ASSUME NEW k, RoundsNothing(k), NEW n \in Nat, NEW s, NEW st, AccumulatesInto(k, s, n, st)
    PROVE  /\ \A i \in 0 .. n : st[i] \in Kept(k.dt)
           /\ \A i \in 1 .. n : Value(st[i]) = Mix(k.op, Value(st[i - 1]), Value(s[i]))
  <1> USE DEF AccumulatesInto
  <1> DEFINE S == {i \in Nat : i <= n => st[i] \in Kept(k.dt)}
  <1>1. 0 \in S
    OBVIOUS
  <1>2. ASSUME NEW i \in Nat, i \in S PROVE i + 1 \in S
    <2> SUFFICES ASSUME i + 1 <= n PROVE st[i + 1] \in Kept(k.dt)
      OBVIOUS
    <2>1. i + 1 \in 1 .. n /\ (i + 1) - 1 = i /\ st[i] \in Kept(k.dt) /\ s[i + 1] \in Kept(k.dt)
      BY <1>2
    <2>2. st[i + 1] = Accumulate(k, st[i], s[i + 1])
      BY <2>1
    <2>3. QED
      BY <2>1, <2>2, AccumulateIs
  <1>3. Nat \subseteq S
    <2> HIDE DEF S
    <2>1. QED
      BY <1>1, <1>2, Folded!SetInduction
  <1>4. \A i \in 0 .. n : st[i] \in Kept(k.dt)
    BY <1>3
  <1> HIDE DEF S
  <1>5. ASSUME NEW i \in 1 .. n PROVE Value(st[i]) = Mix(k.op, Value(st[i - 1]), Value(s[i]))
    <2>1. st[i - 1] \in Kept(k.dt) /\ s[i] \in Kept(k.dt) /\ st[i] = Accumulate(k, st[i - 1], s[i])
      BY <1>4
    <2>2. QED
      BY <2>1, AccumulateIs
  <1>6. QED
    BY <1>4, <1>5

\* As many further elements as fit.
LEMMA FitsIn ==
    ASSUME NEW b \in Nat, b > 0, NEW r \in Nat, NEW q \in Nat
    PROVE  /\ r \div b \in Nat
           /\ q <= r \div b <=> q * b <= r
           /\ r \div b <= r
  <1>1. PICK k \in Nat, d \in Nat : k = r \div b /\ r = k * b + d /\ d < b
    OBVIOUS
  <1>2. q <= k => q * b <= k * b
    OBVIOUS
  <1>3. q > k => q * b >= (k + 1) * b
    OBVIOUS
  <1>4. (k + 1) * b = k * b + b /\ k <= k * b /\ k * b \in Nat /\ q * b \in Nat
    OBVIOUS
  <1>5. QED
    BY <1>1, <1>2, <1>3, <1>4

\* What the threads of a block have accumulated before the halving.
LEMMA StridedIs ==
    ASSUME NEW c, RoundsNothing(c), NEW in, NEW b \in Nat, b > 0, NEW k \in Nat,
           Len(in) = b + k, NEW f, KeptValues(c, f, in, b + k)
    PROVE  \E v : /\ KeptValues(c, v, Strided(c, in, b), b)
                  /\ DOMAIN Strided(c, in, b) = 1 .. b
                  /\ Total(c.op, v, b) = Total(c.op, f, b + k)
  <1> DEFINE K(t) == ((b + k) - t) \div b
             own(t) == [j \in 1 .. K(t) |-> in[t + j * b]]
             A(t) == CHOOSE st : /\ st[0] = in[t]
                                 /\ \A i \in 1 .. K(t) : st[i] = Accumulate(c, st[i - 1], own(t)[i])
                                 /\ Strided(c, in, b)[t] = st[K(t)]
  <1>0. \A t \in 1 .. b : (b + k) - t \in Nat /\ K(t) \in Nat
    <2>1. \A t \in 1 .. b : (b + k) - t \in Nat
      OBVIOUS
    <2>2. QED
      BY <2>1, FitsIn
  <1>1. ASSUME NEW t \in 1 .. b
        PROVE  /\ A(t)[0] = in[t]
               /\ \A i \in 1 .. K(t) : A(t)[i] = Accumulate(c, A(t)[i - 1], own(t)[i])
               /\ Strided(c, in, b)[t] = A(t)[K(t)]
    <2>1. Strided(c, in, b)[t] = AllAccumulated(c, in[t], own(t))
      BY DEF Strided, AllAccumulated
    <2>2. DOMAIN own(t) = 1 .. K(t) /\ K(t) \in Nat
      BY <1>0
    <2> HIDE DEF own, K
    <2>3. Accumulated(c, in[t], own(t), K(t), AllAccumulated(c, in[t], own(t)))
      BY <2>2, AccumulatedTrace
    <2>4. \E st : /\ st[0] = in[t]
                  /\ \A i \in 1 .. K(t) : st[i] = Accumulate(c, st[i - 1], own(t)[i])
                  /\ Strided(c, in, b)[t] = st[K(t)]
      BY <2>1, <2>3 DEF Accumulated
    <2>5. QED
      BY <2>4, Zenon
  <1>2. ASSUME NEW t \in 1 .. b, NEW j \in 1 .. K(t)
        PROVE  t + j * b \in 1 .. b + k /\ own(t)[j] = in[t + j * b]
    <2>0. PICK r \in Nat : r = (b + k) - t
      BY <1>0
    <2>1. j * b <= (b + k) - t
      <3>1. j \in Nat /\ j <= r \div b
        BY <1>0, <2>0
      <3>2. QED
        BY <2>0, <3>1, FitsIn
    <2>2. j * b \in Nat
      BY <1>0
    <2>3. QED
      BY <2>1, <2>2
  <1> HIDE DEF A
  <1>3. ASSUME NEW t \in 1 .. b
        PROVE  /\ \A i \in 0 .. K(t) : A(t)[i] \in Kept(c.dt)
               /\ \A i \in 1 .. K(t) : Value(A(t)[i]) = Mix(c.op, Value(A(t)[i - 1]), f[t + i * b])
    <2>1. in[t] \in Kept(c.dt) /\ K(t) \in Nat
      BY <1>0 DEF KeptValues
    <2>2. \A i \in 1 .. K(t) : own(t)[i] \in Kept(c.dt) /\ Value(own(t)[i]) = f[t + i * b]
      <3> HIDE DEF own, K
      <3>1. QED
        BY <1>2 DEF KeptValues
    <2> HIDE DEF own, K
    <2>3. PICK st, s, n : st = A(t) /\ s = own(t) /\ n = K(t)
      OBVIOUS
    <2>4. /\ n \in Nat
          /\ AccumulatesInto(c, s, n, st)
      BY <1>1, <2>1, <2>2, <2>3 DEF AccumulatesInto
    <2>5. /\ \A i \in 0 .. n : st[i] \in Kept(c.dt)
          /\ \A i \in 1 .. n : Value(st[i]) = Mix(c.op, Value(st[i - 1]), Value(s[i]))
      BY <2>4, AccumulatedIs
    <2>6. QED
      BY <2>2, <2>3, <2>5
  <1> DEFINE D == [t \in 1 .. b |-> [q \in 0 .. b + k |-> Value(A(t)[q])]]
             v == [t \in 1 .. b |-> Value(Strided(c, in, b)[t])]
  <1>4. \A t \in 1 .. b : \A q \in 0 .. b + k : D[t][q] = Value(A(t)[q])
    OBVIOUS
  <1>5. \A t \in 1 .. b : v[t] = Value(Strided(c, in, b)[t])
    OBVIOUS
  <1> HIDE DEF D, v
  <1>6. ASSUME NEW t \in 1 .. b
        PROVE  /\ D[t][0] = f[t]
               /\ \A q \in Nat : t + (q + 1) * b <= b + k =>
                      D[t][q + 1] = Mix(c.op, D[t][q], f[t + (q + 1) * b])
    <2>1. D[t][0] = f[t]
      BY <1>1, <1>4 DEF KeptValues
    <2>2. ASSUME NEW q \in Nat, t + (q + 1) * b <= b + k
          PROVE  D[t][q + 1] = Mix(c.op, D[t][q], f[t + (q + 1) * b])
      <3>1. PICK i \in Nat, z \in Nat : i = q + 1 /\ z = i * b
        OBVIOUS
      <3>2. z <= (b + k) - t
        BY <2>2, <3>1
      <3>3. i <= K(t) /\ K(t) <= (b + k) - t /\ K(t) \in Nat
        BY <1>0, <3>1, <3>2, FitsIn
      <3> HIDE DEF K
      <3>4. i \in 1 .. K(t) /\ i - 1 = q /\ i \in 0 .. b + k /\ q \in 0 .. b + k
        BY <3>1, <3>3
      <3>5. Value(A(t)[i]) = Mix(c.op, Value(A(t)[i - 1]), f[t + i * b])
        BY <1>3, <3>4
      <3>6. QED
        BY <1>4, <3>1, <3>4, <3>5
    <2>3. QED
      BY <2>1, <2>2
  <1>7. Strides(c.op, f, b, b + k, D)
    BY <1>6 DEF Strides
  <1>8. (\A t \in 1 .. b : Strided(c, in, b)[t] \in Kept(c.dt)) /\ LastOf(v, D, b, b + k)
    <2> SUFFICES ASSUME NEW t \in 1 .. b
                 PROVE  Strided(c, in, b)[t] \in Kept(c.dt) /\ v[t] = D[t][K(t)]
      BY DEF LastOf
    <2>1. K(t) \in Nat /\ K(t) <= (b + k) - t
      BY <1>0, FitsIn
    <2> HIDE DEF K
    <2>2. K(t) \in 0 .. K(t) /\ K(t) \in 0 .. b + k
      BY <2>1
    <2>3. QED
      BY <1>1, <1>3, <1>4, <1>5, <2>2
  <1>9. Numbers(f, b + k)
    BY KeptAreValues
  <1>10. Total(c.op, v, b) = Total(c.op, f, b + k)
    <2>1. PICK E, u, N : E = D /\ u = v /\ N = b + k /\ N \in Nat /\ N >= b
      OBVIOUS
    <2>2. Strides(c.op, f, b, N, E) /\ LastOf(u, E, b, N) /\ Numbers(f, N)
      BY <1>7, <1>8, <1>9, <2>1
    <2>3. Numbers(u, b) /\ Total(c.op, u, b) = Total(c.op, f, N)
      BY <2>1, <2>2, TotalStrided DEF RoundsNothing
    <2>4. QED
      BY <2>1, <2>3
  <1>11. DOMAIN Strided(c, in, b) = 1 .. b
    BY DEF Strided
  <1>12. KeptValues(c, v, Strided(c, in, b), b)
    BY <1>5, <1>8 DEF KeptValues
  <1>13. QED
    BY <1>10, <1>11, <1>12

\* The strides of a block of 2^m threads.
LEMMA HalvesAre ==
    ASSUME NEW m \in Nat
    PROVE  DOMAIN Halves(TwoTo[m]) = 1 .. m /\ \A i \in 1 .. m : Halves(TwoTo[m])[i] = TwoTo[m - i]
  <1>1. PICK b \in Nat : b = TwoTo[m] /\ m < b
    BY TwoToStep
  <1>2. ASSUME NEW k \in Nat, k <= m
        PROVE  /\ TwoTo[k] \in Nat /\ TwoTo[k] > 0 /\ TwoTo[m - k] \in Nat
               /\ b = TwoTo[m - k] * TwoTo[k] /\ TwoTo[k] <= b
    <2>1. PICK j \in Nat : j = m - k /\ m = j + k /\ m = k + j
      <3>1. m - k \in Nat /\ m = (m - k) + k /\ m = k + (m - k)
        BY <1>2
      <3>2. QED
        BY <3>1
    <2>2. TwoTo[j + k] = TwoTo[j] * TwoTo[k] /\ TwoTo[k] <= TwoTo[k + j]
      BY TwoToSum
    <2>3. TwoTo[k] \in Nat /\ TwoTo[j] \in Nat /\ k < TwoTo[k]
      BY TwoToStep
    <2>4. QED
      BY <1>1, <2>1, <2>2, <2>3
  <1>3. ASSUME NEW k \in Nat, k > m PROVE ~(TwoTo[k] <= b)
    <2>1. PICK j \in Nat : k = (m + 1) + j
      <3>1. k - (m + 1) \in Nat /\ k = (m + 1) + (k - (m + 1))
        BY <1>3
      <3>2. QED
        BY <3>1
    <2>2. m + 1 \in Nat
      OBVIOUS
    <2>3. TwoTo[m + 1] <= TwoTo[(m + 1) + j]
      BY <2>2, TwoToSum
    <2>4. TwoTo[m + 1] = 2 * b /\ TwoTo[k] \in Nat
      BY <1>1, TwoToStep
    <2>5. QED
      BY <1>1, <2>1, <2>3, <2>4
  <1>4. {k \in 1 .. b : TwoTo[k] <= b} = 1 .. m
    <2>1. ASSUME NEW k \in 1 .. b PROVE TwoTo[k] <= b <=> k <= m
      BY <1>2, <1>3
    <2>2. QED
      BY <1>1, <2>1
  <1>5. Cardinality(1 .. m) = m
    <2>1. Cardinality(1 .. m) = IF 1 > m THEN 0 ELSE m - 1 + 1
      BY FS_Interval
    <2>2. QED
      BY <2>1
  <1>6. Halves(b) = [i \in 1 .. m |-> b \div TwoTo[i]]
    BY <1>4, <1>5 DEF Halves
  <1>7. ASSUME NEW i \in 1 .. m PROVE b \div TwoTo[i] = TwoTo[m - i]
    <2>1. PICK d \in Nat, q \in Nat : d = TwoTo[i] /\ q = TwoTo[m - i] /\ d > 0 /\ b = q * d + 0
      BY <1>1, <1>2
    <2>2. b \div d = q
      BY <2>1, Folded!Division
    <2>3. QED
      BY <2>1, <2>2
  <1>8. QED
    BY <1>1, <1>6, <1>7

\* The first g = 2h positions hold the values v, and the first h can take the others in.
Halvable(c, sh, h, g, v) ==
    h > 0 /\ g = h + h /\ 1 .. h \subseteq DOMAIN sh /\ KeptValues(c, v, sh, g)

\* One halving keeps the total.
LEMMA HalveKeepsTotal ==
    ASSUME NEW c, RoundsNothing(c), NEW h \in Nat, NEW g \in Nat, NEW sh, NEW v, Halvable(c, sh, h, g, v)
    PROVE  \E w : KeptValues(c, w, Halve(c, sh, h), h) /\ Total(c.op, w, h) = Total(c.op, v, g)
  <1> USE DEF Halvable
  <1> DEFINE w == [t \in 1 .. h |-> Mix(c.op, v[t], v[t + h])]
  <1>1. \A t \in 1 .. h : w[t] = Mix(c.op, v[t], v[t + h])
    OBVIOUS
  <1> HIDE DEF w
  <1>2. ASSUME NEW t \in 1 .. h
        PROVE  Halve(c, sh, h)[t] \in Kept(c.dt) /\ w[t] = Value(Halve(c, sh, h)[t])
    <2>1. t \in 1 .. g /\ t + h \in 1 .. g /\ t \in DOMAIN sh /\ t <= h
      OBVIOUS
    <2>2. sh[t] \in Kept(c.dt) /\ sh[t + h] \in Kept(c.dt) /\ v[t] = Value(sh[t]) /\ v[t + h] = Value(sh[t + h])
      BY <2>1 DEF KeptValues
    <2>3. Halve(c, sh, h)[t] = Accumulate(c, sh[t], sh[t + h])
      BY <2>1 DEF Halve
    <2>4. QED
      BY <1>1, <2>2, <2>3, AccumulateIs
  <1>3. KeptValues(c, w, Halve(c, sh, h), h)
    BY <1>2 DEF KeptValues
  <1>4. Numbers(v, h + h)
    BY KeptAreValues
  <1>5. Total(c.op, w, h) = Total(c.op, v, h + h)
    BY <1>1, <1>4, TotalHalved DEF RoundsNothing
  <1>6. QED
    BY <1>3, <1>5

\* st holds the shared memory after each halving of a block of 2^m threads.
Halvings(c, m, st) == \A i \in 1 .. m : st[i] = Halve(c, st[i - 1], TwoTo[m - i])

\* After m halvings the first of 2^m positions holds the total.
LEMMA HalvingsKeepTotal ==
    ASSUME NEW c, RoundsNothing(c), NEW m \in Nat, NEW st, Halvings(c, m, st),
           DOMAIN st[0] = 1 .. TwoTo[m], NEW v, KeptValues(c, v, st[0], TwoTo[m])
    PROVE  st[m][1] \in Kept(c.dt) /\ Value(st[m][1]) = Total(c.op, v, TwoTo[m])
  <1>1. PICK b \in Nat : b = TwoTo[m]
    BY TwoToStep
  <1> DEFINE P(i) == /\ DOMAIN st[i] = 1 .. b
                     /\ \E w : /\ KeptValues(c, w, st[i], TwoTo[m - i])
                               /\ Total(c.op, w, TwoTo[m - i]) = Total(c.op, v, b)
             S == {i \in Nat : i <= m => P(i)}
  <1>2. 0 \in S
    BY <1>1
  <1>3. ASSUME NEW i \in Nat, i \in S PROVE i + 1 \in S
    <2> SUFFICES ASSUME i + 1 <= m PROVE P(i + 1)
      OBVIOUS
    <2>1. PICK w : KeptValues(c, w, st[i], TwoTo[m - i]) /\ Total(c.op, w, TwoTo[m - i]) = Total(c.op, v, b)
      BY <1>3
    <2>2. PICK j \in Nat : j = m - (i + 1) /\ m - i = j + 1 /\ m = j + (i + 1)
      <3>1. m - (i + 1) \in Nat /\ m - i = (m - (i + 1)) + 1 /\ m = (m - (i + 1)) + (i + 1)
        OBVIOUS
      <3>2. QED
        BY <3>1
    <2>3. PICK h \in Nat : h = TwoTo[j] /\ h > 0
      <3>1. TwoTo[j] \in Nat /\ TwoTo[j] > 0
        BY TwoToPositive
      <3>2. QED
        BY <3>1
    <2>4. PICK g \in Nat : g = TwoTo[m - i] /\ g = h + h
      <3>1. TwoTo[j + 1] = 2 * TwoTo[j]
        BY TwoToStep
      <3>2. TwoTo[m - i] \in Nat /\ TwoTo[m - i] = h + h
        BY <2>2, <2>3, <3>1
      <3>3. QED
        BY <3>2
    <2>5. h <= b
      <3>1. i + 1 \in Nat
        OBVIOUS
      <3>2. TwoTo[j] <= TwoTo[j + (i + 1)]
        BY <3>1, TwoToSum
      <3>3. QED
        BY <1>1, <2>2, <2>3, <3>2
    <2>6. st[i + 1] = Halve(c, st[i], h) /\ DOMAIN st[i] = 1 .. b
      <3>1. i + 1 \in 1 .. m /\ (i + 1) - 1 = i
        OBVIOUS
      <3>2. QED
        BY <1>3, <2>2, <2>3, <3>1 DEF Halvings
    <2>7. \E u : KeptValues(c, u, Halve(c, st[i], h), h) /\ Total(c.op, u, h) = Total(c.op, w, g)
      <3>1. PICK sh : sh = st[i]
        OBVIOUS
      <3>2. Halvable(c, sh, h, g, w)
        BY <2>1, <2>3, <2>4, <2>5, <2>6, <3>1 DEF Halvable
      <3> HIDE DEF P, S
      <3>3. \E u : KeptValues(c, u, Halve(c, sh, h), h) /\ Total(c.op, u, h) = Total(c.op, w, g)
        BY <3>2, HalveKeepsTotal
      <3>4. QED
        BY <3>1, <3>3
    <2>8. DOMAIN st[i + 1] = 1 .. b
      BY <2>6 DEF Halve
    <2>9. QED
      BY <2>1, <2>2, <2>3, <2>4, <2>6, <2>7, <2>8
  <1>4. Nat \subseteq S
    <2> HIDE DEF S
    <2>1. QED
      BY <1>2, <1>3, Folded!SetInduction
  <1>5. P(m)
    BY <1>4
  <1>6. TwoTo[m - m] = 1
    <2>1. m - m = 0
      OBVIOUS
    <2>2. QED
      BY <2>1, TwoToStep
  <1>7. PICK w : KeptValues(c, w, st[m], 1) /\ Total(c.op, w, 1) = Total(c.op, v, b)
    BY <1>5, <1>6
  <1>8. 1 \in 1 .. 1
    OBVIOUS
  <1>9. st[m][1] \in Kept(c.dt) /\ w[1] = Value(st[m][1])
    BY <1>7, <1>8 DEF KeptValues
  <1>10. QED
    BY <1>1, <1>7, <1>9, TotalStep DEF RoundsNothing

\* The kernel combines every element once, if the block is a power of two and nothing is rounded.
LEMMA KernelIs ==
    ASSUME NEW c, RoundsNothing(c), NEW in, NEW N \in Nat, Len(in) = N, NEW m \in Nat, TwoTo[m] <= N,
           NEW f, KeptValues(c, f, in, N)
    PROVE  /\ ReduceKernel(c, in, TwoTo[m])[1] \in Kept(c.dt)
           /\ Value(ReduceKernel(c, in, TwoTo[m])[1]) = Total(c.op, f, N)
  <1>1. PICK b \in Nat : b = TwoTo[m] /\ b > 0
    BY TwoToPositive
  <1>2. PICK k \in Nat : N = b + k
    <2>1. N - b \in Nat /\ N = b + (N - b)
      BY <1>1
    <2>2. QED
      BY <2>1
  <1>3. PICK sh : sh = Strided(c, in, b)
    OBVIOUS
  <1>4. PICK v : KeptValues(c, v, sh, b) /\ DOMAIN sh = 1 .. b /\ Total(c.op, v, b) = Total(c.op, f, N)
    BY <1>1, <1>2, <1>3, StridedIs
  <1>5. PICK s : s = Halves(b)
    OBVIOUS
  <1>6. DOMAIN s = 1 .. m /\ \A i \in 1 .. m : s[i] = TwoTo[m - i]
    BY <1>1, <1>5, HalvesAre
  <1>7. PICK st : /\ st[0] = sh /\ AllHalved(c, sh, s) = st[m]
                  /\ \A i \in 1 .. m : st[i] = Halve(c, st[i - 1], s[i])
    <2>1. Halved(c, sh, s, m, AllHalved(c, sh, s))
      BY <1>6, HalvedTrace
    <2>2. QED
      BY <2>1 DEF Halved
  <1>8. Halvings(c, m, st)
    BY <1>6, <1>7 DEF Halvings
  <1>9. st[m][1] \in Kept(c.dt) /\ Value(st[m][1]) = Total(c.op, v, TwoTo[m])
    <2>1. DOMAIN st[0] = 1 .. TwoTo[m] /\ KeptValues(c, v, st[0], TwoTo[m])
      BY <1>1, <1>4, <1>7
    <2>2. QED
      BY <1>8, <2>1, HalvingsKeepTotal
  <1>10. ReduceKernel(c, in, b) = <<AllHalved(c, Strided(c, in, b), Halves(b))[1]>>
    BY DEF ReduceKernel, AllHalved
  <1>11. ReduceKernel(c, in, b)[1] = st[m][1]
    BY <1>3, <1>5, <1>7, <1>10
  <1>12. QED
    BY <1>1, <1>4, <1>9, <1>11

(* ----------------------- what passed validation ------------------------ *)
\* What SpecOf() makes of a request: a whole record, of an operation that is no "nop",
\* marked as a reduction exactly when it is one.
SpecOk(s) ==
    /\ s = [op |-> s.op, reduce |-> s.reduce, n |-> s.n, scalar |-> s.scalar, dt |-> s.dt]
    /\ s.n \in Nat /\ s.op # "nop" /\ s.reduce \in BOOLEAN
    /\ s.reduce <=> s.op \in Reductions

\* Every specification derived from a request is of that shape.
LEMMA SpecOfOk == ASSUME NEW r \in CudaRequests PROVE SpecOk(SpecOf(r))
  <1>1. PICK p, op : p = ParseSource(r.source) /\ op = p.ops[Len(p.ops)]
    OBVIOUS
  <1>2. PICK base : base = IF ~p.ok THEN DefaultSpec
                ELSE [op |-> OpName(op.kind), scalar |-> op.scalar, reduce |-> op.kind \in Reductions]
    OBVIOUS
  <1>3. base.op # "nop" /\ base.reduce \in BOOLEAN /\ (base.reduce <=> base.op \in Reductions)
    <2>1. CASE ~p.ok
      BY <1>2, <2>1 DEF DefaultSpec, Reductions
    <2>2. CASE p.ok /\ op.kind \in Reductions
      <3>1. (op.kind \in Reductions) = TRUE
        BY <2>2
      <3>2. base = [op |-> OpName(op.kind), scalar |-> op.scalar, reduce |-> TRUE]
        BY <1>2, <2>2, <3>1
      <3>3. QED
        BY <2>2, <3>2 DEF OpName, Reductions
    <2>3. CASE p.ok /\ op.kind \notin Reductions
      <3>1. (op.kind \in Reductions) = FALSE
        BY <2>3
      <3>2. base = [op |-> OpName(op.kind), scalar |-> op.scalar, reduce |-> FALSE]
        BY <1>2, <2>3, <3>1
      <3>3. QED
        BY <2>3, <3>2 DEF OpName, Reductions
    <2>4. QED
      BY <2>1, <2>2, <2>3
  <1>4. PICK n : n = IF r.staticShape # <<>> THEN r.staticShape[1]
                     ELSE IF r.rank # 0 THEN r.rank ELSE DefaultShape
    OBVIOUS
  <1>5. n \in Nat
    <2>1. PICK shape \in Seq(Nat) : shape = r.staticShape
      BY CudaAssumption
    <2>2. shape # <<>> => shape[1] \in Nat
      OBVIOUS
    <2>3. r.rank \in Nat /\ DefaultShape \in Nat
      BY CudaAssumption, CpuAssumption
    <2>4. QED
      BY <1>4, <2>1, <2>2, <2>3
  <1>6. \E scalar, dt :
            SpecOf(r) = [op |-> base.op, reduce |-> base.reduce, n |-> n, scalar |-> scalar, dt |-> dt]
    BY <1>1, <1>2, <1>4 DEF SpecOf
  <1>7. QED
    BY <1>3, <1>5, <1>6 DEF SpecOk

\* What is compiled, validated or has been validated is a specification of that shape.
SpecInv ==
    /\ \A a \in artifacts : SpecOk(a.spec)
    /\ \A w \in CudaThreads : thread[w].in \in {"compiling", "validate"} => SpecOk(thread[w].a.spec)

\* Every step keeps it: only compile() makes specifications, and validate() keeps the
\* one it judged.
LEMMA SpecInvNext == HandleInv /\ SpecInv /\ [CudaNext]_cudaVars => SpecInv'
  <1> SUFFICES ASSUME HandleInv, SpecInv, [CudaNext]_cudaVars PROVE SpecInv'
    OBVIOUS
  <1>0. /\ thread = [v \in CudaThreads |-> thread[v]]
        /\ \A v \in CudaThreads : thread[v] = At(thread[v].in, thread[v].call, thread[v].release, thread[v].a)
    BY DEF HandleInv, ThreadInv
  <1>1. CASE UNCHANGED cudaVars \/ Ensure
    BY <1>1 DEF Ensure, cudaVars, SpecInv
  <1>2. ASSUME NEW w \in CudaThreads, NEW r \in CudaRequests, BeginCompile(w, r) PROVE SpecInv'
    <2>1. PICK a : a = [spec |-> SpecOf(r), of |-> r]
      OBVIOUS
    <2>2. thread' = [thread EXCEPT ![w] = At("compiling", 0, <<>>, a)] /\ artifacts' = artifacts
      BY <1>2, <2>1 DEF BeginCompile
    <2>3. SpecOk(a.spec)
      BY <2>1, SpecOfOk
    <2>4. thread'[w].a = a /\ \A v \in CudaThreads : v # w => thread'[v] = thread[v]
      BY <1>0, <2>2 DEF At
    <2>5. QED
      BY <2>2, <2>3, <2>4 DEF SpecInv
  <1>3. ASSUME NEW w \in CudaThreads,
               \/ CompileFails(w) \/ LoadReturns(w) \/ ReturnReleased(w)
               \/ \E a \in artifacts : BeginLoad(w, a)
               \/ \E id \in modules : DropModule(w, id)
        PROVE  SpecInv'
    <2>1. artifacts' = artifacts
      BY <1>3 DEF CompileFails, LoadReturns, ReturnReleased, BeginLoad, DropModule
    <2>2. PICK p, c, s, a : /\ thread' = [thread EXCEPT ![w] = At(p, c, s, a)]
                            /\ p \in {"idle", "load", "release"}
      BY <1>3 DEF CompileFails, LoadReturns, ReturnReleased, BeginLoad, DropModule, Leave, IdleThread
    <2>3. thread'[w].in = p /\ \A v \in CudaThreads : v # w => thread'[v] = thread[v]
      BY <1>0, <2>2 DEF At
    <2>4. QED
      BY <2>1, <2>2, <2>3 DEF SpecInv
  <1>4. ASSUME NEW w \in CudaThreads,
               Compiled(w) \/ CallSucceeds(w) \/ CallFails(w) \/ ReleaseOne(w)
        PROVE  SpecInv'
    <2>1. artifacts' = artifacts
      BY <1>4 DEF Compiled, CallSucceeds, CallFails, ReleaseOne
    <2>2. /\ thread'[w].a = thread[w].a
          /\ thread'[w].in \in {"compiling", "validate"} => thread[w].in \in {"compiling", "validate"}
          /\ \A v \in CudaThreads : v # w => thread'[v] = thread[v]
      <3>1. CASE Compiled(w)
        BY <1>0, <3>1 DEF Compiled, At
      <3>2. CASE CallSucceeds(w)
        BY <1>0, <3>2 DEF CallSucceeds, At
      <3>3. CASE CallFails(w)
        BY <1>0, <3>3 DEF CallFails, At
      <3>4. CASE ReleaseOne(w)
        BY <1>0, <3>4 DEF ReleaseOne, At
      <3>5. QED
        BY <1>4, <3>1, <3>2, <3>3, <3>4
    <2>3. QED
      BY <2>1, <2>2 DEF SpecInv
  <1>5. ASSUME NEW w \in CudaThreads, NEW launched \in BOOLEAN, NEW seed \in Seeds, Judged(w, launched, seed)
        PROVE  SpecInv'
    <2>1. thread[w].in = "validate" /\ artifacts' \subseteq artifacts \cup {thread[w].a}
      BY <1>5 DEF Judged
    <2>2. thread'[w].in = "release" /\ \A v \in CudaThreads : v # w => thread'[v] = thread[v]
      BY <1>0, <1>5 DEF Judged, At
    <2>3. QED
      BY <2>1, <2>2 DEF SpecInv
  <1>6. QED
    BY <1>1, <1>2, <1>3, <1>4, <1>5 DEF CudaNext

\* A thread per element computes what execute() computes per element.
LEMMA ElementwiseMatches ==
    ASSUME NEW a, SpecOk(a.spec), ~a.spec.reduce, Exact(a.spec), NEW seed \in Seeds
    PROVE  Matches(a, seed)
  <1>1. PICK op, n, scalar, dt : op = a.spec.op /\ n = a.spec.n /\ scalar = a.spec.scalar /\ dt = a.spec.dt
    OBVIOUS
  <1>2. PICK spec : spec = ParsedSpec(a.spec)
    OBVIOUS
  <1>3. spec.op = op /\ spec.scalar = scalar /\ ~spec.reduce /\ ScalarArgument(spec, dt) = scalar
    BY <1>1, <1>2 DEF ParsedSpec, SpecOk, Exact, ScalarArgument
  <1>4. op # "nop" /\ op \notin {"sum", "max", "min"} /\ n \in Nat
    BY <1>1 DEF SpecOk, Reductions
  <1>5. PICK o, p : /\ o = [kind |-> op, scalar |-> scalar, n |-> n]
                    /\ p = [shapeN |-> n, datatype |-> dt, ops |-> <<o>>]
    OBVIOUS
  <1>6. PICK in : in = HostInput([shapeN |-> n, datatype |-> dt], seed)
    OBVIOUS
  <1>7. HostInput(p, seed) = in
    BY <1>5, <1>6 DEF HostInput
  <1>8. Reference(spec, n, dt, seed) = Execute(p, seed)
    BY <1>3, <1>5 DEF Reference
  <1>9. Execute(p, seed) = Apply(p, in, o)
    <2>1. p.ops = <<o>>
      BY <1>5
    <2>2. QED
      BY <1>7, <2>1, ExecuteOne
  <1>10. Apply(p, in, o) = [i \in DOMAIN in |-> Round(Elementwise(o, in[i]), dt)]
    BY <1>4, <1>5 DEF Apply
  <1>11. \A x : Elementwise([kind |-> op, scalar |-> scalar], x) = Elementwise(o, x)
    BY <1>5 DEF Elementwise
  <1>12. Launched(spec, in, dt) =
             [i \in DOMAIN in |-> Round(Elementwise([kind |-> op, scalar |-> scalar], in[i]), dt)]
    BY <1>3 DEF Launched
  <1>13. Launched(spec, in, dt) = Reference(spec, n, dt, seed)
    BY <1>8, <1>9, <1>10, <1>11, <1>12
  <1>14. SameWithin(Launched(spec, in, dt), Reference(spec, n, dt, seed), dt)
    BY <1>13 DEF SameWithin, Near
  <1>15. QED
    BY <1>1, <1>2, <1>6, <1>14 DEF Matches

\* A block of a power of two computes the reduction execute() computes.
LEMMA ReductionMatches ==
    ASSUME NEW a, SpecOk(a.spec), a.spec.reduce, Exact(a.spec), NEW seed \in Seeds
    PROVE  Matches(a, seed)
  <1>1. PICK op, n, scalar, dt : op = a.spec.op /\ n = a.spec.n /\ scalar = a.spec.scalar /\ dt = a.spec.dt
    OBVIOUS
  <1>2. PICK spec : spec = ParsedSpec(a.spec)
    OBVIOUS
  <1>3. spec.op = op /\ spec.scalar = scalar /\ spec.reduce
    BY <1>1, <1>2 DEF ParsedSpec, SpecOk
  <1>4. op \in Reductions /\ op # "nop" /\ op \in {"sum", "max", "min"} /\ n \in Nat
    BY <1>1 DEF SpecOk, Reductions
  <1>5. PICK K \in Nat : MaxBlock = TwoTo[K] /\ TwoTo[K] \in Nat /\ TwoTo[K] > 0
    <2>1. PICK K \in 0 .. 10 : MaxBlock = TwoTo[K]
      BY CudaAssumption
    <2>2. QED
      BY <2>1, TwoToPositive
  <1>6. PICK m \in Nat : TwoTo[m] = (IF n < MaxBlock THEN n ELSE MaxBlock) /\ TwoTo[m] <= n /\ n > 0
    <2>1. CASE n >= MaxBlock
      <3>1. ~(n < MaxBlock) /\ n > 0 /\ TwoTo[K] <= n
        BY <1>4, <1>5, <2>1
      <3>2. QED
        BY <1>5, <3>1
    <2>2. CASE ~(n >= MaxBlock)
      <3>1. PICK k \in 0 .. 10 : n = TwoTo[k]
        BY <1>1, <2>2 DEF Exact
      <3>2. k \in Nat /\ TwoTo[k] > 0
        BY TwoToPositive
      <3>3. n < MaxBlock /\ TwoTo[k] <= n
        BY <1>4, <1>5, <2>2, <3>1
      <3>4. QED
        BY <3>1, <3>2, <3>3
    <2>3. QED
      BY <2>1, <2>2
  <1>7. PICK o, p, q : /\ o = [kind |-> op, scalar |-> scalar, n |-> n]
                       /\ p = [shapeN |-> n, datatype |-> dt, ops |-> <<o>>]
                       /\ q = [shapeN |-> n, datatype |-> dt]
    OBVIOUS
  <1>8. PICK in : in = HostInput(q, seed)
    OBVIOUS
  <1>9. HostInput(p, seed) = in
    BY <1>7, <1>8 DEF HostInput
  <1>10. DOMAIN in = 1 .. n /\ Len(in) = n /\ \A i \in 1 .. n : in[i] \in Kept(dt)
    <2>1. q.datatype = dt /\ q.shapeN = n /\ q.shapeN # 0 /\ q.shapeN \in Nat /\ seed \in Int
      BY <1>4, <1>6, <1>7, CudaAssumption
    <2>2. QED
      BY <1>8, <2>1, HostInputIs
  <1> DEFINE g == [i \in 1 .. n |-> Value(in[i])]
  <1>11. PICK k : k = [op |-> op, dt |-> dt] /\ k.op = op /\ k.dt = dt /\ RoundsNothing(k)
    <2>1. op # "sum" \/ dt # "F32"
      BY <1>1 DEF Exact
    <2>2. PICK k : k = [op |-> op, dt |-> dt]
      OBVIOUS
    <2>3. k.op = op /\ k.dt = dt
      BY <2>2
    <2>4. QED
      BY <1>4, <2>1, <2>2, <2>3 DEF RoundsNothing
  <1>12. PICK f : KeptValues(k, f, in, n) /\ ValuesOf(f, in, n)
    <2>1. KeptValues(k, g, in, n)
      BY <1>10, <1>11 DEF KeptValues
    <2>2. QED
      BY <2>1, KeptAreValues
  <1> HIDE DEF g
  <1>13. PICK x : x = ReduceKernel(k, in, TwoTo[m])[1] /\ x \in Kept(dt) /\ Value(x) = Total(op, f, n)
    BY <1>4, <1>6, <1>10, <1>11, <1>12, KernelIs
  <1>14. Launched(spec, in, dt) = <<x>>
    <2>1. Launched(spec, in, dt) = ReduceKernel(k, in, TwoTo[m])
      BY <1>3, <1>6, <1>10, <1>11 DEF Launched
    <2>2. \E z : ReduceKernel(k, in, TwoTo[m]) = <<z>>
      BY DEF ReduceKernel
    <2>3. QED
      BY <1>13, <2>1, <2>2
  <1>15. PICK y : y = Reduce(o, in)
    OBVIOUS
  <1>16. y \in Doubles /\ Value(y) = Total(op, f, n)
    <2>1. o.kind = op
      BY <1>7
    <2>2. QED
      BY <1>4, <1>6, <1>10, <1>12, <1>15, <2>1, ReduceIs
  <1>17. Reference(spec, n, dt, seed) = <<Round(y, dt)>>
    <2>1. Reference(spec, n, dt, seed) = Execute(p, seed)
      BY <1>3, <1>7 DEF Reference
    <2>2. p.ops = <<o>> /\ o.kind = op /\ p.datatype = dt
      BY <1>7
    <2>3. Execute(p, seed) = Apply(p, in, o)
      BY <1>9, <2>2, ExecuteOne
    <2>4. Apply(p, in, o) = <<Round(y, dt)>>
      BY <1>4, <1>15, <2>2 DEF Apply
    <2>5. QED
      BY <2>1, <2>3, <2>4
  <1>18. Value(x) = Value(Round(y, dt))
    <2>1. Value(Round(x, dt)) = Value(Round(y, dt))
      BY <1>13, <1>16, RoundSame DEF Kept
    <2>2. QED
      BY <1>13, <2>1 DEF Kept
  <1>19. SameWithin(Launched(spec, in, dt), Reference(spec, n, dt, seed), dt)
    BY <1>14, <1>17, <1>18 DEF SameWithin, Near
  <1>20. QED
    BY <1>1, <1>2, <1>7, <1>8, <1>19 DEF Matches

\* For every length, seed and largest block of a power of two: a kernel of exact
\* arithmetic, an elementwise operation whose scalar its type holds, or a maximum, a
\* minimum or a sum of doubles by a block that can be halved, gives on every input what
\* computeCudaReference() gives (generateKernel()).  It says nothing of blocks of other
\* sizes, which lose elements, nor of sums of floats, whose partial results are rounded.
THEOREM ExactKernelsMatch == CudaSpec => []ExactKernelsAreRight
  <1>1. CudaInit => SpecInv
    BY DEF CudaInit, SpecInv, IdleThread, At
  <1>2. ASSUME SpecInv PROVE ExactKernelsAreRight
    <2> SUFFICES ASSUME NEW a \in artifacts, Exact(a.spec), NEW seed \in Seeds
                 PROVE  Matches(a, seed)
      BY DEF ExactKernelsAreRight
    <2>1. SpecOk(a.spec)
      BY <1>2 DEF SpecInv
    <2>2. QED
      BY <2>1, ElementwiseMatches, ReductionMatches DEF SpecOk
  <1>3. QED
    BY <1>1, <1>2, HandleInvInit, HandleInvNext, SpecInvNext, PTL DEF CudaSpec
=============================================================================
