--------------------------- MODULE CompileService ---------------------------
(***************************************************************************)
(* What compile() promises its callers, without cache, locks or waiting:   *)
(* one build per key at a time, identities that grow with every publish of *)
(* a key, and replies that name an artifact published for the key asked.   *)
(***************************************************************************)
EXTENDS Integers

CONSTANTS Threads, Keys, NoThread, NoKey, Ids

VARIABLES
    builder,    \* per key: the thread building it
    published,  \* <<key, id>> of every artifact published
    request,    \* per thread: the key it asked for
    reply       \* per thread: the id it was given, 0 for an error, -1 while it waits

serviceVars == <<builder, published, request, reply>>

Pending(t) == request[t] # NoKey /\ reply[t] = -1

Init ==
    /\ builder = [k \in Keys |-> NoThread]
    /\ published = {}
    /\ request = [t \in Threads |-> NoKey]
    /\ reply = [t \in Threads |-> -1]

Invoke(t, k) ==
    /\ request[t] = NoKey
    /\ request' = [request EXCEPT ![t] = k]
    /\ UNCHANGED <<builder, published, reply>>

StartBuild(t) ==
    /\ Pending(t)
    /\ builder[request[t]] = NoThread
    /\ builder' = [builder EXCEPT ![request[t]] = t]
    /\ UNCHANGED <<published, request, reply>>

Publish(t, id) ==
    /\ Pending(t)
    /\ builder[request[t]] = t
    /\ id > 0 /\ \A p \in published : p[1] = request[t] => id > p[2]
    /\ published' = published \cup {<<request[t], id>>}
    /\ UNCHANGED <<builder, request, reply>>

\* An error, or an artifact published for the key. A builder stops building.
Reply(t, id) ==
    /\ Pending(t)
    /\ id = 0 \/ <<request[t], id>> \in published
    /\ reply' = [reply EXCEPT ![t] = id]
    /\ builder' = [builder EXCEPT ![request[t]] = IF @ = t THEN NoThread ELSE @]
    /\ UNCHANGED <<published, request>>

Return(t) ==
    /\ request[t] # NoKey /\ reply[t] # -1
    /\ request' = [request EXCEPT ![t] = NoKey]
    /\ reply' = [reply EXCEPT ![t] = -1]
    /\ UNCHANGED <<builder, published>>

Next ==
    \E t \in Threads :
        \/ \E k \in Keys : Invoke(t, k)
        \/ StartBuild(t)
        \/ \E id \in Ids : Publish(t, id) \/ Reply(t, id)
        \/ Return(t)

Spec == Init /\ [][Next]_serviceVars
=============================================================================
