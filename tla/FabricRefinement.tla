-------------------------- MODULE FabricRefinement --------------------------
(* FabricCore implements CompileService. *)
EXTENDS FabricCore

Builder(k) == IF InFlight(k) THEN flight[inflight[k]].owner ELSE NoThread
ReplyOf(o) == CASE o.kind = "none" -> -1
                [] o.kind = "failed" -> 0
                [] OTHER -> o.art.id

Service == INSTANCE CompileService WITH
    Ids       <- 0..MaxCounter,
    builder   <- [k \in Keys |-> Builder(k)],
    published <- {<<r.key, r.art.id>> : r \in published},
    request   <- call,
    reply     <- [t \in Threads |-> ReplyOf(outcome[t])]

\* Every step of the fabric is a step of the service or invisible to its callers:
\* builds of a key never overlap, identities published for a key grow, and a reply,
\* be it from the cache, the caller's own build or a flight it joined, names an
\* artifact published for the key that was asked.
ImplementsCompileService == Service!Spec
=============================================================================
