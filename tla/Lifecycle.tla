----------------------------- MODULE Lifecycle -----------------------------
(***************************************************************************)
(* The life cycle of an artifact or attempt (Lifecycle.cpp): a table of    *)
(* legal edges and a holder that moves along them only.                    *)
(***************************************************************************)

VARIABLES life,       \* Lifecycle::state_
          passed      \* history: the states held so far

lifeVars == <<life, passed>>

Terminal == {"Invalidated", "Corrupt", "Failed", "Cancelled", "Retired", "Terminal"}
ActiveOrValid == {"Valid", "Persisted", "Deployable", "Deployed", "InUse"}

Aborted == {"Failed", "Cancelled"}
Edges ==
    [Submitted   |-> {"Planning"} \cup Aborted,
     Planning    |-> {"Planned"} \cup Aborted,
     Planned     |-> {"Queued"} \cup Aborted,
     Queued      |-> {"Preparing", "Cancelled"},
     Preparing   |-> {"Compiling"} \cup Aborted,
     Compiling   |-> {"Optimizing", "Linking", "Validating"} \cup Aborted,
     Optimizing  |-> {"Linking", "Validating"} \cup Aborted,
     Linking     |-> {"Validating"} \cup Aborted,
     Validating  |-> {"Valid", "Persisting", "Failed", "Corrupt"},
     Valid       |-> {"Persisting", "Persisted", "Deployable", "Deployed", "InUse", "Superseded",
                      "InvalidationPending"},
     Persisting  |-> {"Persisted", "Deployable", "Failed", "InvalidationPending"},
     Persisted   |-> {"Deployable", "Deployed", "InUse", "Superseded", "InvalidationPending"},
     Deployable  |-> {"Deploying", "Deployed", "InUse", "Superseded", "InvalidationPending"},
     Deploying   |-> {"Deployed", "InUse", "Failed", "InvalidationPending"},
     Deployed    |-> {"InUse", "Superseded", "InvalidationPending"},
     InUse       |-> {"Deployed", "Superseded", "InvalidationPending"},
     Superseded  |-> {"InvalidationPending", "Retired"},
     InvalidationPending |-> {"Invalidated", "Retired"}]
States == DOMAIN Edges \cup Terminal

\* Mutation: a pending invalidation may be withdrawn.
WithdrawnInvalidation(from, to) ==
    \/ from \in DOMAIN Edges /\ to \in Edges[from]
    \/ from = "InvalidationPending" /\ to = "Deployable"
\* Terminal states have no outgoing edges.
CanTransition(from, to) == from \notin Terminal /\ to \in Edges[from]

LifeInit == life = "Submitted" /\ passed = {}

\* Lifecycle::to() under the holder's mutex; an illegal edge is an error.
To(next) ==
    /\ CanTransition(life, next)
    /\ life' = next
    /\ passed' = passed \cup {life}
ToRefused(next) == ~CanTransition(life, next) /\ UNCHANGED lifeVars

LifeNext == \E next \in States : To(next) \/ ToRefused(next)
LifeSpec == LifeInit /\ [][LifeNext]_lifeVars
-----------------------------------------------------------------------------
\* "Invalidated/corrupt/retired states cannot silently regain eligibility", over
\* any number of edges: whatever is active or valid, or being deployed, was
\* validated before and was never superseded or up for invalidation.
EligibilityIsEarned ==
    life \in ActiveOrValid \cup {"Persisting", "Deploying"} =>
        /\ "Validating" \in passed
        /\ passed \cap ({"Superseded", "InvalidationPending"} \cup Terminal) = {}
=============================================================================
