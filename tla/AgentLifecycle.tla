--------------------------- MODULE AgentLifecycle ---------------------------
(***************************************************************************)
(* What the finalizer promises to those who create and delete OcmAgents,   *)
(* without versions, caches, requests, calls or failures: the operator     *)
(* provides objects for an OcmAgent and announces it to the Alertmanager   *)
(* operator only while the resource is there and has not been let go, it   *)
(* lets go of a deleted resource only when the objects it answers for and  *)
(* the announcement are gone, and it never does so before the deletion.    *)
(***************************************************************************)

CONSTANTS
    Agents,   \* names of OcmAgents
    Kinds,    \* kinds of the objects that an OcmAgent has for itself
    Cleaned   \* those that are removed before the resource is let go

VARIABLES
    stage,     \* per agent, the stage of its life
    kept,      \* per agent, the kinds of its objects that are there
    announced  \* is the address of an agent announced

vars == <<stage, kept, announced>>

Init ==
    /\ stage = [a \in Agents |-> "absent"]
    /\ kept = [a \in Agents |-> {}]
    /\ announced = FALSE

Become(a, from, to) ==
    /\ stage[a] = from
    /\ stage' = [stage EXCEPT ![a] = to]
    /\ UNCHANGED <<kept, announced>>

Create(a) == Become(a, "absent", "new")

\* The operator takes charge of the resource.
Guard(a) == Become(a, "new", "guarded")

Delete(a) == Become(a, "guarded", "leaving")

\* The resource disappears, or waits for what the operator does not remove.
Release(a) ==
    /\ kept[a] \cap Cleaned = {} /\ ~announced
    /\ Become(a, "leaving", "absent") \/ Become(a, "leaving", "released")

Vanish(a) == Become(a, "released", "absent")

Tended(a) == stage[a] \in {"new", "guarded", "leaving"}

Provide(a, kind) ==
    /\ Tended(a)
    /\ kept' = [kept EXCEPT ![a] = @ \cup {kind}]
    /\ UNCHANGED <<stage, announced>>

Announce(a) ==
    /\ Tended(a)
    /\ announced' = TRUE
    /\ UNCHANGED <<stage, kept>>

\* Objects may be removed at any time, by whomever.
Lose ==
    /\ kept' \in [Agents -> SUBSET Kinds] /\ \A a \in Agents : kept'[a] \subseteq kept[a]
    /\ announced' \in {announced, FALSE}
    /\ UNCHANGED stage

Next ==
    \/ \E a \in Agents :
           \/ Create(a) \/ Guard(a) \/ Delete(a) \/ Release(a) \/ Vanish(a)
           \/ Announce(a)
           \/ \E kind \in Kinds : Provide(a, kind)
    \/ Lose

Spec == Init /\ [][Next]_vars

=============================================================================
