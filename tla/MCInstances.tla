---------------------------- MODULE MCInstances ----------------------------
(***************************************************************************)
(* Values for the constants of OcmAgentController and OcmAgentPods.        *)
(***************************************************************************)
CONSTANTS a1, a2, s1, s2, img1, img2, c1, c2, t1, t2, p1, p2, cred

MCSpec(fleet, n, s, c, img) ==
    [fleetMode |-> fleet, replicas |-> n, tokenSecret |-> s,
     agentConfig |-> c, ocmAgentImage |-> img]

\* A classic agent, one with more replicas, a fleet-mode agent, and a
\* fleet-mode agent that differs from the classic one in nothing else.
Classic   == MCSpec(FALSE, 1, s1, c1, img1)
Scaled    == MCSpec(FALSE, 2, s1, c2, img2)
Fleet     == MCSpec(TRUE, 1, s2, c1, img1)
FleetTwin == MCSpec(TRUE, 1, s1, c1, img1)

ClassicOnly    == {Classic}
ScaledAndFleet == {Scaled, Fleet}
Twins          == {Classic, FleetTwin}
ScaledAndTwin  == {Scaled, FleetTwin}

MCLimits(edits, inputs, tampers, faults, crashes) ==
    [edits |-> edits, inputs |-> inputs, tampers |-> tampers,
     faults |-> faults, crashes |-> crashes]

\* Create, delete and create again, with a failure and a restart on the way.
LifecycleLimits == MCLimits(4, 0, 0, 1, 1)

\* Two agents that name the same token secret, in one mode or the other.
SharedLimits == MCLimits(3, 0, 0, 0, 0)

\* An agent whose inputs and objects are changed.
DriftLimits == MCLimits(1, 2, 1, 0, 0)

\* Deleted and created again, in the background or foreground.
RemovalLimits == MCLimits(3, 0, 0, 1, 0)

\* The pull secret changes, and the proxy, and that changes back; the agent may
\* be deleted on the way.
RotationLimits == MCLimits(2, 3, 0, 0, 0)

OneFault  == MCLimits(1, 1, 0, 1, 0)
TwoEdits  == MCLimits(2, 0, 0, 0, 0)
DeleteWithFault == MCLimits(2, 0, 0, 1, 0)

=============================================================================
