------------------------ MODULE MCFleetNotification ------------------------
(* The fleet notification controller for TLC.                              *)
EXTENDS FleetNotificationController

CONSTANTS mc1, mc2, n1, n2, h1, h2

\* A record with a notification that waits longer than the stale timeout
\* before it is resent.
WaitingRecord ==
    {[managementCluster |-> mc1,
      records |-> <<[notificationName |-> n1, resendWait |-> 2, items |-> <<>>]>>]}

\* A notification whose resendWait is the largest int32.
Huge == {[name |-> n2, resendWait |-> 7]}

MCLimits(writes, edits, faults) ==
    [writes |-> writes, edits |-> edits, faults |-> faults]

CleanupLimits == MCLimits(2, 3, 2)

OutrunLimits == MCLimits(3, 1, 0)

=============================================================================
