--------------------------- MODULE MCServiceLogs ---------------------------
(* The ManagedNotification in use, for TLC.                                *)
EXTENDS ServiceLogs, TLC

CONSTANTS n1, n2, h1, h2

MCNotification(name, resolvedDesc, resendWait) ==
    [name |-> name, resolvedDesc |-> resolvedDesc, resendWait |-> resendWait]

\* Two notifications; the first alone, with a wait whose Duration overflows.
MCSpecs ==
    {<<MCNotification(n1, TRUE, 1), MCNotification(n2, FALSE, 1)>>,
     <<MCNotification(n1, TRUE, 2)>>}

\* One handler tells everything; the other stores a record of its own with
\* nothing but the time of the service log.
MCStyle ==
    (h1 :> [marks |-> ConditionTypes, timed |-> TRUE, anew |-> FALSE])
    @@ (h2 :> [marks |-> {"ServiceLogSent"}, timed |-> TRUE, anew |-> TRUE])

MCLimits == [alerts |-> 3, edits |-> 3, faults |-> 1]

=============================================================================
