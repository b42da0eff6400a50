------------------------- MODULE ServiceLogThrottle -------------------------
(***************************************************************************)
(* What a ManagedNotification promises to those who send service logs by   *)
(* it, without lists, conditions, copies or conflicts: who wants to send   *)
(* asks for a permit, and a permit is used up by recording what was sent   *)
(* or lapses.                                                              *)
(*                                                                         *)
(* A permit for a firing alert is given when no recorded service log holds *)
(* it back; one for a resolved alert, when the last thing recorded is that *)
(* the alert fires.                                                        *)
(***************************************************************************)
EXTENDS Integers

CONSTANTS
    Senders,  \* those who send service logs
    Reports,  \* per sender, does it report whether the alert fires and when the
              \* log was sent; is what it does not report unknown from then on
    Names,    \* names of notifications
    Nil       \* none

VARIABLES
    wait,        \* hours to wait before a notification is sent again, or Nil
    resolvable,  \* is there anything to say when the alert is resolved
    phase,       \* what was last recorded of the alert
    hold,        \* when the service log was sent that holds back the next, if any
    permits,     \* the permit of each sender, or Nil
    now          \* the hour

vars == <<wait, resolvable, phase, hold, permits, now>>

Init ==
    /\ wait = [n \in Names |-> Nil] /\ resolvable = [n \in Names |-> FALSE]
    /\ phase = [n \in Names |-> "never"] /\ hold = [n \in Names |-> {}]
    /\ permits = [p \in Senders |-> Nil]
    /\ now = 0

Permit(p, n, firing) ==
    /\ permits[p] = Nil
    /\ permits' = [permits EXCEPT ![p] = [name |-> n, firing |-> firing]]
    /\ wait[n] # Nil
    /\ IF firing THEN \A t \in hold[n] : now >= t + wait[n]
       ELSE phase[n] = "firing" /\ resolvable[n]
    /\ UNCHANGED <<wait, resolvable, phase, hold, now>>

\* A service log that could not be sent holds nothing back.  What is
\* recorded never moves back in time.
Record(p) ==
    LET n == permits[p].name
    IN  /\ permits[p] # Nil
        /\ permits' = [permits EXCEPT ![p] = Nil]
        /\ phase' = [phase EXCEPT ![n] =
               IF ~Reports[p].alert
               THEN IF Reports[p].anew \/ @ = "never" THEN "unknown" ELSE @
               ELSE IF permits[p].firing THEN "firing" ELSE "resolved"]
        /\ \/ /\ Reports[p].log \/ Reports[p].anew
              /\ hold' = [hold EXCEPT ![n] = {}]
           \/ /\ Reports[p].log
              /\ \E t \in 0..now : /\ \A u \in hold[n] : u <= t
                                   /\ hold' = [hold EXCEPT ![n] = {t}]
           \/ ~Reports[p].log /\ ~Reports[p].anew /\ UNCHANGED hold
        /\ UNCHANGED <<wait, resolvable, now>>

\* These permits are not used.
Lapse(P) ==
    /\ P # {} /\ \A p \in P : permits[p] # Nil
    /\ permits' = [p \in Senders |-> IF p \in P THEN Nil ELSE permits[p]]
    /\ UNCHANGED <<wait, resolvable, phase, hold, now>>

Configure ==
    /\ UNCHANGED <<permits, now>>
    /\ wait' \in [Names -> Int \cup {Nil}] /\ resolvable' \in [Names -> BOOLEAN]
    /\ UNCHANGED <<phase, hold>>

Forget ==
    /\ UNCHANGED <<permits, now>>
    /\ wait' = [n \in Names |-> Nil] /\ resolvable' = [n \in Names |-> FALSE]
    /\ phase' = [n \in Names |-> "never"] /\ hold' = [n \in Names |-> {}]

Tick == now' = now + 1 /\ UNCHANGED <<wait, resolvable, phase, hold, permits>>

Next ==
    \/ \E p \in Senders :
           \/ \E n \in Names, firing \in BOOLEAN : Permit(p, n, firing)
           \/ Record(p)
    \/ \E P \in SUBSET Senders : Lapse(P)
    \/ Configure \/ Forget \/ Tick

Spec == Init /\ [][Next]_vars

=============================================================================
