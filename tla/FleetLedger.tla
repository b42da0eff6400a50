---------------------------- MODULE FleetLedger ----------------------------
(***************************************************************************)
(* What a ManagedFleetNotificationRecord is to those who use it, without   *)
(* lists, positions, copies or requests: a ledger with an interval for     *)
(* each notification that it knows, and with entries, one at most for a    *)
(* notification and a hosted cluster.                                      *)
(*                                                                         *)
(* A cleaner takes aim at an entry that has outlived its use and removes   *)
(* it.  It is out of aim once somebody else has written to the ledger, or  *)
(* from the start when it was behind the ledger's changes; then it may     *)
(* remove any one entry.                                                   *)
(***************************************************************************)
EXTENDS Durations

CONSTANTS
    Names,         \* names of notifications
    Clusters,      \* hosted clusters
    Waits,         \* intervals, in hours
    StaleTimeout,  \* how long an entry outlives its interval, in hours
    Nil            \* no time

VARIABLES
    open,      \* is there a ledger
    waits,     \* the notifications that it knows, each with its interval
    entries,   \* its entries
    cleaning,  \* is the cleaner about to remove an entry
    aim,       \* the entry it is going to remove; {}: out of aim
    behind,    \* are there changes that the cleaner has not seen
    now        \* the hour

vars == <<open, waits, entries, cleaning, aim, behind, now>>

Init ==
    /\ ~open /\ waits = {} /\ entries = {}
    /\ ~cleaning /\ aim = {} /\ ~behind
    /\ now = 0

WaitsOf(n) == {w \in Waits : <<n, w>> \in waits}

EntriesOf(n, c) == {e \in entries : e.name = n /\ e.cluster = c}

\* A notification must not be sent again yet.
Held(n, c) ==
    \E e \in EntriesOf(n, c), w \in WaitsOf(n) :
        e.time # Nil /\ now <= e.time + Hours(w)

Outlived(e) ==
    \E w \in WaitsOf(e.name) :
        e.time # Nil => now > e.time + Hours(Int32(w + StaleTimeout))

\* The cleaner aims only at what has outlived its use.
Aimed == aim = {} \/ \E e \in entries : aim = {e} /\ cleaning /\ Outlived(e)

-----------------------------------------------------------------------------
(* Those who keep the ledger.                                              *)

\* What a writer does to the cleaner: it falls behind and may lose its aim.
Disturb == behind' /\ UNCHANGED <<cleaning, now>> /\ Aimed'

Open ==
    /\ ~open /\ open'
    /\ waits' \subseteq Names \X Waits
    /\ \A x, y \in waits' : x[1] = y[1] => x = y
    /\ UNCHANGED entries
    /\ Disturb

Close ==
    /\ open /\ ~open'
    /\ waits' = {} /\ entries' = {}
    /\ Disturb

Register(n, w) ==
    /\ open /\ WaitsOf(n) = {}
    /\ waits' = waits \cup {<<n, w>>}
    /\ UNCHANGED <<open, entries>>
    /\ Disturb

Blank(n, c) ==
    [name |-> n, cluster |-> c, firing |-> 0, resolved |-> 0, time |-> Nil]

Enter(n, c) ==
    /\ WaitsOf(n) # {} /\ EntriesOf(n, c) = {}
    /\ entries' = entries \cup {Blank(n, c)}
    /\ UNCHANGED <<open, waits>>
    /\ Disturb

\* The entry after one more notification.
Noted(e, firing) ==
    [name |-> e.name, cluster |-> e.cluster,
     firing   |-> e.firing + (IF firing THEN 1 ELSE 0),
     resolved |-> e.resolved + (IF firing THEN 0 ELSE 1),
     time     |-> now]

\* A notification has been sent.
Note(n, c, firing) ==
    /\ WaitsOf(n) # {} /\ (firing => ~Held(n, c))
    /\ \E e \in IF EntriesOf(n, c) = {} THEN {Blank(n, c)} ELSE EntriesOf(n, c) :
           entries' = (entries \ {e}) \cup {Noted(e, firing)}
    /\ UNCHANGED <<open, waits>>
    /\ Disturb

Strike(e) ==
    /\ entries' = entries \ {e}
    /\ UNCHANGED <<open, waits>>
    /\ Disturb

-----------------------------------------------------------------------------
(* The cleaner.                                                            *)

TakeAim ==
    /\ ~cleaning /\ cleaning'
    /\ Aimed' /\ (aim' = {} => behind)
    /\ UNCHANGED <<behind, now, open, waits, entries>>

Remove(e) ==
    /\ cleaning /\ aim \subseteq {e}
    /\ entries' = entries \ {e}
    /\ ~cleaning' /\ aim' = {} /\ behind'
    /\ UNCHANGED <<now, open, waits>>

\* It gives up, or starts afresh with the ledger as it is.
Desist ==
    /\ cleaning /\ ~cleaning' /\ aim' = {} /\ (behind' => behind)
    /\ UNCHANGED <<now, open, waits, entries>>

CatchUp ==
    /\ (behind' => behind)
    /\ UNCHANGED <<now, cleaning, open, waits, entries, aim>>

Tick ==
    /\ now' = now + 1
    /\ UNCHANGED <<cleaning, behind, open, waits, entries, aim>>

-----------------------------------------------------------------------------
Next ==
    \/ Tick \/ CatchUp \/ TakeAim \/ Desist
    \/ \E e \in entries : Strike(e) \/ Remove(e)
    \/ Open \/ Close
    \/ \E n \in Names :
           \/ \E w \in Waits : Register(n, w)
           \/ \E c \in Clusters :
                  Enter(n, c) \/ \E firing \in BOOLEAN : Note(n, c, firing)

Spec == Init /\ [][Next]_vars

=============================================================================
