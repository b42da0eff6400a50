---------------------------- MODULE ServiceLogs ----------------------------
(***************************************************************************)
(* A ManagedNotification in use.  The OCM Agent, which is not part of this *)
(* repository, serves alerts in handlers that run concurrently: a handler  *)
(* reads the object, asks CanBeSent, sends a service log, and records the  *)
(* attempt with SetStatus and SetNotificationRecord in a fresh copy, until *)
(* its status update meets no conflict.  Meanwhile the object is edited,   *)
(* deleted and created again, calls fail, and the agent is restarted.      *)
(*                                                                         *)
(* The methods leave it to the handler which conditions it sets, whether   *)
(* with a time, and whether it keeps the record that is there; handlers    *)
(* may differ in that, which is their style.                               *)
(***************************************************************************)
EXTENDS ManagedNotification

CONSTANTS
    Handlers,  \* alerts served at a time
    Style,     \* how each handler records an attempt
    Specs,     \* lists of notifications an object may define
    MaxTime,   \* the last hour
    Limits     \* how often an alert, an edit, a failed call or a restart happens

Disturbances == {"alerts", "edits", "faults"}

Styles == [marks: SUBSET ConditionTypes, timed: BOOLEAN, anew: BOOLEAN]

ASSUME StyleAssumption == Style \in [Handlers -> Styles]

ASSUME LimitsAssumption == Limits \in [Disturbances -> Nat]

ASSUME SpecsAssumption == Specs \subseteq Seq(Notifications)

ASSUME AlertsAssumption == Nil \notin [name: Names, firing: BOOLEAN]

ASSUME MaxTimeAssumption == MaxTime \in Nat

VARIABLES
    mn,        \* the object (Nil: not there)
    version,   \* its resource version
    handlers,  \* what each handler is doing
    now,       \* the hour
    budget,    \* disturbances left
    recorded   \* history: what was recorded in the object, for each name

vars == <<mn, version, handlers, now, budget, recorded>>

\* A handler has an alert (name, firing), the version at which it last read
\* the object, how the sending went, and the object it is about to store.
Idle == [pc |-> "idle", name |-> Nil, firing |-> FALSE, read |-> 0,
         ok |-> FALSE, draft |-> Nil]

HandlerStates ==
    [pc: {"idle", "send", "get", "update"}, name: Names \cup {Nil}, firing: BOOLEAN,
     read: Nat, ok: BOOLEAN, draft: ManagedNotifications \cup {Nil}]

\* Of a notification: the service logs recorded as sent and as not sent, and
\* how the handlers told each condition since the record was begun.
Histories ==
    [sent: Nat, failed: Nat, told: [ConditionTypes -> {"no", "timed", "untimed"}]]

NoHistory == [sent |-> 0, failed |-> 0, told |-> [c \in ConditionTypes |-> "no"]]

TypeOK ==
    /\ mn \in ManagedNotifications \cup {Nil}
    /\ version \in Nat
    /\ handlers \in [Handlers -> HandlerStates]
    /\ now \in Nat
    /\ budget \in [Disturbances -> Nat]
    /\ recorded \in [Names -> Histories]

Init ==
    /\ mn = Nil /\ version = 0
    /\ handlers = [h \in Handlers |-> Idle]
    /\ now = 0
    /\ budget = Limits
    /\ recorded = [n \in Names |-> NoHistory]

Spend(d) == budget[d] > 0 /\ budget' = [budget EXCEPT ![d] = @ - 1]

Write(new) == mn' = new /\ version' = version + 1

-----------------------------------------------------------------------------
(* A handler.                                                              *)

\* An alert that may not be sent, or has no notification, changes nothing.
Receive(h, name, firing) ==
    /\ handlers[h].pc = "idle" /\ mn # Nil
    /\ CanBeSent(mn, name, firing, now) = "yes"
    /\ Spend("alerts")
    /\ handlers' = [handlers EXCEPT ![h] =
           [pc |-> "send", name |-> name, firing |-> firing, read |-> version,
            ok |-> FALSE, draft |-> Nil]]
    /\ UNCHANGED <<mn, version, now, recorded>>

Send(h) ==
    /\ handlers[h].pc = "send"
    /\ \/ handlers' = [handlers EXCEPT ![h].pc = "get", ![h].ok = TRUE]
          /\ UNCHANGED budget
       \/ handlers' = [handlers EXCEPT ![h].pc = "get", ![h].ok = FALSE]
          /\ Spend("faults")
    /\ UNCHANGED <<mn, version, now, recorded>>

Toggle(b) == IF b THEN "True" ELSE "False"

Marked(nr, style, type, b, t) ==
    IF type \in style.marks
    THEN SetStatus(nr, type, Toggle(b), IF style.timed THEN t ELSE Nil)
    ELSE nr

\* The record of a notification after an attempt to send it.
Attempted(nr, style, firing, ok, t) ==
    Marked(Marked(Marked(nr, style, "AlertFiring", firing, t),
                  style, "AlertResolved", ~firing, t),
           style, "ServiceLogSent", ok, t)

CountOf(m, name) ==
    LET nr == GetNotificationRecord(m.records, name)
    IN  IF nr = Nil THEN 0 ELSE nr.serviceLogSentCount

Recorded(m, name, style, firing, ok, t) ==
    LET old == GetNotificationRecord(m.records, name)
        nr  == IF old # Nil /\ ~style.anew THEN old
               ELSE [name |-> name, serviceLogSentCount |-> CountOf(m, name),
                     conditions |-> <<>>]
    IN  [m EXCEPT !.records =
             SetNotificationRecord(@, Attempted(nr, style, firing, ok, t))]

\* What that adds to the history.
Noted(old, style, ok) ==
    [sent   |-> IF ok THEN old.sent + 1 ELSE old.sent,
     failed |-> IF ok THEN old.failed ELSE old.failed + 1,
     told   |-> [c \in ConditionTypes |->
                    IF c \in style.marks
                    THEN IF style.timed THEN "timed" ELSE "untimed"
                    ELSE IF style.anew THEN "no" ELSE old.told[c]]]

\* Reads the object again and prepares the update.
Get(h) ==
    LET a == handlers[h]
    IN  /\ a.pc = "get"
        /\ handlers' = [handlers EXCEPT ![h] =
               IF mn = Nil THEN Idle
               ELSE [a EXCEPT !.pc = "update", !.read = version,
                              !.draft = Recorded(mn, a.name, Style[h], a.firing,
                                                 a.ok, now)]]
        /\ UNCHANGED <<mn, version, now, budget, recorded>>

\* A conflict sends the handler back to Get; after another failure, whether
\* or not the object was stored, it gives up.
Update(h) ==
    LET a == handlers[h]
        stored == /\ mn # Nil /\ a.read = version
                  /\ Write(a.draft)
                  /\ recorded' = [recorded EXCEPT ![a.name] = Noted(@, Style[h], a.ok)]
    IN  /\ a.pc = "update"
        /\ \/ /\ stored
              /\ handlers' = [handlers EXCEPT ![h] = Idle]
              /\ UNCHANGED budget
           \/ /\ a.read # version
              /\ handlers' = [handlers EXCEPT ![h].pc = "get", ![h].draft = Nil]
              /\ UNCHANGED <<mn, version, budget, recorded>>
           \/ /\ Spend("faults")
              /\ handlers' = [handlers EXCEPT ![h] = Idle]
              /\ \/ stored
                 \/ UNCHANGED <<mn, version, recorded>>
        /\ UNCHANGED now

\* The agent is restarted.
Crash ==
    /\ Spend("faults")
    /\ handlers' = [h \in Handlers |-> Idle]
    /\ UNCHANGED <<mn, version, now, recorded>>

-----------------------------------------------------------------------------
(* Users of the object, and time.                                          *)

Create(spec) ==
    /\ mn = Nil /\ Spend("edits")
    /\ Write([notifications |-> spec, records |-> <<>>])
    /\ UNCHANGED <<handlers, now, recorded>>

Edit(spec) ==
    /\ mn # Nil /\ Spend("edits")
    /\ Write([mn EXCEPT !.notifications = spec])
    /\ UNCHANGED <<handlers, now, recorded>>

Delete ==
    /\ mn # Nil /\ Spend("edits")
    /\ Write(Nil)
    /\ recorded' = [n \in Names |-> NoHistory]
    /\ UNCHANGED <<handlers, now>>

Tick ==
    /\ now < MaxTime
    /\ now' = now + 1
    /\ UNCHANGED <<mn, version, handlers, budget, recorded>>

-----------------------------------------------------------------------------
Next ==
    \/ \E h \in Handlers :
           \/ \E name \in Names, firing \in BOOLEAN : Receive(h, name, firing)
           \/ Send(h) \/ Get(h) \/ Update(h)
    \/ Crash
    \/ \E spec \in Specs : Create(spec) \/ Edit(spec)
    \/ Delete \/ Tick

Spec == Init /\ [][Next]_vars

-----------------------------------------------------------------------------
\* What CanBeSent takes for granted was never told: whether the alert fires,
\* or when the service log was sent.
Untold(name, firing) ==
    LET t == GetNotificationForName(mn, name)
        r == recorded[name]
    IN  /\ t # Nil /\ r.sent + r.failed > 0
        /\ IF firing THEN r.told["ServiceLogSent"] = "untimed"
           ELSE t.resolvedDesc /\ r.told["AlertFiring"] = "no"

\* CanBeSent follows a nil pointer just when no handler has told what it takes
\* for granted since the record was begun, whatever alert arrives when: what a
\* handler told is not lost to the ones that record from other copies, and
\* nothing less helps.
PanicsWhenUntold ==
    mn # Nil => \A name \in Names, firing \in BOOLEAN :
                    CanBeSent(mn, name, firing, now) = "panic" <=> Untold(name, firing)

\* serviceLogSentCount is the number of attempts recorded, those that failed
\* to send anything included: it misses none and has none twice, although
\* handlers record from copies they read earlier.
CountsRecorded ==
    mn # Nil => \A name \in Names :
                    CountOf(mn, name) = Int32(recorded[name].sent + recorded[name].failed)

\* No wait is so long that its Duration overflows.
Fits(wait) == wait \in (-DurationHalf)..(DurationHalf - 1)

\* A service log for this notification was recorded as sent, and the time
\* that must pass before the next has not passed.
Held(m, name) ==
    LET t == GetNotificationForName(m, name)
        s == GetNotificationRecord(m.records, name)
    IN  /\ t # Nil /\ s # Nil
        /\ \E i \in DOMAIN s.conditions :
               LET c == s.conditions[i]
               IN  /\ c.type = "ServiceLogSent" /\ c.status = "True"
                   /\ c.lastTransitionTime # Nil
                   /\ now < c.lastTransitionTime + t.resendWait

\* "The minimum time interval that must elapse between active Service Log
\* notifications": a handler about to send a firing alert inside the
\* interval after a recorded service log asked before the object was last
\* written.
ResendSpaced ==
    \A h \in Handlers :
        LET a == handlers[h]
        IN  /\ a.pc = "send" /\ a.firing /\ a.read = version /\ mn # Nil
            /\ \A i \in DOMAIN mn.notifications : Fits(mn.notifications[i].resendWait)
            => ~Held(mn, a.name)

-----------------------------------------------------------------------------
(* The promise that the object keeps.                                      *)

definition(m, n) == IF m = Nil THEN Nil ELSE GetNotificationForName(m, n)

history(m, n) == IF m = Nil THEN {} ELSE {nr \in Range(m.records) : nr.name = n}

said(m, n, type) ==
    UNION {{c \in Range(nr.conditions) : c.type = type} : nr \in history(m, n)}

WaitOf(m) ==
    [n \in Names |-> LET t == definition(m, n)
                     IN  IF t = Nil THEN Nil ELSE Hours(t.resendWait)]

ResolvableOf(m) ==
    [n \in Names |-> LET t == definition(m, n) IN t # Nil /\ t.resolvedDesc]

PhaseOf(m) ==
    [n \in Names |->
        LET alerts == {c.status : c \in said(m, n, "AlertFiring")}
        IN  IF history(m, n) = {} THEN "never"
            ELSE IF alerts = {} THEN "unknown"
            ELSE IF "True" \in alerts THEN "firing" ELSE "resolved"]

HoldOf(m) ==
    [n \in Names |->
        {c.lastTransitionTime :
           c \in {d \in said(m, n, "ServiceLogSent") : d.status = "True"}} \ {Nil}]

ReportsOf(style) ==
    [h \in Handlers |->
        [alert |-> "AlertFiring" \in style[h].marks,
         log   |-> "ServiceLogSent" \in style[h].marks,
         anew  |-> style[h].anew]]

PermitsOf(hs) ==
    [h \in Handlers |->
        IF hs[h].pc = "idle" THEN Nil
        ELSE [name |-> hs[h].name, firing |-> hs[h].firing]]

Throttle ==
    INSTANCE ServiceLogThrottle
    WITH Senders <- Handlers, Reports <- ReportsOf(Style), permits <- PermitsOf(handlers),
         wait <- WaitOf(mn), resolvable <- ResolvableOf(mn),
         phase <- PhaseOf(mn), hold <- HoldOf(mn)

\* The lists of records and conditions, the copies and the conflicts keep
\* the promise of ServiceLogThrottle: a service log is recorded only by who
\* was permitted to send it, and a permit is given only when nothing that is
\* recorded holds it back.
ImplementsThrottle == Throttle!Spec

=============================================================================
