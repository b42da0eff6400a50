------------------------ MODULE ManagedNotification ------------------------
(***************************************************************************)
(* A ManagedNotification as a value: the notifications that are defined    *)
(* and the history of each of them, with the methods of api/v1alpha1 that  *)
(* look things up, decide whether a service log may be sent, and record    *)
(* what was sent.                                                          *)
(*                                                                         *)
(* A lookup that finds nothing, and a method that returns an error, is Nil *)
(* or "error"; following a nil pointer is "panic".  Time is counted in     *)
(* hours.  Of the texts of a notification only one matters: whether there  *)
(* is a body for the resolved alert.                                       *)
(***************************************************************************)
EXTENDS Durations, Sequences, FiniteSetsExt

CONSTANTS
    Names,  \* names of notifications
    Waits,  \* values of resendWait
    Nil     \* no time, no record, nothing found

ASSUME WaitsAssumption == Waits \subseteq Int32s

Notifications == [name: Names, resolvedDesc: BOOLEAN, resendWait: Waits]

ConditionTypes == {"AlertFiring", "AlertResolved", "ServiceLogSent"}

NotificationConditions ==
    [type: ConditionTypes, status: {"True", "False", "Unknown"},
     lastTransitionTime: Nat \cup {Nil}]

NotificationRecords ==
    [name: Names, serviceLogSentCount: Int32s, conditions: Seq(NotificationConditions)]

ManagedNotifications ==
    [notifications: Seq(Notifications), records: Seq(NotificationRecords)]

ASSUME NilAssumption ==
    /\ Nil \notin Int /\ Nil \notin Notifications /\ Nil \notin NotificationConditions
    /\ Nil \notin NotificationRecords /\ Nil \notin ManagedNotifications

Answers == {"yes", "no", "error", "panic"}

-----------------------------------------------------------------------------
(* Lookups: the first one in the list.                                     *)

Named(seq, name) == {i \in DOMAIN seq : seq[i].name = name}

GetNotificationForName(m, name) ==
    LET S == Named(m.notifications, name)
    IN  IF S = {} THEN Nil ELSE m.notifications[Min(S)]

GetNotificationRecord(records, name) ==
    LET S == Named(records, name)
    IN  IF S = {} THEN Nil ELSE records[Min(S)]

HasNotificationRecord(records, name) == Named(records, name) # {}

Typed(conditions, type) == {i \in DOMAIN conditions : conditions[i].type = type}

GetCondition(conditions, type) ==
    LET S == Typed(conditions, type)
    IN  IF S = {} THEN Nil ELSE conditions[Min(S)]

-----------------------------------------------------------------------------
(* CanBeSent.                                                              *)

\* Variant: a window that is over is taken for one that lasts.
FiringCanBeSentSwapped(t, s, now) ==
    LET sent == GetCondition(s.conditions, "ServiceLogSent")
    IN  IF sent = Nil THEN "yes"
        ELSE IF sent.lastTransitionTime = Nil THEN "panic"
        ELSE IF /\ sent.lastTransitionTime + Hours(t.resendWait) < now
                /\ sent.status = "True" THEN "no" ELSE "yes"

\* t is the notification, s its record.
FiringCanBeSent(t, s, now) ==
    LET sent == GetCondition(s.conditions, "ServiceLogSent")
    IN  IF sent = Nil THEN "yes"
        ELSE IF sent.lastTransitionTime = Nil THEN "panic"
        ELSE IF /\ now < sent.lastTransitionTime + Hours(t.resendWait)
                /\ sent.status = "True" THEN "no" ELSE "yes"

\* Variant: a record is taken for an alert that fires.
ResolvedCanBeSentOnce(t, s) ==
    LET alert == GetCondition(s.conditions, "AlertFiring")
    IN  IF ~t.resolvedDesc THEN "no"
        ELSE IF alert = Nil THEN "panic" ELSE "yes"

ResolvedCanBeSent(t, s) ==
    LET alert == GetCondition(s.conditions, "AlertFiring")
    IN  IF ~t.resolvedDesc THEN "no"
        ELSE IF alert = Nil THEN "panic"
        ELSE IF alert.status # "True" THEN "no" ELSE "yes"

CanBeSent(m, name, firing, now) ==
    LET t == GetNotificationForName(m, name)
        s == GetNotificationRecord(m.records, name)
    IN  IF t = Nil THEN "error"
        ELSE IF ~HasNotificationRecord(m.records, name)
             THEN IF firing THEN "yes" ELSE "no"
        ELSE IF firing THEN FiringCanBeSent(t, s, now) ELSE ResolvedCanBeSent(t, s)

-----------------------------------------------------------------------------
(* Recording.                                                              *)

\* Variant: a condition is replaced but never added.
SetConditionInPlace(conditions, new) ==
    LET S == Typed(conditions, new.type)
    IN  IF S = {} THEN conditions ELSE [conditions EXCEPT ![Min(S)] = new]

SetCondition(conditions, new) ==
    LET S == Typed(conditions, new.type)
    IN  IF S = {} THEN Append(conditions, new)
        ELSE [conditions EXCEPT ![Min(S)] = new]

SetStatus(nr, type, status, t) ==
    [nr EXCEPT !.conditions =
         SetCondition(@, [type |-> type, status |-> status, lastTransitionTime |-> t])]

\* Variant: the count is not an int32.
SetNotificationRecordWide(records, rec) ==
    LET counted == [rec EXCEPT !.serviceLogSentCount = @ + 1]
        S == Named(records, rec.name)
    IN  IF S = {} THEN Append(records, counted)
        ELSE [records EXCEPT ![Min(S)] = counted]

\* Variant: a record is always added.
SetNotificationRecordAnew(records, rec) ==
    Append(records, [rec EXCEPT !.serviceLogSentCount = Int32(@ + 1)])

\* Whatever is recorded is counted.
SetNotificationRecord(records, rec) ==
    LET counted == [rec EXCEPT !.serviceLogSentCount = Int32(@ + 1)]
        S == Named(records, rec.name)
    IN  IF S = {} THEN Append(records, counted)
        ELSE [records EXCEPT ![Min(S)] = counted]

=============================================================================
