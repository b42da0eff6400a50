---------------------------- MODULE FleetRecord ----------------------------
(***************************************************************************)
(* The ManagedFleetNotificationRecord as a value, with the methods of      *)
(* api/v1alpha1 that look things up in it or change it, and the rule by    *)
(* which the fleet notification controller calls one of its items stale.   *)
(*                                                                         *)
(* A method that returns an error is an operator that returns Nil.  Time   *)
(* is counted in hours.                                                    *)
(***************************************************************************)
EXTENDS Durations, Sequences, FiniteSetsExt

CONSTANTS
    MgmtClusters,   \* management clusters
    Notifications,  \* names of fleet notifications
    Clusters,       \* hosted clusters
    ResendWaits,    \* values of resendWait
    StaleTimeout,   \* NotificationRecordStaleTimeoutInHour
    Nil             \* no time, no record, or an error

ASSUME WaitsAssumption ==
    StaleTimeout \in Nat /\ ResendWaits \subseteq Int32s

Items ==
    [hostedClusterID: Clusters, firing: Nat, resolved: Nat,
     lastTransitionTime: Nat \cup {Nil}]

RecordsByName ==
    [notificationName: Notifications, resendWait: ResendWaits, items: Seq(Items)]

FleetRecords == [managementCluster: MgmtClusters, records: Seq(RecordsByName)]

\* A ManagedFleetNotification holds a single notification.
FleetNotifications == [name: Notifications, resendWait: ResendWaits]

ASSUME NilAssumption ==
    /\ Nil \notin Nat /\ Nil \notin Items
    /\ Nil \notin RecordsByName /\ Nil \notin FleetRecords
    /\ Nil \notin FleetNotifications

-----------------------------------------------------------------------------
GetNotificationByName(fn, name) == IF name = fn.name THEN fn ELSE Nil

RecordSlots(fnr, name) ==
    {i \in DOMAIN fnr.records : fnr.records[i].notificationName = name}

ItemSlots(rn, cluster) ==
    {j \in DOMAIN rn.items : rn.items[j].hostedClusterID = cluster}

GetNotificationRecordByName(fnr, mc, name) ==
    IF mc # fnr.managementCluster \/ RecordSlots(fnr, name) = {} THEN Nil
    ELSE fnr.records[Min(RecordSlots(fnr, name))]

GetNotificationRecordItem(fnr, mc, name, cluster) ==
    LET rn == GetNotificationRecordByName(fnr, mc, name)
    IN  IF rn = Nil THEN Nil
        ELSE IF ItemSlots(rn, cluster) = {} THEN Nil
             ELSE rn.items[Min(ItemSlots(rn, cluster))]

HasNotificationRecordItem(fnr, mc, name, cluster) ==
    GetNotificationRecordItem(fnr, mc, name, cluster) # Nil

FiringCanBeSent(fnr, mc, name, cluster, now) ==
    LET rn == GetNotificationRecordByName(fnr, mc, name)
        ri == GetNotificationRecordItem(fnr, mc, name, cluster)
    IN  /\ rn # Nil
        /\ /\ HasNotificationRecordItem(fnr, mc, name, cluster)
           /\ ri.lastTransitionTime # Nil
           => now > ri.lastTransitionTime + Hours(rn.resendWait)

\* Variant: an item of the same cluster is not looked for.
AddNotificationRecordItemBlindly(fnr, cluster, name) ==
    IF RecordSlots(fnr, name) = {} THEN Nil
    ELSE [fnr EXCEPT !.records[Min(RecordSlots(fnr, name))].items =
              Append(@, [hostedClusterID |-> cluster, firing |-> 0,
                         resolved |-> 0, lastTransitionTime |-> Nil])]

AddNotificationRecordItem(fnr, cluster, name) ==
    LET i == Min(RecordSlots(fnr, name))
    IN  IF RecordSlots(fnr, name) = {} THEN Nil
        ELSE IF ItemSlots(fnr.records[i], cluster) # {} THEN Nil
        ELSE [fnr EXCEPT !.records[i].items =
                  Append(@, [hostedClusterID |-> cluster, firing |-> 0,
                             resolved |-> 0, lastTransitionTime |-> Nil])]

\* The records of that name that have an item for the cluster.
HoldingSlots(fnr, name, cluster) ==
    {i \in RecordSlots(fnr, name) : ItemSlots(fnr.records[i], cluster) # {}}

\* The item after one more notification.
Counted(item, statusFiring, now) ==
    [hostedClusterID |-> item.hostedClusterID,
     firing |-> item.firing + (IF statusFiring THEN 1 ELSE 0),
     resolved |-> item.resolved + (IF statusFiring THEN 0 ELSE 1),
     lastTransitionTime |-> now]

\* Variant: the wrong count goes the wrong way.
UpdateNotificationRecordItemMiscounting(fnr, name, cluster, statusFiring, now) ==
    LET i == Min(HoldingSlots(fnr, name, cluster))
        j == Min(ItemSlots(fnr.records[i], cluster))
    IN  IF HoldingSlots(fnr, name, cluster) = {} THEN Nil
        ELSE [fnr EXCEPT !.records[i].items[j] =
                  [@ EXCEPT !.firing = @ - 1, !.lastTransitionTime = now]]

UpdateNotificationRecordItem(fnr, name, cluster, statusFiring, now) ==
    LET i == Min(HoldingSlots(fnr, name, cluster))
        j == Min(ItemSlots(fnr.records[i], cluster))
    IN  IF HoldingSlots(fnr, name, cluster) = {} THEN Nil
        ELSE [fnr EXCEPT !.records[i].items[j] = Counted(@, statusFiring, now)]

\* append(items[:i], items[i+1:]...), with positions that start at 1.
RemoveAt(items, i) == SubSeq(items, 1, i - 1) \o SubSeq(items, i + 1, Len(items))

RemoveNotificationRecordItem(fnr, name, cluster) ==
    LET i == Min(HoldingSlots(fnr, name, cluster))
    IN  IF HoldingSlots(fnr, name, cluster) = {} THEN Nil
        ELSE [fnr EXCEPT !.records[i].items =
                  RemoveAt(@, Min(ItemSlots(fnr.records[i], cluster)))]

-----------------------------------------------------------------------------
(* Staleness, as Reconcile of the fleet notification controller sees it.   *)

\* Variant: the notification's own interval is forgotten.
staleWithoutWait(rn, item, now) ==
    \/ item.lastTransitionTime = Nil
    \/ /\ item.lastTransitionTime # Nil
       /\ now > item.lastTransitionTime + Hours(StaleTimeout)

stale(rn, item, now) ==
    item.lastTransitionTime # Nil =>
        now > item.lastTransitionTime + Hours(Int32(rn.resendWait + StaleTimeout))

\* Neither the interval nor the time to live that is made from it overflows.
Fits(wait) ==
    {wait, wait + StaleTimeout} \subseteq (-DurationHalf)..(DurationHalf - 1)

\* Positions of stale items: record, then item.
StaleSlots(fnr, now) ==
    {s \in {<<n, i>> : n \in DOMAIN fnr.records,
                       i \in UNION {DOMAIN fnr.records[m].items :
                                    m \in DOMAIN fnr.records}} :
        /\ s[2] \in DOMAIN fnr.records[s[1]].items
        /\ stale(fnr.records[s[1]], fnr.records[s[1]].items[s[2]], now)}

\* The first one in the order of the two nested loops.
FirstSlot(S) ==
    LET n == Min({s[1] : s \in S})
    IN  <<n, Min({s[2] : s \in {t \in S : t[1] = n}})>>

InRange(fnr, slot) ==
    slot[1] \in DOMAIN fnr.records /\ slot[2] \in DOMAIN fnr.records[slot[1]].items

\* What the API server makes of the JSON patch: the item at that position
\* goes, whatever it is.
RemoveSlot(fnr, slot) ==
    [fnr EXCEPT !.records[slot[1]].items = RemoveAt(@, slot[2])]

=============================================================================
