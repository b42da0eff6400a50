--------------------- MODULE FleetNotificationController ---------------------
(***************************************************************************)
(* The controller that removes stale items from a                          *)
(* ManagedFleetNotificationRecord (controllers/fleetnotification), next to *)
(* the OCM Agent that keeps the record and to passing time.                *)
(*                                                                         *)
(* The reconciler reads a cached copy and removes one item by its position *)
(* in that copy, with a JSON patch that has no precondition.  The agent    *)
(* reads, applies a method of the record, and updates the status; the      *)
(* resource version makes that one step or an error.                       *)
(***************************************************************************)
EXTENDS FleetRecord

CONSTANTS
    NewRecords,  \* records as they are created, without items
    Fleet,       \* the ManagedFleetNotifications of the cluster
    MaxTime,     \* the last hour
    Limits       \* how often the agent writes, a user edits, something fails

\* A fault is a call that fails or a restart of the operator.
Disturbances == {"writes", "edits", "faults"}

ASSUME LimitsAssumption == Limits \in [Disturbances -> Nat]

ASSUME NewRecordsAssumption ==
    /\ NewRecords \subseteq FleetRecords
    /\ \A fnr \in NewRecords : \A i \in DOMAIN fnr.records :
           fnr.records[i].items = <<>>

ASSUME FleetAssumption == Fleet \subseteq FleetNotifications

ASSUME MaxTimeAssumption == MaxTime \in Nat

VARIABLES
    versions,  \* the record (Nil: not there), from the cached version on
    queued,    \* is there a request for the record, due now or later
    pc,        \* next step of the worker
    run,       \* the reconcile in progress: copy read, position to remove
    now,       \* the hour
    budget     \* disturbances left

vars == <<versions, queued, pc, run, now, budget>>

Cached == versions[1]

Current == versions[Len(versions)]

Write(fnr) == versions' = Append(versions, fnr)

NoRun == [copy |-> Nil, slot |-> <<0, 0>>]

TypeOK ==
    /\ versions \in Seq(FleetRecords \cup {Nil}) /\ versions # <<>>
    /\ queued \in BOOLEAN
    /\ pc \in {"idle", "patchRemove"}
    /\ run \in [copy: FleetRecords \cup {Nil}, slot: Nat \X Nat]
    /\ now \in Nat
    /\ budget \in [Disturbances -> Nat]

Init ==
    /\ versions = <<Nil>>
    /\ queued = FALSE
    /\ pc = "idle" /\ run = NoRun
    /\ now = 0
    /\ budget = Limits

Spend(d) == budget[d] > 0 /\ budget' = [budget EXCEPT ![d] = @ - 1]

-----------------------------------------------------------------------------
(* The reconciler.                                                         *)

\* Variant: items without a time are passed over.
ReconcileTimedOnly ==
    LET S == {s \in StaleSlots(Cached, now) :
                  Cached.records[s[1]].items[s[2]].lastTransitionTime # Nil}
    IN  /\ pc = "idle" /\ queued /\ Cached # Nil
        /\ queued' = FALSE
        /\ IF S = {} THEN UNCHANGED <<pc, run>>
           ELSE /\ pc' = "patchRemove"
                /\ run' = [copy |-> Cached, slot |-> FirstSlot(S)]
        /\ UNCHANGED <<versions, now, budget>>

\* A record that is not found is an error like any other: the request is
\* tried again.  Only the first stale item is removed.
Reconcile ==
    /\ pc = "idle" /\ queued
    /\ \/ Cached = Nil /\ UNCHANGED <<queued, pc, run>>
       \/ /\ Cached # Nil /\ StaleSlots(Cached, now) = {}
          /\ queued' = FALSE
          /\ UNCHANGED <<pc, run>>
       \/ /\ Cached # Nil /\ StaleSlots(Cached, now) # {}
          /\ queued' = FALSE
          /\ pc' = "patchRemove"
          /\ run' = [copy |-> Cached, slot |-> FirstSlot(StaleSlots(Cached, now))]
    /\ UNCHANGED <<versions, now, budget>>

\* Variant: positions are counted from one instead of from zero.
patchRemoveNext ==
    LET slot == <<run.slot[1], run.slot[2] + 1>>
    IN  /\ pc = "patchRemove"
        /\ IF Current # Nil /\ InRange(Current, slot)
           THEN Write(RemoveSlot(Current, slot)) /\ UNCHANGED queued
           ELSE queued' = TRUE /\ UNCHANGED versions
        /\ pc' = "idle" /\ run' = NoRun
        /\ UNCHANGED <<now, budget>>

\* The patch fails when the record or the position does not exist; when the
\* call fails it may have been applied all the same.
patchRemove ==
    LET applies == Current # Nil /\ InRange(Current, run.slot)
    IN  /\ pc = "patchRemove"
        /\ \/ /\ applies
              /\ Write(RemoveSlot(Current, run.slot))
              /\ UNCHANGED <<queued, budget>>
           \/ /\ ~applies
              /\ queued' = TRUE
              /\ UNCHANGED <<versions, budget>>
           \/ /\ Spend("faults")
              /\ queued' = TRUE
              /\ \/ applies /\ Write(RemoveSlot(Current, run.slot))
                 \/ UNCHANGED versions
        /\ pc' = "idle" /\ run' = NoRun
        /\ UNCHANGED now

-----------------------------------------------------------------------------
(* Watch, queue and process of the operator (controller-runtime).          *)

\* The informer applies the next version; eventPredicates drops deletions.
Watch ==
    /\ Len(versions) > 1
    /\ versions' = Tail(versions)
    /\ queued' = (queued \/ Cached' # Nil)
    /\ UNCHANGED <<pc, run, now, budget>>

\* The informer's periodic resync reports the cached copy again.
Resync ==
    /\ Cached # Nil
    /\ queued' = TRUE
    /\ UNCHANGED <<versions, pc, run, now, budget>>

Restart ==
    /\ Spend("faults")
    /\ versions' = <<Current>>
    /\ queued' = (Current # Nil)
    /\ pc' = "idle" /\ run' = NoRun
    /\ UNCHANGED now

-----------------------------------------------------------------------------
(* The OCM Agent, users and time (external).                               *)

CreateRecord ==
    /\ Current = Nil /\ Spend("edits")
    /\ \E fnr \in NewRecords : Write(fnr)
    /\ UNCHANGED <<queued, pc, run, now>>

DeleteRecord ==
    /\ Current # Nil /\ Spend("edits")
    /\ Write(Nil)
    /\ UNCHANGED <<queued, pc, run, now>>

\* The agent stores what a method made of the record, unless it failed.
Store(fnr) ==
    /\ Spend("writes") /\ fnr # Nil
    /\ Write(fnr)
    /\ UNCHANGED <<queued, pc, run, now>>

\* A notification of the fleet gets its place in the record, with its
\* resendWait as it is now.
AgentRegister(mfn, name) ==
    LET fn == GetNotificationByName(mfn, name)
    IN  /\ Current # Nil /\ fn # Nil /\ RecordSlots(Current, name) = {}
        /\ Spend("edits")
        /\ Write([Current EXCEPT !.records =
                      Append(@, [notificationName |-> name,
                                 resendWait |-> fn.resendWait, items |-> <<>>])])
        /\ UNCHANGED <<queued, pc, run, now>>

AgentAdd(name, cluster) ==
    Current # Nil /\ Store(AddNotificationRecordItem(Current, cluster, name))

\* A notification has been sent and is recorded, in a new item if need be.
AgentRecord(name, cluster, statusFiring) ==
    /\ Current # Nil
    /\ LET added == AddNotificationRecordItem(Current, cluster, name)
       IN  Store(UpdateNotificationRecordItem(IF added = Nil THEN Current ELSE added,
                                              name, cluster, statusFiring, now))
    /\ statusFiring => FiringCanBeSent(Current, Current.managementCluster, name,
                                       cluster, now)

AgentRemove(name, cluster) ==
    Current # Nil /\ Store(RemoveNotificationRecordItem(Current, name, cluster))

Tick ==
    /\ now < MaxTime
    /\ now' = now + 1
    /\ UNCHANGED <<versions, queued, pc, run, budget>>

-----------------------------------------------------------------------------
Agent ==
    \E name \in Notifications :
        \/ \E mfn \in Fleet : AgentRegister(mfn, name)
        \/ \E cluster \in Clusters :
               \/ AgentAdd(name, cluster)
               \/ \E statusFiring \in BOOLEAN : AgentRecord(name, cluster, statusFiring)
               \/ AgentRemove(name, cluster)

Next ==
    \/ Reconcile \/ patchRemove
    \/ Watch \/ Resync \/ Restart
    \/ CreateRecord \/ DeleteRecord \/ Agent \/ Tick

Spec == Init /\ [][Next]_vars

\* The worker, the watch and the resync of the informer go on.
FairSpec ==
    /\ Spec
    /\ WF_vars(Reconcile) /\ WF_vars(patchRemove)
    /\ WF_vars(Watch) /\ WF_vars(Resync)

-----------------------------------------------------------------------------
\* A hosted cluster has at most one item under a notification, whatever the
\* agent adds and the controller removes by position: the methods look at
\* the first item they find and would leave a second one behind.
OneItemPerCluster ==
    Current # Nil =>
        \A n \in DOMAIN Current.records : \A c \in Clusters :
            \A i, j \in ItemSlots(Current.records[n], c) : i = j

\* patchRemove takes away an item.
Removes == patchRemove /\ versions' # versions

\* An item that was not stale is not there any more.
RemovesRecent ==
    /\ Removes
    /\ \E n \in DOMAIN Current.records :
           \E i \in DOMAIN Current.records[n].items :
               LET rn == Current.records[n]
               IN  /\ ~stale(rn, rn.items[i], now)
                   /\ rn.items[i] \notin Range(Current'.records[n].items)

\* An item that is not stale is lost only when the record was written after
\* the copy that the reconciler read.
RecentLostOnlyIfOutrun == [][RemovesRecent => run.copy # Current]_vars

\* Cleaning up an unchanged record never lets a notification be sent again
\* that FiringCanBeSent would still have held back, provided the arithmetic
\* on its resendWait does not overflow.
ResendWindowKept ==
    [][Removes /\ run.copy = Current =>
          \A mc \in MgmtClusters, name \in Notifications, c \in Clusters :
              LET rn == GetNotificationRecordByName(Current, mc, name)
              IN  /\ rn # Nil => Fits(rn.resendWait)
                  /\ FiringCanBeSent(Current', mc, name, c, now)
                  => FiringCanBeSent(Current, mc, name, c, now)]_vars

\* One item is removed per reconcile; in the end all stale ones are.
StaleItemsGo == <>[](Current # Nil => StaleSlots(Current, now) = {})

-----------------------------------------------------------------------------
(* The record as a ledger.                                                 *)

EntryOf(rn, item) ==
    [name |-> rn.notificationName, cluster |-> item.hostedClusterID,
     firing |-> item.firing, resolved |-> item.resolved,
     time |-> item.lastTransitionTime]

EntriesOf(fnr) ==
    IF fnr = Nil THEN {}
    ELSE UNION {{EntryOf(fnr.records[n], fnr.records[n].items[i]) :
                     i \in DOMAIN fnr.records[n].items} : n \in DOMAIN fnr.records}

WaitsOf(fnr) ==
    IF fnr = Nil THEN {}
    ELSE {<<fnr.records[n].notificationName, fnr.records[n].resendWait>> :
              n \in DOMAIN fnr.records}

\* The reconciler's position means something only in the copy that it read.
AimOf(fnr, copy, slot) ==
    IF fnr # copy THEN {}
    ELSE {EntryOf(fnr.records[slot[1]], fnr.records[slot[1]].items[slot[2]])}

Ledger ==
    INSTANCE FleetLedger
    WITH Names <- Notifications, Waits <- ResendWaits,
         open <- Current # Nil, waits <- WaitsOf(Current),
         entries <- EntriesOf(Current),
         cleaning <- pc = "patchRemove",
         aim <- IF pc = "patchRemove" THEN AimOf(Current, run.copy, run.slot) ELSE {},
         behind <- Len(versions) > 1

\* The lists that the methods of the record search and change, and the
\* removal by position in a cached copy, keep the promise of FleetLedger: a
\* change concerns one notification and one hosted cluster, and the operator
\* removes what it found stale unless somebody wrote in between or its cache
\* was behind.
ImplementsLedger == Ledger!Spec

\* "deletes stale records and keeps recent ones": the controller never
\* removes an item that is not stale.
KeepsRecentItems == [][~RemovesRecent]_vars

=============================================================================
