---------------------- MODULE OcmAgentControllerProofs ----------------------
(***************************************************************************)
(* Theorems about OcmAgentController: typing, safe removal and that no     *)
(* edit is lost, for any edits of the resources; that the CAMO ConfigMap   *)
(* is guarded, when every OcmAgent has its finalizer before it is deleted; *)
(* that nothing the finalizer protects is left when an OcmAgent loses it,  *)
(* whatever failed and whoever interfered; what a successful reconcile has *)
(* put in place; that no OcmAgent is forgotten by the reconciler; and that *)
(* the operator implements AgentLifecycle.                                 *)
(***************************************************************************)
EXTENDS OcmAgentProperties, OcmAgentStepProofs, OcmAgentDeploymentProofs

-----------------------------------------------------------------------------
\* Every variable keeps its type through all steps of the reconciler, the
\* handler, the watches, restarts and everybody else.
THEOREM TypeCorrect == Spec => []TypeOK
<1>1. Inv => TypeOK
    BY Zenon DEF Inv, BaseInv
<1> QED
    BY <1>1, Invariance, PTL

\* A resource that one version shows in deletion is so in all later ones.
LEMMA DeletionStays ==
    ASSUME NEW h, HistoryOK(h),
           NEW v \in 1..Len(h), NEW w \in 1..Len(h), NEW x \in 1..Len(h),
           v <= w, w <= x, h[v] # Nil, h[w] # Nil, h[x] # Nil,
           h[x].uid = h[v].uid, h[w].deleting
    PROVE  h[x].deleting
<1>1. \A y \in 1..Len(h) : h[y] # Nil => h[y].uid \in Nat
    <2>1. \A y \in 1..Len(h) : h[y] \in OcmAgents \cup {Nil}
        BY DEF HistoryOK, Histories
    <2> QED
        BY <2>1, Zenon DEF OcmAgents
<1>2. /\ h[v].uid <= h[w].uid /\ h[w].uid <= h[x].uid
      /\ h[w].uid = h[x].uid => h[x].deleting
    BY Zenon DEF HistoryOK
<1>3. PICK i \in Nat, j \in Nat : i = h[v].uid /\ j = h[w].uid
    BY <1>1, Zenon
<1>4. i <= j /\ j <= i
    BY <1>2, <1>3, Zenon
<1>5. i = j
    BY <1>3, <1>4
<1> QED
    BY <1>2, <1>3, <1>5, Zenon

\* EnsureOCMAgentResourcesAbsent never removes an object that belongs to a
\* live OcmAgent of the name it works on, however old its cached copy is.
THEOREM RemovalIsSafe == Spec => RemovesOnlyTheDead
<1>1. Inv /\ [Next]_vars =>
          [\A k \in Keys :
              /\ EnsureOCMAgentResourcesAbsent
              /\ objs[k] # Nil /\ objs'[k] = Nil /\ objs[k].owner # Nil
              /\ objs[k].owner.agent = run.agent
              => ~Live(objs[k].owner)]_vars
    <2> SUFFICES ASSUME Inv, NEW k \in Keys, EnsureOCMAgentResourcesAbsent,
                        objs[k] # Nil, objs[k].owner # Nil,
                        objs[k].owner.agent = run.agent, Live(objs[k].owner)
                 PROVE  FALSE
        BY Zenon
    <2> DEFINE h == hist[run.agent]
    <2>1. pc # "idle" /\ pc \in AbsentSteps
        BY Zenon DEF EnsureOCMAgentResourcesAbsent, ensureDeploymentDeleted,
               ensureServiceDeleted, ensureAllConfigMapsDeleted,
               ensureNetworkPolicyDeleted, ensureServiceMonitorDeleted,
               ensurePodDisruptionBudgetDeleted, ensureAccessTokenSecretDeleted,
               AbsentSteps
    <2>2. /\ run.agent \in Agents /\ run.version \in 1..seen[run.agent]
          /\ h[run.version] # Nil /\ h[run.version].deleting
        BY <2>1, Zenon DEF Inv, BaseInv, RunOK
    <2>3. PICK v \in 1..run.version : h[v] # Nil /\ h[v].uid = objs[k].owner.uid
        BY <2>1, Zenon DEF Inv, OwnedInv, Horizon
    <2>4. /\ HistoryOK(h) /\ run.version \in 1..Len(h) /\ v \in 1..Len(h)
          /\ Len(h) \in 1..Len(h) /\ v <= run.version /\ run.version <= Len(h)
        BY <2>2, <2>3, CachedFacts DEF Inv, BaseInv, HistoryInv
    <2>5. h[Len(h)] # Nil /\ h[Len(h)].uid = h[v].uid /\ ~h[Len(h)].deleting
        BY <2>3, Zenon DEF Live, Current, Version
    <2> HIDE DEF h
    <2> QED
        BY <2>2, <2>3, <2>4, <2>5, DeletionStays, Zenon
<1> QED
    BY <1>1, Invariance, PTL DEF Spec, RemovesOnlyTheDead

-----------------------------------------------------------------------------
\* Writing back a cached copy with or without its finalizer never undoes what
\* a user did to the resource meanwhile: addFinalizer and removeFinalizer get
\* through only with the current version.
THEOREM NoEditIsLost == Spec => NoLostEdit
<1>1. Inv /\ [Next]_vars =>
          [\A a \in Agents :
              /\ addFinalizer \/ removeFinalizer
              /\ Current(a) # Nil /\ (Current(a) # Nil)'
              => /\ Current(a)'.spec = Current(a).spec
                 /\ Current(a)'.deleting = Current(a).deleting]_vars
    <2> SUFFICES ASSUME Inv, NEW a \in Agents, addFinalizer \/ removeFinalizer,
                        Current(a)' # Nil
                 PROVE  /\ Current(a)'.spec = Current(a).spec
                        /\ Current(a)'.deleting = Current(a).deleting
        BY Zenon
    <2>1. /\ pc # "idle"
          /\ \/ UNCHANGED hist
             \/ \E b \in BOOLEAN :
                    LET o == [instance EXCEPT !.finalizer = b]
                    IN  Update(o) \/ Update(Finalized(o))
        BY ZenonT(30) DEF addFinalizer, removeFinalizer, FailedUpdate
    <2>2. CASE UNCHANGED hist
        BY <2>2, Zenon DEF Current, Version
    <2>3. ASSUME NEW b \in BOOLEAN, NEW e, Update(e),
                 e \in {[instance EXCEPT !.finalizer = b],
                        Finalized([instance EXCEPT !.finalizer = b])}
          PROVE  /\ Current(a)'.spec = Current(a).spec
                 /\ Current(a)'.deleting = Current(a).deleting
        <3> DEFINE o == [instance EXCEPT !.finalizer = b]
        <3>1. /\ Write(run.agent, e) /\ instance = Current(run.agent)
              /\ instance \in OcmAgents /\ run.agent \in Agents
            BY <2>1, <2>3, UpdateFollows, WorkerFacts, Zenon DEF Update
        <3>2. o.spec = instance.spec /\ o.deleting = instance.deleting
            BY <3>1, Zenon DEF OcmAgents
        <3>3. hist' = [hist EXCEPT ![run.agent] = Append(hist[run.agent], e)]
            BY <3>1, Zenon DEF Write
        <3>4. CASE a # run.agent
            BY <3>1, <3>3, <3>4, Zenon DEF Current, Version, Inv, BaseInv, TypeOK
        <3>5. CASE a = run.agent
            <4>1. hist'[a] = Append(hist[a], e)
                BY <3>3, <3>5, Zenon DEF Inv, BaseInv, TypeOK
            <4>2. o \in OcmAgents
                BY <3>1, Zenon DEF OcmAgents
            <4>3. e \in {o, Nil} /\ hist[a] \in Seq(OcmAgents \cup {Nil})
                BY <2>3, Zenon DEF Finalized, Inv, BaseInv, TypeOK
            <4>4. Current(a)' = e
                BY <4>1, <4>2, <4>3 DEF Current, Version
            <4> HIDE DEF o
            <4> QED
                BY <3>1, <3>2, <3>5, <4>3, <4>4, Zenon
        <3> QED
            BY <3>4, <3>5, Zenon
    <2> QED
        BY <2>1, <2>2, <2>3, ZenonT(30)
<1> QED
    BY <1>1, Invariance, PTL DEF Spec, NoLostEdit

-----------------------------------------------------------------------------
(* The CAMO ConfigMap.                                                     *)

LEMMA GuardsStored ==
    ASSUME NEW a \in Agents, UNCHANGED hist, Guards(a)
    PROVE  Guards(a)'
BY Zenon DEF Guards, Current, Version

LEMMA CAMOObjectStep ==
    ASSUME Inv, CAMOInv, ObjectStep
    PROVE  CAMOInv'
<1>1. PICK t, k, o, next, local :
          /\ t \in Nat /\ Legal(k, o, next, local)
          /\ EnsureStepAt(t, k, o, next, local)
    BY Zenon DEF ObjectStep
<1>2. /\ UNCHANGED <<hist, seen>>
      /\ \/ pc' = next /\ run' = local
         \/ pc' = "idle" /\ run' = NoRun
      /\ pc' = next => objs'[k] = o
      /\ objs'[k] \in {o, objs[k]}
      /\ \A j \in Keys : j # k => objs'[j] = objs[j]
    BY <1>1, EnsureStepEffect DEF ObjectStep
<1>3. "idle" \notin ExistSteps /\ "idle" \notin AfterCAMO
    BY Zenon DEF ExistSteps, AfterCAMO
<1>4. \A a \in Agents : \A v \in seen'[a]..Len(hist'[a]) :
          hist'[a][v] # Nil /\ ~hist'[a][v].deleting => Guards(a)'
    BY <1>2, GuardsStored, Zenon DEF CAMOInv
<1>5. run.agent \in Agents
    BY Zenon DEF ObjectStep, Inv, BaseInv, RunOK
<1>6. pc' \in ExistSteps => Guards(run.agent)'
    <2> SUFFICES ASSUME pc' \in ExistSteps PROVE Guards(run.agent)'
        BY Zenon
    <2>1. run'.agent = run.agent /\ pc \in ExistSteps
        BY <1>1, <1>2, <1>3, Zenon DEF Legal
    <2> QED
        BY <1>2, <1>5, <2>1, GuardsStored, Zenon DEF CAMOInv, Guards, Current, Version
<1>7. pc' \in AfterCAMO => objs'[CAMOKey] = Nil
    BY <1>1, <1>2, <1>3, SharedKeys, Zenon DEF Legal, CAMOInv
<1>8. CAMOConfigMapGuarded'
    <2>1. CASE objs'[CAMOKey] # Nil /\ objs[CAMOKey] = Nil
        <3>1. pc \in ExistSteps
            BY <1>1, <1>2, <2>1, SharedKeys, Zenon DEF Legal
        <3>2. PICK a \in Agents : a = run.agent
            BY <1>5, Zenon
        <3>3. Guards(a)
            BY <3>1, <3>2, Zenon DEF CAMOInv
        <3> QED
            BY <1>2, <3>3, GuardsStored, Zenon DEF CAMOConfigMapGuarded
    <2>2. CASE objs'[CAMOKey] # Nil /\ objs[CAMOKey] # Nil
        BY <1>2, <2>2, GuardsStored, Zenon DEF CAMOInv, CAMOConfigMapGuarded
    <2> QED
        BY <2>1, <2>2, Zenon DEF CAMOConfigMapGuarded
<1> QED
    BY <1>4, <1>6, <1>7, <1>8, ZenonT(30) DEF CAMOInv

\* Steps that do not touch the histories, make no new CAMO ConfigMap, and let
\* the cache only move forward.
LEMMA CAMOBystander ==
    ASSUME Inv, CAMOInv, UNCHANGED hist,
           \A b \in Agents : seen[b] <= seen'[b] /\ seen'[b] \in Nat,
           objs'[CAMOKey] \in {objs[CAMOKey], Nil}
               \/ (objs[CAMOKey] # Nil /\ pc' \notin AfterCAMO),
           pc' \in AfterCAMO => pc \in AfterCAMO,
           pc' \in ExistSteps =>
               run'.agent \in Agents /\ Guards(run'.agent)
    PROVE  CAMOInv'
<1>1. \A a \in Agents : \A v \in seen'[a]..Len(hist'[a]) :
          hist'[a][v] # Nil /\ ~hist'[a][v].deleting => Guards(a)'
    <2> SUFFICES ASSUME NEW a \in Agents, NEW v \in seen'[a]..Len(hist[a]),
                        hist[a][v] # Nil, ~hist[a][v].deleting
                 PROVE  Guards(a)'
        BY Zenon
    <2>1. v \in seen[a]..Len(hist[a])
        BY CachedFacts
    <2> QED
        BY <2>1, GuardsStored, Zenon DEF CAMOInv
<1>2. pc' \in ExistSteps => Guards(run.agent)'
    BY Zenon DEF Guards, Current, Version
<1>3. pc' \in AfterCAMO => objs'[CAMOKey] = Nil
    BY Zenon DEF CAMOInv
<1>4. CAMOConfigMapGuarded'
    BY GuardsStored, Zenon DEF CAMOInv, CAMOConfigMapGuarded
<1> QED
    BY <1>1, <1>2, <1>3, <1>4, Zenon DEF CAMOInv

\* A write that leaves the OcmAgent guarding, or happens without the CAMO
\* ConfigMap in a run that is over.
LEMMA CAMOWrite ==
    ASSUME Inv, CAMOInv, NEW a \in Agents, NEW e, Follows(hist[a], e), Write(a, e),
           UNCHANGED <<seen, objs>>, WorkerKept,
           \/ e # Nil /\ (~e.deleting \/ e.finalizer)
           \/ ~Guards(a) /\ (e = Nil \/ e.deleting)
           \/ /\ objs[CAMOKey] = Nil /\ seen[a] = Len(hist[a]) /\ Return
              /\ Current(a) # Nil /\ Current(a).deleting
              /\ e = Nil \/ e.deleting
    PROVE  CAMOInv'
<1>1. /\ \A b \in Agents : b # a => hist'[b] = hist[b]
      /\ Len(hist'[a]) = Len(hist[a]) + 1 /\ hist'[a][Len(hist[a]) + 1] = e
      /\ \A v \in 1..Len(hist[a]) : hist'[a][v] = hist[a][v]
    BY Written, Zenon
<1>2. ASSUME NEW b \in Agents
      PROVE  Guards(b)' <=> IF b = a THEN e # Nil /\ (~e.deleting \/ e.finalizer)
                                     ELSE Guards(b)
    BY <1>1, ZenonT(30) DEF Guards, Current, Version
<1>3. \A b \in Agents : \A v \in seen'[b]..Len(hist'[b]) :
          hist'[b][v] # Nil /\ ~hist'[b][v].deleting => Guards(b)'
    <2> SUFFICES ASSUME NEW b \in Agents, NEW v \in seen[b]..Len(hist'[b]),
                        hist'[b][v] # Nil, ~hist'[b][v].deleting
                 PROVE  Guards(b)'
        BY Zenon
    <2>1. CASE b # a
        BY <1>1, <1>2, <2>1, ZenonT(30) DEF CAMOInv
    <2>2. CASE b = a /\ v = Len(hist[a]) + 1
        BY <1>1, <1>2, <2>2, Zenon
    <2>3. CASE b = a /\ v \in seen[a]..Len(hist[a])
        <3>1. v \in 1..Len(hist[a]) /\ hist'[b][v] = hist[a][v]
            BY <1>1, <2>3, CachedFacts, SMTT(30)
        <3>2. Guards(a)
            BY <2>3, <3>1, Zenon DEF CAMOInv
        <3>3. CASE e # Nil /\ (~e.deleting \/ e.finalizer)
            BY <1>2, <2>3, <3>3, Zenon
        <3>4. CASE seen[a] = Len(hist[a]) /\ Current(a).deleting
            <4>1. v = Len(hist[a])
                BY <2>3, <3>4, CachedFacts
            <4> QED
                BY <3>1, <3>4, <4>1, ZenonT(30) DEF Current, Version
        <3> QED
            BY <3>2, <3>3, <3>4, ZenonT(30)
    <2> QED
        BY <1>1, <2>1, <2>2, <2>3, CachedFacts, SMTT(30)
<1>4. "idle" \notin ExistSteps /\ "idle" \notin AfterCAMO
    BY Zenon DEF ExistSteps, AfterCAMO
<1>5. pc' \in ExistSteps \cup AfterCAMO => pc' = pc /\ run' = run
    BY <1>4, Zenon DEF WorkerKept, Return, Goto
<1>6. pc' \in ExistSteps => Guards(run.agent)'
    <2> SUFFICES ASSUME pc' \in ExistSteps PROVE Guards(run.agent)'
        BY Zenon
    <2>1. run' = run /\ Guards(run.agent) /\ pc # "idle" /\ pc' # "idle"
        BY <1>4, <1>5, Zenon DEF CAMOInv
    <2>2. PICK b \in Agents : b = run.agent
        BY <2>1, Zenon DEF Inv, BaseInv, RunOK
    <2>3. Guards(b)'
        BY <1>2, <2>1, <2>2, Zenon DEF Return, Goto
    <2> QED
        BY <2>1, <2>2, <2>3, Zenon DEF Guards, Current, Version
<1>7. pc' \in AfterCAMO => objs'[CAMOKey] = Nil
    BY <1>5, Zenon DEF CAMOInv
<1>8. CAMOConfigMapGuarded'
    <2> SUFFICES ASSUME objs[CAMOKey] # Nil PROVE \E b \in Agents : Guards(b)'
        BY Zenon DEF CAMOConfigMapGuarded
    <2>1. PICK b \in Agents : Guards(b)
        BY Zenon DEF CAMOInv, CAMOConfigMapGuarded
    <2>2. Guards(b)'
        BY <1>2, <2>1, Zenon
    <2> QED
        BY <2>2, Zenon
<1> QED
    BY <1>3, <1>6, <1>7, <1>8, Zenon DEF CAMOInv

LEMMA CAMOInit == Init => CAMOInv
<1> SUFFICES ASSUME Init PROVE CAMOInv
    BY Zenon
<1>1. /\ objs[CAMOKey] = Nil
      /\ pc \notin ExistSteps
    BY SharedKeys, Zenon DEF Init, ExistSteps
<1>2. ASSUME NEW a \in Agents, NEW v \in seen[a]..Len(hist[a])
      PROVE  hist[a][v] = Nil
    <2>1. hist[a] = <<Nil>> /\ seen[a] = 1 /\ Len(<<Nil>>) = 1 /\ <<Nil>>[1] = Nil
        BY Zenon DEF Init
    <2>2. v = 1
        BY <1>2, <2>1
    <2> QED
        BY <2>1, <2>2, Zenon
<1> QED
    BY <1>1, <1>2, Zenon DEF CAMOInv, CAMOConfigMapGuarded

LEMMA CAMOFinalizers ==
    ASSUME Inv, CAMOInv, addFinalizer \/ removeFinalizer
    PROVE  CAMOInv'
<1>1. /\ pc # "idle" /\ Return
      /\ UNCHANGED <<seen, objs>>
    BY Zenon DEF addFinalizer, removeFinalizer, cluster
<1>2. /\ run.agent \in Agents /\ instance \in OcmAgents /\ instance # Nil
      /\ \A b \in Agents : seen[b] <= seen'[b] /\ seen'[b] \in Nat
      /\ pc' \notin ExistSteps /\ pc' \notin AfterCAMO
    BY <1>1, WorkerFacts, NoAgentAssumption, SMTT(30)
       DEF Return, Goto, ExistSteps, AfterCAMO, Inv, BaseInv, TypeOK
<1>3. CASE UNCHANGED hist
    BY <1>1, <1>2, <1>3, CAMOBystander, Zenon
<1>4. ASSUME addFinalizer, Update([instance EXCEPT !.finalizer = TRUE])
      PROVE  CAMOInv'
    <2> DEFINE e == [instance EXCEPT !.finalizer = TRUE]
    <2>1. Write(run.agent, e) /\ instance = Current(run.agent)
        BY <1>1, <1>4, UpdateFollows, Zenon DEF Update
    <2>2. /\ e \in OcmAgents /\ e # Nil /\ e.finalizer /\ e.uid = instance.uid
          /\ e.deleting = instance.deleting /\ e.foreground = instance.foreground
        BY <1>2, NoAgentAssumption, ZenonT(30) DEF OcmAgents
    <2> HIDE DEF e
    <2>3. Follows(hist[run.agent], e)
        BY <1>2, <2>1, <2>2, CurrentFacts, Zenon DEF Follows
    <2> QED
        BY <1>1, <1>2, <2>1, <2>2, <2>3, CAMOWrite, Zenon DEF WorkerKept
<1>5. ASSUME removeFinalizer, Update(Finalized([instance EXCEPT !.finalizer = FALSE]))
      PROVE  CAMOInv'
    <2> DEFINE o == [instance EXCEPT !.finalizer = FALSE]
               e == Finalized(o)
    <2>1. /\ Write(run.agent, e) /\ instance = Current(run.agent)
          /\ run.version = Len(hist[run.agent])
        BY <1>1, <1>5, UpdateFollows, Zenon DEF Update, Version
    <2>2. pc = "removeFinalizer" /\ pc \in AfterCAMO /\ pc \in AbsentSteps
        BY <1>5, Zenon DEF removeFinalizer, AfterCAMO, AbsentSteps
    <2>3. instance.deleting /\ objs[CAMOKey] = Nil
        BY <2>2, ZenonT(30) DEF CAMOInv, Inv, BaseInv, RunOK, instance
    <2>4. seen[run.agent] = Len(hist[run.agent])
        BY <1>1, <1>2, <2>1, CachedFacts DEF Inv, BaseInv, RunOK
    <2>5. /\ o \in OcmAgents /\ o.uid = instance.uid /\ o.deleting
          /\ o.foreground \in BOOLEAN
        BY <1>2, <2>3, ZenonT(30) DEF OcmAgents
    <2> HIDE DEF o
    <2>6. Follows(hist[run.agent], e) /\ (e = Nil \/ e.deleting)
        BY <1>2, <2>1, <2>5, FinalizedFollows, Zenon DEF Finalized
    <2> HIDE DEF e
    <2> QED
        BY <1>1, <1>2, <2>1, <2>3, <2>4, <2>6, CAMOWrite, ZenonT(30) DEF WorkerKept
<1> QED
    BY <1>3, <1>4, <1>5, Zenon DEF addFinalizer, removeFinalizer, FailedUpdate

\* This is where the finalizer has to be there before the deletion.
LEMMA CAMOOthersWrite ==
    ASSUME ~EarlyDelete, Inv, CAMOInv, NEW a \in Agents, User(a) \/ DependentsGone(a)
    PROVE  CAMOInv'
<1>1. UNCHANGED <<seen, objs>> /\ WorkerKept
    BY ZenonT(30) DEF User, CreateOcmAgent, UpdateOcmAgent, DeleteOcmAgent, DependentsGone,
           cluster, WorkerKept
<1>2. PICK e : OthersWrite(a, e)
    BY OthersWriteSomething, Zenon
<1> QED
    BY <1>1, <1>2, CAMOWrite, Zenon DEF OthersWrite

LEMMA CAMOReconcile ==
    ASSUME Inv, CAMOInv, NEW a \in Agents, Reconcile(a)
    PROVE  CAMOInv'
<1>1. /\ pc = "idle" /\ UNCHANGED <<hist, seen, objs>>
      /\ UNCHANGED <<pc, run>> \/ Started(a)
    BY ReconcileEffect, Zenon
<1>2. \A b \in Agents : seen[b] <= seen'[b] /\ seen'[b] \in Nat
    BY <1>1 DEF Inv, BaseInv, TypeOK
<1>3. CASE UNCHANGED <<pc, run>>
    BY <1>1, <1>2, <1>3, CAMOBystander, Zenon DEF ExistSteps, AfterCAMO
<1>4. CASE Started(a)
    <2>1. /\ run'.agent = a /\ Cached(a) # Nil
          /\ pc' \in {"deleteDeployment", "ensureFleetSecret", "fetchPullSecret"}
          /\ pc' \in ExistSteps => ~Cached(a).deleting
        BY <1>4, StartedFacts, ZenonT(30) DEF Started
    <2>2. pc' \notin AfterCAMO
        BY <2>1, Zenon DEF AfterCAMO
    <2>3. seen[a] \in seen[a]..Len(hist[a])
        BY CachedFacts
    <2>4. pc' \in ExistSteps => Guards(a)
        BY <2>1, <2>3, Zenon DEF CAMOInv, Cached
    <2> QED
        BY <1>1, <1>2, <2>1, <2>2, <2>4, CAMOBystander, ZenonT(30)
<1> QED
    BY <1>1, <1>3, <1>4, Zenon

\* Steps during which the worker stands still and no agent is written.
LEMMA CAMOStill ==
    ASSUME Inv, CAMOInv, UNCHANGED <<hist, pc, run>>,
           \A b \in Agents : seen[b] <= seen'[b] /\ seen'[b] \in Nat,
           objs[CAMOKey] = Nil => objs'[CAMOKey] = Nil
    PROVE  CAMOInv'
<1>1. pc \in ExistSteps => run.agent \in Agents /\ Guards(run.agent)
    BY Zenon DEF CAMOInv, Inv, BaseInv, RunOK, ExistSteps
<1>2. pc \in AfterCAMO => objs[CAMOKey] = Nil
    BY Zenon DEF CAMOInv
<1> QED
    BY <1>1, <1>2, CAMOBystander, Zenon

LEMMA CAMOEnvironment ==
    ASSUME ~EarlyDelete, Inv, CAMOInv, Environment
    PROVE  CAMOInv'
<1>1. CASE \E a \in Agents : User(a) \/ DependentsGone(a)
    BY <1>1, CAMOOthersWrite, Zenon
<1>2. CASE ~\E a \in Agents : User(a) \/ DependentsGone(a)
    <2>1. UNCHANGED <<hist, seen, pc, run>>
        BY <1>2, Zenon DEF Environment, ChangePullSecret, ChangeProxy, ProvisionSecret,
                    Tamper, GarbageCollect, InjectTrustedCa
    <2>2. \A b \in Agents : seen[b] <= seen'[b] /\ seen'[b] \in Nat
        BY <2>1 DEF Inv, BaseInv, TypeOK
    <2>3. ASSUME objs[CAMOKey] = Nil PROVE objs'[CAMOKey] = Nil
        <3>1. CASE ChangePullSecret \/ ChangeProxy
            BY <2>3, <3>1, Zenon DEF ChangePullSecret, ChangeProxy
        <3>2. ASSUME NEW s \in TokenSecrets, ProvisionSecret(s)
              PROVE  objs'[CAMOKey] = Nil
            BY <2>3, <3>2, CAMOKeyUnique, SharedKeys, ZenonT(30)
               DEF ProvisionSecret, Put, Inv, BaseInv, TypeOK
        <3>3. ASSUME NEW k \in Keys, Tamper(k)
              PROVE  objs'[CAMOKey] = Nil
            BY <2>3, <3>3, SharedKeys, ZenonT(30) DEF Tamper, Put, Inv, BaseInv, TypeOK
        <3>4. ASSUME NEW k \in Keys, GarbageCollect(k)
              PROVE  objs'[CAMOKey] = Nil
            BY <2>3, <3>4, SharedKeys, Zenon DEF GarbageCollect
        <3>5. CASE InjectTrustedCa
            BY <2>3, <3>5, CAMOKeyUnique, SharedKeys, ZenonT(30)
               DEF InjectTrustedCa, Put, Inv, BaseInv, TypeOK
        <3> QED
            BY <1>2, <3>1, <3>2, <3>3, <3>4, <3>5, ZenonT(30) DEF Environment
    <2> QED
        BY <2>1, <2>2, <2>3, CAMOStill, Zenon
<1> QED
    BY <1>1, <1>2, Zenon

LEMMA CAMONext ==
    ASSUME ~EarlyDelete
    PROVE  Inv /\ CAMOInv /\ [Next]_vars => CAMOInv'
<1> SUFFICES ASSUME Inv, CAMOInv, [Next]_vars PROVE CAMOInv'
    BY Zenon
<1>1. ASSUME NEW a \in Agents, Reconcile(a) PROVE CAMOInv'
    BY <1>1, CAMOReconcile, Zenon
<1>2. ASSUME NEW a \in Agents, WatchOcmAgent(a) PROVE CAMOInv'
    <2>1. \A b \in Agents : seen[b] <= seen'[b] /\ seen'[b] \in Nat
        BY <1>2, WatchEffect, CachedFacts
    <2> QED
        BY <1>2, <2>1, WatchEffect, CAMOStill, Zenon
<1>3. CASE Worker
    <2>1. CASE pc # "idle" /\ QuietStep
        <3>1. \A b \in Agents : seen[b] <= seen'[b] /\ seen'[b] \in Nat
            BY <2>1 DEF QuietStep, Inv, BaseInv, TypeOK
        <3>2. /\ UNCHANGED <<hist, objs>>
              /\ pc' \notin AfterCAMO
              /\ pc' \in ExistSteps => pc \in ExistSteps /\ run'.agent = run.agent
            BY <2>1, Zenon DEF QuietStep, ExistSteps, AfterCAMO
        <3>3. pc' \in ExistSteps => run'.agent \in Agents /\ Guards(run'.agent)
            BY <2>1, <3>2, Zenon DEF CAMOInv, Inv, BaseInv, RunOK
        <3> QED
            BY <3>1, <3>2, <3>3, CAMOBystander, ZenonT(30)
    <2>2. CASE EnsureOCMAgentResourcesExist \/ EnsureOCMAgentResourcesAbsent
        BY <2>1, <2>2, ExistStep, AbsentStep, CAMOObjectStep, Zenon
    <2>3. CASE addFinalizer \/ removeFinalizer
        BY <2>3, CAMOFinalizers, Zenon
    <2> QED
        BY <1>3, <2>2, <2>3, Zenon DEF Worker
<1>4. CASE Restart
    <2>1. /\ \A b \in Agents : seen[b] <= seen'[b] /\ seen'[b] \in Nat
          /\ UNCHANGED <<hist, objs>> /\ pc' \notin ExistSteps /\ pc' \notin AfterCAMO
        BY <1>4, RestartEffect, CachedFacts, Zenon DEF Return, Goto, ExistSteps, AfterCAMO
    <2> QED
        BY <2>1, CAMOBystander, Zenon
<1>5. CASE Environment
    BY <1>5, CAMOEnvironment, Zenon
<1>6. CASE UNCHANGED vars
    <2>1. UNCHANGED <<hist, seen, objs, pc, run>>
        BY <1>6, Zenon DEF vars
    <2>2. \A b \in Agents : seen[b] <= seen'[b] /\ seen'[b] \in Nat
        BY <2>1 DEF Inv, BaseInv, TypeOK
    <2> QED
        BY <2>1, <2>2, CAMOStill, Zenon
<1> QED
    BY <1>1, <1>2, <1>3, <1>4, <1>5, <1>6, Zenon DEF Next

\* The CAMO ConfigMap, which nothing but the finalizer's clean-up removes, is
\* there only while some OcmAgent is whose clean-up still lies ahead,
\* provided that no OcmAgent is deleted before it has its finalizer.
THEOREM CAMOGuarded ==
    ASSUME ~EarlyDelete
    PROVE  Spec => []CAMOConfigMapGuarded
<1>1. CAMOInv => CAMOConfigMapGuarded
    BY Zenon DEF CAMOInv
<1>2. Inv /\ CAMOInv /\ [Next]_vars => CAMOInv'
    BY CAMONext, Zenon
<1> QED
    BY <1>1, <1>2, CAMOInit, Invariance, PTL DEF Spec

-----------------------------------------------------------------------------
(* What the removal has taken away.                                        *)

\* The steps of a removal after those of the Deployment, of the Service, of
\* the ServiceMonitor and of the disruption budget.
AfterDeployment == AbsentSteps \ {"deleteDeployment"}

AfterService == AfterDeployment \ {"deleteService"}

AfterPDB == {"deleteSecret", "removeFinalizer"}

AfterServiceMonitor == {"deletePDB"} \cup AfterPDB

\* The objects that are gone when the removal of an OcmAgent with this spec
\* comes to a step.
Gone(step, r, spec) ==
    {k \in Keys :
        \/ step \in AfterDeployment /\ k = DeploymentKey(r.agent)
        \/ step \in AfterService /\ k = ServiceKey(r.agent)
        \/ step \in AfterCAMO /\ k = CAMOKey
        \/ /\ step \in AfterCAMO
           /\ \E n \in Listed(networkPolicyNamespaces(spec)) :
                  /\ k = NetworkPolicyKey(r.agent, n)
                  /\ step = "deleteNetworkPolicy" => n \notin Listed(r.namespaces)
        \/ step \in AfterServiceMonitor /\ k = ServiceMonitorKey(r.agent)
        \/ step \in AfterPDB /\ k = PDBKey(r.agent)}

SecretGone(spec) == Controller(objs[SecretKey(spec.tokenSecret)]) = {}

RemovalInv ==
    /\ \A k \in Gone(pc, run, instance.spec) : objs[k] = Nil
    /\ pc = "removeFinalizer" /\ ~instance.spec.fleetMode => SecretGone(instance.spec)

\* Nothing needs to be gone outside these steps.
LEMMA RemovalNotBegun ==
    ASSUME pc' \notin AfterDeployment
    PROVE  RemovalInv'
BY Zenon DEF RemovalInv, Gone, AfterDeployment, AfterService, AfterCAMO,
       AfterServiceMonitor, AfterPDB, AbsentSteps

\* The worker stands still, and what is gone does not come back.
LEMMA RemovalBystander ==
    ASSUME RemovalInv, UNCHANGED <<pc, run>>,
           pc \in AfterDeployment => instance' = instance,
           pc \in AfterDeployment => instance.spec.tokenSecret \in TokenSecrets,
           \A k \in Keys : /\ \A s : k # SecretKey(s)
                           /\ objs[k] = Nil
                           => objs'[k] = Nil,
           \A s \in TokenSecrets :
               Controller(objs[SecretKey(s)]) = {} => Controller(objs[SecretKey(s)])' = {}
    PROVE  RemovalInv'
<1>1. CASE pc \notin AfterDeployment
    BY <1>1, RemovalNotBegun, Zenon
<1>2. CASE pc \in AfterDeployment
    <2>1. instance' = instance /\ pc' = pc /\ run' = run
        BY <1>2, Zenon
    <2>2. Gone(pc, run, instance.spec)' = Gone(pc, run, instance.spec)
        BY <2>1, Zenon DEF Gone
    <2>3. \A k \in Gone(pc, run, instance.spec) :
              k \in Keys /\ \A s : k # SecretKey(s)
        BY DEF Gone, DeploymentKey, ServiceKey, CAMOKey, NetworkPolicyKey,
               ServiceMonitorKey, PDBKey, SecretKey, Listed, networkPolicyNamespaces
    <2>4. \A k \in Gone(pc, run, instance.spec)' : objs'[k] = Nil
        BY <2>2, <2>3, Zenon DEF RemovalInv
    <2>5. pc = "removeFinalizer" /\ ~instance.spec.fleetMode
              => SecretGone(instance.spec)'
        BY <1>2, <2>1, Zenon DEF RemovalInv, SecretGone
    <2> QED
        BY <2>1, <2>4, <2>5, Zenon DEF RemovalInv
<1> QED
    BY <1>1, <1>2, Zenon

\* A deletion makes k go, or fails and ends the reconcile.
LEMMA RemovalDeletes ==
    ASSUME Inv, RemovalInv, pc # "idle", NEW k \in Keys, NEW next, NEW local,
           local.agent = run.agent, local.version = run.version,
           EnsureStep(k, Nil, next, local),
           Gone(next, local, instance.spec) \subseteq Gone(pc, run, instance.spec) \cup {k},
           next = "removeFinalizer" /\ ~instance.spec.fleetMode
               => k = SecretKey(instance.spec.tokenSecret)
    PROVE  RemovalInv'
<1>1. CASE pc' = "idle"
    <2>1. pc' \notin AfterDeployment
        BY <1>1, Zenon DEF AfterDeployment, AbsentSteps
    <2> QED
        BY <2>1, RemovalNotBegun, Zenon
<1>2. CASE Put(k, Nil, {}) /\ pc' = next /\ run' = local /\ UNCHANGED hist
    <2>1. instance' = instance
        BY <1>2, Zenon DEF instance
    <2>2. /\ objs'[k] = Nil
          /\ \A j \in Keys : objs[j] = Nil => objs'[j] = Nil
        BY <1>2, Zenon DEF Put, Inv, BaseInv, TypeOK
    <2>3. Gone(pc, run, instance.spec)' = Gone(next, local, instance.spec)
        BY <1>2, <2>1, ZenonT(30) DEF Gone
    <2>4. Gone(pc, run, instance.spec) \subseteq Keys
        BY Zenon DEF Gone
    <2>5. \A j \in Gone(pc, run, instance.spec)' : objs'[j] = Nil
        BY <2>2, <2>3, <2>4, Zenon DEF RemovalInv
    <2>6. pc' = "removeFinalizer" /\ ~instance.spec.fleetMode
              => SecretGone(instance.spec)'
        BY <1>2, <2>1, <2>2, Zenon DEF SecretGone, Controller
    <2> QED
        BY <2>1, <2>5, <2>6, Zenon DEF RemovalInv
<1> QED
    BY <1>1, <1>2, Zenon DEF EnsureStep, EnsureStepAt, Return, Goto

LEMMA RemovalAbsent ==
    ASSUME Inv, RemovalInv, EnsureOCMAgentResourcesAbsent
    PROVE  RemovalInv'
<1> USE DEF AbsentSteps, AfterDeployment, AfterService, AfterCAMO,
            AfterServiceMonitor, AfterPDB
<1>1. pc # "idle"
    BY Zenon DEF EnsureOCMAgentResourcesAbsent, ensureDeploymentDeleted,
           ensureServiceDeleted, ensureAllConfigMapsDeleted,
           ensureNetworkPolicyDeleted, ensureServiceMonitorDeleted,
           ensurePodDisruptionBudgetDeleted, ensureAccessTokenSecretDeleted
<1>2. run.agent \in Agents /\ instance.spec.tokenSecret \in TokenSecrets
    BY <1>1, WorkerFacts, Zenon DEF SpecType
<1>3. CASE ensureDeploymentDeleted
    <2>1. pc = "deleteDeployment" /\ DeploymentKey(run.agent) \in Keys
        BY <1>2, <1>3, AgentKeys, Zenon DEF ensureDeploymentDeleted
    <2>2. Gone("deleteService", run, instance.spec) \subseteq {DeploymentKey(run.agent)}
        BY Zenon DEF Gone
    <2> QED
        BY <1>1, <1>3, <2>1, <2>2, RemovalDeletes, ZenonT(30)
           DEF ensureDeploymentDeleted, DeleteStep
<1>4. CASE ensureServiceDeleted
    <2>1. /\ ServiceKey(run.agent) \in Keys /\ MetricsServiceKey(run.agent) \in Keys
        BY <1>2, AgentKeys, Zenon
    <2>2. CASE pc = "deleteService"
        <3>1. PICK next \in {"deleteConfigMap", "deleteMetricsService"} :
                  EnsureStep(ServiceKey(run.agent), Nil, next, run)
            BY <1>4, <2>2, Zenon DEF ensureServiceDeleted, DeleteStep
        <3>2. Gone(next, run, instance.spec)
                  \subseteq Gone(pc, run, instance.spec) \cup {ServiceKey(run.agent)}
            BY <2>2, Zenon DEF Gone
        <3> QED
            BY <1>1, <2>1, <3>1, <3>2, RemovalDeletes, Zenon
    <2>3. CASE pc = "deleteMetricsService"
        <3>1. EnsureStep(MetricsServiceKey(run.agent), Nil, "deleteConfigMap", run)
            BY <1>4, <2>3, Zenon DEF ensureServiceDeleted, DeleteStep
        <3>2. Gone("deleteConfigMap", run, instance.spec)
                  \subseteq Gone(pc, run, instance.spec)
            BY <2>3, Zenon DEF Gone
        <3> QED
            BY <1>1, <2>1, <3>1, <3>2, RemovalDeletes, Zenon
    <2> QED
        BY <1>4, <2>2, <2>3, Zenon DEF ensureServiceDeleted
<1>5. CASE ensureAllConfigMapsDeleted
    <2>1. CASE pc = "deleteConfigMap"
        <3>1. /\ PlainConfigMapKey(run.agent) \in Keys
              /\ EnsureStep(PlainConfigMapKey(run.agent), Nil, "deleteCAMO", run)
            BY <1>2, <1>5, <2>1, AgentKeys, Zenon DEF ensureAllConfigMapsDeleted, DeleteStep
        <3>2. Gone("deleteCAMO", run, instance.spec) \subseteq Gone(pc, run, instance.spec)
            BY <2>1, Zenon DEF Gone
        <3> QED
            BY <1>1, <3>1, <3>2, RemovalDeletes, Zenon
    <2>2. CASE pc = "deleteCAMO"
        <3> DEFINE local == [run EXCEPT !.namespaces =
                                 networkPolicyNamespaces(instance.spec)]
        <3>1. EnsureStep(CAMOKey, Nil, "deleteNetworkPolicy", local)
            BY <1>5, <2>2, Zenon DEF ensureAllConfigMapsDeleted
        <3>2. /\ local.agent = run.agent /\ local.version = run.version
              /\ local.namespaces = networkPolicyNamespaces(instance.spec)
            BY <1>1, WorkerFacts, Zenon DEF Runs
        <3> HIDE DEF local
        <3>3. Gone("deleteNetworkPolicy", local, instance.spec)
                  \subseteq Gone(pc, run, instance.spec) \cup {CAMOKey}
            BY <2>2, <3>2, Zenon DEF Gone
        <3> QED
            BY <1>1, <3>1, <3>2, <3>3, SharedKeys, RemovalDeletes, ZenonT(30)
    <2> QED
        BY <1>5, <2>1, <2>2, Zenon DEF ensureAllConfigMapsDeleted
<1>6. CASE ensureNetworkPolicyDeleted
    <2> DEFINE k == NetworkPolicyKey(run.agent, Head(run.namespaces))
               rest == Tail(run.namespaces)
               next == IF rest = <<>> THEN "deleteServiceMonitor"
                                      ELSE "deleteNetworkPolicy"
               local == [run EXCEPT !.namespaces = rest]
    <2>1. pc = "deleteNetworkPolicy" /\ EnsureStep(k, Nil, next, local)
        BY <1>6, Zenon DEF ensureNetworkPolicyDeleted, NetworkPolicyStep
    <2>2. k \in Keys
        BY <1>2, <2>1, NetworkPolicyFacts, AgentKeys, Zenon
    <2>3. /\ local.agent = run.agent /\ local.version = run.version
          /\ local.namespaces = rest
        BY <1>1, WorkerFacts, Zenon DEF Runs
    <2>4. /\ Listed(run.namespaces) = {Head(run.namespaces)} \cup Listed(rest)
          /\ next = "deleteServiceMonitor" => Listed(rest) = {}
          /\ next \in {"deleteServiceMonitor", "deleteNetworkPolicy"}
        BY <2>1, PoliciesLeft, ZenonT(30)
    <2> HIDE DEF next, local, rest
    <2>5. Gone(next, local, instance.spec)
              \subseteq Gone(pc, run, instance.spec) \cup {k}
        BY <2>1, <2>3, <2>4, ZenonT(30) DEF Gone
    <2> HIDE DEF k
    <2> QED
        BY <1>1, <2>1, <2>2, <2>3, <2>4, <2>5, RemovalDeletes, ZenonT(30)
<1>7. CASE ensureServiceMonitorDeleted
    <2>1. /\ pc = "deleteServiceMonitor" /\ ServiceMonitorKey(run.agent) \in Keys
          /\ EnsureStep(ServiceMonitorKey(run.agent), Nil, "deletePDB", run)
        BY <1>2, <1>7, AgentKeys, Zenon DEF ensureServiceMonitorDeleted, DeleteStep
    <2>2. Gone("deletePDB", run, instance.spec)
              \subseteq Gone(pc, run, instance.spec) \cup {ServiceMonitorKey(run.agent)}
        BY <2>1, Zenon DEF Gone
    <2> QED
        BY <1>1, <2>1, <2>2, RemovalDeletes, Zenon
<1>8. CASE ensurePodDisruptionBudgetDeleted
    <2>1. /\ pc = "deletePDB" /\ PDBKey(run.agent) \in Keys
          /\ \E next \in {"deleteSecret", "removeFinalizer"} :
                 /\ EnsureStep(PDBKey(run.agent), Nil, next, run)
                 /\ next = "removeFinalizer" => instance.spec.fleetMode
        BY <1>2, <1>8, AgentKeys, Zenon DEF ensurePodDisruptionBudgetDeleted, DeleteStep
    <2>2. PICK next \in {"deleteSecret", "removeFinalizer"} :
              /\ EnsureStep(PDBKey(run.agent), Nil, next, run)
              /\ next = "removeFinalizer" => instance.spec.fleetMode
        BY <2>1, Zenon
    <2>3. Gone(next, run, instance.spec)
              \subseteq Gone(pc, run, instance.spec) \cup {PDBKey(run.agent)}
        BY <2>1, Zenon DEF Gone
    <2> QED
        BY <1>1, <2>1, <2>2, <2>3, RemovalDeletes, Zenon
<1>9. CASE ensureAccessTokenSecretDeleted
    <2> DEFINE k == SecretKey(instance.spec.tokenSecret)
    <2>1. /\ pc = "deleteSecret" /\ k \in Keys
          /\ EnsureStep(k, Nil, "removeFinalizer", run)
        BY <1>2, <1>9, SharedKeys, Zenon DEF ensureAccessTokenSecretDeleted, DeleteStep
    <2>2. Gone("removeFinalizer", run, instance.spec) \subseteq Gone(pc, run, instance.spec)
        BY <2>1, Zenon DEF Gone
    <2> QED
        BY <1>1, <2>1, <2>2, RemovalDeletes, Zenon
<1> QED
    BY <1>3, <1>4, <1>5, <1>6, <1>7, <1>8, <1>9, ZenonT(30) DEF EnsureOCMAgentResourcesAbsent

\* Nobody but the worker makes an object that is gone, or gives one an owner;
\* the secrets of fleet-mode agents come without.
LEMMA NothingComesBack ==
    ASSUME Inv, \/ ChangePullSecret \/ ChangeProxy \/ InjectTrustedCa
                \/ \E s \in TokenSecrets : ProvisionSecret(s)
                \/ \E k \in Keys : Tamper(k) \/ GarbageCollect(k)
    PROVE  /\ UNCHANGED <<hist, seen, pc, run>>
           /\ \A j \in Keys :
                  /\ (\A s : j # SecretKey(s)) /\ objs[j] = Nil => objs'[j] = Nil
                  /\ Controller(objs[j]) = {} => Controller(objs'[j]) = {}
<1>1. UNCHANGED <<hist, seen, pc, run>>
    BY Zenon DEF ChangePullSecret, ChangeProxy, ProvisionSecret, Tamper, GarbageCollect,
           InjectTrustedCa
<1>2. CASE ChangePullSecret \/ ChangeProxy
    BY <1>1, <1>2, Zenon DEF ChangePullSecret, ChangeProxy
<1>3. CASE InjectTrustedCa
    <2>1. /\ objs[TrustedCaKey] # Nil /\ TrustedCaKey \in Keys
          /\ objs' = [objs EXCEPT ![TrustedCaKey] =
                          [objs[TrustedCaKey] EXCEPT !.data = "injected"]]
        BY <1>3, SharedKeys, Zenon DEF InjectTrustedCa, Put
    <2>2. objs[TrustedCaKey] \in Objects(TrustedCaKey)
        BY <2>1, ZenonT(30) DEF Inv, BaseInv, TypeOK
    <2> QED
        BY <1>1, <2>1, <2>2, ZenonT(30) DEF Controller, Objects, Inv, BaseInv, TypeOK
<1>4. ASSUME NEW s \in TokenSecrets, ProvisionSecret(s)
      PROVE  \A j \in Keys :
                 /\ (\A x : j # SecretKey(x)) /\ objs[j] = Nil => objs'[j] = Nil
                 /\ Controller(objs[j]) = {} => Controller(objs'[j]) = {}
    <2>1. PICK c : objs' = [objs EXCEPT ![SecretKey(s)] = [owner |-> Nil, data |-> c]]
        BY <1>4, ZenonT(30) DEF ProvisionSecret, Put
    <2> QED
        BY <2>1, SharedKeys, ZenonT(30) DEF Controller, Inv, BaseInv, TypeOK
<1>5. ASSUME NEW k \in Keys, Tamper(k)
      PROVE  \A j \in Keys :
                 /\ objs[j] = Nil => objs'[j] = Nil
                 /\ Controller(objs[j]) = {} => Controller(objs'[j]) = {}
    <2>1. objs[k] # Nil /\ objs[k] \in Objects(k)
        BY <1>5, ZenonT(30) DEF Tamper, Inv, BaseInv, TypeOK
    <2>2. \/ objs' = [objs EXCEPT ![k] = Nil]
          \/ \E d : objs' = [objs EXCEPT ![k] = [objs[k] EXCEPT !.data = d]]
        BY <1>5, ZenonT(30) DEF Tamper, Put
    <2>3. DOMAIN objs = Keys
        BY Zenon DEF Inv, BaseInv, TypeOK
    <2>4. CASE objs' = [objs EXCEPT ![k] = Nil]
        BY <2>3, <2>4, Zenon DEF Controller
    <2>5. ASSUME NEW d, objs' = [objs EXCEPT ![k] = [objs[k] EXCEPT !.data = d]]
          PROVE  \A j \in Keys :
                     /\ objs[j] = Nil => objs'[j] = Nil
                     /\ Controller(objs[j]) = {} => Controller(objs'[j]) = {}
        <3> DEFINE o == [objs[k] EXCEPT !.data = d]
        <3>1. o.owner = objs[k].owner
            BY <2>1, Zenon DEF Objects
        <3> HIDE DEF o
        <3>2. \A j \in Keys : objs'[j] = IF j = k THEN o ELSE objs[j]
            BY <2>3, <2>5, Zenon DEF o
        <3> QED
            BY <2>1, <3>1, <3>2, Zenon DEF Controller
    <2> QED
        BY <2>2, <2>4, <2>5, ZenonT(30)
<1>6. ASSUME NEW k \in Keys, GarbageCollect(k)
      PROVE  \A j \in Keys :
                 /\ objs[j] = Nil => objs'[j] = Nil
                 /\ Controller(objs[j]) = {} => Controller(objs'[j]) = {}
    BY <1>6, Zenon DEF GarbageCollect, Controller
<1> QED
    BY <1>1, <1>2, <1>3, <1>4, <1>5, <1>6, ZenonT(30)

\* EnsureOCMAgentResourcesExist works on a live copy, so it never ends up in a
\* removal.
LEMMA ExistStaysOut ==
    ASSUME Inv, EnsureOCMAgentResourcesExist
    PROVE  pc' \notin AfterDeployment
<1> USE DEF AfterDeployment, AbsentSteps, ExistSteps
<1>1. pc \in ExistSteps
    BY Zenon DEF EnsureOCMAgentResourcesExist, fetchAccessTokenPullSecret,
           ensureAccessTokenSecret, ensureFleetClientSecret, buildEnvVars,
           ensureDeployment, ensureAllConfigMaps, ensureService, ensureNetworkPolicy,
           ensureServiceMonitor, ensurePodDisruptionBudget, restartOCMAgentPods
<1>2. ~instance.deleting
    BY <1>1, Zenon DEF Inv, BaseInv, RunOK, instance
<1>3. CASE QuietStep
    BY <1>3, Zenon DEF QuietStep
<1>4. CASE ObjectStep
    <2>1. PICK t, k, o, next, local :
              /\ t \in Nat /\ Legal(k, o, next, local)
              /\ EnsureStepAt(t, k, o, next, local)
        BY <1>4, Zenon DEF ObjectStep
    <2>2. pc' = next \/ pc' = "idle"
        BY <2>1, Zenon DEF EnsureStepAt, Goto, Return
    <2>3. next \notin AbsentSteps
        BY <1>2, <2>1, Zenon DEF Legal, RunOK, instance
    <2> QED
        BY <2>2, <2>3, Zenon
<1> QED
    BY <1>3, <1>4, ExistStep, Zenon

LEMMA RemovalNext == Inv /\ RemovalInv /\ [Next]_vars => RemovalInv'
<1> SUFFICES ASSUME Inv, RemovalInv, [Next]_vars PROVE RemovalInv'
    BY Zenon
<1>1. pc \in AfterDeployment => instance.spec.tokenSecret \in TokenSecrets
    BY WorkerFacts, Zenon DEF AfterDeployment, AbsentSteps, SpecType
<1>2. ASSUME UNCHANGED <<pc, run>>,
             pc \in AfterDeployment => instance' = instance, UNCHANGED objs
      PROVE  RemovalInv'
    BY <1>1, <1>2, RemovalBystander, Zenon
<1>3. CASE pc' \notin AfterDeployment
    BY <1>3, RemovalNotBegun, Zenon
<1>4. ASSUME NEW a \in Agents, Reconcile(a) PROVE RemovalInv'
    <2>1. pc' \notin AfterDeployment
        BY <1>4, ReconcileEffect, StartedFacts, ZenonT(30)
           DEF AfterDeployment, AbsentSteps
    <2> QED
        BY <1>3, <2>1, Zenon
<1>5. ASSUME NEW a \in Agents, WatchOcmAgent(a) PROVE RemovalInv'
    BY <1>2, <1>5, WatchEffect, Zenon DEF instance
<1>6. CASE Worker
    <2>1. CASE EnsureOCMAgentResourcesAbsent
        BY <2>1, RemovalAbsent, Zenon
    <2>2. CASE EnsureOCMAgentResourcesExist
        <3>1. pc' \notin AfterDeployment
            BY <2>2, ExistStaysOut, Zenon
        <3> QED
            BY <1>3, <3>1, Zenon
    <2>3. CASE addFinalizer \/ removeFinalizer
        BY <1>3, <2>3, Zenon DEF addFinalizer, removeFinalizer, Return, Goto,
                          AfterDeployment, AbsentSteps
    <2> QED
        BY <1>6, <2>1, <2>2, <2>3, Zenon DEF Worker
<1>7. CASE Restart
    BY <1>3, <1>7, RestartEffect, Zenon DEF Return, Goto, AfterDeployment, AbsentSteps
<1>8. CASE Environment
    <2>1. ASSUME NEW a \in Agents, User(a) \/ DependentsGone(a) PROVE RemovalInv'
        <3>1. pc \in AfterDeployment => instance' = instance
            BY <2>1, WritesKeep, InstanceKept, Zenon DEF AfterDeployment, AbsentSteps
        <3> QED
            BY <1>2, <2>1, <3>1, WritesKeep, Zenon
    <2>2. CASE \/ ChangePullSecret \/ ChangeProxy \/ InjectTrustedCa
               \/ \E s \in TokenSecrets : ProvisionSecret(s)
               \/ \E k \in Keys : Tamper(k) \/ GarbageCollect(k)
        <3>1. /\ UNCHANGED <<hist, seen, pc, run>>
              /\ \A j \in Keys :
                     /\ (\A s : j # SecretKey(s)) /\ objs[j] = Nil => objs'[j] = Nil
                     /\ Controller(objs[j]) = {} => Controller(objs'[j]) = {}
            BY <2>2, NothingComesBack, Zenon
        <3>2. instance' = instance
            BY <3>1, Zenon DEF instance
        <3>3. \A s \in TokenSecrets : Controller(objs[SecretKey(s)]) = {}
                                          => Controller(objs[SecretKey(s)])' = {}
            BY <3>1, SharedKeys, Zenon
        <3> QED
            BY <1>1, <3>1, <3>2, <3>3, RemovalBystander, ZenonT(30)
    <2> QED
        BY <1>8, <2>1, <2>2, Zenon DEF Environment
<1>9. CASE UNCHANGED vars
    BY <1>2, <1>9, Zenon DEF vars, instance
<1> QED
    BY <1>4, <1>5, <1>6, <1>7, <1>8, <1>9, ZenonT(30) DEF Next

LEMMA RemovalInvariance == Spec => []RemovalInv
<1>1. Init => RemovalInv
    BY Zenon DEF Init, RemovalInv, Gone, AfterDeployment, AfterService, AfterCAMO,
           AfterServiceMonitor, AfterPDB, AbsentSteps
<1> QED
    BY <1>1, RemovalNext, Invariance, PTL DEF Spec

\* What is gone when the removal comes to the finalizer is all that it is
\* there for.
LEMMA RemovedAtTheEnd ==
    ASSUME Inv, RemovalInv, pc = "removeFinalizer"
    PROVE  Removed(run.agent, instance.spec)
<1> DEFINE a == run.agent
           spec == instance.spec
           np == networkPolicyNamespaces(spec)
<1>1. a \in Agents
    BY WorkerFacts, Zenon
<1>2. \A k \in Gone(pc, run, spec) : objs[k] = Nil
    BY Zenon DEF RemovalInv
<1> HIDE DEF spec
<1>3. /\ DeploymentKey(a) \in Gone(pc, run, spec)
      /\ ServiceKey(a) \in Gone(pc, run, spec)
      /\ ServiceMonitorKey(a) \in Gone(pc, run, spec)
      /\ PDBKey(a) \in Gone(pc, run, spec)
      /\ CAMOKey \in Gone(pc, run, spec)
    <2>1. /\ pc \in AfterDeployment /\ pc \in AfterService /\ pc \in AfterCAMO
          /\ pc \in AfterServiceMonitor /\ pc \in AfterPDB
        BY Zenon DEF AfterDeployment, AfterService, AfterCAMO, AfterServiceMonitor,
               AfterPDB, AbsentSteps
    <2>2. /\ DeploymentKey(a) \in Keys /\ ServiceKey(a) \in Keys
          /\ ServiceMonitorKey(a) \in Keys /\ PDBKey(a) \in Keys /\ CAMOKey \in Keys
        BY <1>1, AgentKeys, SharedKeys, Zenon
    <2>3. DeploymentKey(a) \in Gone(pc, run, spec)
        BY <2>1, <2>2, Zenon DEF Gone
    <2>4. ServiceKey(a) \in Gone(pc, run, spec)
        BY <2>1, <2>2, Zenon DEF Gone
    <2>5. ServiceMonitorKey(a) \in Gone(pc, run, spec)
        BY <2>1, <2>2, Zenon DEF Gone
    <2>6. PDBKey(a) \in Gone(pc, run, spec)
        BY <2>1, <2>2, Zenon DEF Gone
    <2>7. CAMOKey \in Gone(pc, run, spec)
        BY <2>1, <2>2, ZenonT(30) DEF Gone
    <2> QED
        BY <2>3, <2>4, <2>5, <2>6, <2>7, ZenonT(30)
<1>4. ASSUME NEW i \in 1..Len(np)
      PROVE  NetworkPolicyKey(a, np[i]) \in Gone(pc, run, spec)
    <2>1. np[i] \in Listed(np)
        BY Zenon DEF Listed
    <2>2. np[i] \in Namespaces
        BY NamespacesListed
    <2> HIDE DEF np
    <2> QED
        BY <1>1, <2>1, <2>2, AgentKeys, Zenon DEF Gone, AfterCAMO, np
<1>5. ~spec.fleetMode => Controller(objs[SecretKey(spec.tokenSecret)]) = {}
    BY Zenon DEF RemovalInv, SecretGone, spec
<1>6. Removed(a, spec)
    BY <1>2, <1>3, <1>4, <1>5, Zenon
       DEF Removed, DeploymentKey, ServiceKey, ServiceMonitorKey, PDBKey
<1> QED
    BY <1>6, Zenon DEF spec

\* Nothing but removeFinalizer takes the finalizer from an OcmAgent, and then
\* it takes it from the version that the removal worked from.
LEMMA OnlyRemoveFinalizerReleases ==
    ASSUME Inv, [Next]_vars, NEW a \in Agents, Released(a)
    PROVE  pc = "removeFinalizer" /\ a = run.agent /\ Current(a) = instance
<1>1. ~UNCHANGED hist
    BY Zenon DEF Released, Current, Version
<1>2. ~\E b \in Agents : User(b) \/ DependentsGone(b)
    BY WritesKeep, Zenon DEF Released
<1>3. addFinalizer \/ removeFinalizer
    <2>1. ASSUME NEW b \in Agents, Reconcile(b) PROVE FALSE
        BY <1>1, <2>1, Zenon DEF Reconcile
    <2>2. ASSUME NEW b \in Agents, WatchOcmAgent(b) PROVE FALSE
        BY <1>1, <2>2, Zenon DEF WatchOcmAgent
    <2>3. ~EnsureOCMAgentResourcesExist /\ ~EnsureOCMAgentResourcesAbsent
        BY <1>1, ExistStep, AbsentStep, ZenonT(30) DEF ObjectStep, EnsureStepAt, QuietStep
    <2>4. ~Restart
        BY <1>1, Zenon DEF Restart
    <2>5. ~Environment
        BY <1>1, <1>2, NothingComesBack, ZenonT(30) DEF Environment
    <2>6. ~UNCHANGED vars
        BY <1>1, Zenon DEF vars
    <2> QED
        BY <2>1, <2>2, <2>3, <2>4, <2>5, <2>6, ZenonT(30) DEF Next, Worker
<1>4. pc # "idle" /\ run.agent \in Agents /\ instance \in OcmAgents
    BY <1>3, WorkerFacts, Zenon DEF addFinalizer, removeFinalizer
<1>5. PICK e : /\ run.version = Version(run.agent) /\ Write(run.agent, e)
               /\ addFinalizer => e = [instance EXCEPT !.finalizer = TRUE]
               /\ addFinalizer \/ pc = "removeFinalizer"
    <2>1. CASE addFinalizer
        BY <1>1, <2>1, Zenon DEF addFinalizer, FailedUpdate, Update
    <2>2. CASE removeFinalizer
        <3>1. pc = "removeFinalizer" /\ ~addFinalizer
            BY <2>2, Zenon DEF removeFinalizer, addFinalizer
        <3>2. \E e : Update(e)
            BY <1>1, <2>2, Zenon DEF removeFinalizer, FailedUpdate
        <3> QED
            BY <3>1, <3>2, Zenon DEF Update
    <2> QED
        BY <1>3, <2>1, <2>2, Zenon
<1>6. hist' = [hist EXCEPT ![run.agent] = Append(hist[run.agent], e)]
    BY <1>5, Zenon DEF Write
<1>7. a = run.agent
    BY <1>4, <1>6, ZenonT(30) DEF Released, Current, Version, Inv, BaseInv, TypeOK
<1>8. ~addFinalizer
    <2> SUFFICES ASSUME addFinalizer PROVE FALSE
        BY Zenon
    <2>1. e \in OcmAgents /\ e.finalizer
        BY <1>4, <1>5, ZenonT(30) DEF OcmAgents
    <2>2. hist[a] \in Seq(OcmAgents \cup {Nil}) /\ hist'[a] = Append(hist[a], e)
        BY <1>6, <1>7, ZenonT(30) DEF Inv, BaseInv, TypeOK
    <2>3. Current(a)' = e
        BY <2>1, <2>2 DEF Current, Version
    <2> QED
        BY <2>1, <2>3, NoAgentAssumption, Zenon DEF Released
<1> QED
    BY <1>4, <1>5, <1>7, <1>8, UpdateFollows, ZenonT(30)

\* Whenever an OcmAgent loses its finalizer, all that the finalizer protects is
\* gone: none of the objects that EnsureOCMAgentResourcesAbsent has removed can
\* have come back in the meantime, whatever failed and whoever interfered.
THEOREM ReleasedClean == Spec => FinalizerReleasedClean
<1>1. Inv /\ RemovalInv /\ [Next]_vars =>
          [\A a \in Agents : Released(a) => Removed(a, Current(a).spec)]_vars
    BY OnlyRemoveFinalizerReleases, RemovedAtTheEnd, Zenon
<1> QED
    BY <1>1, Invariance, RemovalInvariance, PTL DEF Spec, FinalizerReleasedClean

-----------------------------------------------------------------------------
(* What a successful reconcile has put in place.                           *)

\* Whenever EnsureOCMAgentResourcesExist has succeeded, every object that the
\* spec of the copy asks for is in place, or others changed it, or it was
\* collected with a deleted owner, and a reconcile to repair it is due.
THEOREM CompleteDeployment == Spec => []DeploymentComplete
BY ProgressInit, ProgressNext, ProgressComplete, Invariance, PTL DEF Spec

-----------------------------------------------------------------------------
(* No OcmAgent is forgotten.                                               *)

\* The inductive form: a reconcile whose copy is no longer what the cache
\* holds has been asked for again, since the watch that moved the cache on
\* also put the request into the queue.
SightInv ==
    /\ NeverForgotten
    /\ pc # "idle" => run.version = seen[run.agent] \/ run.agent \in queue

\* The worker goes on with the same copy, or returns and is asked for again.
Attends ==
    /\ queue \subseteq queue'
    /\ \/ /\ pc # "idle" /\ pc' # "idle"
          /\ run'.agent = run.agent /\ run'.version = run.version
       \/ pc' = "idle" /\ run.agent \in queue'

LEMMA ObjectStepAttends ==
    ASSUME Inv, ObjectStep
    PROVE  Attends /\ UNCHANGED <<hist, seen>>
<1>1. PICK t, k, o, next, local :
          /\ t \in Nat /\ Legal(k, o, next, local)
          /\ EnsureStepAt(t, k, o, next, local)
    BY Zenon DEF ObjectStep
<1>2. CASE Put(k, o, {}) /\ Goto(next, local)
    <2>1. queue \subseteq queue' /\ pc' = next /\ run' = local
        BY <1>2, Zenon DEF Put, Goto
    <2>2. pc # "idle" /\ next # "idle"
        BY <1>1, ZenonT(30) DEF ObjectStep, Legal, ExistSteps, AbsentSteps
    <2> QED
        BY <1>1, <2>1, <2>2, ZenonT(30) DEF Attends, Legal, EnsureStepAt
<1>3. CASE /\ Return
           /\ Put(k, o, {run.agent}) \/ Put(k, objs[k], {run.agent})
    BY <1>1, <1>3, ZenonT(30) DEF Put, Return, Goto, Attends, EnsureStepAt
<1> QED
    BY <1>1, <1>2, <1>3, ZenonT(30) DEF EnsureStepAt

\* Whatever EnsureOCMAgentResourcesExist and EnsureOCMAgentResourcesAbsent do,
\* an early return of theirs is an error, which brings the request back.
LEMMA HandlerAttends ==
    ASSUME Inv, EnsureOCMAgentResourcesExist \/ EnsureOCMAgentResourcesAbsent
    PROVE  Attends /\ UNCHANGED <<hist, seen>>
<1>1. CASE ObjectStep
    BY <1>1, ObjectStepAttends, Zenon
<1>2. CASE EnsureOCMAgentResourcesAbsent
    BY <1>1, <1>2, AbsentStep, ZenonT(30)
<1>3. CASE EnsureOCMAgentResourcesExist /\ ~ObjectStep
    <2>1. pc # "idle" /\ QuietStep
        BY <1>3, ExistStep, ZenonT(30)
    <2>2. \/ fetchAccessTokenPullSecret \/ ensureFleetClientSecret \/ buildEnvVars
          \/ restartOCMAgentPods /\ objs[DeploymentKey(run.agent)] = Nil
        BY ZenonT(30), <1>3, SecretStep, DeploymentStep, ConfigMapStep, ServiceStep,
           NetworkPolicyEnsured, ServiceMonitorStep, PDBStep, RestartStep
           DEF EnsureOCMAgentResourcesExist
    <2>3. \/ Return /\ Requeue
          \/ UNCHANGED queue /\ pc' # "idle"
        BY <2>2, Zenon DEF fetchAccessTokenPullSecret, ensureFleetClientSecret, buildEnvVars,
                    restartOCMAgentPods, ReadStep, Goto
    <2> QED
        BY <2>1, <2>3, Zenon DEF QuietStep, Attends, Return, Goto, Requeue
<1> QED
    BY <1>2, <1>3, <1>1, ZenonT(30)

LEMMA SightKept ==
    ASSUME Inv, SightInv, UNCHANGED <<hist, seen>>,
           Attends \/ (queue \subseteq queue' /\ UNCHANGED <<pc, run>>)
    PROVE  SightInv'
<1>1. ASSUME NEW a \in Agents, Guards(a)'
      PROVE  a \in queue' \/ (pc' # "idle" /\ run'.agent = a) \/ seen[a] < Version(a)
    <2>1. Guards(a)
        BY <1>1, Zenon DEF Guards, Current, Version
    <2> QED
        BY <2>1, Zenon DEF SightInv, NeverForgotten, Attends
<1>3. NeverForgotten'
    BY <1>1, Zenon DEF NeverForgotten, Version
<1>4. pc' # "idle" => run'.version = seen'[run'.agent] \/ run'.agent \in queue'
    BY Zenon DEF SightInv, Attends
<1> QED
    BY <1>3, <1>4, Zenon DEF SightInv

\* A write to one OcmAgent at the end of a reconcile, or by somebody else.
LEMMA SightWrite ==
    ASSUME Inv, SightInv, NEW a \in Agents, NEW e, Follows(hist[a], e), Write(a, e),
           UNCHANGED seen, queue \subseteq queue',
           \/ UNCHANGED <<pc, run>>
           \/ /\ pc # "idle" /\ pc' = "idle" /\ run.agent = a
              /\ a \in queue' \/ ~Guards(a)'
    PROVE  SightInv'
<1>1. /\ \A b \in Agents : b # a => hist'[b] = hist[b]
      /\ Len(hist'[a]) = Len(hist[a]) + 1
    BY Written, ZenonT(30)
<1>2. ASSUME NEW b \in Agents, Guards(b)'
      PROVE  b \in queue' \/ (pc' # "idle" /\ run'.agent = b) \/ seen[b] < Version(b)'
    <2>1. CASE b = a
        <3>1. seen[a] < Len(hist[a]) + 1
            BY CachedFacts
        <3> QED
            BY <1>1, <2>1, <3>1, ZenonT(30) DEF Version
    <2>2. CASE b # a
        <3>1. Guards(b) /\ Version(b)' = Version(b)
            BY <1>1, <1>2, <2>2, ZenonT(30) DEF Guards, Current, Version
        <3> QED
            BY <2>2, <3>1, ZenonT(30) DEF SightInv, NeverForgotten
    <2> QED
        BY <2>1, <2>2, Zenon
<1>3. NeverForgotten'
    BY <1>2, Zenon DEF NeverForgotten
<1>4. pc' # "idle" => run'.version = seen'[run'.agent] \/ run'.agent \in queue'
    BY Zenon DEF SightInv
<1> QED
    BY <1>3, <1>4, ZenonT(30) DEF SightInv

LEMMA SightAddFinalizer ==
    ASSUME Inv, SightInv, addFinalizer
    PROVE  SightInv'
<1> DEFINE e == [instance EXCEPT !.finalizer = TRUE]
<1>1. /\ pc # "idle" /\ pc' = "idle" /\ UNCHANGED seen
      /\ queue \subseteq queue' /\ run.agent \in queue'
    BY Zenon DEF addFinalizer, Return, Goto, Requeue, FailedUpdate
<1>2. run.agent \in Agents /\ instance \in OcmAgents /\ instance # Nil
    BY <1>1, WorkerFacts, NoAgentAssumption, ZenonT(30)
<1>3. CASE UNCHANGED hist
    BY <1>1, <1>3, SightKept, SMTT(30) DEF Attends
<1>4. CASE Update(e)
    <2>1. Write(run.agent, e) /\ instance = Current(run.agent)
        BY <1>1, <1>4, UpdateFollows, ZenonT(30) DEF Update
    <2>2. /\ e \in OcmAgents /\ e # Nil /\ e.uid = instance.uid
          /\ e.deleting = instance.deleting /\ e.foreground = instance.foreground
        BY <1>2, NoAgentAssumption, ZenonT(30) DEF OcmAgents
    <2> HIDE DEF e
    <2>3. Follows(hist[run.agent], e)
        BY <1>2, <2>1, <2>2, CurrentFacts, ZenonT(30) DEF Follows
    <2> QED
        BY <1>1, <1>2, <2>1, <2>3, SightWrite, ZenonT(30)
<1> QED
    BY <1>3, <1>4, ZenonT(30) DEF addFinalizer, FailedUpdate

\* The one return without a request: a resource that has lost its finalizer,
\* now or before, has no use for another reconcile, unless the copy is stale.
LEMMA SightRemoveFinalizer ==
    ASSUME Inv, SightInv, removeFinalizer
    PROVE  SightInv'
<1> DEFINE o == [instance EXCEPT !.finalizer = FALSE]
           e == Finalized(o)
<1>1. /\ pc = "removeFinalizer" /\ pc # "idle" /\ pc' = "idle" /\ UNCHANGED seen
      /\ queue \subseteq queue'
    BY Zenon DEF removeFinalizer, Return, Goto, Requeue, FailedUpdate
<1>2. PICK a \in Agents : a = run.agent
    BY <1>1, WorkerFacts, ZenonT(30)
<1>0. instance \in OcmAgents /\ instance # Nil
    BY <1>1, WorkerFacts, NoAgentAssumption, ZenonT(30)
<1>3. instance.deleting
    BY <1>1, ZenonT(30) DEF Inv, BaseInv, RunOK, AbsentSteps, instance
<1>4. CASE UNCHANGED hist /\ a \in queue'
    BY <1>1, <1>2, <1>4, SightKept, ZenonT(30) DEF Attends
<1>5. CASE UNCHANGED hist /\ ~instance.finalizer
    <2>1. ASSUME Guards(a), a \notin queue PROVE seen[a] < Version(a)
        <3>1. run.version = seen[a]
            BY <1>1, <1>2, <2>1, ZenonT(30) DEF SightInv
        <3>2. Current(a) # instance
            BY <1>3, <1>5, <2>1, ZenonT(30) DEF Guards
        <3>3. seen[a] # Version(a)
            BY <1>1, <1>2, <3>1, <3>2, UpdateFollows, ZenonT(30)
        <3> QED
            BY <1>2, <3>3, CachedFacts DEF Version
    <2>2. ASSUME NEW b \in Agents, Guards(b)'
          PROVE  b \in queue' \/ seen[b] < Version(b)'
        <3>1. Guards(b) /\ Version(b)' = Version(b)
            BY <1>5, <2>2, ZenonT(30) DEF Guards, Current, Version
        <3>2. b \in queue \/ b = a \/ seen[b] < Version(b)
            BY <1>2, <3>1 DEF SightInv, NeverForgotten
        <3> QED
            BY <1>1, <2>1, <3>1, <3>2, ZenonT(30)
    <2> QED
        BY <1>1, <2>2, ZenonT(30) DEF SightInv, NeverForgotten
<1>6. CASE Update(e)
    <2>1. Write(a, e) /\ instance = Current(a)
        BY <1>1, <1>2, <1>6, UpdateFollows, ZenonT(30) DEF Update
    <2>2. /\ o \in OcmAgents /\ o.uid = instance.uid /\ o.deleting /\ ~o.finalizer
          /\ o.foreground \in BOOLEAN
        BY <1>0, <1>3, ZenonT(30) DEF OcmAgents
    <2> HIDE DEF o
    <2>3. Follows(hist[a], e) /\ (e = Nil \/ (e.deleting /\ ~e.finalizer))
        BY <1>0, <2>1, <2>2, FinalizedFollows, ZenonT(30) DEF Finalized
    <2> HIDE DEF e
    <2>4. Len(hist'[a]) = Len(hist[a]) + 1 /\ hist'[a][Len(hist[a]) + 1] = e
        BY <1>2, <2>1, <2>3, Written, SMTT(30)
    <2>5. ~Guards(a)'
        BY <2>3, <2>4, ZenonT(30) DEF Guards, Current, Version
    <2> QED
        BY <1>1, <1>2, <2>1, <2>3, <2>5, SightWrite, ZenonT(30)
<1> QED
    BY <1>2, <1>4, <1>5, <1>6, ZenonT(30) DEF removeFinalizer, FailedUpdate, Requeue

LEMMA SightReconcile ==
    ASSUME Inv, SightInv, NEW a \in Agents, Reconcile(a)
    PROVE  SightInv'
<1>1. pc = "idle" /\ UNCHANGED <<hist, seen>>
    BY Zenon DEF Reconcile
<1>2. CASE UNCHANGED <<queue, pc, run>>
    BY <1>1, <1>2, SightKept, ZenonT(30)
<1>3. ASSUME queue' = queue \ {a},
             \/ pc' # "idle" /\ run'.agent = a
             \/ Guards(a) => seen[a] < Version(a)
      PROVE  NeverForgotten'
    <2>1. ASSUME NEW b \in Agents, Guards(b)'
          PROVE  b \in queue' \/ (pc' # "idle" /\ run'.agent = b) \/ seen[b] < Version(b)
        <3>1. Guards(b)
            BY <1>1, <2>1, Zenon DEF Guards, Current, Version
        <3> QED
            BY <1>1, <1>3, <3>1, SMTT(30) DEF SightInv, NeverForgotten
    <2> QED
        BY <1>1, <2>1, ZenonT(30) DEF NeverForgotten, Version
<1>4. CASE queue' = queue \ {a} /\ Cached(a) = Nil /\ UNCHANGED <<pc, run>>
    <2>1. Guards(a) => seen[a] < Version(a)
        BY <1>4, CachedFacts DEF Guards, Current, Version
    <2> QED
        BY <1>1, <1>3, <1>4, <2>1, ZenonT(30) DEF SightInv
<1>5. CASE queue' = queue \ {a} /\ Started(a)
    BY <1>1, <1>3, <1>5, StartedFacts, ZenonT(30) DEF SightInv
<1> QED
    BY <1>2, <1>4, <1>5, ZenonT(30) DEF Reconcile, Started, Goto

LEMMA SightNext == Inv /\ SightInv /\ [Next]_vars => SightInv'
<1> SUFFICES ASSUME Inv, SightInv, [Next]_vars PROVE SightInv'
    BY Zenon
<1>1. ASSUME NEW a \in Agents, Reconcile(a) PROVE SightInv'
    BY <1>1, SightReconcile, Zenon
<1>2. ASSUME NEW a \in Agents, WatchOcmAgent(a) PROVE SightInv'
    <2>1. /\ queue' = queue \cup {a} /\ UNCHANGED <<hist, pc, run>>
          /\ \A b \in Agents : b # a => seen'[b] = seen[b]
        BY <1>2, ZenonT(30) DEF WatchOcmAgent, Inv, BaseInv, TypeOK
    <2>2. ASSUME NEW b \in Agents, Guards(b)'
          PROVE  b \in queue' \/ (pc' # "idle" /\ run'.agent = b) \/ seen'[b] < Version(b)'
        <3>1. Guards(b) /\ Version(b)' = Version(b)
            BY <2>1, <2>2, Zenon DEF Guards, Current, Version
        <3> QED
            BY <2>1, <3>1, Zenon DEF SightInv, NeverForgotten
    <2>3. pc' # "idle" => run'.version = seen'[run'.agent] \/ run'.agent \in queue'
        <3>1. pc # "idle" => run.agent \in Agents
            BY WorkerFacts
        <3> QED
            BY <2>1, <3>1, Zenon DEF SightInv
    <2> QED
        BY <2>2, <2>3, ZenonT(30) DEF SightInv, NeverForgotten
<1>3. CASE Worker
    BY <1>3, HandlerAttends, SightKept, SightAddFinalizer, SightRemoveFinalizer, ZenonT(30)
       DEF Worker
<1>4. CASE Restart
    <2>1. pc' = "idle" /\ UNCHANGED hist /\ {a \in Agents : Current(a) # Nil} \subseteq queue'
        BY <1>4, RestartEffect, ZenonT(30) DEF Restart, Return, Goto
    <2>2. \A a \in Agents : Guards(a)' => a \in queue'
        BY <2>1, Zenon DEF Guards, Current, Version
    <2> QED
        BY <2>1, <2>2, Zenon DEF SightInv, NeverForgotten
<1>5. CASE Environment
    <2>1. ASSUME NEW a \in Agents, User(a) \/ DependentsGone(a) PROVE SightInv'
        <3>1. UNCHANGED <<seen, queue, pc, run>>
            BY <2>1, ZenonT(30) DEF User, CreateOcmAgent, UpdateOcmAgent, DeleteOcmAgent,
                        DependentsGone
        <3>2. PICK e : Write(a, e) /\ Follows(hist[a], e)
            BY <2>1, OthersWriteSomething, ZenonT(30) DEF OthersWrite
        <3> QED
            BY <3>1, <3>2, SightWrite, SMTT(30)
    <2>2. CASE ~\E a \in Agents : User(a) \/ DependentsGone(a)
        <3>1. UNCHANGED <<hist, seen, pc, run>> /\ queue \subseteq queue'
            BY <1>5, <2>2, ZenonT(30) DEF Environment, ChangePullSecret, ChangeProxy,
                   ProvisionSecret, Tamper, GarbageCollect, InjectTrustedCa, Put
        <3> QED
            BY <3>1, SightKept, SMTT(30)
    <2> QED
        BY <2>1, <2>2, ZenonT(30)
<1>6. CASE UNCHANGED vars
    BY <1>6, SightKept, Zenon DEF vars
<1> QED
    BY <1>1, <1>2, <1>3, <1>4, <1>5, <1>6, ZenonT(30) DEF Next

\* An OcmAgent that is live, or deleted and waiting for its clean-up, is queued,
\* worked on, or about to be seen by the cache in a new version; so
\* the periodic reconcile that notices a changed pull secret is never lost.
THEOREM NoAgentIsForgotten == Spec => []NeverForgotten
<1>1. Init => SightInv
    <2> SUFFICES ASSUME Init PROVE SightInv
        BY Zenon
    <2>1. \A a \in Agents : ~Guards(a)
        <3>1. \A a \in Agents : hist[a] = <<Nil>>
            BY ZenonT(30) DEF Init
        <3>2. Len(<<Nil>>) = 1 /\ <<Nil>>[1] = Nil
            BY Zenon
        <3> QED
            BY <3>1, <3>2, ZenonT(30) DEF Guards, Current, Version
    <2> QED
        BY <2>1, Zenon DEF Init, SightInv, NeverForgotten
<1>2. SightInv => NeverForgotten
    BY Zenon DEF SightInv
<1> QED
    BY <1>1, <1>2, SightNext, Invariance, PTL DEF Spec

-----------------------------------------------------------------------------
(* The refinement.                                                         *)

\* What AgentLifecycle sees of the objects.
LEMMA ObjectsSeen ==
    /\ \A a \in Agents, kind \in AgentKinds : <<kind, a>> \in Keys /\ <<kind, a>> # CAMOKey
    /\ \A k \in Keys : \/ k[1] \in AgentKinds /\ k[2] \in Agents /\ k = <<k[1], k[2]>>
                       \/ k[1] \notin AgentKinds
    /\ "Secret" \notin AgentKinds
<1>1. "CAMOConfigMap" \notin AgentKinds /\ "Secret" \notin AgentKinds
    BY Zenon DEF AgentKinds, ServiceKinds, SpecKinds, Namespaces
<1>2. \A k \in Keys : \/ k \in AgentKinds \X Agents \/ k[1] \notin AgentKinds
    BY <1>1 DEF Keys, CAMOKey, TrustedCaKey, AgentKinds, ServiceKinds, SpecKinds, Namespaces
<1> QED
    BY <1>1, <1>2, SMTT(30) DEF Keys, CAMOKey

\* Without a write to an OcmAgent no stage changes.
LEMMA StagesKept ==
    ASSUME UNCHANGED hist
    PROVE  [a \in Agents |-> StageOf(Current(a))]' = [a \in Agents |-> StageOf(Current(a))]
BY Zenon DEF Current, Version

\* A step that makes no object.
LEMMA Losing ==
    ASSUME UNCHANGED hist,
           \A k \in Keys : k[1] # "Secret" /\ objs[k] = Nil => objs'[k] = Nil
    PROVE  Finalizing!Lose
<1>1. \A a \in Agents : OwnKinds(a)' \subseteq OwnKinds(a)
    <2> SUFFICES ASSUME NEW a \in Agents, NEW kind \in AgentKinds, objs'[<<kind, a>>] # Nil
                 PROVE  objs[<<kind, a>>] # Nil
        BY Zenon DEF OwnKinds
    <2> QED
        BY ObjectsSeen, Zenon
<1>2. \A a \in Agents : OwnKinds(a)' \subseteq AgentKinds
    BY Zenon DEF OwnKinds
<1>3. (objs[CAMOKey] # Nil)' \in {objs[CAMOKey] # Nil, FALSE}
    <2>1. objs[CAMOKey] = Nil => objs'[CAMOKey] = Nil
        BY SharedKeys, Zenon DEF CAMOKey
    <2> QED
        BY <2>1, Zenon
<1>4. [a \in Agents |-> OwnKinds(a)]' \in [Agents -> SUBSET AgentKinds]
    BY <1>2, Zenon
<1>5. \A a \in Agents : [b \in Agents |-> OwnKinds(b)]'[a]
                            \subseteq [b \in Agents |-> OwnKinds(b)][a]
    BY <1>1, Zenon
<1> QED
    BY <1>3, <1>4, <1>5, StagesKept, ZenonT(30) DEF Finalizing!Lose

\* A write to an OcmAgent takes it from one stage to another.
LEMMA Becoming ==
    ASSUME Inv, NEW a \in Agents, NEW e, Follows(hist[a], e), Write(a, e),
           UNCHANGED objs
    PROVE  /\ StageOf(e) # StageOf(Current(a))
                  => Finalizing!Become(a, StageOf(Current(a)), StageOf(e))
           /\ StageOf(e) = StageOf(Current(a)) => UNCHANGED Finalizing!vars
<1>1. \A b \in Agents : Current(b)' = IF b = a THEN e ELSE Current(b)
    BY Written, SMTT(30) DEF Current, Version
<1>2. UNCHANGED <<[b \in Agents |-> OwnKinds(b)], objs[CAMOKey] # Nil>>
    BY Zenon DEF OwnKinds
<1>3. \A b \in Agents : StageOf(Current(b))' =
          IF b = a THEN StageOf(e) ELSE StageOf(Current(b))
    BY <1>1, Zenon DEF StageOf
<1> DEFINE s == [b \in Agents |-> StageOf(Current(b))]
<1>4. s' = [s EXCEPT ![a] = StageOf(e)] /\ s[a] = StageOf(Current(a))
    BY <1>3, ZenonT(30)
<1>5. StageOf(e) = StageOf(Current(a)) => s' = s
    BY <1>3, Zenon
<1> HIDE DEF s
<1>6. StageOf(e) # StageOf(Current(a))
          => Finalizing!Become(a, StageOf(Current(a)), StageOf(e))
    BY <1>2, <1>4, ZenonT(30) DEF Finalizing!Become, s
<1>7. StageOf(e) = StageOf(Current(a)) => UNCHANGED Finalizing!vars
    BY <1>2, <1>5, ZenonT(30) DEF Finalizing!vars, s
<1> QED
    BY <1>6, <1>7, ZenonT(30)
\* What users and the garbage collector write takes the OcmAgent on, or leaves
\* it in its stage.
LEMMA OthersLifecycle ==
    ASSUME ~EarlyDelete, Inv, NEW a \in Agents, User(a) \/ DependentsGone(a)
    PROVE  [Finalizing!Next]_(Finalizing!vars)
<1> DEFINE o == Current(a)
<1>1. UNCHANGED objs
    BY WritesKeep, Zenon
<1>2. PICK e : Write(a, e) /\ Follows(hist[a], e)
    BY OthersWriteSomething, Zenon DEF OthersWrite
<1>3. ASSUME NEW f, Write(a, f) PROVE f = e
    <2>1. /\ hist' = [hist EXCEPT ![a] = Append(hist[a], e)]
          /\ hist' = [hist EXCEPT ![a] = Append(hist[a], f)]
          /\ hist \in [Agents -> Seq(OcmAgents \cup {Nil})]
        BY <1>2, <1>3, ZenonT(30) DEF Write, Inv, BaseInv, TypeOK
    <2>2. Append(hist[a], e) = Append(hist[a], f)
        BY <2>1, Zenon
    <2>3. Len(hist[a]) \in Nat
        BY CurrentFacts, Zenon
    <2> QED
        BY <2>2, <2>3, Append(hist[a], e)[Len(hist[a]) + 1] = e,
           Append(hist[a], f)[Len(hist[a]) + 1] = f
<1>4. /\ StageOf(e) # StageOf(o) => Finalizing!Become(a, StageOf(o), StageOf(e))
      /\ StageOf(e) = StageOf(o) => UNCHANGED Finalizing!vars
    BY <1>1, <1>2, Becoming, ZenonT(30)
<1>5. o \in OcmAgents \cup {Nil} /\ (o # Nil => (o.foreground => o.deleting))
    BY CurrentFacts, SMTT(30)
<1>6. \/ StageOf(e) = StageOf(o)
      \/ StageOf(o) = "absent" /\ StageOf(e) = "new"
      \/ StageOf(o) = "guarded" /\ StageOf(e) = "leaving"
      \/ StageOf(o) = "released" /\ StageOf(e) = "absent"
    <2>1. ASSUME NEW spec \in Specs, CreateOcmAgent(a, spec)
          PROVE  StageOf(o) = "absent" /\ StageOf(e) = "new"
        <3> DEFINE f == [uid |-> Version(a) + 1, spec |-> spec, finalizer |-> FALSE,
                         deleting |-> FALSE, foreground |-> FALSE]
        <3>1. o = Nil /\ e = f
            BY <1>3, <2>1, SMTT(30) DEF CreateOcmAgent
        <3>2. f \in OcmAgents
            BY CurrentFacts DEF OcmAgents
        <3> QED
            BY <3>1, <3>2, NoAgentAssumption, ZenonT(30) DEF StageOf
    <2>2. ASSUME NEW spec \in Specs, UpdateOcmAgent(a, spec)
          PROVE  StageOf(e) = StageOf(o)
        <3>1. o # Nil /\ e = [o EXCEPT !.spec = spec]
            BY <1>3, <2>2, ZenonT(30) DEF UpdateOcmAgent
        <3>2. e \in OcmAgents /\ e.deleting = o.deleting /\ e.finalizer = o.finalizer
            BY <1>5, <3>1, ZenonT(30) DEF OcmAgents
        <3> QED
            BY <3>1, <3>2, NoAgentAssumption, ZenonT(30) DEF StageOf
    <2>3. ASSUME NEW foreground \in Foreground, DeleteOcmAgent(a, foreground)
          PROVE  StageOf(o) = "guarded" /\ StageOf(e) = "leaving"
        <3> DEFINE f == [o EXCEPT !.deleting = TRUE, !.foreground = foreground]
        <3>1. o # Nil /\ ~o.deleting /\ o.finalizer /\ e = Finalized(f)
            BY <1>3, <2>3, ZenonT(30) DEF DeleteOcmAgent
        <3>2. f \in OcmAgents /\ f.deleting /\ f.finalizer
            BY <1>5, <3>1, FlagsAssumption, ZenonT(30) DEF OcmAgents
        <3> HIDE DEF f
        <3> QED
            BY <3>1, <3>2, NoAgentAssumption, ZenonT(30) DEF StageOf, Finalized
    <2>4. ASSUME DependentsGone(a)
          PROVE  \/ StageOf(e) = StageOf(o)
                 \/ StageOf(o) = "released" /\ StageOf(e) = "absent"
        <3> DEFINE f == [o EXCEPT !.foreground = FALSE]
        <3>1. o # Nil /\ o.foreground /\ e = Finalized(f)
            BY <1>3, <2>4, ZenonT(30) DEF DependentsGone
        <3>2. /\ f \in OcmAgents /\ f.deleting = o.deleting
              /\ f.finalizer = o.finalizer /\ ~f.foreground
            BY <1>5, <3>1, ZenonT(30) DEF OcmAgents
        <3> HIDE DEF f
        <3> QED
            BY <1>5, <3>1, <3>2, NoAgentAssumption, ZenonT(30) DEF StageOf, Finalized
    <2> QED
        BY <2>1, <2>2, <2>3, <2>4, ZenonT(30) DEF User
<1> HIDE DEF o
<1> QED
    BY <1>4, <1>6, ZenonT(30) DEF Finalizing!Next, Finalizing!Create, Finalizing!Delete, Finalizing!Vanish

\* addFinalizer takes charge of the current version, removeFinalizer lets go of
\* it; when their write does not take effect nothing happens.
LEMMA FinalizersLifecycle ==
    ASSUME Inv, RemovalInv, addFinalizer \/ removeFinalizer
    PROVE  [Finalizing!Next]_(Finalizing!vars)
<1> DEFINE a == run.agent
<1>1. /\ pc # "idle" /\ UNCHANGED objs
    BY Zenon DEF addFinalizer, removeFinalizer, cluster
<1>2. a \in Agents /\ instance \in OcmAgents
    BY <1>1, WorkerFacts
<1>3. CASE UNCHANGED hist
    BY <1>1, <1>3, StagesKept, ZenonT(30) DEF Finalizing!vars, OwnKinds
<1>4. CASE addFinalizer /\ ~UNCHANGED hist
    <2> DEFINE e == [instance EXCEPT !.finalizer = TRUE]
    <2>1. ~instance.finalizer /\ Update(e) /\ pc = "addFinalizer"
        BY <1>4, ZenonT(30) DEF addFinalizer, FailedUpdate
    <2>2. Current(a) = instance /\ Write(a, e)
        BY <1>1, <2>1, UpdateFollows, ZenonT(30) DEF Update
    <2>3. ~instance.deleting
        BY <2>1, ZenonT(30) DEF Inv, BaseInv, RunOK, instance, ExistSteps
    <2>4. /\ e \in OcmAgents /\ e.finalizer /\ e.deleting = instance.deleting
          /\ e.uid = instance.uid /\ e.foreground = instance.foreground
        BY <1>2, ZenonT(30) DEF OcmAgents
    <2> HIDE DEF e
    <2>5. Follows(hist[a], e)
        BY <1>2, <2>2, <2>4, CurrentFacts, NoAgentAssumption, ZenonT(30) DEF Follows
    <2>6. StageOf(Current(a)) = "new" /\ StageOf(e) = "guarded"
        BY <1>2, <2>1, <2>2, <2>3, <2>4, NoAgentAssumption, ZenonT(30) DEF StageOf
    <2>7. Finalizing!Become(a, "new", "guarded")
        BY <1>1, <1>2, <2>2, <2>5, <2>6, Becoming, ZenonT(30)
    <2> QED
        BY <1>2, <2>7, ZenonT(30) DEF Finalizing!Next, Finalizing!Guard
<1>5. CASE removeFinalizer /\ ~UNCHANGED hist
    <2> DEFINE o == [instance EXCEPT !.finalizer = FALSE]
               e == Finalized(o)
    <2>1. instance.finalizer /\ Update(e) /\ pc = "removeFinalizer"
        BY <1>5, ZenonT(30) DEF removeFinalizer, FailedUpdate
    <2>2. Current(a) = instance /\ Write(a, e)
        BY <1>1, <2>1, UpdateFollows, SMTT(30) DEF Update
    <2>3. instance.deleting
        BY <2>1, ZenonT(30) DEF Inv, BaseInv, RunOK, instance, AbsentSteps
    <2>4. /\ o \in OcmAgents /\ ~o.finalizer /\ o.deleting
          /\ o.uid = instance.uid /\ o.foreground \in BOOLEAN
        BY <1>2, <2>3, ZenonT(30) DEF OcmAgents
    <2> HIDE DEF o
    <2>5. Current(a) # Nil
        BY <1>2, <2>2, NoAgentAssumption
    <2>6. Follows(hist[a], e)
        BY <1>2, <2>2, <2>4, <2>5, FinalizedFollows, ZenonT(30)
    <2>7. StageOf(Current(a)) = "leaving" /\ StageOf(e) \in {"absent", "released"}
        BY <2>1, <2>2, <2>3, <2>4, <2>5, NoAgentAssumption, ZenonT(30) DEF StageOf, Finalized
    <2> HIDE DEF e
    <2>8. \/ Finalizing!Become(a, "leaving", "absent")
          \/ Finalizing!Become(a, "leaving", "released")
        BY <1>1, <1>2, <2>2, <2>6, <2>7, Becoming, ZenonT(30)
    <2>9. Removed(a, instance.spec)
        BY <2>1, RemovedAtTheEnd, ZenonT(30)
    <2>10. OwnKinds(a) \cap CleanedKinds = {} /\ objs[CAMOKey] = Nil
        <3>1. PICK i \in 1..Len(networkPolicyNamespaces(instance.spec)) :
                  networkPolicyNamespaces(instance.spec)[i] = "Monitoring"
            BY SMTT(30) DEF networkPolicyNamespaces
        <3>2. objs[<<"Monitoring", a>>] = Nil
            BY <2>9, <3>1, ZenonT(30) DEF Removed, NetworkPolicyKey
        <3> QED
            BY <2>9, <3>2, ZenonT(30) DEF Removed, OwnKinds, CleanedKinds
    <2>11. Finalizing!Release(a)
        BY <1>2, <2>8, <2>10, ZenonT(30) DEF Finalizing!Release
    <2> QED
        BY <1>2, <2>11, ZenonT(30) DEF Finalizing!Next
<1> QED
    BY <1>3, <1>4, <1>5, ZenonT(30)

\* The calls of the handler: an object that was not there before is provided for
\* the OcmAgent of the reconcile, which is there and has not been let go.
LEMMA HandlerLifecycle ==
    ASSUME Inv, CAMOInv, NamesInv',
           EnsureOCMAgentResourcesExist \/ EnsureOCMAgentResourcesAbsent
    PROVE  [Finalizing!Next]_(Finalizing!vars)
<1>1. CASE UNCHANGED <<hist, objs>>
    BY <1>1, StagesKept, ZenonT(30) DEF Finalizing!vars, OwnKinds
<1>2. CASE ObjectStep
    <2>1. PICK t, k, o, next, local :
              Legal(k, o, next, local) /\ EnsureStepAt(t, k, o, next, local)
        BY <1>2, ZenonT(30) DEF ObjectStep
    <2>2. k \in Keys /\ UNCHANGED hist /\ (o # Nil => OwnerOK(k, o))
        BY <2>1 DEF Legal, EnsureStepAt
    <2>3. \/ \A j \in Keys : objs'[j] = IF j = k THEN o ELSE objs[j]
          \/ \A j \in Keys : objs'[j] = objs[j]
        <3>1. \/ objs' = [objs EXCEPT ![k] = o]
              \/ objs' = [objs EXCEPT ![k] = objs[k]]
            BY <2>1, ZenonT(30) DEF EnsureStepAt, Put
        <3>2. DOMAIN objs = Keys
            BY DEF Inv, BaseInv, TypeOK
        <3> QED
            BY <3>1, <3>2, ZenonT(30)
    <2>4. CASE objs'[k] = Nil \/ objs[k] # Nil \/ k[1] = "Secret"
        BY <2>2, <2>3, <2>4, Losing, ZenonT(30) DEF Finalizing!Next
    <2>5. CASE objs'[k] # Nil /\ objs[k] = Nil /\ k[1] # "Secret"
        <3>0. o # Nil /\ \A j \in Keys : objs'[j] = IF j = k THEN o ELSE objs[j]
            BY <2>2, <2>3, <2>5, SMTT(30)
        <3>1. CASE EnsureOCMAgentResourcesAbsent
            BY <2>2, <2>5, <3>1, RemovalTakes, ZenonT(30)
        <3>2. CASE EnsureOCMAgentResourcesExist
            <4>1. pc \in ExistSteps /\ pc # "idle"
                BY <3>2, ZenonT(30) DEF EnsureOCMAgentResourcesExist, fetchAccessTokenPullSecret,
                       ensureAccessTokenSecret, ensureFleetClientSecret, buildEnvVars,
                       ensureDeployment, ensureAllConfigMaps, ensureService,
                       ensureNetworkPolicy, ensureServiceMonitor,
                       ensurePodDisruptionBudget, restartOCMAgentPods, ExistSteps
            <4>2. PICK a \in Agents : a = run.agent
                BY <4>1, WorkerFacts, ZenonT(30)
            <4>3. Guards(a)
                BY <4>1, <4>2, ZenonT(30) DEF CAMOInv
            <4>4. Finalizing!Tended(a)
                BY <4>2, <4>3, ZenonT(30) DEF Guards, StageOf, Finalizing!Tended
            <4>5. o.owner \in {Nil, ownerRef} /\ ownerRef.agent = a
                BY <2>2, <2>5, <3>0, <4>2, ZenonT(30) DEF OwnerOK, ownerRef
            <4>6. Named(k, o)
                BY <2>2, <3>0, ZenonT(30) DEF NamesInv, Named
            <4>7. CASE k[1] \in AgentKinds
                <5>1. k = <<k[1], a>>
                    BY <2>2, <4>5, <4>6, <4>7, ObjectsSeen, ZenonT(30) DEF Named
                <5>2. objs'[CAMOKey] = objs[CAMOKey]
                    BY <3>0, <4>7, <5>1, ObjectsSeen, SharedKeys, ZenonT(30)
                <5>3. ASSUME NEW b \in Agents
                      PROVE  OwnKinds(b)' = IF b = a THEN OwnKinds(a) \cup {k[1]}
                                                     ELSE OwnKinds(b)
                    <6>1. \A kind \in AgentKinds :
                              objs'[<<kind, b>>] = IF b = a /\ kind = k[1] THEN o
                                                   ELSE objs[<<kind, b>>]
                        BY <3>0, <5>1, ObjectsSeen, SMTT(30)
                    <6> QED
                        BY <3>0, <2>5, <4>7, <6>1, SMTT(30) DEF OwnKinds
                <5> DEFINE kept == [b \in Agents |-> OwnKinds(b)]
                <5>4. kept' = [kept EXCEPT ![a] = kept[a] \cup {k[1]}]
                    BY <5>3, ZenonT(30)
                <5> HIDE DEF kept
                <5>5. Finalizing!Provide(a, k[1])
                    BY <2>2, <4>4, <5>2, <5>4, StagesKept, ZenonT(30) DEF Finalizing!Provide, kept
                <5> QED
                    BY <4>7, <5>5 DEF Finalizing!Next
            <4>8. CASE k[1] \notin AgentKinds
                <5>1. \A b \in Agents : OwnKinds(b)' = OwnKinds(b)
                    <6>1. \A b \in Agents : \A kind \in AgentKinds :
                              objs'[<<kind, b>>] = objs[<<kind, b>>]
                        BY <3>0, <4>8, ObjectsSeen, ZenonT(30)
                    <6> QED
                        BY <6>1, Zenon DEF OwnKinds
                <5>2. CASE k = CAMOKey
                    <6>1. objs'[CAMOKey] # Nil
                        BY <3>0, <5>2, SharedKeys, ZenonT(30)
                    <6>2. Finalizing!Announce(a)
                        BY <2>2, <4>4, <5>1, <6>1, StagesKept, ZenonT(30) DEF Finalizing!Announce
                    <6> QED
                        BY <6>2, Zenon DEF Finalizing!Next
                <5>3. CASE k # CAMOKey
                    <6>1. objs'[CAMOKey] = objs[CAMOKey]
                        BY <3>0, <5>3, SharedKeys, SMTT(30)
                    <6> QED
                        BY <2>2, <5>1, <6>1, StagesKept, ZenonT(30) DEF Finalizing!vars
                <5> QED
                    BY <5>2, <5>3, Zenon
            <4> QED
                BY <4>7, <4>8, ZenonT(30)
        <3> QED
            BY <3>1, <3>2, ZenonT(30)
    <2> QED
        BY <2>4, <2>5, ZenonT(30)
<1> QED
    BY <1>1, <1>2, ExistStep, AbsentStep, ZenonT(30) DEF QuietStep

LEMMA LifecycleNext ==
    ASSUME ~EarlyDelete, Inv, CAMOInv, RemovalInv, NamesInv', [Next]_vars
    PROVE  [Finalizing!Next]_(Finalizing!vars)
<1>1. CASE UNCHANGED <<hist, objs>>
    BY <1>1, StagesKept, ZenonT(30) DEF Finalizing!vars, OwnKinds
<1>2. ASSUME NEW a \in Agents, Reconcile(a) \/ WatchOcmAgent(a)
      PROVE  UNCHANGED <<hist, objs>>
    BY <1>2, Zenon DEF Reconcile, WatchOcmAgent, cluster
<1>3. CASE Restart \/ UNCHANGED vars
    BY <1>1, <1>3, ZenonT(30) DEF Restart, vars, cluster
<1>4. CASE Worker
    BY <1>4, HandlerLifecycle, FinalizersLifecycle, ZenonT(30) DEF Worker
<1>5. CASE Environment
    <2>1. ASSUME NEW a \in Agents, User(a) \/ DependentsGone(a)
          PROVE  [Finalizing!Next]_(Finalizing!vars)
        BY <2>1, OthersLifecycle, ZenonT(30)
    <2>2. CASE \/ ChangePullSecret \/ ChangeProxy \/ InjectTrustedCa
               \/ \E s \in TokenSecrets : ProvisionSecret(s)
               \/ \E k \in Keys : Tamper(k) \/ GarbageCollect(k)
        <3>1. /\ UNCHANGED hist
              /\ \A j \in Keys : (\A s : j # SecretKey(s)) /\ objs[j] = Nil
                                     => objs'[j] = Nil
            BY <2>2, NothingComesBack, ZenonT(30)
        <3>2. \A j \in Keys : j[1] # "Secret" => \A s : j # SecretKey(s)
            BY DEF SecretKey
        <3> QED
            BY <3>1, <3>2, Losing, ZenonT(30) DEF Finalizing!Next
    <2> QED
        BY <1>5, <2>1, <2>2, ZenonT(30) DEF Environment
<1> QED
    BY <1>1, <1>2, <1>3, <1>4, <1>5, ZenonT(30) DEF Next

\* The controller implements AgentLifecycle, provided that no OcmAgent is deleted
\* before it has its finalizer: whatever failed, was stale or was done twice,
\* objects are provided and announced only for OcmAgents that are there and not
\* let go, and an OcmAgent is let go only once deleted and cleaned up after.
THEOREM LifecycleKept ==
    ASSUME ~EarlyDelete
    PROVE  Spec => ImplementsLifecycle
<1>1. Init => Finalizing!Init
    <2> SUFFICES ASSUME Init PROVE Finalizing!Init
        BY Zenon
    <2>1. \A a \in Agents : Current(a) = Nil
        BY ZenonT(30) DEF Init, Current, Version
    <2>2. \A a \in Agents : OwnKinds(a) = {}
        BY ObjectsSeen, ZenonT(30) DEF Init, OwnKinds
    <2>3. objs[CAMOKey] = Nil
        BY SharedKeys, Zenon DEF Init
    <2> QED
        BY <2>1, <2>2, <2>3, ZenonT(30) DEF Finalizing!Init, StageOf
<1>2. Inv /\ CAMOInv /\ RemovalInv /\ NamesInv' /\ [Next]_vars
          => [Finalizing!Next]_(Finalizing!vars)
    BY LifecycleNext, Zenon
<1>3. Spec => []CAMOInv
    BY CAMOInit, CAMONext, Invariance, PTL DEF Spec
<1>4. Spec => []NamesInv
    BY ProgressInit, ProgressNext, Invariance, PTL DEF Spec
<1> QED
    BY <1>1, <1>2, <1>3, <1>4, Invariance, RemovalInvariance, PTL
       DEF Spec, ImplementsLifecycle, Finalizing!Spec

=============================================================================
