---------------------- MODULE OcmAgentDeploymentProofs ----------------------
(***************************************************************************)
(* What EnsureOCMAgentResourcesExist achieves, whatever failed and whoever *)
(* interfered: at its end everything that the spec asks for is in place,   *)
(* or a reconcile that repairs it is due.                                  *)
(***************************************************************************)
EXTENDS OcmAgentInvariant

-----------------------------------------------------------------------------
(* The objects of a deployment, in the order in which they are ensured.    *)

Place(step) ==
    CASE step = "fetchPullSecret"                       -> 0
      [] step \in {"ensureSecret", "ensureFleetSecret"} -> 1
      [] step = "buildEnvVars"                          -> 2
      [] step = "ensureDeployment"                      -> 3
      [] step = "ensureConfigMap"                       -> 4
      [] step = "ensureCAMO"                            -> 5
      [] step = "ensureTrustedCa"                       -> 6
      [] step = "ensureService"                         -> 7
      [] step = "ensureMetricsService"                  -> 8
      [] step = "ensureNetworkPolicy"                   -> 9
      [] step = "ensureServiceMonitor"                  -> 10
      [] step = "ensurePDB"                             -> 11
      [] OTHER                                          -> 12

KindPlace(kind) ==
    CASE kind = "Secret"         -> 1
      [] kind = "Deployment"     -> 3
      [] kind = "ConfigMap"      -> 4
      [] kind = "CAMOConfigMap"  -> 5
      [] kind = "TrustedCa"      -> 6
      [] kind = "Service"        -> 7
      [] kind = "MetricsService" -> 8
      [] kind \in Namespaces     -> 9
      [] kind = "ServiceMonitor" -> 10
      [] OTHER                   -> 11

\* Object k has been ensured when the worker comes to a step.
Past(k, step, r) ==
    \/ KindPlace(k[1]) < Place(step)
    \/ /\ step = "ensureNetworkPolicy" /\ k[1] \in Namespaces
       /\ k[1] \notin Listed(r.namespaces)

Settled(k) == InPlace(k, instance.spec, run) \/ Excused(k, run.agent)

ProgressInv ==
    pc \in ExistSteps =>
        /\ pc = "ensureFleetSecret" => instance.spec.fleetMode
        /\ \A k \in Wanted(run.agent, instance.spec) : Past(k, pc, run) => Settled(k)

\* An agent's own objects belong to a resource of its name, so that what
\* happens to them brings its request back; the CAMO ConfigMap to none.
Named(k, o) ==
    /\ k[1] \in AgentKinds => o.owner # Nil /\ o.owner.agent = k[2]
    /\ k = CAMOKey => o.owner = Nil

NamesInv ==
    /\ budget["tampers"] <= Limits["tampers"]
    /\ \A k \in Keys : objs[k] # Nil => Named(k, objs[k])

\* Each wanted object has a place of its own, the network policies share one.
LEMMA WantedPlaces ==
    ASSUME NEW a \in Agents, NEW spec \in SpecType, NEW k \in Wanted(a, spec)
    PROVE  /\ k \in Keys
           /\ \/ KindPlace(k[1]) = 1 /\ k = SecretKey(spec.tokenSecret) /\ ~spec.fleetMode
              \/ KindPlace(k[1]) = 3 /\ k = DeploymentKey(a)
              \/ KindPlace(k[1]) = 4 /\ k = ConfigMapKey(a)
              \/ KindPlace(k[1]) = 5 /\ k = CAMOKey /\ ~spec.fleetMode
              \/ KindPlace(k[1]) = 6 /\ k = TrustedCaKey
              \/ KindPlace(k[1]) = 7 /\ k = ServiceKey(a)
              \/ KindPlace(k[1]) = 8 /\ k = MetricsServiceKey(a)
              \/ /\ KindPlace(k[1]) = 9 /\ k = NetworkPolicyKey(a, k[1])
                 /\ k[1] \in Listed(networkPolicyNamespaces(spec))
              \/ KindPlace(k[1]) = 10 /\ k = ServiceMonitorKey(a)
              \/ KindPlace(k[1]) = 11 /\ k = PDBKey(a) /\ spec.replicas > 1
           /\ k[1] \in Namespaces <=> KindPlace(k[1]) = 9
<1> DEFINE np == networkPolicyNamespaces(spec)
<1>1. \A i \in 1..Len(np) : np[i] \in Namespaces /\ np[i] \in Listed(np)
    BY NamespacesListed DEF Listed
<1>2. CASE \E i \in 1..Len(np) : k = NetworkPolicyKey(a, np[i])
    <2>1. PICK n \in Namespaces : k = NetworkPolicyKey(a, n) /\ n \in Listed(np)
        BY <1>1, <1>2, Zenon
    <2>2. k[1] = n
        BY <2>1, Zenon DEF NetworkPolicyKey
    <2>3. KindPlace(n) = 9
        BY Zenon DEF KindPlace, Namespaces
    <2> QED
        BY <2>1, <2>2, <2>3, AgentKeys, Zenon
<1>3. CASE k \in {DeploymentKey(a), ConfigMapKey(a), TrustedCaKey, ServiceKey(a),
                  MetricsServiceKey(a), ServiceMonitorKey(a)}
    <2>1. k \in Keys
        BY <1>3, AgentKeys, SharedKeys, ZenonT(30)
    <2>2. CASE k \in {DeploymentKey(a), ConfigMapKey(a)}
        BY <2>1, <2>2, SMTT(30) DEF DeploymentKey, ConfigMapKey, KindPlace, Namespaces
    <2>3. CASE k \in {ServiceKey(a), TrustedCaKey}
        BY <2>1, <2>3, SMTT(30) DEF ServiceKey, TrustedCaKey, KindPlace, Namespaces
    <2>4. CASE k \in {MetricsServiceKey(a), ServiceMonitorKey(a)}
        BY <2>1, <2>4 DEF MetricsServiceKey, ServiceMonitorKey, KindPlace, Namespaces
    <2> QED
        BY <1>3, <2>2, <2>3, <2>4, Zenon
<1>4. CASE k = PDBKey(a) /\ spec.replicas > 1
    BY <1>4, AgentKeys, SMTT(30) DEF PDBKey, KindPlace, Namespaces
<1>5. CASE k \in {CAMOKey, SecretKey(spec.tokenSecret)} /\ ~spec.fleetMode
    <2>1. spec.tokenSecret \in TokenSecrets
        BY Zenon DEF SpecType
    <2> QED
        BY <1>5, <2>1, SharedKeys DEF CAMOKey, SecretKey, KindPlace, Namespaces
<1> QED
    BY <1>2, <1>3, <1>4, <1>5, ZenonT(30) DEF Wanted

LEMMA WantedRange ==
    ASSUME NEW a \in Agents, NEW spec \in SpecType, NEW k \in Wanted(a, spec)
    PROVE  KindPlace(k[1]) \in 1..11 /\ (spec.fleetMode => KindPlace(k[1]) \in 3..11)
BY WantedPlaces

\* Once an OcmAgent of a name has been deleted, it stays deleted.
LEMMA DepartedStays ==
    ASSUME Inv, NEW a \in Agents, NEW e, Write(a, e), Follows(hist[a], e),
           NEW b \in Agents, Departed(b)
    PROVE  Departed(b)'
<1>1. PICK v \in 1..Len(hist[b]) :
          hist[b][v] # Nil /\ ~Live([agent |-> b, uid |-> hist[b][v].uid])
    BY Zenon DEF Departed, Version
<1>2. /\ Len(hist'[b]) \in Nat /\ Len(hist[b]) <= Len(hist'[b])
      /\ b # a => hist'[b] = hist[b]
      /\ hist'[b][v] = hist[b][v] /\ v \in 1..Len(hist'[b])
      /\ Len(hist'[a]) = Len(hist[a]) + 1 /\ hist'[a][Len(hist[a]) + 1] = e
    BY Written, CurrentFacts
<1> DEFINE u == hist[b][v].uid
<1>3. ~(Current(b) # Nil /\ Current(b).uid = u /\ ~Current(b).deleting)
    BY <1>1, Zenon DEF Live
<1>4. ~(Current(b)' # Nil /\ Current(b)'.uid = u /\ ~Current(b)'.deleting)
    <2>1. CASE b # a
        BY <1>2, <1>3, <2>1, Zenon DEF Current, Version
    <2>2. CASE b = a
        <3>1. Current(b)' = e
            BY <1>2, <2>2, Zenon DEF Current, Version
        <3>2. u <= Len(hist[b]) /\ u \in Nat /\ Len(hist[b]) \in Nat
            <4>1. HistoryOK(hist[b])
                BY Zenon DEF Inv, BaseInv, HistoryInv
            <4>2. hist[b][v] \in OcmAgents /\ hist[b][v].uid <= v
                BY <1>1, <4>1 DEF HistoryOK, Histories
            <4> QED
                BY <1>1, <4>1, <4>2 DEF HistoryOK, OcmAgents
        <3> HIDE DEF u
        <3> QED
            BY <1>3, <2>2, <3>1, <3>2, CurrentFacts DEF Follows
    <2> QED
        BY <2>1, <2>2, Zenon
<1> QED
    BY <1>1, <1>2, <1>4, Zenon DEF Departed, Version, Live

\* The parts of the worker's local state that a built object depends on.
SameRun(r, s) ==
    s.agent = r.agent /\ s.version = r.version /\ s.token = r.token /\ s.proxy = r.proxy

\* A settled object that a step leaves alone stays settled.
LEMMA SettledStays ==
    ASSUME Inv, pc # "idle", NEW k \in Keys, Settled(k), objs'[k] = objs[k],
           \A b \in Agents : Departed(b) => Departed(b)',
           queue \subseteq queue', Meddled => Meddled',
           instance' = instance, SameRun(run, run')
    PROVE  Settled(k)'
<1>1. Keepers(k, run.agent) \subseteq Agents /\ run'.agent = run.agent
    BY WorkerFacts, Zenon DEF Keepers, SameRun
<1>2. CASE InPlace(k, instance.spec, run)
    BY <1>2, Zenon DEF Settled, InPlace, AsBuilt, FollowsSpec, SameRun
<1>3. CASE Excused(k, run.agent)
    <2>1. Excused(k, run.agent)'
        BY <1>1, <1>3, Zenon DEF Excused, Keepers
    <2> QED
        BY <2>1, Zenon DEF Settled
<1> QED
    BY <1>2, <1>3, Zenon DEF Settled

LEMMA DepartedUnchanged ==
    ASSUME UNCHANGED hist, NEW b, Departed(b)
    PROVE  Departed(b)'
BY Zenon DEF Departed, Live, Current, Version

\* What one create-or-restore call changes.
LEMMA CallEffect ==
    ASSUME Inv, pc # "idle", NEW t, NEW k \in Keys, NEW o, NEW next, NEW local,
           next # "idle", EnsureStepAt(t, k, o, next, local)
    PROVE  /\ UNCHANGED hist /\ queue \subseteq queue'
           /\ budget'["tampers"] = budget["tampers"]
           /\ objs'[k] \in {o, objs[k]}
           /\ \A j \in Keys : j # k => objs'[j] = objs[j]
           /\ pc' # "idle" => pc' = next /\ run' = local /\ objs'[k] = o
<1>1. UNCHANGED hist /\ queue \subseteq queue'
    BY Zenon DEF EnsureStepAt, Put
<1>2. DOMAIN objs = Keys /\ budget \in [Disturbances -> Nat]
      /\ "tampers" \in Disturbances /\ "faults" \in Disturbances
    BY Zenon DEF Inv, BaseInv, TypeOK, Disturbances
<1>3. budget'["tampers"] = budget["tampers"]
    BY <1>2, Zenon DEF EnsureStepAt, Spend
<1>4. \/ objs' = [objs EXCEPT ![k] = o]
      \/ pc' = "idle" /\ objs' = [objs EXCEPT ![k] = objs[k]]
    BY Zenon DEF EnsureStepAt, Put, Return, Goto
<1>5. pc' # "idle" => pc' = next /\ run' = local
    BY Zenon DEF EnsureStepAt, Return, Goto
<1>6. /\ objs'[k] \in {o, objs[k]} /\ (pc' # "idle" => objs'[k] = o)
      /\ \A j \in Keys : j # k => objs'[j] = objs[j]
    BY <1>2, <1>4, Zenon
<1> QED
    BY <1>1, <1>3, <1>5, <1>6, Zenon

\* A call of EnsureOCMAgentResourcesExist that leaves its object as built.
LEMMA EnsuringCall ==
    ASSUME Inv, NamesInv, ProgressInv, pc \in ExistSteps,
           NEW t, NEW k \in Keys, NEW o, NEW next \in ExistSteps, NEW local,
           next # "ensureFleetSecret", EnsureStepAt(t, k, o, next, local),
           SameRun(run, local), o # Nil, Named(k, o),
           AsBuilt(k, o.data, instance.spec, run)
               \/ (objs[k] # Nil /\ Excused(k, run.agent)),
           \A j \in Wanted(run.agent, instance.spec) :
               Past(j, next, local) => j = k \/ Past(j, pc, run)
    PROVE  NamesInv' /\ ProgressInv'
<1>1. pc # "idle" /\ next # "idle"
    BY Zenon DEF ExistSteps
<1>2. /\ UNCHANGED hist /\ queue \subseteq queue'
      /\ budget'["tampers"] = budget["tampers"]
      /\ objs'[k] \in {o, objs[k]}
      /\ \A j \in Keys : j # k => objs'[j] = objs[j]
      /\ pc' # "idle" => pc' = next /\ run' = local /\ objs'[k] = o
    BY <1>1, CallEffect, SMTT(30)
<1>3. NamesInv'
    <2>1. \A j \in Keys : objs'[j] # Nil => Named(j, objs'[j])
        BY <1>2, Zenon DEF NamesInv
    <2> QED
        BY <1>2, <2>1, Zenon DEF NamesInv
<1>4. ProgressInv'
    <2> SUFFICES ASSUME pc' \in ExistSteps
                 PROVE  /\ pc' = "ensureFleetSecret" => instance'.spec.fleetMode
                        /\ \A j \in Wanted(run.agent, instance.spec)' :
                               Past(j, pc, run)' => Settled(j)'
        BY Zenon DEF ProgressInv
    <2>1. pc' = next /\ run' = local /\ objs'[k] = o
        BY <1>2, Zenon DEF ExistSteps
    <2>2. instance' = instance /\ run'.agent = run.agent /\ SameRun(run, run')
        BY <1>2, <2>1, Zenon DEF instance, SameRun
    <2>3. Meddled => Meddled'
        BY <1>2, Zenon DEF Meddled
    <2>4. ASSUME NEW j \in Wanted(run.agent, instance.spec), Past(j, next, local)
          PROVE  Settled(j)'
        <3>1. j \in Keys
            BY <1>1, WorkerFacts, WantedPlaces, Zenon
        <3>2. CASE j # k
            BY Zenon, <1>1, <1>2, <2>2, <2>3, <2>4, <3>1, <3>2, SettledStays,
               DepartedUnchanged DEF ProgressInv
        <3>3. CASE j = k
            <4>1. CASE AsBuilt(k, o.data, instance.spec, run)
                <5>1. AsBuilt(k, objs'[k].data, instance'.spec, run')
                    BY <2>1, <2>2, <4>1, Zenon DEF AsBuilt, FollowsSpec, SameRun
                <5> QED
                    BY <2>1, <3>3, <5>1, Zenon DEF Settled, InPlace
            <4>2. CASE objs[k] # Nil /\ Excused(k, run.agent)
                BY <1>2, <2>2, <2>3, <3>3, <4>2, ZenonT(30) DEF Settled, Excused
            <4> QED
                BY <4>1, <4>2, Zenon
        <3> QED
            BY <3>2, <3>3, Zenon
    <2>5. /\ Wanted(run.agent, instance.spec)' = Wanted(run.agent, instance.spec)
          /\ \A j : Past(j, pc, run)' = Past(j, next, local)
        BY <2>1, <2>2 DEF Wanted, Past
    <2> QED
        BY <2>1, <2>4, <2>5, Zenon
<1> QED
    BY <1>3, <1>4, Zenon

-----------------------------------------------------------------------------
(* The calls of EnsureOCMAgentResourcesExist, one by one.                  *)

LEMMA Places ==
    /\ Place("ensureSecret") = 1 /\ Place("ensureFleetSecret") = 1
    /\ Place("fetchPullSecret") = 0 /\ Place("buildEnvVars") = 2
    /\ Place("ensureDeployment") = 3 /\ Place("ensureConfigMap") = 4
    /\ Place("ensureCAMO") = 5 /\ Place("ensureTrustedCa") = 6
    /\ Place("ensureService") = 7 /\ Place("ensureMetricsService") = 8
    /\ Place("ensureNetworkPolicy") = 9 /\ Place("ensureServiceMonitor") = 10
    /\ Place("ensurePDB") = 11 /\ Place("restartPods") = 12
    /\ Place("addFinalizer") = 12
BY Zenon DEF Place

\* What an ensured object is like, under the right owner.
LEMMA EnsuredNamed ==
    ASSUME Inv, NamesInv, NEW k \in Keys, NEW ref, NEW o,
           EnsuredOK(DataOf(k), objs[k], ref, o),
           k[1] \in AgentKinds => ref # Nil /\ ref.agent = k[2],
           k = CAMOKey => ref = Nil
    PROVE  o # Nil /\ Named(k, o)
<1>1. o \in Objects(k)
    BY Zenon DEF EnsuredOK, Objects
<1> QED
    BY <1>1, NoObjectAssumption, Zenon DEF EnsuredOK, NamesInv, Named

LEMMA OwnReference ==
    ASSUME Inv, pc # "idle"
    PROVE  /\ ownerRef # Nil /\ ownerRef.agent = run.agent /\ ownerRef \in Owners
           /\ Nil \in Owners
<1>1. instance.uid \in Nat /\ run.agent \in Agents
    BY WorkerFacts, Zenon DEF OcmAgents
<1> QED
    BY <1>1, NoObjectAssumption DEF ownerRef, Owners

LEMMA SecretCall ==
    ASSUME Inv, NamesInv, ProgressInv, ensureAccessTokenSecret
    PROVE  NamesInv' /\ ProgressInv'
<1> DEFINE k == SecretKey(instance.spec.tokenSecret)
           o == EnsuredSecret(objs[k], ownerRef, run.token)
           local == [run EXCEPT !.secretUpdated = (o # objs[k])]
<1>1. pc = "ensureSecret" /\ EnsureStepAt(stamp, k, o, "buildEnvVars", local)
    BY Zenon DEF ensureAccessTokenSecret, EnsureStep
<1>2. pc # "idle" /\ pc \in ExistSteps /\ "buildEnvVars" \in ExistSteps
    BY <1>1, Zenon DEF ExistSteps
<1>3. k \in Keys /\ run.token \in DataOf(k)
    BY <1>1, WorkerFacts, SharedKeys, Zenon DEF SpecType, Inv, BaseInv, RunOK
<1>4. SameRun(run, local)
    BY <1>2, WorkerFacts, Zenon DEF Runs, SameRun
<1>5. objs[k] \in Objects(k) \cup {Nil}
    BY <1>3, Zenon DEF Inv, BaseInv, TypeOK
<1>6. k[1] = "Secret" /\ k[1] \notin AgentKinds /\ k # CAMOKey
    BY Zenon DEF SecretKey, AgentKinds, ServiceKinds, SpecKinds, Namespaces, CAMOKey
<1>7. \A j \in Wanted(run.agent, instance.spec) :
          Past(j, "buildEnvVars", local) => j = k \/ Past(j, pc, run)
    BY <1>1, <1>2, WorkerFacts, WantedPlaces, Places DEF Past
<1> HIDE DEF k, local
<1>8. EnsuredOK(DataOf(k), objs[k], ownerRef, o)
    BY <1>2, <1>3, <1>5, OwnReference, EnsuredShapes, Zenon DEF Objects
<1>9. o.data = run.token
    BY <1>5, Zenon DEF EnsuredSecret, Objects
<1> HIDE DEF o
<1>10. AsBuilt(k, o.data, instance.spec, run)
    BY <1>6, <1>9, Zenon DEF AsBuilt, ServiceKinds, SpecKinds, Namespaces
<1>11. o # Nil /\ Named(k, o)
    BY <1>3, <1>6, <1>8, EnsuredNamed, ZenonT(30)
<1> QED
    BY <1>1, <1>2, <1>3, <1>4, <1>7, <1>10, <1>11, EnsuringCall, Zenon

\* What the build function takes from the spec and the proxy.
LEMMA BuiltDeployment ==
    ASSUME NEW spec \in SpecType, NEW env \in Proxies, NEW e,
           e = buildOCMAgentDeployment(spec, env)
    PROVE  /\ e.image = spec.ocmAgentImage /\ e.secretName = spec.tokenSecret
           /\ e.proxy = env /\ e.replicas = spec.replicas
           /\ e \in DeploymentData
BY Zenon DEF buildOCMAgentDeployment, DeploymentData, SpecType

LEMMA DeploymentCall ==
    ASSUME Inv, NamesInv, ProgressInv, ensureDeployment
    PROVE  NamesInv' /\ ProgressInv'
<1> DEFINE k == DeploymentKey(run.agent)
           e == buildOCMAgentDeployment(instance.spec, run.proxy)
           o == EnsuredDeployment(objs[k], ownerRef, e)
           spec == instance.spec
<1>1. pc = "ensureDeployment" /\ EnsureStepAt(stamp, k, o, "ensureConfigMap", run)
    BY Zenon DEF ensureDeployment, EnsureStep
<1>2. pc # "idle" /\ pc \in ExistSteps /\ "ensureConfigMap" \in ExistSteps
    BY <1>1, Zenon DEF ExistSteps
<1>3. k \in Keys /\ DataOf(k) = DeploymentData
    BY <1>2, WorkerFacts, AgentKeys, Zenon
<1>4. /\ k[1] = "Deployment" /\ k[1] \in AgentKinds /\ k[2] = run.agent /\ k # CAMOKey
    BY Zenon DEF DeploymentKey, AgentKinds, CAMOKey
<1>5. \A j \in Wanted(run.agent, instance.spec) :
          Past(j, "ensureConfigMap", run) => j = k \/ Past(j, pc, run)
    BY <1>1, <1>2, WorkerFacts, WantedPlaces, Places, SMTT(30) DEF Past
<1>6. /\ e.image = spec.ocmAgentImage /\ e.secretName = spec.tokenSecret
      /\ e.proxy = run.proxy /\ e.replicas = spec.replicas
      /\ e \in DeploymentData
    <2>1. run.proxy \in Proxies
        BY <1>1, Zenon DEF Inv, BaseInv, RunOK
    <2>2. spec \in SpecType
        BY <1>2, WorkerFacts, Zenon
    <2> HIDE DEF spec
    <2>3. e = buildOCMAgentDeployment(spec, run.proxy)
        BY Zenon DEF spec
    <2> HIDE DEF e
    <2> QED
        BY <2>1, <2>2, <2>3, BuiltDeployment
<1> HIDE DEF k, e, spec
<1>7. /\ EnsuredOK(DataOf(k), objs[k], ownerRef, o)
      /\ FollowsSpec(o.data, spec, run.proxy)
    <2>1. CASE objs[k] = Nil
        BY <1>2, <1>3, <1>6, <2>1, OwnReference, Zenon
           DEF EnsuredOK, EnsuredDeployment, FollowsSpec
    <2>2. CASE objs[k] # Nil /\ deploymentConfigChanged(objs[k].data, e)
        <3> DEFINE d == [e EXCEPT !.labels = objs[k].data.labels]
        <3>1. objs[k] \in [owner: Owners, data: DeploymentData]
            BY <1>3, <2>2, Zenon DEF Inv, BaseInv, TypeOK, Objects
        <3>2. d \in DeploymentData /\ FollowsSpec(d, spec, run.proxy)
            BY <1>6, <3>1, Zenon DEF DeploymentData, FollowsSpec
        <3>3. o = [objs[k] EXCEPT !.data = d]
            BY <2>2, Zenon DEF EnsuredDeployment
        <3> HIDE DEF d, o
        <3>4. o.data = d /\ o.owner = objs[k].owner /\ o \in [owner: Owners, data: DeploymentData]
            BY <3>1, <3>2, <3>3, Zenon
        <3> QED
            BY <1>3, <2>2, <3>2, <3>4, Zenon DEF EnsuredOK
    <2>3. CASE objs[k] # Nil /\ ~deploymentConfigChanged(objs[k].data, e)
        <3>1. o = objs[k]
            BY <2>3, Zenon DEF EnsuredDeployment
        <3>2. objs[k] \in [owner: Owners, data: DeploymentData]
            BY <1>3, <2>3, Zenon DEF Inv, BaseInv, TypeOK, Objects
        <3>3. FollowsSpec(objs[k].data, spec, run.proxy)
            BY <1>6, <2>3, Zenon DEF deploymentConfigChanged, FollowsSpec
        <3> QED
            BY <1>3, <2>3, <3>1, <3>2, <3>3, Zenon DEF EnsuredOK
    <2> QED
        BY <2>1, <2>2, <2>3, Zenon
<1> HIDE DEF o
<1>8. AsBuilt(k, o.data, instance.spec, run)
    BY <1>4, <1>7, Zenon DEF AsBuilt, spec, ServiceKinds, SpecKinds, Namespaces
<1>9. o # Nil /\ Named(k, o)
    BY <1>2, <1>3, <1>4, <1>7, OwnReference, EnsuredNamed, Zenon
<1>10. SameRun(run, run)
    BY Zenon DEF SameRun
<1> QED
    BY <1>1, <1>2, <1>3, <1>5, <1>8, <1>9, <1>10, EnsuringCall, Zenon

LEMMA ConfigMapCall ==
    ASSUME Inv, NamesInv, ProgressInv, ensureAllConfigMaps
    PROVE  NamesInv' /\ ProgressInv'
<1> DEFINE o(k, ref, data) == EnsuredConfigMap(k, objs[k], ref, data)
<1>1. pc # "idle" /\ pc \in ExistSteps /\ SameRun(run, run)
    BY Zenon DEF ensureAllConfigMaps, ExistSteps, SameRun
<1>2. ASSUME NEW k \in Keys, NEW ref \in {Nil, ownerRef}, NEW d \in DataOf(k),
             k[1] \in AgentKinds => ref = ownerRef /\ k[2] = run.agent,
             k = CAMOKey => ref = Nil
      PROVE  /\ o(k, ref, d) # Nil /\ Named(k, o(k, ref, d))
             /\ k # TrustedCaKey => o(k, ref, d).data = d
    <2>1. EnsuredOK(DataOf(k), objs[k], ref, o(k, ref, d))
        BY <1>1, <1>2, WorkerFacts, OwnReference, EnsuredShapes, Zenon DEF Objects
    <2>2. k # TrustedCaKey => o(k, ref, d).data = d
        BY <1>1, <1>2, WorkerFacts, Zenon DEF EnsuredConfigMap, Objects
    <2> HIDE DEF o
    <2> QED
        BY <1>1, <1>2, <2>1, <2>2, OwnReference, EnsuredNamed, Zenon
<1> HIDE DEF o
<1>3. CASE pc = "ensureConfigMap"
    <2> DEFINE k == ConfigMapKey(run.agent)
               d == buildOCMAgentConfigMap(instance.spec)
               next == IF instance.spec.fleetMode THEN "ensureTrustedCa"
                                                  ELSE "ensureCAMO"
    <2>1. EnsureStepAt(stamp, k, o(k, ownerRef, d), next, run)
        BY <1>3, Zenon DEF ensureAllConfigMaps, ensureConfigMap, EnsureStep, o
    <2>2. k \in Keys /\ d \in DataOf(k)
        BY <1>1, WorkerFacts, AgentKeys, ZenonT(30)
           DEF buildOCMAgentConfigMap, ConfigMapData, SpecType
    <2>3. next \in ExistSteps /\ next # "ensureFleetSecret"
        BY Zenon DEF ExistSteps
    <2>4. /\ k[1] = "ConfigMap" /\ k[2] = run.agent /\ k[1] \in AgentKinds
          /\ k # CAMOKey /\ k # TrustedCaKey
        BY Zenon DEF ConfigMapKey, AgentKinds, CAMOKey, TrustedCaKey
    <2>5. \A j \in Wanted(run.agent, instance.spec) :
              Past(j, next, run) => j = k \/ Past(j, pc, run)
        BY <1>1, <1>3, WorkerFacts, WantedPlaces, Places DEF Past
    <2>6. AsBuilt(k, d, instance.spec, run)
        BY <2>4, Zenon DEF AsBuilt, ServiceKinds, SpecKinds, Namespaces
    <2> HIDE DEF k, d, next
    <2>7. /\ o(k, ownerRef, d) # Nil /\ Named(k, o(k, ownerRef, d))
          /\ o(k, ownerRef, d).data = d
        BY <1>2, <2>2, <2>4, Zenon
    <2> QED
        BY <1>1, <2>1, <2>2, <2>3, <2>5, <2>6, <2>7, EnsuringCall, Zenon
<1>4. CASE pc = "ensureCAMO"
    <2> DEFINE d == buildCAMOConfigMap(run.agent)
    <2>1. EnsureStepAt(stamp, CAMOKey, o(CAMOKey, Nil, d), "ensureTrustedCa", run)
        BY <1>4, Zenon DEF ensureAllConfigMaps, ensureConfigMap, EnsureStep, o
    <2>2. CAMOKey \in Keys /\ d \in DataOf(CAMOKey)
        BY <1>1, WorkerFacts, SharedKeys, Zenon DEF buildCAMOConfigMap
    <2>3. "ensureTrustedCa" \in ExistSteps
        BY Zenon DEF ExistSteps
    <2>4. CAMOKey[1] \notin AgentKinds /\ CAMOKey # TrustedCaKey
        BY Zenon DEF AgentKinds, ServiceKinds, SpecKinds, Namespaces, CAMOKey, TrustedCaKey
    <2>5. \A j \in Wanted(run.agent, instance.spec) :
              Past(j, "ensureTrustedCa", run) => j = CAMOKey \/ Past(j, pc, run)
        BY <1>1, <1>4, WorkerFacts, WantedPlaces, Places DEF Past
    <2>6. AsBuilt(CAMOKey, d, instance.spec, run)
        BY Zenon DEF CAMOKey, AsBuilt, ServiceKinds, SpecKinds, Namespaces
    <2> HIDE DEF d
    <2>7. /\ o(CAMOKey, Nil, d) # Nil /\ Named(CAMOKey, o(CAMOKey, Nil, d))
          /\ o(CAMOKey, Nil, d).data = d
        BY <1>2, <2>2, <2>4, Zenon
    <2> QED
        BY <1>1, <2>1, <2>2, <2>3, <2>5, <2>6, <2>7, EnsuringCall, Zenon
<1>5. CASE pc = "ensureTrustedCa"
    <2> DEFINE d == buildTrustedCaConfigMap
               k == TrustedCaKey
    <2>1. EnsureStepAt(stamp, k, o(k, ownerRef, d), "ensureService", run)
        BY <1>5, Zenon DEF ensureAllConfigMaps, ensureConfigMap, EnsureStep, o
    <2>2. k \in Keys /\ d \in DataOf(k)
        BY SharedKeys, Zenon DEF buildTrustedCaConfigMap
    <2>3. "ensureService" \in ExistSteps
        BY Zenon DEF ExistSteps
    <2>4. k[1] \notin AgentKinds /\ k # CAMOKey
        BY Zenon DEF AgentKinds, ServiceKinds, SpecKinds, Namespaces, CAMOKey, TrustedCaKey
    <2>5. \A j \in Wanted(run.agent, instance.spec) :
              Past(j, "ensureService", run) => j = k \/ Past(j, pc, run)
        BY <1>1, <1>5, WorkerFacts, WantedPlaces, Places DEF Past
    <2>6. AsBuilt(k, o(k, ownerRef, d).data, instance.spec, run)
        BY Zenon DEF TrustedCaKey, AsBuilt, ServiceKinds, SpecKinds, Namespaces
    <2> HIDE DEF d, k
    <2>7. o(k, ownerRef, d) # Nil /\ Named(k, o(k, ownerRef, d))
        BY <1>2, <2>2, <2>4, Zenon
    <2> QED
        BY <1>1, <2>1, <2>2, <2>3, <2>5, <2>6, <2>7, EnsuringCall, Zenon
<1> QED
    BY <1>3, <1>4, <1>5, Zenon DEF ensureAllConfigMaps

LEMMA ServiceCall ==
    ASSUME Inv, NamesInv, ProgressInv, ensureService
    PROVE  NamesInv' /\ ProgressInv'
<1> DEFINE o(k, e) == EnsuredService(objs[k], ownerRef, e)
           local == [run EXCEPT !.namespaces = networkPolicyNamespaces(instance.spec)]
<1>1. pc # "idle" /\ pc \in ExistSteps
    BY Zenon DEF ensureService, ExistSteps
<1>2. /\ SameRun(run, run) /\ SameRun(run, local)
      /\ local.namespaces = networkPolicyNamespaces(instance.spec)
    BY <1>1, WorkerFacts, Zenon DEF SameRun, Runs
<1>3. ASSUME NEW k \in Keys, DataOf(k) = ServiceData, k[1] \in ServiceKinds,
             k[2] = run.agent, NEW e \in ServiceData, e.spec = "built"
      PROVE  /\ o(k, e) # Nil /\ Named(k, o(k, e))
             /\ AsBuilt(k, o(k, e).data, instance.spec, run)
    <2>1. objs[k] \in [owner: Owners, data: ServiceData] \cup {Nil}
        BY <1>3, Zenon DEF Inv, BaseInv, TypeOK, Objects
    <2>2. EnsuredOK(DataOf(k), objs[k], ownerRef, o(k, e))
        BY <1>1, <1>3, <2>1, OwnReference, ServiceShapes, Zenon
    <2>3. o(k, e).data.spec = "built"
        <3>1. CASE objs[k] = Nil
            BY <1>3, <3>1, Zenon DEF EnsuredService
        <3>2. CASE objs[k] # Nil
            BY <1>3, <2>1, <3>2, Zenon DEF EnsuredService, serviceConfigChanged, ServiceData
        <3> QED
            BY <3>1, <3>2, Zenon
    <2>4. k[1] \in AgentKinds /\ k # CAMOKey /\ k[1] # "Deployment" /\ k[1] # "ConfigMap"
        BY <1>3 DEF AgentKinds, ServiceKinds, CAMOKey
    <2> HIDE DEF o
    <2>5. AsBuilt(k, o(k, e).data, instance.spec, run)
        BY <1>3, <2>3, <2>4, Zenon DEF AsBuilt, ServiceKinds, SpecKinds, Namespaces
    <2> QED
        BY <1>1, <1>3, <2>2, <2>4, <2>5, OwnReference, EnsuredNamed, Zenon
<1>4. /\ buildOCMAgentService \in ServiceData /\ buildOCMAgentService.spec = "built"
      /\ buildOCMAgentMetricsService \in ServiceData
      /\ buildOCMAgentMetricsService.spec = "built"
    BY Zenon DEF buildOCMAgentService, buildOCMAgentMetricsService, ServiceData
<1> HIDE DEF o, local
<1>5. CASE pc = "ensureService"
    <2> DEFINE k == ServiceKey(run.agent)
    <2>1. EnsureStepAt(stamp, k, o(k, buildOCMAgentService), "ensureMetricsService", run)
        BY <1>5, Zenon DEF ensureService, EnsureStep, o
    <2>2. k \in Keys /\ DataOf(k) = ServiceData
        BY <1>1, WorkerFacts, AgentKeys, Zenon
    <2>3. "ensureMetricsService" \in ExistSteps
        BY Zenon DEF ExistSteps
    <2>4. k[1] \in ServiceKinds /\ k[2] = run.agent
        BY Zenon DEF ServiceKey, ServiceKinds
    <2>5. \A j \in Wanted(run.agent, instance.spec) :
              Past(j, "ensureMetricsService", run) => j = k \/ Past(j, pc, run)
        BY <1>1, <1>5, WorkerFacts, WantedPlaces, Places, SMTT(30) DEF Past
    <2> HIDE DEF k
    <2> QED
        BY <1>1, <1>2, <1>3, <1>4, <2>1, <2>2, <2>3, <2>4, <2>5, EnsuringCall, Zenon
<1>6. CASE pc = "ensureMetricsService"
    <2> DEFINE k == MetricsServiceKey(run.agent)
    <2>1. EnsureStepAt(stamp, k, o(k, buildOCMAgentMetricsService),
                       "ensureNetworkPolicy", local)
        BY <1>6, Zenon DEF ensureService, EnsureStep, o, local
    <2>2. k \in Keys /\ DataOf(k) = ServiceData
        BY <1>1, WorkerFacts, AgentKeys, Zenon
    <2>3. "ensureNetworkPolicy" \in ExistSteps
        BY Zenon DEF ExistSteps
    <2>4. k[1] \in ServiceKinds /\ k[2] = run.agent
        BY Zenon DEF MetricsServiceKey, ServiceKinds
    <2>5. \A j \in Wanted(run.agent, instance.spec) :
              Past(j, "ensureNetworkPolicy", local) => j = k \/ Past(j, pc, run)
        BY <1>1, <1>2, <1>6, WorkerFacts, WantedPlaces, Places, SMTT(30) DEF Past
    <2> HIDE DEF k
    <2> QED
        BY <1>1, <1>2, <1>3, <1>4, <2>1, <2>2, <2>3, <2>4, <2>5, EnsuringCall, Zenon
<1> QED
    BY <1>5, <1>6, Zenon DEF ensureService

\* Network policy, ServiceMonitor and disruption budget.
LEMMA SpecCall ==
    ASSUME Inv, NamesInv, pc # "idle", NEW k \in Keys, DataOf(k) = {"built", "tampered"},
           k[1] \in SpecKinds, k[2] = run.agent
    PROVE  /\ EnsuredSpec(objs[k], ownerRef) # Nil
           /\ Named(k, EnsuredSpec(objs[k], ownerRef))
           /\ AsBuilt(k, EnsuredSpec(objs[k], ownerRef).data, instance.spec, run)
<1> DEFINE o == EnsuredSpec(objs[k], ownerRef)
<1>1. EnsuredOK(DataOf(k), objs[k], ownerRef, o)
    BY WorkerFacts, OwnReference, EnsuredShapes, ZenonT(30) DEF Objects, builtSpec
<1>2. o.data = builtSpec
    BY WorkerFacts, Zenon DEF EnsuredSpec, Objects
<1>3. /\ k[1] \in AgentKinds /\ k # CAMOKey
      /\ k[1] \notin {"Deployment", "ConfigMap"} \cup ServiceKinds
    BY DEF AgentKinds, SpecKinds, ServiceKinds, Namespaces, CAMOKey
<1> HIDE DEF o
<1>4. AsBuilt(k, o.data, instance.spec, run)
    BY <1>2, <1>3, Zenon DEF AsBuilt, SpecKinds, ServiceKinds, Namespaces
<1>5. o # Nil /\ Named(k, o)
    BY <1>1, <1>3, OwnReference, EnsuredNamed, Zenon
<1> QED
    BY <1>4, <1>5, Zenon DEF o

LEMMA NetworkPolicyCall ==
    ASSUME Inv, NamesInv, ProgressInv, ensureNetworkPolicy
    PROVE  NamesInv' /\ ProgressInv'
<1> DEFINE n == Head(run.namespaces)
           k == NetworkPolicyKey(run.agent, n)
           rest == Tail(run.namespaces)
           next == IF rest = <<>> THEN "ensureServiceMonitor" ELSE "ensureNetworkPolicy"
           local == [run EXCEPT !.namespaces = rest]
           o == EnsuredSpec(objs[k], ownerRef)
<1>1. pc = "ensureNetworkPolicy" /\ EnsureStepAt(stamp, k, o, next, local)
    BY Zenon DEF ensureNetworkPolicy, NetworkPolicyStep, EnsureStep
<1>2. /\ pc # "idle" /\ pc \in ExistSteps
      /\ next \in ExistSteps /\ next # "ensureFleetSecret"
    BY <1>1, Zenon DEF ExistSteps
<1>3. n \in Namespaces
    BY <1>1, NetworkPolicyFacts, Zenon
<1>4. /\ k \in Keys /\ DataOf(k) = {"built", "tampered"}
      /\ k[1] \in SpecKinds /\ k[2] = run.agent
    BY <1>2, <1>3, WorkerFacts, AgentKeys, Zenon DEF NetworkPolicyKey, SpecKinds
<1>5. SameRun(run, local) /\ local.namespaces = rest
    BY <1>2, WorkerFacts, Zenon DEF SameRun, Runs
<1>6. ASSUME NEW j \in Wanted(run.agent, instance.spec), Past(j, next, local)
      PROVE  j = k \/ Past(j, pc, run)
    <2>1. /\ Listed(run.namespaces) = {n} \cup Listed(rest)
          /\ rest = <<>> => Listed(rest) = {}
        BY <1>1, PoliciesLeft, ZenonT(30)
    <2>2. /\ KindPlace(j[1]) \in Nat /\ (j[1] \in Namespaces <=> KindPlace(j[1]) = 9)
          /\ KindPlace(j[1]) = 9 => j = NetworkPolicyKey(run.agent, j[1])
        BY <1>2, WorkerFacts, WantedPlaces, SMTT(30)
    <2>3. CASE KindPlace(j[1]) < 9
        <3>1. KindPlace(j[1]) < Place(pc)
            BY <1>1, <2>3, Places, Zenon
        <3> QED
            BY <3>1, Zenon DEF Past
    <2>4. CASE KindPlace(j[1]) >= 9
        <3>1. j[1] \in Namespaces /\ j[1] \notin Listed(rest)
            <4>1. CASE rest = <<>>
                <5>1. next = "ensureServiceMonitor" /\ Place(next) = 10
                    BY <4>1, Places, Zenon
                <5> HIDE DEF next
                <5> QED
                    BY <1>6, <2>1, <2>2, <2>4, <4>1, <5>1, SMTT(30) DEF Past
            <4>2. CASE rest # <<>>
                <5>1. next = "ensureNetworkPolicy" /\ Place(next) = 9
                    BY <4>2, Places, Zenon
                <5> HIDE DEF next, local
                <5> QED
                    BY <1>5, <1>6, <2>4, <2>2, <5>1, SMTT(30) DEF Past
            <4> QED
                BY <4>1, <4>2, Zenon
        <3> QED
            BY <1>1, <2>1, <2>2, <3>1, Zenon DEF Past
    <2> QED
        BY <2>2, <2>3, <2>4
<1> HIDE DEF k, next, local
<1>7. o # Nil /\ Named(k, o) /\ AsBuilt(k, o.data, instance.spec, run)
    BY <1>2, <1>4, SpecCall, Zenon
<1> HIDE DEF o
<1> QED
    BY <1>1, <1>2, <1>4, <1>5, <1>6, <1>7, EnsuringCall, Zenon

LEMMA MonitorAndBudgetCall ==
    ASSUME Inv, NamesInv, ProgressInv, ensureServiceMonitor \/ ensurePodDisruptionBudget
    PROVE  NamesInv' /\ ProgressInv'
<1> DEFINE m == ServiceMonitorKey(run.agent)
           b == PDBKey(run.agent)
           o(k) == EnsuredSpec(objs[k], ownerRef)
           next == IF instance.spec.replicas > 1 THEN "ensurePDB" ELSE afterEnsureFuncs
<1>1. /\ pc # "idle" /\ pc \in ExistSteps /\ SameRun(run, run)
      /\ {next, afterEnsureFuncs} \subseteq ExistSteps
      /\ afterEnsureFuncs \in {"restartPods", "addFinalizer"}
      /\ "ensureFleetSecret" \notin {next, afterEnsureFuncs}
    BY Zenon DEF ensureServiceMonitor, ensurePodDisruptionBudget, ExistSteps,
           afterEnsureFuncs, SameRun
<1>2. /\ {m, b} \subseteq Keys
      /\ DataOf(m) = {"built", "tampered"} /\ DataOf(b) = {"built", "tampered"}
      /\ m[1] \in SpecKinds /\ m[2] = run.agent
      /\ b[1] \in SpecKinds /\ b[2] = run.agent
    BY <1>1, WorkerFacts, AgentKeys, Zenon DEF ServiceMonitorKey, PDBKey, SpecKinds
<1>3. \A k \in {m, b} :
          o(k) # Nil /\ Named(k, o(k)) /\ AsBuilt(k, o(k).data, instance.spec, run)
    BY <1>1, <1>2, SpecCall, Zenon
<1>4. CASE ensureServiceMonitor
    <2>1. pc = "ensureServiceMonitor" /\ EnsureStepAt(stamp, m, o(m), next, run)
        BY <1>4, Zenon DEF ensureServiceMonitor, EnsureStep
    <2>2. \A j \in Wanted(run.agent, instance.spec) :
              Past(j, next, run) => j = m \/ Past(j, pc, run)
        BY <1>1, <2>1, WorkerFacts, WantedPlaces, Places, SMTT(30) DEF Past
    <2> HIDE DEF m, o, next
    <2> QED
        BY <1>1, <1>2, <1>3, <2>1, <2>2, EnsuringCall, ZenonT(30)
<1>5. CASE ensurePodDisruptionBudget
    <2>1. pc = "ensurePDB" /\ EnsureStepAt(stamp, b, o(b), afterEnsureFuncs, run)
        BY <1>5, Zenon DEF ensurePodDisruptionBudget, EnsureStep
    <2>2. \A j \in Wanted(run.agent, instance.spec) :
              Past(j, afterEnsureFuncs, run) => j = b \/ Past(j, pc, run)
        BY <1>1, <2>1, WorkerFacts, WantedPlaces, Places, SMTT(30) DEF Past
    <2> HIDE DEF b, o
    <2> QED
        BY <1>1, <1>2, <1>3, <2>1, <2>2, EnsuringCall, ZenonT(30)
<1> QED
    BY <1>4, <1>5, Zenon

LEMMA RestartCall ==
    ASSUME Inv, NamesInv, ProgressInv, restartOCMAgentPods,
           objs[DeploymentKey(run.agent)] # Nil
    PROVE  NamesInv' /\ ProgressInv'
<1> DEFINE k == DeploymentKey(run.agent)
           o(t) == [objs[k] EXCEPT !.data.restartedAt = t]
<1>1. pc = "restartPods" /\ pc # "idle" /\ pc \in ExistSteps /\ "addFinalizer" \in ExistSteps
    BY Zenon DEF restartOCMAgentPods, ExistSteps
<1>2. PICK t \in Nat : EnsureStepAt(t, k, o(t), "addFinalizer", run)
    <2>1. PICK t \in restartSeconds : EnsureStepAt(t, k, o(t), "addFinalizer", run)
        BY Zenon DEF restartOCMAgentPods
    <2>2. t \in Nat
        BY DEF restartSeconds
    <2> QED
        BY <2>1, <2>2, Zenon
<1>3. k \in Keys /\ DataOf(k) = DeploymentData
    BY <1>1, WorkerFacts, AgentKeys, Zenon
<1>4. objs[k] \in [owner: Owners, data: DeploymentData] /\ Named(k, objs[k])
    BY <1>1, <1>3, WorkerFacts, ZenonT(30) DEF Objects, NamesInv
<1>5. k[1] = "Deployment" /\ k \in Wanted(run.agent, instance.spec) /\ KindPlace(k[1]) = 3
    <2>1. k[1] = "Deployment" /\ KindPlace(k[1]) = 3
        BY Zenon DEF DeploymentKey, KindPlace, Namespaces
    <2>2. k \in Wanted(run.agent, instance.spec)
        BY Zenon DEF Wanted
    <2> QED
        BY <2>1, <2>2, Zenon
<1>6. Past(k, pc, run)
    BY <1>1, <1>5, Places, SMTT(30) DEF Past
<1>7. Settled(k)
    BY <1>1, <1>5, <1>6, Zenon DEF ProgressInv
<1>8. \A j : Past(j, "addFinalizer", run) => Past(j, pc, run)
    BY <1>1, Places, Zenon DEF Past
<1> HIDE DEF k
<1>9. o(t) = [objs[k] EXCEPT !.data = [objs[k].data EXCEPT !.restartedAt = t]]
    BY <1>4, Zenon
<1> DEFINE d == [objs[k].data EXCEPT !.restartedAt = t]
<1>10. /\ d.image = objs[k].data.image /\ d.secretName = objs[k].data.secretName
       /\ d.proxy = objs[k].data.proxy /\ d.replicas = objs[k].data.replicas
    BY <1>4, Zenon DEF DeploymentData
<1>11. o(t).data = d /\ o(t).owner = objs[k].owner
    BY <1>4, <1>9, Zenon
<1>12. o(t) # Nil
    <2>1. d \in DeploymentData /\ o(t) = [objs[k] EXCEPT !.data = d]
        BY <1>4, <1>9, Zenon DEF DeploymentData
    <2> HIDE DEF d, o
    <2>2. o(t) \in Objects(k)
        BY <1>3, <1>4, <2>1, Zenon DEF Objects
    <2> QED
        BY <1>3, <2>2, NoObjectAssumption, Zenon
<1> HIDE DEF d, o
<1>13. \/ AsBuilt(k, o(t).data, instance.spec, run)
       \/ objs[k] # Nil /\ Excused(k, run.agent)
    BY <1>5, <1>7, <1>10, <1>11, Zenon
       DEF Settled, InPlace, AsBuilt, FollowsSpec, ServiceKinds, SpecKinds, Namespaces, k
<1>14. Named(k, o(t)) /\ SameRun(run, run)
    BY <1>4, <1>11, Zenon DEF Named, SameRun
<1> QED
    BY <1>1, <1>2, <1>3, <1>8, <1>12, <1>13, <1>14, EnsuringCall, Zenon

\* The calls that only read leave the objects of earlier ones alone.
LEMMA ReadingCall ==
    ASSUME Inv, NamesInv, ProgressInv,
           \/ fetchAccessTokenPullSecret \/ ensureFleetClientSecret \/ buildEnvVars
           \/ restartOCMAgentPods /\ objs[DeploymentKey(run.agent)] = Nil
    PROVE  NamesInv' /\ ProgressInv'
<1>1. UNCHANGED <<objs, hist>> /\ pc # "idle" /\ pc \in ExistSteps /\ queue \subseteq queue'
    BY Zenon DEF fetchAccessTokenPullSecret, ensureFleetClientSecret, buildEnvVars,
           restartOCMAgentPods, ReadStep, EnsureStepAt, Requeue, cluster, ExistSteps
<1>2. budget'["tampers"] = budget["tampers"]
    <2>1. budget \in [Disturbances -> Nat] /\ "tampers" \in Disturbances
        BY Zenon DEF Inv, BaseInv, TypeOK, Disturbances
    <2>2. UNCHANGED budget \/ Spend("faults")
        BY Zenon DEF fetchAccessTokenPullSecret, ensureFleetClientSecret, buildEnvVars,
               restartOCMAgentPods, ReadStep
    <2> QED
        BY <2>1, <2>2, Zenon DEF Spend
<1>3. NamesInv'
    BY <1>1, <1>2, Zenon DEF NamesInv
<1>4. \A j \in Wanted(run.agent, instance.spec) : KindPlace(j[1]) \in 1..11
    BY <1>1, WorkerFacts, WantedPlaces, SMTT(30)
<1>5. CASE pc' \notin ExistSteps
    BY <1>3, <1>5, Zenon DEF ProgressInv
<1>6. CASE fetchAccessTokenPullSecret /\ pc' \in ExistSteps
    <2>1. pc' = "ensureSecret" /\ run'.agent = run.agent /\ run'.version = run.version
        BY <1>1, <1>6, WorkerFacts, Zenon
           DEF fetchAccessTokenPullSecret, Return, Goto, ExistSteps, Runs
    <2>2. instance' = instance
        BY <1>1, <2>1, Zenon DEF instance
    <2> QED
        <3>1. Wanted(run.agent, instance.spec)' = Wanted(run.agent, instance.spec)
            BY <2>1, <2>2, SMTT(30) DEF Wanted
        <3>2. \A j \in Wanted(run.agent, instance.spec) : ~Past(j, pc', run')
            BY <1>4, <2>1, Places DEF Past
        <3> QED
            BY <1>3, <2>1, <3>1, <3>2, Zenon DEF ProgressInv, Past
<1>7. CASE ensureFleetClientSecret /\ pc' \in ExistSteps
    <2>1. pc = "ensureFleetSecret" /\ pc' = "buildEnvVars" /\ run' = run
        BY <1>7, Zenon DEF ensureFleetClientSecret, ReadStep, Return, Goto, ExistSteps
    <2>2. instance' = instance /\ instance.spec.fleetMode
        BY <1>1, <2>1, Zenon DEF instance, ProgressInv
    <2>3. \A j \in Wanted(run.agent, instance.spec) : KindPlace(j[1]) \in 2..11
        BY <1>1, <2>2, WorkerFacts, WantedRange
    <2> QED
        <3>1. Wanted(run.agent, instance.spec)' = Wanted(run.agent, instance.spec)
            BY <2>1, <2>2 DEF Wanted
        <3>2. \A j \in Wanted(run.agent, instance.spec) : ~Past(j, pc', run')
            BY <2>1, <2>3, Places, SMTT(30) DEF Past
        <3> QED
            BY <1>3, <2>1, <3>1, <3>2, Zenon DEF ProgressInv, Past
<1>8. CASE buildEnvVars /\ pc' \in ExistSteps
    <2>1. /\ pc = "buildEnvVars" /\ pc' = "ensureDeployment"
          /\ run' = [run EXCEPT !.proxy = proxy]
        BY <1>8, Zenon DEF buildEnvVars, ReadStep, Return, Goto, ExistSteps
    <2>2. /\ run'.agent = run.agent /\ run'.version = run.version
          /\ run'.token = run.token
        BY <1>1, <2>1, WorkerFacts, Zenon DEF Runs
    <2>3. instance' = instance
        BY <1>1, <2>2, Zenon DEF instance
    <2>4. ASSUME NEW j \in Wanted(run.agent, instance.spec), Past(j, pc, run)'
          PROVE  Settled(j)'
        <3>1. j = SecretKey(instance.spec.tokenSecret) /\ KindPlace(j[1]) = 1
            BY <1>1, <2>1, <2>4, WorkerFacts, WantedPlaces, Places, SMTT(30) DEF Past
        <3>2. Past(j, pc, run)
            BY <2>1, <3>1, Places DEF Past
        <3>3. Settled(j)
            BY <1>1, <3>2, Zenon DEF ProgressInv
        <3>4. j[1] = "Secret"
            BY <3>1, Zenon DEF SecretKey
        <3>5. CASE InPlace(j, instance.spec, run)
            BY <1>1, <2>2, <2>3, <3>4, <3>5, Zenon
               DEF Settled, InPlace, AsBuilt, ServiceKinds, SpecKinds, Namespaces
        <3>6. CASE Excused(j, run.agent)
            <4>1. Excused(j, run.agent)'
                BY <1>1, <1>2, <2>2, <3>6, DepartedUnchanged, Zenon DEF Excused, Meddled, Keepers
            <4> QED
                BY <4>1, Zenon DEF Settled
        <3> QED
            BY <3>3, <3>5, <3>6, Zenon DEF Settled
    <2> QED
        <3>1. Wanted(run.agent, instance.spec)' = Wanted(run.agent, instance.spec)
            BY <2>2, <2>3, ZenonT(30) DEF Wanted
        <3> QED
            BY <1>3, <2>1, <2>4, <3>1, Zenon DEF ProgressInv
<1>9. CASE restartOCMAgentPods /\ objs[DeploymentKey(run.agent)] = Nil /\ pc' \in ExistSteps
    BY <1>9, Zenon DEF restartOCMAgentPods, Return, Goto, ExistSteps
<1> QED
    BY <1>3, <1>5, <1>6, <1>7, <1>8, <1>9, Zenon

-----------------------------------------------------------------------------
(* Everybody else.                                                         *)

\* The worker stands still, and what others change stays settled.
LEMMA ProgressBystander ==
    ASSUME Inv, ProgressInv, UNCHANGED <<pc, run>>, pc # "idle" => instance' = instance,
           \A b \in Agents : Departed(b) => Departed(b)',
           queue \subseteq queue', Meddled => Meddled',
           \A k \in Keys : objs'[k] # objs[k] /\ pc # "idle"
                               /\ k \in Wanted(run.agent, instance.spec) /\ Settled(k)
                               => Settled(k)'
    PROVE  ProgressInv'
<1> SUFFICES ASSUME pc \in ExistSteps PROVE ProgressInv'
    BY Zenon DEF ProgressInv
<1>1. pc # "idle"
    BY Zenon DEF ExistSteps
<1>2. instance' = instance /\ SameRun(run, run')
    BY <1>1, Zenon DEF SameRun
<1>3. ASSUME NEW k \in Wanted(run.agent, instance.spec), Past(k, pc, run)
      PROVE  Settled(k)'
    <2>1. k \in Keys /\ Settled(k)
        BY <1>1, <1>3, WorkerFacts, WantedPlaces, ZenonT(30) DEF ProgressInv
    <2> QED
        BY <1>1, <1>2, <1>3, <2>1, SettledStays, Zenon
<1>4. /\ Wanted(run.agent, instance.spec)' = Wanted(run.agent, instance.spec)
      /\ \A k : Past(k, pc, run)' = Past(k, pc, run)
    BY <1>2, ZenonT(30) DEF Wanted, Past
<1> QED
    BY <1>2, <1>3, <1>4, Zenon DEF ProgressInv

\* Each call of a removal deletes one object or none.
LEMMA RemovalCall ==
    ASSUME EnsureOCMAgentResourcesAbsent
    PROVE  \E k, next, local : EnsureStep(k, Nil, next, local) /\ next \notin ExistSteps
<1>1. CASE ensureNetworkPolicyDeleted
    BY <1>1 DEF ensureNetworkPolicyDeleted, NetworkPolicyStep, ExistSteps
<1>2. CASE ensureAllConfigMapsDeleted
    BY <1>2 DEF ensureAllConfigMapsDeleted, DeleteStep, ExistSteps
<1>3. CASE ensureServiceDeleted
    BY <1>3 DEF ensureServiceDeleted, DeleteStep, ExistSteps
<1>4. CASE ensurePodDisruptionBudgetDeleted
    BY <1>4 DEF ensurePodDisruptionBudgetDeleted, DeleteStep, ExistSteps
<1>5. CASE \/ ensureDeploymentDeleted \/ ensureServiceMonitorDeleted
           \/ ensureAccessTokenSecretDeleted
    BY <1>5 DEF ensureDeploymentDeleted, ensureServiceMonitorDeleted,
                ensureAccessTokenSecretDeleted, DeleteStep, ExistSteps
<1> QED
    BY <1>1, <1>2, <1>3, <1>4, <1>5, Zenon DEF EnsureOCMAgentResourcesAbsent

\* So a removal makes no object.
LEMMA RemovalTakes ==
    ASSUME Inv, EnsureOCMAgentResourcesAbsent
    PROVE  \A j \in Keys : objs'[j] \in {Nil, objs[j]}
<1>0. PICK k, next, local : EnsureStep(k, Nil, next, local)
    BY RemovalCall, Zenon
<1>1. DOMAIN objs = Keys
    BY Zenon DEF Inv, BaseInv, TypeOK
<1>2. objs' = [objs EXCEPT ![k] = Nil] \/ objs' = [objs EXCEPT ![k] = objs[k]]
    BY <1>0, Zenon DEF EnsureStep, EnsureStepAt, Put
<1> QED
    BY <1>1, <1>2, Zenon

LEMMA RemovalNames ==
    ASSUME Inv, NamesInv, EnsureOCMAgentResourcesAbsent
    PROVE  NamesInv' /\ ProgressInv'
<1>1. PICK k, next, local : EnsureStep(k, Nil, next, local) /\ next \notin ExistSteps
    BY RemovalCall, Zenon
<1>2. \A j \in Keys : objs'[j] \in {Nil, objs[j]}
    BY RemovalTakes, Zenon
<1>3. budget'["tampers"] = budget["tampers"]
    BY <1>1, ZenonT(30) DEF EnsureStep, EnsureStepAt, Spend, Inv, BaseInv, TypeOK, Disturbances
<1>4. pc' \notin ExistSteps
    BY <1>1, Zenon DEF EnsureStep, EnsureStepAt, Return, Goto, ExistSteps
<1> QED
    BY <1>2, <1>3, <1>4, ZenonT(30) DEF NamesInv, ProgressInv

LEMMA InputsProgress ==
    ASSUME Inv, NamesInv, ProgressInv,
           ChangePullSecret \/ ChangeProxy \/ \E s \in TokenSecrets : ProvisionSecret(s)
    PROVE  NamesInv' /\ ProgressInv'
<1>1. /\ UNCHANGED <<hist, pc, run>> /\ queue \subseteq queue' /\ Spend("inputs")
    BY ZenonT(30) DEF ChangePullSecret, ChangeProxy, ProvisionSecret, Put
<1>2. budget'["tampers"] = budget["tampers"]
    BY <1>1, Zenon DEF Spend, Inv, BaseInv, TypeOK, Disturbances
<1>3. instance' = instance
    BY <1>1, Zenon DEF instance
<1>4. CASE UNCHANGED objs
    <2>1. NamesInv'
        BY <1>2, <1>4, Zenon DEF NamesInv
    <2>2. ProgressInv'
        BY <1>1, <1>2, <1>3, <1>4, ProgressBystander, DepartedUnchanged, Zenon DEF Meddled
    <2> QED
        BY <2>1, <2>2, Zenon
<1>5. ASSUME NEW s \in TokenSecrets, ProvisionSecret(s) PROVE NamesInv' /\ ProgressInv'
    <2> DEFINE q == SecretKey(s)
    <2>1. PICK c \in FleetCreds : objs' = [objs EXCEPT ![q] = [owner |-> Nil, data |-> c]]
        BY <1>5, ZenonT(30) DEF ProvisionSecret, Put
    <2>2. /\ q \in Keys /\ q[1] = "Secret" /\ q[1] \notin AgentKinds /\ q # CAMOKey
          /\ DataOf(q) = Tokens \cup FleetCreds \cup {Tampered}
        BY SharedKeys, Zenon DEF SecretKey, AgentKinds, ServiceKinds, SpecKinds, Namespaces, CAMOKey
    <2> HIDE DEF q
    <2>3. /\ \A j \in Keys : j # q => objs'[j] = objs[j]
          /\ objs'[q].data = c /\ objs'[q] \in Objects(q)
        BY <2>1, <2>2, Zenon DEF Inv, BaseInv, TypeOK, Objects, Owners
    <2>4. NamesInv'
        BY <1>2, <2>2, <2>3, Zenon DEF NamesInv, Named
    <2>5. InPlace(q, instance.spec, run)'
        <3>1. objs'[q] # Nil
            BY <2>2, <2>3, NoObjectAssumption, ZenonT(30)
        <3> QED
            BY <2>2, <2>3, <3>1, Zenon
               DEF InPlace, AsBuilt, ServiceKinds, SpecKinds, Namespaces
    <2>6. ProgressInv'
        BY <1>1, <1>2, <1>3, <2>3, <2>5, ProgressBystander, DepartedUnchanged, Zenon
           DEF Meddled, Settled
    <2> QED
        BY <2>4, <2>6, Zenon
<1> QED
    BY <1>4, <1>5, Zenon DEF ChangePullSecret, ChangeProxy

\* The wanted objects of the agent's own kinds bear its name.
LEMMA WantedOwn ==
    ASSUME Inv, pc # "idle", NEW k \in Wanted(run.agent, instance.spec), k[1] \in AgentKinds
    PROVE  k[2] = run.agent
<1>1. run.agent \in Agents /\ instance.spec \in SpecType
    BY WorkerFacts, Zenon
<1>2. /\ SecretKey(instance.spec.tokenSecret)[1] \notin AgentKinds
      /\ CAMOKey[1] \notin AgentKinds /\ TrustedCaKey[1] \notin AgentKinds
    BY Zenon DEF SecretKey, CAMOKey, TrustedCaKey, AgentKinds, ServiceKinds, SpecKinds, Namespaces
<1>3. /\ DeploymentKey(run.agent)[2] = run.agent /\ ConfigMapKey(run.agent)[2] = run.agent
      /\ ServiceKey(run.agent)[2] = run.agent /\ MetricsServiceKey(run.agent)[2] = run.agent
      /\ ServiceMonitorKey(run.agent)[2] = run.agent /\ PDBKey(run.agent)[2] = run.agent
      /\ \A n : NetworkPolicyKey(run.agent, n)[2] = run.agent
    BY Zenon DEF DeploymentKey, ConfigMapKey, ServiceKey, MetricsServiceKey,
           ServiceMonitorKey, PDBKey, NetworkPolicyKey
<1> QED
    BY <1>1, <1>2, <1>3, WantedPlaces, ZenonT(30)

LEMMA TamperProgress ==
    ASSUME Inv, NamesInv, ProgressInv, NEW k \in Keys, Tamper(k)
    PROVE  NamesInv' /\ ProgressInv'
<1>1. /\ UNCHANGED <<hist, pc, run>> /\ queue \subseteq queue' /\ Spend("tampers")
      /\ objs[k] # Nil
    BY ZenonT(30) DEF Tamper, Put
<1>2. budget'["tampers"] < Limits["tampers"]
    BY <1>1, LimitsAssumption, SMTT(30) DEF Spend, Inv, BaseInv, TypeOK, Disturbances, NamesInv
<1>3. objs[k] \in Objects(k)
    BY <1>1, Zenon DEF Inv, BaseInv, TypeOK
<1>4. /\ \A j \in Keys : j # k => objs'[j] = objs[j]
      /\ objs'[k] # Nil => objs'[k].owner = objs[k].owner
      /\ objs'[k] # objs[k] => Controller(objs[k]) \subseteq queue'
    <2>1. PICK o : Put(k, o, {}) /\ (o # Nil => o.owner = objs[k].owner)
        <3>1. \A d : [objs[k] EXCEPT !.data = d].owner = objs[k].owner
            BY <1>3, Zenon DEF Objects
        <3> QED
            BY <3>1, ZenonT(30) DEF Tamper
    <2>2. objs' = [objs EXCEPT ![k] = o] /\ (o # objs[k] => Controller(objs[k]) \subseteq queue')
        BY <2>1, Zenon DEF Put
    <2> QED
        BY <2>1, <2>2, Zenon DEF Inv, BaseInv, TypeOK
<1>5. NamesInv'
    <2>1. \A j \in Keys : objs'[j] # Nil => Named(j, objs'[j])
        BY <1>1, <1>4, ZenonT(30) DEF NamesInv, Named
    <2>2. budget'["tampers"] <= Limits["tampers"]
        BY <1>1, <1>2, LimitsAssumption, SMTT(30) DEF Spend, Inv, BaseInv, TypeOK, Disturbances
    <2> QED
        BY <2>1, <2>2, Zenon DEF NamesInv
<1>6. instance' = instance /\ Meddled'
    BY <1>1, <1>2, Zenon DEF instance, Meddled
<1>7. ASSUME objs'[k] # objs[k], pc # "idle", k \in Wanted(run.agent, instance.spec)
      PROVE  Settled(k)'
    <2>1. k[1] \in AgentKinds => k[2] = run.agent
        BY <1>7, WantedOwn, Zenon
    <2>2. k[1] \in AgentKinds => run.agent \in queue'
        BY <1>1, <1>4, <1>7, <2>1, Zenon DEF NamesInv, Named, Controller
    <2> QED
        BY <1>1, <1>6, <2>2, Zenon DEF Settled, Excused
<1>8. ProgressInv'
    BY <1>1, <1>4, <1>6, <1>7, ProgressBystander, DepartedUnchanged, ZenonT(30)
<1> QED
    BY <1>5, <1>8, Zenon

\* The collector only takes objects whose owner is gone, and the owner's
\* request comes back.
LEMMA CollectProgress ==
    ASSUME Inv, NamesInv, ProgressInv, NEW c \in Keys, GarbageCollect(c)
    PROVE  NamesInv' /\ ProgressInv'
<1>0. PICK ref, b : ref = objs[c].owner /\ b = ref.agent
    BY Zenon
<1>1. /\ UNCHANGED <<hist, pc, run, budget>> /\ queue' = queue \cup {b}
      /\ objs[c] # Nil /\ ref # Nil /\ ~Holds(ref)
      /\ \A j \in Keys : objs'[j] = IF objs[j] # Nil /\ objs[j].owner = ref THEN Nil
                                                                           ELSE objs[j]
    BY <1>0, ZenonT(30) DEF GarbageCollect, Dependents
<1>2. NamesInv'
    BY <1>1, ZenonT(30) DEF NamesInv
<1>3. b \in Agents
    BY <1>0, <1>1, ZenonT(30) DEF Inv, BaseInv, TypeOK, Objects, Owners
<1>4. Departed(b)
    <2>1. PICK v \in 1..Horizon(b) : hist[b][v] # Nil /\ hist[b][v].uid = ref.uid
        BY <1>0, <1>1, ZenonT(30) DEF Inv, OwnedInv
    <2>2. v \in 1..Version(b)
        <3>1. seen[b] \in 1..Len(hist[b]) /\ Len(hist[b]) \in Nat /\ seen[b] \in Nat
            BY <1>3, CachedFacts, Zenon
        <3>2. pc # "idle" /\ run.agent = b => run.version \in 1..seen[b]
            BY Zenon DEF Inv, BaseInv, RunOK
        <3> QED
            BY <2>1, <3>1, <3>2, SMTT(30) DEF Horizon, Version
    <2>3. ~Live([agent |-> b, uid |-> ref.uid])
        BY <1>0, <1>1, <1>3, CurrentFacts, ZenonT(30) DEF Live, Holds
    <2> QED
        BY <2>1, <2>2, <2>3, ZenonT(30) DEF Departed
<1>5. Departed(b)'
    BY <1>1, <1>4, DepartedUnchanged, Zenon
<1>6. ASSUME NEW k \in Keys, objs'[k] # objs[k], pc # "idle",
             k \in Wanted(run.agent, instance.spec)
      PROVE  Settled(k)'
    <2>1. objs'[k] = Nil /\ objs[k] # Nil /\ objs[k].owner = ref
        BY <1>1, <1>6, ZenonT(30)
    <2>2. Named(k, objs[k])
        BY <2>1, Zenon DEF NamesInv
    <2>3. k # CAMOKey
        BY <1>1, <2>1, <2>2, Zenon DEF Named
    <2>4. k[1] \in AgentKinds => b = run.agent
        BY <1>0, <1>6, <2>1, <2>2, WantedOwn, Zenon DEF Named
    <2>5. b \in Keepers(k, run.agent)
        BY <1>3, <2>3, <2>4, Zenon DEF Keepers
    <2>6. b \in Keepers(k, run.agent)'
        BY <1>1, <2>5, Zenon DEF Keepers
    <2> QED
        BY <1>1, <1>5, <2>1, <2>6, ZenonT(30) DEF Settled, Excused
<1>7. instance' = instance /\ (Meddled => Meddled') /\ queue \subseteq queue'
    BY <1>1, ZenonT(30) DEF instance, Meddled
<1>8. ProgressInv'
    BY <1>1, <1>6, <1>7, ProgressBystander, DepartedUnchanged, ZenonT(30)
<1> QED
    BY <1>2, <1>8, Zenon

LEMMA ProgressNext ==
    Inv /\ NamesInv /\ ProgressInv /\ [Next]_vars => NamesInv' /\ ProgressInv'
<1> SUFFICES ASSUME Inv, NamesInv, ProgressInv, [Next]_vars PROVE NamesInv' /\ ProgressInv'
    BY Zenon
<1>0. /\ budget \in [Disturbances -> Nat]
      /\ {"tampers", "edits", "faults", "crashes"} \subseteq Disturbances
    BY Zenon DEF Inv, BaseInv, TypeOK, Disturbances
<1>1. ASSUME NEW a \in Agents, Reconcile(a) PROVE NamesInv' /\ ProgressInv'
    <2>1. UNCHANGED <<hist, seen, objs>> /\ pc = "idle" /\ budget'["tampers"] = budget["tampers"]
        BY <1>0, <1>1, ReconcileEffect, ZenonT(30) DEF Reconcile, Spend
    <2>2. NamesInv'
        BY <2>1, Zenon DEF NamesInv
    <2>3. CASE pc' \notin ExistSteps
        BY <2>2, <2>3, Zenon DEF ProgressInv
    <2>4. CASE pc' \in ExistSteps
        <3>1. Started(a) /\ run'.agent = a /\ run'.version = seen[a] /\ ~Cached(a).deleting
            BY <1>1, <2>1, <2>4, ReconcileEffect, StartedFacts, ZenonT(30) DEF ExistSteps
        <3>2. instance' = Cached(a)
            BY <2>1, <3>1, Zenon DEF instance, Cached
        <3>3. /\ pc' \in {"fetchPullSecret", "ensureFleetSecret"}
              /\ pc' = "ensureFleetSecret" => instance'.spec.fleetMode
            BY <3>1, <3>2, Zenon DEF Started, firstEnsureFunc
        <3>4. Cached(a).spec \in SpecType
            BY <3>1, CachedFacts, SpecsAssumption, Zenon DEF Started, OcmAgents
        <3>5. \A k \in Wanted(a, Cached(a).spec) : KindPlace(k[1]) \in 1..11
            BY <3>4, WantedRange, Zenon
        <3>6. \A k \in Wanted(a, Cached(a).spec) : ~Past(k, pc', run')
            BY <3>3, <3>5, Places, SMTT(30) DEF Past
        <3>7. Wanted(run.agent, instance.spec)' = Wanted(a, Cached(a).spec)
            BY <3>1, <3>2, ZenonT(30) DEF Wanted
        <3> QED
            BY <2>2, <3>3, <3>6, <3>7, Zenon DEF ProgressInv, Past
    <2> QED
        BY <2>3, <2>4, Zenon
<1>2. ASSUME NEW a \in Agents, WatchOcmAgent(a) PROVE NamesInv' /\ ProgressInv'
    <2>1. UNCHANGED <<hist, objs, pc, run, budget>> /\ queue \subseteq queue'
        BY <1>2, Zenon DEF WatchOcmAgent, cluster
    <2>2. instance' = instance /\ (Meddled => Meddled')
        BY <2>1, Zenon DEF instance, Meddled
    <2>3. NamesInv'
        BY <2>1, Zenon DEF NamesInv
    <2>4. ProgressInv'
        BY <2>1, <2>2, ProgressBystander, DepartedUnchanged, Zenon
    <2> QED
        BY <2>3, <2>4, Zenon
<1>3. CASE EnsureOCMAgentResourcesExist
    BY Zenon, <1>3, ReadingCall, SecretCall, DeploymentCall, ConfigMapCall, ServiceCall,
       NetworkPolicyCall, MonitorAndBudgetCall, RestartCall
       DEF EnsureOCMAgentResourcesExist
<1>4. CASE EnsureOCMAgentResourcesAbsent
    BY <1>4, RemovalNames, Zenon
<1>5. CASE addFinalizer \/ removeFinalizer \/ Restart
    <2>1. UNCHANGED objs /\ pc' = "idle" /\ budget'["tampers"] = budget["tampers"]
        BY <1>0, <1>5, Zenon DEF addFinalizer, removeFinalizer, FailedUpdate, Restart, Return,
                          Goto, Spend, cluster
    <2> QED
        BY <2>1, Zenon DEF NamesInv, ProgressInv, ExistSteps
<1>6. CASE Environment
    <2>1. ASSUME NEW a \in Agents, User(a) \/ DependentsGone(a)
          PROVE  NamesInv' /\ ProgressInv'
        <3>1. /\ UNCHANGED <<objs, queue, pc, run>>
              /\ budget'["tampers"] = budget["tampers"]
            BY <1>0, <2>1, ZenonT(30) DEF User, CreateOcmAgent, UpdateOcmAgent, DeleteOcmAgent,
                              DependentsGone, cluster, Spend
        <3>2. PICK e : Write(a, e) /\ Follows(hist[a], e)
            BY <2>1, OthersWriteSomething, Zenon DEF OthersWrite
        <3>3. pc # "idle" => instance' = instance
            BY <2>1, WritesKeep, InstanceKept, Zenon
        <3>4. NamesInv'
            BY <3>1, Zenon DEF NamesInv
        <3>5. ProgressInv'
            BY <3>1, <3>2, <3>3, ProgressBystander, DepartedStays, Zenon DEF Meddled
        <3> QED
            BY <3>4, <3>5, Zenon
    <2>2. CASE InjectTrustedCa
        <3> DEFINE k == TrustedCaKey
        <3>1. /\ UNCHANGED <<hist, pc, run, budget>> /\ queue \subseteq queue'
              /\ objs[k] # Nil /\ k \in Keys
              /\ objs' = [objs EXCEPT ![k] = [objs[k] EXCEPT !.data = "injected"]]
            BY <2>2, SharedKeys, Zenon DEF InjectTrustedCa, Put
        <3>2. /\ k[1] \notin AgentKinds /\ k # CAMOKey
              /\ DataOf(k) = {"empty", "injected"}
            BY SharedKeys, Zenon DEF TrustedCaKey, AgentKinds, ServiceKinds, SpecKinds,
                              Namespaces, CAMOKey
        <3>3. \A d : AsBuilt(k, d, instance'.spec, run')
            BY Zenon DEF AsBuilt, TrustedCaKey, ServiceKinds, SpecKinds, Namespaces
        <3> HIDE DEF k
        <3>4. /\ objs'[k] \in Objects(k) /\ \A j \in Keys : j # k => objs'[j] = objs[j]
            BY <3>1, <3>2, ZenonT(30) DEF Inv, BaseInv, TypeOK, Objects
        <3>5. NamesInv'
            BY <3>1, <3>2, <3>4, Zenon DEF NamesInv, Named
        <3>6. InPlace(k, instance.spec, run)'
            BY <3>1, <3>3, <3>4, NoObjectAssumption, Zenon DEF InPlace, k
        <3>7. instance' = instance /\ (Meddled => Meddled')
            BY <3>1, Zenon DEF instance, Meddled
        <3>8. ProgressInv'
            BY <3>1, <3>4, <3>6, <3>7, ProgressBystander, DepartedUnchanged, Zenon DEF Settled
        <3> QED
            BY <3>5, <3>8, Zenon
    <2> QED
        BY <1>6, <2>1, <2>2, InputsProgress, TamperProgress, CollectProgress, Zenon
           DEF Environment
<1>7. CASE UNCHANGED vars
    <2>1. UNCHANGED <<hist, objs, pc, run, budget, queue>>
        BY <1>7, Zenon DEF vars
    <2>2. instance' = instance /\ (Meddled => Meddled') /\ NamesInv'
        BY <2>1, Zenon DEF instance, Meddled, NamesInv
    <2> QED
        BY <2>1, <2>2, ProgressBystander, DepartedUnchanged, Zenon
<1> QED
    BY <1>1, <1>2, <1>3, <1>4, <1>5, <1>6, <1>7, Zenon DEF Next, Worker

\* Nothing has been ensured, and nobody has meddled, to begin with.
LEMMA ProgressInit == Init => NamesInv /\ ProgressInv
BY LimitsAssumption, SMTT(30) DEF Init, NamesInv, ProgressInv, ExistSteps, Disturbances

\* All the steps lie behind the worker when it sets the finalizer.
LEMMA ProgressComplete ==
    ASSUME Inv, ProgressInv
    PROVE  DeploymentComplete
<1> SUFFICES ASSUME pc = "addFinalizer",
                    NEW k \in Wanted(run.agent, instance.spec)
             PROVE  InPlace(k, instance.spec, run) \/ Excused(k, run.agent)
    BY Zenon DEF DeploymentComplete
<1>1. KindPlace(k[1]) \in 1..11
    BY WorkerFacts, WantedRange, Zenon
<1>2. Past(k, pc, run)
    BY <1>1, Places DEF Past
<1> QED
    BY <1>2, Zenon DEF ProgressInv, Settled, ExistSteps

=============================================================================
