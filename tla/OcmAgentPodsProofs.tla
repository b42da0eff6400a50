------------------------- MODULE OcmAgentPodsProofs -------------------------
(***************************************************************************)
(* That a new token reaches the pods, in OcmAgentPods: what every step     *)
(* does to Deployments, token secrets and the reconcile in progress, as    *)
(* far as the restart of the pods depends on it, and the invariant that    *)
(* follows, for any agents, secrets, tokens, specs and limits.             *)
(***************************************************************************)
EXTENDS OcmAgentPods, OcmAgentStepProofs, OcmAgentDeploymentProofs

-----------------------------------------------------------------------------
(* A new token reaches the pods.                                           *)

\* The steps at which the token secret has been dealt with.
LateSteps == ExistSteps \ {"fetchPullSecret", "ensureSecret", "ensureFleetSecret"}

\* What the restart of the pods rests on: restarts have been numbered by the
\* clock, only OcmAgents outside fleet mode handle token secrets, and
\* secretUpdated is set only on the way from the secret to the restart.
RotationInv ==
    /\ \A d \in {"faults", "crashes"} : budget[d] <= Limits[d]
    /\ stamp <= Seconds
    /\ \A a \in Agents :
           objs[DeploymentKey(a)] # Nil
               => objs[DeploymentKey(a)].data.restartedAt <= stamp
    /\ pc \in {"fetchPullSecret", "ensureSecret", "deleteSecret"}
           => ~instance.spec.fleetMode
    /\ run.secretUpdated => pc \in LateSteps
    /\ \A s \in TokenSecrets :
           objs[SecretKey(s)] # Nil /\ objs[SecretKey(s)].owner # Nil
               => Manages(objs[SecretKey(s)].owner.agent, s)

\* What a step does to the Deployment of an agent.
Restarted(a) ==
    /\ objs'[DeploymentKey(a)] # Nil
    /\ objs'[DeploymentKey(a)].data.restartedAt = stamp'
    /\ stamp' \in restartSeconds

DeploymentEffect(a) ==
    LET k == DeploymentKey(a)
    IN  \/ objs'[k] \in {objs[k], Nil}
        \/ objs'[k].data.restartedAt = 0
        \/ pc = "restartPods" /\ run.agent = a /\ Restarted(a)
        \/ /\ Spend("tampers") /\ objs[k] # Nil
           /\ objs'[k].data.restartedAt = objs[k].data.restartedAt

\* What a step does to a token secret: it is left alone, provisioned,
\* ensured, deleted, collected or tampered with.
SecretEffect(s) ==
    LET k == SecretKey(s)
    IN  \/ objs'[k] = objs[k]
        \/ objs[k] = Nil /\ objs'[k].owner = Nil
        \/ /\ pc = "ensureSecret" /\ s = instance.spec.tokenSecret
           /\ \/ objs[k] = Nil /\ objs'[k].owner = ownerRef
              \/ objs[k] # Nil /\ objs'[k].owner = objs[k].owner
           /\ \/ Spend("faults")
              \/ pc' = "buildEnvVars" /\ run'.agent = run.agent /\ run'.secretUpdated
        \/ /\ pc = "deleteSecret" /\ s = instance.spec.tokenSecret
           /\ objs'[k] = Nil
        \/ /\ objs[k] # Nil /\ objs[k].owner # Nil /\ ~Holds(objs[k].owner)
           /\ objs'[k] = Nil
        \/ /\ Spend("tampers") /\ objs[k] # Nil
           /\ objs'[k] # Nil => objs'[k].owner = objs[k].owner

\* What a step does to the reconcile in progress.
GoesOn ==
    /\ pc # "idle" /\ pc' \notin {"idle", "fetchPullSecret"}
    /\ run'.agent = run.agent /\ run'.version = run.version
    /\ pc' = "ensureSecret" => pc = "fetchPullSecret"
    /\ pc' = "deleteSecret" => ~instance.spec.fleetMode
    /\ run'.secretUpdated => pc' \in LateSteps
    /\ run.secretUpdated =>
           /\ run'.secretUpdated
           /\ pc' = "addFinalizer" => pc = "restartPods" /\ Restarted(run.agent)

GivesUp ==
    /\ Return
    /\ \/ Spend("faults") \/ Spend("crashes")
       \/ ~run.secretUpdated
       \/ pc = "addFinalizer"
       \/ pc = "restartPods" /\ objs[DeploymentKey(run.agent)] = Nil

WorkerEffect ==
    \/ UNCHANGED <<pc, run>>
    \/ \E a \in Agents : pc = "idle" /\ Started(a) /\ UNCHANGED hist
    \/ GoesOn
    \/ GivesUp

Effect ==
    /\ UNCHANGED budget \/ \E d \in Disturbances : Spend(d)
    /\ stamp' = stamp \/ stamp' \in restartSeconds
    /\ \A a \in Agents : DeploymentEffect(a)
    /\ \A s \in TokenSecrets : SecretEffect(s)
    /\ WorkerEffect

\* A step that leaves the objects alone.
LEMMA ObjectsUntouched ==
    ASSUME UNCHANGED objs
    PROVE  /\ \A a \in Agents : DeploymentEffect(a)
           /\ \A s \in TokenSecrets : SecretEffect(s)
BY Zenon DEF DeploymentEffect, SecretEffect

\* Deployments and token secrets are told apart from each other and from the
\* other objects by the kind in their keys.
LEMMA KeyKinds ==
    /\ \A a : DeploymentKey(a)[1] = "Deployment"
    /\ \A s : SecretKey(s)[1] = "Secret"
    /\ \A a, b : DeploymentKey(a) = DeploymentKey(b) => a = b
    /\ \A s, r : SecretKey(s) = SecretKey(r) => s = r
BY SMTT(30) DEF DeploymentKey, SecretKey

\* The calls of the handler, as far as this matters.
Call(t, k, o, next, local) ==
    /\ EnsureStepAt(t, k, o, next, local)
    /\ t = stamp \/ t \in restartSeconds
    /\ local.agent = run.agent /\ local.version = run.version
    /\ next \notin {"idle", "fetchPullSecret", "ensureSecret"}
    /\ next = "deleteSecret" => ~instance.spec.fleetMode
    /\ local.secretUpdated => next \in LateSteps
    /\ run.secretUpdated =>
           /\ local.secretUpdated
           /\ next = "addFinalizer" => pc = "restartPods" /\ k = DeploymentKey(run.agent)
    /\ k[1] = "Deployment" =>
           /\ k = DeploymentKey(run.agent)
           /\ IF pc = "restartPods"
              THEN o # Nil /\ o.data.restartedAt = t /\ t \in restartSeconds
              ELSE o \in {objs[k], Nil} \/ o.data.restartedAt = 0
    /\ k[1] = "Secret" =>
           /\ k = SecretKey(instance.spec.tokenSecret)
           /\ \/ pc = "deleteSecret" /\ o = Nil
              \/ /\ pc = "ensureSecret" /\ next = "buildEnvVars"
                 /\ local.secretUpdated = (o # objs[k])
                 /\ \/ objs[k] = Nil /\ o.owner = ownerRef
                    \/ objs[k] # Nil /\ o.owner = objs[k].owner

LEMMA CallEffects ==
    ASSUME Inv, pc # "idle", NEW t, NEW k \in Keys, NEW o, NEW next, NEW local,
           Call(t, k, o, next, local)
    PROVE  Effect
<1>1. /\ stamp' = t
      /\ \/ /\ objs' = [objs EXCEPT ![k] = o] /\ pc' = next /\ run' = local
            /\ UNCHANGED budget
         \/ /\ Spend("faults") /\ Return
            /\ objs' = [objs EXCEPT ![k] = o] \/ objs' = [objs EXCEPT ![k] = objs[k]]
    BY Zenon DEF Call, EnsureStepAt, Put, Goto
<1>2. DOMAIN objs = Keys
    BY Zenon DEF Inv, BaseInv, TypeOK
<1>3. /\ \A j \in Keys : j # k => objs'[j] = objs[j]
      /\ objs'[k] = o \/ objs'[k] = objs[k]
      /\ objs'[k] = o \/ Spend("faults")
    BY <1>1, <1>2, Zenon
<1>4. ASSUME NEW a \in Agents PROVE DeploymentEffect(a)
    <2>1. CASE DeploymentKey(a) # k \/ objs'[k] = objs[k]
        BY <1>3, <2>1, AgentKeys, Zenon DEF DeploymentEffect
    <2>2. CASE DeploymentKey(a) = k /\ objs'[k] = o
        <3>1. k[1] = "Deployment" /\ run.agent = a
            BY <2>2, KeyKinds, Zenon DEF Call
        <3> QED
            BY <1>1, <2>2, <3>1, Zenon DEF Call, DeploymentEffect, Restarted
    <2> QED
        BY <1>3, <2>1, <2>2, Zenon
<1>5. ASSUME NEW s \in TokenSecrets PROVE SecretEffect(s)
    <2>1. CASE SecretKey(s) # k \/ objs'[k] = objs[k]
        BY <1>3, <2>1, SharedKeys, Zenon DEF SecretEffect
    <2>2. CASE SecretKey(s) = k /\ objs'[k] = o /\ o # objs[k]
        <3>1. k[1] = "Secret" /\ s = instance.spec.tokenSecret
            BY <2>2, KeyKinds, Zenon DEF Call
        <3>2. CASE pc = "deleteSecret" /\ o = Nil
            BY <2>2, <3>1, <3>2, Zenon DEF SecretEffect
        <3>3. CASE pc = "ensureSecret"
            <4>1. /\ next = "buildEnvVars" /\ local.secretUpdated
                  /\ local.agent = run.agent
                  /\ \/ objs[k] = Nil /\ o.owner = ownerRef
                     \/ objs[k] # Nil /\ o.owner = objs[k].owner
                BY <2>2, <3>1, <3>3, Zenon DEF Call
            <4>2. Spend("faults") \/ (pc' = next /\ run' = local)
                BY <1>1, Zenon
            <4> QED
                BY <2>2, <3>1, <3>3, <4>1, <4>2, Zenon DEF SecretEffect
        <3> QED
            BY <3>1, <3>2, <3>3, Zenon DEF Call
    <2> QED
        BY <1>3, <2>1, <2>2, Zenon
<1>6. WorkerEffect
    <2>1. CASE Spend("faults") /\ Return
        BY <2>1, Zenon DEF WorkerEffect, GivesUp
    <2>2. CASE objs' = [objs EXCEPT ![k] = o] /\ pc' = next /\ run' = local
        <3>1. ASSUME run.secretUpdated, next = "addFinalizer"
              PROVE  pc = "restartPods" /\ Restarted(run.agent)
            <4>1. pc = "restartPods" /\ k = DeploymentKey(run.agent) /\ k[1] = "Deployment"
                BY <3>1, KeyKinds, Zenon DEF Call
            <4>2. o # Nil /\ o.data.restartedAt = t /\ t \in restartSeconds
                BY <4>1, Zenon DEF Call
            <4>3. objs'[k] = o
                BY <1>2, <2>2, Zenon
            <4> QED
                BY <1>1, <4>1, <4>2, <4>3, Zenon DEF Restarted
        <3>2. GoesOn
            BY <2>2, <3>1, Zenon DEF Call, GoesOn
        <3> QED
            BY <3>2, Zenon DEF WorkerEffect
    <2> QED
        BY <1>1, <2>1, <2>2, Zenon
<1>7. UNCHANGED budget \/ \E d \in Disturbances : Spend(d)
    BY <1>1, Zenon DEF Disturbances
<1>8. stamp' = stamp \/ stamp' \in restartSeconds
    BY <1>1, Zenon DEF Call
<1> QED
    BY <1>4, <1>5, <1>6, <1>7, <1>8, Zenon DEF Effect

\* The calls that are about other objects than Deployments and secrets.
LEMMA OtherCall ==
    ASSUME Inv, RotationInv, pc # "idle", NEW k \in Keys, NEW o, NEW next, NEW local,
           EnsureStepAt(stamp, k, o, next, local), k[1] \notin {"Deployment", "Secret"},
           local.agent = run.agent, local.version = run.version,
           local.secretUpdated = run.secretUpdated,
           next \notin {"idle", "fetchPullSecret", "ensureSecret"},
           next = "deleteSecret" => ~instance.spec.fleetMode,
           pc \in ExistSteps => next \in LateSteps,
           run.secretUpdated => next # "addFinalizer"
    PROVE  Effect
<1>1. run.secretUpdated => next \in LateSteps
    BY Zenon DEF RotationInv, LateSteps
<1>2. Call(stamp, k, o, next, local)
    BY <1>1, Zenon DEF Call
<1> QED
    BY <1>2, CallEffects, Zenon

LEMMA SecretRotates ==
    ASSUME Inv, RotationInv, ensureAccessTokenSecret
    PROVE  Effect
<1> DEFINE k == SecretKey(instance.spec.tokenSecret)
           o == EnsuredSecret(objs[k], ownerRef, run.token)
           local == [run EXCEPT !.secretUpdated = (o # objs[k])]
<1>1. pc = "ensureSecret" /\ EnsureStepAt(stamp, k, o, "buildEnvVars", local)
    BY Zenon DEF ensureAccessTokenSecret, EnsureStep
<1>2. /\ run \in Runs /\ k \in Keys /\ k[1] = "Secret"
      /\ objs[k] # Nil => objs[k] \in [owner: Owners, data: DataOf(k)]
    BY <1>1, WorkerFacts, SharedKeys, KeyKinds, Zenon DEF SpecType, Objects
<1>3. /\ local.agent = run.agent /\ local.version = run.version
      /\ local.secretUpdated = (o # objs[k])
    BY <1>2, Zenon DEF Runs
<1>4. \/ objs[k] = Nil /\ o.owner = ownerRef
      \/ objs[k] # Nil /\ o.owner = objs[k].owner
    BY <1>2, Zenon DEF EnsuredSecret
<1>5. ~run.secretUpdated
    BY <1>1, Zenon DEF RotationInv, LateSteps
<1>6. Call(stamp, k, o, "buildEnvVars", local)
    <2> HIDE DEF k, o, local
    <2>1. "buildEnvVars" \in LateSteps
        BY Zenon DEF LateSteps, ExistSteps
    <2> QED
        BY <1>1, <1>2, <1>3, <1>4, <1>5, <2>1, ZenonT(30) DEF Call, k
<1> HIDE DEF k, o, local
<1> QED
    BY <1>1, <1>2, <1>6, CallEffects, Zenon

LEMMA DeploymentRotates ==
    ASSUME Inv, RotationInv, ensureDeployment
    PROVE  Effect
<1> DEFINE k == DeploymentKey(run.agent)
           e == buildOCMAgentDeployment(instance.spec, run.proxy)
           o == EnsuredDeployment(objs[k], ownerRef, e)
<1>1. pc = "ensureDeployment" /\ EnsureStepAt(stamp, k, o, "ensureConfigMap", run)
    BY Zenon DEF ensureDeployment, EnsureStep
<1>2. /\ k \in Keys /\ k[1] = "Deployment"
      /\ objs[k] # Nil => objs[k] \in [owner: Owners, data: DataOf(k)]
    BY <1>1, WorkerFacts, AgentKeys, KeyKinds, Zenon DEF Objects
<1>3. e.restartedAt = 0 /\ e \in DeploymentData
    <2>1. run.proxy \in Proxies
        BY <1>1, Zenon DEF Inv, BaseInv, RunOK
    <2>2. e \in DeploymentData
        BY <1>1, <2>1, WorkerFacts, BuiltDeployment, Zenon
    <2> QED
        BY <2>2, Zenon DEF buildOCMAgentDeployment
<1>4. o = objs[k] \/ o.data.restartedAt = 0
    <2> HIDE DEF e, k
    <2>1. \A l : [e EXCEPT !.labels = l].restartedAt = 0
        BY <1>3, Zenon DEF DeploymentData
    <2> QED
        BY <1>2, <1>3, <2>1, Zenon DEF EnsuredDeployment
<1>5. Call(stamp, k, o, "ensureConfigMap", run)
    <2> HIDE DEF k, o
    <2>1. "ensureConfigMap" \in LateSteps
        BY Zenon DEF LateSteps, ExistSteps
    <2> QED
        BY <1>1, <1>2, <1>4, <2>1, Zenon DEF Call, k
<1> HIDE DEF k, o
<1> QED
    BY <1>1, <1>2, <1>5, CallEffects, Zenon

LEMMA ConfigMapsRotate ==
    ASSUME Inv, RotationInv, ensureAllConfigMaps
    PROVE  Effect
<1>1. {"ensureCAMO", "ensureTrustedCa", "ensureService"} \subseteq LateSteps
    BY Zenon DEF LateSteps, ExistSteps
<1>2. CASE pc = "ensureConfigMap"
    <2>1. PICK o : EnsureStepAt(stamp, ConfigMapKey(run.agent), o,
                       IF instance.spec.fleetMode THEN "ensureTrustedCa"
                                                  ELSE "ensureCAMO", run)
        BY <1>2, Zenon DEF ensureAllConfigMaps, ensureConfigMap, EnsureStep
    <2>2. ConfigMapKey(run.agent)[1] \notin {"Deployment", "Secret"}
        BY DEF ConfigMapKey
    <2>3. ConfigMapKey(run.agent) \in Keys
        BY <1>2, WorkerFacts, AgentKeys, Zenon
    <2> QED
        BY <1>2, <1>1, <2>1, <2>2, <2>3, OtherCall, ZenonT(30)
<1>3. CASE pc = "ensureCAMO"
    <2>1. PICK o : EnsureStepAt(stamp, CAMOKey, o, "ensureTrustedCa", run)
        BY <1>3, Zenon DEF ensureAllConfigMaps, ensureConfigMap, EnsureStep
    <2>2. CAMOKey[1] \notin {"Deployment", "Secret"}
        BY DEF CAMOKey
    <2> QED
        BY <1>3, <1>1, <2>1, <2>2, SharedKeys, OtherCall, ZenonT(30)
<1>4. CASE pc = "ensureTrustedCa"
    <2>1. PICK o : EnsureStepAt(stamp, TrustedCaKey, o, "ensureService", run)
        BY <1>4, Zenon DEF ensureAllConfigMaps, ensureConfigMap, EnsureStep
    <2>2. TrustedCaKey[1] \notin {"Deployment", "Secret"}
        BY DEF TrustedCaKey
    <2> QED
        BY <1>4, <1>1, <2>1, <2>2, SharedKeys, OtherCall, ZenonT(30)
<1> QED
    BY <1>2, <1>3, <1>4, Zenon DEF ensureAllConfigMaps

LEMMA ServicesRotate ==
    ASSUME Inv, RotationInv, ensureService
    PROVE  Effect
<1>1. CASE pc = "ensureService"
    <2>1. PICK o : EnsureStepAt(stamp, ServiceKey(run.agent), o,
                                "ensureMetricsService", run)
        BY <1>1, Zenon DEF ensureService, EnsureStep
    <2>2. ServiceKey(run.agent)[1] \notin {"Deployment", "Secret"}
        BY DEF ServiceKey
    <2>3. "ensureMetricsService" \in LateSteps /\ ServiceKey(run.agent) \in Keys
        BY <1>1, WorkerFacts, AgentKeys, Zenon DEF LateSteps, ExistSteps
    <2> QED
        BY <1>1, <2>1, <2>2, <2>3, OtherCall, ZenonT(30)
<1>2. CASE pc = "ensureMetricsService"
    <2> DEFINE local == [run EXCEPT !.namespaces =
                             networkPolicyNamespaces(instance.spec)]
    <2>1. PICK o : EnsureStepAt(stamp, MetricsServiceKey(run.agent), o,
                                "ensureNetworkPolicy", local)
        BY <1>2, Zenon DEF ensureService, EnsureStep
    <2>2. MetricsServiceKey(run.agent)[1] \notin {"Deployment", "Secret"}
        BY DEF MetricsServiceKey
    <2>3. /\ local.agent = run.agent /\ local.version = run.version
          /\ local.secretUpdated = run.secretUpdated
        BY <1>2, WorkerFacts, Zenon DEF Runs
    <2>4. "ensureNetworkPolicy" \in LateSteps /\ MetricsServiceKey(run.agent) \in Keys
        BY <1>2, WorkerFacts, AgentKeys, Zenon DEF LateSteps, ExistSteps
    <2> HIDE DEF local
    <2> QED
        BY <1>2, <2>1, <2>2, <2>3, <2>4, OtherCall, ZenonT(30)
<1> QED
    BY <1>1, <1>2, Zenon DEF ensureService

\* One network policy, ensured or deleted.
LEMMA NetworkPolicyRotates ==
    ASSUME Inv, RotationInv, NEW o, NEW after,
           NetworkPolicyStep(NetworkPolicyKey(run.agent, Head(run.namespaces)),
                             o, pc, after),
           \/ pc = "ensureNetworkPolicy" /\ after = "ensureServiceMonitor"
           \/ pc = "deleteNetworkPolicy" /\ after = "deleteServiceMonitor"
    PROVE  Effect
<1> DEFINE k == NetworkPolicyKey(run.agent, Head(run.namespaces))
           rest == Tail(run.namespaces)
           next == IF rest = <<>> THEN after ELSE pc
           local == [run EXCEPT !.namespaces = rest]
<1>1. EnsureStepAt(stamp, k, o, next, local)
    BY Zenon DEF NetworkPolicyStep, EnsureStep
<1>2. k \in Keys /\ k[1] \notin {"Deployment", "Secret"}
    <2>1. Head(run.namespaces) \in Namespaces /\ run.agent \in Agents
        BY WorkerFacts, NetworkPolicyFacts, Zenon
    <2>2. k \in Keys
        BY <2>1, AgentKeys, Zenon
    <2> QED
        BY <2>1, <2>2 DEF NetworkPolicyKey, Namespaces
<1>3. /\ local.agent = run.agent /\ local.version = run.version
      /\ local.secretUpdated = run.secretUpdated
    BY WorkerFacts, Zenon DEF Runs
<1>4. next \in {after, pc} /\ pc # "idle"
    BY Zenon
<1>5. pc \in ExistSteps => next \in LateSteps
    BY <1>4, Zenon DEF LateSteps, ExistSteps
<1>6. next \notin {"idle", "fetchPullSecret", "ensureSecret", "deleteSecret", "addFinalizer"}
    BY <1>4, Zenon
<1> HIDE DEF k, next, local
<1> QED
    BY <1>1, <1>2, <1>3, <1>4, <1>5, <1>6, OtherCall, ZenonT(30)

LEMMA MonitorAndBudgetRotate ==
    ASSUME Inv, RotationInv, ensureServiceMonitor \/ ensurePodDisruptionBudget
    PROVE  Effect
<1>1. ASSUME NEW k \in {ServiceMonitorKey(run.agent), PDBKey(run.agent)}, NEW o,
             NEW next \in {"ensurePDB", afterEnsureFuncs},
             pc \in {"ensureServiceMonitor", "ensurePDB"},
             EnsureStep(k, o, next, run)
      PROVE  Effect
    <2>1. EnsureStepAt(stamp, k, o, next, run) /\ pc # "idle"
        BY <1>1, Zenon DEF EnsureStep
    <2>2. k \in Keys
        BY <2>1, WorkerFacts, AgentKeys, Zenon
    <2>3. k[1] \notin {"Deployment", "Secret"}
        BY DEF ServiceMonitorKey, PDBKey
    <2>4. /\ next \in {"ensurePDB", "restartPods", "addFinalizer"}
          /\ run.secretUpdated => next # "addFinalizer"
        BY Zenon DEF afterEnsureFuncs
    <2>5. next \in LateSteps
        BY <2>4, Zenon DEF LateSteps, ExistSteps
    <2>6. next \notin {"idle", "fetchPullSecret", "ensureSecret", "deleteSecret"}
        BY <2>4, Zenon
    <2> QED
        BY <2>1, <2>2, <2>3, <2>4, <2>5, <2>6, OtherCall, ZenonT(30)
<1>2. CASE ensureServiceMonitor
    BY <1>1, <1>2, Zenon DEF ensureServiceMonitor
<1>3. CASE ensurePodDisruptionBudget
    BY <1>1, <1>3, Zenon DEF ensurePodDisruptionBudget
<1> QED
    BY <1>2, <1>3, Zenon

LEMMA RestartRotates ==
    ASSUME Inv, RotationInv, restartOCMAgentPods
    PROVE  Effect
<1> DEFINE k == DeploymentKey(run.agent)
           o(t) == [objs[k] EXCEPT !.data.restartedAt = t]
<1>1. pc = "restartPods"
    BY Zenon DEF restartOCMAgentPods
<1>2. CASE objs[k] = Nil
    <2>1. Return /\ UNCHANGED <<hist, objs, stamp, budget>>
        BY <1>2, Zenon DEF restartOCMAgentPods, cluster
    <2>2. WorkerEffect
        BY <1>1, <1>2, <2>1, Zenon DEF WorkerEffect, GivesUp
    <2> QED
        BY <2>1, <2>2, ObjectsUntouched, Zenon DEF Effect
<1>3. CASE objs[k] # Nil
    <2>1. PICK t \in restartSeconds : EnsureStepAt(t, k, o(t), "addFinalizer", run)
        BY <1>3, Zenon DEF restartOCMAgentPods
    <2>2. /\ k \in Keys /\ k[1] = "Deployment" /\ DataOf(k) = DeploymentData
          /\ objs[k] \in [owner: Owners, data: DeploymentData]
        BY <1>1, <1>3, WorkerFacts, AgentKeys, KeyKinds, ZenonT(30) DEF Objects
    <2>3. o(t) # Nil /\ o(t).data.restartedAt = t
        <3>1. o(t) = [objs[k] EXCEPT !.data = [objs[k].data EXCEPT !.restartedAt = t]]
            BY <2>2, Zenon
        <3>2. o(t) \in [owner: Owners, data: DeploymentData]
            <4>1. t \in Nat
                BY DEF restartSeconds
            <4>2. [objs[k].data EXCEPT !.restartedAt = t] \in DeploymentData
                BY <2>2, <4>1, Zenon DEF DeploymentData
            <4> QED
                BY <2>2, <3>1, <4>2, Zenon
        <3>3. o(t).data.restartedAt = t
            BY <2>2, <3>1, Zenon DEF DeploymentData
        <3> QED
            BY <2>2, <3>2, <3>3, NoObjectAssumption, Zenon DEF Objects
    <2>4. Call(t, k, o(t), "addFinalizer", run)
        <3>1. "addFinalizer" \in LateSteps
            BY Zenon DEF LateSteps, ExistSteps
        <3> HIDE DEF k, o
        <3> QED
            BY <1>1, <2>1, <2>2, <2>3, <3>1, ZenonT(30) DEF Call, k
    <2> HIDE DEF k, o
    <2> QED
        BY <1>1, <2>2, <2>4, CallEffects, Zenon
<1> QED
    BY <1>2, <1>3, Zenon

\* The steps that read.
LEMMA ReadingRotates ==
    ASSUME Inv, RotationInv,
           fetchAccessTokenPullSecret \/ ensureFleetClientSecret \/ buildEnvVars
    PROVE  Effect
<1>1. UNCHANGED <<hist, objs, stamp>>
    BY Zenon DEF fetchAccessTokenPullSecret, ensureFleetClientSecret, buildEnvVars,
           ReadStep, cluster
<1>2. UNCHANGED budget \/ Spend("faults")
    BY Zenon DEF fetchAccessTokenPullSecret, ensureFleetClientSecret, buildEnvVars,
           ReadStep
<1>3. pc \in {"fetchPullSecret", "ensureFleetSecret", "buildEnvVars"} /\ pc # "idle"
    BY Zenon DEF fetchAccessTokenPullSecret, ensureFleetClientSecret, buildEnvVars
<1>4. run \in Runs
    BY <1>3, WorkerFacts, Zenon
<1>5. \/ Return /\ (Spend("faults") \/ pc # "buildEnvVars")
      \/ /\ \/ pc = "fetchPullSecret" /\ pc' = "ensureSecret"
            \/ pc # "fetchPullSecret" /\ pc' \in {"buildEnvVars", "ensureDeployment"}
         /\ run' \in {run, [run EXCEPT !.token = pullSecret],
                      [run EXCEPT !.proxy = proxy]}
    BY Zenon DEF fetchAccessTokenPullSecret, ensureFleetClientSecret, buildEnvVars,
           ReadStep, Goto
<1>6. WorkerEffect
    <2>1. pc # "buildEnvVars" => ~run.secretUpdated
        BY <1>3, Zenon DEF RotationInv, LateSteps
    <2>2. CASE Return /\ (Spend("faults") \/ pc # "buildEnvVars")
        BY <2>1, <2>2, Zenon DEF WorkerEffect, GivesUp
    <2>3. CASE /\ \/ pc = "fetchPullSecret" /\ pc' = "ensureSecret"
                  \/ pc # "fetchPullSecret" /\ pc' \in {"buildEnvVars", "ensureDeployment"}
               /\ run' \in {run, [run EXCEPT !.token = pullSecret],
                            [run EXCEPT !.proxy = proxy]}
        <3>1. /\ run'.agent = run.agent /\ run'.version = run.version
              /\ run'.secretUpdated = run.secretUpdated
            BY <1>4, <2>3, Zenon DEF Runs
        <3>2. run'.secretUpdated => pc' \in LateSteps
            BY <2>1, <2>3, <3>1, Zenon DEF LateSteps, ExistSteps
        <3>3. GoesOn
            BY <1>3, <2>3, <3>1, <3>2, Zenon DEF GoesOn
        <3> QED
            BY <3>3, Zenon DEF WorkerEffect
    <2> QED
        BY <1>5, <2>2, <2>3, Zenon
<1> QED
    BY <1>1, <1>2, <1>6, ObjectsUntouched, Zenon DEF Effect, Disturbances

LEMMA AbsentRotates ==
    ASSUME Inv, RotationInv, EnsureOCMAgentResourcesAbsent
    PROVE  Effect
<1>1. pc \in AbsentSteps \ {"removeFinalizer"} /\ pc # "idle"
    BY Zenon DEF EnsureOCMAgentResourcesAbsent, ensureDeploymentDeleted,
           ensureServiceDeleted, ensureAllConfigMapsDeleted,
           ensureNetworkPolicyDeleted, ensureServiceMonitorDeleted,
           ensurePodDisruptionBudgetDeleted, ensureAccessTokenSecretDeleted, AbsentSteps
<1>2. /\ run.agent \in Agents /\ run \in Runs
      /\ instance.spec.tokenSecret \in TokenSecrets
    BY <1>1, WorkerFacts, Zenon DEF SpecType
<1>3. pc \notin ExistSteps /\ ~run.secretUpdated
    <2>1. pc \notin ExistSteps
        BY <1>1, Zenon DEF AbsentSteps, ExistSteps
    <2> QED
        BY <2>1, Zenon DEF RotationInv, LateSteps
<1>4. ASSUME NEW k \in Keys, NEW next, DeleteStep(k, next),
             next \notin {"idle", "fetchPullSecret", "ensureSecret"},
             next = "deleteSecret" => ~instance.spec.fleetMode,
             k[1] = "Deployment" => k = DeploymentKey(run.agent) /\ pc # "restartPods",
             k[1] = "Secret" =>
                 k = SecretKey(instance.spec.tokenSecret) /\ pc = "deleteSecret"
      PROVE  Effect
    <2>1. EnsureStepAt(stamp, k, Nil, next, run)
        BY <1>4, Zenon DEF DeleteStep, EnsureStep
    <2>2. Call(stamp, k, Nil, next, run)
        BY <1>3, <1>4, <2>1, Zenon DEF Call
    <2> QED
        BY <1>1, <2>2, CallEffects, Zenon
<1>5. CASE ensureDeploymentDeleted
    BY <1>2, <1>4, <1>5, AgentKeys, KeyKinds, Zenon DEF ensureDeploymentDeleted
<1>6. CASE ensureServiceDeleted
    <2>1. /\ ServiceKey(run.agent)[1] = "Service"
          /\ MetricsServiceKey(run.agent)[1] = "MetricsService"
        BY DEF ServiceKey, MetricsServiceKey
    <2>2. PICK k \in {ServiceKey(run.agent), MetricsServiceKey(run.agent)},
               next \in {"deleteConfigMap", "deleteMetricsService"} : DeleteStep(k, next)
        BY <1>6, Zenon DEF ensureServiceDeleted
    <2> QED
        BY <1>2, <1>4, <2>1, <2>2, AgentKeys, Zenon
<1>7. CASE ensureAllConfigMapsDeleted
    <2>1. CASE pc = "deleteConfigMap"
        <3>1. PlainConfigMapKey(run.agent)[1] \notin {"Deployment", "Secret"}
            BY DEF PlainConfigMapKey
        <3> QED
            BY <1>2, <1>4, <1>7, <2>1, <3>1, AgentKeys, Zenon
            DEF ensureAllConfigMapsDeleted
    <2>2. CASE pc = "deleteCAMO"
        <3> DEFINE local == [run EXCEPT !.namespaces =
                                 networkPolicyNamespaces(instance.spec)]
        <3>1. EnsureStepAt(stamp, CAMOKey, Nil, "deleteNetworkPolicy", local)
            BY <1>7, <2>2, Zenon DEF ensureAllConfigMapsDeleted, EnsureStep
        <3>2. /\ local.agent = run.agent /\ local.version = run.version
              /\ local.secretUpdated = run.secretUpdated
            BY <1>2, Zenon DEF Runs
        <3>3. CAMOKey[1] \notin {"Deployment", "Secret"}
            BY DEF CAMOKey
        <3> HIDE DEF local
        <3> QED
            BY <1>1, <1>3, <3>1, <3>2, <3>3, SharedKeys, OtherCall, ZenonT(30)
    <2> QED
        BY <1>7, <2>1, <2>2, Zenon DEF ensureAllConfigMapsDeleted
<1>8. CASE ensureNetworkPolicyDeleted
    BY <1>8, NetworkPolicyRotates, Zenon DEF ensureNetworkPolicyDeleted
<1>9. CASE ensureServiceMonitorDeleted
    <2>1. ServiceMonitorKey(run.agent)[1] \notin {"Deployment", "Secret"}
        BY DEF ServiceMonitorKey
    <2> QED
        BY <1>2, <1>4, <1>9, <2>1, AgentKeys, Zenon DEF ensureServiceMonitorDeleted
<1>10. CASE ensurePodDisruptionBudgetDeleted
    <2>1. PDBKey(run.agent)[1] \notin {"Deployment", "Secret"}
        BY DEF PDBKey
    <2> QED
        BY <1>2, <1>4, <1>10, <2>1, AgentKeys, ZenonT(30) DEF ensurePodDisruptionBudgetDeleted
<1>11. CASE ensureAccessTokenSecretDeleted
    BY <1>2, <1>4, <1>11, SharedKeys, KeyKinds, Zenon DEF ensureAccessTokenSecretDeleted
<1> QED
    BY <1>5, <1>6, <1>7, <1>8, <1>9, <1>10, <1>11, ZenonT(30) DEF EnsureOCMAgentResourcesAbsent

LEMMA FinalizersRotate ==
    ASSUME Inv, RotationInv, addFinalizer \/ removeFinalizer
    PROVE  Effect
<1>1. pc \in {"addFinalizer", "removeFinalizer"} /\ Return /\ UNCHANGED <<objs, stamp>>
    BY Zenon DEF addFinalizer, removeFinalizer, cluster
<1>2. UNCHANGED budget \/ Spend("faults")
    BY Zenon DEF addFinalizer, removeFinalizer, FailedUpdate
<1>3. pc = "addFinalizer" \/ ~run.secretUpdated
    <2>1. "removeFinalizer" \notin LateSteps
        BY Zenon DEF LateSteps, ExistSteps
    <2> QED
        BY <1>1, <2>1, Zenon DEF RotationInv
<1>4. WorkerEffect
    BY <1>1, <1>3, Zenon DEF WorkerEffect, GivesUp
<1> QED
    BY <1>1, <1>2, <1>4, ObjectsUntouched, Zenon DEF Effect, Disturbances

\* Users, inputs, watches and stuttering.
LEMMA BystandersRotate ==
    ASSUME UNCHANGED <<objs, pc, run, stamp>>,
           UNCHANGED budget \/ \E d \in Disturbances : Spend(d)
    PROVE  Effect
BY ObjectsUntouched, Zenon DEF Effect, WorkerEffect

LEMMA ReconcileRotates ==
    ASSUME Inv, NEW a \in Agents, Reconcile(a)
    PROVE  Effect
<1>1. UNCHANGED <<hist, objs, stamp>> /\ (UNCHANGED budget \/ Spend("faults"))
    BY Zenon DEF Reconcile, cluster
<1>2. pc = "idle" /\ (UNCHANGED <<pc, run>> \/ Started(a))
    BY ReconcileEffect, Zenon
<1>3. WorkerEffect
    BY <1>1, <1>2, Zenon DEF WorkerEffect
<1> QED
    BY <1>1, <1>3, ObjectsUntouched, Zenon DEF Effect, Disturbances

\* What others do to an object.
LEMMA PutByOthers ==
    ASSUME Inv, NEW k \in Keys, NEW o, objs' = [objs EXCEPT ![k] = o],
           UNCHANGED <<pc, run, stamp>>,
           UNCHANGED budget \/ \E d \in Disturbances : Spend(d),
           \A a \in Agents : k = DeploymentKey(a) => o = Nil \/
               (/\ Spend("tampers") /\ objs[k] # Nil
                /\ o.data.restartedAt = objs[k].data.restartedAt),
           \A s \in TokenSecrets : k = SecretKey(s) =>
               \/ objs[k] = Nil /\ o.owner = Nil
               \/ /\ Spend("tampers") /\ objs[k] # Nil
                  /\ o # Nil => o.owner = objs[k].owner
    PROVE  Effect
<1>1. /\ \A j \in Keys : j # k => objs'[j] = objs[j]
      /\ objs'[k] = o
    BY Zenon DEF Inv, BaseInv, TypeOK
<1>2. ASSUME NEW a \in Agents PROVE DeploymentEffect(a)
    BY <1>1, AgentKeys, Zenon DEF DeploymentEffect
<1>3. ASSUME NEW s \in TokenSecrets PROVE SecretEffect(s)
    BY <1>1, SharedKeys, Zenon DEF SecretEffect
<1> QED
    BY <1>2, <1>3, Zenon DEF Effect, WorkerEffect

LEMMA TamperRotates ==
    ASSUME Inv, NEW k \in Keys, Tamper(k)
    PROVE  Effect
<1>1. /\ objs[k] # Nil /\ Spend("tampers") /\ "tampers" \in Disturbances
      /\ UNCHANGED <<pc, run, stamp>>
    BY Zenon DEF Tamper, Disturbances
<1>2. CASE objs' = [objs EXCEPT ![k] = Nil]
    BY <1>1, <1>2, PutByOthers, Zenon
<1>3. ASSUME NEW d \in Edited(k, objs[k].data),
             objs' = [objs EXCEPT ![k] = [objs[k] EXCEPT !.data = d]]
      PROVE  Effect
    <2>1. objs[k] \in [owner: Owners, data: DataOf(k)]
        BY <1>1, Zenon DEF Inv, BaseInv, TypeOK, Objects
    <2> DEFINE o == [objs[k] EXCEPT !.data = d]
    <2>2. objs' = [objs EXCEPT ![k] = o] /\ o.owner = objs[k].owner /\ o.data = d
        BY <1>3, <2>1, Zenon
    <2> HIDE DEF o
    <2>3. ASSUME NEW a \in Agents, k = DeploymentKey(a)
          PROVE  d.restartedAt = objs[k].data.restartedAt
        <3>1. k[1] = "Deployment" /\ objs[k].data \in DeploymentData
            BY <2>1, <2>3, AgentKeys, KeyKinds, ZenonT(30)
        <3>2. d \in {[objs[k].data EXCEPT !.labels = "tampered"],
                     [objs[k].data EXCEPT !.image = Tampered]}
            BY <3>1 DEF Edited, SpecKinds, ServiceKinds, Namespaces, TrustedCaKey
        <3> QED
            BY <3>1, <3>2, Zenon DEF DeploymentData
    <2> QED
        BY <1>1, <2>2, <2>3, PutByOthers, ZenonT(30)
<1> QED
    BY <1>2, <1>3, Zenon DEF Tamper, Put

LEMMA CollectorRotates ==
    ASSUME Inv, NEW k \in Keys, GarbageCollect(k)
    PROVE  Effect
<1>1. /\ objs[k] # Nil /\ objs[k].owner # Nil /\ ~Holds(objs[k].owner)
      /\ UNCHANGED <<pc, run, stamp, budget>>
    BY Zenon DEF GarbageCollect
<1>2. ASSUME NEW j \in Keys
      PROVE  \/ objs'[j] = objs[j]
             \/ /\ objs[j] # Nil /\ objs[j].owner = objs[k].owner
                /\ objs'[j] = Nil
    BY Zenon DEF GarbageCollect, Dependents
<1>3. ASSUME NEW a \in Agents PROVE DeploymentEffect(a)
    BY <1>2, AgentKeys, Zenon DEF DeploymentEffect
<1>4. ASSUME NEW s \in TokenSecrets PROVE SecretEffect(s)
    BY <1>1, <1>2, SharedKeys, Zenon DEF SecretEffect
<1> QED
    BY <1>1, <1>3, <1>4, Zenon DEF Effect, WorkerEffect

LEMMA ProvisionRotates ==
    ASSUME Inv, (\E s \in TokenSecrets : ProvisionSecret(s)) \/ InjectTrustedCa
    PROVE  Effect
<1>1. ASSUME NEW s \in TokenSecrets, ProvisionSecret(s) PROVE Effect
    <2>1. /\ objs[SecretKey(s)] = Nil /\ Spend("inputs")
          /\ UNCHANGED <<pc, run, stamp>> /\ "inputs" \in Disturbances
        BY <1>1, Zenon DEF ProvisionSecret, Disturbances
    <2>2. PICK c \in FleetCreds :
              objs' = [objs EXCEPT ![SecretKey(s)] = [owner |-> Nil, data |-> c]]
        BY <1>1, Zenon DEF ProvisionSecret, Put
    <2> DEFINE o == [owner |-> Nil, data |-> c]
    <2>3. objs' = [objs EXCEPT ![SecretKey(s)] = o] /\ o.owner = Nil
        BY <2>2, Zenon
    <2> HIDE DEF o
    <2>4. \A a : SecretKey(s) # DeploymentKey(a)
        BY KeyKinds, Zenon
    <2> QED
        BY <2>1, <2>3, <2>4, SharedKeys, PutByOthers, ZenonT(30)
<1>2. CASE InjectTrustedCa
    <2>1. PICK o : objs' = [objs EXCEPT ![TrustedCaKey] = o]
        BY <1>2, Zenon DEF InjectTrustedCa, Put
    <2>2. UNCHANGED <<pc, run, stamp, budget>>
        BY <1>2, Zenon DEF InjectTrustedCa
    <2>3. \A a : TrustedCaKey # DeploymentKey(a) /\ TrustedCaKey # SecretKey(a)
        BY DEF SecretKey, DeploymentKey, TrustedCaKey
    <2> QED
        BY <2>1, <2>2, <2>3, SharedKeys, PutByOthers, ZenonT(30)
<1> QED
    BY <1>1, <1>2, Zenon

LEMMA NextEffect ==
    ASSUME Inv, RotationInv, [Next]_vars
    PROVE  Effect
<1>1. ASSUME NEW a \in Agents, WatchOcmAgent(a) PROVE Effect
    BY <1>1, BystandersRotate, Zenon DEF WatchOcmAgent, cluster
<1>2. CASE EnsureOCMAgentResourcesExist
    <2>1. CASE ensureNetworkPolicy
        BY <2>1, NetworkPolicyRotates, Zenon DEF ensureNetworkPolicy
    <2> QED
        BY <1>2, <2>1, SecretRotates, DeploymentRotates, ConfigMapsRotate, ServicesRotate,
           MonitorAndBudgetRotate, RestartRotates, ReadingRotates, ZenonT(30)
        DEF EnsureOCMAgentResourcesExist
<1>3. CASE Restart
    <2>1. /\ Spend("crashes") /\ Return /\ UNCHANGED <<objs, stamp>>
          /\ "crashes" \in Disturbances
        BY <1>3, Zenon DEF Restart, cluster, Disturbances
    <2> QED
        BY <2>1, ObjectsUntouched, Zenon DEF Effect, WorkerEffect, GivesUp
<1>4. CASE ChangePullSecret \/ ChangeProxy
    <2>1. Spend("inputs") /\ UNCHANGED <<objs, pc, run, stamp>>
        BY <1>4, Zenon DEF ChangePullSecret, ChangeProxy
    <2> QED
        BY <2>1, BystandersRotate, Zenon DEF Disturbances
<1>5. ASSUME NEW a \in Agents, User(a) \/ DependentsGone(a) PROVE Effect
    <2>1. /\ UNCHANGED budget \/ Spend("edits")
          /\ UNCHANGED <<objs, pc, run, stamp>>
        BY <1>5, ZenonT(30) DEF User, CreateOcmAgent, UpdateOcmAgent, DeleteOcmAgent,
               DependentsGone, cluster
    <2> QED
        BY <2>1, BystandersRotate, Zenon DEF Disturbances
<1>6. CASE UNCHANGED vars
    BY <1>6, BystandersRotate, Zenon DEF vars
<1> QED
    BY <1>1, <1>2, <1>3, <1>4, <1>5, <1>6, ReconcileRotates, AbsentRotates,
       FinalizersRotate, TamperRotates, CollectorRotates, ProvisionRotates, ZenonT(30)
    DEF Next, Worker, Environment

\* Whatever happens, an OcmAgent's history is only added to.
LEMMA HistoryStep ==
    ASSUME Inv, [Next]_vars
    PROVE  \/ UNCHANGED hist
           \/ \E a \in Agents : \E e : Write(a, e) /\ Follows(hist[a], e)
<1>1. CASE Worker
    <2>1. CASE EnsureOCMAgentResourcesExist
        <3>1. ObjectStep \/ QuietStep
            BY <2>1, ExistStep, Zenon
        <3> QED
            BY <3>1, Zenon DEF ObjectStep, EnsureStepAt, QuietStep
    <2>2. CASE EnsureOCMAgentResourcesAbsent
        BY <2>2, AbsentStep, Zenon DEF ObjectStep, EnsureStepAt
    <2> QED
        BY <1>1, <2>1, <2>2, FinalizersFollow, Zenon DEF Worker
<1>2. ASSUME NEW a \in Agents, User(a) \/ DependentsGone(a)
      PROVE  \E e : Write(a, e) /\ Follows(hist[a], e)
    BY <1>2, OthersWriteSomething, Zenon DEF OthersWrite
<1>3. CASE Environment /\ ~\E a \in Agents : User(a) \/ DependentsGone(a)
    BY <1>3, Zenon DEF Environment, ChangePullSecret, ChangeProxy, ProvisionSecret,
           Tamper, GarbageCollect, InjectTrustedCa
<1>4. ASSUME NEW a \in Agents, Reconcile(a) \/ WatchOcmAgent(a) PROVE UNCHANGED hist
    BY <1>4, Zenon DEF Reconcile, WatchOcmAgent
<1>5. Restart => UNCHANGED hist
    BY Zenon DEF Restart
<1>6. UNCHANGED vars => UNCHANGED hist
    BY Zenon DEF vars
<1> QED
    BY <1>1, <1>2, <1>3, <1>4, <1>5, <1>6, ZenonT(30) DEF Next

LEMMA HistoryGrows ==
    ASSUME Inv, [Next]_vars, NEW b \in Agents
    PROVE  /\ Len(hist[b]) \in Nat /\ Len(hist'[b]) \in Nat
           /\ Len(hist[b]) <= Len(hist'[b])
           /\ \A v \in 1..Len(hist[b]) : hist'[b][v] = hist[b][v]
           /\ Departed(b) => Departed(b)'
           /\ \A s : Manages(b, s) => Manages(b, s)'
<1>1. Len(hist[b]) \in Nat
    BY HistoryFacts, Zenon
<1>2. /\ Len(hist'[b]) \in Nat /\ Len(hist[b]) <= Len(hist'[b])
      /\ \A v \in 1..Len(hist[b]) : hist'[b][v] = hist[b][v]
    <2>1. CASE UNCHANGED hist
        BY <1>1, <2>1
    <2>2. ASSUME NEW a \in Agents, NEW e, Write(a, e), Follows(hist[a], e)
          PROVE  /\ Len(hist'[b]) \in Nat /\ Len(hist[b]) <= Len(hist'[b])
                 /\ \A v \in 1..Len(hist[b]) : hist'[b][v] = hist[b][v]
        BY <2>2, Written, Zenon
    <2> QED
        BY <2>1, <2>2, HistoryStep, Zenon
<1>3. Departed(b) => Departed(b)'
    BY HistoryStep, DepartedStays, DepartedUnchanged, Zenon
<1>4. ASSUME NEW s, Manages(b, s) PROVE Manages(b, s)'
    <2>1. PICK v \in 1..Len(hist[b]) :
              /\ hist[b][v] # Nil
              /\ ~hist[b][v].spec.fleetMode /\ hist[b][v].spec.tokenSecret = s
        BY <1>4, Zenon DEF Manages, Version
    <2>2. v \in 1..Len(hist'[b])
        BY <1>1, <1>2
    <2> QED
        BY <1>2, <2>1, <2>2, Zenon DEF Manages, Version
<1> QED
    BY <1>1, <1>2, <1>3, <1>4, Zenon

\* Disturbances are only used up, and the clock does not run backwards.
LEMMA BudgetsFall ==
    ASSUME Inv, Effect, NEW d \in Disturbances
    PROVE  /\ budget[d] \in Nat /\ budget'[d] \in Nat /\ budget'[d] <= budget[d]
           /\ Spend(d) => budget'[d] < budget[d]
<1>1. budget \in [Disturbances -> Nat]
    BY Zenon DEF Inv, BaseInv, TypeOK
<1>2. ASSUME NEW e \in Disturbances, Spend(e)
      PROVE  /\ budget'[d] \in Nat /\ budget'[d] <= budget[d]
             /\ e = d => budget'[d] < budget[d]
    BY <1>1, <1>2 DEF Spend
<1>3. CASE UNCHANGED budget
    <2>1. ~Spend(d)
        BY <1>1, <1>3 DEF Spend
    <2> QED
        BY <1>1, <1>3, <2>1
<1> QED
    BY <1>1, <1>2, <1>3, ZenonT(30) DEF Effect

LEMMA ClockRuns ==
    ASSUME Inv, RotationInv, Effect
    PROVE  /\ stamp \in Nat /\ stamp' \in Nat /\ stamp <= stamp' /\ stamp' <= Seconds
           /\ stamp = Seconds => stamp' = Seconds
           /\ stamp' \in restartSeconds => stamp' # 0
           /\ stamp' \in restartSeconds /\ ~Blurred' => stamp' = stamp + 1
<1>1. stamp \in Nat /\ stamp <= Seconds
    BY Zenon DEF Inv, BaseInv, TypeOK, RotationInv
<1>2. stamp' = stamp \/ stamp' \in restartSeconds
    BY Zenon DEF Effect
<1>3. stamp' \in restartSeconds =>
          /\ stamp' \in 1..Seconds
          /\ \/ stamp' = stamp + 1
             \/ stamp' = stamp /\ (SameSecond \/ stamp = Seconds)
    BY Zenon DEF restartSeconds
<1> QED
    BY <1>1, <1>2, <1>3, SecondsAssumption, SMTT(30) DEF Blurred

LEMMA RotationNext ==
    ASSUME Inv, RotationInv, [Next]_vars
    PROVE  RotationInv'
<1>1. Effect
    BY NextEffect, Zenon
<1>2. \A d \in {"faults", "crashes"} : budget'[d] <= Limits[d]
    <2>1. ASSUME NEW d \in {"faults", "crashes"} PROVE budget'[d] <= Limits[d]
        <3>1. d \in Disturbances
            BY Zenon DEF Disturbances
        <3>2. budget[d] <= Limits[d] /\ Limits[d] \in Nat
            BY <3>1, LimitsAssumption, Zenon DEF RotationInv
        <3> QED
            BY <1>1, <3>1, <3>2, BudgetsFall
    <2> QED
        BY <2>1, Zenon
<1>3. stamp' <= Seconds
    BY <1>1, ClockRuns, Zenon
<1>4. ASSUME NEW a \in Agents, objs'[DeploymentKey(a)] # Nil
      PROVE  objs'[DeploymentKey(a)].data.restartedAt <= stamp'
    <2> DEFINE k == DeploymentKey(a)
    <2>1. objs[k] # Nil =>
              objs[k].data.restartedAt \in Nat /\ objs[k].data.restartedAt <= stamp
        <3>1. k \in Keys /\ DataOf(k) = DeploymentData
            BY AgentKeys, Zenon
        <3>2. objs[k] # Nil => objs[k] \in [owner: Owners, data: DeploymentData]
            BY <3>1, Zenon DEF Inv, BaseInv, TypeOK, Objects
        <3> QED
            BY <3>2, Zenon DEF RotationInv, DeploymentData
    <2>2. \/ objs[k] # Nil /\ objs'[k].data.restartedAt = objs[k].data.restartedAt
          \/ objs'[k].data.restartedAt = 0
          \/ objs'[k].data.restartedAt = stamp'
        BY <1>1, <1>4, Zenon DEF Effect, DeploymentEffect, Restarted
    <2> HIDE DEF k
    <2>3. objs'[k].data.restartedAt <= stamp'
        BY <1>1, <2>1, <2>2, ClockRuns
    <2> QED
        BY <2>3, Zenon DEF k
<1>5. ASSUME pc' \in {"fetchPullSecret", "ensureSecret", "deleteSecret"}
      PROVE  ~instance.spec.fleetMode'
    <2>1. ASSUME pc # "idle", run'.agent = run.agent, run'.version = run.version
          PROVE  instance' = instance
        <3>1. run.agent \in Agents /\ run.version \in 1..Len(hist[run.agent])
            <4>1. run.agent \in Agents /\ run.version \in 1..seen[run.agent]
                BY <2>1, Zenon DEF Inv, BaseInv, RunOK
            <4> QED
                BY <4>1, CachedFacts
        <3>2. hist'[run.agent][run.version] = hist[run.agent][run.version]
            BY <3>1, HistoryGrows, Zenon
        <3> QED
            BY <2>1, <3>2, Zenon DEF instance
    <2>2. CASE UNCHANGED <<pc, run>>
        BY <1>5, <2>1, <2>2, Zenon DEF RotationInv
    <2>3. ASSUME NEW a \in Agents, Started(a), UNCHANGED hist
          PROVE  ~instance.spec.fleetMode'
        <3>1. pc' = firstEnsureFunc(Cached(a).spec) /\ instance' = Cached(a)
            <4>1. run'.agent = a /\ run'.version = seen[a]
                BY <2>3, StartedFacts, Zenon
            <4> QED
                BY <1>5, <2>3, <4>1, Zenon DEF Started, instance, Cached
        <3> QED
            BY <1>5, <3>1, Zenon DEF firstEnsureFunc
    <2>4. CASE GoesOn
        BY <1>5, <2>1, <2>4, Zenon DEF GoesOn, RotationInv
    <2>5. CASE GivesUp
        BY <1>5, <2>5, Zenon DEF GivesUp, Return, Goto
    <2> QED
        BY <1>1, <2>2, <2>3, <2>4, <2>5, ZenonT(30) DEF Effect, WorkerEffect
<1>6. ASSUME run'.secretUpdated PROVE pc' \in LateSteps
    <2>1. NoRun.secretUpdated = FALSE
        BY Zenon DEF NoRun
    <2>2. CASE UNCHANGED <<pc, run>>
        BY <1>6, <2>2, Zenon DEF RotationInv
    <2>3. ASSUME NEW a \in Agents, Started(a) PROVE FALSE
        BY <1>6, <2>3 DEF Started, NoRun
    <2>4. CASE GivesUp
        BY <1>6, <2>1, <2>4, Zenon DEF GivesUp, Return, Goto
    <2> QED
        BY <1>1, <1>6, <2>2, <2>3, <2>4, ZenonT(30) DEF Effect, WorkerEffect, GoesOn
<1>7. ASSUME NEW s \in TokenSecrets,
             objs'[SecretKey(s)] # Nil, objs'[SecretKey(s)].owner # Nil
      PROVE  Manages(objs[SecretKey(s)].owner.agent, s)'
    <2> DEFINE k == SecretKey(s)
    <2>1. ASSUME NEW b \in Agents, Manages(b, s), objs'[k].owner.agent = b
          PROVE  Manages(objs[k].owner.agent, s)'
        BY <2>1, HistoryGrows, Zenon
    <2>2. CASE objs[k] # Nil /\ objs'[k].owner = objs[k].owner
        <3>1. Manages(objs[k].owner.agent, s) /\ objs[k].owner # Nil
            BY <1>7, <2>2, Zenon DEF RotationInv
        <3>2. objs[k].owner.agent \in Agents
            <4>1. objs[k] \in [owner: Owners, data: DataOf(k)]
                BY <2>2, SharedKeys, ZenonT(30) DEF Inv, BaseInv, TypeOK, Objects
            <4> QED
                BY <3>1, <4>1, Zenon DEF Owners
        <3> QED
            BY <2>1, <2>2, <3>1, <3>2, ZenonT(30)
    <2>3. CASE /\ pc = "ensureSecret" /\ s = instance.spec.tokenSecret
               /\ objs'[k].owner = ownerRef
        <3>1. pc # "idle" /\ ~instance.spec.fleetMode
            BY <2>3, Zenon DEF RotationInv
        <3>2. run.agent \in Agents /\ objs'[k].owner.agent = run.agent
            <4>1. run.agent \in Agents
                BY <3>1, WorkerFacts, Zenon
            <4> QED
                BY <2>3, <4>1 DEF ownerRef
        <3>3. run.version \in 1..Len(hist[run.agent]) /\ instance # Nil
            <4>1. /\ run.version \in 1..seen[run.agent] /\ instance # Nil
                BY <3>1, Zenon DEF Inv, BaseInv, RunOK, instance
            <4> QED
                BY <3>2, <4>1, CachedFacts
        <3>4. Manages(run.agent, s)
            BY <2>3, <3>1, <3>3, Zenon DEF Manages, Version, instance
        <3> QED
            BY <2>1, <3>2, <3>4, Zenon
    <2> QED
        BY <1>1, <1>7, <2>2, <2>3, ZenonT(30) DEF Effect, SecretEffect
<1>8. RotationInv'
    BY <1>2, <1>3, <1>4, <1>5, <1>6, <1>7, ZenonT(30) DEF RotationInv
<1> QED
    BY <1>8, Zenon

\* Why pods may go on with an old token although nothing is on its way.
Excusable(a, s) ==
    Interrupted \/ Blurred \/ Meddled \/ SharedSecret(a, s) \/ Departed(a)

\* The inductive form, for the secret that the pods have mounted: also pods
\* that a rollout is going to replace must be accounted for, because the next
\* change of the Deployment may make their template the current one again.
Provided(a, s) ==
    \/ Excusable(a, s)
    \/ Has(SecretKey(s), pods[a].token)
    \/ RestartAhead(a)
    \/ /\ pods[a].since < stamp
       /\ Lasting(a) => objs[DeploymentKey(a)].data.restartedAt = 0

PodsInv ==
    /\ DOMAIN pods = Agents
    /\ \A a \in Agents : pods[a] # Nil =>
           /\ pods[a].template.secretName \in TokenSecrets
           /\ pods[a].template.restartedAt \in Nat
           /\ pods[a].template.restartedAt <= stamp
           /\ pods[a].since \in Nat /\ pods[a].since <= stamp
           /\ Provided(a, pods[a].template.secretName)

\* What has been deleted, or has lost its hold on its dependents, is departed.
LEMMA DeletedDeparts ==
    ASSUME Inv, NEW a \in Agents, NEW v \in 1..Len(hist[a]), hist[a][v] # Nil,
           \/ hist[a][v].deleting
           \/ ~Holds([agent |-> a, uid |-> hist[a][v].uid])
    PROVE  Departed(a)
<1> DEFINE u == hist[a][v].uid
<1>1. HistoryOK(hist[a]) /\ Len(hist[a]) \in Nat
    BY HistoryFacts, Zenon
<1>2. Len(hist[a]) \in 1..Len(hist[a]) /\ v <= Len(hist[a])
    BY <1>1
<1>3. Current(a) # Nil /\ Current(a).uid = u /\ hist[a][v].deleting => Current(a).deleting
    BY <1>1, <1>2, Zenon DEF HistoryOK, Current, Version
<1>4. Current(a) # Nil => (Current(a).foreground => Current(a).deleting)
    BY CurrentFacts, Zenon
<1>5. ~(Current(a) # Nil /\ Current(a).uid = u /\ ~Current(a).deleting)
    <2>1. CASE hist[a][v].deleting
        BY <1>3, <2>1, Zenon
    <2>2. CASE ~Holds([agent |-> a, uid |-> u])
        BY <1>4, <2>2, Zenon DEF Holds
    <2> QED
        BY <2>1, <2>2, Zenon
<1>6. ~Live([agent |-> a, uid |-> u])
    BY <1>5, Zenon DEF Live
<1> QED
    BY <1>6, Zenon DEF Departed, Version

LEMMA ExcusesStay ==
    ASSUME Inv, NamesInv, RotationInv, [Next]_vars, NEW a \in Agents, NEW s,
           Excusable(a, s)
    PROVE  Excusable(a, s)'
<1>1. Effect
    BY NextEffect, Zenon
<1>2. ASSUME NEW d \in Disturbances, budget[d] < Limits[d]
      PROVE  budget'[d] < Limits[d]
    BY <1>1, <1>2, BudgetsFall, LimitsAssumption
<1>3. Interrupted => Interrupted'
    BY <1>2, Zenon DEF Interrupted, Disturbances
<1>4. Meddled => Meddled'
    BY <1>2, Zenon DEF Meddled, Disturbances
<1>5. Blurred => Blurred'
    BY <1>1, ClockRuns, Zenon DEF Blurred
<1>6. SharedSecret(a, s) => SharedSecret(a, s)'
    BY HistoryGrows, Zenon DEF SharedSecret
<1> QED
    BY <1>3, <1>4, <1>5, <1>6, HistoryGrows, ZenonT(30) DEF Excusable

\* A step that disturbs nothing.
LEMMA Undisturbed ==
    ASSUME Inv, NamesInv, RotationInv, Effect, ~Interrupted', ~Meddled'
    PROVE  ~Spend("faults") /\ ~Spend("crashes") /\ ~Spend("tampers")
<1>1. ASSUME NEW d \in {"faults", "crashes", "tampers"}, Spend(d)
      PROVE  budget'[d] < Limits[d]
    <2>1. d \in Disturbances
        BY Zenon DEF Disturbances
    <2>2. budget[d] <= Limits[d] /\ Limits[d] \in Nat
        BY <2>1, LimitsAssumption, Zenon DEF RotationInv, NamesInv
    <2> QED
        BY <1>1, <2>1, <2>2, BudgetsFall, SMTT(30)
<1> QED
    BY <1>1, Zenon DEF Interrupted, Meddled

\* The token secret of the pods is replaced only by the reconcile of their own
\* OcmAgent, which then knows that it has to restart them.
LEMMA ReplacedSecret ==
    ASSUME Inv, NamesInv, RotationInv, [Next]_vars, NEW a \in Agents,
           NEW s \in TokenSecrets, NEW token, Has(SecretKey(s), token),
           ~Has(SecretKey(s), token)', ~Excusable(a, s)'
    PROVE  RestartAhead(a)'
<1> DEFINE k == SecretKey(s)
<1>1. Effect
    BY NextEffect, Zenon
<1>2. ~Spend("faults") /\ ~Spend("tampers")
    BY <1>1, Undisturbed, Zenon DEF Excusable
<1>3. objs[k] # Nil /\ objs'[k] # objs[k]
    BY Zenon DEF Has
<1>4. ASSUME NEW b \in Agents, Manages(b, s) PROVE b = a
    BY <1>4, HistoryGrows, Zenon DEF Excusable, SharedSecret
<1>5. ~Departed(a)
    BY HistoryGrows, Zenon DEF Excusable
<1>6. ASSUME pc \in {"ensureSecret", "deleteSecret"}, s = instance.spec.tokenSecret
      PROVE  /\ run.agent = a /\ run.version \in 1..Len(hist[a])
             /\ hist[a][run.version] # Nil
    <2>1. /\ pc # "idle" /\ ~instance.spec.fleetMode /\ run.agent \in Agents
          /\ instance # Nil /\ run.version \in 1..seen[run.agent]
        BY <1>6, ZenonT(30) DEF RotationInv, Inv, BaseInv, RunOK, instance
    <2>2. run.version \in 1..Len(hist[run.agent])
        BY <2>1, CachedFacts
    <2>3. Manages(run.agent, s)
        BY <1>6, <2>1, <2>2, ZenonT(30) DEF Manages, Version, instance
    <2> QED
        BY <1>4, <2>1, <2>2, <2>3, ZenonT(30) DEF instance
<1>7. CASE /\ pc = "ensureSecret" /\ s = instance.spec.tokenSecret
           /\ pc' = "buildEnvVars" /\ run'.agent = run.agent /\ run'.secretUpdated
    BY <1>6, <1>7, Zenon DEF RestartAhead
<1>8. CASE pc = "deleteSecret" /\ s = instance.spec.tokenSecret
    <2>1. hist[a][run.version].deleting
        BY <1>6, <1>8, ZenonT(30) DEF Inv, BaseInv, RunOK, AbsentSteps
    <2> QED
        BY <1>5, <1>6, <1>8, <2>1, DeletedDeparts, ZenonT(30)
<1>9. CASE objs[k].owner # Nil /\ ~Holds(objs[k].owner)
    <2>1. k \in Keys /\ objs[k] \in [owner: Owners, data: DataOf(k)]
        BY <1>3, SharedKeys, ZenonT(30) DEF Inv, BaseInv, TypeOK, Objects
    <2>2. objs[k].owner \in [agent: Agents, uid: Nat]
        BY <1>9, <2>1, ZenonT(30) DEF Owners
    <2>3. objs[k].owner.agent = a
        BY <1>3, <1>4, <1>9, <2>2, ZenonT(30) DEF RotationInv
    <2>4. PICK v \in 1..Horizon(a) :
              hist[a][v] # Nil /\ hist[a][v].uid = objs[k].owner.uid
        BY <1>3, <1>9, <2>1, <2>3, ZenonT(30) DEF Inv, OwnedInv
    <2>5. v \in 1..Len(hist[a])
        BY <2>4, HorizonType, HistoryFacts
    <2>6. ~Holds([agent |-> a, uid |-> hist[a][v].uid])
        BY <1>9, <2>3, <2>4, Zenon DEF Holds
    <2> QED
        BY <1>5, <2>4, <2>5, <2>6, DeletedDeparts, ZenonT(30)
<1> QED
    BY <1>1, <1>2, <1>3, <1>7, <1>8, <1>9, ZenonT(30) DEF Effect, SecretEffect

\* Pods that last after a step are of the Deployment's template.
LEMMA LastingNext ==
    ASSUME NEW a \in Agents, Lasting(a)'
    PROVE  /\ objs'[DeploymentKey(a)] # Nil /\ pods'[a] # Nil
           /\ pods'[a].template = Template(objs'[DeploymentKey(a)].data)
           /\ pods'[a].template.restartedAt = objs'[DeploymentKey(a)].data.restartedAt
<1>1. /\ objs'[DeploymentKey(a)] # Nil /\ pods'[a] # Nil
      /\ pods'[a].template = Template(objs'[DeploymentKey(a)].data)
    BY Zenon DEF Lasting, Outdated
<1>2. \A d : Template(d).restartedAt = d.restartedAt
    BY Zenon DEF Template
<1> QED
    BY <1>1, <1>2, Zenon

\* A restart that is ahead stays ahead until it takes place.
LEMMA RestartComes ==
    ASSUME Inv, NamesInv, ProgressInv, RotationInv, [Next]_vars, UNCHANGED pods,
           NEW a \in Agents, NEW s, RestartAhead(a), ~Excusable(a, s)',
           pods[a].template.restartedAt \in Nat, pods[a].template.restartedAt <= stamp,
           pods[a].since \in Nat, pods[a].since <= stamp
    PROVE  Provided(a, s)'
<1> DEFINE k == DeploymentKey(a)
<1>1. Effect
    BY NextEffect, Zenon
<1>2. /\ ~Spend("faults") /\ ~Spend("crashes")
      /\ ~Interrupted' /\ ~Blurred' /\ ~Meddled' /\ ~Departed(a)'
    BY <1>1, Undisturbed, Zenon DEF Excusable
<1>3. run.agent = a /\ run.secretUpdated /\ pc \in LateSteps /\ pc # "addFinalizer"
    BY Zenon DEF RestartAhead, RotationInv
<1>4. pc # "idle" /\ pc \in ExistSteps
    BY <1>3, Zenon DEF LateSteps, ExistSteps
<1>5. CASE UNCHANGED <<pc, run>>
    BY <1>3, <1>5, ZenonT(30) DEF Provided, RestartAhead
<1>6. CASE GoesOn
    <2>1. CASE pc' # "addFinalizer"
        BY <1>3, <1>6, <2>1, Zenon DEF GoesOn, Provided, RestartAhead
    <2>2. CASE pc' = "addFinalizer"
        <3>1. /\ objs'[k].data.restartedAt = stamp' /\ stamp' \in restartSeconds
            BY <1>3, <1>6, <2>2, Zenon DEF GoesOn, Restarted
        <3>2. stamp' = stamp + 1 /\ stamp \in Nat
            BY <1>1, <1>2, <3>1, ClockRuns, ZenonT(30)
        <3>3. pods[a].template.restartedAt # stamp'
            BY <3>2
        <3>4. ~Lasting(a)'
            BY <3>1, <3>3, LastingNext, ZenonT(30)
        <3>5. pods'[a].since < stamp'
            BY <3>2
        <3> QED
            BY <3>4, <3>5, Zenon DEF Provided
    <2> QED
        BY <2>1, <2>2, Zenon
<1>7. CASE GivesUp
    <2>1. pc = "restartPods" /\ objs[k] = Nil
        BY <1>2, <1>3, <1>7, ZenonT(30) DEF GivesUp
    <2>2. k \in Wanted(a, instance.spec) /\ k[1] = "Deployment" /\ Past(k, pc, run)
        <3>1. k \in Wanted(a, instance.spec)
            BY Zenon DEF Wanted
        <3>2. Place("restartPods") = 12 /\ KindPlace("Deployment") = 3
            BY DEF Place, KindPlace, Namespaces
        <3>3. k[1] = "Deployment"
            BY KeyKinds, Zenon
        <3>4. KindPlace(k[1]) < Place(pc)
            BY <2>1, <3>2, <3>3
        <3> QED
            BY <3>1, <3>3, <3>4, ZenonT(30) DEF Past
    <2>3. Excused(k, a)
        BY <1>3, <1>4, <2>1, <2>2, ZenonT(30) DEF ProgressInv, Settled, InPlace
    <2>4. Meddled \/ Departed(a)
        BY <2>2, <2>3, ZenonT(30) DEF Excused, Keepers, AgentKinds
    <2>5. Excusable(a, s)
        BY <2>4, Zenon DEF Excusable
    <2> QED
        BY <2>5, ExcusesStay, Zenon
<1> QED
    BY <1>1, <1>4, <1>5, <1>6, <1>7, ZenonT(30) DEF Effect, WorkerEffect

\* Once the pods are due to be replaced, or the annotation is gone, only a
\* rollout changes that.
LEMMA ReplacementComes ==
    ASSUME Inv, NamesInv, RotationInv, [Next]_vars, UNCHANGED pods,
           NEW a \in Agents, NEW s, ~Excusable(a, s)',
           pods[a].since < stamp, Lasting(a) => objs[DeploymentKey(a)].data.restartedAt = 0,
           pods[a].template.restartedAt \in Nat, pods[a].template.restartedAt <= stamp,
           pods[a].since \in Nat
    PROVE  Provided(a, s)'
<1> DEFINE k == DeploymentKey(a)
<1>1. Effect
    BY NextEffect, Zenon
<1>2. ~Spend("tampers") /\ ~Blurred'
    BY <1>1, Undisturbed, ZenonT(30) DEF Excusable
<1>3. pods'[a].since < stamp'
    <2>1. stamp \in Nat /\ stamp' \in Nat /\ stamp <= stamp'
        BY <1>1, ClockRuns, Zenon
    <2> QED
        BY <2>1
<1>4. ASSUME Lasting(a)' PROVE objs'[k].data.restartedAt = 0
    <2>1. /\ objs'[k] # Nil /\ pods[a] # Nil
          /\ pods[a].template = Template(objs'[k].data)
          /\ pods[a].template.restartedAt = objs'[k].data.restartedAt
        BY <1>4, LastingNext, Zenon
    <2>2. CASE objs'[k] = objs[k]
        BY <2>1, <2>2, ZenonT(30) DEF Lasting, Outdated
    <2>3. CASE Restarted(a)
        <3>1. stamp' = stamp + 1 /\ stamp \in Nat /\ objs'[k].data.restartedAt = stamp'
            BY <1>1, <1>2, <2>3, ClockRuns, ZenonT(30) DEF Restarted
        <3> QED
            BY <2>1, <3>1
    <2> QED
        BY <1>1, <1>2, <2>1, <2>2, <2>3, ZenonT(30) DEF Effect, DeploymentEffect
<1> QED
    BY <1>3, <1>4, ZenonT(30) DEF Provided

LEMMA PodsNext ==
    ASSUME Inv, NamesInv, ProgressInv, RotationInv, PodsInv, [PodNext]_podVars
    PROVE  PodsInv'
<1>1. CASE [Next]_vars /\ UNCHANGED pods
    <2>1. SUFFICES ASSUME NEW a \in Agents, pods[a] # Nil
                   PROVE  /\ pods[a].template.secretName \in TokenSecrets
                          /\ pods[a].template.restartedAt \in Nat
                          /\ pods[a].template.restartedAt <= stamp'
                          /\ pods[a].since \in Nat /\ pods[a].since <= stamp'
                          /\ Provided(a, pods[a].template.secretName)'
        BY <1>1, Zenon DEF PodsInv
    <2>2. PICK s \in TokenSecrets : s = pods[a].template.secretName
        BY <2>1, Zenon DEF PodsInv
    <2>3. /\ pods[a].template.restartedAt \in Nat
          /\ pods[a].template.restartedAt <= stamp
          /\ pods[a].since \in Nat /\ pods[a].since <= stamp
          /\ Provided(a, s)
        BY <2>1, <2>2, ZenonT(30) DEF PodsInv
    <2>4. pods[a].template.restartedAt <= stamp' /\ pods[a].since <= stamp'
        <3>1. stamp \in Nat /\ stamp' \in Nat /\ stamp <= stamp'
            BY <1>1, NextEffect, ClockRuns, ZenonT(30)
        <3> QED
            BY <2>3, <3>1
    <2>5. Provided(a, s)'
        <3>1. CASE Excusable(a, s)'
            BY <3>1, Zenon DEF Provided
        <3>2. CASE ~Excusable(a, s)'
            <4>1. CASE Excusable(a, s)
                BY <1>1, <3>2, <4>1, ExcusesStay, ZenonT(30)
            <4>2. CASE Has(SecretKey(s), pods[a].token)
                <5>1. PICK token : token = pods[a].token
                    BY Zenon
                <5>2. CASE Has(SecretKey(s), token)'
                    BY <1>1, <5>1, <5>2, ZenonT(30) DEF Provided
                <5>3. CASE ~Has(SecretKey(s), token)'
                    BY <1>1, <3>2, <4>2, <5>1, <5>3, ReplacedSecret, ZenonT(30) DEF Provided
                <5> QED
                    BY <5>2, <5>3, Zenon
            <4>3. CASE RestartAhead(a)
                BY <1>1, <2>3, <3>2, <4>3, RestartComes, ZenonT(30)
            <4>4. CASE /\ pods[a].since < stamp
                       /\ Lasting(a) => objs[DeploymentKey(a)].data.restartedAt = 0
                BY <1>1, <2>3, <3>2, <4>4, ReplacementComes, ZenonT(30)
            <4> QED
                BY <2>3, <4>1, <4>2, <4>3, <4>4, ZenonT(30) DEF Provided
        <3> QED
            BY <3>1, <3>2, Zenon
    <2> QED
        BY <1>1, <2>2, <2>3, <2>4, <2>5, ZenonT(30)
<1>2. ASSUME NEW b \in Agents, Rollout(b) \/ Terminate(b) PROVE PodsInv'
    <2>1. UNCHANGED vars
        BY <1>2, Zenon DEF Rollout, Terminate
    <2>2. UNCHANGED <<hist, objs, pc, run, stamp, budget>>
        BY <2>1, Zenon DEF vars
    <2>3. DOMAIN pods' = Agents
        BY <1>2, Zenon DEF PodsInv, Rollout, Terminate
    <2>4. SUFFICES ASSUME NEW a \in Agents, pods'[a] # Nil
                   PROVE  /\ pods'[a].template.secretName \in TokenSecrets
                          /\ pods'[a].template.restartedAt \in Nat
                          /\ pods'[a].template.restartedAt <= stamp
                          /\ pods'[a].since \in Nat /\ pods'[a].since <= stamp
                          /\ Provided(a, pods[a].template.secretName)'
        BY <2>2, <2>3, ZenonT(30) DEF PodsInv
    <2>5. CASE pods'[a] = pods[a]
        <3>1. Lasting(a)' = Lasting(a)
            BY <2>2, <2>5, ZenonT(30) DEF Lasting, Outdated
        <3>2. Provided(a, pods[a].template.secretName)'
            BY <2>2, <2>4, <2>5, <3>1, ZenonT(30) DEF PodsInv, Provided, Excusable, Interrupted,
               Blurred, Meddled, SharedSecret, Manages, Departed, Live, Current, Version,
               Has, RestartAhead
        <3> QED
            BY <2>4, <2>5, <3>2, ZenonT(30) DEF PodsInv
    <2>6. CASE pods'[a] # pods[a]
        <3> DEFINE k == DeploymentKey(a)
                   d == objs[k].data
        <3>1. /\ objs[k] # Nil /\ objs[SecretKey(d.secretName)] # Nil
              /\ pods'[a] = [template |-> Template(d),
                             token |-> objs[SecretKey(d.secretName)].data,
                             since |-> stamp]
            <4>1. b = a
                BY <1>2, <2>6, Zenon DEF PodsInv, Rollout, Terminate
            <4>2. Rollout(a)
                BY <1>2, <2>4, <4>1, ZenonT(30) DEF PodsInv, Terminate
            <4> QED
                BY <4>2, Zenon DEF PodsInv, Rollout, Outdated, Mountable
        <3>2. d \in DeploymentData /\ d.restartedAt <= stamp
            <4>1. objs[k] \in [owner: Owners, data: DeploymentData]
                BY <3>1, AgentKeys, ZenonT(30) DEF Inv, BaseInv, TypeOK, Objects
            <4> QED
                BY <3>1, <4>1, ZenonT(30) DEF RotationInv
        <3>3. d.secretName \in TokenSecrets /\ d.restartedAt \in Nat
            BY <3>2, Zenon DEF DeploymentData
        <3> HIDE DEF d
        <3>4. /\ pods'[a].template.secretName = d.secretName
              /\ pods'[a].template.restartedAt = d.restartedAt
              /\ pods'[a].token = objs[SecretKey(d.secretName)].data
            <4>1. /\ Template(d).secretName = d.secretName
                  /\ Template(d).restartedAt = d.restartedAt
                BY Zenon DEF Template
            <4>2. /\ pods'[a].template = Template(d)
                  /\ pods'[a].token = objs[SecretKey(d.secretName)].data
                BY <3>1
            <4> QED
                BY <4>1, <4>2, Zenon
        <3>5. Has(SecretKey(pods[a].template.secretName), pods[a].token)'
            BY <2>2, <3>1, <3>4, Zenon DEF Has, SecretKey
        <3>6. pods'[a].since = stamp /\ stamp \in Nat /\ stamp <= stamp
            <4>1. pods'[a].since = stamp
                BY <3>1
            <4>2. stamp \in Nat
                BY Zenon DEF Inv, BaseInv, TypeOK
            <4> QED
                BY <4>1, <4>2
        <3> QED
            BY <3>2, <3>3, <3>4, <3>5, <3>6, ZenonT(30) DEF Provided
    <2> QED
        BY <2>5, <2>6, ZenonT(30)
<1>3. CASE UNCHANGED podVars
    BY <1>1, <1>3, Zenon DEF podVars
<1> QED
    BY <1>1, <1>2, <1>3, ZenonT(30) DEF PodNext

LEMMA RotationInit == PodInit => RotationInv /\ PodsInv
<1> SUFFICES ASSUME PodInit PROVE RotationInv /\ PodsInv
    BY Zenon
<1>1. /\ budget = Limits /\ stamp = 0 /\ pc = "idle" /\ run = NoRun
      /\ \A k \in Keys : objs[k] = Nil
      /\ pods = [a \in Agents |-> Nil]
    BY Zenon DEF PodInit, Init
<1>2. \A d \in {"faults", "crashes"} : budget[d] <= Limits[d]
    BY <1>1, LimitsAssumption DEF Disturbances
<1>3. stamp <= Seconds
    BY <1>1, SecondsAssumption
<1>4. ~run.secretUpdated
    BY <1>1, Zenon DEF NoRun
<1>5. RotationInv
    BY <1>1, <1>2, <1>3, <1>4, AgentKeys, SharedKeys, ZenonT(30) DEF RotationInv
<1> QED
    BY <1>1, <1>5, Zenon DEF PodsInv

LEMMA PodsInvImplies == PodsInv => RestartNotMissed
<1> SUFFICES ASSUME PodsInv, NEW a \in Agents, Lasting(a),
                    ~Has(SecretKey(objs[DeploymentKey(a)].data.secretName), pods[a].token)
             PROVE  LET s == objs[DeploymentKey(a)].data.secretName
                    IN  \/ RestartAhead(a) \/ RestartUndone(a)
                        \/ Interrupted \/ Blurred \/ Meddled
                        \/ SharedSecret(a, s) \/ Departed(a)
    BY Zenon DEF RestartNotMissed
<1> DEFINE d == objs[DeploymentKey(a)].data
<1>1. pods[a] # Nil /\ pods[a].template = Template(d)
    BY Zenon DEF Lasting, Outdated
<1>2. \A e : Template(e).secretName = e.secretName
    BY Zenon DEF Template
<1>3. Provided(a, d.secretName)
    BY <1>1, <1>2, Zenon DEF PodsInv
<1> QED
    BY <1>3, Zenon DEF Provided, Excusable, RestartUndone

\* Without the pods in view this is OcmAgentController.
LEMMA PodsHide == [PodNext]_podVars => [Next]_vars
BY Zenon DEF PodNext, podVars, Rollout, Terminate

\* Pods that nothing is going to replace run with the token in their secret,
\* unless the restart is still ahead in the reconcile that updated it or one
\* of the listed events came in between: a failed call or restart of the
\* operator, a change of the Deployment, a restart in the same second, another
\* OcmAgent on the same secret, meddling, a deletion.
THEOREM RestartsReachPods == PodInit /\ [][PodNext]_podVars => []RestartNotMissed
<1>1. PodInit => Inv /\ NamesInv /\ ProgressInv /\ RotationInv /\ PodsInv
    BY InitInv, ProgressInit, RotationInit, Zenon DEF PodInit
<1>2. /\ Inv /\ NamesInv /\ ProgressInv /\ RotationInv /\ PodsInv
      /\ [PodNext]_podVars
      => Inv' /\ NamesInv' /\ ProgressInv' /\ RotationInv' /\ PodsInv'
    BY PodsHide, NextInv, ProgressNext, RotationNext, PodsNext, ZenonT(30)
<1> QED
    BY <1>1, <1>2, PodsInvImplies, PTL

=============================================================================
