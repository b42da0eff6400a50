------------------------- MODULE OcmAgentStepProofs -------------------------
(***************************************************************************)
(* Every step of OcmAgentController keeps the inductive invariant: the     *)
(* steps of the OCM Agent handler that ensure or delete one object each,   *)
(* those that read or only decide, the writes of an OcmAgent, and what     *)
(* the rest of the cluster does.                                           *)
(***************************************************************************)
EXTENDS OcmAgentInvariant

-----------------------------------------------------------------------------
(* What a step of the worker may do so that the invariants survive it.     *)

\* The steps of a removal after that of the CAMO ConfigMap.
AfterCAMO ==
    {"deleteNetworkPolicy", "deleteServiceMonitor", "deletePDB", "deleteSecret",
     "removeFinalizer"}

CAMOInv ==
    /\ \A a \in Agents : \A v \in seen[a]..Len(hist[a]) :
           hist[a][v] # Nil /\ ~hist[a][v].deleting => Guards(a)
    /\ pc \in ExistSteps => Guards(run.agent)
    /\ pc \in AfterCAMO => objs[CAMOKey] = Nil
    /\ CAMOConfigMapGuarded

\* The owner that a step of the worker leaves on object k.
OwnerOK(k, o) ==
    \/ o.owner \in {Nil, ownerRef}
    \/ objs[k] # Nil /\ o.owner = objs[k].owner

\* What a step on object k may do so that the invariants survive it.
Legal(k, o, next, local) ==
    /\ k \in Keys /\ o \in Objects(k) \cup {Nil}
    /\ o # Nil => OwnerOK(k, o)
    /\ next \in ExistSteps \cup AbsentSteps
    /\ local \in Runs /\ local.agent = run.agent /\ local.version = run.version
    /\ RunOK(next, local)
    /\ next \in ExistSteps => pc \in ExistSteps
    /\ k = CAMOKey /\ o # Nil => pc \in ExistSteps
    /\ next \in AfterCAMO => IF k = CAMOKey THEN o = Nil ELSE pc \in AfterCAMO

ObjectStep ==
    /\ pc # "idle"
    /\ \E t, k, o, next, local :
           /\ t \in Nat /\ Legal(k, o, next, local)
           /\ EnsureStepAt(t, k, o, next, local)

\* A step of the worker that leaves the OcmAgents and the objects alone.
QuietStep ==
    /\ UNCHANGED <<hist, seen, objs>>
    /\ TypeOK'
    /\ pc' # "idle" =>
           /\ pc \in ExistSteps /\ pc' \in ExistSteps
           /\ run'.agent = run.agent /\ run'.version = run.version
           /\ RunOK(pc', run')

-----------------------------------------------------------------------------
(* Steps of the worker on objects.                                         *)

\* No other key is that of the CAMO ConfigMap.
LEMMA CAMOKeyUnique ==
    /\ TrustedCaKey # CAMOKey
    /\ \A s : SecretKey(s) # CAMOKey
    /\ \A a : /\ DeploymentKey(a) # CAMOKey /\ ConfigMapKey(a) # CAMOKey
              /\ PlainConfigMapKey(a) # CAMOKey /\ ServiceKey(a) # CAMOKey
              /\ MetricsServiceKey(a) # CAMOKey /\ PDBKey(a) # CAMOKey
              /\ ServiceMonitorKey(a) # CAMOKey
              /\ \A n \in Namespaces : NetworkPolicyKey(a, n) # CAMOKey
BY Zenon DEF CAMOKey, TrustedCaKey, SecretKey, DeploymentKey, ConfigMapKey,
       PlainConfigMapKey, ServiceKey, MetricsServiceKey, ServiceMonitorKey,
       PDBKey, NetworkPolicyKey, Namespaces

LEMMA ControllerType ==
    ASSUME TypeOK, NEW k \in Keys, NEW o \in Objects(k) \cup {Nil}
    PROVE  Controller(o) \subseteq Agents
BY Zenon DEF Controller, Objects, Owners

LEMMA PutType ==
    ASSUME TypeOK, NEW k \in Keys, NEW o \in Objects(k) \cup {Nil},
           NEW also \in SUBSET Agents, Put(k, o, also)
    PROVE  /\ DOMAIN objs' = Keys
           /\ \A j \in Keys : objs'[j] \in Objects(j) \cup {Nil}
           /\ objs'[k] = o
           /\ \A j \in Keys : j # k => objs'[j] = objs[j]
           /\ queue' \subseteq Agents
<1>1. /\ DOMAIN objs' = Keys
      /\ \A j \in Keys : objs'[j] = IF j = k THEN o ELSE objs[j]
    BY Zenon DEF Put, TypeOK
<1>2. Controller(objs[k]) \subseteq Agents /\ Controller(o) \subseteq Agents
    BY ControllerType, Zenon DEF TypeOK
<1>3. queue' \subseteq Agents
    BY <1>2, Zenon DEF Put, TypeOK
<1> QED
    BY <1>1, <1>3, ZenonT(30) DEF TypeOK

\* What a step on an object changes, whether it fails or not.
LEMMA EnsureStepEffect ==
    ASSUME Inv, pc # "idle", NEW t \in Nat, NEW k, NEW o, NEW next, NEW local,
           Legal(k, o, next, local), EnsureStepAt(t, k, o, next, local)
    PROVE  /\ TypeOK'
           /\ UNCHANGED <<hist, seen>>
           /\ \/ pc' = next /\ run' = local
              \/ pc' = "idle" /\ run' = NoRun
           /\ pc' = next => objs'[k] = o
           /\ objs'[k] \in {o, objs[k]}
           /\ \A j \in Keys : j # k => objs'[j] = objs[j]
<1>1. run.agent \in Agents
    BY Zenon DEF Inv, BaseInv, RunOK
<1>2. k \in Keys /\ o \in Objects(k) \cup {Nil} /\ objs[k] \in Objects(k) \cup {Nil}
    BY Zenon DEF Legal, Inv, BaseInv, TypeOK
<1>3. /\ \/ pc' = next /\ run' = local
         \/ pc' = "idle" /\ run' = NoRun
      /\ run' \in Runs /\ pc' \in {"idle"} \cup ExistSteps \cup AbsentSteps
    BY NoRunType, Zenon DEF EnsureStepAt, Goto, Return, Legal
<1>4. budget' \in [Disturbances -> Nat]
    <2>1. "faults" \in Disturbances
        BY Zenon DEF Disturbances
    <2> QED
        BY <2>1, SpendType, Zenon DEF EnsureStepAt, Inv, BaseInv, TypeOK
<1>5. \/ \E also \in SUBSET Agents : Put(k, o, also)
      \/ pc' = "idle" /\ \E also \in SUBSET Agents : Put(k, objs[k], also)
    <2>1. {} \in SUBSET Agents /\ {run.agent} \in SUBSET Agents
        BY <1>1, Zenon
    <2> QED
        BY <2>1, Zenon DEF EnsureStepAt, Goto, Return
<1>6. /\ DOMAIN objs' = Keys
      /\ \A j \in Keys : objs'[j] \in Objects(j) \cup {Nil}
      /\ queue' \subseteq Agents
      /\ objs'[k] \in {o, objs[k]}
      /\ pc' # "idle" => objs'[k] = o
      /\ \A j \in Keys : j # k => objs'[j] = objs[j]
    BY <1>2, <1>5, PutType, Zenon DEF Inv, BaseInv
<1>7. UNCHANGED <<hist, seen, pullSecret, proxy, gauges>> /\ stamp' = t
    BY Zenon DEF EnsureStepAt
<1>8. TypeOK'
    BY <1>3, <1>4, <1>6, <1>7, Zenon DEF TypeOK, Inv, BaseInv, gauges
<1>9. next # "idle"
    BY Zenon DEF Legal, ExistSteps, AbsentSteps
<1> QED
    BY <1>3, <1>6, <1>7, <1>8, <1>9, Zenon

LEMMA ObjectStepInv ==
    ASSUME Inv, ObjectStep
    PROVE  Inv'
<1>1. PICK t, k, o, next, local :
          /\ t \in Nat /\ Legal(k, o, next, local)
          /\ EnsureStepAt(t, k, o, next, local)
    BY Zenon DEF ObjectStep
<1>2. /\ TypeOK'
      /\ UNCHANGED <<hist, seen>>
      /\ \/ pc' = next /\ run' = local
         \/ pc' = "idle" /\ run' = NoRun
      /\ objs'[k] \in {o, objs[k]}
      /\ \A j \in Keys : j # k => objs'[j] = objs[j]
    BY <1>1, EnsureStepEffect, Zenon DEF ObjectStep
<1>3. HistoryInv'
    BY <1>2, Zenon DEF Inv, BaseInv, HistoryInv
<1>4. RunOK(pc, run)'
    BY <1>1, <1>2, Zenon DEF Legal, RunOK
<1>5. \A a \in Agents : Horizon(a) \in Nat /\ Horizon(a)' \in Nat
                          /\ Horizon(a) <= Horizon(a)'
    <2> TAKE a \in Agents
    <2>1. seen[a] \in Nat /\ seen'[a] = seen[a]
        BY <1>2, Zenon DEF Inv, BaseInv, TypeOK
    <2>2. run.agent = a => run.version \in 1..seen[a]
        BY Zenon DEF ObjectStep, Inv, BaseInv, RunOK
    <2>3. pc' # "idle" => run'.agent = run.agent /\ run'.version = run.version
        BY <1>1, <1>2, Zenon DEF Legal
    <2> QED
        BY <2>1, <2>2, <2>3 DEF Horizon, ObjectStep
<1>6. OwnedInv'
    <2> SUFFICES ASSUME NEW j \in Keys, objs'[j] # Nil, objs'[j].owner # Nil
                 PROVE  \E v \in 1..Horizon(objs[j].owner.agent)' :
                            /\ hist'[objs'[j].owner.agent][v] # Nil
                            /\ hist'[objs'[j].owner.agent][v].uid = objs'[j].owner.uid
        BY Zenon DEF OwnedInv
    <2>1. CASE objs[j] # Nil /\ objs'[j].owner = objs[j].owner
        <3>1. objs[j].owner.agent \in Agents
            BY <2>1, Zenon DEF Inv, BaseInv, TypeOK, Objects, Owners
        <3>2. PICK v \in 1..Horizon(objs[j].owner.agent) :
                  /\ hist[objs[j].owner.agent][v] # Nil
                  /\ hist[objs[j].owner.agent][v].uid = objs[j].owner.uid
            BY <2>1, Zenon DEF Inv, OwnedInv
        <3>3. Horizon(objs[j].owner.agent)' =
                  IF pc' # "idle" /\ run'.agent = objs[j].owner.agent
                  THEN run'.version ELSE seen'[objs[j].owner.agent]
            BY <2>1, ZenonT(30) DEF Horizon
        <3>4. v \in 1..Horizon(objs[j].owner.agent)'
            BY <1>5, <2>1, <3>1, <3>2, <3>3 DEF Horizon
        <3> QED
            BY <1>2, <2>1, <3>2, <3>4, Zenon
    <2>2. CASE j = k /\ objs'[j] = o /\ o.owner = ownerRef
        <3>1. /\ run.agent \in Agents /\ run.version \in 1..seen[run.agent]
              /\ hist[run.agent][run.version] # Nil
              /\ seen[run.agent] \in Nat
            BY Zenon DEF Inv, BaseInv, RunOK, TypeOK, ObjectStep
        <3>2. /\ objs'[j].owner.agent = run.agent
              /\ objs'[j].owner.uid = hist[run.agent][run.version].uid
            BY <2>2 DEF ownerRef, instance
        <3>3. Horizon(objs[j].owner.agent)' =
                  IF pc' # "idle" /\ run'.agent = run.agent
                  THEN run'.version ELSE seen'[run.agent]
            BY <3>2, Zenon DEF Horizon
        <3>4. pc' # "idle" => run'.version = run.version
            BY <1>1, <1>2, Zenon DEF Legal
        <3>5. run.version \in 1..Horizon(objs[j].owner.agent)'
            BY <1>2, <3>1, <3>3, <3>4
        <3> QED
            BY <1>2, <3>1, <3>2, <3>5, Zenon
    <2> QED
        BY <1>1, <1>2, <2>1, <2>2, Zenon DEF Legal, OwnerOK
<1> QED
    BY <1>2, <1>3, <1>4, <1>6, Zenon DEF Inv, BaseInv

LEMMA QuietStepInv ==
    ASSUME Inv, pc # "idle", QuietStep
    PROVE  Inv'
<1>1. UNCHANGED <<hist, seen, objs>> /\ TypeOK'
    BY Zenon DEF QuietStep
<1>2. HistoryInv'
    BY <1>1, Zenon DEF Inv, BaseInv, HistoryInv
<1>3. RunOK(pc, run)'
    BY <1>1, Zenon DEF QuietStep, RunOK
<1>4. \A a \in Agents : Horizon(a) \in Nat /\ Horizon(a)' \in Nat
                          /\ Horizon(a) <= Horizon(a)'
    <2> TAKE a \in Agents
    <2>1. seen[a] \in Nat /\ seen'[a] = seen[a]
        BY <1>1, Zenon DEF Inv, BaseInv, TypeOK
    <2>2. run.agent = a => run.version \in 1..seen[a]
        BY Zenon DEF Inv, BaseInv, RunOK
    <2>3. pc' # "idle" => run'.agent = run.agent /\ run'.version = run.version
        BY Zenon DEF QuietStep
    <2> QED
        BY <2>1, <2>2, <2>3 DEF Horizon
<1>5. OwnedInv'
    <2> SUFFICES ASSUME NEW j \in Keys, objs[j] # Nil, objs[j].owner # Nil
                 PROVE  \E v \in 1..Horizon(objs[j].owner.agent)' :
                            /\ hist[objs[j].owner.agent][v] # Nil
                            /\ hist[objs[j].owner.agent][v].uid = objs[j].owner.uid
        BY <1>1, Zenon DEF OwnedInv
    <2>1. objs[j].owner.agent \in Agents
        BY Zenon DEF Inv, BaseInv, TypeOK, Objects, Owners
    <2>2. \A a \in Agents : 1..Horizon(a) \subseteq 1..Horizon(a)'
        BY <1>4
    <2>3. PICK v \in 1..Horizon(objs[j].owner.agent) :
              /\ hist[objs[j].owner.agent][v] # Nil
              /\ hist[objs[j].owner.agent][v].uid = objs[j].owner.uid
        BY Zenon DEF Inv, OwnedInv
    <2>4. objs'[j].owner.agent = objs[j].owner.agent
        BY <1>1, Zenon
    <2>5. /\ Horizon(objs[j].owner.agent) \in Nat
          /\ Horizon(objs[j].owner.agent)' \in Nat
          /\ Horizon(objs[j].owner.agent) <= Horizon(objs[j].owner.agent)'
        BY <1>4, <2>1, <2>4, ZenonT(30) DEF Horizon
    <2>6. v \in 1..Horizon(objs[j].owner.agent)'
        BY <2>3, <2>5
    <2> QED
        BY <2>3, <2>6, Zenon
<1> QED
    BY <1>1, <1>2, <1>3, <1>5, Zenon DEF Inv, BaseInv

-----------------------------------------------------------------------------
(* Every step of the handler is an object step or a quiet one.             *)

\* A step that passes local state on unchanged in what RunOK looks at.
LEMMA NextRunOK ==
    ASSUME Inv, pc # "idle", NEW next, NEW local \in Runs,
           local.agent = run.agent, local.version = run.version,
           \/ pc \in ExistSteps /\ next \in ExistSteps
           \/ pc \in AbsentSteps /\ next \in AbsentSteps,
           next = "ensureSecret" => local.token \in Tokens,
           next = "ensureDeployment" => local.proxy \in Proxies,
           next \in {"ensureNetworkPolicy", "deleteNetworkPolicy"}
               => local.namespaces # <<>>
    PROVE  RunOK(next, local)
<1>1. ExistSteps \cap AbsentSteps = {}
    BY Zenon DEF ExistSteps, AbsentSteps
<1> QED
    BY <1>1, Zenon DEF Inv, BaseInv, RunOK

LEMMA EnsuredLegal ==
    ASSUME Inv, pc # "idle", NEW k \in Keys, NEW ref \in {Nil, ownerRef}, NEW o,
           EnsuredOK(DataOf(k), objs[k], ref, o)
    PROVE  o \in Objects(k) /\ OwnerOK(k, o)
BY Zenon DEF EnsuredOK, Objects, OwnerOK

LEMMA SecretStep ==
    ASSUME Inv, ensureAccessTokenSecret
    PROVE  ObjectStep
<1> DEFINE k == SecretKey(instance.spec.tokenSecret)
           o == EnsuredSecret(objs[k], ownerRef, run.token)
           local == [run EXCEPT !.secretUpdated = (o # objs[k])]
<1>1. pc = "ensureSecret" /\ EnsureStepAt(stamp, k, o, "buildEnvVars", local)
    BY Zenon DEF ensureAccessTokenSecret, EnsureStep
<1>2. /\ pc \in ExistSteps /\ "buildEnvVars" \in ExistSteps
      /\ "buildEnvVars" \notin AfterCAMO
    BY <1>1, Zenon DEF ExistSteps, AfterCAMO
<1>3. k \in Keys /\ run.token \in DataOf(k)
    BY <1>1, WorkerFacts, SharedKeys, Zenon DEF SpecType, Inv, BaseInv, RunOK
<1>4. local \in Runs /\ local.agent = run.agent /\ local.version = run.version
    BY <1>1, WorkerFacts, ZenonT(30) DEF Runs
<1> HIDE DEF k, local
<1>5. EnsuredOK(DataOf(k), objs[k], ownerRef, o)
    BY <1>1, <1>3, WorkerFacts, EnsuredShapes, ZenonT(30) DEF Objects
<1> HIDE DEF o
<1>6. o \in Objects(k) /\ OwnerOK(k, o)
    BY <1>1, <1>3, <1>5, EnsuredLegal, Zenon
<1>7. RunOK("buildEnvVars", local)
    BY <1>1, <1>2, <1>4, NextRunOK
<1>8. k # CAMOKey
    BY CAMOKeyUnique, Zenon DEF k
<1>9. Legal(k, o, "buildEnvVars", local)
    BY <1>2, <1>3, <1>4, <1>6, <1>7, <1>8, Zenon DEF Legal
<1> QED
    BY <1>1, <1>9, WorkerFacts, Zenon DEF ObjectStep

\* The common shape: an object of the agent's own in a step that hands on run
\* with at most other namespaces.
LEMMA PlainStep ==
    ASSUME Inv, pc # "idle", NEW t \in Nat, NEW k \in Keys, NEW o,
           o \in Objects(k) \cup {Nil},
           o # Nil => OwnerOK(k, o),
           NEW next, NEW local \in Runs,
           local.agent = run.agent, local.version = run.version,
           \/ pc \in ExistSteps /\ next \in ExistSteps
           \/ /\ pc \in AbsentSteps /\ next \in AbsentSteps /\ o = Nil
              /\ next \in AfterCAMO => k = CAMOKey \/ pc \in AfterCAMO,
           next \notin {"ensureSecret", "ensureDeployment"},
           next \in {"ensureNetworkPolicy", "deleteNetworkPolicy"}
               => local.namespaces # <<>>,
           EnsureStepAt(t, k, o, next, local)
    PROVE  ObjectStep
<1>1. RunOK(next, local)
    BY NextRunOK, Zenon
<1>2. /\ ExistSteps \cap AbsentSteps = {}
      /\ AfterCAMO \cap ExistSteps = {}
    BY ZenonT(30) DEF ExistSteps, AbsentSteps, AfterCAMO
<1>3. Legal(k, o, next, local)
    BY <1>1, <1>2, Zenon DEF Legal
<1> QED
    BY <1>3, Zenon DEF ObjectStep

LEMMA DeploymentStep ==
    ASSUME Inv, ensureDeployment
    PROVE  ObjectStep
<1> DEFINE k == DeploymentKey(run.agent)
           e == buildOCMAgentDeployment(instance.spec, run.proxy)
           o == EnsuredDeployment(objs[k], ownerRef, e)
<1>1. pc = "ensureDeployment" /\ EnsureStepAt(stamp, k, o, "ensureConfigMap", run)
    BY Zenon DEF ensureDeployment, EnsureStep
<1>2. k \in Keys /\ Objects(k) = [owner: Owners, data: DeploymentData]
    BY <1>1, WorkerFacts, AgentKeys, ZenonT(30) DEF Objects
<1>3. run.proxy \in Proxies
    BY <1>1, Zenon DEF Inv, BaseInv, RunOK
<1>4. e \in DeploymentData
    BY <1>1, <1>3, WorkerFacts, Zenon DEF buildOCMAgentDeployment, DeploymentData, SpecType
<1>5. o \in Objects(k) /\ OwnerOK(k, o)
    <2>1. CASE objs[k] = Nil
        BY <1>1, <1>2, <1>4, <2>1, WorkerFacts, Zenon DEF OwnerOK, EnsuredDeployment
    <2>2. CASE objs[k] # Nil
        <3>1. objs[k] \in [owner: Owners, data: DeploymentData]
            BY <1>1, <1>2, <2>2, WorkerFacts, ZenonT(30)
        <3>2. [e EXCEPT !.labels = objs[k].data.labels] \in DeploymentData
            BY <1>4, <3>1, Zenon DEF DeploymentData
        <3> HIDE DEF e
        <3> QED
            BY <1>2, <2>2, <3>1, <3>2, Zenon DEF OwnerOK, EnsuredDeployment
    <2> QED
        BY <2>1, <2>2, Zenon
<1>6. pc \in ExistSteps /\ "ensureConfigMap" \in ExistSteps
    BY <1>1, Zenon DEF ExistSteps
<1> HIDE DEF k, o
<1> QED
    BY <1>1, <1>2, <1>5, <1>6, PlainStep, WorkerFacts, ZenonT(30)

LEMMA ConfigMapStep ==
    ASSUME Inv, ensureAllConfigMaps
    PROVE  ObjectStep
<1> DEFINE o(k, ref, data) == EnsuredConfigMap(k, objs[k], ref, data)
<1>1. ASSUME pc # "idle", NEW k \in Keys, NEW ref \in {Nil, ownerRef},
             NEW d \in DataOf(k)
      PROVE  o(k, ref, d) \in Objects(k) /\ OwnerOK(k, o(k, ref, d))
    <2>1. EnsuredOK(DataOf(k), objs[k], ref, o(k, ref, d))
        BY <1>1, WorkerFacts, EnsuredShapes, Zenon DEF Objects, Owners
    <2> QED
        BY <1>1, <2>1, EnsuredLegal, Zenon
<1> HIDE DEF o
<1>2. CASE pc = "ensureConfigMap"
    <2> DEFINE k == ConfigMapKey(run.agent)
               d == buildOCMAgentConfigMap(instance.spec)
               next == IF instance.spec.fleetMode THEN "ensureTrustedCa"
                                                  ELSE "ensureCAMO"
    <2>1. EnsureStepAt(stamp, k, o(k, ownerRef, d), next, run)
        BY <1>2, Zenon DEF ensureAllConfigMaps, ensureConfigMap, EnsureStep, o
    <2>2. k \in Keys /\ d \in DataOf(k)
        BY <1>2, WorkerFacts, AgentKeys, ZenonT(30)
           DEF buildOCMAgentConfigMap, ConfigMapData, SpecType
    <2>3. pc \in ExistSteps /\ next \in ExistSteps
        BY <1>2, Zenon DEF ExistSteps
    <2>4. next \in {"ensureTrustedCa", "ensureCAMO"}
        BY Zenon
    <2> HIDE DEF k, d, next
    <2>5. o(k, ownerRef, d) \in Objects(k) /\ OwnerOK(k, o(k, ownerRef, d))
        BY <1>1, <1>2, <2>2, ZenonT(30)
    <2> QED
        BY <1>2, <2>1, <2>2, <2>3, <2>4, <2>5, PlainStep, WorkerFacts, Zenon
<1>3. CASE pc = "ensureCAMO"
    <2> DEFINE d == buildCAMOConfigMap(run.agent)
    <2>1. EnsureStepAt(stamp, CAMOKey, o(CAMOKey, Nil, d), "ensureTrustedCa", run)
        BY <1>3, Zenon DEF ensureAllConfigMaps, ensureConfigMap, EnsureStep, o
    <2>2. CAMOKey \in Keys /\ d \in DataOf(CAMOKey)
        BY <1>3, WorkerFacts, SharedKeys, Zenon DEF buildCAMOConfigMap
    <2>3. pc \in ExistSteps /\ "ensureTrustedCa" \in ExistSteps
        BY <1>3, Zenon DEF ExistSteps
    <2> HIDE DEF d
    <2>4. /\ o(CAMOKey, Nil, d) \in Objects(CAMOKey)
          /\ OwnerOK(CAMOKey, o(CAMOKey, Nil, d))
        BY <1>1, <1>3, <2>2, ZenonT(30)
    <2> QED
        BY <1>3, <2>1, <2>2, <2>3, <2>4, PlainStep, WorkerFacts, SMTT(30)
<1>4. CASE pc = "ensureTrustedCa"
    <2> DEFINE k == TrustedCaKey
               d == buildTrustedCaConfigMap
    <2>1. EnsureStepAt(stamp, k, o(k, ownerRef, d), "ensureService", run)
        BY <1>4, Zenon DEF ensureAllConfigMaps, ensureConfigMap, EnsureStep, o
    <2>2. k \in Keys /\ d \in DataOf(k)
        BY <1>4, SharedKeys, Zenon DEF buildTrustedCaConfigMap
    <2>3. pc \in ExistSteps /\ "ensureService" \in ExistSteps
        BY <1>4, Zenon DEF ExistSteps
    <2> HIDE DEF k, d
    <2>4. o(k, ownerRef, d) \in Objects(k) /\ OwnerOK(k, o(k, ownerRef, d))
        BY <1>1, <1>4, <2>2, Zenon
    <2> QED
        BY <1>4, <2>1, <2>2, <2>3, <2>4, PlainStep, WorkerFacts, SMTT(30)
<1> QED
    BY <1>2, <1>3, <1>4, Zenon DEF ensureAllConfigMaps

LEMMA ServiceStep ==
    ASSUME Inv, ensureService
    PROVE  ObjectStep
<1> DEFINE local == [run EXCEPT !.namespaces = networkPolicyNamespaces(instance.spec)]
           o(k, e) == EnsuredService(objs[k], ownerRef, e)
<1>1. pc # "idle"
    BY Zenon DEF ensureService
<1>2. /\ local \in Runs /\ local.agent = run.agent /\ local.version = run.version
      /\ local.namespaces # <<>>
    BY <1>1, WorkerFacts, NamespacesListed, ZenonT(30) DEF Runs
<1>3. ASSUME NEW k \in Keys, DataOf(k) = ServiceData, NEW e \in ServiceData
      PROVE  o(k, e) \in Objects(k) /\ OwnerOK(k, o(k, e))
    <2>1. EnsuredOK(DataOf(k), objs[k], ownerRef, o(k, e))
        BY <1>1, <1>3, WorkerFacts, ServiceShapes, Zenon DEF Objects
    <2> QED
        BY <1>1, <2>1, EnsuredLegal, Zenon
<1>4. buildOCMAgentService \in ServiceData /\ buildOCMAgentMetricsService \in ServiceData
    BY Zenon DEF buildOCMAgentService, buildOCMAgentMetricsService, ServiceData
<1> HIDE DEF o, local
<1>5. CASE pc = "ensureService"
    <2> DEFINE k == ServiceKey(run.agent)
    <2>1. EnsureStepAt(stamp, k, o(k, buildOCMAgentService), "ensureMetricsService", run)
        BY <1>5, Zenon DEF ensureService, EnsureStep, o
    <2>2. k \in Keys /\ DataOf(k) = ServiceData
        BY <1>1, WorkerFacts, AgentKeys, Zenon
    <2>3. pc \in ExistSteps /\ "ensureMetricsService" \in ExistSteps
        BY <1>5, Zenon DEF ExistSteps
    <2> HIDE DEF k
    <2> QED
        BY <1>1, <1>3, <1>4, <2>1, <2>2, <2>3, PlainStep, WorkerFacts
<1>6. CASE pc = "ensureMetricsService"
    <2> DEFINE k == MetricsServiceKey(run.agent)
    <2>1. EnsureStepAt(stamp, k, o(k, buildOCMAgentMetricsService),
                       "ensureNetworkPolicy", local)
        BY <1>6, Zenon DEF ensureService, EnsureStep, o, local
    <2>2. k \in Keys /\ DataOf(k) = ServiceData
        BY <1>1, WorkerFacts, AgentKeys, Zenon
    <2>3. pc \in ExistSteps /\ "ensureNetworkPolicy" \in ExistSteps
        BY <1>6, Zenon DEF ExistSteps
    <2> HIDE DEF k
    <2> QED
        BY <1>1, <1>2, <1>3, <1>4, <2>1, <2>2, <2>3, PlainStep, WorkerFacts
<1> QED
    BY <1>5, <1>6, Zenon DEF ensureService

LEMMA SpecObject ==
    ASSUME Inv, pc # "idle", NEW k \in Keys, DataOf(k) = {"built", "tampered"}
    PROVE  /\ EnsuredSpec(objs[k], ownerRef) \in Objects(k)
           /\ OwnerOK(k, EnsuredSpec(objs[k], ownerRef))
<1>1. EnsuredOK(DataOf(k), objs[k], ownerRef, EnsuredSpec(objs[k], ownerRef))
    BY WorkerFacts, EnsuredShapes, Zenon DEF Objects, builtSpec
<1> QED
    BY <1>1, EnsuredLegal, Zenon

LEMMA NetworkPolicyEnsured ==
    ASSUME Inv, ensureNetworkPolicy
    PROVE  ObjectStep
<1> DEFINE k == NetworkPolicyKey(run.agent, Head(run.namespaces))
           rest == Tail(run.namespaces)
           next == IF rest = <<>> THEN "ensureServiceMonitor" ELSE "ensureNetworkPolicy"
           local == [run EXCEPT !.namespaces = rest]
           o == EnsuredSpec(objs[k], ownerRef)
<1>1. pc = "ensureNetworkPolicy" /\ EnsureStepAt(stamp, k, o, next, local)
    BY Zenon DEF ensureNetworkPolicy, NetworkPolicyStep, EnsureStep
<1>2. k \in Keys /\ DataOf(k) = {"built", "tampered"}
    BY <1>1, WorkerFacts, NetworkPolicyFacts, AgentKeys, Zenon
<1>3. /\ local \in Runs /\ local.agent = run.agent /\ local.version = run.version
      /\ next = "ensureNetworkPolicy" => local.namespaces # <<>>
      /\ next \in {"ensureServiceMonitor", "ensureNetworkPolicy"}
    BY <1>1, WorkerFacts, NetworkPolicyFacts, Zenon DEF Runs
<1>4. pc \in ExistSteps /\ next \in ExistSteps
    BY <1>1, Zenon DEF ExistSteps
<1> HIDE DEF k, next, local
<1>5. o \in Objects(k) /\ OwnerOK(k, o)
    BY <1>1, <1>2, SpecObject, Zenon
<1> QED
    BY <1>1, <1>2, <1>3, <1>4, <1>5, PlainStep, WorkerFacts, Zenon

LEMMA ServiceMonitorStep ==
    ASSUME Inv, ensureServiceMonitor
    PROVE  ObjectStep
<1> DEFINE k == ServiceMonitorKey(run.agent)
           o == EnsuredSpec(objs[k], ownerRef)
           next == IF instance.spec.replicas > 1 THEN "ensurePDB" ELSE afterEnsureFuncs
<1>1. pc = "ensureServiceMonitor" /\ EnsureStepAt(stamp, k, o, next, run)
    BY Zenon DEF ensureServiceMonitor, EnsureStep
<1>2. k \in Keys /\ DataOf(k) = {"built", "tampered"}
    BY <1>1, WorkerFacts, AgentKeys, Zenon
<1>3. next \in {"ensurePDB", "restartPods", "addFinalizer"}
    BY Zenon DEF afterEnsureFuncs
<1>4. pc \in ExistSteps /\ next \in ExistSteps
    BY <1>1, <1>3, Zenon DEF ExistSteps
<1> HIDE DEF k, next
<1>5. o \in Objects(k) /\ OwnerOK(k, o)
    BY <1>1, <1>2, SpecObject, Zenon
<1> QED
    BY <1>1, <1>2, <1>3, <1>4, <1>5, PlainStep, WorkerFacts, ZenonT(30)

LEMMA PDBStep ==
    ASSUME Inv, ensurePodDisruptionBudget
    PROVE  ObjectStep
<1> DEFINE k == PDBKey(run.agent)
           o == EnsuredSpec(objs[k], ownerRef)
           next == afterEnsureFuncs
<1>1. pc = "ensurePDB" /\ EnsureStepAt(stamp, k, o, next, run)
    BY Zenon DEF ensurePodDisruptionBudget, EnsureStep
<1>2. k \in Keys /\ DataOf(k) = {"built", "tampered"}
    BY <1>1, WorkerFacts, AgentKeys, Zenon
<1>3. next \in {"restartPods", "addFinalizer"}
    BY Zenon DEF afterEnsureFuncs
<1>4. pc \in ExistSteps /\ next \in ExistSteps
    BY <1>1, <1>3, Zenon DEF ExistSteps
<1> HIDE DEF k, next
<1>5. o \in Objects(k) /\ OwnerOK(k, o)
    BY <1>1, <1>2, SpecObject, Zenon
<1> QED
    BY <1>1, <1>2, <1>3, <1>4, <1>5, PlainStep, WorkerFacts, ZenonT(30)

LEMMA RestartStep ==
    ASSUME Inv, restartOCMAgentPods, objs[DeploymentKey(run.agent)] # Nil
    PROVE  ObjectStep
<1> DEFINE k == DeploymentKey(run.agent)
           o(t) == [objs[k] EXCEPT !.data.restartedAt = t]
<1>1. pc = "restartPods"
    BY Zenon DEF restartOCMAgentPods
<1>2. PICK t \in restartSeconds : EnsureStepAt(t, k, o(t), "addFinalizer", run)
    BY Zenon DEF restartOCMAgentPods
<1>3. t \in Nat
    BY DEF restartSeconds
<1>4. k \in Keys /\ DataOf(k) = DeploymentData
    BY <1>1, WorkerFacts, AgentKeys, Zenon
<1>5. objs[k] \in [owner: Owners, data: DeploymentData]
    BY <1>1, <1>4, WorkerFacts, Zenon DEF Objects
<1>6. o(t) \in Objects(k) /\ OwnerOK(k, o(t))
    <2>1. [objs[k].data EXCEPT !.restartedAt = t] \in DeploymentData
        BY <1>3, <1>5, Zenon DEF DeploymentData
    <2>2. o(t) = [objs[k] EXCEPT !.data = [objs[k].data EXCEPT !.restartedAt = t]]
        BY <1>5, Zenon
    <2>3. o(t) \in [owner: Owners, data: DeploymentData] /\ o(t).owner = objs[k].owner
        BY <1>5, <2>1, <2>2, Zenon
    <2> QED
        BY <1>4, <2>3, Zenon DEF Objects, OwnerOK
<1>7. pc \in ExistSteps /\ "addFinalizer" \in ExistSteps
    BY <1>1, Zenon DEF ExistSteps
<1> HIDE DEF k, o
<1> QED
    BY <1>1, <1>2, <1>3, <1>4, <1>6, <1>7, PlainStep, WorkerFacts

\* A deletion on the way to next.
LEMMA Deletion ==
    ASSUME Inv, pc \in AbsentSteps, NEW k \in Keys, NEW next \in AbsentSteps,
           next # "deleteNetworkPolicy",
           next \in AfterCAMO => pc \in AfterCAMO,
           DeleteStep(k, next)
    PROVE  ObjectStep
<1>1. pc # "idle" /\ next \notin {"ensureSecret", "ensureDeployment", "ensureNetworkPolicy"}
    BY Zenon DEF AbsentSteps
<1>2. EnsureStepAt(stamp, k, Nil, next, run)
    BY Zenon DEF DeleteStep, EnsureStep
<1> QED
    BY <1>1, <1>2, PlainStep, WorkerFacts, Zenon

LEMMA AbsentStep ==
    ASSUME Inv, EnsureOCMAgentResourcesAbsent
    PROVE  ObjectStep
<1> USE DEF AbsentSteps, AfterCAMO
<1>1. pc # "idle"
    BY Zenon DEF EnsureOCMAgentResourcesAbsent, ensureDeploymentDeleted,
           ensureServiceDeleted, ensureAllConfigMapsDeleted,
           ensureNetworkPolicyDeleted, ensureServiceMonitorDeleted,
           ensurePodDisruptionBudgetDeleted, ensureAccessTokenSecretDeleted
<1>2. run.agent \in Agents /\ instance.spec.tokenSecret \in TokenSecrets
    BY <1>1, WorkerFacts, Zenon DEF SpecType
<1>3. CASE ensureDeploymentDeleted
    BY <1>2, <1>3, AgentKeys, Deletion, Zenon DEF ensureDeploymentDeleted
<1>4. CASE ensureServiceDeleted
    BY <1>2, <1>4, AgentKeys, Deletion, Zenon DEF ensureServiceDeleted
<1>5. CASE ensureAllConfigMapsDeleted
    <2>1. CASE pc = "deleteConfigMap"
        BY <1>2, <1>5, <2>1, AgentKeys, Deletion, Zenon DEF ensureAllConfigMapsDeleted
    <2>2. CASE pc = "deleteCAMO"
        <3> DEFINE local == [run EXCEPT !.namespaces =
                                 networkPolicyNamespaces(instance.spec)]
        <3>1. EnsureStepAt(stamp, CAMOKey, Nil, "deleteNetworkPolicy", local)
            BY <1>5, <2>2, Zenon DEF ensureAllConfigMapsDeleted, EnsureStep
        <3>2. /\ local \in Runs /\ local.agent = run.agent
              /\ local.version = run.version /\ local.namespaces # <<>>
            BY <1>1, WorkerFacts, NamespacesListed, ZenonT(30) DEF Runs
        <3> HIDE DEF local
        <3> QED
            BY <1>1, <2>2, <3>1, <3>2, SharedKeys, PlainStep, WorkerFacts, ZenonT(30)
    <2> QED
        BY <1>5, <2>1, <2>2, Zenon DEF ensureAllConfigMapsDeleted
<1>6. CASE ensureNetworkPolicyDeleted
    <2> DEFINE k == NetworkPolicyKey(run.agent, Head(run.namespaces))
               rest == Tail(run.namespaces)
               next == IF rest = <<>> THEN "deleteServiceMonitor"
                                      ELSE "deleteNetworkPolicy"
               local == [run EXCEPT !.namespaces = rest]
    <2>1. pc = "deleteNetworkPolicy" /\ EnsureStepAt(stamp, k, Nil, next, local)
        BY <1>6, Zenon DEF ensureNetworkPolicyDeleted, NetworkPolicyStep, EnsureStep
    <2>2. k \in Keys
        BY <1>2, <2>1, NetworkPolicyFacts, AgentKeys, Zenon
    <2>3. /\ local \in Runs /\ local.agent = run.agent /\ local.version = run.version
          /\ next = "deleteNetworkPolicy" => local.namespaces # <<>>
          /\ next \in {"deleteServiceMonitor", "deleteNetworkPolicy"}
        BY <2>1, WorkerFacts, NetworkPolicyFacts, Zenon DEF Runs
    <2> HIDE DEF k, next, local
    <2> QED
        BY <1>1, <2>1, <2>2, <2>3, PlainStep, WorkerFacts, Zenon
<1>7. CASE ensureServiceMonitorDeleted
    BY <1>2, <1>7, AgentKeys, Deletion, Zenon DEF ensureServiceMonitorDeleted
<1>8. CASE ensurePodDisruptionBudgetDeleted
    BY <1>2, <1>8, AgentKeys, Deletion, Zenon DEF ensurePodDisruptionBudgetDeleted
<1>9. CASE ensureAccessTokenSecretDeleted
    BY <1>2, <1>9, SharedKeys, Deletion, Zenon DEF ensureAccessTokenSecretDeleted
<1> QED
    BY <1>3, <1>4, <1>5, <1>6, <1>7, <1>8, <1>9, Zenon DEF EnsureOCMAgentResourcesAbsent

-----------------------------------------------------------------------------
(* The steps of the handler that read or only decide.                      *)

\* A failed or finished reconcile whose request comes back.
LEMMA QuietReturn ==
    ASSUME Inv, pc # "idle", Return, Requeue \/ UNCHANGED queue,
           UNCHANGED <<hist, seen, objs, pullSecret, proxy, stamp, absentGauge>>,
           budget' \in [Disturbances -> Nat],
           invalidGauge' \in [Agents -> GaugeValues]
    PROVE  QuietStep
<1>1. queue' \subseteq Agents
    BY WorkerFacts, Zenon DEF Requeue, Inv, BaseInv, TypeOK
<1>2. pc' = "idle" /\ run' \in Runs
    BY NoRunType, Zenon DEF Return, Goto
<1>3. TypeOK'
    BY <1>1, <1>2, Zenon DEF TypeOK, Inv, BaseInv
<1> QED
    BY <1>2, <1>3, Zenon DEF QuietStep

\* A call that only reads and succeeds.
LEMMA QuietGoto ==
    ASSUME Inv, pc \in ExistSteps, NEW next \in ExistSteps, NEW local \in Runs,
           local.agent = run.agent, local.version = run.version,
           next = "ensureSecret" => local.token \in Tokens,
           next = "ensureDeployment" => local.proxy \in Proxies,
           next # "ensureNetworkPolicy",
           Goto(next, local), UNCHANGED <<queue, budget>>,
           UNCHANGED <<hist, seen, objs, pullSecret, proxy, stamp, absentGauge>>,
           invalidGauge' \in [Agents -> GaugeValues]
    PROVE  QuietStep
<1>1. pc # "idle" /\ next # "deleteNetworkPolicy"
    BY Zenon DEF ExistSteps
<1>2. RunOK(next, local)
    BY <1>1, NextRunOK, Zenon
<1>3. pc' = next /\ run' = local
    BY Zenon DEF Goto
<1>4. TypeOK'
    BY <1>3, Zenon DEF TypeOK, Inv, BaseInv
<1> QED
    BY <1>2, <1>3, <1>4, Zenon DEF QuietStep

LEMMA FetchStep ==
    ASSUME Inv, fetchAccessTokenPullSecret
    PROVE  QuietStep
<1>1. /\ pc = "fetchPullSecret" /\ pc \in ExistSteps /\ "ensureSecret" \in ExistSteps
      /\ "faults" \in Disturbances
    BY Zenon DEF fetchAccessTokenPullSecret, ExistSteps, Disturbances
<1>2. UNCHANGED <<hist, seen, objs, pullSecret, proxy, stamp, absentGauge>>
    BY Zenon DEF fetchAccessTokenPullSecret, cluster
<1>3. invalidGauge' \in [Agents -> GaugeValues]
    BY ZenonT(30) DEF fetchAccessTokenPullSecret, Inv, BaseInv, TypeOK, GaugeValues
<1>4. CASE Return
    <2>1. Requeue \/ UNCHANGED queue
        BY Zenon DEF fetchAccessTokenPullSecret
    <2>2. budget' \in [Disturbances -> Nat]
        BY <1>1, SpendType, Zenon DEF fetchAccessTokenPullSecret, Inv, BaseInv, TypeOK
    <2> QED
        BY <1>1, <1>2, <1>3, <1>4, <2>1, <2>2, QuietReturn, Zenon
<1>5. CASE /\ pullSecret # Nil /\ Goto("ensureSecret", [run EXCEPT !.token = pullSecret])
           /\ UNCHANGED <<queue, budget>>
    <2> DEFINE local == [run EXCEPT !.token = pullSecret]
    <2>1. /\ local \in Runs /\ local.agent = run.agent /\ local.version = run.version
          /\ local.token \in Tokens
        BY <1>1, <1>5, WorkerFacts, ZenonT(30) DEF Runs, Inv, BaseInv, TypeOK
    <2> HIDE DEF local
    <2>2. Goto("ensureSecret", local)
        BY <1>5, Zenon DEF local
    <2> QED
        BY <1>1, <1>2, <1>3, <1>5, <2>1, <2>2, QuietGoto, Zenon
<1> QED
    BY <1>4, <1>5, Zenon DEF fetchAccessTokenPullSecret

LEMMA ReadStepQuiet ==
    ASSUME Inv, pc \in ExistSteps, NEW next \in ExistSteps, NEW local \in Runs,
           local.agent = run.agent, local.version = run.version,
           next = "ensureDeployment" => local.proxy \in Proxies,
           next \notin {"ensureNetworkPolicy", "ensureSecret"},
           ReadStep(next, local), UNCHANGED invalidGauge
    PROVE  QuietStep
<1>1. pc # "idle" /\ "faults" \in Disturbances
    BY Zenon DEF ExistSteps, Disturbances
<1>2. UNCHANGED <<hist, seen, objs, pullSecret, proxy, stamp, absentGauge>>
    BY Zenon DEF ReadStep, cluster
<1>3. invalidGauge' \in [Agents -> GaugeValues]
    BY Zenon DEF Inv, BaseInv, TypeOK
<1>4. CASE Goto(next, local) /\ UNCHANGED <<queue, budget>>
    BY <1>2, <1>3, <1>4, QuietGoto, Zenon
<1>5. CASE Spend("faults") /\ Return /\ Requeue
    <2>1. budget' \in [Disturbances -> Nat]
        BY <1>1, <1>5, SpendType, Zenon DEF Inv, BaseInv
    <2> QED
        BY <1>1, <1>2, <1>3, <1>5, <2>1, QuietReturn, Zenon
<1> QED
    BY <1>4, <1>5, Zenon DEF ReadStep

LEMMA FleetSecretStep ==
    ASSUME Inv, ensureFleetClientSecret
    PROVE  QuietStep
<1>1. /\ pc = "ensureFleetSecret" /\ pc \in ExistSteps /\ "buildEnvVars" \in ExistSteps
      /\ pc # "idle"
    BY Zenon DEF ensureFleetClientSecret, ExistSteps
<1>2. CASE ReadStep("buildEnvVars", run)
    BY <1>1, <1>2, WorkerFacts, ReadStepQuiet, Zenon DEF ensureFleetClientSecret
<1>3. CASE /\ Return /\ Requeue
           /\ UNCHANGED <<hist, seen, cluster, stamp, absentGauge, budget>>
    <2>1. UNCHANGED <<hist, seen, objs, pullSecret, proxy, stamp, absentGauge>>
        BY <1>3, Zenon DEF cluster
    <2>2. /\ budget' \in [Disturbances -> Nat]
          /\ invalidGauge' \in [Agents -> GaugeValues]
        BY <1>3, Zenon DEF ensureFleetClientSecret, Inv, BaseInv, TypeOK
    <2> QED
        BY <1>1, <1>3, <2>1, <2>2, QuietReturn, Zenon
<1> QED
    BY <1>2, <1>3, Zenon DEF ensureFleetClientSecret

LEMMA EnvVarsStep ==
    ASSUME Inv, buildEnvVars
    PROVE  QuietStep
<1> DEFINE local == [run EXCEPT !.proxy = proxy]
<1>1. /\ pc \in ExistSteps /\ "ensureDeployment" \in ExistSteps /\ pc # "idle"
      /\ ReadStep("ensureDeployment", local) /\ UNCHANGED invalidGauge
    BY Zenon DEF buildEnvVars, ExistSteps
<1>2. /\ local \in Runs /\ local.agent = run.agent /\ local.version = run.version
      /\ local.proxy \in Proxies
    BY <1>1, WorkerFacts, ZenonT(30) DEF Runs, Inv, BaseInv, TypeOK
<1> HIDE DEF local
<1> QED
    BY <1>1, <1>2, ReadStepQuiet, Zenon

\* Every step of EnsureOCMAgentResourcesExist.
LEMMA ExistStep ==
    ASSUME Inv, EnsureOCMAgentResourcesExist
    PROVE  ObjectStep \/ (pc # "idle" /\ QuietStep)
<1>1. CASE fetchAccessTokenPullSecret
    BY <1>1, FetchStep, Zenon DEF fetchAccessTokenPullSecret
<1>2. CASE ensureFleetClientSecret
    BY <1>2, FleetSecretStep, Zenon DEF ensureFleetClientSecret
<1>3. CASE buildEnvVars
    BY <1>3, EnvVarsStep, Zenon DEF buildEnvVars
<1>4. CASE restartOCMAgentPods
    <2>1. CASE objs[DeploymentKey(run.agent)] = Nil
        <3>1. pc # "idle"
            BY <1>4, Zenon DEF restartOCMAgentPods
        <3>2. /\ Return /\ Requeue
              /\ UNCHANGED <<hist, seen, objs, pullSecret, proxy, stamp, absentGauge>>
              /\ UNCHANGED <<invalidGauge, budget>>
            BY <1>4, <2>1, Zenon DEF restartOCMAgentPods, cluster, gauges
        <3>3. /\ budget' \in [Disturbances -> Nat]
              /\ invalidGauge' \in [Agents -> GaugeValues]
            BY <3>2, Zenon DEF Inv, BaseInv, TypeOK
        <3> QED
            BY <3>1, <3>2, <3>3, QuietReturn, Zenon
    <2> QED
        BY <1>4, <2>1, RestartStep, Zenon
<1> QED
    BY <1>1, <1>2, <1>3, <1>4, SecretStep, DeploymentStep, ConfigMapStep,
       ServiceStep, NetworkPolicyEnsured, ServiceMonitorStep, PDBStep, ZenonT(30)
       DEF EnsureOCMAgentResourcesExist

-----------------------------------------------------------------------------
(* Steps that write an OcmAgent, and those that leave the worker alone.    *)

LEMMA HistoryFacts ==
    ASSUME Inv, NEW a \in Agents
    PROVE  /\ HistoryOK(hist[a]) /\ Len(hist[a]) \in Nat
           /\ seen[a] \in 1..Len(hist[a]) /\ seen[a] \in Nat
<1>1. HistoryOK(hist[a]) /\ seen[a] \in 1..Len(hist[a])
    BY Zenon DEF Inv, BaseInv, HistoryInv
<1>2. Len(hist[a]) \in Nat
    BY <1>1, Zenon DEF HistoryOK
<1> QED
    BY <1>1, <1>2

LEMMA HorizonType ==
    ASSUME Inv, NEW a \in Agents
    PROVE  Horizon(a) \in Nat /\ Horizon(a) <= Len(hist[a]) /\ Horizon(a) <= seen[a]
<1>1. seen[a] \in 1..Len(hist[a]) /\ Len(hist[a]) \in Nat
    BY Zenon DEF Inv, BaseInv, HistoryInv, HistoryOK
<1>2. pc # "idle" /\ run.agent = a => run.version \in 1..seen[a]
    BY Zenon DEF Inv, BaseInv, RunOK
<1> QED
    BY <1>1, <1>2 DEF Horizon

\* Owners stay known as long as versions are only added, the horizon does not
\* fall back, and objects keep their owners.
LEMMA OwnedKept ==
    ASSUME Inv,
           \A b \in Agents : \A v \in 1..Len(hist[b]) : hist'[b][v] = hist[b][v],
           \A b \in Agents :
               Horizon(b) <= IF pc' # "idle" /\ run'.agent = b THEN run'.version
                                                               ELSE seen'[b],
           \A b \in Agents : seen'[b] \in Nat,
           pc' # "idle" => run'.version \in Nat,
           \A j \in Keys : objs'[j] # Nil /\ objs'[j].owner # Nil
                               => objs[j] # Nil /\ objs'[j].owner = objs[j].owner
    PROVE  OwnedInv'
<1> SUFFICES ASSUME NEW j \in Keys, objs'[j] # Nil, objs'[j].owner # Nil
             PROVE  \E v \in 1..Horizon(objs[j].owner.agent)' :
                        /\ hist'[objs'[j].owner.agent][v] # Nil
                        /\ hist'[objs'[j].owner.agent][v].uid = objs'[j].owner.uid
    BY Zenon DEF OwnedInv
<1>1. objs[j] # Nil /\ objs'[j].owner = objs[j].owner /\ objs[j].owner.agent \in Agents
    BY Zenon DEF Inv, BaseInv, TypeOK, Objects, Owners
<1>2. PICK b \in Agents : b = objs[j].owner.agent
    BY <1>1, Zenon
<1>3. PICK v \in 1..Horizon(b) : hist[b][v] # Nil /\ hist[b][v].uid = objs[j].owner.uid
    BY <1>1, <1>2, Zenon DEF Inv, OwnedInv
<1>4. v \in 1..Len(hist[b])
    <2>1. Len(hist[b]) \in Nat
        BY Zenon DEF Inv, BaseInv, HistoryInv, HistoryOK
    <2>2. Horizon(b) \in Nat /\ Horizon(b) <= Len(hist[b])
        BY HorizonType, Zenon
    <2> QED
        BY <1>3, <2>1, <2>2
<1>5. Horizon(objs[j].owner.agent)'
          = IF pc' # "idle" /\ run'.agent = b THEN run'.version ELSE seen'[b]
    BY <1>1, <1>2, Zenon DEF Horizon
<1>6. v \in 1..Horizon(objs[j].owner.agent)'
    BY <1>3, <1>5, HorizonType
<1>7. hist'[b][v] # Nil /\ hist'[b][v].uid = objs'[j].owner.uid
    BY <1>1, <1>3, <1>4, Zenon
<1>8. objs'[j].owner.agent = b
    BY <1>1, <1>2, Zenon
<1> QED
    BY <1>6, <1>7, <1>8, ZenonT(30)

\* The worker goes on as before, or is idle afterwards.
WorkerKept == UNCHANGED <<pc, run>> \/ Return

LEMMA KeptHorizon ==
    ASSUME Inv, WorkerKept, \A b \in Agents : seen'[b] \in Nat /\ seen[b] <= seen'[b]
    PROVE  /\ \A b \in Agents :
                  Horizon(b) <= IF pc' # "idle" /\ run'.agent = b THEN run'.version
                                                                  ELSE seen'[b]
           /\ pc' # "idle" => run'.version \in Nat
           /\ pc' \in {"idle"} \cup ExistSteps \cup AbsentSteps /\ run' \in Runs
<1>1. /\ pc' \in {"idle"} \cup ExistSteps \cup AbsentSteps /\ run' \in Runs
      /\ pc' # "idle" => pc' = pc /\ run' = run
    BY NoRunType, Zenon DEF WorkerKept, Return, Goto, Inv, BaseInv, TypeOK
<1>2. run'.version \in Nat
    BY <1>1, Zenon DEF Runs
<1>3. ASSUME NEW b \in Agents
      PROVE  Horizon(b) <= IF pc' # "idle" /\ run'.agent = b THEN run'.version
                                                             ELSE seen'[b]
    <2>1. Horizon(b) \in Nat /\ Horizon(b) <= seen[b] /\ seen[b] \in Nat
        BY HorizonType, Zenon DEF Inv, BaseInv, TypeOK
    <2> QED
        BY <1>1, <1>2, <2>1 DEF Horizon
<1> QED
    BY <1>1, <1>2, <1>3, Zenon

LEMMA WriteStepInv ==
    ASSUME Inv, NEW a \in Agents, NEW e, Follows(hist[a], e), Write(a, e),
           WorkerKept, queue' \subseteq Agents, budget' \in [Disturbances -> Nat],
           UNCHANGED <<seen, cluster, stamp, gauges>>
    PROVE  Inv'
<1>1. UNCHANGED <<objs, pullSecret, proxy, absentGauge, invalidGauge>>
    BY Zenon DEF cluster, gauges
<1>2. \A b \in Agents : seen'[b] \in Nat /\ seen[b] <= seen'[b]
    BY SMTT(30) DEF Inv, BaseInv, TypeOK
<1>3. TypeOK'
    BY <1>1, <1>2, Written, KeptHorizon, Zenon DEF Inv, BaseInv, TypeOK
<1>4. HistoryInv'
    <2>1. ASSUME NEW b \in Agents
          PROVE  HistoryOK(hist'[b]) /\ seen'[b] \in 1..Len(hist'[b])
        <3>1. seen[b] \in 1..Len(hist[b]) /\ Len(hist[b]) \in Nat
            BY HistoryFacts, Zenon
        <3>2. /\ HistoryOK(hist'[b]) /\ Len(hist'[b]) \in Nat
              /\ Len(hist[b]) <= Len(hist'[b])
            BY Written, Zenon
        <3> QED
            BY <3>1, <3>2
    <2> QED
        BY <2>1, Zenon DEF HistoryInv
<1>5. RunOK(pc, run)'
    <2>1. CASE UNCHANGED <<pc, run>> /\ pc # "idle"
        <3>1. run.agent \in Agents /\ run.version \in 1..Len(hist[run.agent])
            <4>1. run.agent \in Agents /\ run.version \in 1..seen[run.agent]
                BY <2>1, Zenon DEF Inv, BaseInv, RunOK
            <4> QED
                BY <4>1, HistoryFacts
        <3>2. hist'[run.agent][run.version] = hist[run.agent][run.version]
            BY <3>1, Written, Zenon
        <3> QED
            BY <2>1, <3>2, Zenon DEF Inv, BaseInv, RunOK
    <2>2. CASE pc' = "idle"
        BY <2>2, Zenon DEF RunOK
    <2> QED
        BY <2>1, <2>2, Zenon DEF WorkerKept, Return, Goto
<1>6. OwnedInv'
    BY <1>1, <1>2, Written, KeptHorizon, OwnedKept, Zenon
<1> QED
    BY <1>3, <1>4, <1>5, <1>6, Zenon DEF Inv, BaseInv

\* An update based on the current version.
LEMMA UpdateFollows ==
    ASSUME Inv, pc # "idle", run.version = Version(run.agent)
    PROVE  instance = Current(run.agent)
BY Zenon DEF instance, Current

\* What the finalizer steps write follows the version they are based on.
LEMMA FinalizersFollow ==
    ASSUME Inv, addFinalizer \/ removeFinalizer
    PROVE  /\ pc # "idle" /\ run.agent \in Agents
           /\ UNCHANGED hist \/ \E e : Write(run.agent, e) /\ Follows(hist[run.agent], e)
<1> DEFINE with == [instance EXCEPT !.finalizer = TRUE]
           without == [instance EXCEPT !.finalizer = FALSE]
<1>1. pc # "idle"
    BY Zenon DEF addFinalizer, removeFinalizer
<1>2. run.agent \in Agents /\ instance \in OcmAgents /\ instance # Nil
    BY <1>1, WorkerFacts, NoAgentAssumption, Zenon
<1>3. CASE addFinalizer
    <2>1. UNCHANGED hist \/ Update(with)
        BY <1>3, Zenon DEF addFinalizer, FailedUpdate
    <2>2. /\ with \in OcmAgents /\ with.uid = instance.uid
          /\ with.deleting = instance.deleting
          /\ with.foreground = instance.foreground
        BY <1>2, ZenonT(30) DEF OcmAgents
    <2> HIDE DEF with
    <2>3. ASSUME Update(with) PROVE Follows(hist[run.agent], with)
        BY <1>1, <1>2, <2>2, <2>3, UpdateFollows, CurrentFacts, Zenon
        DEF Update, Follows
    <2> QED
        BY <1>1, <1>2, <2>1, <2>3, Zenon DEF Update
<1>4. CASE removeFinalizer
    <2>1. UNCHANGED hist \/ Update(Finalized(without))
        BY <1>4, Zenon DEF removeFinalizer, FailedUpdate
    <2>2. instance.deleting
        BY <1>4, Zenon DEF removeFinalizer, Inv, BaseInv, RunOK, instance, AbsentSteps
    <2>3. /\ without \in OcmAgents /\ without.uid = instance.uid /\ without.deleting
          /\ without.foreground \in BOOLEAN
        BY <1>2, <2>2, ZenonT(30) DEF OcmAgents
    <2> HIDE DEF without
    <2>4. ASSUME Update(Finalized(without))
          PROVE  Follows(hist[run.agent], Finalized(without))
        BY <1>1, <1>2, <2>3, <2>4, UpdateFollows, FinalizedFollows, Zenon DEF Update
    <2> QED
        BY <1>1, <1>2, <2>1, <2>4, Zenon DEF Update
<1> QED
    BY <1>3, <1>4, Zenon

LEMMA FinalizersInv ==
    ASSUME Inv, addFinalizer \/ removeFinalizer
    PROVE  Inv'
<1>1. /\ Return
      /\ Requeue \/ UNCHANGED queue
      /\ UNCHANGED <<seen, cluster, stamp, gauges>> /\ "faults" \in Disturbances
    BY Zenon DEF addFinalizer, removeFinalizer, FailedUpdate, Disturbances
<1>2. budget' \in [Disturbances -> Nat]
    BY <1>1, SpendType, Zenon
    DEF addFinalizer, removeFinalizer, FailedUpdate, Inv, BaseInv, TypeOK
<1>3. pc # "idle" /\ run.agent \in Agents /\ queue' \subseteq Agents
    BY <1>1, FinalizersFollow, Zenon DEF Requeue, Inv, BaseInv, TypeOK
<1>4. CASE UNCHANGED hist
    <2>1. UNCHANGED <<hist, seen, objs, pullSecret, proxy, stamp, absentGauge>>
        BY <1>1, <1>4, Zenon DEF cluster, gauges
    <2>2. invalidGauge' \in [Agents -> GaugeValues]
        BY <1>1, Zenon DEF gauges, Inv, BaseInv, TypeOK
    <2>3. QuietStep
        BY <1>1, <1>2, <1>3, <2>1, <2>2, QuietReturn, Zenon
    <2> QED
        BY <1>3, <2>3, QuietStepInv, Zenon
<1>5. ASSUME NEW e, Write(run.agent, e), Follows(hist[run.agent], e) PROVE Inv'
    BY <1>1, <1>2, <1>3, <1>5, WriteStepInv, Zenon DEF WorkerKept
<1> QED
    BY <1>4, <1>5, FinalizersFollow, Zenon

LEMMA OthersWriteInv ==
    ASSUME Inv, NEW a \in Agents, User(a) \/ DependentsGone(a)
    PROVE  Inv'
<1>1. /\ UNCHANGED <<seen, cluster, queue, pc, run, stamp, gauges>>
      /\ Spend("edits") \/ UNCHANGED budget
      /\ "edits" \in Disturbances
    BY ZenonT(30) DEF User, CreateOcmAgent, UpdateOcmAgent, DeleteOcmAgent, DependentsGone,
           Disturbances
<1>2. /\ budget' \in [Disturbances -> Nat] /\ queue' \subseteq Agents /\ WorkerKept
      /\ UNCHANGED <<seen, cluster, stamp, gauges>>
    BY <1>1, SpendType, Zenon DEF Inv, BaseInv, TypeOK, WorkerKept
<1>3. PICK e : Write(a, e) /\ Follows(hist[a], e)
    BY OthersWriteSomething, Zenon DEF OthersWrite
<1> QED
    BY <1>2, <1>3, WriteStepInv, Zenon

\* Steps that leave the histories, the cache and the worker alone, and change
\* no owner.
LEMMA BystanderInv ==
    ASSUME Inv, TypeOK', UNCHANGED <<hist, seen, pc, run>>,
           \A j \in Keys : objs'[j] # Nil /\ objs'[j].owner # Nil
                               => objs[j] # Nil /\ objs'[j].owner = objs[j].owner
    PROVE  Inv'
<1>1. HistoryInv'
    BY Zenon DEF Inv, BaseInv, HistoryInv
<1>2. RunOK(pc, run)'
    BY Zenon DEF Inv, BaseInv, RunOK
<1>3. \A b \in Agents : seen'[b] \in Nat /\ seen[b] <= seen'[b]
    BY SMTT(30) DEF Inv, BaseInv, TypeOK
<1>4. OwnedInv'
    BY <1>3, KeptHorizon, OwnedKept, Zenon DEF WorkerKept
<1> QED
    BY <1>1, <1>2, <1>4, Zenon DEF Inv, BaseInv

LEMMA EnvironmentPutInv ==
    ASSUME Inv, NEW k \in Keys, NEW o \in Objects(k) \cup {Nil},
           o # Nil /\ o.owner # Nil => objs[k] # Nil /\ o.owner = objs[k].owner,
           Put(k, o, {}), budget' \in [Disturbances -> Nat],
           UNCHANGED <<hist, seen, pullSecret, proxy, pc, run, stamp, gauges>>
    PROVE  Inv'
<1>1. /\ DOMAIN objs' = Keys
      /\ \A j \in Keys : objs'[j] \in Objects(j) \cup {Nil}
      /\ objs'[k] = o
      /\ \A j \in Keys : j # k => objs'[j] = objs[j]
      /\ queue' \subseteq Agents
    BY PutType, Zenon DEF Inv, BaseInv
<1>2. TypeOK'
    BY <1>1, ZenonT(30) DEF TypeOK, Inv, BaseInv, gauges
<1> QED
    BY <1>1, <1>2, BystanderInv, Zenon

LEMMA EditedType ==
    ASSUME NEW k \in Keys, NEW d \in DataOf(k), NEW e \in Edited(k, d)
    PROVE  e \in DataOf(k)
<1> USE DEF DataOf, Edited, SpecKinds, ServiceKinds, Namespaces, TrustedCaKey
<1>1. CASE k[1] = "Deployment"
    <2>1. d \in DeploymentData /\ DataOf(k) = DeploymentData
        BY <1>1, Zenon
    <2>2. e \in {[d EXCEPT !.labels = "tampered"], [d EXCEPT !.image = Tampered]}
        BY <1>1
    <2> QED
        BY <2>1, <2>2 DEF DeploymentData
<1>2. CASE k[1] \in ServiceKinds
    <2>1. d \in ServiceData /\ DataOf(k) = ServiceData
        BY <1>2, Zenon
    <2>2. e \in {[d EXCEPT !.labels = "tampered"], [d EXCEPT !.spec = "tampered"]}
        BY <1>2
    <2> QED
        BY <2>1, <2>2, Zenon DEF ServiceData
<1>3. CASE k[1] \in SpecKinds
    BY <1>3
<1>4. CASE k[1] = "ConfigMap"
    <2>1. d \in ConfigMapData /\ DataOf(k) = ConfigMapData
        BY <1>4, Zenon
    <2>2. e = [d EXCEPT !.agentConfig = Tampered]
        BY <1>4
    <2> QED
        BY <2>1, <2>2, ZenonT(30) DEF ConfigMapData
<1>5. CASE k = TrustedCaKey
    BY <1>5, Zenon
<1>6. CASE k[1] \in {"PlainConfigMap", "Secret", "CAMOConfigMap"}
    BY <1>6
<1> QED
    BY <1>1, <1>2, <1>3, <1>4, <1>5, <1>6, SMTT(30) DEF Keys, AgentKinds, CAMOKey

LEMMA TamperInv ==
    ASSUME Inv, NEW k \in Keys, Tamper(k)
    PROVE  Inv'
<1>1. /\ objs[k] # Nil /\ Spend("tampers") /\ "tampers" \in Disturbances
      /\ UNCHANGED <<hist, seen, pullSecret, proxy, pc, run, stamp, gauges>>
    BY Zenon DEF Tamper, Disturbances
<1>2. budget' \in [Disturbances -> Nat]
    BY <1>1, SpendType, Zenon DEF Inv, BaseInv
<1>3. CASE Put(k, Nil, {})
    BY <1>1, <1>2, <1>3, EnvironmentPutInv, Zenon
<1>4. ASSUME NEW d \in Edited(k, objs[k].data), Put(k, [objs[k] EXCEPT !.data = d], {})
      PROVE  Inv'
    <2> DEFINE o == [objs[k] EXCEPT !.data = d]
    <2>1. objs[k] \in Objects(k) /\ objs[k].data \in DataOf(k)
        BY <1>1, ZenonT(30) DEF Inv, BaseInv, TypeOK, Objects
    <2>2. d \in DataOf(k)
        BY <2>1, EditedType, Zenon
    <2>3. o \in Objects(k) /\ o.owner = objs[k].owner
        BY <2>1, <2>2, Zenon DEF Objects
    <2> HIDE DEF o
    <2>4. Put(k, o, {})
        BY <1>4, Zenon DEF o
    <2> QED
        BY <1>1, <1>2, <2>3, <2>4, EnvironmentPutInv, Zenon
<1> QED
    BY <1>3, <1>4, ZenonT(30) DEF Tamper

LEMMA ProvisionInv ==
    ASSUME Inv, NEW s \in TokenSecrets, ProvisionSecret(s)
    PROVE  Inv'
<1> DEFINE k == SecretKey(s)
<1>1. /\ Spend("inputs") /\ "inputs" \in Disturbances
      /\ UNCHANGED <<hist, seen, pullSecret, proxy, pc, run, stamp, gauges>>
    BY Zenon DEF ProvisionSecret, Disturbances
<1>2. budget' \in [Disturbances -> Nat]
    BY <1>1, SpendType, Zenon DEF Inv, BaseInv
<1>3. PICK c \in FleetCreds : Put(k, [owner |-> Nil, data |-> c], {})
    BY Zenon DEF ProvisionSecret
<1> DEFINE o == [owner |-> Nil, data |-> c]
<1>4. k \in Keys /\ o \in Objects(k) /\ o.owner = Nil
    BY SharedKeys, Zenon DEF Objects, Owners
<1> HIDE DEF k, o
<1>5. Put(k, o, {})
    BY <1>3, Zenon DEF o
<1> QED
    BY <1>1, <1>2, <1>4, <1>5, EnvironmentPutInv, Zenon

LEMMA InjectInv ==
    ASSUME Inv, InjectTrustedCa
    PROVE  Inv'
<1> DEFINE k == TrustedCaKey
           o == [objs[k] EXCEPT !.data = "injected"]
<1>1. /\ objs[k] # Nil /\ Put(k, o, {})
      /\ UNCHANGED <<hist, seen, pullSecret, proxy, pc, run, stamp, gauges, budget>>
    BY Zenon DEF InjectTrustedCa
<1>2. k \in Keys /\ "injected" \in DataOf(k)
    BY SharedKeys, Zenon
<1>3. o \in Objects(k) /\ o.owner = objs[k].owner
    <2>1. objs[k] \in Objects(k)
        BY <1>1, <1>2, Zenon DEF Inv, BaseInv, TypeOK
    <2> HIDE DEF k
    <2> QED
        BY <1>2, <2>1, Zenon DEF Objects
<1>4. budget' \in [Disturbances -> Nat]
    BY <1>1, Zenon DEF Inv, BaseInv, TypeOK
<1> HIDE DEF k, o
<1> QED
    BY <1>1, <1>2, <1>3, <1>4, EnvironmentPutInv, Zenon

LEMMA GarbageCollectInv ==
    ASSUME Inv, NEW k \in Keys, GarbageCollect(k)
    PROVE  Inv'
<1>1. /\ DOMAIN objs' = Keys
      /\ \A j \in Keys : objs'[j] \in {objs[j], Nil}
      /\ UNCHANGED <<hist, seen, pullSecret, proxy, pc, run, stamp, gauges, budget>>
    BY Zenon DEF GarbageCollect
<1>2. objs[k].owner.agent \in Agents
    BY Zenon DEF GarbageCollect, Inv, BaseInv, TypeOK, Objects, Owners
<1>3. queue' \subseteq Agents
    BY <1>2, Zenon DEF GarbageCollect, Inv, BaseInv, TypeOK
<1>4. TypeOK'
    BY <1>1, <1>3, Zenon DEF TypeOK, Inv, BaseInv, gauges
<1> QED
    BY <1>1, <1>4, BystanderInv, Zenon

LEMMA InputsInv ==
    ASSUME Inv, ChangePullSecret \/ ChangeProxy
    PROVE  Inv'
<1>1. /\ UNCHANGED <<hist, seen, objs, queue, pc, run, stamp, gauges>>
      /\ Spend("inputs") /\ "inputs" \in Disturbances
      /\ pullSecret' \in Tokens \cup {Nil} /\ proxy' \in Proxies
    BY Zenon DEF ChangePullSecret, ChangeProxy, Disturbances, Inv, BaseInv, TypeOK
<1>2. budget' \in [Disturbances -> Nat]
    BY <1>1, SpendType, Zenon DEF Inv, BaseInv
<1>3. TypeOK'
    BY <1>1, <1>2, Zenon DEF TypeOK, Inv, BaseInv, gauges
<1> QED
    BY <1>1, <1>3, BystanderInv, Zenon

-----------------------------------------------------------------------------
(* Reconcile, the watch and a restart.                                     *)

LEMMA ReconcileInv ==
    ASSUME Inv, NEW a \in Agents, Reconcile(a)
    PROVE  Inv'
<1>1. /\ pc = "idle" /\ UNCHANGED <<hist, seen, objs>>
      /\ UNCHANGED <<pc, run>> \/ Started(a)
      /\ TypeOK'
    BY ReconcileEffect, Zenon
<1>2. HistoryInv'
    BY <1>1, Zenon DEF Inv, BaseInv, HistoryInv
<1>3. CASE UNCHANGED <<pc, run>>
    BY <1>1, <1>3, BystanderInv, Zenon
<1>4. CASE Started(a)
    <2>1. /\ run'.agent = a /\ run'.version = seen[a] /\ Cached(a) # Nil
          /\ pc' \in {"deleteDeployment", "ensureFleetSecret", "fetchPullSecret"}
          /\ pc' \in ExistSteps => ~Cached(a).deleting
          /\ pc' \in AbsentSteps => Cached(a).deleting
        BY <1>4, StartedFacts, ZenonT(30) DEF Started
    <2>2. RunOK(pc, run)'
        BY <1>1, <2>1, CachedFacts, SMTT(30) DEF RunOK
    <2>3. OwnedInv'
        <3>1. \A b \in Agents :
                  /\ Horizon(b) = seen[b] /\ seen[b] \in Nat /\ seen'[b] = seen[b]
            BY <1>1, Zenon DEF Horizon, Inv, BaseInv, TypeOK
        <3>2. \A b \in Agents :
                  Horizon(b) <= IF pc' # "idle" /\ run'.agent = b THEN run'.version
                                                                  ELSE seen'[b]
            BY <2>1, <3>1
        <3> QED
            BY <1>1, <2>1, <3>1, <3>2, OwnedKept, Zenon
    <2> QED
        BY <1>1, <1>2, <2>2, <2>3, Zenon DEF Inv, BaseInv
<1> QED
    BY <1>1, <1>3, <1>4, Zenon

\* The cache only moves forward, up to the current version.
LEMMA SeenInv ==
    ASSUME Inv, TypeOK', UNCHANGED <<hist, objs>>, WorkerKept,
           \A b \in Agents : seen[b] <= seen'[b] /\ seen'[b] \in 1..Len(hist[b])
    PROVE  Inv'
<1>1. HistoryInv'
    BY Zenon DEF Inv, BaseInv, HistoryInv
<1>2. RunOK(pc, run)'
    <2>1. CASE UNCHANGED <<pc, run>> /\ pc # "idle"
        <3>1. run.agent \in Agents /\ run.version \in 1..seen[run.agent]
            BY <2>1, Zenon DEF Inv, BaseInv, RunOK
        <3>2. run.version \in 1..seen'[run.agent]
            BY <3>1, CachedFacts
        <3> QED
            BY <2>1, <3>2, Zenon DEF Inv, BaseInv, RunOK
    <2>2. CASE pc' = "idle"
        BY <2>2, Zenon DEF RunOK
    <2> QED
        BY <2>1, <2>2, Zenon DEF WorkerKept, Return, Goto
<1>3. \A b \in Agents : seen'[b] \in Nat /\ seen[b] <= seen'[b]
    BY CachedFacts, SMTT(30)
<1>4. OwnedInv'
    BY <1>3, KeptHorizon, OwnedKept, Zenon
<1> QED
    BY <1>1, <1>2, <1>4, Zenon DEF Inv, BaseInv

LEMMA WatchEffect ==
    ASSUME Inv, NEW a \in Agents, WatchOcmAgent(a)
    PROVE  /\ TypeOK' /\ UNCHANGED <<hist, objs, pc, run>>
           /\ \A b \in Agents : seen[b] <= seen'[b] /\ seen'[b] \in 1..Len(hist[b])
<1>1. /\ seen[a] < Len(hist[a]) /\ seen' = [seen EXCEPT ![a] = @ + 1]
      /\ queue' = queue \cup {a}
      /\ UNCHANGED <<hist, cluster, pc, run, stamp, gauges, budget>>
    BY Zenon DEF WatchOcmAgent, Version
<1>2. TypeOK'
    BY <1>1 DEF TypeOK, Inv, BaseInv, cluster, gauges
<1>3. \A b \in Agents : seen'[b] = IF b = a THEN seen[a] + 1 ELSE seen[b]
    BY <1>1, Zenon DEF Inv, BaseInv, TypeOK
<1> QED
    BY <1>1, <1>2, <1>3, CachedFacts DEF cluster

LEMMA RestartEffect ==
    ASSUME Inv, Restart
    PROVE  /\ TypeOK' /\ UNCHANGED <<hist, objs>> /\ Return
           /\ \A b \in Agents : /\ seen[b] <= seen'[b] /\ seen'[b] \in 1..Len(hist[b])
                                /\ seen'[b] = Len(hist[b])
<1>1. /\ Return /\ Spend("crashes") /\ "crashes" \in Disturbances
      /\ UNCHANGED <<hist, cluster, stamp>>
      /\ absentGauge' \in GaugeValues
      /\ invalidGauge' \in [Agents -> GaugeValues]
    BY Zenon DEF Restart, Disturbances, GaugeValues
<1>2. /\ seen' \in [Agents -> Nat]
      /\ \A b \in Agents : seen'[b] = Len(hist[b])
    BY CachedFacts, Zenon DEF Restart, Version
<1>3. queue' \subseteq Agents
    <2>1. \A k \in Keys : Controller(objs[k]) \subseteq Agents
        BY ControllerType, Zenon DEF Inv, BaseInv, TypeOK
    <2> QED
        BY <2>1, Zenon DEF Restart
<1>4. budget' \in [Disturbances -> Nat]
    BY <1>1, SpendType, Zenon DEF Inv, BaseInv
<1>5. pc' = "idle" /\ run' \in Runs
    BY <1>1, NoRunType, Zenon DEF Return, Goto
<1>6. TypeOK'
    BY <1>1, <1>2, <1>3, <1>4, <1>5, ZenonT(30) DEF TypeOK, Inv, BaseInv, cluster
<1>7. \A b \in Agents : /\ seen[b] <= seen'[b] /\ seen'[b] \in 1..Len(hist[b])
                         /\ seen'[b] = Len(hist[b])
    BY <1>2, HistoryFacts
<1> QED
    BY <1>1, <1>6, <1>7, ZenonT(30) DEF cluster

-----------------------------------------------------------------------------
(* The invariant holds.                                                    *)

LEMMA InitInv == Init => Inv
<1> SUFFICES ASSUME Init PROVE Inv
    BY Zenon
<1>1. <<Nil>> \in Seq(OcmAgents \cup {Nil}) /\ Len(<<Nil>>) = 1 /\ <<Nil>>[1] = Nil
    OBVIOUS
<1>2. TypeOK
    <2>1. hist \in [Agents -> Seq(OcmAgents \cup {Nil})] /\ seen \in [Agents -> Nat]
        BY <1>1, Zenon DEF Init
    <2>2. DOMAIN objs = Keys /\ \A k \in Keys : objs[k] = Nil
        BY Zenon DEF Init
    <2>3. run \in Runs /\ pc = "idle" /\ queue \subseteq Agents /\ stamp \in Nat
        BY NoRunType, Zenon DEF Init
    <2>4. /\ absentGauge \in GaugeValues /\ invalidGauge \in [Agents -> GaugeValues]
          /\ budget \in [Disturbances -> Nat]
        BY LimitsAssumption, Zenon DEF Init, GaugeValues
    <2> QED
        BY <2>1, <2>2, <2>3, <2>4, Zenon DEF Init, TypeOK
<1>3. HistoryInv
    <2>1. \A v \in 1..Len(<<Nil>>) : <<Nil>>[v] = Nil
        BY <1>1
    <2>2. HistoryOK(<<Nil>>)
        BY <1>1, <2>1 DEF HistoryOK, Histories
    <2>3. \A a \in Agents : hist[a] = <<Nil>> /\ seen[a] = 1
        BY ZenonT(30) DEF Init
    <2>4. \A a \in Agents : HistoryOK(hist[a])
        BY <2>2, <2>3, Zenon
    <2>5. ASSUME NEW a \in Agents PROVE seen[a] \in 1..Len(hist[a])
        <3>1. Len(hist[a]) = 1 /\ seen[a] = 1
            BY <1>1, <2>3, ZenonT(30)
        <3> QED
            BY <3>1
    <2> QED
        BY <2>4, <2>5, Zenon DEF HistoryInv
<1>4. RunOK(pc, run) /\ OwnedInv
    BY Zenon DEF Init, RunOK, OwnedInv
<1> QED
    BY <1>2, <1>3, <1>4, Zenon DEF Inv, BaseInv

LEMMA NextInv == Inv /\ [Next]_vars => Inv'
<1> SUFFICES ASSUME Inv, [Next]_vars PROVE Inv'
    BY Zenon
<1>1. ASSUME NEW a \in Agents, Reconcile(a) PROVE Inv'
    BY <1>1, ReconcileInv, Zenon
<1>2. ASSUME NEW a \in Agents, WatchOcmAgent(a) PROVE Inv'
    BY <1>2, WatchEffect, SeenInv, Zenon DEF WorkerKept
<1>3. CASE Worker
    <2>1. CASE EnsureOCMAgentResourcesExist
        BY <2>1, ExistStep, ObjectStepInv, QuietStepInv, Zenon
    <2>2. CASE addFinalizer \/ removeFinalizer
        BY <2>2, FinalizersInv, Zenon
    <2>3. CASE EnsureOCMAgentResourcesAbsent
        BY <2>3, AbsentStep, ObjectStepInv, Zenon
    <2> QED
        BY <1>3, <2>1, <2>2, <2>3, Zenon DEF Worker
<1>4. CASE Restart
    BY <1>4, RestartEffect, SeenInv, Zenon DEF WorkerKept
<1>5. CASE Environment
    BY Zenon, <1>5, InputsInv, ProvisionInv, TamperInv, GarbageCollectInv,
       OthersWriteInv, InjectInv DEF Environment
<1>6. CASE UNCHANGED vars
    <2>1. /\ UNCHANGED <<hist, seen, objs, pullSecret, proxy, queue, pc, run>>
          /\ UNCHANGED <<stamp, absentGauge, invalidGauge, budget>>
        BY <1>6, Zenon DEF vars
    <2>2. TypeOK'
        BY <2>1, Zenon DEF Inv, BaseInv, TypeOK
    <2> QED
        BY <2>1, <2>2, BystanderInv, Zenon
<1> QED
    BY <1>1, <1>2, <1>3, <1>4, <1>5, <1>6, Zenon DEF Next

LEMMA Invariance == Spec => []Inv
BY InitInv, NextInv, PTL DEF Spec

=============================================================================
