------------------------- MODULE OcmAgentController -------------------------
(***************************************************************************)
(* The OcmAgent controller: Reconcile (controllers/ocmagent) together with *)
(* the handler it drives (pkg/ocmagenthandler), one action per API call    *)
(* that changes the cluster, next to the API server, the informer cache,   *)
(* the work queue and everything else that touches the same objects.       *)
(*                                                                         *)
(* The reconciler reads OcmAgents through the manager's cache; the handler *)
(* reads and writes through an uncached client (main.go).  An Update       *)
(* carries the resource version it read and a Create needs the name to be  *)
(* free, so Get followed by the write takes effect as one step or fails.   *)
(***************************************************************************)
EXTENDS OcmAgentResources

CONSTANTS
    Limits,      \* how often each disturbance may happen in a behaviour
    EarlyDelete, \* may a user delete an OcmAgent that has no finalizer yet
    Foreground,  \* do users ask for foreground deletion: some of TRUE, FALSE
    SameSecond,  \* may two pod restarts fall into the same second
    Seconds      \* restart times told apart; the clock stops at the last

Disturbances == {"edits", "inputs", "tampers", "faults", "crashes"}

ASSUME LimitsAssumption == Limits \in [Disturbances -> Nat]

ASSUME FlagsAssumption ==
    EarlyDelete \in BOOLEAN /\ SameSecond \in BOOLEAN /\ Foreground \subseteq BOOLEAN

ASSUME SecondsAssumption == Seconds \in Nat \ {0}

VARIABLES
    hist,         \* per agent, every version of the OcmAgent; Nil: not there
    seen,         \* per agent, the version the informer cache holds
    objs,         \* the managed objects, by key
    pullSecret,   \* token in openshift-config/pull-secret; Nil: unusable
    proxy,        \* status of the cluster proxy
    queue,        \* requests due now or, after a delay, later
    pc,           \* next step of the one worker
    run,          \* local state of the reconcile in progress
    stamp,        \* last second in which pods were restarted
    absentGauge,  \* ocm_agent_resource_absent
    invalidGauge, \* pull_secret_invalid, by agent
    budget        \* disturbances left

cluster == <<objs, pullSecret, proxy>>
gauges  == <<absentGauge, invalidGauge>>
vars    == <<hist, seen, objs, pullSecret, proxy, queue,
             pc, run, stamp, absentGauge, invalidGauge, budget>>

-----------------------------------------------------------------------------
(* The OcmAgent resource.  A version is the position in hist; a write adds *)
(* one.  The UID is the version that created the resource.                 *)

OcmAgents ==
    [uid: Nat, spec: Specs, finalizer: BOOLEAN, deleting: BOOLEAN,
     foreground: BOOLEAN]

ASSUME NoAgentAssumption == Nil \notin OcmAgents

Version(a) == Len(hist[a])

Current(a) == hist[a][Version(a)]

Cached(a) == hist[a][seen[a]]

\* The copy that the reconcile in progress works on.
instance == hist[run.agent][run.version]

ownerRef == [agent |-> run.agent, uid |-> instance.uid]

Write(a, o) == hist' = [hist EXCEPT ![a] = Append(@, o)]

NoRun ==
    [agent |-> Nil, version |-> 0, token |-> Nil, proxy |-> Nil,
     secretUpdated |-> FALSE, namespaces |-> <<>>]

Runs ==
    [agent: Agents \cup {Nil}, version: Nat, token: Tokens \cup {Nil},
     proxy: Proxies \cup {Nil}, secretUpdated: BOOLEAN,
     namespaces: Seq(Namespaces)]

ExistSteps ==
    {"fetchPullSecret", "ensureSecret", "ensureFleetSecret", "buildEnvVars",
     "ensureDeployment", "ensureConfigMap", "ensureCAMO", "ensureTrustedCa",
     "ensureService", "ensureMetricsService", "ensureNetworkPolicy",
     "ensureServiceMonitor", "ensurePDB", "restartPods", "addFinalizer"}

AbsentSteps ==
    {"deleteDeployment", "deleteService", "deleteMetricsService",
     "deleteConfigMap", "deleteCAMO", "deleteNetworkPolicy",
     "deleteServiceMonitor", "deletePDB", "deleteSecret", "removeFinalizer"}

GaugeValues == {"unset", "0", "1"}

TypeOK ==
    /\ hist \in [Agents -> Seq(OcmAgents \cup {Nil})]
    /\ seen \in [Agents -> Nat]
    /\ DOMAIN objs = Keys
    /\ \A k \in Keys : objs[k] \in Objects(k) \cup {Nil}
    /\ pullSecret \in Tokens \cup {Nil}
    /\ proxy \in Proxies
    /\ queue \subseteq Agents
    /\ pc \in {"idle"} \cup ExistSteps \cup AbsentSteps
    /\ run \in Runs
    /\ stamp \in Nat
    /\ absentGauge \in GaugeValues
    /\ invalidGauge \in [Agents -> GaugeValues]
    /\ budget \in [Disturbances -> Nat]

Init ==
    /\ hist = [a \in Agents |-> <<Nil>>]
    /\ seen = [a \in Agents |-> 1]
    /\ objs = [k \in Keys |-> Nil]
    /\ pullSecret \in Tokens \cup {Nil}
    /\ proxy \in Proxies
    /\ queue = {}
    /\ pc = "idle" /\ run = NoRun
    /\ stamp = 0
    /\ absentGauge = "unset"
    /\ invalidGauge = [a \in Agents |-> "unset"]
    /\ budget = Limits

-----------------------------------------------------------------------------
(* Building blocks.                                                        *)

Spend(d) == budget[d] > 0 /\ budget' = [budget EXCEPT ![d] = @ - 1]

\* The agent whose reconcile an event about object o asks for.
Controller(o) ==
    IF o = Nil THEN {} ELSE IF o.owner = Nil THEN {} ELSE {o.owner.agent}

\* The API server stores o under k; a change enqueues the OcmAgents that own
\* the object, and the requests in "also" come back too.
Put(k, o, also) ==
    /\ objs' = [objs EXCEPT ![k] = o]
    /\ queue' = queue \cup also
                  \cup IF o = objs[k] THEN {}
                       ELSE Controller(objs[k]) \cup Controller(o)

\* Reconcile goes on, or returns; with an error or with RequeueAfter the
\* request comes back.
Goto(step, local) == pc' = step /\ run' = local

Return == Goto("idle", NoRun)

Requeue == queue' = queue \cup {run.agent}

\* One create-or-restore call at time t.  When it fails the write may have
\* taken effect all the same; the handler and Reconcile return the error.
EnsureStepAt(t, k, o, next, local) ==
    /\ stamp' = t
    /\ \/ Put(k, o, {}) /\ Goto(next, local) /\ UNCHANGED budget
       \/ /\ Spend("faults") /\ Return
          /\ Put(k, o, {run.agent}) \/ Put(k, objs[k], {run.agent})
    /\ UNCHANGED <<hist, seen, pullSecret, proxy, gauges>>

EnsureStep(k, o, next, local) == EnsureStepAt(stamp, k, o, next, local)

\* Variant: a failed deletion is not reported.
DeleteStepIgnoringErrors(k, next) ==
    \/ EnsureStep(k, Nil, next, run)
    \/ /\ Spend("faults") /\ Put(k, objs[k], {}) /\ Goto(next, run)
       /\ UNCHANGED <<hist, seen, pullSecret, proxy, stamp, gauges>>

\* Get followed by Delete; nothing happens when the object is not there.
DeleteStep(k, next) == EnsureStep(k, Nil, next, run)

\* A call that only reads: it continues, or fails.
ReadStep(next, local) ==
    /\ \/ Goto(next, local) /\ UNCHANGED <<queue, budget>>
       \/ Spend("faults") /\ Return /\ Requeue
    /\ UNCHANGED <<hist, seen, cluster, stamp, absentGauge>>

\* Variant: the resource version is not sent along.
UpdateUnconditionally(stored) == Write(run.agent, stored)

\* Update of the OcmAgent itself.  The API server refuses it unless the copy
\* is the current version; stored is what the resource then becomes.
Update(stored) ==
    /\ run.version = Version(run.agent)
    /\ Write(run.agent, stored)

FailedUpdate(stored) ==
    /\ Requeue
    /\ \/ run.version # Version(run.agent) /\ UNCHANGED <<hist, budget>>
       \/ Spend("faults") /\ (Update(stored) \/ UNCHANGED hist)

-----------------------------------------------------------------------------
(* Reconcile and EnsureOCMAgentResourcesExist.                             *)

\* In fleet mode the token comes with the secret, not from the pull secret.
firstEnsureFunc(spec) ==
    IF spec.fleetMode THEN "ensureFleetSecret" ELSE "fetchPullSecret"

\* Variant: the finalizer, not the deletion timestamp, decides on removal.
ReconcileByFinalizer(a) ==
    /\ pc = "idle" /\ a \in queue
    /\ queue' = queue \ {a}
    /\ \/ /\ Cached(a) = Nil
          /\ absentGauge' = "1"
          /\ UNCHANGED <<pc, run>>
       \/ /\ Cached(a) # Nil
          /\ absentGauge' = "0"
          /\ Goto(IF Cached(a).finalizer THEN "deleteDeployment"
                                      ELSE firstEnsureFunc(Cached(a).spec),
                  [NoRun EXCEPT !.agent = a, !.version = seen[a]])
    /\ UNCHANGED <<hist, seen, cluster, stamp, invalidGauge, budget>>

\* Variant: the gauge is not reset when the resource is found.
ReconcileKeepingGauge(a) ==
    /\ pc = "idle" /\ a \in queue
    /\ queue' = queue \ {a}
    /\ \/ /\ Cached(a) = Nil
          /\ absentGauge' = "1"
          /\ UNCHANGED <<pc, run>>
       \/ /\ Cached(a) # Nil
          /\ Goto(IF Cached(a).deleting THEN "deleteDeployment"
                                      ELSE firstEnsureFunc(Cached(a).spec),
                  [NoRun EXCEPT !.agent = a, !.version = seen[a]])
          /\ UNCHANGED absentGauge
    /\ UNCHANGED <<hist, seen, cluster, stamp, invalidGauge, budget>>

Reconcile(a) ==
    /\ pc = "idle" /\ a \in queue
    /\ \/ /\ Cached(a) = Nil
          /\ absentGauge' = "1"
          /\ queue' = queue \ {a}
          /\ UNCHANGED <<pc, run, budget>>
       \/ /\ Cached(a) # Nil
          /\ absentGauge' = "0"
          /\ queue' = queue \ {a}
          /\ Goto(IF Cached(a).deleting THEN "deleteDeployment"
                                      ELSE firstEnsureFunc(Cached(a).spec),
                  [NoRun EXCEPT !.agent = a, !.version = seen[a]])
          /\ UNCHANGED budget
       \/ Spend("faults") /\ UNCHANGED <<queue, pc, run, absentGauge>>
    /\ UNCHANGED <<hist, seen, cluster, stamp, invalidGauge>>

\* Variant: the error is not checked.
fetchAccessTokenIgnoringErrors ==
    /\ pc = "fetchPullSecret"
    /\ Goto("ensureSecret", [run EXCEPT !.token = pullSecret])
    /\ invalidGauge' = [invalidGauge EXCEPT ![run.agent] = "0"]
    /\ UNCHANGED <<hist, seen, cluster, queue, stamp, absentGauge, budget>>

\* Variant: the gauge is not reset by a usable pull secret.
fetchAccessTokenKeepingGauge ==
    /\ pc = "fetchPullSecret"
    /\ IF pullSecret # Nil
       THEN /\ Goto("ensureSecret", [run EXCEPT !.token = pullSecret])
            /\ UNCHANGED <<queue, invalidGauge>>
       ELSE /\ Return /\ Requeue
            /\ invalidGauge' = [invalidGauge EXCEPT ![run.agent] = "1"]
    /\ UNCHANGED <<hist, seen, cluster, stamp, absentGauge, budget>>

\* The pull secret is read (and parsed) before the token secret is looked at.
fetchAccessTokenPullSecret ==
    /\ pc = "fetchPullSecret"
    /\ \/ /\ pullSecret # Nil
          /\ Goto("ensureSecret", [run EXCEPT !.token = pullSecret])
          /\ invalidGauge' = [invalidGauge EXCEPT ![run.agent] = "0"]
          /\ UNCHANGED <<queue, budget>>
       \/ /\ pullSecret = Nil
          /\ Return /\ Requeue
          /\ invalidGauge' = [invalidGauge EXCEPT ![run.agent] = "1"]
          /\ UNCHANGED budget
       \/ /\ Spend("faults")
          /\ Return /\ Requeue
          /\ invalidGauge' = [invalidGauge EXCEPT ![run.agent] = "1"]
    /\ UNCHANGED <<hist, seen, cluster, stamp, absentGauge>>

ensureAccessTokenSecret ==
    LET k == SecretKey(instance.spec.tokenSecret)
        o == EnsuredSecret(objs[k], ownerRef, run.token)
    IN  /\ pc = "ensureSecret"
        /\ EnsureStep(k, o, "buildEnvVars",
                      [run EXCEPT !.secretUpdated = (o # objs[k])])

\* In fleet mode the secret has to be there already.
ensureFleetClientSecret ==
    /\ pc = "ensureFleetSecret"
    /\ \/ /\ objs[SecretKey(instance.spec.tokenSecret)] # Nil
          /\ ReadStep("buildEnvVars", run)
       \/ /\ objs[SecretKey(instance.spec.tokenSecret)] = Nil
          /\ Return /\ Requeue
          /\ UNCHANGED <<hist, seen, cluster, stamp, absentGauge, budget>>
    /\ UNCHANGED invalidGauge

buildEnvVars ==
    /\ pc = "buildEnvVars"
    /\ ReadStep("ensureDeployment", [run EXCEPT !.proxy = proxy])
    /\ UNCHANGED invalidGauge

ensureDeployment ==
    LET k == DeploymentKey(run.agent)
    IN  /\ pc = "ensureDeployment"
        /\ EnsureStep(k, EnsuredDeployment(objs[k], ownerRef,
                             buildOCMAgentDeployment(instance.spec, run.proxy)),
                      "ensureConfigMap", run)

ensureConfigMap(k, ref, data, next) ==
    EnsureStep(k, EnsuredConfigMap(k, objs[k], ref, data), next, run)

\* The CAMO ConfigMap lives in another namespace and gets no owner.
ensureAllConfigMaps ==
    \/ /\ pc = "ensureConfigMap"
       /\ ensureConfigMap(ConfigMapKey(run.agent), ownerRef,
                          buildOCMAgentConfigMap(instance.spec),
                          IF instance.spec.fleetMode THEN "ensureTrustedCa"
                                                     ELSE "ensureCAMO")
    \/ /\ pc = "ensureCAMO"
       /\ ensureConfigMap(CAMOKey, Nil, buildCAMOConfigMap(run.agent),
                          "ensureTrustedCa")
    \/ /\ pc = "ensureTrustedCa"
       /\ ensureConfigMap(TrustedCaKey, ownerRef, buildTrustedCaConfigMap,
                          "ensureService")

ensureService ==
    LET s == ServiceKey(run.agent)
        m == MetricsServiceKey(run.agent)
    IN  \/ /\ pc = "ensureService"
           /\ EnsureStep(s, EnsuredService(objs[s], ownerRef, buildOCMAgentService),
                         "ensureMetricsService", run)
        \/ /\ pc = "ensureMetricsService"
           /\ EnsureStep(m, EnsuredService(objs[m], ownerRef,
                                           buildOCMAgentMetricsService),
                         "ensureNetworkPolicy",
                         [run EXCEPT !.namespaces =
                              networkPolicyNamespaces(instance.spec)])

\* Variant: the loop over the policies returns after the first.
NetworkPolicyStepOnce(k, o, step, after) ==
    EnsureStep(k, o, after, [run EXCEPT !.namespaces = <<>>])

\* One policy per step, in the order of the list.
NetworkPolicyStep(k, o, step, after) ==
    LET rest == Tail(run.namespaces)
    IN  EnsureStep(k, o, IF rest = <<>> THEN after ELSE step,
                   [run EXCEPT !.namespaces = rest])

ensureNetworkPolicy ==
    LET k == NetworkPolicyKey(run.agent, Head(run.namespaces))
    IN  /\ pc = "ensureNetworkPolicy"
        /\ NetworkPolicyStep(k, EnsuredSpec(objs[k], ownerRef), pc,
                             "ensureServiceMonitor")

\* Variant: an updated secret is not acted upon.
afterEnsureFuncsNoRestart == "addFinalizer"

afterEnsureFuncs == IF run.secretUpdated THEN "restartPods" ELSE "addFinalizer"

ensureServiceMonitor ==
    LET k == ServiceMonitorKey(run.agent)
    IN  /\ pc = "ensureServiceMonitor"
        /\ EnsureStep(k, EnsuredSpec(objs[k], ownerRef),
                      IF instance.spec.replicas > 1 THEN "ensurePDB"
                                                    ELSE afterEnsureFuncs,
                      run)

ensurePodDisruptionBudget ==
    LET k == PDBKey(run.agent)
    IN  /\ pc = "ensurePDB"
        /\ EnsureStep(k, EnsuredSpec(objs[k], ownerRef), afterEnsureFuncs, run)

\* Variant: the annotation always has the same value.
restartSecondsFixed == {1}

\* The annotation is the time in whole seconds: a restart in the second of
\* the previous one writes the same value.
restartSeconds ==
    {t \in 1..Seconds : \/ t = stamp + 1
                        \/ t = stamp /\ (SameSecond \/ stamp = Seconds)}

restartOCMAgentPods ==
    LET k == DeploymentKey(run.agent)
    IN  /\ pc = "restartPods"
        /\ \/ /\ objs[k] # Nil
              /\ \E t \in restartSeconds :
                     EnsureStepAt(t, k, [objs[k] EXCEPT !.data.restartedAt = t],
                                  "addFinalizer", run)
           \/ /\ objs[k] = Nil
              /\ Return /\ Requeue
              /\ UNCHANGED <<hist, seen, cluster, stamp, gauges, budget>>

\* Variant: no RequeueAfter, so reconciles happen on events only.
addFinalizerNoRequeue ==
    /\ pc = "addFinalizer"
    /\ \/ instance.finalizer /\ UNCHANGED hist
       \/ ~instance.finalizer /\ Update([instance EXCEPT !.finalizer = TRUE])
    /\ Return
    /\ UNCHANGED <<seen, cluster, queue, stamp, gauges, budget>>

\* The finalizer is set once everything is deployed; Reconcile then returns
\* RequeueAfter, or an error that brings the request back as well.
addFinalizer ==
    LET stored == [instance EXCEPT !.finalizer = TRUE]
    IN  /\ pc = "addFinalizer"
        /\ \/ instance.finalizer /\ Requeue /\ UNCHANGED <<hist, budget>>
           \/ ~instance.finalizer /\ Update(stored) /\ Requeue /\ UNCHANGED budget
           \/ ~instance.finalizer /\ FailedUpdate(stored)
        /\ Return
        /\ UNCHANGED <<seen, cluster, stamp, gauges>>

-----------------------------------------------------------------------------
(* EnsureOCMAgentResourcesAbsent.                                          *)

ensureDeploymentDeleted ==
    /\ pc = "deleteDeployment"
    /\ DeleteStep(DeploymentKey(run.agent), "deleteService")

\* When the first service is not found the function returns at once and the
\* metrics service is not looked at.
ensureServiceDeleted ==
    \/ /\ pc = "deleteService"
       /\ DeleteStep(ServiceKey(run.agent),
                     IF objs[ServiceKey(run.agent)] = Nil
                     THEN "deleteConfigMap" ELSE "deleteMetricsService")
    \/ /\ pc = "deleteMetricsService"
       /\ DeleteStep(MetricsServiceKey(run.agent), "deleteConfigMap")

\* Variant: the ConfigMap in the other namespace is forgotten.
ensureConfigMapDeletedOnly ==
    /\ pc = "deleteConfigMap"
    /\ EnsureStep(PlainConfigMapKey(run.agent), Nil, "deleteNetworkPolicy",
                  [run EXCEPT !.namespaces =
                       networkPolicyNamespaces(instance.spec)])

\* The first name is that of the agent, without the "-cm" suffix.
ensureAllConfigMapsDeleted ==
    \/ /\ pc = "deleteConfigMap"
       /\ DeleteStep(PlainConfigMapKey(run.agent), "deleteCAMO")
    \/ /\ pc = "deleteCAMO"
       /\ EnsureStep(CAMOKey, Nil, "deleteNetworkPolicy",
                     [run EXCEPT !.namespaces =
                          networkPolicyNamespaces(instance.spec)])

ensureNetworkPolicyDeleted ==
    /\ pc = "deleteNetworkPolicy"
    /\ NetworkPolicyStep(NetworkPolicyKey(run.agent, Head(run.namespaces)),
                         Nil, pc, "deleteServiceMonitor")

ensureServiceMonitorDeleted ==
    /\ pc = "deleteServiceMonitor"
    /\ DeleteStep(ServiceMonitorKey(run.agent), "deletePDB")

ensurePodDisruptionBudgetDeleted ==
    /\ pc = "deletePDB"
    /\ DeleteStep(PDBKey(run.agent),
                  IF instance.spec.fleetMode THEN "removeFinalizer"
                                             ELSE "deleteSecret")

ensureAccessTokenSecretDeleted ==
    /\ pc = "deleteSecret"
    /\ DeleteStep(SecretKey(instance.spec.tokenSecret), "removeFinalizer")

\* Removing the last finalizer of a deleted resource makes it disappear.
Finalized(o) ==
    IF o.finalizer \/ o.foreground THEN o ELSE Nil

\* Variant: the finalizer is removed from the copy, which is not written.
removeFinalizerNoUpdate ==
    /\ pc = "removeFinalizer"
    /\ Return
    /\ UNCHANGED <<hist, seen, cluster, queue, stamp, gauges, budget>>

removeFinalizer ==
    LET stored == Finalized([instance EXCEPT !.finalizer = FALSE])
    IN  /\ pc = "removeFinalizer"
        /\ \/ ~instance.finalizer /\ UNCHANGED <<hist, queue, budget>>
           \/ instance.finalizer /\ Update(stored) /\ UNCHANGED <<queue, budget>>
           \/ instance.finalizer /\ FailedUpdate(stored)
        /\ Return
        /\ UNCHANGED <<seen, cluster, stamp, gauges>>

-----------------------------------------------------------------------------
(* Watches, queue and process of the operator (controller-runtime).        *)

\* The informer applies the next version of an OcmAgent and enqueues it.
WatchOcmAgent(a) ==
    /\ seen[a] < Version(a)
    /\ seen' = [seen EXCEPT ![a] = @ + 1]
    /\ queue' = queue \cup {a}
    /\ UNCHANGED <<hist, cluster, pc, run, stamp, gauges, budget>>

\* The operator stops and starts again: the caches are filled afresh and the
\* first listing enqueues every OcmAgent and every owner of a listed object.
Restart ==
    /\ Spend("crashes")
    /\ Return
    /\ seen' = [a \in Agents |-> Version(a)]
    /\ queue' = {a \in Agents : Current(a) # Nil}
                  \cup UNION {Controller(objs[k]) : k \in Keys}
    /\ absentGauge' = "unset"
    /\ invalidGauge' = [a \in Agents |-> "unset"]
    /\ UNCHANGED <<hist, cluster, stamp>>

-----------------------------------------------------------------------------
(* Users, other controllers and the inputs the operator polls (external).  *)

CreateOcmAgent(a, spec) ==
    /\ Current(a) = Nil
    /\ Spend("edits")
    /\ Write(a, [uid |-> Version(a) + 1, spec |-> spec, finalizer |-> FALSE,
                 deleting |-> FALSE, foreground |-> FALSE])
    /\ UNCHANGED <<seen, cluster, queue, pc, run, stamp, gauges>>

UpdateOcmAgent(a, spec) ==
    /\ Current(a) # Nil /\ Current(a).spec # spec
    /\ Spend("edits")
    /\ Write(a, [Current(a) EXCEPT !.spec = spec])
    /\ UNCHANGED <<seen, cluster, queue, pc, run, stamp, gauges>>

\* With foreground propagation the resource waits for its dependents too.
DeleteOcmAgent(a, foreground) ==
    /\ Current(a) # Nil /\ ~Current(a).deleting
    /\ Current(a).finalizer \/ EarlyDelete
    /\ Spend("edits")
    /\ Write(a, Finalized([Current(a) EXCEPT !.deleting = TRUE,
                                             !.foreground = foreground]))
    /\ UNCHANGED <<seen, cluster, queue, pc, run, stamp, gauges>>

ChangePullSecret ==
    /\ Spend("inputs")
    /\ pullSecret' \in (Tokens \cup {Nil}) \ {pullSecret}
    /\ UNCHANGED <<hist, seen, objs, proxy, queue, pc, run, stamp, gauges>>

ChangeProxy ==
    /\ Spend("inputs")
    /\ proxy' \in Proxies \ {proxy}
    /\ UNCHANGED <<hist, seen, objs, pullSecret, queue, pc, run, stamp, gauges>>

\* The secret of a fleet-mode agent is put in place by something else.
ProvisionSecret(s) ==
    /\ objs[SecretKey(s)] = Nil
    /\ Spend("inputs")
    /\ \E c \in FleetCreds : Put(SecretKey(s), [owner |-> Nil, data |-> c], {})
    /\ UNCHANGED <<hist, seen, pullSecret, proxy, pc, run, stamp, gauges>>

\* What somebody else may turn the data of an object into.
Edited(k, d) ==
    CASE k[1] = "Deployment"   -> {[d EXCEPT !.labels = "tampered"],
                                   [d EXCEPT !.image = Tampered]}
      [] k[1] \in ServiceKinds -> {[d EXCEPT !.labels = "tampered"],
                                   [d EXCEPT !.spec = "tampered"]}
      [] k[1] \in SpecKinds    -> {"tampered"}
      [] k[1] = "ConfigMap"    -> {[d EXCEPT !.agentConfig = Tampered]}
      [] k = TrustedCaKey      -> {"empty"}
      [] OTHER                 -> {Tampered}

Tamper(k) ==
    /\ objs[k] # Nil
    /\ Spend("tampers")
    /\ \/ Put(k, Nil, {})
       \/ \E d \in Edited(k, objs[k].data) : Put(k, [objs[k] EXCEPT !.data = d], {})
    /\ UNCHANGED <<hist, seen, pullSecret, proxy, pc, run, stamp, gauges>>

\* The OcmAgent that an object refers to is there, is the same one, and is
\* not waiting for its dependents to disappear.
Holds(ref) ==
    /\ Current(ref.agent) # Nil
    /\ Current(ref.agent).uid = ref.uid
    /\ ~Current(ref.agent).foreground

\* The collector removes the objects of such an owner; the order in which it
\* does is not modelled.
Dependents(ref) == {k \in Keys : objs[k] # Nil /\ objs[k].owner = ref}

GarbageCollect(k) ==
    /\ objs[k] # Nil /\ objs[k].owner # Nil /\ ~Holds(objs[k].owner)
    /\ objs' = [j \in Keys |-> IF j \in Dependents(objs[k].owner) THEN Nil
                                                                  ELSE objs[j]]
    /\ queue' = queue \cup {objs[k].owner.agent}
    /\ UNCHANGED <<hist, seen, pullSecret, proxy, pc, run, stamp, gauges, budget>>

DependentsGone(a) ==
    /\ Current(a) # Nil /\ Current(a).foreground
    /\ Dependents([agent |-> a, uid |-> Current(a).uid]) = {}
    /\ Write(a, Finalized([Current(a) EXCEPT !.foreground = FALSE]))
    /\ UNCHANGED <<seen, cluster, queue, pc, run, stamp, gauges, budget>>

\* The cluster network operator injects the CA bundle.
InjectTrustedCa ==
    /\ objs[TrustedCaKey] # Nil /\ objs[TrustedCaKey].data = "empty"
    /\ Put(TrustedCaKey, [objs[TrustedCaKey] EXCEPT !.data = "injected"], {})
    /\ UNCHANGED <<hist, seen, pullSecret, proxy, pc, run, stamp, gauges, budget>>

-----------------------------------------------------------------------------
EnsureOCMAgentResourcesExist ==
    \/ fetchAccessTokenPullSecret
    \/ ensureAccessTokenSecret
    \/ ensureFleetClientSecret
    \/ buildEnvVars
    \/ ensureDeployment
    \/ ensureAllConfigMaps
    \/ ensureService
    \/ ensureNetworkPolicy
    \/ ensureServiceMonitor
    \/ ensurePodDisruptionBudget
    \/ restartOCMAgentPods

EnsureOCMAgentResourcesAbsent ==
    \/ ensureDeploymentDeleted
    \/ ensureServiceDeleted
    \/ ensureAllConfigMapsDeleted
    \/ ensureNetworkPolicyDeleted
    \/ ensureServiceMonitorDeleted
    \/ ensurePodDisruptionBudgetDeleted
    \/ ensureAccessTokenSecretDeleted

Worker ==
    \/ EnsureOCMAgentResourcesExist
    \/ addFinalizer
    \/ EnsureOCMAgentResourcesAbsent
    \/ removeFinalizer

User(a) ==
    \/ \E spec \in Specs : CreateOcmAgent(a, spec) \/ UpdateOcmAgent(a, spec)
    \/ \E foreground \in Foreground : DeleteOcmAgent(a, foreground)

Environment ==
    \/ ChangePullSecret
    \/ ChangeProxy
    \/ \E s \in TokenSecrets : ProvisionSecret(s)
    \/ \E k \in Keys : Tamper(k) \/ GarbageCollect(k)
    \/ \E a \in Agents : User(a) \/ DependentsGone(a)
    \/ InjectTrustedCa

Next ==
    \/ \E a \in Agents : Reconcile(a) \/ WatchOcmAgent(a)
    \/ Worker
    \/ Restart
    \/ Environment

Spec == Init /\ [][Next]_vars

\* The worker goes on with a reconcile and the queue is first-in first-out,
\* so no request is passed over for ever; the watches, the garbage
\* collector and the network operator do their work in the end.
\* Users, failures and restarts need not happen.
Fairness ==
    /\ WF_vars(Worker)
    /\ \A a \in Agents : SF_vars(Reconcile(a))
    /\ \A a \in Agents : WF_vars(WatchOcmAgent(a)) /\ WF_vars(DependentsGone(a))
    /\ WF_vars(\E k \in Keys : GarbageCollect(k))
    /\ WF_vars(InjectTrustedCa)

FairSpec == Spec /\ Fairness

-----------------------------------------------------------------------------
(* Safety.                                                                 *)

\* The OcmAgent that an object belongs to exists and nobody deleted it.
Live(ref) ==
    /\ Current(ref.agent) # Nil
    /\ Current(ref.agent).uid = ref.uid
    /\ ~Current(ref.agent).deleting

\* EnsureOCMAgentResourcesAbsent, which goes by names and works from a cached
\* copy, never removes an object that belongs to a live OcmAgent of the name
\* it was called for: not even when the resource was deleted and created
\* again while the removal was under way or had to be repeated.
RemovesOnlyTheDead ==
    [][\A k \in Keys :
          /\ EnsureOCMAgentResourcesAbsent
          /\ objs[k] # Nil /\ objs'[k] = Nil /\ objs[k].owner # Nil
          /\ objs[k].owner.agent = run.agent
          => ~Live(objs[k].owner)]_vars

\* The ConfigMap for the Alertmanager operator has no owner, so nothing but
\* ensureAllConfigMapsDeleted ever removes it: as long as it is there, some
\* OcmAgent is there whose removal still lies ahead.
\* (An OcmAgent deleted before it got its finalizer breaks this.)
Guards(a) ==
    Current(a) # Nil /\ (~Current(a).deleting \/ Current(a).finalizer)

CAMOConfigMapGuarded ==
    objs[CAMOKey] # Nil => \E a \in Agents : Guards(a)

\* Whenever the reconciler lets an OcmAgent go, what the finalizer protects
\* is gone: the Deployment, the Service, the CAMO ConfigMap, the network
\* policies of its mode, the ServiceMonitor, the disruption budget, and,
\* unless it is a fleet-mode agent, the token secret that an OcmAgent owned.
Removed(a, spec) ==
    /\ \A kind \in {"Deployment", "Service", "ServiceMonitor", "PDB"} :
           objs[<<kind, a>>] = Nil
    /\ objs[CAMOKey] = Nil
    /\ \A i \in 1..Len(networkPolicyNamespaces(spec)) :
           objs[NetworkPolicyKey(a, networkPolicyNamespaces(spec)[i])] = Nil
    /\ ~spec.fleetMode => Controller(objs[SecretKey(spec.tokenSecret)]) = {}

Released(a) ==
    /\ Current(a) # Nil /\ Current(a).finalizer
    /\ (Current(a) = Nil)' \/ (~Current(a).finalizer)'

FinalizerReleasedClean ==
    [][\A a \in Agents : Released(a) => Removed(a, Current(a).spec)]_vars

\* Neither addFinalizer nor removeFinalizer, which write back a whole cached
\* copy, ever undoes a change that a user made to the resource meanwhile.
NoLostEdit ==
    [][\A a \in Agents :
          /\ addFinalizer \/ removeFinalizer
          /\ Current(a) # Nil /\ (Current(a) # Nil)'
          => /\ Current(a)'.spec = Current(a).spec
             /\ Current(a)'.deleting = Current(a).deleting]_vars

\* No OcmAgent that still needs the reconciler drops out of its sight: its
\* request is in the queue, is being worked on, or comes with a version that
\* the cache has yet to see.  (The reconciles come back by RequeueAfter and
\* errors only; one return without either, and a change that no event tells
\* of, such as that of the pull secret, would go unnoticed for ever.)
NeverForgotten ==
    \A a \in Agents :
        Guards(a) => \/ a \in queue
                     \/ pc # "idle" /\ run.agent = a
                     \/ seen[a] < Version(a)

\* The objects that EnsureOCMAgentResourcesExist puts in place for a spec, and
\* what they are then like.  The Deployment is compared in the fields that
\* deploymentConfigChanged looks at, its own labels apart; the secret may have
\* been removed, and provisioned anew, by others.
Wanted(a, spec) ==
    {DeploymentKey(a), ConfigMapKey(a), TrustedCaKey, ServiceKey(a),
     MetricsServiceKey(a), ServiceMonitorKey(a)}
      \cup {NetworkPolicyKey(a, networkPolicyNamespaces(spec)[i]) :
               i \in 1..Len(networkPolicyNamespaces(spec))}
      \cup {k \in {PDBKey(a)} : spec.replicas > 1}
      \cup {k \in {CAMOKey, SecretKey(spec.tokenSecret)} : ~spec.fleetMode}

FollowsSpec(d, spec, env) ==
    /\ d.image = spec.ocmAgentImage
    /\ d.secretName = spec.tokenSecret
    /\ d.proxy = env
    /\ d.replicas = spec.replicas

AsBuilt(k, d, spec, r) ==
    CASE k[1] = "Deployment"    -> FollowsSpec(d, spec, r.proxy)
      [] k[1] = "ConfigMap"     -> d = buildOCMAgentConfigMap(spec)
      [] k[1] \in ServiceKinds  -> d.spec = "built"
      [] k[1] \in SpecKinds     -> d = builtSpec
      [] k[1] = "Secret"        -> d \in {r.token} \cup FleetCreds
      [] k[1] = "CAMOConfigMap" -> d = buildCAMOConfigMap(r.agent)
      [] OTHER                  -> TRUE

InPlace(k, spec, r) == objs[k] # Nil /\ AsBuilt(k, objs[k].data, spec, r)

\* Somebody has changed or removed a managed object.
Meddled == budget["tampers"] < Limits["tampers"]

\* An OcmAgent of this name has been deleted.
Departed(a) ==
    \E v \in 1..Version(a) :
        hist[a][v] # Nil /\ ~Live([agent |-> a, uid |-> hist[a][v].uid])

\* The owners an object can have; the CAMO ConfigMap has none.
Keepers(k, a) ==
    IF k[1] \in AgentKinds THEN {a} ELSE IF k = CAMOKey THEN {} ELSE Agents

\* Why an object is not in place: somebody meddled, or it was collected after
\* the deletion of its owner; and the agent's own objects bring its request
\* back, the shared ones that of their owner.
Excused(k, a) ==
    \/ Meddled /\ (k[1] \in AgentKinds => a \in queue)
    \/ objs[k] = Nil /\ \E b \in Keepers(k, a) : Departed(b) /\ b \in queue

\* When EnsureOCMAgentResourcesExist reports success and the finalizer is
\* about to be set, every object that the spec asks for is in place, although
\* it was ensured many calls ago, by a handler that goes by names and leaves
\* the owner it finds.  The only exceptions are objects that others have
\* changed or that the garbage collector took because an OcmAgent was deleted,
\* and then the reconcile that repairs them has already been asked for.
DeploymentComplete ==
    pc = "addFinalizer" =>
        \A k \in Wanted(run.agent, instance.spec) :
            InPlace(k, instance.spec, run) \/ Excused(k, run.agent)

=============================================================================
