------------------------- MODULE OcmAgentResources -------------------------
(***************************************************************************)
(* The objects the OCM Agent handler manages (pkg/ocmagenthandler), as     *)
(* pure operators: their names, what the build functions put in them, the  *)
(* comparisons that decide whether an existing object is restored, and     *)
(* what a restoration overwrites.                                          *)
(*                                                                         *)
(* An object is a record [owner, data].  "owner" is the controller         *)
(* reference: the name and UID of an OcmAgent, or Nil.  "data" keeps only  *)
(* what the handler writes or compares.                                    *)
(***************************************************************************)
EXTENDS Integers, Sequences

CONSTANTS
    Agents,        \* names of OcmAgent resources
    TokenSecrets,  \* values of spec.tokenSecret
    Images,        \* values of spec.ocmAgentImage
    Configs,       \* values of spec.agentConfig
    Specs,         \* the OcmAgent specs a user may apply
    Tokens,        \* access tokens a valid pull secret can carry
    Proxies,       \* values of the cluster proxy status
    FleetCreds,    \* contents of a secret that something else provisioned
    Tampered,      \* content nobody expects
    Nil            \* absence

SpecType ==
    [fleetMode: BOOLEAN, replicas: Nat, tokenSecret: TokenSecrets,
     agentConfig: Configs, ocmAgentImage: Images]

ASSUME SpecsAssumption == Specs \subseteq SpecType

ASSUME NilAssumption ==
    Nil \notin Agents \cup Tokens \cup Proxies \cup {Tampered}

-----------------------------------------------------------------------------
(* Names.  A key stands for kind, namespace and name.                      *)

\* The namespaces whose clients may reach the agent; one policy for each.
Namespaces == {"Monitoring", "RHOBS", "MUO", "OBO"}

SecretKey(s)           == <<"Secret", s>>
DeploymentKey(a)       == <<"Deployment", a>>
ConfigMapKey(a)        == <<"ConfigMap", a>>       \* name + "-cm"
PlainConfigMapKey(a)   == <<"PlainConfigMap", a>>  \* the name itself
ServiceKey(a)          == <<"Service", a>>
MetricsServiceKey(a)   == <<"MetricsService", a>>
ServiceMonitorKey(a)   == <<"ServiceMonitor", a>>
PDBKey(a)              == <<"PDB", a>>
NetworkPolicyKey(a, n) == <<n, a>>
CAMOKey                == <<"CAMOConfigMap", Nil>> \* openshift-monitoring
TrustedCaKey           == <<"TrustedCa", Nil>>

SpecKinds    == {"ServiceMonitor", "PDB"} \cup Namespaces
ServiceKinds == {"Service", "MetricsService"}
AgentKinds   == {"Deployment", "ConfigMap", "PlainConfigMap"}
                  \cup ServiceKinds \cup SpecKinds

Keys == (AgentKinds \X Agents) \cup ({"Secret"} \X TokenSecrets)
          \cup {CAMOKey, TrustedCaKey}

-----------------------------------------------------------------------------
(* What the build functions produce.                                       *)

\* image stands for every field of the pod template that
\* deploymentConfigChanged compares and the spec fixes; fleet for the
\* command line, which it does not compare.
buildOCMAgentDeployment(spec, proxy) ==
    [labels |-> "app", image |-> spec.ocmAgentImage,
     secretName |-> spec.tokenSecret, proxy |-> proxy,
     replicas |-> spec.replicas, fleet |-> spec.fleetMode,
     restartedAt |-> 0]

\* The cluster ID is left out in fleet mode.
buildOCMAgentConfigMap(spec) ==
    [agentConfig |-> spec.agentConfig, clusterID |-> ~spec.fleetMode]

\* The URL of the agent's service: the agent's name identifies it.
buildCAMOConfigMap(a) == a

\* Only the injection label; the cluster network operator fills in the data.
buildTrustedCaConfigMap == "empty"

buildOCMAgentService == [labels |-> "none", spec |-> "built"]

buildOCMAgentMetricsService == [labels |-> "app", spec |-> "built"]

\* Network policies, service monitor and disruption budget: only the spec.
builtSpec == "built"

\* The same list in ensureAllNetworkPolicies and its deletion.
networkPolicyNamespaces(spec) ==
    IF spec.fleetMode THEN <<"Monitoring", "RHOBS", "OBO">>
                      ELSE <<"Monitoring", "MUO">>

-----------------------------------------------------------------------------
(* Types of the data, by key.                                              *)

DeploymentData ==
    [labels: {"app", "tampered"}, image: Images \cup {Tampered},
     secretName: TokenSecrets, proxy: Proxies, replicas: Nat,
     fleet: BOOLEAN, restartedAt: Nat]

ServiceData == [labels: {"app", "none", "tampered"}, spec: {"built", "tampered"}]

ConfigMapData == [agentConfig: Configs \cup {Tampered}, clusterID: BOOLEAN]

DataOf(k) ==
    CASE k[1] = "Deployment"    -> DeploymentData
      [] k[1] \in ServiceKinds  -> ServiceData
      [] k[1] \in SpecKinds     -> {"built", "tampered"}
      [] k[1] = "ConfigMap"     -> ConfigMapData
      [] k[1] = "Secret"        -> Tokens \cup FleetCreds \cup {Tampered}
      [] k[1] = "CAMOConfigMap" -> Agents \cup {Tampered}
      [] k[1] = "TrustedCa"     -> {"empty", "injected"}
      [] OTHER                  -> {Tampered}

Owners == [agent: Agents, uid: Nat] \cup {Nil}

Objects(k) == [owner: Owners, data: DataOf(k)]

ASSUME NoObjectAssumption ==
    Nil \notin [agent: Agents, uid: Nat] /\ \A k \in Keys : Nil \notin Objects(k)

-----------------------------------------------------------------------------
(* Comparison and restoration: the object that Get followed by Create or   *)
(* Update leaves behind.  "ref" is the owner a created object gets.        *)

\* Only the Data field of a secret is overwritten.
EnsuredSecret(found, ref, token) ==
    IF found = Nil THEN [owner |-> ref, data |-> token]
                   ELSE [found EXCEPT !.data = token]

\* Variant: the container comparison is left out.
deploymentConfigChangedNoImage(current, expected) ==
    \/ current.labels # expected.labels
    \/ current.replicas # expected.replicas

deploymentConfigChanged(current, expected) ==
    \/ current.labels # expected.labels
    \/ current.image # expected.image
    \/ current.secretName # expected.secretName
    \/ current.proxy # expected.proxy
    \/ current.replicas # expected.replicas

\* The whole Spec is replaced, the restart annotation of its template
\* included; the labels of the Deployment itself are left as found.
EnsuredDeployment(found, ref, expected) ==
    IF found = Nil THEN [owner |-> ref, data |-> expected]
    ELSE IF deploymentConfigChanged(found.data, expected)
         THEN [found EXCEPT !.data = [expected EXCEPT !.labels = found.data.labels]]
         ELSE found

serviceConfigChanged(current, expected) ==
    current.labels # expected.labels \/ current.spec # expected.spec

EnsuredService(found, ref, expected) ==
    IF found = Nil THEN [owner |-> ref, data |-> expected]
    ELSE IF serviceConfigChanged(found.data, expected)
         THEN [found EXCEPT !.data.spec = expected.spec]
         ELSE found

\* Variant: the trusted CA bundle is restored like any other ConfigMap.
EnsuredConfigMapRestoringCa(k, found, ref, data) ==
    IF found = Nil THEN [owner |-> ref, data |-> data]
                   ELSE [found EXCEPT !.data = data]

\* Variant: the controller reference is never set.
EnsuredConfigMapUnowned(k, found, ref, data) ==
    IF found = Nil THEN [owner |-> Nil, data |-> data]
    ELSE IF k = TrustedCaKey THEN found ELSE [found EXCEPT !.data = data]

\* An existing trusted-ca-bundle is never updated.
EnsuredConfigMap(k, found, ref, data) ==
    IF found = Nil THEN [owner |-> ref, data |-> data]
    ELSE IF k = TrustedCaKey THEN found ELSE [found EXCEPT !.data = data]

EnsuredSpec(found, ref) ==
    IF found = Nil THEN [owner |-> ref, data |-> builtSpec]
                   ELSE [found EXCEPT !.data = builtSpec]

=============================================================================
