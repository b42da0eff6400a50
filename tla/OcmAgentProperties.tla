------------------------- MODULE OcmAgentProperties -------------------------
(***************************************************************************)
(* What the OcmAgent controller brings about in the end, the life of an    *)
(* OcmAgent that it implements, and what comments and documents say of it. *)
(***************************************************************************)
EXTENDS OcmAgentController

-----------------------------------------------------------------------------
(* What the finalizer promises.                                            *)

\* The stage that a version of the resource stands for.
StageOf(o) ==
    IF o = Nil THEN "absent"
    ELSE IF o.deleting THEN IF o.finalizer THEN "leaving" ELSE "released"
                       ELSE IF o.finalizer THEN "guarded" ELSE "new"

OwnKinds(a) == {kind \in AgentKinds : objs[<<kind, a>>] # Nil}

\* The policy for the monitoring namespace is the one that both modes have.
CleanedKinds == {"Deployment", "Service", "ServiceMonitor", "PDB", "Monitoring"}

Finalizing == INSTANCE AgentLifecycle
    WITH stage     <- [a \in Agents |-> StageOf(Current(a))],
         kept      <- [a \in Agents |-> OwnKinds(a)],
         announced <- objs[CAMOKey] # Nil,
         Kinds     <- AgentKinds,
         Cleaned   <- CleanedKinds

\* Reconciles that work from cached copies, are repeated after failures and
\* overlap with users, other controllers and restarts of the operator keep
\* the promise of AgentLifecycle: nothing is deployed or announced for an
\* OcmAgent that is not there or was let go, none is let go before its
\* deletion or before what it is answerable for is gone, and none that was
\* deleted comes back.  (An early deletion breaks this.)
ImplementsLifecycle == Finalizing!Spec

-----------------------------------------------------------------------------
(* Liveness.                                                               *)

\* What EnsureOCMAgentResourcesExist needs in order to succeed.
Deployable(a) ==
    /\ Current(a) # Nil /\ ~Current(a).deleting
    /\ IF Current(a).spec.fleetMode
       THEN objs[SecretKey(Current(a).spec.tokenSecret)] # Nil
       ELSE pullSecret # Nil

Has(k, data) == objs[k] # Nil /\ objs[k].data = data

\* Everything as the current spec, pull secret and proxy ask for.
DeployedDeployment(a) ==
    /\ objs[DeploymentKey(a)] # Nil
    /\ FollowsSpec(objs[DeploymentKey(a)].data, Current(a).spec, proxy)

Deployed(a) ==
    LET spec == Current(a).spec
        np   == networkPolicyNamespaces(spec)
    IN  /\ Current(a).finalizer
        /\ DeployedDeployment(a)
        /\ Has(ConfigMapKey(a), buildOCMAgentConfigMap(spec))
        /\ Has(TrustedCaKey, "injected")
        /\ objs[ServiceKey(a)] # Nil /\ objs[ServiceKey(a)].data.spec = "built"
        /\ objs[MetricsServiceKey(a)] # Nil
        /\ objs[MetricsServiceKey(a)].data.spec = "built"
        /\ \A i \in 1..Len(np) : Has(NetworkPolicyKey(a, np[i]), builtSpec)
        /\ Has(ServiceMonitorKey(a), builtSpec)
        /\ spec.replicas > 1 => Has(PDBKey(a), builtSpec)
        /\ ~spec.fleetMode =>
               /\ Has(SecretKey(spec.tokenSecret), pullSecret)
               /\ objs[CAMOKey] # Nil /\ objs[CAMOKey].data # Tampered

\* Once edits, failures, restarts and meddling with the managed objects come
\* to an end, every live OcmAgent ends up deployed and stays so.
Converges == \A a \in Agents : <>[](Deployable(a) => Deployed(a))

\* A deleted OcmAgent is let go in the end.
DeletionCompletes ==
    \A a \in Agents : (Current(a) # Nil /\ Current(a).deleting)
                          ~> (Current(a) = Nil \/ ~Current(a).deleting)

\* In the end every object left on the cluster belongs to a live OcmAgent,
\* serves one (the CAMO ConfigMap), or was put there by somebody else.  The
\* objects that EnsureOCMAgentResourcesAbsent passes over (the "-cm" and
\* trusted CA ConfigMaps, policies of the other mode) are garbage collected.
Accounted(k) ==
    objs[k] # Nil =>
        IF objs[k].owner # Nil THEN Live(objs[k].owner)
        ELSE k[1] = "Secret" \/ (k = CAMOKey /\ \E a \in Agents : Guards(a))

NothingLeftBehind == <>[](\A k \in Keys : Accounted(k))

\* A single OcmAgent that nobody disturbs leaves the cluster alone: the
\* periodic reconciles stop writing, and neither the CA bundle that the
\* network operator injects nor an edited label is fought over for ever.
ComesToRest == <>[][UNCHANGED objs]_vars

\* pull_secret_invalid of a live agent outside fleet mode tells, in the end,
\* whether the pull secret is usable.
PullSecretGaugeSettles ==
    \A a \in Agents :
        <>[](Current(a) # Nil /\ ~Current(a).deleting /\ ~Current(a).spec.fleetMode
             => invalidGauge[a] = IF pullSecret = Nil THEN "1" ELSE "0")

\* ocm_agent_resource_absent tells, in the end, whether the OcmAgent that the
\* operator has known is gone.
AbsentGaugeSettles ==
    \A a \in Agents :
        <>[](Version(a) > 1 => absentGauge = IF Current(a) = Nil THEN "1" ELSE "0")

-----------------------------------------------------------------------------
(* What comments and documents say, and the code does not do.              *)

\* Both services are gone when EnsureOCMAgentResourcesAbsent is done.
ServicesRemoved ==
    [][\A a \in Agents :
          Released(a) => /\ objs[ServiceKey(a)] = Nil
                         /\ objs[MetricsServiceKey(a)] = Nil]_vars

\* The Deployment ends up with the command line of the mode the spec asks for.
CommandFollowsMode ==
    \A a \in Agents :
        <>[](Deployable(a) => /\ DeployedDeployment(a)
                              /\ objs[DeploymentKey(a)].data.fleet
                                     = Current(a).spec.fleetMode)

=============================================================================
