---------------------------- MODULE OcmAgentPods ----------------------------
(***************************************************************************)
(* The OcmAgent controller together with the pods that its Deployment asks *)
(* for.  The agent reads its access token from the mounted secret once,    *)
(* when it starts (buildOCMAgentArgs passes the path of the file), so a    *)
(* new token is used only after the pods have been replaced.               *)
(***************************************************************************)
EXTENDS OcmAgentProperties

VARIABLE pods  \* per agent, the pods' template and token, and the last restart
               \* when they started; Nil: no pods

podVars == <<vars, pods>>

\* The part of a Deployment whose change replaces the pods.
Template(d) ==
    [image |-> d.image, secretName |-> d.secretName, proxy |-> d.proxy,
     fleet |-> d.fleet, restartedAt |-> d.restartedAt]

\* A pod starts only once all the volumes that the template names are there;
\* the CA volume needs the key that the network operator injects.
Mountable(a, d) ==
    /\ objs[SecretKey(d.secretName)] # Nil
    /\ objs[ConfigMapKey(a)] # Nil
    /\ Has(TrustedCaKey, "injected")

PodInit == Init /\ pods = [a \in Agents |-> Nil]

Outdated(a) ==
    /\ objs[DeploymentKey(a)] # Nil
    /\ pods[a] # Nil =>
           pods[a].template # Template(objs[DeploymentKey(a)].data)

\* The Deployment's pods are replaced by ones of the current template.
Rollout(a) ==
    LET d == objs[DeploymentKey(a)].data
    IN  /\ Outdated(a) /\ Mountable(a, d)
        /\ pods' = [pods EXCEPT ![a] =
                        [template |-> Template(d),
                         token    |-> objs[SecretKey(d.secretName)].data,
                         since    |-> stamp]]
        /\ UNCHANGED vars

Terminate(a) ==
    /\ objs[DeploymentKey(a)] = Nil /\ pods[a] # Nil
    /\ pods' = [pods EXCEPT ![a] = Nil]
    /\ UNCHANGED vars

PodNext ==
    \/ Next /\ UNCHANGED pods
    \/ \E a \in Agents : Rollout(a) \/ Terminate(a)

PodSpec ==
    /\ PodInit /\ [][PodNext]_podVars
    /\ Fairness
    /\ \A a \in Agents : WF_podVars(Rollout(a)) /\ WF_podVars(Terminate(a))

-----------------------------------------------------------------------------
\* The pods are of the Deployment's template, so that nothing replaces them.
Lasting(a) ==
    objs[DeploymentKey(a)] # Nil /\ pods[a] # Nil /\ ~Outdated(a)

\* The reconcile that updated the secret has yet to restart the pods.
RestartAhead(a) ==
    run.agent = a /\ run.secretUpdated /\ pc # "addFinalizer"

\* The Deployment carries no restart annotation although a restart was asked
\* for after the pods had started: a change of its configuration replaced the
\* annotated template by one without.
RestartUndone(a) ==
    pods[a].since < stamp /\ objs[DeploymentKey(a)].data.restartedAt = 0

\* A call of the operator failed, or the operator was restarted.
Interrupted == \E d \in {"faults", "crashes"} : budget[d] < Limits[d]

\* Restarts need not differ in the annotation that they write.
Blurred == SameSecond \/ stamp = Seconds

\* An OcmAgent of this name has had the secret managed by the operator.
Manages(b, s) ==
    \E v \in 1..Version(b) :
        /\ hist[b][v] # Nil
        /\ ~hist[b][v].spec.fleetMode /\ hist[b][v].spec.tokenSecret = s

SharedSecret(a, s) == \E b \in Agents \ {a} : Manages(b, s)

\* Pods that nothing is going to replace run with the token that the secret
\* holds, or the restart is on its way; secretUpdated, the only trace of the
\* update, survives every later call of the same reconcile.  A restart is
\* missed only when a call failed or the operator stopped in between, when a
\* change of the Deployment took the annotation away again and brought back
\* the template of the old pods, when two restarts bore the same time, when
\* another OcmAgent wrote the secret, when somebody meddled, or when the
\* OcmAgent was deleted.
RestartNotMissed ==
    \A a \in Agents :
        LET s == objs[DeploymentKey(a)].data.secretName
        IN  Lasting(a) /\ ~Has(SecretKey(s), pods[a].token)
            => \/ RestartAhead(a) \/ RestartUndone(a)
               \/ Interrupted \/ Blurred \/ Meddled
               \/ SharedSecret(a, s) \/ Departed(a)

\* If the secret was updated, the pods are restarted to use the new secret:
\* in the end the pods of a live agent outside fleet mode run with the token
\* of the cluster's pull secret.
TokenReachesPods ==
    \A a \in Agents :
        <>[](Deployable(a) /\ ~Current(a).spec.fleetMode
             => pods[a] # Nil /\ pods[a].token = pullSecret)

\* TokenReachesPods as far as the code gets: the new token reaches the pods,
\* however often the pull secret and the proxy change, unless changes of the
\* Deployment undo the restart (ensureDeployment puts the template without
\* annotation in its place) before it has replaced the pods.
TokenReachesUnlessUndone ==
    \A a \in Agents :
        <>[](Deployable(a) /\ ~Current(a).spec.fleetMode
             => /\ pods[a] # Nil
                /\ pods[a].token = pullSecret \/ RestartUndone(a))

=============================================================================
