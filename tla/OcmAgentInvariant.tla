------------------------- MODULE OcmAgentInvariant --------------------------
(***************************************************************************)
(* The inductive invariant of OcmAgentController, for any agents, specs,   *)
(* tokens and limits, and facts about its operators and actions that the   *)
(* proofs share.                                                           *)
(***************************************************************************)
EXTENDS OcmAgentController, TLAPS

-----------------------------------------------------------------------------
(* The history of one OcmAgent.                                            *)

Histories == Seq(OcmAgents \cup {Nil})

\* UIDs never decrease, and a deletion is never taken back.
HistoryOK(h) ==
    /\ h \in Histories /\ Len(h) \in Nat \ {0}
    /\ \A v \in 1..Len(h) :
           h[v] # Nil => h[v].uid <= v /\ (h[v].foreground => h[v].deleting)
    /\ \A v, w \in 1..Len(h) :
           v <= w /\ h[v] # Nil /\ h[w] # Nil
               => /\ h[v].uid <= h[w].uid
                  /\ h[v].uid = h[w].uid /\ h[v].deleting => h[w].deleting

\* What a write may add to it.
Follows(h, e) ==
    /\ e \in OcmAgents \cup {Nil}
    /\ e # Nil =>
           /\ e.foreground => e.deleting
           /\ \/ e.uid = Len(h) + 1
              \/ /\ h[Len(h)] # Nil
                 /\ e.uid = h[Len(h)].uid
                 /\ h[Len(h)].deleting => e.deleting

\* Adding a version to a well-formed history keeps it well formed.
LEMMA AppendHistory ==
    ASSUME NEW h, NEW e, HistoryOK(h), Follows(h, e)
    PROVE  /\ HistoryOK(Append(h, e))
           /\ Len(Append(h, e)) = Len(h) + 1
           /\ Append(h, e)[Len(h) + 1] = e
           /\ \A v \in 1..Len(h) : Append(h, e)[v] = h[v]
<1> DEFINE g == Append(h, e)
<1>1. /\ g \in Histories /\ Len(g) = Len(h) + 1 /\ g[Len(h) + 1] = e
      /\ \A v \in 1..Len(h) : g[v] = h[v]
    BY DEF HistoryOK, Follows, Histories
<1>2. \A v \in 1..Len(h) : h[v] \in OcmAgents \cup {Nil}
    BY DEF HistoryOK, Histories
<1>3. ASSUME NEW v \in 1..Len(g), g[v] # Nil
      PROVE  g[v].uid <= v /\ (g[v].foreground => g[v].deleting)
    <2>1. CASE v \in 1..Len(h)
        BY <1>1, <1>3, <2>1, Zenon DEF HistoryOK
    <2>2. CASE v = Len(h) + 1
        <3>1. g[v] = e
            BY <1>1, <2>2, Zenon
        <3>2. e.uid <= Len(h) + 1
            BY <1>2, <1>3, <3>1 DEF HistoryOK, Follows, OcmAgents
        <3> QED
            BY <1>3, <2>2, <3>1, <3>2, Zenon DEF Follows
    <2> QED
        BY <1>1, <2>1, <2>2 DEF HistoryOK
<1>4. ASSUME NEW v \in 1..Len(g), NEW w \in 1..Len(g), v <= w, g[v] # Nil, g[w] # Nil
      PROVE  /\ g[v].uid <= g[w].uid
             /\ g[v].uid = g[w].uid /\ g[v].deleting => g[w].deleting
    <2>1. CASE w \in 1..Len(h)
        BY <1>1, <1>4, <2>1 DEF HistoryOK
    <2>2. CASE w = Len(h) + 1 /\ v = Len(h) + 1
        <3>1. g[v].uid \in Nat
            BY <1>1, <1>4, <2>2, Zenon DEF Follows, OcmAgents
        <3> QED
            BY <2>2, <3>1
    <2>3. CASE w = Len(h) + 1 /\ v \in 1..Len(h)
        <3>1. g[v] = h[v] /\ g[w] = e
            BY <1>1, <2>3, Zenon
        <3>2. h[v].uid \in Nat /\ h[v].uid <= v /\ e.uid \in Nat
            BY <1>2, <1>4, <2>3, <3>1, Zenon DEF HistoryOK, Follows, OcmAgents
        <3>3. CASE e.uid = Len(h) + 1
            BY <2>3, <3>1, <3>2, <3>3 DEF HistoryOK
        <3>4. CASE /\ h[Len(h)] # Nil /\ e.uid = h[Len(h)].uid
                   /\ h[Len(h)].deleting => e.deleting
            BY <1>4, <2>3, <3>1, <3>2, <3>4 DEF HistoryOK
        <3> QED
            BY <1>4, <3>1, <3>3, <3>4, Zenon DEF Follows
    <2> QED
        BY <1>1, <2>1, <2>2, <2>3 DEF HistoryOK
<1>5. Len(g) \in Nat \ {0}
    BY <1>1 DEF HistoryOK
<1> QED
    BY <1>1, <1>3, <1>4, <1>5, Zenon DEF HistoryOK

-----------------------------------------------------------------------------
(* The inductive invariant.                                                *)

HistoryInv ==
    \A a \in Agents : HistoryOK(hist[a]) /\ seen[a] \in 1..Len(hist[a])

\* What the worker's local state is good for at a step.
RunOK(step, r) ==
    step # "idle" =>
        /\ r.agent \in Agents
        /\ r.version \in 1..seen[r.agent]
        /\ hist[r.agent][r.version] # Nil
        /\ step \in ExistSteps => ~hist[r.agent][r.version].deleting
        /\ step \in AbsentSteps => hist[r.agent][r.version].deleting
        /\ step = "ensureSecret" => r.token \in Tokens
        /\ step = "ensureDeployment" => r.proxy \in Proxies
        /\ step \in {"ensureNetworkPolicy", "deleteNetworkPolicy"}
               => r.namespaces # <<>>

\* Objects are owned by resources that the worker's copy does not predate.
Horizon(a) == IF pc # "idle" /\ run.agent = a THEN run.version ELSE seen[a]

OwnedInv ==
    \A k \in Keys :
        objs[k] # Nil /\ objs[k].owner # Nil =>
            \E v \in 1..Horizon(objs[k].owner.agent) :
                /\ hist[objs[k].owner.agent][v] # Nil
                /\ hist[objs[k].owner.agent][v].uid = objs[k].owner.uid

BaseInv == TypeOK /\ HistoryInv /\ RunOK(pc, run)

Inv == BaseInv /\ OwnedInv

-----------------------------------------------------------------------------
(* Keys and the data under them.                                           *)

LEMMA AgentKeys ==
    ASSUME NEW a \in Agents
    PROVE  /\ DeploymentKey(a) \in Keys
           /\ DataOf(DeploymentKey(a)) = DeploymentData
           /\ ConfigMapKey(a) \in Keys
           /\ DataOf(ConfigMapKey(a)) = ConfigMapData
           /\ PlainConfigMapKey(a) \in Keys
           /\ ServiceKey(a) \in Keys /\ DataOf(ServiceKey(a)) = ServiceData
           /\ MetricsServiceKey(a) \in Keys
           /\ DataOf(MetricsServiceKey(a)) = ServiceData
           /\ ServiceMonitorKey(a) \in Keys
           /\ DataOf(ServiceMonitorKey(a)) = {"built", "tampered"}
           /\ PDBKey(a) \in Keys /\ DataOf(PDBKey(a)) = {"built", "tampered"}
           /\ \A n \in Namespaces :
                  /\ NetworkPolicyKey(a, n) \in Keys
                  /\ DataOf(NetworkPolicyKey(a, n)) = {"built", "tampered"}
BY Zenon DEF DeploymentKey, ConfigMapKey, PlainConfigMapKey, ServiceKey,
       MetricsServiceKey, ServiceMonitorKey, PDBKey, NetworkPolicyKey, Keys,
       AgentKinds, SpecKinds, ServiceKinds, Namespaces, DataOf

LEMMA SharedKeys ==
    /\ CAMOKey \in Keys /\ DataOf(CAMOKey) = Agents \cup {Tampered}
    /\ TrustedCaKey \in Keys /\ DataOf(TrustedCaKey) = {"empty", "injected"}
    /\ \A s \in TokenSecrets :
           /\ SecretKey(s) \in Keys
           /\ DataOf(SecretKey(s)) = Tokens \cup FleetCreds \cup {Tampered}
BY Zenon DEF CAMOKey, TrustedCaKey, SecretKey, Keys, SpecKinds, ServiceKinds,
       Namespaces, DataOf

-----------------------------------------------------------------------------
(* The worker and what its handlers build.                                 *)

LEMMA SpendType ==
    ASSUME TypeOK, NEW d \in Disturbances, Spend(d)
    PROVE  budget' \in [Disturbances -> Nat]
BY DEF TypeOK, Spend

LEMMA NoRunType == NoRun \in Runs
BY DEF NoRun, Runs

\* The facts about the copy and the local state that the steps rest on.
LEMMA WorkerFacts ==
    ASSUME Inv, pc # "idle"
    PROVE  /\ run.agent \in Agents /\ run \in Runs
           /\ instance \in OcmAgents
           /\ instance.spec \in SpecType
           /\ ownerRef \in Owners
           /\ \A k \in Keys : objs[k] # Nil => objs[k] \in Objects(k)
           /\ stamp \in Nat
<1>1. run.agent \in Agents /\ run \in Runs
    BY Zenon DEF Inv, BaseInv, RunOK, TypeOK
<1>2. run.version \in 1..Len(hist[run.agent])
    BY <1>1 DEF Inv, BaseInv, RunOK, HistoryInv, HistoryOK
<1>3. hist[run.agent] \in Seq(OcmAgents \cup {Nil})
    BY <1>1, Zenon DEF Inv, BaseInv, TypeOK
<1>4. instance \in OcmAgents
    BY <1>2, <1>3 DEF Inv, BaseInv, RunOK, instance
<1>5. instance.spec \in SpecType /\ instance.uid \in Nat
    BY <1>4, SpecsAssumption, Zenon DEF OcmAgents
<1> QED
    BY <1>1, <1>4, <1>5, Zenon DEF ownerRef, Owners, Inv, BaseInv, TypeOK

\* The shape of what Get followed by Create or Update leaves behind: the data
\* that was built, under the owner found or, in a new object, the given one.
EnsuredOK(D, found, ref, o) ==
    /\ o \in [owner: Owners, data: D]
    /\ o.owner = ref \/ (found # Nil /\ o.owner = found.owner)

LEMMA EnsuredShapes ==
    ASSUME NEW D, NEW k, NEW found \in [owner: Owners, data: D] \cup {Nil},
           NEW ref \in Owners, NEW d \in D
    PROVE  /\ EnsuredOK(D, found, ref, EnsuredSecret(found, ref, d))
           /\ EnsuredOK(D, found, ref, EnsuredConfigMap(k, found, ref, d))
           /\ builtSpec \in D => EnsuredOK(D, found, ref, EnsuredSpec(found, ref))
<1>1. CASE found = Nil
    BY <1>1, Zenon DEF EnsuredOK, EnsuredSecret, EnsuredConfigMap, EnsuredSpec
<1>2. CASE found # Nil
    <2>1. found \in [owner: Owners, data: D]
        BY <1>2, Zenon
    <2>2. /\ [found EXCEPT !.data = d] \in [owner: Owners, data: D]
          /\ [found EXCEPT !.data = d].owner = found.owner
        BY <2>1, Zenon
    <2>3. builtSpec \in D =>
              /\ [found EXCEPT !.data = builtSpec] \in [owner: Owners, data: D]
              /\ [found EXCEPT !.data = builtSpec].owner = found.owner
        BY <2>1, Zenon
    <2>4. EnsuredConfigMap(k, found, ref, d) \in {found, [found EXCEPT !.data = d]}
        BY <1>2, Zenon DEF EnsuredConfigMap
    <2>5. EnsuredSecret(found, ref, d) = [found EXCEPT !.data = d]
        BY <1>2, Zenon DEF EnsuredSecret
    <2>6. EnsuredSpec(found, ref) = [found EXCEPT !.data = builtSpec]
        BY <1>2, Zenon DEF EnsuredSpec
    <2>7. EnsuredOK(D, found, ref, EnsuredSecret(found, ref, d))
        BY <1>2, <2>2, <2>5, Zenon DEF EnsuredOK
    <2>8. EnsuredOK(D, found, ref, EnsuredConfigMap(k, found, ref, d))
        BY <1>2, <2>1, <2>2, <2>4, Zenon DEF EnsuredOK
    <2>9. builtSpec \in D => EnsuredOK(D, found, ref, EnsuredSpec(found, ref))
        BY <1>2, <2>3, <2>6, Zenon DEF EnsuredOK
    <2> QED
        BY <2>7, <2>8, <2>9, Zenon
<1> QED
    BY <1>1, <1>2, Zenon

Listed(s) == {s[i] : i \in 1..Len(s)}

LEMMA NamespacesListed ==
    ASSUME NEW spec
    PROVE  /\ networkPolicyNamespaces(spec) \in Seq(Namespaces)
           /\ networkPolicyNamespaces(spec) # <<>>
<1>1. {"Monitoring", "RHOBS", "MUO", "OBO"} \subseteq Namespaces
    BY Zenon DEF Namespaces
<1>2. <<"Monitoring", "RHOBS", "OBO">> \in Seq(Namespaces)
    BY <1>1
<1>3. <<"Monitoring", "MUO">> \in Seq(Namespaces)
    BY <1>1
<1>4. <<"Monitoring", "RHOBS", "OBO">> # <<>> /\ <<"Monitoring", "MUO">> # <<>>
    BY Zenon
<1> QED
    BY <1>2, <1>3, <1>4, Zenon DEF networkPolicyNamespaces

LEMMA ServiceShapes ==
    ASSUME NEW found \in [owner: Owners, data: ServiceData] \cup {Nil},
           NEW ref \in Owners, NEW e \in ServiceData
    PROVE  EnsuredOK(ServiceData, found, ref, EnsuredService(found, ref, e))
<1>1. CASE found = Nil
    BY <1>1, Zenon DEF EnsuredOK, EnsuredService
<1>2. CASE found # Nil
    <2>1. found \in [owner: Owners, data: ServiceData]
        BY <1>2, Zenon
    <2>2. /\ [found EXCEPT !.data.spec = e.spec] \in [owner: Owners, data: ServiceData]
          /\ [found EXCEPT !.data.spec = e.spec].owner = found.owner
        BY <2>1, Zenon DEF ServiceData
    <2>3. EnsuredService(found, ref, e) \in {found, [found EXCEPT !.data.spec = e.spec]}
        BY <1>2, Zenon DEF EnsuredService
    <2> QED
        BY <1>2, <2>1, <2>2, <2>3, Zenon DEF EnsuredOK
<1> QED
    BY <1>1, <1>2, Zenon

\* The part that ensureNetworkPolicy and its deletion share.
LEMMA NetworkPolicyFacts ==
    ASSUME Inv, pc \in {"ensureNetworkPolicy", "deleteNetworkPolicy"}
    PROVE  /\ Head(run.namespaces) \in Namespaces
           /\ [run EXCEPT !.namespaces = Tail(run.namespaces)] \in Runs
<1>1. run.namespaces \in Seq(Namespaces) /\ run.namespaces # <<>>
    BY WorkerFacts, Zenon DEF Inv, BaseInv, RunOK, Runs
<1>2. Head(run.namespaces) \in Namespaces /\ Tail(run.namespaces) \in Seq(Namespaces)
    BY <1>1
<1> QED
    BY <1>2, WorkerFacts, ZenonT(30) DEF Runs

\* The policies that are left in the list after its first one was dealt with.
LEMMA PoliciesLeft ==
    ASSUME Inv, pc \in {"ensureNetworkPolicy", "deleteNetworkPolicy"}
    PROVE  /\ Listed(run.namespaces)
                 = {Head(run.namespaces)} \cup Listed(Tail(run.namespaces))
           /\ Listed(<<>>) = {}
<1> DEFINE s == run.namespaces
<1>1. s \in Seq(Namespaces) /\ s # <<>>
    BY WorkerFacts, Zenon DEF Inv, BaseInv, RunOK, Runs
<1>2. /\ Len(s) \in Nat \ {0} /\ Head(s) = s[1]
      /\ Len(Tail(s)) = Len(s) - 1
      /\ \A i \in 1..(Len(s) - 1) : Tail(s)[i] = s[i + 1]
    BY <1>1
<1> HIDE DEF s
<1>3. ASSUME NEW x \in Listed(s) PROVE x \in {Head(s)} \cup Listed(Tail(s))
    <2>1. PICK i \in 1..Len(s) : x = s[i]
        BY Zenon DEF Listed
    <2>2. CASE i = 1
        BY <1>2, <2>1, <2>2, Zenon
    <2>3. CASE i # 1
        <3>1. i - 1 \in 1..(Len(s) - 1) /\ Tail(s)[i - 1] = s[i]
            BY <1>2, <2>3
        <3> QED
            BY <1>2, <2>1, <3>1, ZenonT(30) DEF Listed
    <2> QED
        BY <2>2, <2>3, Zenon
<1>4. ASSUME NEW x \in {Head(s)} \cup Listed(Tail(s)) PROVE x \in Listed(s)
    BY <1>2 DEF Listed
<1>5. Listed(<<>>) = {}
    BY DEF Listed
<1> QED
    BY <1>3, <1>4, <1>5, Zenon DEF s

-----------------------------------------------------------------------------
(* Writes of an OcmAgent.                                                  *)

\* What a write does to the histories.
LEMMA Written ==
    ASSUME Inv, NEW a \in Agents, NEW e, Follows(hist[a], e), Write(a, e)
    PROVE  /\ hist' \in [Agents -> Seq(OcmAgents \cup {Nil})]
           /\ \A b \in Agents : /\ HistoryOK(hist'[b])
                                /\ Len(hist'[b]) \in Nat
                                /\ Len(hist[b]) <= Len(hist'[b])
                                /\ b # a => hist'[b] = hist[b]
                                /\ \A v \in 1..Len(hist[b]) : hist'[b][v] = hist[b][v]
           /\ Len(hist'[a]) = Len(hist[a]) + 1
           /\ hist'[a][Len(hist[a]) + 1] = e
<1>1. HistoryOK(hist[a]) /\ hist \in [Agents -> Seq(OcmAgents \cup {Nil})]
    BY Zenon DEF Inv, BaseInv, HistoryInv, TypeOK
<1>2. hist' = [hist EXCEPT ![a] = Append(hist[a], e)]
    BY Zenon DEF Write
<1>3. /\ HistoryOK(Append(hist[a], e))
      /\ Len(Append(hist[a], e)) = Len(hist[a]) + 1
      /\ Append(hist[a], e)[Len(hist[a]) + 1] = e
      /\ \A v \in 1..Len(hist[a]) : Append(hist[a], e)[v] = hist[a][v]
    BY <1>1, AppendHistory
<1>4. \A b \in Agents : hist'[b] = IF b = a THEN Append(hist[a], e) ELSE hist[b]
    BY <1>1, <1>2, Zenon
<1>5. \A b \in Agents : HistoryOK(hist[b]) /\ Len(hist[b]) \in Nat
    BY Zenon DEF Inv, BaseInv, HistoryInv, HistoryOK
<1>6. hist' \in [Agents -> Seq(OcmAgents \cup {Nil})]
    BY <1>1, <1>2, <1>3, Zenon DEF HistoryOK, Histories
<1>7. ASSUME NEW b \in Agents
      PROVE  /\ HistoryOK(hist'[b])
             /\ Len(hist'[b]) \in Nat
             /\ Len(hist[b]) <= Len(hist'[b])
             /\ b # a => hist'[b] = hist[b]
             /\ \A v \in 1..Len(hist[b]) : hist'[b][v] = hist[b][v]
    <2>1. CASE b = a
        <3>1. hist'[b] = Append(hist[a], e)
            BY <1>4, <2>1, ZenonT(30)
        <3>2. Len(hist[a]) \in Nat
            BY <1>5, Zenon
        <3> QED
            BY <1>3, <2>1, <3>1, <3>2
    <2>2. CASE b # a
        BY <1>4, <1>5, <2>2
    <2> QED
        BY <2>1, <2>2, Zenon
<1>8. hist'[a] = Append(hist[a], e)
    BY <1>4, ZenonT(30)
<1> QED
    BY <1>3, <1>6, <1>7, <1>8, Zenon

\* The current OcmAgent and what may be made of it.
LEMMA CurrentFacts ==
    ASSUME Inv, NEW a \in Agents
    PROVE  /\ Version(a) \in Nat \ {0} /\ Version(a) = Len(hist[a])
           /\ Current(a) = hist[a][Len(hist[a])]
           /\ Current(a) \in OcmAgents \cup {Nil}
           /\ Current(a) # Nil => (Current(a).foreground => Current(a).deleting)
<1>1. HistoryOK(hist[a])
    BY Zenon DEF Inv, BaseInv, HistoryInv
<1>2. Len(hist[a]) \in 1..Len(hist[a])
    BY <1>1 DEF HistoryOK
<1> QED
    BY <1>1, <1>2 DEF HistoryOK, Histories, Version, Current

\* A deleted resource without finalizers disappears; otherwise nothing but
\* its finalizers changed.
LEMMA FinalizedFollows ==
    ASSUME Inv, NEW a \in Agents, NEW o \in OcmAgents, Current(a) # Nil,
           o.uid = Current(a).uid, o.deleting, o.foreground \in BOOLEAN
    PROVE  Follows(hist[a], Finalized(o))
BY CurrentFacts, Zenon DEF Follows, Finalized

\* What users and the garbage collector write: a version that follows, keeps a
\* finalizer that is there and, unless an OcmAgent may be deleted without one,
\* goes on guarding the CAMO ConfigMap if the last one did.
OthersWrite(a, e) ==
    /\ Write(a, e) /\ Follows(hist[a], e)
    /\ Current(a) # Nil /\ Current(a).finalizer => e # Nil /\ e.finalizer
    /\ \/ EarlyDelete
       \/ e # Nil /\ (~e.deleting \/ e.finalizer)
       \/ ~Guards(a) /\ (e = Nil \/ e.deleting)

LEMMA FinalizedWrite ==
    ASSUME Inv, NEW a \in Agents, NEW o \in OcmAgents, Write(a, Finalized(o)),
           Current(a) # Nil, o.uid = Current(a).uid, o.deleting,
           o.foreground \in BOOLEAN, o.finalizer = Current(a).finalizer,
           o.finalizer \/ EarlyDelete \/ ~Guards(a)
    PROVE  OthersWrite(a, Finalized(o))
<1>1. Follows(hist[a], Finalized(o))
    BY FinalizedFollows, Zenon
<1> QED
    BY <1>1, NoAgentAssumption, Zenon DEF Finalized, OthersWrite

LEMMA OthersWriteSomething ==
    ASSUME Inv, NEW a \in Agents, User(a) \/ DependentsGone(a)
    PROVE  \E e : OthersWrite(a, e)
<1>1. ASSUME NEW spec \in Specs, CreateOcmAgent(a, spec)
      PROVE  \E e : OthersWrite(a, e)
    <2> DEFINE e == [uid |-> Version(a) + 1, spec |-> spec, finalizer |-> FALSE,
                     deleting |-> FALSE, foreground |-> FALSE]
    <2>1. Write(a, e) /\ Current(a) = Nil
        BY <1>1, Zenon DEF CreateOcmAgent
    <2>2. e \in OcmAgents /\ ~e.deleting
        BY CurrentFacts, SMTT(30) DEF OcmAgents
    <2>3. Follows(hist[a], e)
        BY CurrentFacts DEF Follows, OcmAgents
    <2> HIDE DEF e
    <2> QED
        BY <2>1, <2>2, <2>3, NoAgentAssumption, Zenon DEF OthersWrite
<1>2. ASSUME NEW spec \in Specs, UpdateOcmAgent(a, spec)
      PROVE  \E e : OthersWrite(a, e)
    <2> DEFINE e == [Current(a) EXCEPT !.spec = spec]
    <2>1. Write(a, e) /\ Current(a) # Nil
        BY <1>2, Zenon DEF UpdateOcmAgent
    <2>2. /\ e \in OcmAgents /\ e.uid = Current(a).uid
          /\ e.deleting = Current(a).deleting /\ e.foreground = Current(a).foreground
          /\ e.finalizer = Current(a).finalizer
        BY <2>1, CurrentFacts, Zenon DEF OcmAgents
    <2> HIDE DEF e
    <2>3. Follows(hist[a], e) /\ e # Nil
        BY <2>1, <2>2, CurrentFacts, NoAgentAssumption, Zenon DEF Follows
    <2> QED
        BY <2>1, <2>2, <2>3, Zenon DEF OthersWrite, Guards
<1>3. ASSUME NEW foreground \in Foreground, DeleteOcmAgent(a, foreground)
      PROVE  \E e : OthersWrite(a, e)
    <2> DEFINE o == [Current(a) EXCEPT !.deleting = TRUE, !.foreground = foreground]
    <2>1. /\ Write(a, Finalized(o)) /\ Current(a) # Nil
          /\ Current(a).finalizer \/ EarlyDelete
        BY <1>3, Zenon DEF DeleteOcmAgent
    <2>2. /\ o \in OcmAgents /\ o.uid = Current(a).uid /\ o.deleting
          /\ o.foreground \in BOOLEAN /\ o.finalizer = Current(a).finalizer
        BY <2>1, CurrentFacts, FlagsAssumption, ZenonT(30) DEF OcmAgents
    <2> HIDE DEF o
    <2> QED
        BY <2>1, <2>2, FinalizedWrite, Zenon
<1>4. ASSUME DependentsGone(a)
      PROVE  \E e : OthersWrite(a, e)
    <2> DEFINE o == [Current(a) EXCEPT !.foreground = FALSE]
    <2>1. Write(a, Finalized(o)) /\ Current(a) # Nil /\ Current(a).foreground
        BY <1>4, Zenon DEF DependentsGone
    <2>2. /\ o \in OcmAgents /\ o.uid = Current(a).uid /\ o.deleting
          /\ o.foreground \in BOOLEAN /\ o.finalizer = Current(a).finalizer
          /\ o.finalizer \/ ~Guards(a)
        BY <2>1, CurrentFacts, ZenonT(30) DEF OcmAgents, Guards
    <2> HIDE DEF o
    <2> QED
        BY <2>1, <2>2, FinalizedWrite, Zenon
<1> QED
    BY <1>1, <1>2, <1>3, <1>4, Zenon DEF User

\* Users and the garbage collector keep all versions, and a finalizer that is
\* there stays.
LEMMA WritesKeep ==
    ASSUME Inv, NEW a \in Agents, User(a) \/ DependentsGone(a)
    PROVE  /\ UNCHANGED <<objs, pc, run>>
           /\ \A b \in Agents : \A v \in 1..Len(hist[b]) : hist'[b][v] = hist[b][v]
           /\ \A b \in Agents : Current(b) # Nil /\ Current(b).finalizer
                  => Current(b)' # Nil /\ Current(b)'.finalizer
<1>1. UNCHANGED <<objs, pc, run>>
    BY ZenonT(30) DEF User, CreateOcmAgent, UpdateOcmAgent, DeleteOcmAgent, DependentsGone, cluster
<1>2. PICK e : /\ Write(a, e) /\ Follows(hist[a], e)
               /\ Current(a) # Nil /\ Current(a).finalizer => e # Nil /\ e.finalizer
    BY OthersWriteSomething, Zenon DEF OthersWrite
<1> QED
    BY <1>1, <1>2, Written, SMTT(30) DEF Current, Version

-----------------------------------------------------------------------------
(* What the cache holds and Reconcile starts from.                         *)

LEMMA CachedFacts ==
    ASSUME Inv, NEW a \in Agents
    PROVE  /\ seen[a] \in 1..Len(hist[a]) /\ seen[a] \in Nat /\ Len(hist[a]) \in Nat
           /\ Cached(a) = hist[a][seen[a]]
           /\ Cached(a) \in OcmAgents \cup {Nil}
<1>1. HistoryOK(hist[a]) /\ seen[a] \in 1..Len(hist[a])
    BY Zenon DEF Inv, BaseInv, HistoryInv
<1> QED
    BY <1>1 DEF HistoryOK, Histories, Cached

\* The copy of a reconcile in progress outlives every write.
LEMMA InstanceKept ==
    ASSUME Inv, pc # "idle", UNCHANGED run,
           \A b \in Agents : \A v \in 1..Len(hist[b]) : hist'[b][v] = hist[b][v]
    PROVE  instance' = instance
<1>1. run.agent \in Agents /\ run.version \in 1..seen[run.agent]
    BY Zenon DEF Inv, BaseInv, RunOK
<1>2. run.version \in 1..Len(hist[run.agent])
    BY <1>1, CachedFacts, SMTT(30)
<1> QED
    BY <1>1, <1>2, Zenon DEF instance

\* The two ways on from Reconcile: the worker stays idle, or starts a run on
\* the cached copy.
Started(a) ==
    /\ Cached(a) # Nil
    /\ pc' = IF Cached(a).deleting THEN "deleteDeployment"
                                   ELSE firstEnsureFunc(Cached(a).spec)
    /\ run' = [NoRun EXCEPT !.agent = a, !.version = seen[a]]

LEMMA StartedFacts ==
    ASSUME Inv, NEW a \in Agents, Started(a)
    PROVE  /\ run' \in Runs /\ run'.agent = a /\ run'.version = seen[a]
           /\ IF Cached(a).deleting
              THEN pc' = "deleteDeployment"
              ELSE pc' \in {"ensureFleetSecret", "fetchPullSecret"}
           /\ pc' # "idle" /\ pc' \in ExistSteps \cup AbsentSteps
           /\ pc' \in ExistSteps => ~Cached(a).deleting
           /\ pc' \in AbsentSteps => Cached(a).deleting
<1>1. run' \in Runs /\ run'.agent = a /\ run'.version = seen[a]
    BY NoRunType, CachedFacts, ZenonT(30) DEF Started, Runs, NoRun
<1>2. IF Cached(a).deleting THEN pc' = "deleteDeployment"
      ELSE pc' \in {"ensureFleetSecret", "fetchPullSecret"}
    BY Zenon DEF Started, firstEnsureFunc
<1> QED
    BY <1>1, <1>2, Zenon DEF ExistSteps, AbsentSteps

LEMMA ReconcileEffect ==
    ASSUME Inv, NEW a \in Agents, Reconcile(a)
    PROVE  /\ pc = "idle" /\ UNCHANGED <<hist, seen, objs>>
           /\ UNCHANGED <<pc, run>> \/ Started(a)
           /\ TypeOK'
<1>1. /\ pc = "idle" /\ UNCHANGED <<hist, seen, cluster, stamp, invalidGauge>>
      /\ UNCHANGED <<pc, run>> \/ Started(a)
      /\ "faults" \in Disturbances
    BY Zenon DEF Reconcile, Started, Goto, Disturbances
<1>2. /\ budget' \in [Disturbances -> Nat] /\ queue' \subseteq Agents
      /\ absentGauge' \in GaugeValues
    BY <1>1, SpendType, Zenon DEF Reconcile, GaugeValues, Inv, BaseInv, TypeOK
<1>3. pc' \in {"idle"} \cup ExistSteps \cup AbsentSteps /\ run' \in Runs
    BY <1>1, StartedFacts, Zenon DEF Inv, BaseInv, TypeOK
<1>4. TypeOK'
    BY <1>1, <1>2, <1>3, Zenon DEF TypeOK, Inv, BaseInv, cluster
<1> QED
    BY <1>1, <1>4, Zenon DEF cluster

=============================================================================
