# Verification of the OCM Agent Operator

TLA+ models of the operator's two controllers and of everything around them
that can interfere, checked with TLC on small instances, with the most
important safety properties, and three refinements, proved for all instances with
TLAPS.

## 1. The system

The operator is one process with two controllers (`main.go`).

| Component | Code | State | Operations |
|---|---|---|---|
| OcmAgent reconciler | `controllers/ocmagent` | finalizer on the `OcmAgent`; work queue; cache; two gauges | `Reconcile`: deploy or remove, set or remove the finalizer, requeue every 5 minutes |
| OCM Agent handler | `pkg/ocmagenthandler` | the managed objects on the API server | `EnsureOCMAgentResourcesExist`, `EnsureOCMAgentResourcesAbsent`: about ten ensure and delete functions each, and a pod restart |
| Fleet notification reconciler | `controllers/fleetnotification` | work queue; cache | `Reconcile`: find the first stale item of a `ManagedFleetNotificationRecord`, remove it with a JSON patch |
| Record methods | `api/v1alpha1/managedfleetnotificationrecord_types.go` | the status of the record | look up, add, update, remove an item; `FiringCanBeSent` |
| `ManagedNotification` methods | `api/v1alpha1/managednotification_types.go` | its status | `CanBeSent`, `SetNotificationRecord`, `SetCondition` |
| Metrics | `pkg/localmetrics` | two gauges | set, reset |
| Start-up | `main.go` | none | clients, cache, controllers |

How they interact:

- The reconciler reads `OcmAgent`s through the manager's cache and hands the
  copy to the handler. The handler reads and writes through its own, uncached
  client. So a stale decision meets live objects.
- All objects except the CAMO ConfigMap (`openshift-monitoring/ocm-agent`) carry
  an owner reference and are garbage collected with the `OcmAgent`. The CAMO
  ConfigMap is removed by the handler alone, which is what the finalizer is for.
- Changes to owned objects bring the owner back into the queue. The pull secret,
  the proxy and the CAMO ConfigMap are not watched; the periodic requeue is what
  notices changes to them.
- Several `OcmAgent`s share the CAMO ConfigMap, the trusted CA bundle, and the
  token secret if they name the same one.
- The cluster network operator fills in the CA bundle that the handler creates.
- The OCM Agent, another program, keeps the fleet records with the methods of
  `api/v1alpha1`; the fleet controller removes items from them concurrently.
- The OCM Agent decides with `CanBeSent` whether an alert becomes a service log and
  records what it sent in the `ManagedNotification`, from handlers that run
  concurrently.

What is hard: the sequence of calls in a reconcile can stop anywhere (an error,
a restart of the operator) and is then repeated from the start by code that only
looks at the cluster; resources may be deleted and created again under the same
name while a removal is under way; two writers share the CA bundle and the fleet
records; what nobody watches must still converge. `PROJECT.json` lists each such
hazard at the line where it bites.

## 2. Modules

| Module | What it is |
|---|---|
| `OcmAgentResources` | Names and contents of the managed objects; the comparisons and what a restoration overwrites (pure operators) |
| `OcmAgentController` | Reconciler, handler, queue, cache, API server, garbage collector, users: the state machine, its invariants and action properties |
| `OcmAgentProperties` | What the finalizer promises and what must happen in the end: the refinement mapping and the liveness properties |
| `AgentLifecycle` | What the finalizer promises, without versions, caches, requests or calls: the abstract specification that `OcmAgentController` implements |
| `OcmAgentPods` | `OcmAgentController` composed with the Deployment's pods: which token do they run with |
| `Durations` | `int32` and `time.Duration`, which wrap around |
| `FleetRecord` | The fleet record and its methods, and when an item is stale (pure operators) |
| `FleetNotificationController` | The fleet reconciler, the OCM Agent and time |
| `FleetLedger` | What the record promises, without lists, positions, copies or requests: the abstract specification that `FleetNotificationController` implements |
| `ManagedNotification` | A `ManagedNotification` and its methods (pure operators) |
| `ServiceLogs` | The OCM Agent's handlers around a `ManagedNotification`: versions, conflicts, failures, time |
| `ServiceLogThrottle` | What the object promises them, without lists, copies or conflicts: the abstract specification that `ServiceLogs` implements |
| `MCInstances`, `MCOcmAgentController`, `MCOcmAgentPods`, `MCFleetNotification`, `MCServiceLogs` | Constants for TLC |
| `OcmAgentInvariant`, `OcmAgentStepProofs` | Proofs about the OcmAgent controller: the invariant and what a write of an object does to it; the actions and invariance |
| `OcmAgentDeploymentProofs` | The calls of the deployment, and what others do to one in progress |
| `OcmAgentControllerProofs` | The theorems on the OcmAgent controller: types, edits, the CAMO ConfigMap, the deployment, the removal, the queue, and the refinement of `AgentLifecycle` |
| `OcmAgentPodsProofs` | The restarts of the pods |
| `FleetNotificationProofs` | Lemmas about the record's methods; the theorems on the fleet controller, and the refinement of `FleetLedger` |
| `ManagedNotificationProofs`, `ServiceLogsProofs` | Lemmas about the methods and the answers of `CanBeSent`; invariance, counts and the refinement of `ServiceLogThrottle` |

### OcmAgentController

- `hist[a]` holds every version of the `OcmAgent` named `a` (`Nil`: absent);
  the last is current, and its position is the resource version. `seen[a]` is
  the version in the cache. An `Update` succeeds only on the current version.
- `objs` maps keys (kind and name) to `[owner, data]` or `Nil`. `data` has the
  fields that the code compares or overwrites: `image` stands for everything in
  the pod template that `deploymentConfigChanged` compares, `fleet` for the
  command line, which it does not compare.
- `pc` and `run` are the reconcile in progress: controllers run one worker.
  Each ensure or delete function is one action, or one per object where it loops.
  `run` has what the code keeps in local variables: the copy of the resource, the
  token, the proxy, `secretUpdated`, the remaining network policies.
- Get followed by Create, Update or Delete is one step. Create fails if the name
  is taken, Update carries the resource version and Delete fails if the object is
  gone, so the pair takes effect atomically or returns an error that the reconcile
  is repeated for. That an error of this kind is met, because somebody else wrote
  between the two calls, is among the failures: any call may fail
  (`Spend("faults")`), and a failed write may have
  taken effect. So conflicts, names taken and objects collected between Get and
  Delete are in the runs `Lifecycle` and `Removal` and in the proofs, and not in
  `Shared`, `Drift` and `Rotation`, which have no failures. Reads of the pull secret and the proxy are steps of their own,
  because what they return is used later. The read of the cluster version is
  part of the first ConfigMap step: the cluster ID never changes.
- A request is in `queue` from the moment it is due now or later: the five
  minutes of `RequeueAfter`, the back-off after an error and the delivery of
  events about owned objects are arbitrary delays before the worker takes it.
- `Restart` loses the reconcile in progress and the gauges, refills the cache and
  enqueues what the first listing shows.
- The environment: users create, edit and delete `OcmAgent`s, in the background
  or foreground; others edit managed objects in the fields that the code
  compares, or delete them (`Tamper`); the pull secret
  and the proxy change; fleet secrets are provisioned; the garbage collector
  removes all dependents of a dead owner in one step, in no particular order
  relative to the operator.

### AgentLifecycle

Per agent the stage of its life (absent, new, guarded by the finalizer, leaving,
released and waiting for a foreground deletion) and the kinds of its objects that
are there; and whether an agent is announced to the Alertmanager operator.
Objects are provided and the announcement is made only for a resource that is
there and has not been let go; it is let go only after its deletion, when the
objects the finalizer answers for and the announcement are gone; objects may be lost
at any time. The refinement mapping (`Finalizing` in `OcmAgentProperties`) reads
the stage from the current version of the `OcmAgent` and the rest from `objs`;
everything between two writes, the cache and the queue are stuttering. The kinds
that must be gone are those of both modes that the removal surely deletes: the
metrics service (see `MetricsServiceLeft`), the agent's `-cm` ConfigMap and the
policies that depend on the mode are not among them.

### OcmAgentPods

`pods[a]` is the template and the token the pods of `a` started with. They are
replaced when the template differs and all volumes of `buildOCMAgentDeployment`
can be mounted. That the agent reads the token at its start is what the restart
in `EnsureOCMAgentResourcesExist` presupposes. The annotation that
`restartOCMAgentPods` writes is the time in whole seconds: `stamp` is the last one
written, and a restart writes the next one, or the same one when two restarts may
fall into one second (`SameSecond`). `since` is history: the value of `stamp`
when the pods started, by which a restart that was undone is told from one that
was never asked for. `Seconds` bounds the clock; at the bound it stops,
and what depends on different times no longer holds (`Blurred`).

### FleetRecord and FleetNotificationController

A record is a sequence of notifications, each with a sequence of items, so that
positions mean what they mean in the JSON patch (one-based here). `Reconcile`
chooses in the cached copy, `patchRemove` removes from the current record
whatever is at that position. `versions` is the window from the version in the
cache to the current one; `Watch` drops its first element. The agent's
read-modify-write is one step (its update carries the resource version), the
question to `FiringCanBeSent` included;
`AgentRegister` enters a notification of a `ManagedFleetNotification` into the
record with the wait it has at that moment. Time is in hours; `StaleTimeout`
stands for the 360 hours. The counts of an item are Go `int`s, 64 bits wide, and
unbounded here. `resendWait` is an int32, so is its sum with the timeout, and a
number of hours becomes a `time.Duration` that holds fewer hours than an int32
(`DurationHalf` stands for some 2.5 million hours): both wrap around. The
informer's resync (every ten hours by default) is `Resync`.

### FleetLedger

A ledger knows notifications, each with its interval, and has at most one entry for
a notification and a hosted cluster: two counts and a time. It is opened and closed;
those who keep it register a notification, enter a cluster, note that something was
sent, which for a firing alert is allowed only when the interval has passed, or strike
an entry. A cleaner takes aim at an entry that has outlived its use and then removes it.
It is out of aim when somebody else has written since, or from the start when there were
changes it had not seen; then it may remove any one entry, but not two and nothing else.

The refinement mapping (`Ledger` in `FleetNotificationController`) flattens the nested
lists of the current record into sets. The cleaner is cleaning between `Reconcile`'s
choice and the patch. Its aim is the item at the chosen position as long as the
current record is the copy that was read, and it is behind while the cache is.

### ManagedNotification, ServiceLogs and ServiceLogThrottle

`ManagedNotification` has one operator per method. Following a nil pointer is the
answer `"panic"`: `CanBeSent` reads the status of the `AlertFiring` condition and
the time of the `ServiceLogSent` condition without asking whether they are there.

In `ServiceLogs` the methods are used the way their signatures ask for. The
handlers are code of the OCM Agent and marked external: `Receive` reads the object
and asks `CanBeSent`; `Send` calls OCM; `Get` reads the object again, sets
conditions with `SetStatus` and stores the record in the copy with
`SetNotificationRecord`; `Update` writes the copy, which a newer version of the object
rejects, and then starts again at `Get`. Failed sends are recorded too, and
`SetNotificationRecord` counts whatever it is given: `serviceLogSentCount` is the
number of attempts. Which conditions a handler sets, whether with a time (`SetStatus`
takes a pointer), and whether it starts from the record that is there or from a new
one with the old count, is the handler's `Style`: the methods prescribe none of it, and a
test of the repository stores a new record with `ServiceLogSent` alone. `recorded` is
history: per notification the attempts recorded as sent and as failed, and how each
condition was told since the record was begun. A service log for a resolved alert sets `ServiceLogSent` as well
and so starts a new interval for the firing one. Times are hours; that a stored
`metav1.Time` loses the fraction of its second is left out.

`ServiceLogThrottle` knows for each notification its wait, whether there is something
to say when the alert is resolved, the last thing recorded of the alert (which is
unknown after somebody who does not report it), and the time that holds
back the next service log, if one does. What each sender reports is a constant. The refinement mapping (`Throttle` in
`ServiceLogs`) reads them from the first notification of a name, from the records of
that name and from their conditions; a handler that is not idle has a permit. A
conflict is a stuttering step, a crash lets all permits lapse, a deletion makes
the throttle forget.

## 3. Runs

Bounds are numbers of disturbances (`Limits`): edits by users, changed inputs,
meddling with objects, failed calls, restarts. One of each kind already happens
at every point of a reconcile; two or more of the kind under study where the
interplay needs it. `Scaled` and `Fleet` differ in every field of the spec, so an
edit switches the mode, the secret, the image and the number of replicas; `Classic`
and `FleetTwin` differ in the mode alone; `Scaled` and `FleetTwin` (in `Shared`)
differ in everything but the token secret they name.

| Run | Instance | Checks |
|---|---|---|
| `Lifecycle` | 1 agent, 4 edits, 1 failure, 1 restart | `TypeOK`, `CAMOConfigMapGuarded`, `NeverForgotten`, `DeploymentComplete`, `RemovesOnlyTheDead`, `FinalizerReleasedClean`, `NoLostEdit`, `ImplementsLifecycle` |
| `Shared` | 2 agents, both modes, one token secret, 3 edits | `Converges`, `DeletionCompletes`, `NothingLeftBehind` |
| `Drift` | 1 agent, 1 edit, 2 input changes, 1 meddling | `Converges`, `ComesToRest`, `PullSecretGaugeSettles` |
| `Removal` | 1 agent, 3 edits, 1 failure, background and foreground deletion | `DeletionCompletes`, `NothingLeftBehind`, `FinalizerReleasedClean`, `AbsentGaugeSettles`, `ImplementsLifecycle` |
| `Rotation` | 1 agent, 2 edits, 2 tokens, 2 proxies, 3 input changes, 4 seconds, pods | `RestartNotMissed`, `TokenReachesUnlessUndone`, `Converges` |
| `FleetCleanup` | 2 notifications (one with the largest int32 as its wait), 2 clusters, 2 writes, 3 edits, 2 failures or restarts, 5 hours | `TypeOK`, `OneItemPerCluster`, `RecentLostOnlyIfOutrun`, `ResendWindowKept`, `ImplementsLedger`, `StaleItemsGo` |
| `ServiceLogs` | 2 handlers of different styles, 2 notifications, waits of 1 and of 2 hours (the second overflows), 3 alerts, 3 edits, 1 failure or restart, 2 hours | `TypeOK`, `PanicsWhenUntold`, `CountsRecorded`, `ResendSpaced`, `ImplementsThrottle` |

In the first five runs no user deletes an `OcmAgent` before it has its finalizer
(`EarlyDelete = FALSE`); `EarlyDeletion` shows what happens otherwise. Deadlock is
not checked: with no `OcmAgent` left and nothing to do the operator is idle.

`DeploymentComplete` says what a success of `EnsureOCMAgentResourcesExist` is worth.
The handler ensures one object after the other and looks at none again, so an object
may be missing at the end: because somebody meddled with it, or because the garbage
collector took it after its owner, possibly an earlier `OcmAgent` of the name, was
deleted. The property asks for more than an excuse: the request that will repair an
object of the agent's own is already in the queue; for the shared token secret and CA
bundle it is the request of the agent that owned it. `ImplementsLifecycle` is
checked in `Removal` too, where foreground deletions reach the stage "released".

In `FleetCleanup` one wait is longer than the stale timeout of one hour, so that
both terms of the end of life matter, and the other makes the sum wrap around as an
int32 and the interval as a Duration. Two writes by the agent suffice for one before
and one after the copy is read, and three edits for a record that is created, deleted and
created again. In `ServiceLogs` one handler sets all three conditions in the
record that is there, the other stores a new one with `ServiceLogSent` alone; three alerts are enough for
two handlers that are told to send at the same version and a third that comes later;
three edits for a deletion and a new object while a handler still sends for the
old one. The proofs (section 4) do away with these bounds for all safety properties
of the two modules.

`RestartNotMissed` says of every state what `TokenReachesPods` says of the end: pods
that nothing is going to replace have the token of their secret, or the reconcile that
changed it has the restart ahead. The excuses are the ways in which the restart does
get lost, and without any one of them the property fails on some instance: a failed
call or a crash (`LostRestart`), a change of the Deployment between restart and
rollout, which replaces the annotated template, two restarts with one time, another
`OcmAgent` with the same token secret, meddling, and an `OcmAgent` that has been
deleted and whose secret goes before its pods. In `Rotation` the proxy changes too, so
that annotated templates are replaced: three changes of the inputs are needed for the token
to change, the proxy to change before the rollout and to change back.
`TokenReachesUnlessUndone` says of the end that this is the only way in which, without
failures and meddling, the pods are left with an old token.

`Converges` asks for the fields that the code restores: not for the labels of the
Deployment and the Services, the command line and the label of the CA bundle.
`ComesToRest` says that the objects stop changing; updates that change nothing may go on.

`PanicsWhenUntold` says exactly when `CanBeSent` follows a nil pointer: for a resolved
alert when no handler has set `AlertFiring` since the record was begun, for a firing one
when `ServiceLogSent` was last set without a time. The run has the first case, the
proof both. A handler that sets the three conditions with a time is thus safe from itself
but not from another that begins the record anew.

`ResendSpaced` is about a handler whose answer is as old as the object. Two handlers
that ask at the same version are both told to send, and both do: `CanBeSent`
reserves nothing.

These runs state what a comment, a document or a test says and find that the code
does otherwise (`findings` in `PROJECT.json` quotes the lines):

| Run | What happens |
|---|---|
| `LostRestart` | the secret is written, a later call fails; the retry sees no change and the pods are never restarted |
| `EarlyDeletion` | an `OcmAgent` deleted before it has its finalizer leaves the CAMO ConfigMap behind |
| `MetricsServiceLeft` | a repeated removal stops at the missing first service |
| `ModeChange` | the command line is not compared and keeps the old mode |
| `FleetOutrun` | removal by position in a stale copy hits a recent item: the one chosen, refreshed in between, or another that moved there |

Three more disagreements are findings of passing runs, whose property says what does
hold:

- `restartOCMAgentPods` "causes Kubernetes to restart the pods", but a change of the
  Deployment replaces the annotated template (`ensureDeployment`). When the change is
  taken back before the pods were replaced, they have the current template again and
  keep the old token. With `TokenReachesPods` in place of `TokenReachesUnlessUndone`
  TLC finds this in the instance of `Rotation`.
- `CanBeSent` for a resolved alert reads the status of an `AlertFiring` condition that a
  record need not have. A record like the one that the test of `SetNotificationRecord`
  stores makes it follow a nil pointer (`PanicsWhenUntold`).
- The comment on `ServiceLogSentCount` says that it is the number of service logs sent;
  it counts attempts that failed as well (`CountsRecorded`).

Three others bound what the passing runs claim:

- `deploymentConfigChanged` compares the Deployment's labels, which are never
  restored. Once somebody has edited one, every reconcile replaces the pod template
  and with it the restart annotation; if that happens before the rollout has begun,
  the pods keep the old token. `RestartNotMissed` excuses meddling, and `Rotation` has
  none.
- The removal deletes a ConfigMap named `<name>` while the agent's is `<name>-cm`.
  `FinalizerReleasedClean` leaves it out; the garbage collector takes it
  (`NothingLeftBehind`).
- After a restart of the operator nothing sets the absent gauge for an `OcmAgent`
  that is already gone. `AbsentGaugeSettles` does not hold with `crashes` above zero
  and `Removal` has none.

### Fairness

`Worker` (the steps of a reconcile) is weakly fair: the worker is a running
goroutine. `Reconcile(a)` is strongly fair per agent: the work queue is first-in
first-out, so a request that keeps coming back is served however busy the others
keep the worker. The watch, the garbage collector, the network operator, the
Deployment controller and the informer's resync are weakly fair; they are
controllers of the cluster that retry for ever. Users, failures, restarts and the
agent are not fair, and their number is bounded: the liveness properties speak of
what happens once they stop.

## 4. Proofs

For every set of agents, specs, tokens, proxies, notifications, clusters and
handlers, and for all limits, widths and flags:

| Module | Theorem | Statement |
|---|---|---|
| `OcmAgentControllerProofs` | `TypeCorrect` | `Spec => []TypeOK` |
| | `RemovalIsSafe` | `Spec => RemovesOnlyTheDead` |
| | `CAMOGuarded` | `~EarlyDelete` implies `Spec => []CAMOConfigMapGuarded` |
| | `NoEditIsLost` | `Spec => NoLostEdit` |
| | `ReleasedClean` | `Spec => FinalizerReleasedClean` |
| | `CompleteDeployment` | `Spec => []DeploymentComplete` |
| | `NoAgentIsForgotten` | `Spec => []NeverForgotten` |
| | `LifecycleKept` | `~EarlyDelete` implies `Spec => ImplementsLifecycle` |
| `OcmAgentPodsProofs` | `RestartsReachPods` | `PodInit /\ [][PodNext]_podVars => []RestartNotMissed` |
| `FleetNotificationProofs` | `FleetTypeCorrect` | `Spec => []TypeOK` |
| | `ItemsStayUnique` | `Spec => []OneItemPerCluster` |
| | `RecentItemsKept` | `Spec => RecentLostOnlyIfOutrun` |
| | `ResendWindowsKept` | `Spec => ResendWindowKept` |
| | `LedgerKept` | new records name no notification twice implies `Spec => ImplementsLedger` |
| `ServiceLogsProofs` | `ServiceLogsTypeCorrect` | `Spec => []TypeOK` |
| | `CountsAreRight` | `Spec => []CountsRecorded` |
| | `PanicsAreExplained` | `Spec => []PanicsWhenUntold` |
| | `ResendsAreSpaced` | `Spec => []ResendSpaced` |
| | `Refinement` | `Spec => ImplementsThrottle` |

### The OcmAgent controller

Assumptions: the named `ASSUME`s of `OcmAgentResources` and `OcmAgentController`
(specs are specs, `Nil` is none of the values it stands apart from, limits are
natural numbers; `NoObjectAssumption`: `Nil` is neither an object nor an owner).
`CAMOGuarded` and `LifecycleKept` also assume that nobody deletes an `OcmAgent`
without finalizer, which the run `EarlyDeletion` shows to be necessary.

None of the properties is inductive by itself. The invariant is `Inv`:

- `HistoryInv`: how versions follow one another. The UID of a version is at most
  its position, UIDs never decrease along a history, and once a
  resource is being deleted it stays so; the cache and the copy of
  the reconcile in progress are versions that exist.
- `RunOK`: what `pc` says about `run`. The copy is being deleted exactly in the
  steps of the removal, and the token, the proxy and the list of policies are
  there where they are used.
- `OwnedInv`: an owned object refers to a UID that its agent's history knows, and
  while a removal runs, no owned object of that agent belongs to a resource
  created after the copy that the removal works from.

With the last one `RemovalIsSafe` follows: a removal works from a copy that is
being deleted, an object it meets belongs to that resource or an earlier one, and
neither is live. The reason it is kept is that a reconcile that creates objects
for a later resource needs the only worker. `CAMOGuarded` adds `CAMOInv`, by which
the step that could create the CAMO ConfigMap has a live copy or a resource with a
finalizer to answer for it. `NoEditIsLost` rests on the fact that an update is
accepted only on the current version.

The proof that a step preserves `Inv` has one lemma per action. Actions of the
worker that write one object share `ObjectStepInv`, those that write an `OcmAgent`
`WriteStepInv`, and actions of others that leave the worker alone `BystanderInv`.

`ReleasedClean` needs `RemovalInv` on top: `Gone(pc, run, spec)` is the set of keys
that the removal has dealt with when it comes to the step `pc`, and none of them
exists. It is kept by the worker, because each delete function goes on to the
next step only when its objects are gone (the metrics service excepted, see the run
`MetricsServiceLeft`), and by everybody else, because
others edit and delete objects of the operator but do not create them. The
token secret is the exception: a secret of that name may be provisioned for fleet
mode at any time. It has no owner, so for the secret both `RemovalInv` and
`FinalizerReleasedClean` say that there is none with an owner.

`NoAgentIsForgotten` needs `SightInv`: besides the property, that the reconcile in
progress works from the version in the cache or has been asked for again. Without
it the step that reads a stale copy, finds nothing to do and returns could be the
last one. All steps of the handler are covered by one lemma (`HandlerAttends`): they
go on with the same copy or return with an error, and then the request comes back.

`CompleteDeployment` needs `ProgressInv`: `Past(k, pc, run)` says that the object `k`
was ensured before the worker came to `pc` (each kind has its place in the order of
`EnsureOCMAgentResourcesExist`; the policies share one and are told apart by the list
that remains), and each such object that the spec wants is in place or excused. Each
ensure function has a lemma (`SecretCall` to `MonitorAndBudgetCall`): it puts its
object in place, whatever it found, and leaves the others. That meddling with the
agent's own object, or its collection, brings its request back needs `NamesInv`: such
an object belongs to a resource of the agent's name, and the CAMO ConfigMap to none.
That an excuse stays good until the end of the reconcile is `SettledStays`: a deleted
resource never lives again (`DepartedStays`), and only the worker takes requests out
of the queue.

`LifecycleKept` maps each action. Steps of the handler are `Provide`, `Announce`,
`Lose` or stuttering, and that the resource they provide for is there and has not
been let go follows from `CAMOInv`: as long as the worker deploys, the current
resource is live or has its finalizer (`Guards`). `addFinalizer` is `Guard`, because the update
succeeds on the current version only. `removeFinalizer` is `Release`; its condition is
`FinalizerReleasedClean`. The end of a foreground deletion is `Vanish`, and the
garbage collector and meddling users are `Lose`.

`RestartsReachPods` needs two invariants more, and no fairness. `RotationInv` is about
the controller alone: `stamp` is at least every annotation, budgets are within their
limits, the secret steps belong to agents outside fleet mode, `secretUpdated` is set
only after the secret was ensured, and the owner of a token secret is an agent that
had it managed. `PodsInv` is about the pods: their annotation is not later than
`stamp`, and `Provided` accounts also for pods that a rollout is going to replace,
because the next change of the Deployment may make their template the current one
again; that can happen only without annotation, as a restart writes a time
later than any that pods have. What a step does is put into three effects: on Deployments
(a new object, a changed configuration that drops the annotation, or a restart with a
later time), on the secrets (only the owner's ensure step replaces one, and then it
sets `secretUpdated`) and on the worker (goes on with the flag, or gives up after a
failure). Each handler has a lemma that names its effects (`...Rotates`), and the
argument about pods is about effects only: a replaced secret brings a restart
(`ReplacementComes`), the flag stays until the restart (`RestartComes`), and excuses stay
good (`ExcusesStay`).

TLC checked all these inductive invariants on the instances of `Lifecycle`, `Removal`
(foreground deletion) and `Shared` (two agents).

### The fleet controller

The first lemmas show that each method of the record and the removal of a
position keep the record's type and its items unique. The invariant is `TypeOK`,
unique items in the current record, and `SlotInv`: the slot that waits to be removed
is a stale one of the copy, and remains so while time passes. `RecentItemsKept`
then follows because a removal from an unchanged record takes exactly that slot.
`ResendWindowsKept` adds that an item that is stale is past its own interval too, as
long as neither the interval nor the sum with the timeout overflows (`Fits`). A wait
just below the longest Duration gives a sum that wraps around to a time in the past,
and the item goes at once; the property leaves such waits out.

`LedgerKept` needs `LedgerInv`: the invariant, and that no notification has two entries
in the current record. The methods search by name, some stop at the first entry
and others go on, so with a name twice they would work on different entries; nothing in
the record's type prevents that, and so the theorem assumes it of the records that
somebody creates. That `AgentRegister` keeps it is part of the proof. The lemmas
`AddedEntry`, `NotedEntry` and `RemovedEntry` say what a method that changes one list does
to the set of entries; they rest on `ReplacedEntries`, on the effect of replacing the items of one
notification, and on `SameEntry`: items at different positions are different entries. Then
each action is mapped (`...Refines`). `Reconcile` is `TakeAim` when it finds a stale item;
if it is out of aim from the start, the copy was not current. `patchRemove` is `Remove`,
and when the record was not written since, `SlotInv` makes its victim the entry aimed at. The
agent's methods are `Enter`, `Note` and `Strike`, and a firing notification is noted only when
`FiringCanBeSent` agrees with the ledger (`SentUnlessHeld`). A failed patch is
`Desist`, a restart `Desist` or `CatchUp`, and the watch `CatchUp`.

### Service logs

The invariant is `Sound` for the object, and `Informed` for every handler:

- `Sound`: names are unique among the records and types among the conditions of a
  record; no time is in the future; and record and history say the same (`Matches`):
  the count is the number of attempts recorded, as an int32, there is a record if
  and only if there was an attempt, and each condition is there, with or without a
  time, just as it was told.
- `Informed`: if nobody has written since a handler read the object, what it
  concluded still follows from the object: its answer was yes, and its draft is
  the object with one more attempt.

`CountsAreRight` is part of it. `PanicsAreExplained` follows from it because what
`CanBeSent` looks up is the one condition of its type, and `ResendsAreSpaced` because time only moves away from what was
recorded. For `Refinement` each action is mapped: `Receive` to `Permit`, `Update` to
`Record` when it stores its draft, to `Lapse` when it gives up and to a stuttering
step on a conflict, `Crash` to `Lapse` of all permits, `Create` and `Edit` to
`Configure`, `Delete` to `Forget`. All of it is proved for handlers of any style.

Assumptions of both: the named `ASSUME`s of `Durations`, `FleetRecord`,
`FleetNotificationController`, `ManagedNotification` and `ServiceLogs`.

### Only model-checked

All liveness properties (fairness and `ENABLED` are beyond the prover): `Converges`,
`ComesToRest`, `DeletionCompletes`, `NothingLeftBehind`, the two gauges,
`TokenReachesUnlessUndone`, `StaleItemsGo`.

## 5. Not modelled

- Two operators at once. Leader election is off by default and a rollout of the
  operator can overlap; the models have one operator at a time. The proofs show
  where that matters: `OwnedInv` and `RemovalInv` hold because no other worker
  creates objects while a removal runs.
- Two pod restarts within one second, the resolution of the restart annotation,
  are in the model (`SameSecond`) but switched off in the runs. With `SameSecond`
  the instance of `Rotation` violates `TokenReachesUnlessUndone`: the second restart leaves the
  template as it was and the pods keep the first token. It takes two changes of the
  pull secret and two complete reconciles within a second.
- Whether the pods see a changed ConfigMap: nothing in the repository says whether
  the agent reloads its configuration.
- The handlers of the OCM Agent are not in this repository. `ServiceLogs` assumes that
  they send only after a yes from `CanBeSent`, record with the methods of the API from
  a copy they have just read (with the count it has), one and the same time for all
  conditions of an attempt, and update with the
  resource version of that copy; which conditions they set is free. Handlers that
  set conditions without a time are covered by the proofs and not by the run.
  `FleetNotificationController` assumes more: the agent's question to `FiringCanBeSent`
  and the write that records the notification are one step on one version, so an agent
  that asks, sends, and records on a later version is not modelled there.
- Edits of fields that the code never compares, and changes of an object by others
  between the Get and the write of one ensure or delete function, except as a failure
  of the call (section 2).
- Parsing of the pull secret: the secret yields a token or it does not.
- URLs, ports, labels and selectors beyond "as built" and "not as built"; the
  failure of `buildCAMOConfigMap` on an unparsable URL cannot occur with the names
  Kubernetes admits.
- Start-up code, webhook server, probes, generated code.
- The cache is assumed to move forward only.
- An abstract specification of everything the OcmAgent controller does.
  `AgentLifecycle` has what the finalizer promises; which contents the objects have is
  stated as properties (`DeploymentComplete`, `Converges`) instead.
