# TLA+ specifications of the Trino operator

The operator keeps the Kubernetes objects of a `TrinoCluster` (ConfigMaps,
Services, StatefulSets and a Secret) in line with its spec. These modules model
its reconcile loop, the builders behind it and the pods that run what it writes.
TLC checks them on small instances, and TLAPS proves the safety properties for all
instances, among them that the operator implements an abstract specification of
what it promises, and that it leaves alone what it has established.

## The system and its parts

| Part | Source | Module |
|---|---|---|
| Reconcile loop, watches | `internal/controller/trino_controller.go` | `TrinoOperator` |
| Cluster reconciler: objects, order, discovery host | `internal/controller/cluster/cluster.go` | `TrinoResources` |
| Role reconcilers: role groups, four objects each | `internal/controller/{coordinator,worker}/role.go` | `TrinoResources` |
| Merge of role and group config, object names | `role.go`, `common/service.go` | `RoleConfig` |
| Builders of ConfigMap, StatefulSet, Services | `internal/controller/common/*.go` | `TrinoResources` |
| Shared secret reconciler | `internal/controller/common/secret.go` | `TrinoOperator`, `TrinoResources` |
| Authentication (OIDC, LDAP, Static) | `internal/controller/common/authz/*.go` | `Authentication` |
| JVM heap from the memory limit | `common/configmap.go`, `getHeapSize` | `HeapSize`, `RoleConfig` |
| Script of the container | `common/statefulset.go`, `getMainContainerArgs` | `LauncherScript` |
| Pods: template, secret, configuration, probes | `common/statefulset.go` | `TrinoPods` |
| Manager, leader election | `cmd/main.go` | `TrinoOperator` |
| API types | `api/v1alpha1/trino_types.go` | constants and records of `TrinoResources` |

How they interact. A watch event for the `TrinoCluster`, or the periodic resync,
puts its key in the work queue. A call of `Reconcile` reads the instance from the
informer cache, registers one reconciler per object, and runs them in order; the
first that fails ends the call, and the key goes back in the queue. Each
reconciler builds the object it wants (the builders of the coordinator's
ConfigMap and of every StatefulSet read the AuthenticationClasses on the way),
compares it with the cached one and creates or updates it. Children are not
watched by the controller; they go with the cluster through owner references.

The loop over the reconcilers, the generic create-or-update, pause and requeue
come from the library operator-go, and caches, queues and restarts from
controller-runtime and Kubernetes. They are not in this repository and are
modelled from how it uses them.

## Modules

`Authentication` (operators only). A class is the provider it configures.
`AuthenticatorFectory`, `NewAuthenticationFails` and the getters have the names
of the functions they model, and return the sets of variables, exports, volumes
and mounts that a set of authenticators contributes.

`TrinoResources` (operators only). `RegisterResources(s)` is the set of orders in
which a pass may visit the objects: Go's map iteration makes the order of the role
groups arbitrary. `Build(s, o, fqdn, T)` is the set of contents the builder of
object `o` may produce from the authenticators `T` it has read. A content keeps
what one object says about another: ports by name, schemes, discovery host,
volumes and mounts, environment variables defined and referred to, replicas.

`TrinoOperator` (state machine).

| Variable | Stands for |
|---|---|
| `spec`, `classes`, `aggregator`, `store` | the API server: cluster, classes, the ConfigMap of the vector aggregator, children |
| `active`, `seen`, `cache`, `stale`, `removals`, `queued` | per operator process: running, cached instance, cached children, which of them are outdated, which deletions its informers have still to report, work queue |
| `pass` | the `Reconcile` call under way: instance read, discovery host chosen, queue of objects, position, classes read for the current builder |
| `deleted`, `disturbed` | history: children somebody deleted; how often the environment interfered |

| Action | Code |
|---|---|
| `Reconcile` | `TrinoReconciler.Reconcile` up to `Run`; returns at once for a missing or paused cluster |
| `NewAuthentication` | one `Get` of an AuthenticationClass by a builder, with its failures and panics |
| `ReconcileObject` | build, compare, create or update one object; conflict, rejection, requeue |
| `SecretGet`, `SecretReconcile` | the two reads of `InternalSharedSecretReconciler.Reconcile` |
| `Start`, `ClusterEvent`, `ChildEvents`, `DeletionEvent`, `Resync` | manager, informers, work queue |
| `EditCluster`, `Uninstall`, `EditClass`, `EditAggregator`, `DeleteChild` | users |
| `CollectGarbage`, `ApiError`, `Crash` | garbage collector, failing calls, process end |

A write is accepted when it creates an object that does not exist, or updates the
version the operator has read; `stale` stands for the resourceVersion comparison.
An informer reports an object that was deleted and created again as a deletion
(`DeletionEvent`) and then as what it is now (`ChildEvents`), or catches up at once;
other versions in between are skipped, as a write based on one of them is refused
like one based on the version before.
A panic in a builder (nil provider of a missing class, nil `OidcSpec`, memory
limit) is recovered by controller-runtime and ends the call like an error, and so
does a vector aggregator that cannot be found (`BuildFails`). A write may also end the
call with a requeue, or be applied and its answer lost.

`ClusterPromise` (abstract state machine) is what a reader of the objects may rely
on, with no operator, cache or pass in it: an object is written only when all it
refers to is provided (exists, or was deleted by somebody else), a settled secret is
not written, nothing is written during a pause in force, and settled and frozen last.
`TrinoRefinement` maps `TrinoOperator` to it: `content` is `store`, `wanted` is
`spec`, `settled` is `SecretSettled`, `frozen` is `PausedAndQuiet`, and `DependsOn`
says which objects a content refers to. `PromiseKept` is the abstract specification
under this mapping.

The last section of `TrinoOperator` states convergence as an invariant that is reached
and then kept. `Established`: every child is one of the contents its builder may make of
the current spec and classes (`Wanted`), and every running operator has all of that in
an up-to-date cache; a call under way has read nothing older (`InStep`). `Undisturbed`
steps change neither spec nor classes and delete nothing. `EstablishedKept` says that
such steps keep `Established` and write nothing, `EstablishedFits` that `Established` is
what `Converges` asks for, `Settles` that it is reached for good. `TrinoPods` does the
same for pods with `PodsSettled`, `RunningPodsKept`, `PodsUp` and `PodsSettle`.

`TrinoPods` (state machine, extends `TrinoOperator`). For each pod, what it has read and
when: the template (`CreatePod`), the mounted ConfigMap, which follows its object
(`MountConfig`), the secret through `envFrom` (`StartContainer`), the copy of the
configuration made by the script (`CopyConfig`). `ProbeFails` restarts a container whose
server and probe disagree or whose environment is incomplete; `ContainerEnds` stands for
any other end; `DeletePod` is the rolling update and the scale-down. No code in the
repository sets `podManagementPolicy` (the library's builder could), so the StatefulSet
controller is modelled with Kubernetes' default, `OrderedReady`: a pod is created when
those before it are ready, and replaced or removed when all that should exist are ready,
itself included, and those after it are done. Readiness is the same probe as liveness
(`statefulset.go:211-212`). Pods of different StatefulSets do not wait for each other,
and none changes what the operators see, so the pods of one StatefulSet are enough.

This makes a deadlock possible, which the model reaches (`Stuck`): the ConfigMap is
written before the StatefulSet, a container that starts in between, or restarts before
the rollout gets to it, runs the new configuration under the old template's probes and
never becomes ready, and the controller waits for it before it replaces any pod of the
StatefulSet. Nothing in the code resolves this; a user has to delete the pod.

`LauncherScript` (state machine). One action per command of the script, in a pod
whose containers end and restart. A TERM is acted upon between commands, is ignored
without a trap, and only sets `term_kill_needed`: the launcher runs in the
foreground, `$!` is empty, and so is `term_child_pid`. A consequence the model makes
plain: TERM never reaches the launcher, which is stopped by the end of the grace
period (`KillContainer`, `RemovePod`) unless it ends by itself. A container may be
killed at any command, for its probe or its memory, and every command that can fail
may fail, the one that writes the marker included; `end` records which it was.

`RoleConfig` (state machine, with the operators of `HeapSize`). The range over the
role groups, one iteration at a time in any order, with the merge and the four
registered objects; edits between passes. It yields what `TrinoResources` takes as
given: `heapOk` of a role group stands for a merged memory limit `getHeapSize`
accepts, and objects with different kind, role or group have different names (except
for a group called `x-metrics`). `HeapSize` has the base of the units as a constant.
The CRD's default fills a `queryMaxMemory` that is left out, not an explicit empty one.
Memory without its limit is a zero quantity (limit 0), on which `getHeapSize` panics;
the library's merge, which is not in the repository, is assumed to take it from the
group as a value that is set, and an empty string as one that is not.

`MCTrinoOperator`, `MCTrinoPods` and `MCRoleConfig` give the constants their values. The
modules whose names end in `Proofs`, and `ClusterPromise`, hold the proofs. Definitions
introduced by a comment that starts with "Mutant" are faulty versions of the definition
after them; each property is known to fail when one of them takes the place of the
original.

## Runs

`tlc -config <name>.cfg <module>`.

| Run | Module | Question | Properties |
|---|---|---|---|
| Lifecycle | `MCTrinoOperator` | creation and one edit, coordinator and worker, http/https, stopped | `TypeOK`, `ConfiguredBeforeStarted`, `Converges` |
| Faults | `MCTrinoOperator` | one failed call, one crash, one deletion of any child | `HttpsEntryHasSecret`, `ConfiguredBeforeStarted`, `SettledSecretKept`, `EstablishedKept`, `PromiseKept`, `Converges`, `Settles` |
| Uninstall | `MCTrinoOperator` | the cluster is deleted at any moment | `Converges`, `Settles` (to nothing) |
| Failover | `MCTrinoOperator` | two managers with leader election, one crash, one edit among stopped, paused and https | `Converges`, `SettledSecretKept`, `PauseHolds`, `PromiseKept` |
| AuthClasses | `MCTrinoOperator` | two classes of all kinds, missing included, one without `OidcSpec`, an aggregator that may be missing, one edit between reads | `EstablishedFits`, `Converges`, `Quiesces` |
| TwoOperators | `MCTrinoOperator` | two managers without leader election, one failed call, one crash, one deletion; shared secret and role Service | `SettledSecretKept`, `EstablishedKept` |
| Rename | `MCTrinoPods` | coordinator group renamed or removed, unusable memory limit, a worker pod that reads at any time | `WorkerDiscoveryResolves`, `PodDiscoveryResolves` |
| Pods | `MCTrinoPods` | two http coordinators become one with TLS and vector, or the reverse, while their pods start, are probed, restart and are replaced | `HttpsEntryHasSecret`, `Converges`, `PodsConverge`, `PodsSettle`, `AgreementKept`, `RunningPodsKept` |
| LauncherScript | `LauncherScript` | three containers, TERM, KILL and failures anywhere | `MarkerMeansStopped`, `LaunchPrepared`, `MarkerTellsEnd`, `ShutdownAnnounced` |
| RoleConfig | `MCRoleConfig` | two groups with clashing names, all mixtures of configs | `MergedAlone`, `HeapFitsContainer`, `QueryMaxMemorySet`, `NamesDistinct` |

What they show:

- Order. However passes are cut off, repeated or interleaved, no StatefulSet is
  created before its ConfigMap and Services, no worker is pointed at a coordinator
  Service that was not created, and the https entry point opens after the secret.
- Secret. Its value can change while some operator has not seen it yet (below), or has
  still to hear of the deletion of the one before it. Once all running operators are up
  to date, it keeps its value until somebody deletes it.
- Pause. It binds from the moment every running operator has seen it and no call
  is under way; a call that started earlier runs to its end.
- Convergence. When interference stops, the children become and stay what the last
  spec and the last classes ask for: ConfigMap, StatefulSet and Service of each role
  group agree on scheme, ports, discovery host, variables, volumes and replicas. The
  metrics Service is only required to exist: the port `metrics` it forwards to is
  declared by no container. This is claimed
  for specs with one coordinator role group, accepted memory limits, and existing
  classes of which at most one is OIDC or LDAP and none Static. Outside of that
  the code does not settle: the discovery host and the authentication type follow
  Go's map order from pass to pass, and Static is rejected by the API server.
- Permanence. What is established is left alone: no resync, failing call, crash,
  restart, failover or second operator writes anything, an uninstalled cluster does
  not come back, and running pods are not restarted.
- Rest. The operator stops writing, also when its passes fail for ever, unless the
  spec is ambiguous (several coordinator groups, or OIDC together with LDAP).
- Pods. A pod may read a template and a configuration of different versions; a probe
  or the rolling update then replaces what it runs, and it ends up as specified, unless
  it is stuck as described above or waits for a pod that is: nothing else keeps the pods
  from what the spec asks for. Pods
  that agree on a settled secret stay in agreement with all later ones. A worker that
  runs an old configuration still finds the coordinator Service it names, because the
  objects of removed role groups are left in place.
- Script. The server never runs beside the marker that stops the log collector, and
  only on what its own container prepared. A server that ended with status 0 is
  announced whenever TERM arrives, unless the marker cannot be written or the container
  is killed first; one that failed is not (`set -e`), also where an earlier container
  had left the marker.
- Role groups. What a group gets does not depend on the others or on the map order.
  The heap is at most 8/10 of the container's limit, and less than 1/1024 of the limit
  below that. `query.max-memory` is empty only where every config there is says so, and a
  group that has a config and leaves it out takes the CRD's 5GB over what its role says;
  50GB holds only where neither has a config.

Two runs show the code disagreeing with a text of the repository:

- `SecretRewritten`: "If it does not exist, create it, otherwise do nothing"
  (`common/secret.go:74`). The reconciler reads the Secret, finds nothing, and
  hands over to the generic reconciler, which reads again. When the informer
  catches up between the two reads, the existing Secret is updated with new bytes.
- `OAuth2Example`: `examples/simple-trino-oauth2.yaml` declares a cluster that lists a
  Static class (lines 75 and 100). `getVolumeName` (`common/authz/static.go:36`) appends
  a class name that is never set, the API server rejects the volume name
  `auth-secrets-`, and the cluster never gets a StatefulSet.

A text that is off and has no run: the panic of `getHeapSize` says "must be greater
than 1K" (`common/configmap.go:296`), while every limit below 1M panics
(`HeapSizePanics`). Another: the CRD describes a `PodDisruptionBudget` per role that is
written out by default (`config/crd/bases/trino.kubedoop.dev_trinoclusters.yaml:300-311`),
and the controller asks for the permission to write it (`trino_controller.go:49`), but no
code under `internal/` registers one.

### Bounds

One or two role group names, replicas 0 or 1 (up to 2 in Pods), at most two classes, one
operator or two. The properties relate objects of one role group, a worker to a coordinator,
and two operators to one secret, so one more of each would add symmetric cases;
the proofs cover all sizes for the safety properties. Three secret values where the
secret is in question: the stored one, a different cached one and a fresh one; two
where liveness or pods make the instance large (an overwritten value still differs
from the one a pod or a cache holds). `Limits` bounds each kind of interference; the interesting
cases need one failure per kind and one edit at any point of a pass. A stale
cache, a requeue and a resync are never bounded.
Symmetry over secret values is used in safety runs only. Deadlock is not checked in
`Uninstall`, where the system may end with nothing left to do, and in
`LauncherScript`, where the pod goes away.
TwoOperators has no role groups, as with them two operators and a deletion make over two
million states: the secret is what two operators can disagree on, and `EstablishedKept`
is proved for all objects. Rename has one coordinator role group at a time; several at
once are left to the proofs for the same reason.
Pods: in the run Pods two pods of one StatefulSet, so that one waits for the other, and no
container that ends by itself; restarts by probes are not bounded. In Rename one worker
pod, and one container that ends by itself. Script: three containers, so that a marker is
left, removed and left again. Role groups: the names `a` and `a-metrics`; base 4 with
limits of none (0), at and above the smallest threshold (16, 90), at the largest (256) and
above it (300), so limits of role and group differ in unit.

### Fairness

Weak fairness on each operator's step (the work queue serves a queued key and a
call does not hang), on `Start` (the Deployment restarts its pods), on informer
events and resync (controller-runtime's cache), and on the garbage collector, as long
as it has anything to collect. No
fairness is assumed of users, failures or crashes, and none of the outcome of a
write: every call may end with a requeue.

Pods: for each pod, weak fairness on the StatefulSet controller's creation or removal of
it, on its volume's updates, and on the progress of its container (start, the script's
copy, probe); none on `ContainerEnds`. The controller's guards, readiness included, are
part of the actions, so nothing is assumed of pods it waits for.
Script: weak fairness on the shell's commands; none on the launcher, which may run for
ever, nor on the kubelet.

## Proofs

All for arbitrary sets of operators, role groups, classes and specs, arbitrary
limits, from the named assumptions in the modules (role group names are finite
and `NoGroup` is none of them, specs are well formed, `Absent` is no content).

- `TrinoResourcesProofs`: `RegistrationOrder` (in every registration order the
  objects another one depends on come earlier) and `BuildType`.
- `TrinoOperatorProofs`: `TypeCorrect`.
- `TrinoSafetyProofs`: `OrderInvariant` and from it `StartOrder`,
  `DiscoveryOrder`, `SecretOrder`; then `SecretKept` and `PauseKept`; `Refinement`,
  `TrinoOperator` implements `ClusterPromise`; and `NoDanglingReference`.
- `TrinoConvergenceProofs`: `EstablishedLasts`, `EstablishedIsSpecified`,
  `ConvergenceByRecurrence`.
- `TrinoPodsProofs`: `OperatorsAlone`, `PodDiscovery`, `PodAgreement`,
  `PodsLeftAlone`, `PodConvergenceByRecurrence`, for any set of pods.
- `LauncherScriptProofs`: `MarkerSafe`, `LaunchSafe`, `EndAnnounced`, for any number
  of containers.
- `RoleConfigProofs`: `MergeCorrect`, `HeapCorrect`, `QueryMemoryCorrect`,
  `NamesCorrect`, for any role groups, limits and base.

The ordering invariants are not inductive: a pass that skips an object because its
cache holds it says nothing of the server unless the cache is right. `OrderInv`
adds two facts. `CachesSound`: a cached object exists or was deleted by a user or
the garbage collector. `CallsSound`: a running pass has provided all objects before
its position, and only running operators have one. A write then needs only the
registration order. `SecretKept` uses `CallsSound` to rule out a process that is
not running but between the two reads, and `SecretSettled` says that no informer has a
deletion of the secret still to report; `PauseKept` uses it to know that a starting
operator has no call under way. `TypeOK` carries the registration order of every
pass and is itself inductive.

The refinement proof goes step by step. A step that writes `o` does so from a pass
that has provided everything registered before `o` (`CallsSound`), and the
registration order puts there all that the content refers to (`RefsProvided`); all
other steps remove objects or leave them alone, and `SecretKept` and `PauseKept` are
what `Lasting` asks for. `NoDanglingReference` is then `NothingDangles` under the
mapping, a lemma of `ClusterPromise` about the abstract specification alone.

Convergence has a safety half, which is proved, and a liveness half, which is not. For
the safety half `Established` must say what a pass sees: that the classes a builder has
read so far are the current ones (`InStep`), that the children are in all caches, with
no deletion to be reported, and that nothing is left to the order of a map
(`~Ambiguous`). Then what a builder makes is unique (`WantedUnique`) except for the
secret's random bytes, equals what is cached, and is not written; the secret is found by
its first read. `CallsSound` is used again: a process that is not running has no call
under way, so one that starts is in step. `EstablishedSpecified` goes through the
builders: their results, made from separate reads, agree on scheme, ports, probes,
variables, discovery host, replicas and secret. `ConvergenceByRecurrence` puts the two
together: once steps are `Undisturbed`, `Settles` and `Converges` follow from
`[]<>(Attainable => Established)` alone, without fairness. For pods the same argument is
made on top of `ObjectsFit` (the ConfigMap and the template of an established role group
fit, and the secret is there): a pod that has read only these works, so no probe fails,
and no template or volume changes under it. A stuck pod stays stuck (`StuckStep`):
whatever its container does it reads the ConfigMap that does not fit, so it is never
ready and never replaced.

The pods' proofs start from `PodSpec => Spec` (a pod step is a stutter of the
operators), so every theorem about the operators holds beside the pods; their own
invariant says that what a pod has read was stored once, and that an object once
provided stays so. `ScriptInv` ties the position in the script to what has been prepared
and removed by then, and to how the launcher has ended. `PassInv` says that the pass's
copy of the role's config is still the role's.

Model-checked only, because liveness under fairness is beyond TLAPS:

- that established states and running pods are reached at all, which is the recurrence the
  two theorems above assume and what remains of `Converges`, `Settles`,
  `PodsConverge` and `PodsSettle`;
- `Quiesces`, which also speaks of specs that can never be established;
- `ShutdownAnnounced`, of which `EndAnnounced` is the safety half.

## Not modelled

- Text of configuration files, labels, annotations, images, mount paths.
- The Trino server itself, and the sidecar beyond its reading the marker file.
- Files of a ConfigMap one by one: `cp` may meet a volume that is being swapped.
- Pods a user deletes, and nodes that fail.
- A `PodDisruptionBudget`: no code registers one.
- `TrinoCatalog`: declared and never reconciled.
- Generated deep copies, scheme registration, version output, flags and endpoints
  of the manager.
- Fields the code reads and ignores (storage size, internal secret class); config and
  environment overrides, which are merged like the config and applied by the library.
- Floating point in `getHeapSize`: the product with 0.8 is exact here.
- An error of `MergeObject`: the library's merge of two values of one type does not
  fail on the values the API server admits.
