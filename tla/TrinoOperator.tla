--------------------------- MODULE TrinoOperator ----------------------------
(***************************************************************************)
(* The reconcile loop for one TrinoCluster: operator processes that read   *)
(* the cluster from an informer cache, register its objects and reconcile  *)
(* them one after the other against the API server, while users edit the   *)
(* TrinoCluster and the AuthenticationClasses, others delete objects, API  *)
(* calls fail and processes restart.                                       *)
(*                                                                         *)
(* Reads of children come from a cache that lags behind the server; a      *)
(* write is accepted only against the current version of the object        *)
(* (resourceVersion), so a write based on a stale read fails.  `stale`     *)
(* stands for the version comparison.  A lagging cache holds the version   *)
(* it has seen last until it catches up; of the versions in between it may *)
(* show only the absence of an object deleted and created again, as any    *)
(* other old version merely has a write refused as well.                   *)
(* AuthenticationClasses are read from `classes`, the state their informer *)
(* has delivered.                                                          *)
(*                                                                         *)
(* What the environment does (edits of the cluster and of classes,         *)
(* deletions, failed calls, crashes) is bounded per kind by Limits.        *)
(***************************************************************************)
EXTENDS TrinoResources

CONSTANTS
    Operators,          \* operator processes (pods of the Deployment)
    LeaderElection,     \* the --leader-elect flag
    Specs,              \* the TrinoCluster specs the user may submit
    ClassStates,        \* the states an AuthenticationClass may be put in
    AggregatorStates,   \* whether the vector aggregator's ConfigMap may (not) exist
    NoCluster,          \* the TrinoCluster does not exist
    Limits              \* how often each kind of disturbance may happen

Disturbances == {"edit", "uninstall", "class", "delete", "error", "crash"}

ASSUME SpecsAreSpecs == Specs # {} /\ Specs \subseteq TrinoClusterSpec
ASSUME LeaderElectionIsBoolean == LeaderElection \in BOOLEAN
ASSUME ClassStatesAreProviders == ClassStates # {} /\ ClassStates \subseteq Providers
ASSUME AggregatorStatesAreBooleans == AggregatorStates # {} /\ AggregatorStates \subseteq BOOLEAN
ASSUME NoClusterIsNoSpec == NoCluster \notin Specs
ASSUME LimitsAreNats == Limits \in [Disturbances -> Nat]

VARIABLES
    spec,       \* the TrinoCluster in the API server
    classes,    \* the AuthenticationClasses
    aggregator, \* the ConfigMap vectorAggregatorConfigMapName names exists
    store,      \* the children in the API server
    deleted,    \* history: objects a user or the garbage collector has deleted
    active,     \* the operators whose controller runs
    seen,       \* seen[p]: the TrinoCluster in the cache of operator p
    cache,      \* cache[p]: the children in the cache of operator p
    stale,      \* stale[p]: children whose cached version is not the latest
    removals,   \* removals[p]: those of which p has a deletion still to be told
    queued,     \* queued[p]: the cluster's key is in the work queue of p
    pass,       \* pass[p]: the Reconcile call in progress
    disturbed   \* how often the environment has interfered, per kind

vars == <<spec, classes, aggregator, store, deleted, active, seen, cache, stale, removals,
          queued, pass, disturbed>>

\* A Reconcile call: the instance it read, the discovery host it chose, the
\* registered objects, the index of the one being reconciled, the providers read
\* so far for its builder; phase "missing" is the shared secret's reconciler
\* between its own read, which found nothing, and the generic reconciler.
Idle == [phase |-> "idle", inst |-> NoCluster, fqdn |-> NoGroup,
         queue |-> <<>>, at |-> 1, reads |-> <<>>]

Passes == [phase : {"idle", "build", "missing"}, inst : Specs \cup {NoCluster},
           fqdn : Groups \cup {NoGroup}, queue : Seq(Objects),
           at : Nat \ {0}, reads : Seq(Providers)]

\* A call under way works through the objects registered for its instance.
Registered(x) ==
    x.phase # "idle" => /\ x.inst \in Specs
                        /\ x.queue \in RegisterResources(x.inst)
                        /\ x.fqdn \in getCoordinatorSvcFqdn(x.inst)
                        /\ x.at \in 1..Len(x.queue)

TypeOK ==
    /\ spec \in Specs \cup {NoCluster}
    /\ classes \in [Classes -> Providers]
    /\ aggregator \in BOOLEAN
    /\ store \in [Objects -> Content \cup {Absent}]
    /\ deleted \in SUBSET Objects
    /\ active \in SUBSET Operators
    /\ seen \in [Operators -> Specs \cup {NoCluster}]
    /\ cache \in [Operators -> [Objects -> Content \cup {Absent}]]
    /\ stale \in [Operators -> SUBSET Objects]
    /\ removals \in [Operators -> SUBSET Objects]
    /\ \A p \in Operators : removals[p] \subseteq stale[p]
    /\ queued \in [Operators -> BOOLEAN]
    /\ pass \in [Operators -> Passes]
    /\ \A p \in Operators : Registered(pass[p])
    /\ disturbed \in [Disturbances -> Nat]

Init ==
    /\ spec \in Specs
    /\ classes \in [Classes -> ClassStates]
    /\ aggregator \in AggregatorStates
    /\ store = [o \in Objects |-> Absent]
    /\ deleted = {}
    /\ active = {}
    /\ seen = [p \in Operators |-> NoCluster]
    /\ cache = [p \in Operators |-> [o \in Objects |-> Absent]]
    /\ stale = [p \in Operators |-> {}]
    /\ removals = [p \in Operators |-> {}]
    /\ queued = [p \in Operators |-> FALSE]
    /\ pass = [p \in Operators |-> Idle]
    /\ disturbed = [d \in Disturbances |-> 0]

-----------------------------------------------------------------------------
(* The Reconcile call.                                                       *)

Current(p) == pass[p].queue[pass[p].at]

\* Mutant: a paused cluster is reconciled like any other.
ReconcilePaused(p) ==
    /\ p \in active
    /\ queued[p]
    /\ pass[p].phase = "idle"
    /\ queued' = [queued EXCEPT ![p] = FALSE]
    /\ seen[p] \in Specs
    /\ \E q \in RegisterResources(seen[p]), f \in getCoordinatorSvcFqdn(seen[p]) :
          pass' = [pass EXCEPT ![p] = [phase |-> "build", inst |-> seen[p], fqdn |-> f,
                                       queue |-> q, at |-> 1, reads |-> <<>>]]
    /\ UNCHANGED <<spec, classes, aggregator, store, deleted, active, seen, cache, stale, removals, disturbed>>

\* Reconcile: read the instance from the cache, return when it does not exist;
\* register the resources; Run returns at once when the cluster is paused.
Reconcile(p) ==
    /\ p \in active
    /\ queued[p]
    /\ pass[p].phase = "idle"
    /\ queued' = [queued EXCEPT ![p] = FALSE]
    /\ \/ /\ seen[p] = NoCluster \/ (seen[p] \in Specs /\ seen[p].paused)
          /\ UNCHANGED pass
       \/ /\ seen[p] \in Specs
          /\ ~seen[p].paused
          /\ \E q \in RegisterResources(seen[p]), f \in getCoordinatorSvcFqdn(seen[p]) :
                pass' = [pass EXCEPT ![p] = [phase |-> "build", inst |-> seen[p], fqdn |-> f,
                                             queue |-> q, at |-> 1, reads |-> <<>>]]
    /\ UNCHANGED <<spec, classes, aggregator, store, deleted, active, seen, cache, stale, removals, disturbed>>

\* Mutant: Reconcile does not return the error but calls Run again, with the instance
\* it has.
RetryInPlace(p) ==
    /\ pass' = [pass EXCEPT ![p].at = 1, ![p].phase = "build", ![p].reads = <<>>]
    /\ UNCHANGED queued

\* The call returns an error (or panics, which is recovered): the key is put back
\* in the work queue.
Abort(p) ==
    /\ pass' = [pass EXCEPT ![p] = Idle]
    /\ queued' = [queued EXCEPT ![p] = TRUE]

\* The reconciler of the current object is done: the next one, or, after the last,
\* the end of the call.  (When it asks for another call, as objects are not ready
\* yet, that call is one Resync allows.)
Advance(p) ==
    \/ /\ pass[p].at < Len(pass[p].queue)
       /\ pass' = [pass EXCEPT ![p].at = @ + 1, ![p].phase = "build", ![p].reads = <<>>]
       /\ UNCHANGED queued
    \/ /\ pass[p].at = Len(pass[p].queue)
       /\ pass' = [pass EXCEPT ![p] = Idle]
       /\ UNCHANGED queued

\* The providers read by call number c of the builder of the current object.
ReadBy(p, c) ==
    LET n == Len(pass[p].inst.auth)
    IN  {pass[p].reads[i] : i \in {j \in ((c - 1) * n + 1)..(c * n) : j <= Len(pass[p].reads)}}

ReadsLeft(p) ==
    Len(pass[p].reads) < AuthenticationCalls(Current(p)) * Len(pass[p].inst.auth)

\* NewAuthentication, one Get: the builder of the current object reads the next
\* class, and fails when it cannot use it.
NewAuthentication(p) ==
    LET n == Len(pass[p].inst.auth)
        k == Len(pass[p].reads)
        c == (k \div n) + 1
        entry == pass[p].inst.auth[(k % n) + 1]
        found == classes[entry.class]
        fails == \/ NewAuthenticationFails(found, ReadBy(p, c))
                 \/ OidcConfigMissing(found, entry) /\ UsesOidcSpec(Current(p), c)
    IN  /\ pass[p].phase = "build"
        /\ ReadsLeft(p)
        /\ \/ /\ ~fails
              /\ pass' = [pass EXCEPT ![p].reads = Append(@, found)]
              /\ UNCHANGED queued
           \/ /\ fails \/ (StaticConfigIsNil(found) /\ Current(p).kind = "configmap")
              /\ Abort(p)
        /\ UNCHANGED <<spec, classes, aggregator, store, deleted, active, seen, cache, stale, removals, disturbed>>

\* What the builder of the current object may produce once it has its reads.
Built(p) ==
    Build(pass[p].inst, Current(p), pass[p].fqdn,
          [c \in 1..4 |-> AuthenticatorFectory(ReadBy(p, c))])

\* Object o changes in the API server; no cache has seen it yet.
Put(o, c) ==
    /\ store' = [store EXCEPT ![o] = c]
    /\ stale' = [q \in Operators |-> IF q \in active THEN stale[q] \cup {o} ELSE stale[q]]
    /\ removals' = [q \in Operators |-> IF q \in active /\ c = Absent
                                        THEN removals[q] \cup {o} ELSE removals[q]]

\* The server accepts content c for object o from operator p: a create when no
\* such object exists, an update of the version p has read.
Accepts(p, o, c) ==
    /\ ValidObject(o, c)
    /\ \/ cache[p][o] = Absent /\ store[o] = Absent
       \/ cache[p][o] # Absent /\ o \notin stale[p]

\* GenericResourceReconciler: create the object, or update it when the cached one
\* differs.  A write may end the call with a requeue, and so does a write that is
\* applied and whose answer is lost.
GenericReconcile(p, c) ==
    LET o == Current(p)
    IN  \/ /\ cache[p][o] = c
           /\ Advance(p)
           /\ UNCHANGED <<store, stale, removals>>
        \/ /\ cache[p][o] # c
           /\ Accepts(p, o, c)
           /\ Put(o, c)
           /\ Advance(p) \/ Abort(p)
        \/ /\ cache[p][o] # c
           /\ ~Accepts(p, o, c)
           /\ Abort(p)
           /\ UNCHANGED <<store, stale, removals>>

\* The builder of the current object fails: a panic, or MakeVectorYaml, which reads
\* the aggregator's address from a ConfigMap, does not find it.
BuildFails(p) ==
    \/ BuildPanics(pass[p].inst, Current(p))
    \/ pass[p].inst.vector /\ Current(p).kind = "configmap" /\ ~aggregator

\* The reconciler of every object but the shared secret.
ReconcileObject(p) ==
    /\ pass[p].phase = "build"
    /\ Current(p) # SharedSecret
    /\ ~ReadsLeft(p)
    /\ \/ /\ BuildFails(p)
          /\ Abort(p)
          /\ UNCHANGED <<store, stale, removals>>
       \/ /\ ~BuildFails(p)
          /\ \E c \in Built(p) : GenericReconcile(p, c)
    /\ UNCHANGED <<spec, classes, aggregator, deleted, active, seen, cache, disturbed>>

\* Mutant: the Secret is not looked for before it is written.
SecretNotSought(p) ==
    /\ pass[p].phase = "build"
    /\ Current(p) = SharedSecret
    /\ pass' = [pass EXCEPT ![p].phase = "missing"]
    /\ UNCHANGED <<spec, classes, aggregator, store, deleted, active, seen, cache, stale, removals, queued, disturbed>>

\* Mutant: the test of the Get's error is inverted.
SecretTestInverted(p) ==
    /\ pass[p].phase = "build"
    /\ Current(p) = SharedSecret
    /\ \/ /\ cache[p][SharedSecret] = Absent
          /\ Advance(p)
       \/ /\ cache[p][SharedSecret] # Absent
          /\ pass' = [pass EXCEPT ![p].phase = "missing"]
          /\ UNCHANGED queued
    /\ UNCHANGED <<spec, classes, aggregator, store, deleted, active, seen, cache, stale, removals, disturbed>>

\* InternalSharedSecretReconciler.Reconcile, its own Get: done when the Secret is
\* found, otherwise on to the generic reconciler ...
SecretGet(p) ==
    /\ pass[p].phase = "build"
    /\ Current(p) = SharedSecret
    /\ \/ /\ cache[p][SharedSecret] # Absent
          /\ Advance(p)
       \/ /\ cache[p][SharedSecret] = Absent
          /\ pass' = [pass EXCEPT ![p].phase = "missing"]
          /\ UNCHANGED queued
    /\ UNCHANGED <<spec, classes, aggregator, store, deleted, active, seen, cache, stale, removals, disturbed>>

\* ... which builds a Secret with new random bytes, reads again, and creates or
\* updates.
SecretReconcile(p) ==
    /\ pass[p].phase = "missing"
    /\ \E c \in Built(p) :
          /\ c \notin {store[SharedSecret], cache[p][SharedSecret]}
          /\ GenericReconcile(p, c)
    /\ UNCHANGED <<spec, classes, aggregator, deleted, active, seen, cache, disturbed>>

Step(p) ==
    \/ Reconcile(p)
    \/ NewAuthentication(p)
    \/ ReconcileObject(p)
    \/ SecretGet(p)
    \/ SecretReconcile(p)

-----------------------------------------------------------------------------
(* The manager, its informers and its work queue.                            *)

\* The manager starts (when it is elected, if it takes part in an election): the
\* informers list everything, and the cluster is queued.
Start(p) ==
    /\ p \notin active
    /\ LeaderElection => active = {}
    /\ active' = active \cup {p}
    /\ seen' = [seen EXCEPT ![p] = spec]
    /\ cache' = [cache EXCEPT ![p] = store]
    /\ stale' = [stale EXCEPT ![p] = {}]
    /\ removals' = [removals EXCEPT ![p] = {}]
    /\ queued' = [queued EXCEPT ![p] = spec # NoCluster]
    /\ UNCHANGED <<spec, classes, aggregator, store, deleted, pass, disturbed>>

\* A watch event for the TrinoCluster, the only type SetupWithManager watches.
ClusterEvent(p) ==
    /\ p \in active
    /\ seen[p] # spec
    /\ seen' = [seen EXCEPT ![p] = spec]
    /\ queued' = [queued EXCEPT ![p] = TRUE]
    /\ UNCHANGED <<spec, classes, aggregator, store, deleted, active, cache, stale, removals, pass, disturbed>>

\* One informer per type of child.  Its events fill the cache and queue nothing.
InformerKinds ==
    {{"configmap"}, {"service", "metrics", "roleservice"}, {"statefulset"}, {"secret"}}

\* An informer catches up with the API server ...
ChildEvents(p, kinds) ==
    LET due == {o \in stale[p] : o.kind \in kinds}
    IN  /\ p \in active
        /\ due # {}
        /\ cache' = [cache EXCEPT ![p] = [o \in Objects |-> IF o \in due THEN store[o] ELSE @[o]]]
        /\ stale' = [stale EXCEPT ![p] = @ \ due]
        /\ removals' = [removals EXCEPT ![p] = @ \ due]
        /\ UNCHANGED <<spec, classes, aggregator, store, deleted, active, seen, queued, pass, disturbed>>

\* ... or it has got as far as the deletion of an object that exists again.
DeletionEvent(p, o) ==
    /\ p \in active
    /\ o \in removals[p]
    /\ store[o] # Absent
    /\ cache' = [cache EXCEPT ![p][o] = Absent]
    /\ removals' = [removals EXCEPT ![p] = @ \ {o}]
    /\ UNCHANGED <<spec, classes, aggregator, store, deleted, active, seen, stale, queued, pass, disturbed>>

\* The periodic resync of the TrinoCluster informer queues what is in its cache.
Resync(p) ==
    /\ p \in active
    /\ ~queued[p]
    /\ seen[p] # NoCluster
    /\ queued' = [queued EXCEPT ![p] = TRUE]
    /\ UNCHANGED <<spec, classes, aggregator, store, deleted, active, seen, cache, stale, removals, pass, disturbed>>

-----------------------------------------------------------------------------
(* The environment.                                                          *)

Disturb(d) ==
    /\ disturbed[d] < Limits[d]
    /\ disturbed' = [disturbed EXCEPT ![d] = @ + 1]

EditCluster(s) ==
    /\ Disturb("edit")
    /\ spec \notin {NoCluster, s}
    /\ spec' = s
    /\ UNCHANGED <<classes, aggregator, store, deleted, active, seen, cache, stale, removals, queued, pass>>

\* The user deletes the TrinoCluster for good.
Uninstall ==
    /\ Disturb("uninstall")
    /\ spec # NoCluster
    /\ spec' = NoCluster
    /\ UNCHANGED <<classes, aggregator, store, deleted, active, seen, cache, stale, removals, queued, pass>>

EditClass(c, st) ==
    /\ Disturb("class")
    /\ classes[c] # st
    /\ classes' = [classes EXCEPT ![c] = st]
    /\ UNCHANGED <<spec, aggregator, store, deleted, active, seen, cache, stale, removals, queued, pass>>

\* The aggregator's ConfigMap is created or deleted.
EditAggregator(a) ==
    /\ Disturb("class")
    /\ aggregator # a
    /\ aggregator' = a
    /\ UNCHANGED <<spec, classes, store, deleted, active, seen, cache, stale, removals, queued, pass>>

\* Someone deletes a child.
DeleteChild(o) ==
    /\ Disturb("delete")
    /\ store[o] # Absent
    /\ Put(o, Absent)
    /\ deleted' = deleted \cup {o}
    /\ UNCHANGED <<spec, classes, aggregator, active, seen, cache, queued, pass>>

\* Children carry an owner reference: those of a deleted cluster are collected,
\* and none of them counts as wanted any more.
CollectGarbage(o) ==
    /\ spec = NoCluster
    /\ store[o] # Absent
    /\ Put(o, Absent)
    /\ deleted' = Objects
    /\ UNCHANGED <<spec, classes, aggregator, active, seen, cache, queued, pass, disturbed>>

\* Any API call of the pass fails without an effect.
ApiError(p) ==
    /\ Disturb("error")
    /\ pass[p].phase # "idle"
    /\ Abort(p)
    /\ UNCHANGED <<spec, classes, aggregator, store, deleted, active, seen, cache, stale, removals>>

\* The process ends, anywhere in a pass.
Crash(p) ==
    /\ Disturb("crash")
    /\ p \in active
    /\ active' = active \ {p}
    /\ seen' = [seen EXCEPT ![p] = NoCluster]
    /\ cache' = [cache EXCEPT ![p] = [o \in Objects |-> Absent]]
    /\ stale' = [stale EXCEPT ![p] = {}]
    /\ removals' = [removals EXCEPT ![p] = {}]
    /\ queued' = [queued EXCEPT ![p] = FALSE]
    /\ pass' = [pass EXCEPT ![p] = Idle]
    /\ UNCHANGED <<spec, classes, aggregator, store, deleted>>

Next ==
    \/ \E p \in Operators :
          \/ Step(p)
          \/ Start(p)
          \/ ClusterEvent(p)
          \/ \E kinds \in InformerKinds : ChildEvents(p, kinds)
          \/ \E o \in Objects : DeletionEvent(p, o)
          \/ Resync(p)
          \/ ApiError(p)
          \/ Crash(p)
    \/ \E s \in Specs : EditCluster(s)
    \/ Uninstall
    \/ \E c \in Classes, st \in ClassStates : EditClass(c, st)
    \/ \E a \in AggregatorStates : EditAggregator(a)
    \/ \E o \in Objects : DeleteChild(o) \/ CollectGarbage(o)

Spec == Init /\ [][Next]_vars

\* A started call makes progress, events and resyncs arrive, the Deployment
\* restarts its pods, garbage is collected.
Fairness ==
    /\ \A p \in Operators :
          /\ WF_vars(Step(p))
          /\ WF_vars(Start(p))
          /\ WF_vars(ClusterEvent(p))
          /\ \A kinds \in InformerKinds : WF_vars(ChildEvents(p, kinds))
          /\ WF_vars(Resync(p))
    /\ WF_vars(\E o \in Objects : CollectGarbage(o))

FairSpec == Spec /\ Fairness

-----------------------------------------------------------------------------
(* Safety.                                                                   *)

\* Object o exists, or a user or the garbage collector has deleted it.
Provided(o) == store[o] # Absent \/ o \in deleted

\* registerResourceWithRoleGroup registers the StatefulSet of a role group last:
\* whatever passes were aborted, interleaved or run on lagging caches, no
\* StatefulSet is created before the ConfigMap it mounts and its two Services.
ConfiguredBeforeStarted ==
    \A r \in Roles, g \in Groups :
        store[Obj("statefulset", r, g)] # Absent =>
            \A k \in {"configmap", "service", "metrics"} : Provided(Obj(k, r, g))

\* Coordinators are registered before workers, and the discovery host is chosen
\* among the coordinator role groups of the same instance: the discovery URI of a
\* worker always names a Service that has been created, also after role groups
\* were renamed and while two operators work on different versions of the spec.
WorkerDiscoveryResolves ==
    \A g \in Groups :
        LET cm == store[Obj("configmap", "worker", g)]
        IN  cm # Absent /\ cm.uriHost \in Groups =>
                Provided(Obj("service", "coordinator", cm.uriHost))

\* The Service of the coordinator role is registered after the shared secret: it
\* points clients at the https port only once the secret that TLS pods take their
\* environment from has been created.
HttpsEntryHasSecret ==
    store[RoleService] # Absent /\ store[RoleService].targetPort = "https" =>
        Provided(SharedSecret)

\* What makes these inductive: a cached object has existed; a call under way, which
\* only a running operator has, has provided the objects it has passed.
CachesSound ==
    \A p \in Operators, o \in Objects : cache[p][o] # Absent => Provided(o)

CallsSound ==
    \A p \in Operators : pass[p].phase # "idle" =>
        /\ p \in active
        /\ \A i \in 1..(pass[p].at - 1) : Provided(pass[p].queue[i])

\* The inductive invariant of the ordering theorems.
OrderInv ==
    /\ TypeOK
    /\ CachesSound
    /\ CallsSound
    /\ ConfiguredBeforeStarted
    /\ WorkerDiscoveryResolves
    /\ HttpsEntryHasSecret

\* Every running operator has the shared secret in its cache, with no deletion to
\* come, and none is between the two reads of its reconciler.
SecretSettled ==
    /\ store[SharedSecret] # Absent
    /\ \A p \in active :
          /\ cache[p][SharedSecret] # Absent /\ SharedSecret \notin removals[p]
          /\ pass[p].phase # "missing"

\* From then on the secret keeps its value through TLS being turned off and on,
\* restarts, failovers and concurrent operators, until somebody deletes it.
SettledSecretKept ==
    [][SecretSettled =>
        \/ store'[SharedSecret] = Absent
        \/ store'[SharedSecret] = store[SharedSecret] /\ SecretSettled']_vars

\* What the comment on InternalSharedSecretReconciler.Reconcile says: "If it does
\* not exist, create it, otherwise do nothing".
SecretWrittenOnce ==
    [][store[SharedSecret] # Absent =>
        store'[SharedSecret] \in {store[SharedSecret], Absent}]_vars

\* The cluster is paused, every running operator knows, and no call is under way.
PausedAndQuiet ==
    /\ spec # NoCluster
    /\ spec.paused
    /\ \A p \in active : seen[p] = spec /\ pass[p].phase = "idle"

\* reconciliationPaused: from then on, until the user edits the cluster, restarts,
\* resyncs and failovers create or change no child.
PauseHolds ==
    [][PausedAndQuiet /\ spec' = spec =>
        /\ PausedAndQuiet'
        /\ \A o \in Objects : store'[o] \in {store[o], Absent}]_vars

-----------------------------------------------------------------------------
(* Liveness.                                                                 *)

ClassesOf(s) == {s.auth[i].class : i \in DOMAIN s.auth}

\* A spec the operator can establish and keep: at most one coordinator role group
\* (with more the discovery host changes from pass to pass), sound memory limits,
\* the aggregator the log collectors send to, authentication classes that exist, at
\* most one of them OIDC or LDAP (with both the authentication type changes from
\* pass to pass) and none Static.
Establishable(s) ==
    /\ Cardinality(DOMAIN s.coordinators) = 1
    /\ \A r \in Roles : \A g \in DOMAIN RoleSpec(s, r) : RoleSpec(s, r)[g].heapOk
    /\ s.vector => aggregator
    /\ \A i \in DOMAIN s.auth :
          /\ classes[s.auth[i].class] \in {"oidc", "ldap", "other"}
          /\ classes[s.auth[i].class] = "oidc" => s.auth[i].oidc
          /\ \A j \in DOMAIN s.auth :
                i # j => "other" \in {classes[s.auth[i].class], classes[s.auth[j].class]}

\* The objects of role group g work together as the spec asks.
GroupEstablished(s, r, g) ==
    LET scheme == IF s.tls THEN "https" ELSE "http"
        cm == store[Obj("configmap", r, g)]
        svc == store[Obj("service", r, g)]
        sts == store[Obj("statefulset", r, g)]
    IN  /\ \A k \in {"configmap", "service", "metrics", "statefulset"} :
              store[Obj(k, r, g)] # Absent
        /\ cm.coordinator = (r = "coordinator")
        /\ cm.uriHost \in DOMAIN s.coordinators
        /\ cm.uriScheme = scheme /\ cm.server = scheme
        /\ svc.targetPort = scheme
        /\ scheme \in sts.ports /\ sts.probePort = scheme /\ sts.probeScheme = scheme
        /\ sts.replicas = IF s.stopped THEN 0 ELSE RoleSpec(s, r)[g].replicas
        /\ cm.sharedSecret => sts.envFromSecret
        /\ sts.envFromSecret => store[SharedSecret] # Absent
        /\ cm.envRefs \subseteq sts.env \cup sts.exports
        /\ r = "coordinator" =>
              \A c \in ClassesOf(s) :
                  /\ classes[c] = "oidc" => OidcEnvVars \subseteq cm.envRefs
                  /\ classes[c] = "ldap" => /\ LdapEnvVars \subseteq cm.envRefs
                                            /\ "ldap-bind-credentials" \in sts.mounts
        /\ cm.vector = s.vector /\ sts.vector = s.vector

\* The children are what the TrinoCluster in the API server asks for.
AsSpecified ==
    IF spec = NoCluster THEN \A o \in Objects : store[o] = Absent
    ELSE ~spec.paused /\ Establishable(spec) =>
            /\ \A r \in Roles : \A g \in DOMAIN RoleSpec(spec, r) : GroupEstablished(spec, r, g)
            /\ store[RoleService] # Absent
            /\ store[RoleService].targetPort = IF spec.tls THEN "https" ELSE "http"

\* "Reconcile ... aims to move the current state of the cluster closer to the
\* desired state": once nothing interferes any more, the children become and stay
\* what the last spec and the last classes ask for, and all go with the cluster.
Converges == <>[]AsSpecified

\* What is built for the cluster depends on the order of a Go map: the discovery
\* host among several coordinator role groups, the authentication type among OIDC
\* and LDAP.
Ambiguous ==
    /\ spec # NoCluster
    /\ \/ Cardinality(DOMAIN spec.coordinators) > 1
       \/ {"oidc", "ldap"} \subseteq {classes[c] : c \in ClassesOf(spec)}

\* The operator comes to rest: unless the spec is ambiguous for good, the periodic
\* passes eventually write nothing, also where they fail for ever and wherever the
\* secret's reconciler and the caches have been.
Quiesces == []<>Ambiguous \/ <>[][store' = store]_vars

-----------------------------------------------------------------------------
(* What has been established lasts.                                          *)

\* The objects a pass over s registers.
Children(s) ==
    {o \in Objects : IF o \in GroupObjects THEN o.group \in DOMAIN RoleSpec(s, o.role)
                     ELSE o = SharedSecret => enabledTls(s)}

\* The authenticators the builder of o finds in its call number c of
\* NewAuthentication, with the classes as they are.
Authenticators(o, c) ==
    IF c <= AuthenticationCalls(o)
    THEN AuthenticatorFectory({classes[spec.auth[i].class] : i \in DOMAIN spec.auth})
    ELSE {}

\* What the builder of o may make of the spec and the classes as they are.
Wanted(o) ==
    UNION {Build(spec, o, f, [c \in 1..4 |-> Authenticators(o, c)]) :
              f \in getCoordinatorSvcFqdn(spec)}

\* The call of operator p, if there is one, has read the spec and the classes as
\* they are.
InStep(p) ==
    LET x == pass[p]
        n == Len(x.inst.auth)
    IN  x.phase # "idle" =>
            /\ x.phase = "build" /\ x.inst = spec
            /\ Len(x.reads) <= AuthenticationCalls(Current(p)) * n
            /\ \A k \in DOMAIN x.reads :
                  x.reads[k] = classes[x.inst.auth[((k - 1) % n) + 1].class]

\* The children are what the builders make of the spec, and the running operators
\* know it.  Calls may be under way, and may fail; caches may lag with objects that
\* are no children any more; processes may be down.
Established ==
    /\ ~Ambiguous
    /\ \A p \in active : seen[p] = spec /\ InStep(p)
    /\ IF spec = NoCluster THEN \A o \in Objects : store[o] = Absent
       ELSE \A o \in Children(spec) :
                /\ store[o] \in Wanted(o)
                /\ \A p \in active : cache[p][o] = store[o] /\ o \notin stale[p]

\* Nobody changes the spec or the classes, or deletes an object.
Undisturbed ==
    /\ UNCHANGED <<spec, classes, aggregator>>
    /\ \A o \in Objects : store'[o] = Absent => store[o] = Absent

\* What the operators have established they leave alone: resyncs, failing calls,
\* crashes, restarts, failovers and operators next to each other write nothing, and
\* an uninstalled cluster does not come back.
EstablishedKept ==
    [][Established /\ Undisturbed => Established' /\ store' = store]_vars

\* The contents the builders make, each of its own object, fit together.
EstablishedFits == Established => AsSpecified

\* A state the operators can reach by themselves.
Attainable == spec # NoCluster => ~spec.paused /\ Establishable(spec)

\* They do reach it, wherever the last disturbance has found them.
Settles == <>[](Attainable => Established)
=============================================================================
