--------------------------- MODULE TrinoResources ---------------------------
(***************************************************************************)
(* What one reconcile pass wants to exist: the objects RegisterResources   *)
(* registers for a TrinoCluster and their order, and what each builder     *)
(* puts in its object.  Contents keep what one object says about another:  *)
(* schemes and port names, the discovery host, volumes and mounts, the     *)
(* environment variables referred to and provided, replicas.               *)
(***************************************************************************)
EXTENDS Authentication, FiniteSets

CONSTANTS
    Groups,         \* role group names
    NoGroup,        \* the "group" of an object that belongs to no role group
    MaxReplicas,    \* bound on a role group's replicas
    SecretValues,   \* stand for the 512 random bytes of the shared secret
    Absent          \* the object does not exist

ASSUME GroupsAreFinite == IsFiniteSet(Groups)
ASSUME NoGroupIsNoGroup == NoGroup \notin Groups
ASSUME MaxReplicasIsNat == MaxReplicas \in Nat

-----------------------------------------------------------------------------
(* The TrinoCluster as the operator reads it.  heapOk: the memory limit of   *)
(* the merged config is one getHeapSize accepts (module HeapSize).           *)

Roles == {"coordinator", "worker"}

RoleGroupSpec == [replicas : 0..MaxReplicas, heapOk : BOOLEAN]

RoleGroups == UNION {[D -> RoleGroupSpec] : D \in SUBSET Groups}

TrinoClusterSpec ==
    [coordinators : RoleGroups, workers : RoleGroups,
     tls : BOOLEAN, vector : BOOLEAN, auth : Seq(AuthenticationSpec),
     stopped : BOOLEAN, paused : BOOLEAN]

RoleSpec(s, role) == IF role = "coordinator" THEN s.coordinators ELSE s.workers

enabledTls(s) == s.tls

-----------------------------------------------------------------------------
(* The objects, and the order in which a pass reconciles them.               *)

Obj(k, r, g) == [kind |-> k, role |-> r, group |-> g]

\* Mutant: the StatefulSet before what it needs.
StatefulSetFirst == <<"statefulset", "configmap", "service", "metrics">>

\* The order of registerResourceWithRoleGroup.
GroupKinds == <<"configmap", "service", "metrics", "statefulset">>

GroupObjects ==
    [kind : {"configmap", "service", "metrics", "statefulset"},
     role : Roles, group : Groups]

SharedSecret == Obj("secret", "cluster", NoGroup)
RoleService == Obj("roleservice", "coordinator", NoGroup)

Objects == GroupObjects \cup {SharedSecret, RoleService}

\* The orders in which a Go range over a map with key set S may visit it.
MapOrders(S) == {f \in [1..Cardinality(S) -> S] : \A g \in S : \E i \in DOMAIN f : f[i] = g}

\* RegisterResources of a role: the role groups in some order, four objects each.
RoleQueue(role, order) ==
    [i \in 1..(4 * Len(order)) |->
        Obj(GroupKinds[((i - 1) % 4) + 1], role, order[((i - 1) \div 4) + 1])]

\* Mutant: the Service before the secret.
ServiceFirst(s) == IF enabledTls(s) THEN <<RoleService, SharedSecret>> ELSE <<RoleService>>

\* RegisterResources of the cluster: coordinators, workers, then the shared
\* secret when TLS is on, and last the Service of the coordinator role.
ClusterTail(s) == IF enabledTls(s) THEN <<SharedSecret, RoleService>> ELSE <<RoleService>>

RegisterResources(s) ==
    {RoleQueue("coordinator", c) \o RoleQueue("worker", w) \o ClusterTail(s) :
        c \in MapOrders(DOMAIN s.coordinators), w \in MapOrders(DOMAIN s.workers)}

\* Mutant: a host that need not be a coordinator role group of this spec.
AnyGroup(s) == Groups

\* The coordinator role group whose Service becomes the discovery host: the first
\* the range over the map happens to visit, none when there is no group.
getCoordinatorSvcFqdn(s) ==
    IF DOMAIN s.coordinators = {} THEN {NoGroup} ELSE DOMAIN s.coordinators

-----------------------------------------------------------------------------
(* Contents of the objects.                                                  *)

Schemes == {"http", "https"}
BaseVolumes == {"config", "log", "client-tls"}
TlsVolumes == {"server-tls", "internal-tls"}
PvcVolumes == {"data"}
VolumeNames == BaseVolumes \cup TlsVolumes \cup PvcVolumes \cup AuthVolumes

ConfigMaps ==
    [coordinator : BOOLEAN, server : Schemes,
     uriScheme : Schemes, uriHost : Groups \cup {NoGroup},
     authType : {"unset", "oidc", "ldap"},
     envRefs : SUBSET AuthEnvVars, sharedSecret : BOOLEAN, vector : BOOLEAN]

Services == [targetPort : Schemes \cup {"metrics"}]

StatefulSets ==
    [replicas : 0..MaxReplicas, ports : SUBSET Schemes,
     probePort : Schemes, probeScheme : Schemes,
     volumes : SUBSET VolumeNames, mounts : SUBSET VolumeNames,
     env : SUBSET AuthEnvVars, exports : SUBSET AuthEnvVars,
     envFromSecret : BOOLEAN, vector : BOOLEAN]

Secrets == [secret : SecretValues]

Content == ConfigMaps \cup Services \cup StatefulSets \cup Secrets

ASSUME AbsentIsNoContent == Absent \notin Content

\* Mutant: the container port is named like the one for metrics.
MetricsPortName(s) == "metrics"

\* Mutant: TLS does not change the port.
HttpPort(s) == "http"

\* The port a role group listens on, and the one its Service and the Service of
\* the coordinator role forward to (a container port, named by its scheme).
PortName(s) == IF s.tls THEN "https" ELSE "http"

getDiscoveryUriScheme(s) == IF enabledTls(s) THEN "https" ELSE "http"

\* ConfigMapBuilder.Build, given the authenticators read for it.
BuildConfigMap(s, o, fqdn, T) ==
    {[coordinator |-> o.role = "coordinator",
      server |-> IF enabledTls(s) THEN "https" ELSE "http",
      uriScheme |-> getDiscoveryUriScheme(s),
      uriHost |-> fqdn,
      authType |-> t,
      envRefs |-> GetConfigProperties(T),
      sharedSecret |-> enabledTls(s),
      vector |-> s.vector] : t \in AuthenticationTypeValues(T)}

BuildService(s) == {[targetPort |-> PortName(s)]}

\* NewRoleGroupMetricsService: one port, named metrics, whatever the spec says.
BuildMetricsService == {[targetPort |-> "metrics"]}

\* StatefulSetBuilder.Build.  Each of getVolumes, getMainContainerArgs,
\* getMainContainerVolumeMounts and getMainContainerEnvVars reads the classes
\* again; T[1] to T[4] are the authenticators they find, in this order.
BuildStatefulSet(s, o, T) ==
    {[replicas |-> IF s.stopped THEN 0 ELSE RoleSpec(s, o.role)[o.group].replicas,
      ports |-> {PortName(s)},
      probePort |-> IF enabledTls(s) THEN "https" ELSE "http",
      probeScheme |-> IF enabledTls(s) THEN "https" ELSE "http",
      volumes |-> BaseVolumes \cup (IF enabledTls(s) THEN TlsVolumes ELSE {})
                    \cup GetVolumes(T[1]),
      exports |-> GetCommands(T[2]),
      mounts |-> BaseVolumes \cup PvcVolumes
                    \cup (IF enabledTls(s) THEN TlsVolumes ELSE {})
                    \cup GetVolumeMounts(T[3]),
      env |-> GetEnvVars(T[4]),
      envFromSecret |-> enabledTls(s),
      vector |-> s.vector]}

BuildSecret == {[secret |-> v] : v \in SecretValues}

\* How often the builder of o calls NewAuthentication.
AuthenticationCalls(o) ==
    IF o.kind = "statefulset" THEN 4
    ELSE IF o.kind = "configmap" /\ o.role = "coordinator" THEN 1
    ELSE 0

\* The builder of o goes on to use the OidcSpec after its call number c: for
\* GetConfigProperties in a ConfigMap, for GetEnvVars in a StatefulSet.
UsesOidcSpec(o, c) == o.kind = "configmap" \/ c = 4

\* The contents the builder of o may produce.
Build(s, o, fqdn, T) ==
    CASE o.kind = "configmap"   -> BuildConfigMap(s, o, fqdn, T[1])
      [] o.kind = "statefulset" -> BuildStatefulSet(s, o, T)
      [] o.kind = "metrics"     -> BuildMetricsService
      [] o.kind = "secret"      -> BuildSecret
      [] o.kind \in {"service", "roleservice"} -> BuildService(s)

\* getJvmProperties panics on a memory limit getHeapSize rejects.
BuildPanics(s, o) ==
    o.kind = "configmap" /\ ~RoleSpec(s, o.role)[o.group].heapOk

\* The API server rejects a pod template with a mount of an undeclared volume, or
\* with a volume whose name ends in a dash (Static names it after a class name
\* that is never set).
ValidObject(o, c) ==
    o.kind = "statefulset" =>
        /\ c.mounts \subseteq c.volumes \cup PvcVolumes
        /\ "auth-secrets-" \notin c.volumes
=============================================================================
