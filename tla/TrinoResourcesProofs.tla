------------------------ MODULE TrinoResourcesProofs ------------------------
(***************************************************************************)
(* Facts about the registration order and about what the builders produce, *)
(* for every set of role groups.                                           *)
(***************************************************************************)
EXTENDS TrinoResources, FiniteSetTheorems, TLAPS

\* What the rest of the proof uses of a registration order q for spec s.
WellOrdered(s, q) ==
    /\ q \in Seq(Objects)
    /\ Len(q) \in Nat \ {0}
    /\ \A j \in 1..Len(q) :
          /\ q[j] \in GroupObjects => q[j].group \in DOMAIN RoleSpec(s, q[j].role)
          /\ q[j].kind = "statefulset" =>
                \A k \in {"configmap", "service", "metrics"} :
                    \E i \in 1..(j - 1) : q[i] = Obj(k, q[j].role, q[j].group)
          /\ q[j].kind = "configmap" /\ q[j].role = "worker" =>
                \A g \in DOMAIN s.coordinators :
                    \E i \in 1..(j - 1) : q[i] = Obj("service", "coordinator", g)
          /\ q[j].kind = "roleservice" /\ s.tls =>
                \E i \in 1..(j - 1) : q[i] = SharedSecret
          /\ q[j] = SharedSecret => s.tls

\* A range over a map with key set S, a set of role groups, is a sequence that
\* visits every key.
LEMMA MapOrderSeq ==
    ASSUME NEW S \in SUBSET Groups, NEW f \in MapOrders(S)
    PROVE  /\ f \in Seq(S)
           /\ \A g \in S : \E i \in 1..Len(f) : f[i] = g
<1>1. Cardinality(S) \in Nat
  BY GroupsAreFinite, FS_Subset, FS_CardinalityType
<1> QED
  BY <1>1 DEF MapOrders

\* The objects of one role: four per role group, in the order of
\* registerResourceWithRoleGroup, the StatefulSet last.
LEMMA RoleQueueOrder ==
    ASSUME NEW S \in SUBSET Groups, NEW f \in MapOrders(S), NEW r \in Roles
    PROVE  LET R == RoleQueue(r, f) IN
           /\ R \in Seq(GroupObjects)
           /\ \A j \in 1..Len(R) :
                 /\ R[j].role = r
                 /\ R[j].group \in S
                 /\ R[j].kind = "statefulset" =>
                       /\ j - 3 \in 1..(j - 1) /\ R[j - 3] = Obj("configmap", r, R[j].group)
                       /\ j - 2 \in 1..(j - 1) /\ R[j - 2] = Obj("service", r, R[j].group)
                       /\ j - 1 \in 1..(j - 1) /\ R[j - 1] = Obj("metrics", r, R[j].group)
           /\ \A g \in S : \E i \in 1..Len(R) : R[i] = Obj("service", r, g)
<1> DEFINE R == RoleQueue(r, f)
<1>1. f \in Seq(S) /\ Len(f) \in Nat
  BY MapOrderSeq
<1>2. R = [i \in 1..(4 * Len(f)) |->
             Obj(GroupKinds[((i - 1) % 4) + 1], r, f[((i - 1) \div 4) + 1])]
  BY DEF RoleQueue
<1> HIDE DEF R
<1>3. \A i \in 1..(4 * Len(f)) :
         /\ (i - 1) % 4 \in 0..3
         /\ (i - 1) \div 4 \in 0..(Len(f) - 1)
         /\ i = 4 * ((i - 1) \div 4) + ((i - 1) % 4) + 1
  BY <1>1
<1>4. ASSUME NEW j \in 1..(4 * Len(f))
      PROVE /\ f[((j - 1) \div 4) + 1] \in S
            /\ R[j] = Obj(GroupKinds[((j - 1) % 4) + 1], r, f[((j - 1) \div 4) + 1])
            /\ R[j] \in GroupObjects
            /\ R[j].role = r
            /\ R[j].group = f[((j - 1) \div 4) + 1]
            /\ R[j].kind = GroupKinds[((j - 1) % 4) + 1]
  <2>1. (j - 1) % 4 \in 0..3 /\ (j - 1) \div 4 \in 0..(Len(f) - 1)
    BY <1>3
  <2> DEFINE m == (j - 1) % 4  d == (j - 1) \div 4
  <2> HIDE DEF m, d
  <2>2. GroupKinds[m + 1] \in {"configmap", "service", "metrics", "statefulset"}
    <3>1. m = 0 \/ m = 1 \/ m = 2 \/ m = 3
      BY <2>1 DEF m
    <3> QED
      BY <3>1 DEF GroupKinds
  <2>3. f[d + 1] \in S
    BY <2>1, <1>1 DEF d
  <2>4. R[j] = Obj(GroupKinds[m + 1], r, f[d + 1])
    BY <1>2 DEF m, d
  <2> QED
    BY <2>2, <2>3, <2>4 DEF Obj, GroupObjects, m, d
<1>5. R \in Seq(GroupObjects) /\ Len(R) = 4 * Len(f)
  <2>1. 4 * Len(f) \in Nat
    BY <1>1
  <2>2. R \in [1..(4 * Len(f)) -> GroupObjects]
    BY <1>2, <1>4
  <2> QED
    BY <2>1, <2>2
<1>6. ASSUME NEW j \in 1..(4 * Len(f)), R[j].kind = "statefulset"
      PROVE  /\ j - 3 \in 1..(j - 1) /\ R[j - 3] = Obj("configmap", r, R[j].group)
             /\ j - 2 \in 1..(j - 1) /\ R[j - 2] = Obj("service", r, R[j].group)
             /\ j - 1 \in 1..(j - 1) /\ R[j - 1] = Obj("metrics", r, R[j].group)
  <2>1. (j - 1) % 4 = 3
    <3>1. GroupKinds[((j - 1) % 4) + 1] = "statefulset"
      BY <1>4, <1>6
    <3>2. (j - 1) % 4 \in 0..3
      BY <1>3
    <3>3. \A m \in 0..3 : GroupKinds[m + 1] = "statefulset" => m = 3
      BY DEF GroupKinds
    <3> QED
      BY <3>1, <3>2, <3>3
  <2>2. j = 4 * ((j - 1) \div 4) + 4 /\ (j - 1) \div 4 \in 0..(Len(f) - 1)
    BY <2>1, <1>3
  <2>3. \A e \in 1..3 : /\ j - e \in 1..(4 * Len(f))
                        /\ ((j - e) - 1) % 4 = 3 - e
                        /\ ((j - e) - 1) \div 4 = (j - 1) \div 4
    BY <2>2, <1>1
  <2>4. \A e \in 1..3 : R[j - e] = Obj(GroupKinds[(3 - e) + 1], r, R[j].group)
    BY <2>3, <1>4
  <2>5. /\ R[j - 3] = Obj("configmap", r, R[j].group)
        /\ R[j - 2] = Obj("service", r, R[j].group)
        /\ R[j - 1] = Obj("metrics", r, R[j].group)
    BY <2>4 DEF GroupKinds
  <2> QED
    BY <2>2, <2>5, <1>1
<1>7. ASSUME NEW g \in S
      PROVE  \E i \in 1..(4 * Len(f)) : R[i] = Obj("service", r, g)
  <2>1. PICK k \in 1..Len(f) : f[k] = g
    BY MapOrderSeq
  <2>2. /\ 4 * (k - 1) + 2 \in 1..(4 * Len(f))
        /\ ((4 * (k - 1) + 2) - 1) % 4 = 1
        /\ ((4 * (k - 1) + 2) - 1) \div 4 = k - 1
    BY <1>1
  <2>3. R[4 * (k - 1) + 2] = Obj(GroupKinds[1 + 1], r, f[(k - 1) + 1])
    BY <2>2, <1>4
  <2> QED
    BY <2>1, <2>2, <2>3, <1>1 DEF GroupKinds
<1> QED
  BY <1>4, <1>5, <1>6, <1>7 DEF R

\* The role groups of a spec are role groups.
LEMMA RoleGroupNames ==
    ASSUME NEW s \in TrinoClusterSpec, NEW r \in Roles
    PROVE  /\ DOMAIN RoleSpec(s, r) \in SUBSET Groups
           /\ \A g \in DOMAIN RoleSpec(s, r) : RoleSpec(s, r)[g] \in RoleGroupSpec
<1>1. RoleSpec(s, r) \in RoleGroups
  BY DEF TrinoClusterSpec, RoleSpec
<1> QED
  BY <1>1 DEF RoleGroups

\* Every order in which RegisterResources may register the objects of a spec puts
\* an object after those it depends on.
LEMMA RegistrationOrder ==
    ASSUME NEW s \in TrinoClusterSpec, NEW q \in RegisterResources(s)
    PROVE  WellOrdered(s, q)
<1>1. PICK c \in MapOrders(DOMAIN s.coordinators), w \in MapOrders(DOMAIN s.workers) :
         q = RoleQueue("coordinator", c) \o RoleQueue("worker", w) \o ClusterTail(s)
  BY DEF RegisterResources
<1> DEFINE C == RoleQueue("coordinator", c)
           W == RoleQueue("worker", w)
           T == ClusterTail(s)
<1>2. /\ DOMAIN s.coordinators \in SUBSET Groups
      /\ DOMAIN s.workers \in SUBSET Groups
      /\ DOMAIN s.coordinators = DOMAIN RoleSpec(s, "coordinator")
      /\ DOMAIN s.workers = DOMAIN RoleSpec(s, "worker")
  BY RoleGroupNames DEF Roles, RoleSpec
<1>3. /\ C \in Seq(GroupObjects)
      /\ \A j \in 1..Len(C) :
            /\ C[j].role = "coordinator"
            /\ C[j].group \in DOMAIN s.coordinators
            /\ C[j].kind = "statefulset" =>
                  /\ j - 3 \in 1..(j - 1) /\ C[j - 3] = Obj("configmap", "coordinator", C[j].group)
                  /\ j - 2 \in 1..(j - 1) /\ C[j - 2] = Obj("service", "coordinator", C[j].group)
                  /\ j - 1 \in 1..(j - 1) /\ C[j - 1] = Obj("metrics", "coordinator", C[j].group)
      /\ \A g \in DOMAIN s.coordinators :
            \E i \in 1..Len(C) : C[i] = Obj("service", "coordinator", g)
  <2>1. "coordinator" \in Roles
    BY DEF Roles
  <2> QED
    BY <1>2, <2>1, RoleQueueOrder, Zenon
<1>4. /\ W \in Seq(GroupObjects)
      /\ \A j \in 1..Len(W) :
            /\ W[j].role = "worker"
            /\ W[j].group \in DOMAIN s.workers
            /\ W[j].kind = "statefulset" =>
                  /\ j - 3 \in 1..(j - 1) /\ W[j - 3] = Obj("configmap", "worker", W[j].group)
                  /\ j - 2 \in 1..(j - 1) /\ W[j - 2] = Obj("service", "worker", W[j].group)
                  /\ j - 1 \in 1..(j - 1) /\ W[j - 1] = Obj("metrics", "worker", W[j].group)
      /\ \A g \in DOMAIN s.workers :
            \E i \in 1..Len(W) : W[i] = Obj("service", "worker", g)
  <2>1. "worker" \in Roles
    BY DEF Roles
  <2> QED
    BY <1>2, <2>1, RoleQueueOrder, Zenon
<1>5. /\ T \in Seq({SharedSecret, RoleService})
      /\ Len(T) \in {1, 2}
      /\ s.tls => Len(T) = 2 /\ T[1] = SharedSecret /\ T[2] = RoleService
      /\ ~s.tls => \A i \in 1..Len(T) : T[i] = RoleService
  <2>1. CASE s.tls
    <3>1. T = <<SharedSecret, RoleService>>
      BY <2>1 DEF ClusterTail, enabledTls
    <3> QED
      BY <2>1, <3>1
  <2>2. CASE ~s.tls
    <3>1. T = <<RoleService>>
      BY <2>2 DEF ClusterTail, enabledTls
    <3>2. T \in Seq({SharedSecret, RoleService}) /\ Len(T) = 1 /\ T[1] = RoleService
      BY <3>1
    <3> HIDE DEF T
    <3> QED
      BY <3>2, <2>2
  <2> QED
    BY <2>1, <2>2
<1> HIDE DEF C, W, T
<1>6. /\ q \in Seq(Objects)
      /\ Len(q) = Len(C) + Len(W) + Len(T)
      /\ \A i \in 1..Len(C) : q[i] = C[i]
      /\ \A i \in 1..Len(W) : q[Len(C) + i] = W[i]
      /\ \A i \in 1..Len(T) : q[Len(C) + Len(W) + i] = T[i]
  <2>1. q = C \o W \o T
    BY <1>1 DEF C, W, T
  <2>2. C \in Seq(Objects) /\ W \in Seq(Objects) /\ T \in Seq(Objects)
    BY <1>3, <1>4, <1>5 DEF Objects
  <2> QED
    BY <2>1, <2>2
<1>7. Len(C) \in Nat /\ Len(W) \in Nat /\ Len(T) \in 1..2
  BY <1>3, <1>4, <1>5
<1>8. ASSUME NEW j \in 1..Len(q)
      PROVE  \/ j \in 1..Len(C)
             \/ \E i \in 1..Len(W) : j = Len(C) + i
             \/ \E i \in 1..Len(T) : j = Len(C) + Len(W) + i
  <2>1. CASE j <= Len(C)
    BY <2>1, <1>6, <1>7
  <2>2. CASE j > Len(C) /\ j <= Len(C) + Len(W)
    <3>1. j - Len(C) \in 1..Len(W) /\ j = Len(C) + (j - Len(C))
      BY <2>2, <1>6, <1>7
    <3> QED
      BY <3>1
  <2>3. CASE j > Len(C) + Len(W)
    <3>1. j - (Len(C) + Len(W)) \in 1..Len(T) /\ j = Len(C) + Len(W) + (j - (Len(C) + Len(W)))
      BY <2>3, <1>6, <1>7
    <3> QED
      BY <3>1
  <2> QED
    BY <2>1, <2>2, <2>3, <1>6, <1>7
<1> DEFINE Fits(j) ==
          /\ q[j] \in GroupObjects => q[j].group \in DOMAIN RoleSpec(s, q[j].role)
          /\ q[j].kind = "statefulset" =>
                \A k \in {"configmap", "service", "metrics"} :
                    \E i \in 1..(j - 1) : q[i] = Obj(k, q[j].role, q[j].group)
          /\ q[j].kind = "configmap" /\ q[j].role = "worker" =>
                \A g \in DOMAIN s.coordinators :
                    \E i \in 1..(j - 1) : q[i] = Obj("service", "coordinator", g)
          /\ q[j].kind = "roleservice" /\ s.tls =>
                \E i \in 1..(j - 1) : q[i] = SharedSecret
          /\ q[j] = SharedSecret => s.tls
<1>9. ASSUME NEW j \in 1..Len(C) PROVE Fits(j)
  <2>1. q[j] = C[j] /\ C[j] \in GroupObjects /\ C[j].role = "coordinator"
    BY <1>3, <1>6
  <2>2. C[j].kind = "statefulset" =>
           \A k \in {"configmap", "service", "metrics"} :
               \E i \in 1..(j - 1) : q[i] = Obj(k, "coordinator", C[j].group)
    <3>1. \A i \in 1..(j - 1) : q[i] = C[i]
      BY <1>6, <1>7
    <3> QED
      BY <3>1, <1>3
  <2>3. C[j].kind # "roleservice" /\ C[j] # SharedSecret
    BY <2>1 DEF GroupObjects, SharedSecret, Obj
  <2> QED
    BY <2>1, <2>2, <2>3, <1>2, <1>3
<1>10. ASSUME NEW i \in 1..Len(W), NEW j, j = Len(C) + i PROVE Fits(j)
  <2>1. q[j] = W[i] /\ W[i] \in GroupObjects /\ W[i].role = "worker"
    BY <1>4, <1>6, <1>10
  <2>2. W[i].kind = "statefulset" =>
           \A k \in {"configmap", "service", "metrics"} :
               \E h \in 1..(j - 1) : q[h] = Obj(k, "worker", W[i].group)
    <3>1. \A e \in 1..3 : i - e \in 1..(i - 1) =>
              Len(C) + (i - e) \in 1..(j - 1) /\ q[Len(C) + (i - e)] = W[i - e]
      <4>1. ASSUME NEW e \in 1..3, i - e \in 1..(i - 1)
            PROVE  Len(C) + (i - e) \in 1..(j - 1) /\ q[Len(C) + (i - e)] = W[i - e]
        <5>1. i - e \in 1..Len(W)
          BY <4>1, <1>7
        <5>2. q[Len(C) + (i - e)] = W[i - e]
          BY <5>1, <1>6
        <5>3. Len(C) + (i - e) \in 1..(j - 1)
          BY <5>1, <4>1, <1>7, <1>10
        <5> QED
          BY <5>2, <5>3
      <4> QED
        BY <4>1
    <3> QED
      <4>1. ASSUME W[i].kind = "statefulset", NEW k \in {"configmap", "service", "metrics"}
            PROVE  \E e \in 1..3 : i - e \in 1..(i - 1) /\ W[i - e] = Obj(k, "worker", W[i].group)
        BY <4>1, <1>4
      <4> QED
        BY <3>1, <4>1
  <2>3. \A g \in DOMAIN s.coordinators :
           \E h \in 1..(j - 1) : q[h] = Obj("service", "coordinator", g)
    <3>1. \A h \in 1..Len(C) : h \in 1..(j - 1) /\ q[h] = C[h]
      BY <1>6, <1>7, <1>10
    <3> QED
      BY <3>1, <1>3
  <2>4. W[i].kind # "roleservice" /\ W[i] # SharedSecret
    BY <2>1 DEF GroupObjects, SharedSecret, Obj
  <2> QED
    BY <2>1, <2>2, <2>3, <2>4, <1>2, <1>4
<1>11. ASSUME NEW i \in 1..Len(T), NEW j, j = Len(C) + Len(W) + i PROVE Fits(j)
  <2>1. q[j] = T[i] /\ T[i] \in {SharedSecret, RoleService}
    BY <1>5, <1>6, <1>11
  <2>2. T[i] \notin GroupObjects /\ T[i].kind \in {"secret", "roleservice"}
    BY <2>1 DEF SharedSecret, RoleService, Obj, GroupObjects
  <2>3. ASSUME T[i].kind = "roleservice", s.tls
        PROVE  \E h \in 1..(j - 1) : q[h] = SharedSecret
    <3>1. i = 2 /\ T[1] = SharedSecret
      <4>1. Len(T) = 2 /\ T[1] = SharedSecret
        BY <2>3, <1>5
      <4>2. SharedSecret.kind # "roleservice"
        BY DEF SharedSecret, Obj
      <4> QED
        BY <4>1, <4>2, <2>3
    <3>2. Len(C) + Len(W) + 1 \in 1..(j - 1) /\ q[Len(C) + Len(W) + 1] = SharedSecret
      BY <3>1, <1>6, <1>7, <1>11
    <3> QED
      BY <3>2
  <2>4. T[i] = SharedSecret => s.tls
    <3>1. SharedSecret # RoleService
      BY DEF SharedSecret, RoleService, Obj
    <3> QED
      BY <1>5, <3>1
  <2> QED
    BY <2>1, <2>2, <2>3, <2>4
<1>12. \A j \in 1..Len(q) : Fits(j)
  <2> SUFFICES ASSUME NEW j \in 1..Len(q) PROVE Fits(j)
    OBVIOUS
  <2> HIDE DEF Fits
  <2> QED
    BY <1>8, <1>9, <1>10, <1>11
<1>13. Len(q) \in Nat \ {0}
  <2>1. Len(q) = Len(C) + Len(W) + Len(T)
    BY <1>6
  <2>2. \A a, b \in Nat, d \in 1..2 : a + b + d \in Nat \ {0}
    OBVIOUS
  <2>3. Len(C) + Len(W) + Len(T) \in Nat \ {0}
    BY <2>2, <1>7
  <2> QED
    BY <2>1, <2>3
<1>14. q \in Seq(Objects)
  BY <1>6
<1> QED
  BY <1>12, <1>13, <1>14 DEF WellOrdered

\* What the builders produce for an object registered for spec s.
LEMMA BuildType ==
    ASSUME NEW s \in TrinoClusterSpec, NEW o \in Objects,
           o \in GroupObjects => o.group \in DOMAIN RoleSpec(s, o.role),
           NEW f \in Groups \cup {NoGroup},
           NEW T \in [1..4 -> SUBSET AuthenticationTypes],
           NEW c \in Build(s, o, f, T)
    PROVE  /\ c \in Content
           /\ o.kind = "configmap" => c.uriHost = f
           /\ o.kind = "roleservice" => (c.targetPort = "https" <=> s.tls)
<1>1. CASE o.kind = "configmap"
  <2>1. PICK t \in AuthenticationTypeValues(T[1]) :
           c = [coordinator |-> o.role = "coordinator",
                server |-> IF enabledTls(s) THEN "https" ELSE "http",
                uriScheme |-> getDiscoveryUriScheme(s), uriHost |-> f, authType |-> t,
                envRefs |-> GetConfigProperties(T[1]), sharedSecret |-> enabledTls(s),
                vector |-> s.vector]
    BY <1>1 DEF Build, BuildConfigMap
  <2>2. t \in {"unset", "oidc", "ldap"}
    BY DEF AuthenticationTypeValues
  <2>3. GetConfigProperties(T[1]) \in SUBSET AuthEnvVars
    BY DEF GetConfigProperties, AuthEnvVars
  <2>4. enabledTls(s) \in BOOLEAN /\ s.vector \in BOOLEAN
    BY DEF TrinoClusterSpec, enabledTls
  <2>5. c \in ConfigMaps
    BY <2>1, <2>2, <2>3, <2>4 DEF ConfigMaps, Schemes, getDiscoveryUriScheme
  <2> QED
    BY <1>1, <2>1, <2>5 DEF Content
<1>2. CASE o.kind = "statefulset"
  <2>1. o \in GroupObjects /\ o.role \in Roles
    BY <1>2 DEF Objects, GroupObjects, SharedSecret, RoleService, Obj
  <2>2. RoleSpec(s, o.role)[o.group].replicas \in 0..MaxReplicas
    BY <2>1, RoleGroupNames DEF RoleGroupSpec
  <2>3. enabledTls(s) \in BOOLEAN /\ s.vector \in BOOLEAN
    BY DEF TrinoClusterSpec, enabledTls
  <2>4. /\ GetVolumes(T[1]) \in SUBSET AuthVolumes
        /\ GetCommands(T[2]) \in SUBSET AuthEnvVars
        /\ GetVolumeMounts(T[3]) \in SUBSET AuthVolumes
        /\ GetEnvVars(T[4]) \in SUBSET AuthEnvVars
    BY DEF GetVolumes, GetCommands, GetVolumeMounts, GetEnvVars, AuthVolumes, AuthEnvVars
  <2>5. c \in BuildStatefulSet(s, o, T)
    BY <1>2 DEF Build
  <2>6. 0 \in 0..MaxReplicas
    BY MaxReplicasIsNat
  <2>7. c \in StatefulSets
    BY <2>2, <2>3, <2>4, <2>5, <2>6
       DEF BuildStatefulSet, StatefulSets, Schemes, PortName, VolumeNames, TlsVolumes
  <2> QED
    BY <1>2, <2>7 DEF Content
<1>3. CASE o.kind = "secret"
  <2>1. c \in Secrets
    BY <1>3 DEF Build, BuildSecret, Secrets
  <2> QED
    BY <1>3, <2>1 DEF Content
<1>4. CASE o.kind = "metrics"
  <2>1. c \in Services
    BY <1>4 DEF Build, BuildMetricsService, Services
  <2> QED
    BY <1>4, <2>1 DEF Content
<1>5. CASE o.kind \in {"service", "roleservice"}
  <2>1. c \in Services /\ (c.targetPort = "https" <=> s.tls)
    BY <1>5 DEF Build, BuildService, Services, PortName, Schemes
  <2> QED
    BY <1>5, <2>1 DEF Content
<1>6. o.kind \in {"configmap", "statefulset", "secret", "metrics", "service", "roleservice"}
  BY DEF Objects, GroupObjects, SharedSecret, RoleService, Obj
<1> QED
  BY <1>1, <1>2, <1>3, <1>4, <1>5, <1>6
=============================================================================
