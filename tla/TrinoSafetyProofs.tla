------------------------- MODULE TrinoSafetyProofs --------------------------
(***************************************************************************)
(* The ordering invariants, the fate of the shared secret and of a pause,  *)
(* and the refinement of ClusterPromise, for every value of the constants. *)
(***************************************************************************)
EXTENDS TrinoRefinement, TrinoOperatorProofs

\* An object once provided stays provided: only deletions remove objects, and
\* they are recorded.
LEMMA ProvidedByPut ==
    ASSUME TypeOK, NEW o \in Objects, NEW c \in Content, Put(o, c), deleted' = deleted,
           NEW x \in Objects, Provided(x) \/ x = o
    PROVE  Provided(x)'
BY PutType, AbsentIsNoContent DEF Provided

LEMMA ProvidedByDeletion ==
    ASSUME TypeOK, NEW o \in Objects, Put(o, Absent), o \in deleted', deleted \subseteq deleted',
           NEW x \in Objects, Provided(x)
    PROVE  Provided(x)'
BY PutType DEF Provided

\* One predicate for the three invariants about the store.
StoreSound ==
    /\ ConfiguredBeforeStarted
    /\ WorkerDiscoveryResolves
    /\ HttpsEntryHasSecret

\* The invariants about the store survive a step that removes objects only, or
\* leaves them alone.
LEMMA StoreSoundShrinks ==
    ASSUME StoreSound,
           \A x \in Objects : store'[x] \in {store[x], Absent},
           \A x \in Objects : Provided(x) => Provided(x)'
    PROVE  StoreSound'
<1>1. \A k \in {"configmap", "service", "metrics", "statefulset"}, r \in Roles, g \in Groups :
         Obj(k, r, g) \in Objects
  BY DEF Obj, Objects, GroupObjects
<1>2. SharedSecret \in Objects /\ RoleService \in Objects
  BY DEF Objects
<1>3. ConfiguredBeforeStarted'
  BY <1>1 DEF StoreSound, ConfiguredBeforeStarted
<1>4. WorkerDiscoveryResolves'
  BY <1>1 DEF StoreSound, WorkerDiscoveryResolves, Roles
<1>5. HttpsEntryHasSecret'
  BY <1>2 DEF StoreSound, HttpsEntryHasSecret
<1> QED
  BY <1>3, <1>4, <1>5 DEF StoreSound

\* They survive a write of the generic reconciler: the objects that the written
\* one depends on come earlier in the registration order.
LEMMA StoreSoundWrite ==
    ASSUME TypeOK, CallsSound, StoreSound,
           NEW p \in Operators, pass[p].phase # "idle",
           NEW c \in Built(p), Put(Current(p), c), deleted' = deleted
    PROVE  StoreSound'
<1> DEFINE o == Current(p)
           s == pass[p].inst
           q == pass[p].queue
           n == pass[p].at
<1>1. /\ s \in TrinoClusterSpec /\ WellOrdered(s, q) /\ n \in 1..Len(q) /\ o \in Objects
      /\ pass[p].fqdn \in getCoordinatorSvcFqdn(s)
      /\ o = q[n]
  BY CallShape DEF Current
<1>2. /\ c \in Content
      /\ o.kind = "configmap" => c.uriHost = pass[p].fqdn
      /\ o.kind = "roleservice" => (c.targetPort = "https" <=> s.tls)
  BY BuiltType
<1>3. /\ store'[o] = c
      /\ \A x \in Objects : x # o => store'[x] = store[x]
  BY <1>1, <1>2, PutType
<1>4. \A x \in Objects : Provided(x) => Provided(x)'
  BY <1>1, <1>2, ProvidedByPut
<1>5. \A x \in Objects : (\E i \in 1..(n - 1) : q[i] = x) => Provided(x)'
  <2>1. \A i \in 1..(n - 1) : Provided(q[i])
    BY DEF CallsSound
  <2> QED
    BY <2>1, <1>4
<1>6. \A k \in {"configmap", "service", "metrics", "statefulset"}, r \in Roles, g \in Groups :
         Obj(k, r, g) \in Objects
  BY DEF Obj, Objects, GroupObjects
<1>7. SharedSecret \in Objects /\ RoleService \in Objects
  BY DEF Objects
<1> HIDE DEF o, s, q, n
<1>8. ConfiguredBeforeStarted'
  <2> SUFFICES ASSUME NEW r \in Roles, NEW g \in Groups,
                      store'[Obj("statefulset", r, g)] # Absent,
                      NEW k \in {"configmap", "service", "metrics"}
               PROVE  Provided(Obj(k, r, g))'
    BY DEF ConfiguredBeforeStarted
  <2>1. CASE Obj("statefulset", r, g) = o
    <3>1. o.kind = "statefulset" /\ o.role = r /\ o.group = g
      BY <2>1 DEF Obj
    <3>2. \E i \in 1..(n - 1) : q[i] = Obj(k, r, g)
      BY <3>1, <1>1 DEF WellOrdered
    <3> QED
      BY <3>2, <1>5, <1>6
  <2>2. CASE Obj("statefulset", r, g) # o
    <3>1. Provided(Obj(k, r, g))
      BY <2>2, <1>3, <1>6 DEF StoreSound, ConfiguredBeforeStarted
    <3> QED
      BY <3>1, <1>4, <1>6
  <2> QED
    BY <2>1, <2>2
<1>9. WorkerDiscoveryResolves'
  <2> SUFFICES ASSUME NEW g \in Groups, NEW h \in Groups,
                      store'[Obj("configmap", "worker", g)] # Absent,
                      store'[Obj("configmap", "worker", g)].uriHost = h
               PROVE  Provided(Obj("service", "coordinator", h))'
    BY DEF WorkerDiscoveryResolves, Provided
  <2>1. CASE Obj("configmap", "worker", g) = o
    <3>1. o.kind = "configmap" /\ o.role = "worker"
      BY <2>1 DEF Obj
    <3>2. h = pass[p].fqdn
      BY <2>1, <3>1, <1>2, <1>3
    <3>3. h \in DOMAIN s.coordinators
      BY <3>2, <1>1, NoGroupIsNoGroup DEF getCoordinatorSvcFqdn
    <3>4. \E i \in 1..(n - 1) : q[i] = Obj("service", "coordinator", h)
      BY <3>1, <3>3, <1>1 DEF WellOrdered
    <3> QED
      BY <3>4, <1>5, <1>6 DEF Roles
  <2>2. CASE Obj("configmap", "worker", g) # o
    <3>1. store'[Obj("configmap", "worker", g)] = store[Obj("configmap", "worker", g)]
      BY <2>2, <1>3, <1>6 DEF Roles
    <3>2. Provided(Obj("service", "coordinator", h))
      BY <3>1 DEF StoreSound, WorkerDiscoveryResolves
    <3> QED
      BY <3>2, <1>4, <1>6 DEF Roles
  <2> QED
    BY <2>1, <2>2
<1>10. HttpsEntryHasSecret'
  <2> SUFFICES ASSUME store'[RoleService] # Absent, store'[RoleService].targetPort = "https"
               PROVE  Provided(SharedSecret)'
    BY DEF HttpsEntryHasSecret
  <2>1. CASE RoleService = o
    <3>1. o.kind = "roleservice" /\ s.tls
      BY <2>1, <1>2, <1>3 DEF RoleService, Obj
    <3>2. \E i \in 1..(n - 1) : q[i] = SharedSecret
      BY <3>1, <1>1 DEF WellOrdered
    <3> QED
      BY <3>2, <1>5, <1>7
  <2>2. CASE RoleService # o
    BY <2>2, <1>3, <1>4, <1>7 DEF StoreSound, HttpsEntryHasSecret
  <2> QED
    BY <2>1, <2>2
<1> QED
  BY <1>8, <1>9, <1>10 DEF StoreSound

\* A call's view survives every step that keeps objects provided and leaves the
\* call where it is or ends it.
LEMMA CallsSoundKept ==
    ASSUME TypeOK, CallsSound,
           \A x \in Objects : Provided(x) => Provided(x)',
           \A q \in Operators : \/ pass'[q].phase = "idle"
                                \/ /\ pass[q].phase # "idle"
                                   /\ q \in active'
                                   /\ pass'[q].at = pass[q].at
                                   /\ pass'[q].queue = pass[q].queue
    PROVE  CallsSound'
<1> SUFFICES ASSUME NEW q \in Operators, pass'[q].phase # "idle"
             PROVE  /\ q \in active'
                    /\ \A i \in 1..(pass'[q].at - 1) : Provided(pass[q].queue[i])'
  BY DEF CallsSound
<1>1. /\ pass[q].phase # "idle" /\ q \in active'
      /\ pass'[q].at = pass[q].at /\ pass'[q].queue = pass[q].queue
  OBVIOUS
<1>2. \A i \in 1..(pass[q].at - 1) : pass[q].queue[i] \in Objects
  BY <1>1, CallShape DEF WellOrdered
<1>3. \A i \in 1..(pass[q].at - 1) : Provided(pass[q].queue[i])
  BY <1>1 DEF CallsSound
<1>4. \A i \in 1..(pass[q].at - 1) : \A x \in Objects : x = pass[q].queue[i] => Provided(x)'
  BY <1>3
<1> QED
  BY <1>1, <1>2, <1>4 DEF Provided

\* Abort ends the call.
LEMMA AbortCalls ==
    ASSUME TypeOK, CallsSound, NEW p \in Operators, Abort(p), active' = active,
           \A x \in Objects : Provided(x) => Provided(x)'
    PROVE  CallsSound'
<1>1. \A q \in Operators : pass'[q].phase = "idle" \/ pass'[q] = pass[q]
  BY IdleType DEF Abort, TypeOK
<1>2. \A q \in Operators : pass[q].phase # "idle" => q \in active'
  BY DEF CallsSound
<1> QED
  BY <1>1, <1>2, CallsSoundKept

\* Advance moves past an object that has been provided.
LEMMA AdvanceCalls ==
    ASSUME TypeOK, CallsSound, NEW p \in Operators, pass[p].phase # "idle", Advance(p),
           active' = active,
           \A x \in Objects : Provided(x) => Provided(x)',
           NEW o \in Objects, o = Current(p), Provided(o)'
    PROVE  CallsSound'
<1>1. CASE pass' = [pass EXCEPT ![p] = Idle]
  <2>1. \A q \in Operators : pass'[q].phase = "idle" \/ pass'[q] = pass[q]
    BY <1>1, IdleType DEF TypeOK
  <2>2. \A q \in Operators : pass[q].phase # "idle" => q \in active'
    BY DEF CallsSound
  <2> QED
    BY <2>1, <2>2, CallsSoundKept
<1>2. CASE pass' = [pass EXCEPT ![p].at = @ + 1, ![p].phase = "build", ![p].reads = <<>>]
  <2> SUFFICES ASSUME NEW q \in Operators, pass'[q].phase # "idle",
                      NEW i \in 1..(pass'[q].at - 1)
               PROVE  q \in active' /\ Provided(pass[q].queue[i])'
    <3>1. ASSUME NEW q \in Operators, pass'[q].phase # "idle" PROVE q \in active'
      <4>1. pass[q].phase # "idle"
        BY <1>2, <3>1 DEF TypeOK
      <4> QED
        BY <4>1 DEF CallsSound
    <3> QED
      BY <3>1 DEF CallsSound
  <2>1. pass[p] \in Passes /\ pass[p].at \in Nat
    BY DEF TypeOK, Passes
  <2>2. pass'[p].at = pass[p].at + 1 /\ pass'[p].queue = pass[p].queue
    BY <1>2, <2>1 DEF TypeOK, Passes
  <2>3. q # p => pass'[q] = pass[q]
    BY <1>2 DEF TypeOK
  <2>4. pass[q].phase # "idle" /\ q \in active'
    BY <2>3 DEF CallsSound
  <2>5. pass'[q].queue = pass[q].queue
    BY <2>2, <2>3
  <2>6. CASE i \in 1..(pass[q].at - 1)
    <3>1. Provided(pass[q].queue[i])
      BY <2>4, <2>6 DEF CallsSound
    <3>2. pass[q].queue[i] \in Objects
      BY <2>4, <2>6, CallShape DEF WellOrdered
    <3>3. \A x \in Objects : x = pass[q].queue[i] => Provided(x)'
      BY <3>1
    <3> QED
      BY <2>4, <2>5, <3>2, <3>3 DEF Provided
  <2>7. CASE i \notin 1..(pass[q].at - 1)
    <3>1. q = p /\ i = pass[p].at
      BY <2>1, <2>2, <2>3, <2>7
    <3>2. pass'[q].queue[i] = o
      BY <3>1, <2>5 DEF Current
    <3> QED
      BY <2>4, <3>2 DEF Provided
  <2> QED
    BY <2>6, <2>7
<1> QED
  BY <1>1, <1>2 DEF Advance

\* A cached object stays provided.
LEMMA CachesSoundKept ==
    ASSUME CachesSound,
           \A x \in Objects : Provided(x) => Provided(x)',
           \A q \in Operators, x \in Objects : cache'[q][x] \in {cache[q][x], store[x], Absent}
    PROVE  CachesSound'
BY DEF CachesSound, Provided

\* The generic reconciler keeps the ordering invariant.
LEMMA GenericOrder ==
    ASSUME OrderInv, NEW p \in Operators, pass[p].phase # "idle",
           NEW c \in Built(p), GenericReconcile(p, c),
           deleted' = deleted, active' = active, cache' = cache
    PROVE  CachesSound' /\ CallsSound' /\ StoreSound'
<1> DEFINE o == Current(p)
<1>1. TypeOK /\ CachesSound /\ CallsSound /\ StoreSound
  BY DEF OrderInv, StoreSound
<1>2. o \in Objects /\ c \in Content /\ c # Absent
  BY <1>1, CallShape, BuiltType
<1>3. CASE store' = store /\ (Abort(p) \/ (Advance(p) /\ cache[p][o] = c))
  <2>1. \A x \in Objects : Provided(x) => Provided(x)'
    BY <1>3 DEF Provided
  <2>2. \A x \in Objects : store'[x] \in {store[x], Absent}
    BY <1>3
  <2>3. CallsSound'
    <3>1. CASE Abort(p)
      BY <1>1, <2>1, <3>1, AbortCalls
    <3>2. CASE Advance(p) /\ cache[p][o] = c
      <4>1. \A x \in Objects : x = o => Provided(x)'
        BY <1>1, <1>2, <2>1, <3>2 DEF CachesSound
      <4> QED
        BY <1>1, <1>2, <2>1, <3>2, <4>1, AdvanceCalls
    <3> QED
      BY <1>3, <3>1, <3>2
  <2> QED
    BY <1>1, <2>1, <2>2, <2>3, StoreSoundShrinks, CachesSoundKept
<1>4. CASE Put(o, c) /\ (Abort(p) \/ Advance(p))
  <2>1. \A x \in Objects : Provided(x) \/ x = o => Provided(x)'
    BY <1>1, <1>2, <1>4, ProvidedByPut
  <2>2. CallsSound'
    <3>1. CASE Abort(p)
      BY <1>1, <2>1, <3>1, AbortCalls
    <3>2. CASE Advance(p)
      BY <1>1, <1>2, <2>1, <3>2, AdvanceCalls
    <3> QED
      BY <1>4, <3>1, <3>2
  <2>3. StoreSound'
    BY <1>1, <1>4, StoreSoundWrite
  <2> QED
    BY <1>1, <2>1, <2>2, <2>3, CachesSoundKept
<1> QED
  BY <1>3, <1>4 DEF GenericReconcile

\* Every step keeps the ordering invariant.
LEMMA OrderStep == OrderInv /\ [Next]_vars => OrderInv'
<1> SUFFICES ASSUME OrderInv, [Next]_vars PROVE CachesSound' /\ CallsSound' /\ StoreSound'
  BY TypeStep DEF OrderInv, StoreSound
<1>0. TypeOK /\ CachesSound /\ CallsSound /\ StoreSound
  BY DEF OrderInv, StoreSound
<1>1. ASSUME store' = store, deleted' = deleted, CallsSound',
             \A q \in Operators, x \in Objects : cache'[q][x] \in {cache[q][x], store[x], Absent}
      PROVE  CachesSound' /\ CallsSound' /\ StoreSound'
  <2>1. \A x \in Objects : Provided(x) => Provided(x)'
    BY <1>1 DEF Provided
  <2> QED
    BY <1>0, <1>1, <2>1, CachesSoundKept, StoreSoundShrinks
<1>2. ASSUME store' = store, deleted' = deleted, pass' = pass, active \subseteq active'
      PROVE  CallsSound'
  <2>1. \A x \in Objects : Provided(x) => Provided(x)'
    BY <1>2 DEF Provided
  <2> QED
    BY <1>0, <1>2, <2>1, CallsSoundKept DEF CallsSound
<1>3. CASE UNCHANGED vars
  BY <1>1, <1>2, <1>3 DEF vars
<1>4. ASSUME NEW p \in Operators, Reconcile(p) PROVE CachesSound' /\ CallsSound' /\ StoreSound'
  <2>1. \A q \in Operators : pass'[q] = pass[q] \/ (pass'[q].at = 1 /\ q = p)
    BY <1>0, <1>4 DEF Reconcile, TypeOK
  <2>2. CallsSound'
    <3> SUFFICES ASSUME NEW q \in Operators, pass'[q].phase # "idle"
                 PROVE  /\ q \in active'
                        /\ \A i \in 1..(pass'[q].at - 1) : Provided(pass[q].queue[i])'
      BY DEF CallsSound
    <3>1. CASE pass'[q] = pass[q]
      BY <1>0, <1>4, <3>1 DEF CallsSound, Reconcile, Provided
    <3>2. CASE pass'[q].at = 1 /\ q = p
      <4>1. q \in active'
        BY <1>4, <3>2 DEF Reconcile
      <4>2. \A i : i \notin 1..(1 - 1)
        OBVIOUS
      <4> QED
        BY <3>2, <4>1, <4>2
    <3> QED
      BY <2>1, <3>1, <3>2
  <2> QED
    BY <1>1, <1>4, <2>2 DEF Reconcile
<1>5. ASSUME NEW p \in Operators, NewAuthentication(p)
      PROVE  CachesSound' /\ CallsSound' /\ StoreSound'
  <2>1. \A x \in Objects : Provided(x) => Provided(x)'
    BY <1>5 DEF NewAuthentication, Provided
  <2>2. CASE Abort(p)
    BY <1>0, <1>1, <1>5, <2>1, <2>2, AbortCalls DEF NewAuthentication
  <2>3. ASSUME NEW x, pass' = [pass EXCEPT ![p].reads = Append(@, x)]
        PROVE  CallsSound'
    <3>1. pass[p] \in Passes
      BY <1>0 DEF TypeOK
    <3>2. \A q \in Operators : /\ pass'[q].phase = pass[q].phase
                               /\ pass'[q].at = pass[q].at
                               /\ pass'[q].queue = pass[q].queue
      BY <1>0, <2>3, <3>1 DEF TypeOK, Passes
    <3>3. active' = active
      BY <1>5 DEF NewAuthentication
    <3>4. \A q \in Operators : pass[q].phase # "idle" => q \in active
      BY <1>0 DEF CallsSound
    <3> QED
      BY <1>0, <2>1, <3>2, <3>3, <3>4, CallsSoundKept
  <2> QED
    BY <1>1, <1>5, <2>2, <2>3 DEF NewAuthentication
<1>6. ASSUME NEW p \in Operators, ReconcileObject(p)
      PROVE  CachesSound' /\ CallsSound' /\ StoreSound'
  <2>1. CASE Abort(p) /\ UNCHANGED <<store, stale, removals>>
    <3>1. \A x \in Objects : Provided(x) => Provided(x)'
      BY <1>6, <2>1 DEF ReconcileObject, Provided
    <3> QED
      BY <1>0, <1>1, <1>6, <2>1, <3>1, AbortCalls DEF ReconcileObject
  <2>2. CASE \E c \in Built(p) : GenericReconcile(p, c)
    BY <1>6, <2>2, GenericOrder DEF ReconcileObject
  <2> QED
    BY <1>6, <2>1, <2>2 DEF ReconcileObject
<1>7. ASSUME NEW p \in Operators, SecretGet(p) PROVE CachesSound' /\ CallsSound' /\ StoreSound'
  <2>1. \A x \in Objects : Provided(x) => Provided(x)'
    BY <1>7 DEF SecretGet, Provided
  <2>2. CASE cache[p][SharedSecret] # Absent /\ Advance(p)
    <3>1. SharedSecret \in Objects /\ SharedSecret = Current(p)
      BY <1>7 DEF SecretGet, Objects
    <3>2. \A x \in Objects : x = SharedSecret => Provided(x)'
      BY <1>0, <2>1, <2>2 DEF CachesSound
    <3> QED
      BY <1>0, <1>1, <1>7, <2>1, <2>2, <3>1, <3>2, AdvanceCalls DEF SecretGet
  <2>3. CASE pass' = [pass EXCEPT ![p].phase = "missing"]
    <3>1. pass[p] \in Passes /\ pass[p].phase # "idle"
      BY <1>0, <1>7 DEF TypeOK, SecretGet
    <3>2. \A q \in Operators : /\ pass'[q].phase = "idle" <=> pass[q].phase = "idle"
                               /\ pass'[q].at = pass[q].at
                               /\ pass'[q].queue = pass[q].queue
      BY <1>0, <2>3, <3>1 DEF TypeOK, Passes
    <3>3. \A q \in Operators : pass[q].phase # "idle" => q \in active'
      BY <1>0, <1>7 DEF CallsSound, SecretGet
    <3>4. CallsSound'
      BY <1>0, <2>1, <3>2, <3>3, CallsSoundKept
    <3> QED
      BY <1>1, <1>7, <3>4 DEF SecretGet
  <2> QED
    BY <1>7, <2>2, <2>3 DEF SecretGet
<1>8. ASSUME NEW p \in Operators, SecretReconcile(p)
      PROVE  CachesSound' /\ CallsSound' /\ StoreSound'
  BY <1>8, GenericOrder DEF SecretReconcile
<1>9. ASSUME NEW p \in Operators, Start(p) PROVE CachesSound' /\ CallsSound' /\ StoreSound'
  <2>1. \A q \in Operators, x \in Objects : cache'[q][x] \in {cache[q][x], store[x]}
    BY <1>0, <1>9 DEF Start, TypeOK
  <2> QED
    BY <1>1, <1>2, <1>9, <2>1 DEF Start
<1>10. ASSUME NEW p \in Operators, ClusterEvent(p)
       PROVE  CachesSound' /\ CallsSound' /\ StoreSound'
  BY <1>1, <1>2, <1>10 DEF ClusterEvent
<1>11. ASSUME NEW p \in Operators, NEW kinds \in InformerKinds, ChildEvents(p, kinds)
       PROVE  CachesSound' /\ CallsSound' /\ StoreSound'
  <2>1. \A q \in Operators, x \in Objects : cache'[q][x] \in {cache[q][x], store[x]}
    BY <1>0, <1>11 DEF ChildEvents, TypeOK
  <2> QED
    BY <1>1, <1>2, <1>11, <2>1 DEF ChildEvents
<1>12. ASSUME NEW p \in Operators, Resync(p) PROVE CachesSound' /\ CallsSound' /\ StoreSound'
  BY <1>1, <1>2, <1>12 DEF Resync
<1>13. ASSUME NEW p \in Operators, ApiError(p) PROVE CachesSound' /\ CallsSound' /\ StoreSound'
  <2>1. \A x \in Objects : Provided(x) => Provided(x)'
    BY <1>13 DEF ApiError, Provided
  <2> QED
    BY <1>0, <1>1, <1>13, <2>1, AbortCalls DEF ApiError
<1>14. ASSUME NEW p \in Operators, Crash(p) PROVE CachesSound' /\ CallsSound' /\ StoreSound'
  <2>1. \A x \in Objects : Provided(x) => Provided(x)'
    BY <1>14 DEF Crash, Provided
  <2>2. \A q \in Operators, x \in Objects : cache'[q][x] \in {cache[q][x], Absent}
    BY <1>0, <1>14 DEF Crash, TypeOK
  <2>3. \A q \in Operators : \/ pass'[q].phase = "idle"
                             \/ pass'[q] = pass[q] /\ q # p
    BY <1>0, <1>14, IdleType DEF Crash, TypeOK
  <2>4. \A q \in Operators : pass[q].phase # "idle" /\ q # p => q \in active'
    BY <1>0, <1>14 DEF Crash, CallsSound
  <2>5. CallsSound'
    BY <1>0, <2>1, <2>3, <2>4, CallsSoundKept
  <2> QED
    BY <1>1, <1>14, <2>2, <2>5 DEF Crash
<1>15. ASSUME NEW s \in Specs, EditCluster(s) PROVE CachesSound' /\ CallsSound' /\ StoreSound'
  BY <1>1, <1>2, <1>15 DEF EditCluster
<1>16. CASE Uninstall
  BY <1>1, <1>2, <1>16 DEF Uninstall
<1>17. ASSUME NEW c \in Classes, NEW st \in ClassStates, EditClass(c, st)
       PROVE  CachesSound' /\ CallsSound' /\ StoreSound'
  BY <1>1, <1>2, <1>17 DEF EditClass
<1>18. ASSUME NEW o \in Objects, DeleteChild(o) \/ CollectGarbage(o)
       PROVE  CachesSound' /\ CallsSound' /\ StoreSound'
  <2>1. /\ Put(o, Absent) /\ o \in deleted' /\ deleted \subseteq deleted'
        /\ cache' = cache /\ pass' = pass /\ active' = active
    BY <1>0, <1>18 DEF DeleteChild, CollectGarbage, TypeOK
  <2>2. \A x \in Objects : Provided(x) => Provided(x)'
    BY <1>0, <2>1, ProvidedByDeletion
  <2>3. \A x \in Objects : store'[x] \in {store[x], Absent}
    BY <1>0, <2>1, PutType
  <2>4. CallsSound'
    BY <1>0, <2>1, <2>2, CallsSoundKept DEF CallsSound
  <2> QED
    BY <1>0, <2>1, <2>2, <2>3, <2>4, CachesSoundKept, StoreSoundShrinks
<1>19. ASSUME NEW a \in AggregatorStates, EditAggregator(a)
       PROVE  CachesSound' /\ CallsSound' /\ StoreSound'
  BY <1>1, <1>2, <1>19 DEF EditAggregator
<1>20. ASSUME NEW p \in Operators, NEW o \in Objects, DeletionEvent(p, o)
       PROVE  CachesSound' /\ CallsSound' /\ StoreSound'
  <2>1. \A x \in Objects : Provided(x) => Provided(x)'
    BY <1>20 DEF DeletionEvent, Provided
  <2>2. \A q \in Operators, x \in Objects : cache'[q][x] \in {cache[q][x], Absent}
    BY <1>0, <1>20 DEF DeletionEvent, TypeOK
  <2>3. pass' = pass /\ active' = active
    BY <1>20 DEF DeletionEvent
  <2>4. CallsSound'
    BY <1>0, <2>1, <2>3, CallsSoundKept DEF CallsSound
  <2> QED
    BY <1>1, <1>20, <2>2, <2>4 DEF DeletionEvent
<1> QED
  BY <1>3, <1>4, <1>5, <1>6, <1>7, <1>8, <1>9, <1>10, <1>11, <1>12, <1>13, <1>14, <1>15,
     <1>16, <1>17, <1>18, <1>19, <1>20 DEF Next, Step

\* The ordering invariant holds in every reachable state.
THEOREM OrderInvariant == Spec => []OrderInv
<1>1. Init => OrderInv
  <2> SUFFICES ASSUME Init PROVE OrderInv
    OBVIOUS
  <2>1. TypeOK
    BY TypeInit
  <2>2. \A x \in Objects : store[x] = Absent
    BY DEF Init
  <2>3. \A p \in Operators : pass[p].phase = "idle"
    BY IdleType DEF Init
  <2>4. \A p \in Operators, x \in Objects : cache[p][x] = Absent
    BY DEF Init
  <2>5. \A k \in {"configmap", "statefulset"}, r \in Roles, g \in Groups : Obj(k, r, g) \in Objects
    BY DEF Obj, Objects, GroupObjects
  <2>6. ConfiguredBeforeStarted /\ WorkerDiscoveryResolves
    BY <2>2, <2>5 DEF ConfiguredBeforeStarted, WorkerDiscoveryResolves, Roles
  <2>7. HttpsEntryHasSecret
    BY <2>2 DEF HttpsEntryHasSecret, Objects
  <2> QED
    BY <2>1, <2>3, <2>4, <2>6, <2>7 DEF OrderInv, CachesSound, CallsSound
<1> QED
  BY <1>1, OrderStep, PTL DEF Spec

\* No StatefulSet is created before the ConfigMap it mounts and its Services,
\* for any number of operators, role groups, edits, failures and crashes.
THEOREM StartOrder == Spec => []ConfiguredBeforeStarted
<1>1. OrderInv => ConfiguredBeforeStarted
  BY DEF OrderInv
<1> QED
  BY <1>1, OrderInvariant, PTL

\* The discovery URI of a worker names a coordinator Service that was created.
THEOREM DiscoveryOrder == Spec => []WorkerDiscoveryResolves
<1>1. OrderInv => WorkerDiscoveryResolves
  BY DEF OrderInv
<1> QED
  BY <1>1, OrderInvariant, PTL

\* The coordinator role's Service turns to https only after the shared secret was
\* created.
THEOREM SecretOrder == Spec => []HttpsEntryHasSecret
<1>1. OrderInv => HttpsEntryHasSecret
  BY DEF OrderInv
<1> QED
  BY <1>1, OrderInvariant, PTL

-----------------------------------------------------------------------------
(* The shared secret.                                                        *)

\* Abort and Advance leave no call between the two reads of the secret.
LEMMA NotMissing ==
    ASSUME TypeOK, NEW p \in Operators, Abort(p) \/ Advance(p),
           NEW q \in Operators, pass[q].phase # "missing"
    PROVE  pass'[q].phase # "missing"
<1>1. CASE pass' = [pass EXCEPT ![p] = Idle]
  BY <1>1, IdleType DEF TypeOK
<1>2. CASE pass' = [pass EXCEPT ![p].at = @ + 1, ![p].phase = "build", ![p].reads = <<>>]
  <2>1. pass[p] \in Passes
    BY DEF TypeOK
  <2> QED
    BY <1>2, <2>1 DEF TypeOK, Passes
<1> QED
  BY <1>1, <1>2 DEF Abort, Advance

\* Once the secret is settled, no step but a deletion changes it or unsettles it.
LEMMA SettledStep ==
    ASSUME OrderInv, SecretSettled, [Next]_vars
    PROVE  \/ store'[SharedSecret] = Absent
           \/ store'[SharedSecret] = store[SharedSecret] /\ SecretSettled'
<1> DEFINE Kept == store'[SharedSecret] = store[SharedSecret] /\ SecretSettled'
           Settled(p) == /\ cache[p][SharedSecret] # Absent /\ SharedSecret \notin removals[p]
                         /\ pass[p].phase # "missing"
           NoRemoval == \A q \in active' :
                           SharedSecret \in removals'[q] => SharedSecret \in removals[q]
<1>1. TypeOK /\ CallsSound /\ SharedSecret \in Objects
  BY DEF OrderInv, Objects
<1>2. \A q \in active : q \in Operators
  BY <1>1 DEF TypeOK
<1>3. store[SharedSecret] # Absent /\ \A q \in active : Settled(q)
  BY DEF SecretSettled
<1>4. ASSUME store'[SharedSecret] = store[SharedSecret], active' \subseteq active,
             \A q \in active' : cache'[q][SharedSecret] \in {cache[q][SharedSecret],
                                                             store[SharedSecret]},
             \A q \in active' : pass[q].phase # "missing" => pass'[q].phase # "missing",
             NoRemoval
      PROVE  Kept
  BY <1>3, <1>4 DEF SecretSettled
<1>5. ASSUME store'[SharedSecret] = store[SharedSecret], active' = active, cache' = cache,
             NoRemoval, NEW p \in Operators, Abort(p) \/ Advance(p)
      PROVE  Kept
  BY <1>1, <1>2, <1>4, <1>5, NotMissing
<1>6. CASE UNCHANGED vars
  BY <1>4, <1>6 DEF vars
<1>7. ASSUME NEW p \in Operators, Reconcile(p) PROVE Kept
  <2>1. \A q \in Operators : pass'[q] = pass[q] \/ pass'[q].phase = "build"
    BY <1>1, <1>7 DEF Reconcile, TypeOK
  <2> QED
    BY <1>2, <1>4, <1>7, <2>1 DEF Reconcile
<1>8. ASSUME NEW p \in Operators, NewAuthentication(p) PROVE Kept
  <2>1. CASE Abort(p)
    BY <1>5, <1>8, <2>1 DEF NewAuthentication
  <2>2. ASSUME NEW x, pass' = [pass EXCEPT ![p].reads = Append(@, x)] PROVE Kept
    <3>1. pass[p] \in Passes
      BY <1>1 DEF TypeOK
    <3>2. \A q \in Operators : pass'[q].phase = pass[q].phase
      BY <1>1, <2>2, <3>1 DEF TypeOK, Passes
    <3> QED
      BY <1>2, <1>4, <1>8, <3>2 DEF NewAuthentication
  <2> QED
    BY <1>8, <2>1, <2>2 DEF NewAuthentication
<1>9. ASSUME NEW p \in Operators, ReconcileObject(p) PROVE Kept
  <2>1. Abort(p) \/ Advance(p)
    BY <1>9 DEF ReconcileObject, GenericReconcile
  <2>2. ASSUME NEW c \in Built(p), GenericReconcile(p, c)
        PROVE  UNCHANGED <<store, stale, removals>> \/ Put(Current(p), c)
    BY <2>2 DEF GenericReconcile
  <2>3. Current(p) # SharedSecret
    BY <1>9 DEF ReconcileObject
  <2>4. ASSUME NEW c, Put(Current(p), c)
        PROVE  store'[SharedSecret] = store[SharedSecret] /\ NoRemoval
    <3>1. store'[SharedSecret] = store[SharedSecret]
      BY <1>1, <2>3, <2>4 DEF Put, TypeOK
    <3>2. \A q \in Operators : SharedSecret \in removals'[q] => SharedSecret \in removals[q]
      BY <2>3, <2>4 DEF Put
    <3>3. active' = active
      BY <1>9 DEF ReconcileObject
    <3> QED
      BY <1>2, <3>1, <3>2, <3>3
  <2>5. store'[SharedSecret] = store[SharedSecret] /\ NoRemoval
    BY <1>9, <2>2, <2>4 DEF ReconcileObject
  <2> QED
    BY <1>5, <1>9, <2>1, <2>5 DEF ReconcileObject
<1>10. ASSUME NEW p \in Operators, SecretGet(p) PROVE Kept
  <2>1. p \in active
    BY <1>1, <1>10 DEF CallsSound, SecretGet
  <2>2. Advance(p)
    BY <1>3, <1>10, <2>1 DEF SecretGet
  <2> QED
    BY <1>5, <1>10, <2>2 DEF SecretGet
<1>11. ASSUME NEW p \in Operators, SecretReconcile(p) PROVE FALSE
  <2>1. p \in active
    BY <1>1, <1>11 DEF CallsSound, SecretReconcile
  <2> QED
    BY <1>3, <1>11, <2>1 DEF SecretReconcile
<1>12. ASSUME NEW p \in Operators, Start(p) PROVE Kept
  <2>1. pass[p].phase = "idle" /\ pass' = pass
    BY <1>1, <1>12 DEF Start, CallsSound
  <2>2. cache'[p] = store /\ \A q \in Operators : q # p => cache'[q] = cache[q]
    BY <1>1, <1>12 DEF Start, TypeOK
  <2>3. store' = store /\ active' = active \cup {p}
    BY <1>12 DEF Start
  <2>4. removals'[p] = {} /\ \A q \in Operators : q # p => removals'[q] = removals[q]
    BY <1>1, <1>12 DEF Start, TypeOK
  <2> QED
    BY <1>2, <1>3, <2>1, <2>2, <2>3, <2>4 DEF SecretSettled
<1>13. ASSUME NEW p \in Operators, ClusterEvent(p) PROVE Kept
  BY <1>4, <1>13 DEF ClusterEvent
<1>14. ASSUME NEW p \in Operators, NEW kinds \in InformerKinds, ChildEvents(p, kinds) PROVE Kept
  <2>1. \A q \in Operators : cache'[q][SharedSecret] \in {cache[q][SharedSecret],
                                                         store[SharedSecret]}
    BY <1>1, <1>14 DEF ChildEvents, TypeOK
  <2>2. \A q \in Operators : removals'[q] \subseteq removals[q]
    BY <1>1, <1>14 DEF ChildEvents, TypeOK
  <2> QED
    BY <1>2, <1>4, <1>14, <2>1, <2>2 DEF ChildEvents
<1>15. ASSUME NEW p \in Operators, Resync(p) PROVE Kept
  BY <1>4, <1>15 DEF Resync
<1>16. ASSUME NEW p \in Operators, ApiError(p) PROVE Kept
  BY <1>5, <1>16 DEF ApiError
<1>17. ASSUME NEW p \in Operators, Crash(p) PROVE Kept
  <2>1. \A q \in Operators : q # p => /\ cache'[q] = cache[q] /\ pass'[q] = pass[q]
                                      /\ removals'[q] = removals[q]
    BY <1>1, <1>17 DEF Crash, TypeOK
  <2> QED
    BY <1>2, <1>4, <1>17, <2>1 DEF Crash
<1>18. ASSUME NEW s \in Specs, EditCluster(s) PROVE Kept
  BY <1>4, <1>18 DEF EditCluster
<1>19. CASE Uninstall
  BY <1>4, <1>19 DEF Uninstall
<1>20. ASSUME NEW c \in Classes, NEW st \in ClassStates, EditClass(c, st) PROVE Kept
  BY <1>4, <1>20 DEF EditClass
<1>21. ASSUME NEW o \in Objects, DeleteChild(o) \/ CollectGarbage(o)
       PROVE  store'[SharedSecret] = Absent \/ Kept
  <2>1. Put(o, Absent) /\ cache' = cache /\ pass' = pass /\ active' = active
    BY <1>21 DEF DeleteChild, CollectGarbage
  <2>2. CASE o = SharedSecret
    BY <1>1, <2>1, <2>2, PutType
  <2>3. CASE o # SharedSecret
    <3>1. store'[SharedSecret] = store[SharedSecret]
      BY <1>1, <2>1, <2>3, PutType
    <3>2. \A q \in Operators : SharedSecret \in removals'[q] => SharedSecret \in removals[q]
      BY <2>1, <2>3 DEF Put
    <3> QED
      BY <1>2, <1>4, <2>1, <3>1, <3>2
  <2> QED
    BY <2>2, <2>3
<1>22. ASSUME NEW a \in AggregatorStates, EditAggregator(a) PROVE Kept
  BY <1>4, <1>22 DEF EditAggregator
<1>23. ASSUME NEW p \in Operators, NEW o \in Objects, DeletionEvent(p, o) PROVE Kept
  <2>1. p \in active /\ o # SharedSecret
    BY <1>3, <1>23 DEF DeletionEvent
  <2>2. \A q \in Operators : /\ cache'[q][SharedSecret] = cache[q][SharedSecret]
                             /\ removals'[q] \subseteq removals[q]
    BY <1>1, <1>23, <2>1 DEF DeletionEvent, TypeOK
  <2> QED
    BY <1>2, <1>4, <1>23, <2>2 DEF DeletionEvent
<1> QED
  BY <1>6, <1>7, <1>8, <1>9, <1>10, <1>11, <1>12, <1>13, <1>14, <1>15, <1>16, <1>17, <1>18,
     <1>19, <1>20, <1>21, <1>22, <1>23 DEF Next, Step

\* The settled secret keeps its value, whatever the number of operators, with and
\* without leader election.
THEOREM SecretKept == Spec => SettledSecretKept
<1>1. OrderInv /\ [Next]_vars =>
        [SecretSettled => \/ store'[SharedSecret] = Absent
                          \/ store'[SharedSecret] = store[SharedSecret] /\ SecretSettled']_vars
  BY SettledStep
<1> QED
  BY <1>1, OrderInvariant, PTL DEF Spec, SettledSecretKept

-----------------------------------------------------------------------------
(* The pause.                                                                *)

\* While a known pause lasts, no step starts a call or writes a child.
LEMMA PauseStep ==
    ASSUME OrderInv, PausedAndQuiet, spec' = spec, [Next]_vars
    PROVE  PausedAndQuiet' /\ \A o \in Objects : store'[o] \in {store[o], Absent}
<1> DEFINE Held == PausedAndQuiet' /\ \A o \in Objects : store'[o] \in {store[o], Absent}
<1>1. TypeOK /\ CallsSound /\ spec \in Specs /\ spec.paused
  BY DEF OrderInv, PausedAndQuiet, TypeOK
<1>2. \A q \in active : seen[q] = spec /\ q \in Operators
  BY <1>1 DEF PausedAndQuiet, TypeOK
<1>3. \A q \in Operators : pass[q].phase = "idle"
  BY <1>1 DEF PausedAndQuiet, CallsSound
<1>4. ASSUME \A o \in Objects : store'[o] \in {store[o], Absent}, pass' = pass,
             \A q \in active' : q \in Operators /\ seen'[q] = spec
      PROVE  Held
  BY <1>1, <1>3, <1>4 DEF PausedAndQuiet
<1>5. CASE UNCHANGED vars
  BY <1>2, <1>4, <1>5 DEF vars
<1>6. ASSUME NEW p \in Operators, Step(p) PROVE Held
  <2>1. Reconcile(p)
    BY <1>3, <1>6 DEF Step, NewAuthentication, ReconcileObject, SecretGet, SecretReconcile
  <2>2. seen[p] = spec
    BY <1>2, <2>1 DEF Reconcile
  <2> QED
    BY <1>1, <1>2, <1>4, <2>1, <2>2 DEF Reconcile
<1>7. ASSUME NEW p \in Operators, Start(p) PROVE Held
  <2>1. seen'[p] = spec /\ \A q \in Operators : q # p => seen'[q] = seen[q]
    BY <1>1, <1>7 DEF Start, TypeOK
  <2> QED
    BY <1>2, <1>4, <1>7, <2>1 DEF Start
<1>8. ASSUME NEW p \in Operators, ClusterEvent(p) PROVE FALSE
  BY <1>2, <1>8 DEF ClusterEvent
<1>9. ASSUME NEW p \in Operators, NEW kinds \in InformerKinds, ChildEvents(p, kinds) PROVE Held
  BY <1>2, <1>4, <1>9 DEF ChildEvents
<1>10. ASSUME NEW p \in Operators, Resync(p) PROVE Held
  BY <1>2, <1>4, <1>10 DEF Resync
<1>11. ASSUME NEW p \in Operators, ApiError(p) PROVE FALSE
  BY <1>3, <1>11 DEF ApiError
<1>12. ASSUME NEW p \in Operators, Crash(p) PROVE Held
  <2>1. \A q \in active' : q \in active /\ q # p
    BY <1>12 DEF Crash
  <2>2. \A q \in Operators : q # p => seen'[q] = seen[q] /\ pass'[q] = pass[q]
    BY <1>1, <1>12 DEF Crash, TypeOK
  <2> QED
    BY <1>1, <1>2, <1>3, <1>12, <2>1, <2>2 DEF PausedAndQuiet, Crash
<1>13. ASSUME NEW s \in Specs, EditCluster(s) PROVE FALSE
  BY <1>13 DEF EditCluster
<1>14. CASE Uninstall
  BY <1>14 DEF Uninstall
<1>15. ASSUME NEW c \in Classes, NEW st \in ClassStates, EditClass(c, st) PROVE Held
  BY <1>2, <1>4, <1>15 DEF EditClass
<1>16. ASSUME NEW o \in Objects, DeleteChild(o) \/ CollectGarbage(o) PROVE Held
  <2>1. Put(o, Absent) /\ pass' = pass /\ seen' = seen /\ active' = active
    BY <1>16 DEF DeleteChild, CollectGarbage
  <2>2. \A x \in Objects : store'[x] \in {store[x], Absent}
    BY <1>1, <2>1, PutType
  <2> QED
    BY <1>2, <1>4, <2>1, <2>2
<1>17. ASSUME NEW a \in AggregatorStates, EditAggregator(a) PROVE Held
  BY <1>2, <1>4, <1>17 DEF EditAggregator
<1>18. ASSUME NEW p \in Operators, NEW o \in Objects, DeletionEvent(p, o) PROVE Held
  BY <1>2, <1>4, <1>18 DEF DeletionEvent
<1> QED
  BY <1>5, <1>6, <1>7, <1>8, <1>9, <1>10, <1>11, <1>12, <1>13, <1>14, <1>15, <1>16,
     <1>17, <1>18 DEF Next

\* A pause every running operator knows of holds through restarts, failovers and
\* resyncs: until the cluster is edited, no child is created or changed.
THEOREM PauseKept == Spec => PauseHolds
<1>1. OrderInv /\ [Next]_vars =>
        [PausedAndQuiet /\ spec' = spec =>
            /\ PausedAndQuiet'
            /\ \A o \in Objects : store'[o] \in {store[o], Absent}]_vars
  BY PauseStep
<1> QED
  BY <1>1, OrderInvariant, PTL DEF Spec, PauseHolds

-----------------------------------------------------------------------------
(* The promise.                                                              *)

\* What the builder of the current object refers to is registered earlier, and a
\* call has provided what it has passed.
LEMMA RefsProvided ==
    ASSUME TypeOK, CallsSound, NEW p \in Operators, pass[p].phase # "idle",
           NEW c \in Built(p), NEW x \in DependsOn(Current(p), c)
    PROVE  Provided(x)
<1> DEFINE o == Current(p)
           s == pass[p].inst
           q == pass[p].queue
           n == pass[p].at
<1>1. /\ s \in TrinoClusterSpec /\ WellOrdered(s, q) /\ n \in 1..Len(q) /\ o \in Objects
      /\ pass[p].fqdn \in getCoordinatorSvcFqdn(s)
      /\ o = q[n]
  BY CallShape DEF Current
<1>2. /\ o.kind = "configmap" => c.uriHost = pass[p].fqdn
      /\ o.kind = "roleservice" => (c.targetPort = "https" <=> s.tls)
  BY BuiltType
<1>3. \A i \in 1..(n - 1) : Provided(q[i])
  BY DEF CallsSound
<1> HIDE DEF o, s, q, n
<1>4. ASSUME o.kind = "statefulset", NEW k \in {"configmap", "service", "metrics"},
             x = Obj(k, o.role, o.group)
      PROVE  \E i \in 1..(n - 1) : q[i] = x
  <2>1. q[n].kind = "statefulset" =>
           \A v \in {"configmap", "service", "metrics"} :
               \E i \in 1..(n - 1) : q[i] = Obj(v, q[n].role, q[n].group)
    BY <1>1 DEF WellOrdered
  <2> QED
    BY <1>1, <1>4, <2>1
<1>5. ASSUME o.kind = "configmap", o.role = "worker", x \in Objects,
             x = Obj("service", "coordinator", c.uriHost)
      PROVE  \E i \in 1..(n - 1) : q[i] = x
  <2>1. c.uriHost \in Groups
    <3>1. x.kind = "service" /\ x.group = c.uriHost
      BY <1>5 DEF Obj
    <3>2. x \in GroupObjects
      BY <1>5, <3>1 DEF Objects, SharedSecret, RoleService, Obj
    <3> QED
      BY <3>1, <3>2 DEF GroupObjects
  <2>2. c.uriHost \in DOMAIN s.coordinators
    BY <1>1, <1>2, <1>5, <2>1, NoGroupIsNoGroup DEF getCoordinatorSvcFqdn
  <2> QED
    BY <1>1, <1>5, <2>2 DEF WellOrdered
<1>6. ASSUME o = RoleService, c.targetPort = "https", x = SharedSecret
      PROVE  \E i \in 1..(n - 1) : q[i] = x
  <2>1. o.kind = "roleservice" /\ s.tls
    BY <1>2, <1>6 DEF RoleService, Obj
  <2> QED
    BY <1>1, <1>6, <2>1 DEF WellOrdered
<1>7. \E i \in 1..(n - 1) : q[i] = x
  BY <1>4, <1>5, <1>6 DEF DependsOn, o
<1> QED
  BY <1>3, <1>7

\* What the generic reconciler does to the objects is a write the promise allows.
LEMMA WriteKept ==
    ASSUME OrderInv, NEW p \in Operators, pass[p].phase # "idle",
           Current(p) = SharedSecret => pass[p].phase = "missing",
           NEW c \in Built(p), GenericReconcile(p, c), spec' = spec, deleted' = deleted
    PROVE  Promise!Leave \/ \E o \in Objects : Promise!Write(o)
<1>1. TypeOK /\ CallsSound /\ p \in active
  BY DEF OrderInv, CallsSound
<1>2. CASE store' = store
  BY <1>2 DEF Promise!Leave
<1>3. CASE Put(Current(p), c)
  <2>1. Current(p) \in Objects /\ c \in Content /\ c # Absent
    BY <1>1, CallShape, BuiltType
  <2>2. store'[Current(p)] = c /\ store' = [store EXCEPT ![Current(p)] = c]
    <3>1. store' = [store EXCEPT ![Current(p)] = c]
      BY <1>3 DEF Put
    <3> QED
      BY <1>1, <2>1, <3>1 DEF TypeOK
  <2>3. ~PausedAndQuiet
    BY <1>1 DEF PausedAndQuiet
  <2>4. Current(p) = SharedSecret => ~SecretSettled
    BY <1>1 DEF SecretSettled
  <2>5. \A x \in DependsOn(Current(p), c) : Promise!Provided(x)
    BY <1>1, RefsProvided DEF Provided, Promise!Provided
  <2>6. Promise!Write(Current(p))
    BY <2>1, <2>2, <2>3, <2>4, <2>5 DEF Promise!Write
  <2> QED
    BY <2>1, <2>6
<1> QED
  BY <1>2, <1>3, GenericEffect

\* Every step of the operators and of the environment is one of the promise.
LEMMA StepKept ==
    ASSUME OrderInv, [Next]_vars
    PROVE  Promise!Leave \/ \E o \in Objects : Promise!Write(o) \/ Promise!Remove(o)
<1> DEFINE Kept == Promise!Leave \/ \E o \in Objects : Promise!Write(o) \/ Promise!Remove(o)
<1>1. ASSUME store' = store, deleted' = deleted PROVE Kept
  BY <1>1 DEF Promise!Leave
<1>2. CASE UNCHANGED vars
  BY <1>1, <1>2 DEF vars
<1>3. ASSUME NEW p \in Operators,
             \/ Reconcile(p) \/ NewAuthentication(p) \/ SecretGet(p) \/ Start(p)
             \/ ClusterEvent(p) \/ Resync(p) \/ ApiError(p) \/ Crash(p)
      PROVE  Kept
  BY <1>1, <1>3 DEF Reconcile, NewAuthentication, SecretGet, Start, ClusterEvent, Resync,
                    ApiError, Crash
<1>4. ASSUME NEW p \in Operators, NEW kinds \in InformerKinds, ChildEvents(p, kinds) PROVE Kept
  BY <1>1, <1>4 DEF ChildEvents
<1>5. ASSUME NEW p \in Operators, ReconcileObject(p) PROVE Kept
  <2>1. CASE Abort(p) /\ UNCHANGED <<store, stale, removals>>
    BY <1>1, <1>5, <2>1 DEF ReconcileObject
  <2>2. ASSUME NEW c \in Built(p), GenericReconcile(p, c) PROVE Kept
    BY <1>5, <2>2, WriteKept DEF ReconcileObject
  <2> QED
    BY <1>5, <2>1, <2>2 DEF ReconcileObject
<1>6. ASSUME NEW p \in Operators, SecretReconcile(p) PROVE Kept
  BY <1>6, WriteKept DEF SecretReconcile
<1>7. ASSUME NEW s \in Specs, EditCluster(s) PROVE Kept
  BY <1>1, <1>7 DEF EditCluster
<1>8. CASE Uninstall
  BY <1>1, <1>8 DEF Uninstall
<1>9. ASSUME NEW c \in Classes, NEW st \in ClassStates, EditClass(c, st) PROVE Kept
  BY <1>1, <1>9 DEF EditClass
<1>10. ASSUME NEW a \in AggregatorStates, EditAggregator(a) PROVE Kept
  BY <1>1, <1>10 DEF EditAggregator
<1>11. ASSUME NEW o \in Objects, DeleteChild(o) \/ CollectGarbage(o) PROVE Kept
  <2>1. /\ store' = [store EXCEPT ![o] = Absent] /\ spec' = spec
        /\ o \in deleted' /\ deleted \subseteq deleted'
    BY <1>11 DEF DeleteChild, CollectGarbage, Put, OrderInv, TypeOK
  <2>2. Promise!Remove(o)
    BY <2>1 DEF Promise!Remove
  <2> QED
    BY <2>2
<1>12. ASSUME NEW p \in Operators, NEW o \in Objects, DeletionEvent(p, o) PROVE Kept
  BY <1>1, <1>12 DEF DeletionEvent
<1> QED
  BY <1>2, <1>3, <1>4, <1>5, <1>6, <1>7, <1>8, <1>9, <1>10, <1>11, <1>12 DEF Next, Step

\* The settled secret and the pause are not taken back.
LEMMA LastingKept ==
    ASSUME OrderInv, [Next]_vars
    PROVE  Promise!Lasting
<1>1. SecretSettled' \in BOOLEAN /\ PausedAndQuiet' \in BOOLEAN
  BY DEF SecretSettled, PausedAndQuiet
<1>2. SecretSettled' => store'[SharedSecret] # Absent
  BY DEF SecretSettled
<1>3. SecretSettled /\ store'[SharedSecret] # Absent => SecretSettled'
  BY SettledStep
<1>4. PausedAndQuiet /\ spec' = spec => PausedAndQuiet'
  BY PauseStep
<1> QED
  BY <1>1, <1>2, <1>3, <1>4 DEF Promise!Lasting

\* The detailed specification implements the abstract one: for any number of
\* operators, role groups, edits, failures and crashes, the reconcile loop does to
\* the objects of the cluster only what the promise allows.
THEOREM Refinement == Spec => PromiseKept
<1>1. Init => Promise!Init
  BY DEF Init, Promise!Init, SecretSettled, PausedAndQuiet, Objects
<1>2. OrderInv /\ [Next]_vars => [Promise!Next]_Promise!vars
  BY StepKept, LastingKept DEF Promise!Next
<1> QED
  BY <1>1, <1>2, OrderInvariant, PTL DEF Spec, PromiseKept, Promise!Spec

\* What the promise implies holds of the operators: no object in the API server
\* refers to one that was never there.
THEOREM NoDanglingReference == Spec => []Promise!NoDangling
BY Refinement, Promise!NothingDangles, PTL DEF PromiseKept
=============================================================================
