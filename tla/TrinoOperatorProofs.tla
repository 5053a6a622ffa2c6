------------------------ MODULE TrinoOperatorProofs -------------------------
(***************************************************************************)
(* Proofs about TrinoOperator, for every number of operators, role groups  *)
(* and classes, every set of specs and every number of disturbances.       *)
(***************************************************************************)
EXTENDS TrinoOperator, TrinoResourcesProofs

\* What the informers have still to tell.
InformersTyped ==
    /\ stale \in [Operators -> SUBSET Objects]
    /\ removals \in [Operators -> SUBSET Objects]
    /\ \A p \in Operators : removals[p] \subseteq stale[p]

\* The part of TypeOK that Abort and Advance affect.
CallsTyped ==
    /\ queued \in [Operators -> BOOLEAN]
    /\ pass \in [Operators -> Passes]
    /\ \A p \in Operators : Registered(pass[p])

\* A call under way: its instance is a spec, its queue is well ordered.
LEMMA CallShape ==
    ASSUME TypeOK, NEW p \in Operators, pass[p].phase # "idle"
    PROVE  /\ pass[p].inst \in TrinoClusterSpec
           /\ WellOrdered(pass[p].inst, pass[p].queue)
           /\ pass[p].at \in 1..Len(pass[p].queue)
           /\ Current(p) \in Objects
           /\ Current(p) \in GroupObjects =>
                 Current(p).group \in DOMAIN RoleSpec(pass[p].inst, Current(p).role)
           /\ pass[p].fqdn \in getCoordinatorSvcFqdn(pass[p].inst)
           /\ pass[p].fqdn \in Groups \cup {NoGroup}
<1>1. /\ pass[p].inst \in Specs
      /\ pass[p].queue \in RegisterResources(pass[p].inst)
      /\ pass[p].fqdn \in getCoordinatorSvcFqdn(pass[p].inst)
      /\ pass[p].at \in 1..Len(pass[p].queue)
      /\ pass[p].fqdn \in Groups \cup {NoGroup}
  BY DEF TypeOK, Registered, Passes
<1>2. pass[p].inst \in TrinoClusterSpec
  BY <1>1, SpecsAreSpecs
<1>3. WellOrdered(pass[p].inst, pass[p].queue)
  BY <1>1, <1>2, RegistrationOrder
<1>4. Current(p) \in Objects
  BY <1>1, <1>3 DEF WellOrdered, Current
<1>5. Current(p) \in GroupObjects =>
         Current(p).group \in DOMAIN RoleSpec(pass[p].inst, Current(p).role)
  BY <1>1, <1>3 DEF WellOrdered, Current
<1> QED
  BY <1>1, <1>2, <1>3, <1>4, <1>5

\* An idle operator has a well-typed call.
LEMMA IdleType == Idle \in Passes /\ Registered(Idle) /\ Idle.phase = "idle"
<1>1. <<>> \in Seq(Objects) /\ <<>> \in Seq(Providers)
  OBVIOUS
<1> QED
  BY <1>1 DEF Idle, Passes, Registered

\* A failed call leaves calls and work queues well typed.
LEMMA AbortType ==
    ASSUME TypeOK, NEW p \in Operators, Abort(p)
    PROVE  CallsTyped'
<1>1. pass' \in [Operators -> Passes] /\ queued' \in [Operators -> BOOLEAN]
  BY IdleType DEF TypeOK, Abort
<1>2. \A q \in Operators : Registered(pass[q])'
  BY IdleType DEF TypeOK, Abort, Registered
<1> QED
  BY <1>1, <1>2 DEF CallsTyped

\* So does going on to the next object, which is still one of the registered.
LEMMA AdvanceType ==
    ASSUME TypeOK, NEW p \in Operators, pass[p].phase # "idle", Advance(p)
    PROVE  CallsTyped'
<1>1. CASE pass[p].at < Len(pass[p].queue)
  <2>1. pass' = [pass EXCEPT ![p].at = @ + 1, ![p].phase = "build", ![p].reads = <<>>]
        /\ queued' = queued
    BY <1>1 DEF Advance
  <2>2. pass[p] \in Passes /\ pass[p].at \in 1..Len(pass[p].queue) /\ Len(pass[p].queue) \in Nat
    BY DEF TypeOK, Passes, Registered
  <2>3. pass'[p] = [pass[p] EXCEPT !.at = pass[p].at + 1, !.phase = "build", !.reads = <<>>]
    BY <2>1 DEF TypeOK
  <2>4. /\ pass'[p].phase = "build" /\ pass'[p].inst = pass[p].inst
        /\ pass'[p].fqdn = pass[p].fqdn /\ pass'[p].queue = pass[p].queue
        /\ pass'[p].at = pass[p].at + 1 /\ pass'[p].reads = <<>>
    BY <2>2, <2>3 DEF Passes
  <2>5. pass[p].at + 1 \in 1..Len(pass[p].queue) /\ pass[p].at + 1 \in Nat \ {0}
    BY <1>1, <2>2
  <2>6. pass'[p] \in Passes
    <3>1. <<>> \in Seq(Providers)
      OBVIOUS
    <3> QED
      BY <2>2, <2>3, <2>5, <3>1 DEF Passes
  <2>7. Registered(pass'[p])
    BY <2>4, <2>5 DEF TypeOK, Registered
  <2>8. \A q \in Operators : q # p => pass'[q] = pass[q]
    BY <2>1 DEF TypeOK
  <2>9. pass' \in [Operators -> Passes]
    BY <2>1, <2>6, <2>8 DEF TypeOK
  <2> QED
    BY <2>1, <2>7, <2>8, <2>9 DEF TypeOK, CallsTyped, Registered
<1>2. CASE pass[p].at = Len(pass[p].queue)
  <2>1. pass' = [pass EXCEPT ![p] = Idle] /\ queued' = queued
    BY <1>2 DEF Advance, TypeOK, Passes
  <2> QED
    BY <2>1, IdleType DEF TypeOK, CallsTyped, Registered
<1> QED
  BY <1>1, <1>2 DEF Advance

\* The entry a builder turns to next names a class.
LEMMA NextClass ==
    ASSUME TypeOK, NEW p \in Operators, pass[p].phase # "idle", ReadsLeft(p)
    PROVE  LET n == Len(pass[p].inst.auth)  k == Len(pass[p].reads)
           IN  pass[p].inst.auth[(k % n) + 1].class \in Classes
<1>1. pass[p].inst.auth \in Seq(AuthenticationSpec) /\ pass[p].reads \in Seq(Providers)
  BY CallShape DEF TypeOK, Passes, TrinoClusterSpec
<1> DEFINE n == Len(pass[p].inst.auth)
           k == Len(pass[p].reads)
<1>2. n \in Nat /\ k \in Nat /\ n # 0
  <2>1. n \in Nat /\ k \in Nat
    BY <1>1
  <2>2. AuthenticationCalls(Current(p)) * 0 = 0
    BY DEF AuthenticationCalls
  <2> QED
    BY <2>1, <2>2 DEF ReadsLeft
<1> HIDE DEF k, n
<1>3. (k % n) + 1 \in 1..n
  BY <1>2
<1>4. pass[p].inst.auth[(k % n) + 1] \in AuthenticationSpec
  BY <1>1, <1>3 DEF n
<1> QED
  BY <1>4 DEF AuthenticationSpec, n, k

\* What a builder produces is content, of the kind of the object it is for.
LEMMA BuiltType ==
    ASSUME TypeOK, NEW p \in Operators, pass[p].phase # "idle", NEW c \in Built(p)
    PROVE  /\ c \in Content /\ c # Absent
           /\ Current(p).kind = "configmap" => c.uriHost = pass[p].fqdn
           /\ Current(p).kind = "roleservice" => (c.targetPort = "https" <=> pass[p].inst.tls)
<1> DEFINE T == [n \in 1..4 |-> AuthenticatorFectory(ReadBy(p, n))]
<1>1. T \in [1..4 -> SUBSET AuthenticationTypes]
  BY DEF AuthenticatorFectory
<1>2. c \in Build(pass[p].inst, Current(p), pass[p].fqdn, T)
  BY DEF Built
<1> HIDE DEF T
<1>3. /\ c \in Content
      /\ Current(p).kind = "configmap" => c.uriHost = pass[p].fqdn
      /\ Current(p).kind = "roleservice" => (c.targetPort = "https" <=> pass[p].inst.tls)
  BY <1>1, <1>2, CallShape, BuildType
<1> QED
  BY <1>3, AbsentIsNoContent

\* The generic reconciler either leaves the server alone or puts the content it
\* was given, where the server accepts it; it goes on only when the object is
\* known to exist.
LEMMA GenericEffect ==
    ASSUME NEW p \in Operators, NEW c, GenericReconcile(p, c)
    PROVE  /\ \/ UNCHANGED <<store, stale, removals>>
              \/ Put(Current(p), c) /\ Accepts(p, Current(p), c)
           /\ \/ Abort(p)
              \/ Advance(p) /\ (cache[p][Current(p)] = c \/ Put(Current(p), c))
BY DEF GenericReconcile

\* What a change of one object does to the server's state.
LEMMA PutType ==
    ASSUME TypeOK, NEW o \in Objects, NEW c \in Content \cup {Absent}, Put(o, c)
    PROVE  /\ store' \in [Objects -> Content \cup {Absent}]
           /\ InformersTyped'
           /\ store'[o] = c
           /\ \A x \in Objects : x # o => store'[x] = store[x]
BY DEF TypeOK, Put, InformersTyped

\* The disturbance counters stay naturals.
LEMMA DisturbType ==
    ASSUME TypeOK, NEW d \in Disturbances, Disturb(d)
    PROVE  disturbed' \in [Disturbances -> Nat]
BY DEF TypeOK, Disturb

\* The generic reconciler keeps server, calls and work queues well typed.
LEMMA GenericType ==
    ASSUME TypeOK, NEW p \in Operators, pass[p].phase # "idle",
           NEW c \in Content, GenericReconcile(p, c)
    PROVE  /\ store' \in [Objects -> Content \cup {Absent}]
           /\ InformersTyped'
           /\ CallsTyped'
<1>1. Current(p) \in Objects
  BY CallShape
<1>2. CallsTyped'
  BY GenericEffect, AbortType, AdvanceType
<1>3. /\ store' \in [Objects -> Content \cup {Absent}]
      /\ InformersTyped'
  <2>1. CASE UNCHANGED <<store, stale, removals>>
    BY <2>1 DEF TypeOK, InformersTyped
  <2>2. CASE Put(Current(p), c)
    BY <2>2, <1>1, PutType
  <2> QED
    BY <2>1, <2>2, GenericEffect
<1> QED
  BY <1>2, <1>3

-----------------------------------------------------------------------------
\* Type correctness: every variable keeps its type, and every call under way
\* works through a registration order of the instance it has read.
LEMMA TypeStep == TypeOK /\ [Next]_vars => TypeOK'
<1> SUFFICES ASSUME TypeOK, [Next]_vars PROVE TypeOK'
  OBVIOUS
<1>1. CASE UNCHANGED vars
  BY <1>1 DEF vars, TypeOK, Registered
<1>2. ASSUME NEW p \in Operators, Reconcile(p) PROVE TypeOK'
  <2>1. queued' \in [Operators -> BOOLEAN]
    BY <1>2 DEF Reconcile, TypeOK
  <2>2. pass' \in [Operators -> Passes] /\ \A q \in Operators : Registered(pass'[q])
    <3>1. CASE pass' = pass
      BY <3>1 DEF TypeOK
    <3>2. CASE /\ seen[p] \in Specs
               /\ \E q \in RegisterResources(seen[p]), f \in getCoordinatorSvcFqdn(seen[p]) :
                     pass' = [pass EXCEPT ![p] = [phase |-> "build", inst |-> seen[p],
                                 fqdn |-> f, queue |-> q, at |-> 1, reads |-> <<>>]]
      <4>1. PICK q \in RegisterResources(seen[p]), f \in getCoordinatorSvcFqdn(seen[p]) :
               pass' = [pass EXCEPT ![p] = [phase |-> "build", inst |-> seen[p],
                           fqdn |-> f, queue |-> q, at |-> 1, reads |-> <<>>]]
        BY <3>2
      <4> DEFINE x == [phase |-> "build", inst |-> seen[p], fqdn |-> f,
                       queue |-> q, at |-> 1, reads |-> <<>>]
      <4>2. WellOrdered(seen[p], q) /\ seen[p] \in TrinoClusterSpec
        BY <3>2, SpecsAreSpecs, RegistrationOrder
      <4>3. f \in Groups \cup {NoGroup}
        <5>1. DOMAIN seen[p].coordinators \in SUBSET Groups
          BY <4>2, RoleGroupNames DEF Roles, RoleSpec
        <5> QED
          BY <5>1 DEF getCoordinatorSvcFqdn
      <4>4. q \in Seq(Objects) /\ 1 \in 1..Len(q) /\ <<>> \in Seq(Providers)
        BY <4>2 DEF WellOrdered
      <4>5. x \in Passes /\ Registered(x)
        BY <3>2, <4>3, <4>4 DEF Passes, Registered
      <4> QED
        BY <4>1, <4>5 DEF TypeOK
    <3> QED
      BY <1>2, <3>1, <3>2 DEF Reconcile
  <2> QED
    BY <1>2, <2>1, <2>2 DEF Reconcile, TypeOK
<1>3. ASSUME NEW p \in Operators, NewAuthentication(p) PROVE TypeOK'
  <2>1. CallsTyped'
    <3>1. CASE Abort(p)
      BY <3>1, AbortType
    <3>2. ASSUME NEW x \in Providers, queued' = queued,
                 pass' = [pass EXCEPT ![p].reads = Append(@, x)]
          PROVE  CallsTyped'
      <4>1. pass[p] \in Passes /\ pass[p].reads \in Seq(Providers)
        BY DEF TypeOK, Passes
      <4>2. pass'[p] = [pass[p] EXCEPT !.reads = Append(pass[p].reads, x)]
        BY <3>2 DEF TypeOK
      <4>3. Append(pass[p].reads, x) \in Seq(Providers)
        BY <4>1
      <4>4. /\ pass'[p] \in Passes /\ pass'[p].phase = pass[p].phase
            /\ pass'[p].inst = pass[p].inst /\ pass'[p].queue = pass[p].queue
            /\ pass'[p].fqdn = pass[p].fqdn /\ pass'[p].at = pass[p].at
        BY <4>1, <4>2, <4>3 DEF Passes
      <4>5. \A q \in Operators : q # p => pass'[q] = pass[q]
        BY <3>2 DEF TypeOK
      <4>6. pass' \in [Operators -> Passes]
        BY <3>2, <4>4, <4>5 DEF TypeOK
      <4>7. \A q \in Operators : Registered(pass'[q])
        BY <4>4, <4>5 DEF TypeOK, Registered
      <4> QED
        BY <3>2, <4>6, <4>7 DEF TypeOK, CallsTyped
    <3>3. pass[p].phase = "build" /\ ReadsLeft(p)
      BY <1>3 DEF NewAuthentication
    <3>4. \A k \in Classes : classes[k] \in Providers
      BY DEF TypeOK
    <3>5. LET n == Len(pass[p].inst.auth)  k == Len(pass[p].reads)
          IN  pass[p].inst.auth[(k % n) + 1].class \in Classes
      BY <3>3, NextClass
    <3> QED
      BY <1>3, <3>1, <3>2, <3>4, <3>5 DEF NewAuthentication
  <2> QED
    BY <1>3, <2>1 DEF NewAuthentication, TypeOK, CallsTyped
<1>4. ASSUME NEW p \in Operators, ReconcileObject(p) PROVE TypeOK'
  <2>1. pass[p].phase # "idle"
    BY <1>4 DEF ReconcileObject
  <2>2. CASE Abort(p) /\ UNCHANGED <<store, stale, removals>>
    BY <1>4, <2>2, AbortType DEF ReconcileObject, TypeOK, CallsTyped
  <2>3. ASSUME NEW c \in Built(p), GenericReconcile(p, c) PROVE TypeOK'
    <3>1. c \in Content
      BY <2>1, BuiltType
    <3>2. /\ store' \in [Objects -> Content \cup {Absent}]
          /\ InformersTyped'
          /\ CallsTyped'
      BY <2>1, <2>3, <3>1, GenericType
    <3> QED
      BY <1>4, <3>2 DEF ReconcileObject, TypeOK, CallsTyped, InformersTyped
  <2> QED
    BY <1>4, <2>2, <2>3 DEF ReconcileObject
<1>5. ASSUME NEW p \in Operators, SecretGet(p) PROVE TypeOK'
  <2>1. CASE Advance(p)
    <3>1. CallsTyped'
      BY <1>5, <2>1, AdvanceType DEF SecretGet
    <3> QED
      BY <1>5, <3>1 DEF SecretGet, TypeOK, CallsTyped
  <2>2. CASE pass' = [pass EXCEPT ![p].phase = "missing"] /\ UNCHANGED queued
    <3>1. pass[p] \in Passes /\ pass[p].phase = "build" /\ Registered(pass[p])
      BY <1>5 DEF TypeOK, SecretGet
    <3>2. pass'[p] = [pass[p] EXCEPT !.phase = "missing"]
      BY <2>2 DEF TypeOK
    <3>3. /\ pass'[p] \in Passes /\ pass'[p].fqdn = pass[p].fqdn /\ pass'[p].at = pass[p].at
          /\ pass'[p].inst = pass[p].inst /\ pass'[p].queue = pass[p].queue
      BY <3>1, <3>2 DEF Passes
    <3>4. \A q \in Operators : q # p => pass'[q] = pass[q]
      BY <2>2 DEF TypeOK
    <3>5. pass' \in [Operators -> Passes]
      BY <2>2, <3>3, <3>4 DEF TypeOK
    <3>6. \A q \in Operators : Registered(pass'[q])
      BY <3>1, <3>3, <3>4 DEF TypeOK, Registered
    <3> QED
      BY <1>5, <2>2, <3>5, <3>6 DEF SecretGet, TypeOK
  <2> QED
    BY <1>5, <2>1, <2>2 DEF SecretGet
<1>6. ASSUME NEW p \in Operators, SecretReconcile(p) PROVE TypeOK'
  <2>1. pass[p].phase # "idle"
    BY <1>6 DEF SecretReconcile
  <2>2. PICK c \in Built(p) : GenericReconcile(p, c)
    BY <1>6 DEF SecretReconcile
  <2>3. c \in Content
    BY <2>1, BuiltType
  <2>4. /\ store' \in [Objects -> Content \cup {Absent}]
        /\ InformersTyped'
        /\ CallsTyped'
    BY <2>1, <2>2, <2>3, GenericType
  <2> QED
    BY <1>6, <2>4 DEF SecretReconcile, TypeOK, CallsTyped, InformersTyped
<1>7. ASSUME NEW p \in Operators, Start(p) PROVE TypeOK'
  BY <1>7 DEF Start, TypeOK, Registered
<1>8. ASSUME NEW p \in Operators, ClusterEvent(p) PROVE TypeOK'
  BY <1>8 DEF ClusterEvent, TypeOK, Registered
<1>9. ASSUME NEW p \in Operators, NEW kinds \in InformerKinds, ChildEvents(p, kinds)
      PROVE  TypeOK'
  <2>1. cache' \in [Operators -> [Objects -> Content \cup {Absent}]]
    BY <1>9 DEF ChildEvents, TypeOK
  <2>2. InformersTyped'
    BY <1>9 DEF ChildEvents, TypeOK, InformersTyped
  <2> QED
    BY <1>9, <2>1, <2>2 DEF ChildEvents, TypeOK, Registered, InformersTyped
<1>10. ASSUME NEW p \in Operators, Resync(p) PROVE TypeOK'
  BY <1>10 DEF Resync, TypeOK, Registered
<1>11. ASSUME NEW p \in Operators, ApiError(p) PROVE TypeOK'
  <2>1. CallsTyped'
    BY <1>11, AbortType DEF ApiError
  <2>2. disturbed' \in [Disturbances -> Nat]
    BY <1>11, DisturbType DEF ApiError, Disturbances
  <2> QED
    BY <1>11, <2>1, <2>2 DEF ApiError, TypeOK, CallsTyped
<1>12. ASSUME NEW p \in Operators, Crash(p) PROVE TypeOK'
  <2>1. pass' \in [Operators -> Passes] /\ \A q \in Operators : Registered(pass'[q])
    BY <1>12, IdleType DEF Crash, TypeOK
  <2>2. cache' \in [Operators -> [Objects -> Content \cup {Absent}]]
    BY <1>12 DEF Crash, TypeOK
  <2>3. disturbed' \in [Disturbances -> Nat]
    BY <1>12, DisturbType DEF Crash, Disturbances
  <2>4. /\ seen' \in [Operators -> Specs \cup {NoCluster}]
        /\ queued' \in [Operators -> BOOLEAN]
        /\ active' \in SUBSET Operators
    BY <1>12 DEF Crash, TypeOK
  <2>5. InformersTyped'
    BY <1>12 DEF Crash, TypeOK, InformersTyped
  <2> QED
    BY <1>12, <2>1, <2>2, <2>3, <2>4, <2>5 DEF Crash, TypeOK, InformersTyped
<1>13. ASSUME NEW s \in Specs, EditCluster(s) PROVE TypeOK'
  <2>1. disturbed' \in [Disturbances -> Nat]
    BY <1>13, DisturbType DEF EditCluster, Disturbances
  <2> QED
    BY <1>13, <2>1 DEF EditCluster, TypeOK, Registered
<1>14. CASE Uninstall
  <2>1. disturbed' \in [Disturbances -> Nat]
    BY <1>14, DisturbType DEF Uninstall, Disturbances
  <2> QED
    BY <1>14, <2>1 DEF Uninstall, TypeOK, Registered
<1>15. ASSUME NEW c \in Classes, NEW st \in ClassStates, EditClass(c, st) PROVE TypeOK'
  <2>1. disturbed' \in [Disturbances -> Nat]
    BY <1>15, DisturbType DEF EditClass, Disturbances
  <2> QED
    BY <1>15, <2>1, ClassStatesAreProviders DEF EditClass, TypeOK, Registered
<1>16. ASSUME NEW o \in Objects, DeleteChild(o) PROVE TypeOK'
  <2>1. /\ store' \in [Objects -> Content \cup {Absent}]
        /\ InformersTyped'
    BY <1>16, PutType DEF DeleteChild
  <2>2. disturbed' \in [Disturbances -> Nat]
    BY <1>16, DisturbType DEF DeleteChild, Disturbances
  <2> QED
    BY <1>16, <2>1, <2>2 DEF DeleteChild, TypeOK, Registered, InformersTyped
<1>17. ASSUME NEW o \in Objects, CollectGarbage(o) PROVE TypeOK'
  <2>1. /\ store' \in [Objects -> Content \cup {Absent}]
        /\ InformersTyped'
    BY <1>17, PutType DEF CollectGarbage
  <2> QED
    BY <1>17, <2>1 DEF CollectGarbage, TypeOK, Registered, InformersTyped
<1>18. ASSUME NEW a \in AggregatorStates, EditAggregator(a) PROVE TypeOK'
  <2>1. disturbed' \in [Disturbances -> Nat]
    BY <1>18, DisturbType DEF EditAggregator, Disturbances
  <2> QED
    BY <1>18, <2>1, AggregatorStatesAreBooleans DEF EditAggregator, TypeOK, Registered
<1>19. ASSUME NEW p \in Operators, NEW o \in Objects, DeletionEvent(p, o) PROVE TypeOK'
  <2>1. cache' \in [Operators -> [Objects -> Content \cup {Absent}]]
    BY <1>19 DEF DeletionEvent, TypeOK
  <2>2. InformersTyped'
    BY <1>19 DEF DeletionEvent, TypeOK, InformersTyped
  <2> QED
    BY <1>19, <2>1, <2>2 DEF DeletionEvent, TypeOK, Registered, InformersTyped
<1> QED
  BY <1>1, <1>2, <1>3, <1>4, <1>5, <1>6, <1>7, <1>8, <1>9, <1>10, <1>11, <1>12, <1>13,
     <1>14, <1>15, <1>16, <1>17, <1>18, <1>19 DEF Next, Step

\* Initially every variable has its type.
LEMMA TypeInit == Init => TypeOK
<1> SUFFICES ASSUME Init PROVE TypeOK
  OBVIOUS
<1>1. pass \in [Operators -> Passes] /\ \A p \in Operators : Registered(pass[p])
  BY IdleType DEF Init
<1> QED
  BY <1>1, ClassStatesAreProviders, AggregatorStatesAreBooleans DEF Init, TypeOK

\* Every reachable state is well typed, whatever the constants are.
THEOREM TypeCorrect == Spec => []TypeOK
BY TypeInit, TypeStep, PTL DEF Spec
=============================================================================
