----------------------- MODULE TrinoConvergenceProofs -----------------------
(***************************************************************************)
(* The part of convergence that is safety, for every value of the          *)
(* constants: what the operators have established is what the TrinoCluster *)
(* asks for, and lasts.  That they get there is liveness.                  *)
(***************************************************************************)
EXTENDS TrinoSafetyProofs

-----------------------------------------------------------------------------
(* What a builder finds when nothing changes under it.                       *)

\* Call number c of NewAuthentication makes the reads (c - 1) * n + 1 to c * n, one
\* for each of the n entries, in their order.
LEMMA CallReads ==
    ASSUME NEW n \in Nat \ {0}, NEW c \in 1..4
    PROVE  /\ \A i \in 1..n :
                 /\ (c - 1) * n + i \in ((c - 1) * n + 1)..(c * n)
                 /\ ((((c - 1) * n + i) - 1) % n) + 1 = i
           /\ \A k \in ((c - 1) * n + 1)..(c * n) : k - (c - 1) * n \in 1..n
<1>1. c * n = (c - 1) * n + n /\ (c - 1) * n \in Nat
  OBVIOUS
<1>2. \A i \in 1..n : ((((c - 1) * n + i) - 1) % n) + 1 = i
  <2> SUFFICES ASSUME NEW i \in 1..n PROVE ((((c - 1) * n + i) - 1) % n) + 1 = i
    OBVIOUS
  <2>1. \A q \in Nat, r \in 0..(n - 1) : (n * q + r) % n = r
    OBVIOUS
  <2>2. ((c - 1) * n + i) - 1 = n * (c - 1) + (i - 1) /\ c - 1 \in Nat /\ i - 1 \in 0..(n - 1)
    OBVIOUS
  <2> QED
    BY <2>1, <2>2
<1> QED
  BY <1>1, <1>2

\* The providers of the classes that the spec lists, as they are now.
ProvidersNow == {classes[spec.auth[i].class] : i \in DOMAIN spec.auth}

\* A builder that has made all its reads, of classes that have not changed, has
\* found these providers in each of its calls.
LEMMA ReadsNow ==
    ASSUME TypeOK, NEW p \in Operators, pass[p].phase # "idle", InStep(p), ~ReadsLeft(p),
           NEW c \in 1..4
    PROVE  c <= AuthenticationCalls(Current(p)) => ReadBy(p, c) = ProvidersNow
<1> DEFINE n == Len(spec.auth)
           R == pass[p].reads
           calls == AuthenticationCalls(Current(p))
           due(k) == classes[spec.auth[((k - 1) % n) + 1].class]
<1>1. /\ pass[p].inst = spec /\ n \in Nat /\ DOMAIN spec.auth = 1..n
      /\ R \in Seq(Providers)
      /\ \A k \in DOMAIN R : R[k] = due(k)
      /\ ~(Len(R) < calls * n)
  <2>1. pass[p].inst = spec /\ \A k \in DOMAIN R : R[k] = due(k)
    BY DEF InStep
  <2>2. spec.auth \in Seq(AuthenticationSpec)
    BY <2>1, CallShape DEF TrinoClusterSpec
  <2>3. R \in Seq(Providers)
    BY DEF TypeOK, Passes
  <2> QED
    BY <2>1, <2>2, <2>3 DEF ReadsLeft
<1>2. ReadBy(p, c) = {R[i] : i \in {j \in ((c - 1) * n + 1)..(c * n) : j <= Len(R)}}
  BY <1>1 DEF ReadBy
<1>3. calls \in {0, 1, 4}
  BY DEF AuthenticationCalls
<1> HIDE DEF n, R, calls
<1>4. ASSUME c <= calls, n # 0 PROVE ReadBy(p, c) = ProvidersNow
  <2> DEFINE K == ((c - 1) * n + 1)..(c * n)
  <2>1. \A k \in K : k \in 1..Len(R)
    <3>1. c * n <= calls * n
      BY <1>1, <1>3, <1>4
    <3>2. Len(R) \in Nat /\ c * n \in Nat /\ calls * n \in Nat /\ (c - 1) * n \in Nat
      BY <1>1, <1>3
    <3> QED
      BY <1>1, <3>1, <3>2
  <2>2. ReadBy(p, c) = {R[k] : k \in K}
    BY <1>2, <2>1
  <2>3. \A k \in K : R[k] = due(k)
    BY <1>1, <2>1
  <2>4. /\ \A i \in 1..n : (c - 1) * n + i \in K /\ ((((c - 1) * n + i) - 1) % n) + 1 = i
        /\ \A k \in K : k - (c - 1) * n \in 1..n
    BY <1>1, <1>4, CallReads
  <2>5. \A i \in 1..n : due((c - 1) * n + i) = classes[spec.auth[i].class]
    BY <2>4, Zenon
  <2>6. \A i \in 1..n : \E k \in K : R[k] = classes[spec.auth[i].class]
    BY <2>3, <2>4, <2>5
  <2>7. \A k \in K : \E i \in 1..n : R[k] = classes[spec.auth[i].class]
    <3> SUFFICES ASSUME NEW k \in K PROVE \E i \in 1..n : R[k] = classes[spec.auth[i].class]
      OBVIOUS
    <3>1. k - (c - 1) * n \in 1..n /\ k = (c - 1) * n + (k - (c - 1) * n)
      BY <1>1, <2>4
    <3> QED
      BY <2>3, <2>5, <3>1
  <2>8. ProvidersNow = {classes[spec.auth[i].class] : i \in 1..n}
    BY <1>1 DEF ProvidersNow
  <2> HIDE DEF K, due
  <2>9. ASSUME NEW v \in ReadBy(p, c) PROVE v \in ProvidersNow
    BY <2>2, <2>7, <2>8
  <2>10. ASSUME NEW v \in ProvidersNow PROVE v \in ReadBy(p, c)
    BY <2>2, <2>6, <2>8
  <2> QED
    BY <2>9, <2>10
<1>5. ASSUME c <= calls, n = 0 PROVE ReadBy(p, c) = ProvidersNow
  <2>1. (c - 1) * n = 0 /\ c * n = 0
    BY <1>5
  <2>2. ReadBy(p, c) = {}
    BY <1>1, <1>2, <2>1
  <2>3. ProvidersNow = {}
    BY <1>1, <1>5 DEF ProvidersNow
  <2> QED
    BY <2>2, <2>3
<1> QED
  BY <1>4, <1>5 DEF calls

\* A builder reads nothing for the calls it does not make.
LEMMA NoReads ==
    ASSUME TypeOK, NEW p \in Operators, pass[p].phase # "idle", InStep(p), NEW c \in 1..4,
           ~(c <= AuthenticationCalls(Current(p)))
    PROVE  ReadBy(p, c) = {}
<1> DEFINE calls == AuthenticationCalls(Current(p))
<1>1. pass[p].inst = spec /\ Len(pass[p].reads) <= calls * Len(spec.auth)
  BY DEF InStep
<1>2. spec.auth \in Seq(AuthenticationSpec)
  BY <1>1, CallShape DEF TrinoClusterSpec
<1>3. pass[p].reads \in Seq(Providers)
  BY DEF TypeOK, Passes
<1>4. Len(pass[p].reads) \in Nat /\ Len(spec.auth) \in Nat
  BY <1>2, <1>3
<1>5. calls \in {0, 1}
  BY DEF AuthenticationCalls
<1>6. ~(c <= calls)
  OBVIOUS
<1> HIDE DEF calls
<1>7. \A n, l \in Nat : l <= calls * n => \A j \in ((c - 1) * n + 1)..(c * n) : ~(j <= l)
  <2> SUFFICES ASSUME NEW n \in Nat, NEW l \in Nat, l <= calls * n,
                      NEW j \in ((c - 1) * n + 1)..(c * n)
               PROVE  ~(j <= l)
    OBVIOUS
  <2>1. calls * n <= (c - 1) * n /\ calls * n \in Nat /\ (c - 1) * n \in Nat /\ c * n \in Nat
    <3>1. CASE calls = 0
      BY <3>1
    <3>2. CASE calls = 1 /\ c = 2
      BY <3>2
    <3>3. CASE calls = 1 /\ c = 3
      BY <3>3
    <3>4. CASE calls = 1 /\ c = 4
      BY <3>4
    <3> QED
      BY <1>5, <1>6, <3>1, <3>2, <3>3, <3>4
  <2> QED
    BY <2>1
<1> QED
  BY <1>1, <1>4, <1>7 DEF ReadBy

\* What it then builds is what the spec and the classes ask for.
LEMMA BuiltIsWanted ==
    ASSUME TypeOK, NEW p \in Operators, pass[p].phase # "idle", InStep(p), ~ReadsLeft(p)
    PROVE  Built(p) \subseteq Wanted(Current(p))
<1> DEFINE o == Current(p)
           T == [c \in 1..4 |-> AuthenticatorFectory(ReadBy(p, c))]
           U == [c \in 1..4 |-> Authenticators(o, c)]
<1>1. \A c \in 1..4 : AuthenticatorFectory(ReadBy(p, c)) = Authenticators(o, c)
  <2> SUFFICES ASSUME NEW c \in 1..4
               PROVE  AuthenticatorFectory(ReadBy(p, c)) = Authenticators(o, c)
    OBVIOUS
  <2>1. CASE c <= AuthenticationCalls(o)
    <3>1. ReadBy(p, c) = ProvidersNow
      BY <2>1, ReadsNow
    <3> QED
      BY <2>1, <3>1 DEF Authenticators, ProvidersNow
  <2>2. CASE ~(c <= AuthenticationCalls(o))
    <3>1. ReadBy(p, c) = {}
      BY <2>2, NoReads
    <3> QED
      BY <2>2, <3>1 DEF Authenticators, AuthenticatorFectory
  <2> QED
    BY <2>1, <2>2
<1>2. T = U
  BY <1>1, Zenon
<1>3. pass[p].inst = spec /\ pass[p].fqdn \in getCoordinatorSvcFqdn(spec)
  BY CallShape DEF InStep
<1>4. Built(p) = Build(spec, o, pass[p].fqdn, U)
  BY <1>2, <1>3 DEF Built
<1> QED
  BY <1>3, <1>4 DEF Wanted

\* With at most one coordinator role group there is one discovery host.
LEMMA OneHost ==
    ASSUME spec \in Specs, ~Ambiguous, NEW f \in getCoordinatorSvcFqdn(spec),
           NEW g \in getCoordinatorSvcFqdn(spec)
    PROVE  f = g
<1> DEFINE D == DOMAIN spec.coordinators
<1>1. D \in SUBSET Groups
  BY SpecsAreSpecs, RoleGroupNames DEF Roles, RoleSpec
<1>2. IsFiniteSet(D) /\ Cardinality(D) \in Nat
  BY <1>1, GroupsAreFinite, FS_Subset, FS_CardinalityType
<1>3. ~(Cardinality(D) > 1)
  BY NoClusterIsNoSpec DEF Ambiguous
<1> HIDE DEF D
<1>4. Cardinality(D) \in {0, 1}
  BY <1>2, <1>3
<1>5. D = {} \/ \E x : D = {x}
  BY <1>2, <1>4, FS_EmptySet, FS_Singleton
<1> QED
  BY <1>5 DEF getCoordinatorSvcFqdn, D

\* Of every object but the secret, whose bytes are random, a spec that is not
\* ambiguous asks for one content.
LEMMA WantedUnique ==
    ASSUME spec \in Specs, ~Ambiguous, NEW o \in Objects, o # SharedSecret,
           NEW a \in Wanted(o), NEW b \in Wanted(o)
    PROVE  a = b
<1> DEFINE T == [c \in 1..4 |-> Authenticators(o, c)]
<1>1. PICK f \in getCoordinatorSvcFqdn(spec) : a \in Build(spec, o, f, T)
  BY DEF Wanted
<1>2. b \in Build(spec, o, f, T)
  BY OneHost DEF Wanted
<1>3. T[1] \subseteq ProvidersNow
  BY DEF Authenticators, ProvidersNow, AuthenticatorFectory
<1>4. ~({"oidc", "ldap"} \subseteq ProvidersNow)
  <2>1. ProvidersNow = {classes[c] : c \in ClassesOf(spec)}
    BY DEF ProvidersNow, ClassesOf
  <2> QED
    BY <2>1, NoClusterIsNoSpec DEF Ambiguous
<1>5. \A s, t \in AuthenticationTypeValues(T[1]) : s = t
  BY <1>3, <1>4 DEF AuthenticationTypeValues
<1>6. o.kind \in {"configmap", "service", "metrics", "statefulset", "roleservice"}
  BY DEF Objects, GroupObjects, RoleService, SharedSecret, Obj
<1> HIDE DEF T
<1>7. CASE o.kind = "configmap"
  BY <1>1, <1>2, <1>5, <1>7 DEF Build, BuildConfigMap
<1>8. CASE o.kind # "configmap"
  BY <1>1, <1>2, <1>6, <1>8 DEF Build, BuildStatefulSet, BuildMetricsService, BuildService
<1> QED
  BY <1>7, <1>8

\* The secret that is asked for is there.
LEMMA WantedSecret == \A a \in Wanted(SharedSecret) : a # Absent
<1>1. SharedSecret.kind = "secret"
  BY DEF SharedSecret, Obj
<1>2. \A a \in Wanted(SharedSecret) : a \in Secrets
  BY <1>1 DEF Wanted, Build, BuildSecret, Secrets
<1> QED
  BY <1>2, AbsentIsNoContent DEF Content

-----------------------------------------------------------------------------
(* What has been established lasts.                                          *)

\* A call that begins, or goes on to the next object, has read nothing yet.
LEMMA InStepFresh ==
    ASSUME TypeOK, spec \in Specs, spec' = spec, NEW q \in Operators,
           pass'[q].phase = "build", pass'[q].inst = spec, pass'[q].reads = <<>>
    PROVE  InStep(q)'
<1>1. spec.auth \in Seq(AuthenticationSpec)
  BY SpecsAreSpecs DEF TrinoClusterSpec
<1>2. Len(spec.auth) \in Nat
  BY <1>1
<1>3. \A n \in Nat : \A o : Len(<<>>) <= AuthenticationCalls(o) * n
  BY DEF AuthenticationCalls
<1>4. DOMAIN <<>> = {}
  OBVIOUS
<1> QED
  BY <1>2, <1>3, <1>4 DEF InStep, Current

\* One more class is read as it is.
LEMMA InStepRead ==
    ASSUME TypeOK, NEW p \in Operators, InStep(p), spec' = spec, classes' = classes,
           NewAuthentication(p), ~Abort(p)
    PROVE  InStep(p)'
<1> DEFINE x == pass[p]
           n == Len(spec.auth)
           k == Len(x.reads)
           found == classes[spec.auth[(k % n) + 1].class]
<1>1. x \in Passes /\ x.phase = "build" /\ x.inst = spec /\ ReadsLeft(p)
  BY DEF NewAuthentication, InStep, TypeOK
<1>2. pass' = [pass EXCEPT ![p].reads = Append(@, found)]
  BY <1>1 DEF NewAuthentication
<1>3. pass'[p] = [x EXCEPT !.reads = Append(x.reads, found)]
  BY <1>2 DEF TypeOK
<1>4. /\ pass'[p].phase = "build" /\ pass'[p].inst = spec
      /\ pass'[p].at = x.at /\ pass'[p].queue = x.queue
      /\ pass'[p].reads = Append(x.reads, found)
  BY <1>1, <1>3 DEF Passes
<1>5. x.reads \in Seq(Providers) /\ k \in Nat /\ DOMAIN x.reads = 1..k
  BY <1>1 DEF Passes
<1>6. /\ Len(Append(x.reads, found)) = k + 1
      /\ DOMAIN Append(x.reads, found) = 1..(k + 1)
      /\ Append(x.reads, found)[k + 1] = found
      /\ \A i \in 1..k : Append(x.reads, found)[i] = x.reads[i]
  <2>1. found \in Providers
    BY <1>1, NextClass DEF TypeOK
  <2>2. \A r \in Seq(Providers), e \in Providers :
           /\ Len(Append(r, e)) = Len(r) + 1
           /\ DOMAIN Append(r, e) = 1..(Len(r) + 1)
           /\ Append(r, e)[Len(r) + 1] = e
           /\ \A i \in 1..Len(r) : Append(r, e)[i] = r[i]
    OBVIOUS
  <2> QED
    BY <1>5, <2>1, <2>2, Zenon
<1>7. n \in Nat
  <2>1. spec.auth \in Seq(AuthenticationSpec)
    BY <1>1, CallShape DEF TrinoClusterSpec
  <2> QED
    BY <2>1
<1>8. k + 1 <= AuthenticationCalls(Current(p)) * n
  <2>1. k < AuthenticationCalls(Current(p)) * n
    BY <1>1 DEF ReadsLeft
  <2>2. AuthenticationCalls(Current(p)) \in {0, 1, 4}
    BY DEF AuthenticationCalls
  <2> QED
    BY <1>5, <1>7, <2>1, <2>2
<1>9. \A i \in 1..(k + 1) :
         Append(x.reads, found)[i] = classes[spec.auth[((i - 1) % n) + 1].class]
  <2>1. \A i \in 1..k : x.reads[i] = classes[spec.auth[((i - 1) % n) + 1].class]
    BY <1>1, <1>5 DEF InStep
  <2>2. (k + 1) - 1 = k
    BY <1>5
  <2>3. \A i \in 1..(k + 1) : i \in 1..k \/ i = k + 1
    BY <1>5
  <2> HIDE DEF k, n
  <2> QED
    BY <1>6, <2>1, <2>2, <2>3
<1>10. AuthenticationCalls(Current(p))' = AuthenticationCalls(Current(p))
  BY <1>4 DEF Current
<1> HIDE DEF x, n, k, found
<1> QED
  BY <1>4, <1>6, <1>8, <1>9, <1>10 DEF InStep, n

\* Advance and Abort keep a call in step.
LEMMA InStepNext ==
    ASSUME TypeOK, NEW p \in Operators, pass[p].phase # "idle", InStep(p),
           Abort(p) \/ Advance(p), UNCHANGED <<spec, classes>>,
           NEW q \in Operators, InStep(q)
    PROVE  InStep(q)'
<1>1. CASE q # p
  <2>1. pass'[q] = pass[q]
    BY <1>1 DEF Abort, Advance, TypeOK
  <2> QED
    BY <2>1 DEF InStep, Current
<1>2. CASE q = p /\ pass' = [pass EXCEPT ![p] = Idle]
  <2>1. pass'[q].phase = "idle"
    BY <1>2, IdleType DEF TypeOK
  <2> QED
    BY <2>1 DEF InStep
<1>3. CASE q = p /\ pass' = [pass EXCEPT ![p].at = @ + 1, ![p].phase = "build", ![p].reads = <<>>]
  <2>1. pass[p] \in Passes /\ pass[p].inst = spec /\ spec \in Specs
    BY DEF TypeOK, InStep, Registered
  <2>2. pass'[p].phase = "build" /\ pass'[p].inst = spec /\ pass'[p].reads = <<>>
    BY <1>3, <2>1 DEF TypeOK, Passes
  <2> QED
    BY <1>3, <2>1, <2>2, InStepFresh
<1> QED
  BY <1>1, <1>2, <1>3 DEF Abort, Advance

\* The current object of a call in step is one of the children.
LEMMA CurrentIsChild ==
    ASSUME TypeOK, NEW p \in Operators, pass[p].phase # "idle", InStep(p)
    PROVE  Current(p) \in Children(spec) /\ spec \in Specs
<1>1. pass[p].inst = spec /\ spec \in Specs
  BY DEF InStep, TypeOK, Registered
<1>2. /\ WellOrdered(spec, pass[p].queue) /\ pass[p].at \in 1..Len(pass[p].queue)
      /\ Current(p) \in Objects
      /\ Current(p) \in GroupObjects =>
            Current(p).group \in DOMAIN RoleSpec(spec, Current(p).role)
  BY <1>1, CallShape
<1>3. Current(p) = SharedSecret => enabledTls(spec)
  BY <1>2 DEF WellOrdered, Current, enabledTls
<1> QED
  BY <1>1, <1>2, <1>3 DEF Children

\* Once the children are what the builders make of the spec, no step but a
\* disturbance writes, and every operator stays in step.
LEMMA EstablishedStep ==
    ASSUME OrderInv, Established, Undisturbed, [Next]_vars
    PROVE  Established' /\ store' = store
<1> DEFINE Kept == Established' /\ store' = store
           Knows(q) == spec # NoCluster => \A o \in Children(spec) :
                                               cache[q][o] = store[o] /\ o \notin stale[q]
<1>1. TypeOK /\ CallsSound /\ spec' = spec /\ classes' = classes
  BY DEF OrderInv, Undisturbed
<1>2. \A q \in active : q \in Operators /\ seen[q] = spec /\ InStep(q) /\ Knows(q)
  BY <1>1 DEF Established, TypeOK
<1>3. \A q \in Operators : pass[q].phase # "idle" => q \in active
  BY <1>1 DEF CallsSound
<1>4. \A q \in Operators : InStep(q)
  BY <1>2, <1>3 DEF InStep
<1>5. \A o \in Objects : Wanted(o)' = Wanted(o)
  BY <1>1 DEF Wanted, Authenticators
<1>6. ASSUME store' = store,
             \A q \in active' : seen'[q] = spec /\ InStep(q)' /\ Knows(q)'
      PROVE  Kept
  <2>1. ~Ambiguous'
    BY <1>1 DEF Established, Ambiguous
  <2>2. \A q \in active' : seen'[q] = spec' /\ InStep(q)'
    BY <1>1, <1>6
  <2>3. CASE spec = NoCluster
    <3>1. \A o \in Objects : store'[o] = Absent
      BY <1>6, <2>3 DEF Established
    <3> QED
      BY <1>1, <1>6, <2>1, <2>2, <2>3, <3>1 DEF Established
  <2>4. CASE spec # NoCluster
    <3>1. \A o \in Children(spec) :
             /\ store'[o] \in Wanted(o)'
             /\ \A q \in active' : cache'[q][o] = store'[o] /\ o \notin stale'[q]
      <4>1. \A o \in Children(spec) : o \in Objects /\ store[o] \in Wanted(o)
        BY <2>4 DEF Established, Children
      <4>2. \A o \in Children(spec) : \A q \in active' :
               cache'[q][o] = store'[o] /\ o \notin stale'[q]
        BY <1>1, <1>6, <2>4
      <4> QED
        BY <1>5, <1>6, <4>1, <4>2
    <3> QED
      BY <1>1, <1>6, <2>1, <2>2, <2>4, <3>1 DEF Established
  <2> QED
    BY <2>3, <2>4
<1>7. ASSUME NEW q \in Operators, pass'[q] = pass[q] PROVE InStep(q)'
  BY <1>1, <1>4, <1>7 DEF InStep, Current
<1>8. ASSUME store' = store, seen' = seen, cache' = cache, stale' = stale, active' \subseteq active,
             \A q \in active' : InStep(q)'
      PROVE  Kept
  BY <1>1, <1>2, <1>6, <1>8
<1>9. ASSUME store' = store, seen' = seen, cache' = cache, stale' = stale, active' = active,
             NEW p \in Operators, pass[p].phase # "idle", Abort(p) \/ Advance(p)
      PROVE  Kept
  <2>1. \A q \in Operators : InStep(q)'
    BY <1>1, <1>4, <1>9, InStepNext
  <2> QED
    BY <1>2, <1>8, <1>9, <2>1
<1>10. CASE UNCHANGED vars
  BY <1>2, <1>7, <1>8, <1>10 DEF vars
<1>11. ASSUME NEW p \in Operators, Reconcile(p) PROVE Kept
  <2>1. p \in active /\ seen[p] = spec
    BY <1>2, <1>11 DEF Reconcile
  <2>2. InStep(p)'
    <3>1. CASE pass' = pass
      BY <1>7, <3>1
    <3>2. CASE seen[p] \in Specs /\ pass' # pass
      <4>1. pass'[p].phase = "build" /\ pass'[p].inst = spec /\ pass'[p].reads = <<>>
        BY <1>1, <1>11, <2>1, <3>2 DEF Reconcile, TypeOK
      <4> QED
        BY <1>1, <2>1, <3>2, <4>1, InStepFresh
    <3> QED
      BY <1>11, <3>1, <3>2 DEF Reconcile
  <2>3. \A q \in Operators : q # p => pass'[q] = pass[q]
    BY <1>1, <1>11 DEF Reconcile, TypeOK
  <2> QED
    BY <1>2, <1>7, <1>8, <1>11, <2>2, <2>3 DEF Reconcile
<1>12. ASSUME NEW p \in Operators, NewAuthentication(p) PROVE Kept
  <2>1. CASE Abort(p)
    BY <1>9, <1>12, <2>1 DEF NewAuthentication
  <2>2. CASE ~Abort(p)
    <3>1. InStep(p)'
      BY <1>1, <1>4, <1>12, <2>2, InStepRead
    <3>2. \A q \in Operators : q # p => pass'[q] = pass[q]
      BY <1>1, <1>12, <2>2 DEF NewAuthentication, TypeOK
    <3> QED
      BY <1>2, <1>7, <1>8, <1>12, <3>1, <3>2 DEF NewAuthentication
  <2> QED
    BY <2>1, <2>2
<1>13. ASSUME NEW p \in Operators, ReconcileObject(p) PROVE Kept
  <2>1. /\ pass[p].phase # "idle" /\ Current(p) # SharedSecret /\ ~ReadsLeft(p)
        /\ seen' = seen /\ cache' = cache /\ active' = active
    BY <1>13 DEF ReconcileObject
  <2>2. Current(p) \in Children(spec) /\ Current(p) \in Objects /\ spec \in Specs
    BY <1>1, <1>4, <2>1, CurrentIsChild DEF Children
  <2>3. cache[p][Current(p)] = store[Current(p)] /\ store[Current(p)] \in Wanted(Current(p))
    BY <1>2, <1>3, <2>1, <2>2, NoClusterIsNoSpec DEF Established
  <2>4. \A c \in Built(p) : c = cache[p][Current(p)]
    <3>1. \A c \in Built(p) : c \in Wanted(Current(p))
      BY <1>1, <1>4, <2>1, BuiltIsWanted
    <3> QED
      BY <2>1, <2>2, <2>3, <3>1, WantedUnique DEF Established
  <2>5. store' = store /\ stale' = stale /\ (Abort(p) \/ Advance(p))
    BY <1>13, <2>4 DEF ReconcileObject, GenericReconcile
  <2> QED
    BY <1>9, <2>1, <2>5
<1>14. ASSUME NEW p \in Operators, SecretGet(p) PROVE Kept
  <2>1. pass[p].phase # "idle" /\ Current(p) = SharedSecret
    BY <1>14 DEF SecretGet
  <2>2. SharedSecret \in Children(spec) /\ spec \in Specs
    BY <1>1, <1>4, <2>1, CurrentIsChild
  <2>3. cache[p][SharedSecret] # Absent
    BY <1>2, <1>3, <2>1, <2>2, NoClusterIsNoSpec, WantedSecret DEF Established
  <2> QED
    BY <1>9, <1>14, <2>1, <2>3 DEF SecretGet
<1>15. ASSUME NEW p \in Operators, SecretReconcile(p) PROVE FALSE
  BY <1>4, <1>15 DEF SecretReconcile, InStep
<1>16. ASSUME NEW p \in Operators, Start(p) PROVE Kept
  <2>1. /\ cache'[p] = store /\ seen'[p] = spec /\ stale'[p] = {}
        /\ \A q \in Operators : q # p => /\ cache'[q] = cache[q] /\ seen'[q] = seen[q]
                                         /\ stale'[q] = stale[q]
    BY <1>1, <1>16 DEF Start, TypeOK
  <2>2. store' = store /\ active' = active \cup {p} /\ pass' = pass
    BY <1>16 DEF Start
  <2>3. \A q \in active' : q \in Operators /\ (q # p => q \in active)
    BY <1>2, <2>2
  <2>4. \A q \in active' : Knows(q)'
    BY <1>1, <1>2, <2>1, <2>2, <2>3
  <2>5. \A q \in active' : seen'[q] = spec /\ InStep(q)'
    BY <1>2, <1>7, <2>1, <2>2, <2>3
  <2> QED
    BY <1>6, <2>2, <2>4, <2>5
<1>17. ASSUME NEW p \in Operators, ClusterEvent(p) PROVE FALSE
  BY <1>2, <1>17 DEF ClusterEvent
<1>18. ASSUME NEW p \in Operators, NEW kinds \in InformerKinds, ChildEvents(p, kinds) PROVE Kept
  <2>1. \A q \in Operators, o \in Objects : cache'[q][o] \in {cache[q][o], store[o]}
    BY <1>1, <1>18 DEF ChildEvents, TypeOK
  <2>2. store' = store /\ active' = active /\ pass' = pass /\ seen' = seen
    BY <1>18 DEF ChildEvents
  <2>3. \A q \in Operators : stale'[q] \subseteq stale[q]
    BY <1>1, <1>18 DEF ChildEvents, TypeOK
  <2>4. \A q \in active' : Knows(q)'
    BY <1>1, <1>2, <2>1, <2>2, <2>3 DEF Children
  <2> QED
    BY <1>2, <1>6, <1>7, <2>2, <2>4
<1>19. ASSUME NEW p \in Operators, Resync(p) PROVE Kept
  BY <1>2, <1>7, <1>8, <1>19 DEF Resync
<1>20. ASSUME NEW p \in Operators, ApiError(p) PROVE Kept
  BY <1>9, <1>20 DEF ApiError
<1>21. ASSUME NEW p \in Operators, Crash(p) PROVE Kept
  <2>1. \A q \in active' : q \in active /\ q # p
    BY <1>21 DEF Crash
  <2>2. \A q \in Operators : q # p => /\ seen'[q] = seen[q] /\ cache'[q] = cache[q]
                                      /\ stale'[q] = stale[q] /\ pass'[q] = pass[q]
    BY <1>1, <1>21 DEF Crash, TypeOK
  <2>3. store' = store
    BY <1>21 DEF Crash
  <2> QED
    BY <1>1, <1>2, <1>6, <1>7, <2>1, <2>2, <2>3
<1>22. ASSUME NEW s \in Specs, EditCluster(s) PROVE FALSE
  BY <1>1, <1>22 DEF EditCluster
<1>23. ASSUME Uninstall PROVE FALSE
  BY <1>1, <1>23 DEF Uninstall
<1>24. ASSUME NEW c \in Classes, NEW st \in ClassStates, EditClass(c, st) PROVE FALSE
  BY <1>1, <1>24 DEF EditClass, TypeOK
<1>25. ASSUME NEW a \in AggregatorStates, EditAggregator(a) PROVE FALSE
  BY <1>25 DEF EditAggregator, Undisturbed
<1>26. ASSUME NEW o \in Objects, DeleteChild(o) \/ CollectGarbage(o) PROVE FALSE
  BY <1>1, <1>26, PutType DEF DeleteChild, CollectGarbage, Undisturbed
<1>27. ASSUME NEW p \in Operators, NEW o \in Objects, DeletionEvent(p, o) PROVE Kept
  <2>1. /\ store' = store /\ active' = active /\ pass' = pass /\ seen' = seen /\ stale' = stale
        /\ p \in active /\ o \in stale[p]
    BY <1>1, <1>27 DEF DeletionEvent, TypeOK
  <2>2. \A q \in Operators, x \in Objects :
           cache'[q][x] = cache[q][x] \/ (q = p /\ x = o)
    BY <1>1, <1>27 DEF DeletionEvent, TypeOK
  <2>3. \A q \in active' : Knows(q)'
    BY <1>1, <1>2, <2>1, <2>2 DEF Children
  <2> QED
    BY <1>2, <1>6, <1>7, <2>1, <2>3
<1> QED
  BY <1>10, <1>11, <1>12, <1>13, <1>14, <1>15, <1>16, <1>17, <1>18, <1>19, <1>20, <1>21,
     <1>22, <1>23, <1>24, <1>25, <1>26, <1>27 DEF Next, Step

\* Closure: what the operators have established, they and their restarts leave
\* alone until somebody changes the spec or the classes or deletes a child.
THEOREM EstablishedLasts == Spec => EstablishedKept
<1>1. OrderInv /\ [Next]_vars =>
        [Established /\ Undisturbed => Established' /\ store' = store]_vars
  BY EstablishedStep
<1> QED
  BY <1>1, OrderInvariant, PTL DEF Spec, EstablishedKept

-----------------------------------------------------------------------------
(* What has been established is what the spec asks for.                      *)

\* What the spec asks of the three objects of a role group that refer to each
\* other.
LEMMA WantedConfigMap ==
    ASSUME NEW r \in Roles, NEW g \in Groups, NEW a \in Wanted(Obj("configmap", r, g))
    PROVE  LET P == IF r = "coordinator" THEN AuthenticatorFectory(ProvidersNow) ELSE {}
               scheme == IF spec.tls THEN "https" ELSE "http"
           IN  /\ a.coordinator = (r = "coordinator")
               /\ a.uriHost \in getCoordinatorSvcFqdn(spec)
               /\ a.server = scheme /\ a.uriScheme = scheme
               /\ a.envRefs = GetConfigProperties(P)
               /\ a.sharedSecret = spec.tls
               /\ a.vector = spec.vector
<1> DEFINE o == Obj("configmap", r, g)
           T == [c \in 1..4 |-> Authenticators(o, c)]
           P == IF r = "coordinator" THEN AuthenticatorFectory(ProvidersNow) ELSE {}
<1>1. PICK f \in getCoordinatorSvcFqdn(spec) : a \in Build(spec, o, f, T)
  BY DEF Wanted
<1>2. o.kind = "configmap" /\ o.role = r
  BY DEF Obj
<1>3. T[1] = P
  BY <1>2 DEF Authenticators, AuthenticationCalls, ProvidersNow
<1> HIDE DEF o, T, P
<1>4. PICK t \in AuthenticationTypeValues(P) :
         a = [coordinator |-> r = "coordinator",
              server |-> IF enabledTls(spec) THEN "https" ELSE "http",
              uriScheme |-> getDiscoveryUriScheme(spec), uriHost |-> f, authType |-> t,
              envRefs |-> GetConfigProperties(P), sharedSecret |-> enabledTls(spec),
              vector |-> spec.vector]
  BY <1>1, <1>2, <1>3 DEF Build, BuildConfigMap
<1>5. /\ a.coordinator = (r = "coordinator") /\ a.uriHost = f
      /\ a.envRefs = GetConfigProperties(P) /\ a.sharedSecret = enabledTls(spec)
      /\ a.vector = spec.vector /\ a.uriScheme = getDiscoveryUriScheme(spec)
      /\ a.server = IF enabledTls(spec) THEN "https" ELSE "http"
  BY <1>4
<1> QED
  BY <1>5 DEF P, enabledTls, getDiscoveryUriScheme

LEMMA WantedStatefulSet ==
    ASSUME NEW r \in Roles, NEW g \in Groups, NEW a \in Wanted(Obj("statefulset", r, g))
    PROVE  LET P == AuthenticatorFectory(ProvidersNow)
               scheme == IF spec.tls THEN "https" ELSE "http"
           IN  /\ a.replicas = IF spec.stopped THEN 0 ELSE RoleSpec(spec, r)[g].replicas
               /\ a.ports = {scheme} /\ a.probePort = scheme /\ a.probeScheme = scheme
               /\ a.exports = GetCommands(P) /\ a.env = GetEnvVars(P)
               /\ GetVolumeMounts(P) \subseteq a.mounts
               /\ a.envFromSecret = spec.tls
               /\ a.vector = spec.vector
<1> DEFINE o == Obj("statefulset", r, g)
           T == [c \in 1..4 |-> Authenticators(o, c)]
           P == AuthenticatorFectory(ProvidersNow)
<1>1. PICK f \in getCoordinatorSvcFqdn(spec) : a \in Build(spec, o, f, T)
  BY DEF Wanted
<1>2. o.kind = "statefulset" /\ o.role = r /\ o.group = g
  BY DEF Obj
<1>3. \A c \in 1..4 : T[c] = P
  BY <1>2 DEF Authenticators, AuthenticationCalls, ProvidersNow
<1>4. T[2] = P /\ T[3] = P /\ T[4] = P
  BY <1>3
<1> HIDE DEF o, T, P
<1>5. a \in BuildStatefulSet(spec, o, T)
  BY <1>1, <1>2 DEF Build
<1> DEFINE n == IF spec.stopped THEN 0 ELSE RoleSpec(spec, o.role)[o.group].replicas
           server == IF enabledTls(spec) THEN "https" ELSE "http"
           tls == IF enabledTls(spec) THEN TlsVolumes ELSE {}
           volumes == BaseVolumes \cup tls \cup GetVolumes(T[1])
           mounts == BaseVolumes \cup PvcVolumes \cup tls \cup GetVolumeMounts(T[3])
<1>6. a = [replicas |-> n, ports |-> {PortName(spec)}, probePort |-> server,
           probeScheme |-> server, volumes |-> volumes, exports |-> GetCommands(T[2]),
           mounts |-> mounts, env |-> GetEnvVars(T[4]), envFromSecret |-> enabledTls(spec),
           vector |-> spec.vector]
  BY <1>5, Zenon DEF BuildStatefulSet
<1>7. GetVolumeMounts(T[3]) \subseteq mounts
  OBVIOUS
<1> HIDE DEF n, server, volumes, mounts
<1>8. /\ a.replicas = n /\ a.ports = {PortName(spec)}
      /\ a.probePort = server /\ a.probeScheme = server
      /\ a.exports = GetCommands(T[2]) /\ a.mounts = mounts /\ a.env = GetEnvVars(T[4])
      /\ a.envFromSecret = enabledTls(spec) /\ a.vector = spec.vector
  BY <1>6
<1>9. n = IF spec.stopped THEN 0 ELSE RoleSpec(spec, r)[g].replicas
  BY <1>2 DEF n
<1>10. server = (IF spec.tls THEN "https" ELSE "http") /\ PortName(spec) = server
       /\ enabledTls(spec) = spec.tls
  BY DEF server, PortName, enabledTls
<1> QED
  BY <1>4, <1>7, <1>8, <1>9, <1>10 DEF P

LEMMA WantedService ==
    ASSUME NEW o \in Objects, o.kind \in {"service", "roleservice"}, NEW a \in Wanted(o)
    PROVE  a.targetPort = IF spec.tls THEN "https" ELSE "http"
BY DEF Wanted, Build, BuildService, PortName

\* What the builders make is content.
LEMMA WantedContent ==
    ASSUME TypeOK, spec \in Specs, NEW o \in Children(spec), NEW a \in Wanted(o)
    PROVE  a # Absent
<1> DEFINE T == [c \in 1..4 |-> Authenticators(o, c)]
<1>1. PICK f \in getCoordinatorSvcFqdn(spec) : a \in Build(spec, o, f, T)
  BY DEF Wanted
<1>2. T \in [1..4 -> SUBSET AuthenticationTypes]
  BY DEF Authenticators, AuthenticatorFectory
<1>3. spec \in TrinoClusterSpec /\ f \in Groups \cup {NoGroup}
  <2>1. spec \in TrinoClusterSpec
    BY SpecsAreSpecs
  <2>2. DOMAIN spec.coordinators \in SUBSET Groups
    BY <2>1, RoleGroupNames DEF Roles, RoleSpec
  <2> QED
    BY <2>1, <2>2 DEF getCoordinatorSvcFqdn
<1>4. o \in Objects /\ (o \in GroupObjects => o.group \in DOMAIN RoleSpec(spec, o.role))
  BY DEF Children
<1> HIDE DEF T
<1> QED
  BY <1>1, <1>2, <1>3, <1>4, BuildType, AbsentIsNoContent

\* An established cluster is as specified: contents made one by one, by builders
\* that each read the classes for themselves, fit together.
LEMMA EstablishedSpecified ==
    ASSUME TypeOK, Established
    PROVE  AsSpecified
<1>1. CASE spec = NoCluster
  BY <1>1 DEF Established, AsSpecified
<1>2. ASSUME spec # NoCluster, Establishable(spec) PROVE AsSpecified
  <2> DEFINE scheme == IF spec.tls THEN "https" ELSE "http"
             P == AuthenticatorFectory(ProvidersNow)
  <2>1. spec \in Specs /\ \A o \in Children(spec) : store[o] \in Wanted(o)
    BY <1>2 DEF TypeOK, Established
  <2>2. \A o \in Children(spec) : store[o] # Absent
    BY <2>1, WantedContent
  <2>3. \A h \in getCoordinatorSvcFqdn(spec) : h \in DOMAIN spec.coordinators
    <3>1. Cardinality(DOMAIN spec.coordinators) = 1
      BY <1>2 DEF Establishable
    <3>2. DOMAIN spec.coordinators # {}
      BY <3>1, FS_EmptySet
    <3> QED
      BY <3>2 DEF getCoordinatorSvcFqdn
  <2>4. spec.tls => store[SharedSecret] # Absent
    <3>1. SharedSecret \notin GroupObjects /\ SharedSecret \in Objects
      BY DEF SharedSecret, Obj, GroupObjects, Objects
    <3>2. spec.tls => SharedSecret \in Children(spec)
      BY <3>1 DEF Children, enabledTls
    <3> QED
      BY <2>2, <3>2
  <2>5. store[RoleService] # Absent /\ store[RoleService].targetPort = scheme
    <3>1. /\ RoleService \notin GroupObjects /\ RoleService \in Objects
          /\ RoleService # SharedSecret /\ RoleService.kind = "roleservice"
      BY DEF RoleService, SharedSecret, Obj, GroupObjects, Objects
    <3>2. RoleService \in Children(spec)
      BY <3>1 DEF Children
    <3> QED
      BY <2>1, <2>2, <3>1, <3>2, WantedService
  <2>6. ASSUME NEW r \in Roles, NEW g \in DOMAIN RoleSpec(spec, r)
        PROVE  GroupEstablished(spec, r, g)
    <3> DEFINE cm == store[Obj("configmap", r, g)]
               svc == store[Obj("service", r, g)]
               sts == store[Obj("statefulset", r, g)]
    <3>1. g \in Groups
      BY <2>1, SpecsAreSpecs, RoleGroupNames
    <3>2. \A k \in {"configmap", "service", "metrics", "statefulset"} :
             Obj(k, r, g) \in Children(spec)
      BY <2>6, <3>1 DEF Obj, GroupObjects, Objects, Children
    <3>3. \A k \in {"configmap", "service", "metrics", "statefulset"} :
             store[Obj(k, r, g)] # Absent /\ store[Obj(k, r, g)] \in Wanted(Obj(k, r, g))
      BY <2>1, <2>2, <3>2
    <3> DEFINE Q == IF r = "coordinator" THEN P ELSE {}
    <3>4. /\ cm.coordinator = (r = "coordinator")
          /\ cm.uriHost \in getCoordinatorSvcFqdn(spec)
          /\ cm.server = scheme /\ cm.uriScheme = scheme
          /\ cm.envRefs = GetConfigProperties(Q)
          /\ cm.sharedSecret = spec.tls
          /\ cm.vector = spec.vector
      <4>1. cm \in Wanted(Obj("configmap", r, g))
        BY <3>3
      <4> HIDE DEF cm
      <4> QED
        BY <3>1, <4>1, WantedConfigMap
    <3>5. /\ sts.replicas = IF spec.stopped THEN 0 ELSE RoleSpec(spec, r)[g].replicas
          /\ sts.ports = {scheme} /\ sts.probePort = scheme /\ sts.probeScheme = scheme
          /\ sts.exports = GetCommands(P) /\ sts.env = GetEnvVars(P)
          /\ GetVolumeMounts(P) \subseteq sts.mounts
          /\ sts.envFromSecret = spec.tls
          /\ sts.vector = spec.vector
      <4>1. sts \in Wanted(Obj("statefulset", r, g))
        BY <3>3
      <4> HIDE DEF sts
      <4> QED
        BY <3>1, <4>1, WantedStatefulSet
    <3>6. svc.targetPort = scheme
      <4>1. Obj("service", r, g) \in Objects /\ Obj("service", r, g).kind = "service"
        BY <3>1 DEF Obj, GroupObjects, Objects
      <4> QED
        BY <3>3, <4>1, WantedService
    <3>7. cm.envRefs \subseteq sts.env \cup sts.exports
      BY <3>4, <3>5 DEF GetConfigProperties, GetEnvVars, GetCommands
    <3>8. ASSUME r = "coordinator", NEW c \in ClassesOf(spec)
          PROVE  /\ classes[c] = "oidc" => OidcEnvVars \subseteq cm.envRefs
                 /\ classes[c] = "ldap" => /\ LdapEnvVars \subseteq cm.envRefs
                                           /\ "ldap-bind-credentials" \in sts.mounts
      <4>1. classes[c] \in ProvidersNow
        BY DEF ClassesOf, ProvidersNow
      <4>2. classes[c] \in {"oidc", "ldap"} => classes[c] \in P
        BY <4>1 DEF AuthenticatorFectory, AuthenticationTypes
      <4> HIDE DEF P
      <4> QED
        BY <3>4, <3>5, <3>8, <4>2 DEF GetConfigProperties, GetVolumeMounts
    <3>9. scheme \in sts.ports
      BY <3>5
    <3>10. (cm.sharedSecret => sts.envFromSecret) /\ (sts.envFromSecret => store[SharedSecret] # Absent)
      BY <2>4, <3>4, <3>5
    <3>11. cm.uriHost \in DOMAIN spec.coordinators
      BY <2>3, <3>4
    <3> HIDE DEF P, Q
    <3> QED
      BY <3>3, <3>4, <3>5, <3>6, <3>7, <3>8, <3>9, <3>10, <3>11 DEF GroupEstablished
  <2> QED
    BY <1>2, <2>5, <2>6 DEF AsSpecified
<1> QED
  BY <1>1, <1>2 DEF AsSpecified

\* In every reachable state that is established, the children are what the
\* TrinoCluster asks for.
THEOREM EstablishedIsSpecified == Spec => []EstablishedFits
<1>1. TypeOK => EstablishedFits
  BY EstablishedSpecified DEF EstablishedFits
<1> QED
  BY <1>1, TypeCorrect, PTL

\* Convergence comes down to recurrence: once nobody interferes any more, it is
\* enough that the operators get there again and again, which is what TLC checks;
\* that they then stay, and that the children are as specified, is proved.
THEOREM ConvergenceByRecurrence ==
    Spec /\ <>[][Undisturbed]_vars /\ []<>(Attainable => Established) => Settles /\ Converges
<1>1. OrderInv /\ [Next]_vars /\ [Undisturbed]_vars /\ (Attainable => Established)
         => (Attainable => Established)'
  <2> SUFFICES ASSUME OrderInv, [Next]_vars, [Undisturbed]_vars, Attainable => Established,
                      Attainable'
               PROVE  Established'
    OBVIOUS
  <2>1. Undisturbed
    BY DEF Undisturbed, vars
  <2>2. Attainable
    BY <2>1 DEF Undisturbed, Attainable, Establishable
  <2> QED
    BY <2>1, <2>2, EstablishedStep
<1>2. OrderInv /\ (Attainable => Established) => AsSpecified
  <2>1. ~Attainable => AsSpecified
    BY DEF Attainable, AsSpecified
  <2>2. OrderInv /\ Established => AsSpecified
    BY EstablishedSpecified DEF OrderInv
  <2> QED
    BY <2>1, <2>2
<1> QED
  BY <1>1, <1>2, OrderInvariant, PTL DEF Spec, Settles, Converges
=============================================================================
