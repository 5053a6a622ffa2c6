-------------------------- MODULE TrinoPodsProofs ---------------------------
(***************************************************************************)
(* What pods have read stays good, and the pods of an established cluster  *)
(* stay up, for any set of pods and any number of restarts.                *)
(***************************************************************************)
EXTENDS TrinoPods, TrinoConvergenceProofs

Contents == Content \cup {Absent}

PodType ==
    pods \in [PodIds -> [phase : {"none", "created", "starting", "running"},
                         template : {Template(c) : c \in Content} \cup {Absent},
                         volume : Contents, secret : Contents, config : Contents]]

\* The operators do not notice the pods.
LEMMA StepAlone == [PodNext]_podVars => [Next]_vars
BY DEF PodNext, podVars, PodStep, CreatePod, DeletePod, MountConfig, StartContainer, CopyConfig,
       ProbeFails, ContainerEnds

\* What is proved of the operators holds of them in the composition.
THEOREM OperatorsAlone == PodSpec => Spec
<1>1. PodInit => Init
  BY DEF PodInit
<1> QED
  BY <1>1, StepAlone, PTL DEF PodSpec, Spec

\* An object once provided stays provided.
LEMMA ProvidedStays ==
    ASSUME OrderInv, [Next]_vars, NEW x \in Objects, Provided(x)
    PROVE  Provided(x)'
<1>1. DOMAIN store = Objects
  BY DEF OrderInv, TypeOK
<1>2. CASE Promise!Leave
  BY <1>2 DEF Promise!Leave, Provided
<1>3. ASSUME NEW o \in Objects, Promise!Write(o) PROVE Provided(x)'
  <2>1. store'[o] # Absent /\ deleted' = deleted /\ store' = [store EXCEPT ![o] = store'[o]]
    BY <1>3 DEF Promise!Write
  <2>2. x # o => store'[x] = store[x]
    BY <1>1, <2>1
  <2> QED
    BY <2>1, <2>2 DEF Provided
<1>4. ASSUME NEW o \in Objects, Promise!Remove(o) PROVE Provided(x)'
  <2>1. store' = [store EXCEPT ![o] = Absent] /\ o \in deleted' /\ deleted \subseteq deleted'
    BY <1>4 DEF Promise!Remove
  <2>2. x # o => store'[x] = store[x]
    BY <1>1, <2>1
  <2> QED
    BY <2>1, <2>2 DEF Provided
<1> QED
  BY <1>2, <1>3, <1>4, StepKept

\* A pod's objects are objects.
LEMMA PodObjects ==
    ASSUME NEW x \in PodIds
    PROVE  /\ PodConfigMap(x) \in Objects /\ PodStatefulSet(x) \in Objects
           /\ x.group \in Groups
           /\ x.role = "worker" => PodConfigMap(x) = Obj("configmap", "worker", x.group)
<1>1. x.role \in Roles /\ x.group \in Groups
  BY PodIdsArePods
<1> QED
  BY <1>1 DEF PodConfigMap, PodStatefulSet, Objects, GroupObjects, Obj

\* A container that ends loses what it has read and keeps its pod.
LEMMA RestartReads ==
    ASSUME PodType, NEW x \in PodIds, Restart(x)
    PROVE  /\ PodType'
           /\ \A y \in PodIds : /\ pods'[y].volume = pods[y].volume
                                /\ pods'[y].config \in {pods[y].config, Absent}
                                /\ pods'[y].secret \in {pods[y].secret, Absent}
<1>1. pods'[x] = [pods[x] EXCEPT !.phase = "created", !.secret = Absent, !.config = Absent]
  BY DEF PodType, Restart
<1>2. \A y \in PodIds : y # x => pods'[y] = pods[y]
  BY DEF PodType, Restart
<1>3. PodType'
  <2>1. Absent \in Contents
    BY DEF Contents
  <2>2. pods[x] \in [phase : {"none", "created", "starting", "running"},
                     template : {Template(c) : c \in Content} \cup {Absent},
                     volume : Contents, secret : Contents, config : Contents]
    BY DEF PodType
  <2> QED
    BY <1>1, <1>2, <2>1, <2>2 DEF PodType, Restart
<1> QED
  BY <1>1, <1>2, <1>3 DEF PodType

\* What the steps of a pod make it read.
LEMMA PodReads ==
    ASSUME TypeOK, PodType, NEW x \in PodIds, PodStep(x) \/ ContainerEnds(x)
    PROVE  /\ PodType'
           /\ UNCHANGED vars
           /\ \A y \in PodIds :
                 /\ pods'[y].volume \in {pods[y].volume, store[PodConfigMap(y)], Absent}
                 /\ pods'[y].config \in {pods[y].config, pods[y].volume, Absent}
                 /\ pods'[y].secret \in {pods[y].secret, store[SharedSecret], Absent}
<1> DEFINE Reads == \A y \in PodIds :
                 /\ pods'[y].volume \in {pods[y].volume, store[PodConfigMap(y)], Absent}
                 /\ pods'[y].config \in {pods[y].config, pods[y].volume, Absent}
                 /\ pods'[y].secret \in {pods[y].secret, store[SharedSecret], Absent}
           P == [phase : {"none", "created", "starting", "running"},
                 template : {Template(c) : c \in Content} \cup {Absent},
                 volume : Contents, secret : Contents, config : Contents]
<1>1. pods \in [PodIds -> P] /\ pods[x] \in P /\ Absent \in Contents
  BY DEF PodType, Contents
<1>2. \A o \in Objects : store[o] \in Contents
  BY DEF TypeOK, Contents
<1>3. SharedSecret \in Objects /\ PodConfigMap(x) \in Objects /\ PodStatefulSet(x) \in Objects
  BY PodObjects DEF Objects
<1>4. ASSUME NEW d \in P, pods' = [pods EXCEPT ![x] = d],
             d.volume \in {pods[x].volume, store[PodConfigMap(x)], Absent},
             d.config \in {pods[x].config, pods[x].volume, Absent},
             d.secret \in {pods[x].secret, store[SharedSecret], Absent}
      PROVE  PodType' /\ Reads
  BY <1>1, <1>4 DEF PodType
<1>5. NoPod \in P
  BY <1>1 DEF NoPod
<1>6. CASE CreatePod(x)
  <2> DEFINE d == [NoPod EXCEPT !.phase = "created", !.template = Template(store[PodStatefulSet(x)])]
  <2>1. store[PodStatefulSet(x)] \in Content
    BY <1>2, <1>3, <1>6 DEF CreatePod, Contents
  <2>2. d \in P /\ d.volume = Absent /\ d.config = Absent /\ d.secret = Absent
    BY <1>1, <2>1 DEF NoPod
  <2>3. pods' = [pods EXCEPT ![x] = d]
    BY <1>6 DEF CreatePod
  <2> HIDE DEF d
  <2> QED
    BY <1>4, <1>6, <2>2, <2>3 DEF CreatePod
<1>7. CASE DeletePod(x)
  <2>1. pods' = [pods EXCEPT ![x] = NoPod]
    BY <1>7 DEF DeletePod
  <2>2. NoPod.volume = Absent /\ NoPod.config = Absent /\ NoPod.secret = Absent
    BY DEF NoPod
  <2> QED
    BY <1>4, <1>5, <1>7, <2>1, <2>2 DEF DeletePod
<1>8. CASE MountConfig(x)
  <2> DEFINE d == [pods[x] EXCEPT !.volume = store[PodConfigMap(x)]]
  <2>1. /\ d \in P /\ d.volume = store[PodConfigMap(x)] /\ d.config = pods[x].config
        /\ d.secret = pods[x].secret
    BY <1>1, <1>2, <1>3
  <2>2. pods' = [pods EXCEPT ![x] = d]
    BY <1>1, <1>8 DEF MountConfig
  <2> HIDE DEF d
  <2> QED
    BY <1>4, <1>8, <2>1, <2>2 DEF MountConfig
<1>9. CASE StartContainer(x)
  <2> DEFINE v == IF pods[x].template.envFromSecret THEN store[SharedSecret] ELSE Absent
             d == [pods[x] EXCEPT !.phase = "starting", !.secret = v]
  <2>1. v \in {store[SharedSecret], Absent} /\ v \in Contents
    BY <1>1, <1>2, <1>3
  <2>2. pods' = [pods EXCEPT ![x] = d]
    BY <1>1, <1>9 DEF StartContainer
  <2> HIDE DEF v
  <2>3. d \in P /\ d.volume = pods[x].volume /\ d.config = pods[x].config /\ d.secret = v
    BY <1>1, <2>1
  <2> HIDE DEF d
  <2> QED
    BY <1>4, <1>9, <2>1, <2>2, <2>3 DEF StartContainer
<1>10. CASE CopyConfig(x)
  <2> DEFINE d == [pods[x] EXCEPT !.phase = "running", !.config = pods[x].volume]
  <2>1. /\ d \in P /\ d.volume = pods[x].volume /\ d.config = pods[x].volume
        /\ d.secret = pods[x].secret
    BY <1>1
  <2>2. pods' = [pods EXCEPT ![x] = d]
    BY <1>1, <1>10 DEF CopyConfig
  <2> HIDE DEF d
  <2> QED
    BY <1>4, <1>10, <2>1, <2>2 DEF CopyConfig
<1>11. CASE Restart(x) /\ UNCHANGED vars
  <2>1. PodType' /\ Reads
    BY <1>11, RestartReads
  <2> QED
    BY <1>11, <2>1
<1> QED
  BY <1>6, <1>7, <1>8, <1>9, <1>10, <1>11 DEF PodStep, ProbeFails, ContainerEnds

\* The invariant: what pods have read is typed and resolves.
LEMMA PodInvStep ==
    ASSUME OrderInv, PodType, PodDiscoveryResolves, [PodNext]_podVars
    PROVE  PodType' /\ PodDiscoveryResolves'
<1>1. TypeOK /\ WorkerDiscoveryResolves
  BY DEF OrderInv
<1>2. \A g \in Groups : Obj("service", "coordinator", g) \in Objects
  BY DEF Objects, GroupObjects, Obj, Roles
<1>3. CASE [Next]_vars /\ UNCHANGED <<pods, restarts>>
  <2>1. \A x \in Objects : Provided(x) => Provided(x)'
    BY <1>3, ProvidedStays
  <2> QED
    BY <1>2, <1>3, <2>1 DEF PodType, PodDiscoveryResolves
<1>4. ASSUME NEW x \in PodIds, PodStep(x) \/ ContainerEnds(x)
      PROVE  PodType' /\ PodDiscoveryResolves'
  <2>1. /\ PodType' /\ UNCHANGED vars
        /\ \A y \in PodIds :
              /\ pods'[y].volume \in {pods[y].volume, store[PodConfigMap(y)], Absent}
              /\ pods'[y].config \in {pods[y].config, pods[y].volume, Absent}
    BY <1>1, <1>4, PodReads
  <2>2. store' = store /\ deleted' = deleted
    BY <2>1 DEF vars
  <2>3. PodDiscoveryResolves'
    <3> SUFFICES ASSUME NEW y \in PodIds, y.role = "worker",
                        NEW c \in {pods'[y].volume, pods'[y].config},
                        c # Absent, c.uriHost \in Groups
                 PROVE  Provided(Obj("service", "coordinator", c.uriHost))
      BY <2>2 DEF PodDiscoveryResolves, Provided
    <3>1. c \in {pods[y].volume, pods[y].config, store[PodConfigMap(y)]}
      BY <2>1
    <3>2. PodConfigMap(y) = Obj("configmap", "worker", y.group) /\ y.group \in Groups
      BY PodObjects
    <3> QED
      BY <1>1, <3>1, <3>2 DEF PodDiscoveryResolves, WorkerDiscoveryResolves
  <2> QED
    BY <2>1, <2>3
<1> QED
  BY <1>3, <1>4 DEF PodNext, podVars

\* A worker pod never runs with the name of a coordinator Service that was not
\* created, whatever the operators do after it has read its configuration.
THEOREM PodDiscovery == PodSpec => []PodDiscoveryResolves
<1> DEFINE Inv == PodType /\ PodDiscoveryResolves
<1>1. PodInit => Inv
  <2> SUFFICES ASSUME PodInit PROVE Inv
    OBVIOUS
  <2>1. PodType
    BY DEF PodInit, PodType, NoPod, Contents
  <2>2. \A x \in PodIds : pods[x].volume = Absent /\ pods[x].config = Absent
    BY DEF PodInit, NoPod
  <2> QED
    BY <2>1, <2>2 DEF PodDiscoveryResolves
<1>2. OrderInv /\ Inv /\ [PodNext]_podVars => Inv'
  BY PodInvStep
<1>3. Inv => PodDiscoveryResolves
  OBVIOUS
<1> QED
  BY <1>1, <1>2, <1>3, OperatorsAlone, OrderInvariant, PTL DEF PodSpec

PodTyped == PodType /\ restarts \in Nat

\* Pods keep their type.
THEOREM PodTypeCorrect == PodSpec => []PodTyped
<1>1. PodInit => PodTyped
  BY DEF PodInit, PodType, PodTyped, NoPod, Contents
<1>2. OrderInv /\ PodTyped /\ [PodNext]_podVars => PodTyped'
  <2> SUFFICES ASSUME OrderInv, PodType, restarts \in Nat, [PodNext]_podVars PROVE PodTyped'
    BY DEF PodTyped
  <2>1. CASE UNCHANGED <<pods, restarts>>
    BY <2>1 DEF PodType, PodTyped
  <2>2. ASSUME NEW x \in PodIds, PodStep(x) \/ ContainerEnds(x) PROVE PodTyped'
    <3>1. PodType'
      BY <2>2, PodReads DEF OrderInv
    <3>2. restarts' \in Nat
      BY <2>2 DEF PodStep, CreatePod, DeletePod, MountConfig, StartContainer, CopyConfig,
                  ProbeFails, ContainerEnds
    <3> QED
      BY <3>1, <3>2 DEF PodTyped
  <2> QED
    BY <2>1, <2>2 DEF PodNext, podVars
<1> QED
  BY <1>1, <1>2, OperatorsAlone, OrderInvariant, PTL DEF PodSpec

\* Pods that agree on a settled secret go on to agree until it is deleted.
THEOREM PodAgreement == PodSpec => AgreementKept
<1>1. OrderInv /\ PodTyped /\ [PodNext]_podVars =>
        [SecretSettled /\ PodsAgree =>
            \/ store'[SharedSecret] = Absent
            \/ SecretSettled' /\ PodsAgree']_podVars
  <2> SUFFICES ASSUME OrderInv, PodTyped, [PodNext]_podVars, SecretSettled, PodsAgree
               PROVE  \/ store'[SharedSecret] = Absent
                      \/ SecretSettled' /\ PodsAgree'
    OBVIOUS
  <2>1. CASE [Next]_vars /\ pods' = pods
    <3>1. \/ store'[SharedSecret] = Absent
          \/ store'[SharedSecret] = store[SharedSecret] /\ SecretSettled'
      BY <2>1, SettledStep DEF OrderInv
    <3> QED
      BY <2>1, <3>1 DEF PodsAgree
  <2>2. ASSUME NEW x \in PodIds, PodStep(x) \/ ContainerEnds(x)
        PROVE  SecretSettled' /\ PodsAgree'
    <3>1. /\ UNCHANGED vars
          /\ \A y \in PodIds : pods'[y].secret \in {pods[y].secret, store[SharedSecret], Absent}
      BY <2>2, PodReads DEF OrderInv, PodTyped
    <3>2. store' = store
      BY <3>1 DEF vars
    <3>3. SecretSettled'
      BY <3>1 DEF vars, SecretSettled
    <3> QED
      BY <3>1, <3>2, <3>3 DEF PodsAgree
  <2> QED
    BY <2>1, <2>2 DEF PodNext, podVars
<1> QED
  BY <1>1, OperatorsAlone, OrderInvariant, PodTypeCorrect, PTL DEF PodSpec, AgreementKept

-----------------------------------------------------------------------------
(* Pods of an established cluster.                                           *)

\* The template keeps everything the StatefulSet builder decides but the replicas.
LEMMA TemplateKeeps ==
    ASSUME NEW r \in Roles, NEW g \in Groups, NEW a \in Wanted(Obj("statefulset", r, g))
    PROVE  LET t == Template(a)
           IN  /\ t.ports = a.ports /\ t.probePort = a.probePort /\ t.probeScheme = a.probeScheme
               /\ t.env = a.env /\ t.exports = a.exports
               /\ t.envFromSecret = a.envFromSecret /\ t.vector = a.vector
<1>1. Obj("statefulset", r, g).kind = "statefulset"
  BY DEF Obj
<1>2. PICK f, T : a \in BuildStatefulSet(spec, Obj("statefulset", r, g), T)
  BY <1>1 DEF Wanted, Build
<1> QED
  BY <1>2 DEF BuildStatefulSet, Template

\* Of an established cluster, the ConfigMap of a role group fits the template of its
\* StatefulSet, and the secret the template asks for is there.
LEMMA ObjectsFit ==
    ASSUME TypeOK, Established, NEW x \in PodIds, OfSpec(x)
    PROVE  LET cm == store[PodConfigMap(x)]
               sts == store[PodStatefulSet(x)]
               t == Template(sts)
               scheme == IF spec.tls THEN "https" ELSE "http"
           IN  /\ cm # Absent /\ sts # Absent
               /\ sts.replicas = IF spec.stopped THEN 0
                                 ELSE RoleSpec(spec, x.role)[x.group].replicas
               /\ cm.server = scheme /\ t.probePort = scheme /\ t.probeScheme = scheme
               /\ scheme \in t.ports
               /\ cm.envRefs \subseteq t.env \cup t.exports
               /\ cm.sharedSecret => sts.envFromSecret
               /\ t.envFromSecret = sts.envFromSecret
               /\ sts.envFromSecret => store[SharedSecret] # Absent
               /\ t.vector = spec.vector
<1> DEFINE r == x.role
           g == x.group
           cm == store[PodConfigMap(x)]
           sts == store[PodStatefulSet(x)]
           t == Template(sts)
           scheme == IF spec.tls THEN "https" ELSE "http"
           P == AuthenticatorFectory(ProvidersNow)
           Q == IF r = "coordinator" THEN P ELSE {}
<1>1. r \in Roles /\ g \in Groups /\ g \in DOMAIN RoleSpec(spec, r)
  BY PodIdsArePods DEF OfSpec
<1>2. spec \in Specs /\ \A o \in Children(spec) : store[o] \in Wanted(o)
  BY DEF TypeOK, Established, OfSpec
<1>3. Obj("configmap", r, g) \in Children(spec) /\ Obj("statefulset", r, g) \in Children(spec)
  BY <1>1 DEF Obj, GroupObjects, Objects, Children
<1>4. cm \in Wanted(Obj("configmap", r, g)) /\ sts \in Wanted(Obj("statefulset", r, g))
  BY <1>2, <1>3 DEF PodConfigMap, PodStatefulSet
<1>5. cm # Absent /\ sts # Absent
  BY <1>2, <1>3, <1>4, WantedContent
<1>6. spec.tls => store[SharedSecret] # Absent
  <2>1. SharedSecret \notin GroupObjects /\ SharedSecret \in Objects
    BY DEF SharedSecret, Obj, GroupObjects, Objects
  <2>2. spec.tls => SharedSecret \in Children(spec)
    BY <2>1 DEF Children, enabledTls
  <2> QED
    BY <1>2, <2>2, WantedSecret
<1> HIDE DEF r, g, cm, sts
<1>7. cm.server = scheme /\ cm.envRefs = GetConfigProperties(Q) /\ cm.sharedSecret = spec.tls
  BY <1>1, <1>4, WantedConfigMap
<1>8. /\ sts.replicas = IF spec.stopped THEN 0 ELSE RoleSpec(spec, r)[g].replicas
      /\ sts.ports = {scheme} /\ sts.probePort = scheme /\ sts.probeScheme = scheme
      /\ sts.exports = GetCommands(P) /\ sts.env = GetEnvVars(P)
      /\ sts.envFromSecret = spec.tls /\ sts.vector = spec.vector
  BY <1>1, <1>4, WantedStatefulSet
<1>9. /\ t.ports = sts.ports /\ t.probePort = sts.probePort /\ t.probeScheme = sts.probeScheme
      /\ t.env = sts.env /\ t.exports = sts.exports
      /\ t.envFromSecret = sts.envFromSecret /\ t.vector = sts.vector
  BY <1>1, <1>4, TemplateKeeps
<1>10. cm.envRefs \subseteq t.env \cup t.exports
  BY <1>7, <1>8, <1>9 DEF GetConfigProperties, GetEnvVars, GetCommands
<1>11. scheme \in t.ports
  BY <1>8, <1>9
<1> HIDE DEF P, Q, t, scheme
<1> QED
  BY <1>5, <1>6, <1>7, <1>8, <1>9, <1>10, <1>11 DEF r, g, cm, sts, t, scheme

\* What a step of pod x does to x.
LEMMA PodEffect ==
    ASSUME PodTyped, NEW x \in PodIds, PodStep(x) \/ ContainerEnds(x)
    PROVE  LET y == pods[x]
               z == pods'[x]
               cm == store[PodConfigMap(x)]
               sts == store[PodStatefulSet(x)]
           IN  /\ \A v \in PodIds : v # x => pods'[v] = pods[v]
               /\ \/ /\ y.phase = "none" /\ sts # Absent /\ x.ordinal < sts.replicas
                     /\ z.phase = "created" /\ z.template = Template(sts) /\ z.volume = Absent
                  \/ /\ y.phase # "none" /\ z.phase = "none"
                     /\ sts # Absent /\ x.ordinal < sts.replicas =>
                           Ready(x) /\ y.template # Template(sts)
                  \/ /\ y.phase # "none" /\ cm \notin {Absent, y.volume}
                     /\ z = [y EXCEPT !.volume = cm]
                     /\ z.phase = y.phase /\ z.template = y.template /\ z.volume = cm
                     /\ z.config = y.config /\ z.secret = y.secret
                  \/ /\ y.phase = "created" /\ y.volume # Absent
                     /\ z.phase = "starting" /\ z.template = y.template /\ z.volume = y.volume
                     /\ y.template.envFromSecret => z.secret # Absent
                  \/ /\ y.phase = "starting"
                     /\ z.phase = "running" /\ z.template = y.template /\ z.volume = y.volume
                     /\ z.config = y.volume /\ z.secret = y.secret
                  \/ /\ y.phase = "running" /\ ~Works(x)
                     /\ z.phase = "created" /\ z.template = y.template /\ z.volume = y.volume
                  \/ /\ y.phase \in {"starting", "running"} /\ restarts' # restarts
                     /\ z.phase = "created" /\ z.template = y.template /\ z.volume = y.volume
<1> DEFINE y == pods[x]
           z == pods'[x]
<1>1. /\ DOMAIN pods = PodIds
      /\ y \in [phase : {"none", "created", "starting", "running"},
                template : {Template(c) : c \in Content} \cup {Absent},
                volume : Contents, secret : Contents, config : Contents]
  BY DEF PodTyped, PodType
<1>2. \A v \in PodIds : v # x => pods'[v] = pods[v]
  BY <1>1 DEF PodStep, CreatePod, DeletePod, MountConfig, StartContainer, CopyConfig, ProbeFails,
              ContainerEnds, Restart
<1>3. CASE CreatePod(x)
  BY <1>1, <1>2, <1>3 DEF CreatePod, NoPod
<1>4. CASE DeletePod(x)
  <2>1. x \in Siblings(x)
    BY DEF Siblings
  <2> QED
    BY <1>1, <1>2, <1>4, <2>1 DEF DeletePod, NoPod
<1>5. CASE MountConfig(x)
  <2>1. z = [y EXCEPT !.volume = store[PodConfigMap(x)]]
    BY <1>1, <1>5 DEF MountConfig
  <2> QED
    BY <1>1, <1>2, <1>5, <2>1 DEF MountConfig
<1>6. CASE StartContainer(x)
  <2>1. z = [y EXCEPT !.phase = "starting",
                      !.secret = IF y.template.envFromSecret THEN store[SharedSecret] ELSE Absent]
    BY <1>1, <1>6 DEF StartContainer
  <2>2. z.phase = "starting" /\ z.template = y.template /\ z.volume = y.volume
    BY <1>1, <2>1
  <2>3. y.template.envFromSecret => z.secret # Absent
    BY <1>1, <1>6, <2>1 DEF StartContainer
  <2> QED
    BY <1>2, <1>6, <2>2, <2>3 DEF StartContainer
<1>7. CASE CopyConfig(x)
  <2>1. z = [y EXCEPT !.phase = "running", !.config = y.volume]
    BY <1>1, <1>7 DEF CopyConfig
  <2> QED
    BY <1>1, <1>2, <1>7, <2>1 DEF CopyConfig
<1>8. ASSUME Restart(x)
      PROVE  z.phase = "created" /\ z.template = y.template /\ z.volume = y.volume
  <2>1. z = [y EXCEPT !.phase = "created", !.secret = Absent, !.config = Absent]
    BY <1>1, <1>8 DEF Restart
  <2> QED
    BY <1>1, <2>1
<1>9. CASE ProbeFails(x)
  BY <1>2, <1>8, <1>9 DEF ProbeFails
<1>10. CASE ContainerEnds(x)
  <2>1. restarts' # restarts
    BY <1>10 DEF ContainerEnds, PodTyped
  <2> QED
    BY <1>2, <1>8, <1>10, <2>1 DEF ContainerEnds
<1> QED
  BY <1>3, <1>4, <1>5, <1>6, <1>7, <1>9, <1>10 DEF PodStep

\* A step of a settled pod leaves it settled, and a running one alone.
LEMMA SettledPodStep ==
    ASSUME TypeOK, PodTyped, Established, UNCHANGED vars, NEW x \in PodIds, OfSpec(x),
           PodSettled(x), PodStep(x) \/ ContainerEnds(x)
    PROVE  /\ PodSettled(x)'
           /\ pods[x].phase = "running" /\ restarts' = restarts => pods'[x] = pods[x]
<1> DEFINE y == pods[x]
           z == pods'[x]
           cm == store[PodConfigMap(x)]
           sts == store[PodStatefulSet(x)]
           t == Template(sts)
<1>1. /\ cm # Absent /\ sts # Absent
      /\ cm.server = t.probePort /\ cm.server = t.probeScheme /\ t.probePort \in t.ports
      /\ cm.envRefs \subseteq t.env \cup t.exports
      /\ cm.sharedSecret => sts.envFromSecret
      /\ t.envFromSecret = sts.envFromSecret
  BY ObjectsFit
<1>2. store' = store
  BY DEF vars
<1>3. y.phase # "none" =>
         /\ x.ordinal < sts.replicas /\ y.template = t
         /\ y.volume \in {Absent, cm}
         /\ y.phase # "created" => y.volume = cm
         /\ y.phase = "starting" /\ sts.envFromSecret => y.secret # Absent
         /\ y.phase = "running" => Works(x)
  BY DEF PodSettled
<1>4. ASSUME z.phase = "created", z.volume \in {Absent, cm}, z.template = t,
             x.ordinal < sts.replicas
      PROVE  PodSettled(x)'
  BY <1>2, <1>4 DEF PodSettled
<1>5. CASE y.phase = "none" /\ z.phase = "created" /\ z.template = t /\ z.volume = Absent
           /\ x.ordinal < sts.replicas
  BY <1>4, <1>5
<1>6. CASE y.phase = "created" /\ z.phase = "created" /\ z.template = y.template /\ z.volume = cm
  BY <1>3, <1>4, <1>6
<1>7. CASE y.phase = "created" /\ y.volume # Absent /\ z.phase = "starting"
           /\ z.template = y.template /\ z.volume = y.volume
           /\ (y.template.envFromSecret => z.secret # Absent)
  BY <1>1, <1>2, <1>3, <1>7 DEF PodSettled
<1>8. CASE y.phase = "starting" /\ z.phase = "running" /\ z.template = y.template
           /\ z.volume = y.volume /\ z.config = y.volume /\ z.secret = y.secret
  <2>1. z.config = cm /\ z.template = t /\ z.volume = cm
    BY <1>3, <1>8
  <2>2. Works(x)'
    BY <1>1, <1>3, <1>8, <2>1 DEF Works, Fits
  <2> QED
    BY <1>2, <1>3, <1>8, <2>1, <2>2 DEF PodSettled
<1>9. CASE y.phase \in {"starting", "running"} /\ restarts' # restarts
           /\ z.phase = "created" /\ z.template = y.template /\ z.volume = y.volume
  BY <1>3, <1>4, <1>9
<1> QED
  BY <1>1, <1>3, <1>5, <1>6, <1>7, <1>8, <1>9, PodEffect

\* Operators, StatefulSet controller and kubelet leave settled pods settled.
LEMMA PodsSettledStep ==
    ASSUME OrderInv, PodTyped, PodsSettled, Undisturbed, [PodNext]_podVars
    PROVE  /\ PodsSettled'
           /\ \A x \in PodIds :
                 OfSpec(x) /\ pods[x].phase = "running" /\ restarts' = restarts =>
                     pods'[x] = pods[x]
<1>1. Established' /\ store' = store /\ spec' = spec /\ TypeOK
  BY StepAlone, EstablishedStep DEF PodsSettled, Undisturbed, OrderInv
<1>2. \A x \in PodIds : OfSpec(x)' <=> OfSpec(x)
  BY <1>1 DEF OfSpec
<1>3. ASSUME NEW x \in PodIds, pods'[x] = pods[x], OfSpec(x) PROVE PodSettled(x)'
  BY <1>1, <1>3 DEF PodsSettled, PodSettled, Works, Fits
<1>4. CASE pods' = pods
  BY <1>1, <1>2, <1>3, <1>4 DEF PodsSettled
<1>5. ASSUME NEW x \in PodIds, PodStep(x) \/ ContainerEnds(x)
      PROVE  /\ PodsSettled'
             /\ \A v \in PodIds :
                   OfSpec(v) /\ pods[v].phase = "running" /\ restarts' = restarts =>
                       pods'[v] = pods[v]
  <2>1. \A v \in PodIds : v # x => pods'[v] = pods[v]
    BY <1>5, PodEffect
  <2>2. UNCHANGED vars
    BY <1>1, <1>5, PodReads DEF PodTyped
  <2>3. OfSpec(x) => /\ PodSettled(x)'
                     /\ pods[x].phase = "running" /\ restarts' = restarts => pods'[x] = pods[x]
    BY <1>1, <1>5, <2>2, SettledPodStep DEF PodsSettled
  <2> QED
    BY <1>1, <1>2, <1>3, <2>1, <2>3 DEF PodsSettled
<1> QED
  BY <1>4, <1>5 DEF PodNext, podVars

\* Running pods of an established cluster are left alone, for any set of pods and any
\* number of operators, restarts and containers that end.
THEOREM PodsLeftAlone == PodSpec => RunningPodsKept
<1>1. OrderInv /\ PodTyped /\ [PodNext]_podVars =>
        [PodsSettled /\ Undisturbed =>
            /\ PodsSettled'
            /\ \A x \in PodIds :
                  OfSpec(x) /\ pods[x].phase = "running" /\ restarts' = restarts =>
                      pods'[x] = pods[x]]_podVars
  BY PodsSettledStep
<1> QED
  BY <1>1, OperatorsAlone, OrderInvariant, PodTypeCorrect, PTL DEF PodSpec, RunningPodsKept

\* A stuck pod stays stuck for as long as its ConfigMap and its StatefulSet stay.
LEMMA StuckStep ==
    ASSUME PodTyped, store' = store, NEW x \in PodIds, Stuck(x), [PodNext]_podVars
    PROVE  Stuck(x)'
<1> DEFINE y == pods[x]
           z == pods'[x]
           cm == store[PodConfigMap(x)]
           sts == store[PodStatefulSet(x)]
<1>1. /\ y.phase # "none" /\ ~Ready(x)
      /\ sts # Absent /\ x.ordinal < sts.replicas /\ y.template # Template(sts)
      /\ y.volume \in {Absent, cm} /\ (y.phase # "created" => y.volume = cm)
      /\ ~Fits(y.template, cm)
  BY DEF Stuck
<1>2. ASSUME z.phase # "none", ~Ready(x)', z.template = y.template,
             z.volume \in {Absent, cm}, z.phase # "created" => z.volume = cm
      PROVE  Stuck(x)'
  BY <1>1, <1>2 DEF Stuck
<1>3. CASE z = y
  <2>1. ~Ready(x)'
    BY <1>1, <1>3 DEF Ready, Works
  <2> QED
    BY <1>1, <1>2, <1>3, <2>1
<1>4. CASE /\ z.phase = y.phase /\ z.template = y.template /\ z.volume = cm
           /\ z.config = y.config /\ z.secret = y.secret
  <2>1. ~Ready(x)'
    BY <1>1, <1>4 DEF Ready, Works
  <2> QED
    BY <1>1, <1>2, <1>4, <2>1
<1>5. CASE z.phase = "created" /\ z.template = y.template /\ z.volume = y.volume
  <2>1. ~Ready(x)'
    BY <1>5 DEF Ready
  <2> QED
    BY <1>1, <1>2, <1>5, <2>1
<1>6. CASE /\ y.volume # Absent
           /\ z.phase = "starting" /\ z.template = y.template /\ z.volume = y.volume
  <2>1. ~Ready(x)'
    BY <1>6 DEF Ready
  <2> QED
    BY <1>1, <1>2, <1>6, <2>1
<1>7. CASE /\ y.phase = "starting" /\ z.phase = "running" /\ z.template = y.template
           /\ z.volume = y.volume /\ z.config = y.volume
  <2>1. z.config = cm
    BY <1>1, <1>7
  <2>2. ~Ready(x)'
    BY <1>1, <1>7, <2>1 DEF Ready, Works
  <2> QED
    BY <1>1, <1>2, <1>7, <2>2
<1>8. ASSUME PodStep(x) \/ ContainerEnds(x) PROVE Stuck(x)'
  <2> HIDE DEF y, z, cm, sts
  <2> QED
    BY <1>1, <1>4, <1>5, <1>6, <1>7, <1>8, PodEffect DEF y, z, cm, sts
<1>9. ASSUME NEW v \in PodIds, v # x, PodStep(v) \/ ContainerEnds(v) PROVE Stuck(x)'
  BY <1>3, <1>9, PodEffect
<1>10. CASE pods' = pods
  BY <1>3, <1>10
<1> QED
  BY <1>8, <1>9, <1>10 DEF PodNext, podVars

\* Pods that are up stay up while nobody interferes and no container ends by itself.
LEMMA PodsUpStep ==
    ASSUME OrderInv, PodTyped, PodsUp, Undisturbed, restarts' = restarts, [PodNext]_podVars
    PROVE  PodsUp'
<1>1. Established' /\ store' = store /\ spec' = spec /\ TypeOK
  BY StepAlone, EstablishedStep DEF PodsUp, Undisturbed, OrderInv
<1>2. \A x \in PodIds : OfSpec(x)' <=> OfSpec(x)
  BY <1>1 DEF OfSpec
<1>3. ASSUME NEW x \in PodIds, spec = NoCluster PROVE pods'[x].phase = "none"
  <2>1. pods[x].phase = "none" /\ store[PodStatefulSet(x)] = Absent
    BY <1>3, PodObjects DEF PodsUp, Established, OfSpec
  <2>2. ASSUME NEW v \in PodIds, PodStep(v) \/ ContainerEnds(v) PROVE pods'[x].phase = "none"
    <3>1. CASE v = x
      BY <2>1, <2>2, <3>1, PodEffect
    <3>2. CASE v # x
      BY <2>1, <2>2, <3>2, PodEffect
    <3> QED
      BY <3>1, <3>2
  <2>3. CASE pods' = pods
    BY <2>1, <2>3
  <2> QED
    BY <2>2, <2>3 DEF PodNext, podVars
<1>4. ASSUME NEW x \in PodIds, Held(x) PROVE Held(x)'
  <2>1. PICK v \in Siblings(x) : Stuck(v)
    BY <1>4 DEF Held
  <2>2. v \in PodIds
    BY DEF Siblings
  <2>3. Stuck(v)'
    BY <1>1, <2>1, <2>2, StuckStep
  <2> QED
    BY <2>3 DEF Held
<1>5. ASSUME NEW x \in PodIds, OfSpec(x), PodSettled(x)
      PROVE  PodSettled(x)' /\ (pods[x].phase = "running" => pods'[x].phase = "running")
  <2>1. CASE pods'[x] = pods[x]
    BY <1>1, <1>5, <2>1 DEF PodSettled, Works, Fits
  <2>2. ASSUME NEW v \in PodIds, PodStep(v) \/ ContainerEnds(v), pods'[x] # pods[x]
        PROVE  PodSettled(x)' /\ (pods[x].phase = "running" => pods'[x].phase = "running")
    <3>1. v = x
      BY <2>2, PodEffect
    <3>2. UNCHANGED vars
      BY <1>1, <2>2, PodReads DEF PodTyped
    <3> QED
      BY <1>1, <1>5, <2>2, <3>1, <3>2, SettledPodStep DEF PodsUp
  <2> QED
    BY <2>1, <2>2 DEF PodNext, podVars
<1>6. ASSUME NEW x \in PodIds, OfSpec(x)
      PROVE  \/ Held(x)'
             \/ /\ PodSettled(x)'
                /\ x.ordinal < store'[PodStatefulSet(x)].replicas => pods'[x].phase = "running"
  BY <1>1, <1>4, <1>5, <1>6 DEF PodsUp
<1> QED
  BY <1>1, <1>2, <1>3, <1>6 DEF PodsUp

\* Pods that are up, and none of them stuck, are what the spec asks for.
LEMMA UpAsSpecified ==
    ASSUME TypeOK, PodsUp, NEW x \in PodIds, spec # NoCluster
    PROVE  PodAsSpecified(x) \/ Held(x)
<1> DEFINE r == x.role
           sts == store[PodStatefulSet(x)]
           n == RoleSpec(spec, r)[x.group].replicas
<1> SUFFICES ASSUME OfSpec(x), ~Held(x) PROVE PodAsSpecified(x)
  BY DEF OfSpec, PodAsSpecified
<1>1. /\ Established /\ PodSettled(x)
      /\ x.ordinal < sts.replicas => pods[x].phase = "running"
  BY DEF PodsUp
<1>2. /\ sts.replicas = IF spec.stopped THEN 0 ELSE n
      /\ Template(sts).probePort = IF spec.tls THEN "https" ELSE "http"
      /\ Template(sts).vector = spec.vector
  BY <1>1, ObjectsFit
<1>3. x.ordinal \in Nat
  BY PodIdsArePods, MaxReplicasIsNat
<1>4. ASSUME ~spec.stopped, x.ordinal < n
      PROVE  /\ pods[x].phase = "running" /\ Works(x)
             /\ pods[x].config.server = IF spec.tls THEN "https" ELSE "http"
             /\ pods[x].template.vector = spec.vector
  <2>1. pods[x].phase = "running"
    BY <1>1, <1>2, <1>4
  <2>2. Works(x) /\ pods[x].template = Template(sts)
    BY <1>1, <2>1 DEF PodSettled
  <2>3. pods[x].config.server = pods[x].template.probePort
    BY <2>2 DEF Works, Fits
  <2> QED
    BY <1>2, <2>1, <2>2, <2>3
<1>5. ASSUME ~(~spec.stopped /\ x.ordinal < n) PROVE pods[x].phase = "none"
  <2>1. ~(x.ordinal < sts.replicas)
    BY <1>2, <1>3, <1>5
  <2> QED
    BY <1>1, <2>1 DEF PodSettled
<1> HIDE DEF sts
<1> QED
  BY <1>4, <1>5 DEF PodAsSpecified, OfSpec

\* For pods, too, convergence comes down to recurrence: once nobody interferes and no
\* container ends by itself, it is enough that the pods come up again and again,
\* but for those a stuck pod holds up, which is what TLC checks; that they then stay
\* up, as specified, and that a stuck pod stays stuck, is proved.
THEOREM PodConvergenceByRecurrence ==
    PodSpec /\ <>[][Undisturbed /\ restarts' = restarts]_podVars /\ []<>(Attainable => PodsUp)
        => PodsSettle /\ PodsConverge
<1> DEFINE Calm == Undisturbed /\ restarts' = restarts
           Up == Attainable => PodsUp
           Goal == IF spec = NoCluster THEN \A x \in PodIds : pods[x].phase = "none"
                   ELSE ~spec.paused /\ Establishable(spec) =>
                           \A x \in PodIds : PodAsSpecified(x) \/ Held(x)
<1>1. OrderInv /\ PodTyped /\ [PodNext]_podVars /\ [Calm]_podVars /\ Up => Up'
  <2> SUFFICES ASSUME OrderInv, PodTyped, [PodNext]_podVars, [Calm]_podVars, Up, Attainable'
               PROVE  PodsUp'
    OBVIOUS
  <2>1. Undisturbed /\ restarts' = restarts
    BY DEF Undisturbed, podVars, vars
  <2>2. Attainable
    BY <2>1 DEF Undisturbed, Attainable, Establishable
  <2> QED
    BY <2>1, <2>2, PodsUpStep
<1>2. OrderInv /\ Up => Goal
  <2> SUFFICES ASSUME OrderInv, Up PROVE Goal
    OBVIOUS
  <2>1. CASE spec = NoCluster
    BY <2>1 DEF Attainable, PodsUp, OfSpec
  <2>2. CASE spec # NoCluster
    BY <2>2, UpAsSpecified DEF Attainable, OrderInv
  <2> QED
    BY <2>1, <2>2
<1> QED
  BY <1>1, <1>2, OperatorsAlone, OrderInvariant, PodTypeCorrect, PTL
     DEF PodSpec, PodsSettle, PodsConverge
=============================================================================
