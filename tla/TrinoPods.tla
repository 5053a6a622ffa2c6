----------------------------- MODULE TrinoPods ------------------------------
(***************************************************************************)
(* The pods that run what the operator writes, composed with               *)
(* TrinoOperator.  A pod keeps what it has read: the pod template when the *)
(* StatefulSet controller creates it, the shared secret when its container *)
(* starts (envFrom), and the configuration when the container's script     *)
(* copies the mounted ConfigMap.  Nothing in the template changes with the *)
(* ConfigMap or the Secret, so a change of one of these alone restarts no  *)
(* pod; the probes of the StatefulSet builder do, when server and probe    *)
(* disagree.                                                               *)
(*                                                                         *)
(* No code sets podManagementPolicy, so that the StatefulSet controller    *)
(* works in Kubernetes' default way, OrderedReady: it creates, replaces    *)
(* and removes one pod of a StatefulSet at a time, and only while those    *)
(* before it, or all others, are ready.                                    *)
(*                                                                         *)
(* Pods do not act on the objects the operators manage, nor on the pods of *)
(* another StatefulSet, so PodIds may be the pods of any StatefulSets.     *)
(***************************************************************************)
EXTENDS TrinoOperator

CONSTANTS
    PodIds,         \* the pods considered: all those of some StatefulSets
    MaxRestarts     \* bound on the containers that end for reasons of their own

ASSUME PodIdsArePods ==
    PodIds \subseteq [role : Roles, group : Groups, ordinal : 0..(MaxReplicas - 1)]
ASSUME MaxRestartsIsNat == MaxRestarts \in Nat

VARIABLES
    pods,           \* pods[x]: the pod, and what it has read
    restarts        \* how many containers have ended for reasons of their own

podVars == <<vars, pods, restarts>>

NoPod == [phase |-> "none", template |-> Absent, volume |-> Absent,
          secret |-> Absent, config |-> Absent]

PodConfigMap(x) == Obj("configmap", x.role, x.group)
PodStatefulSet(x) == Obj("statefulset", x.role, x.group)

\* The pod template: everything in a StatefulSet but its replicas.
Template(sts) == [sts EXCEPT !.replicas = 0]

\* The pods of the StatefulSet of pod x.
Siblings(x) == {y \in PodIds : y.role = x.role /\ y.group = x.group}

\* A server with configuration c listens where the probes of template t look, and the
\* environment c refers to is there.
Fits(t, c) ==
    /\ c.server = t.probePort /\ c.server = t.probeScheme /\ t.probePort \in t.ports
    /\ c.envRefs \subseteq t.env \cup t.exports

\* The server comes up, and the probes reach it.
Works(x) ==
    /\ Fits(pods[x].template, pods[x].config)
    /\ pods[x].config.sharedSecret => pods[x].secret # Absent

Ready(x) == pods[x].phase = "running" /\ Works(x)

PodInit ==
    /\ Init
    /\ pods = [x \in PodIds |-> NoPod]
    /\ restarts = 0

-----------------------------------------------------------------------------

\* The StatefulSet controller creates a missing pod once those before it are ready ...
CreatePod(x) ==
    LET sts == store[PodStatefulSet(x)]
    IN  /\ pods[x].phase = "none"
        /\ sts # Absent
        /\ x.ordinal < sts.replicas
        /\ \A y \in Siblings(x) : y.ordinal < x.ordinal => Ready(y)
        /\ pods' = [pods EXCEPT ![x] = [NoPod EXCEPT !.phase = "created",
                                                     !.template = Template(sts)]]
        /\ UNCHANGED <<vars, restarts>>

\* ... and removes one that should not exist or has an old template, when all that
\* should exist are ready, itself included, and those after it are done.  The pods of
\* a StatefulSet that is gone are collected as garbage.
DeletePod(x) ==
    LET sts == store[PodStatefulSet(x)]
        done(y) == \/ pods[y].phase = "none"
                   \/ y.ordinal < sts.replicas /\ pods[y].template = Template(sts)
    IN  /\ pods[x].phase # "none"
        /\ sts # Absent =>
              /\ ~done(x)
              /\ \A y \in Siblings(x) :
                    /\ y.ordinal < sts.replicas => Ready(y)
                    /\ y.ordinal > x.ordinal => done(y)
        /\ pods' = [pods EXCEPT ![x] = NoPod]
        /\ UNCHANGED <<vars, restarts>>

\* The kubelet mounts the ConfigMap getVolumes names, and follows its changes.
MountConfig(x) ==
    /\ pods[x].phase # "none"
    /\ store[PodConfigMap(x)] \notin {Absent, pods[x].volume}
    /\ pods' = [pods EXCEPT ![x].volume = store[PodConfigMap(x)]]
    /\ UNCHANGED <<vars, restarts>>

\* It starts the container once volume and envFrom secret exist.
StartContainer(x) ==
    /\ pods[x].phase = "created"
    /\ pods[x].volume # Absent
    /\ pods[x].template.envFromSecret => store[SharedSecret] # Absent
    /\ pods' = [pods EXCEPT
                  ![x].phase = "starting",
                  ![x].secret = IF pods[x].template.envFromSecret THEN store[SharedSecret]
                                ELSE Absent]
    /\ UNCHANGED <<vars, restarts>>

\* The script of the container copies the configuration and runs the launcher.
CopyConfig(x) ==
    /\ pods[x].phase = "starting"
    /\ pods' = [pods EXCEPT ![x].phase = "running", ![x].config = pods[x].volume]
    /\ UNCHANGED <<vars, restarts>>

\* The container ends and is started again in the same pod.
Restart(x) ==
    pods' = [pods EXCEPT ![x].phase = "created", ![x].secret = Absent, ![x].config = Absent]

\* The launcher fails, or the liveness probe does.
ProbeFails(x) ==
    /\ pods[x].phase = "running"
    /\ ~Works(x)
    /\ Restart(x)
    /\ UNCHANGED <<vars, restarts>>

\* Any other end of the container.
ContainerEnds(x) ==
    /\ pods[x].phase \in {"starting", "running"}
    /\ restarts < MaxRestarts
    /\ restarts' = restarts + 1
    /\ Restart(x)
    /\ UNCHANGED vars

PodStep(x) ==
    \/ CreatePod(x)
    \/ DeletePod(x)
    \/ MountConfig(x)
    \/ StartContainer(x)
    \/ CopyConfig(x)
    \/ ProbeFails(x)

PodNext ==
    \/ Next /\ UNCHANGED <<pods, restarts>>
    \/ \E x \in PodIds : PodStep(x) \/ ContainerEnds(x)

PodSpec == PodInit /\ [][PodNext]_podVars

\* The StatefulSet controller does its work, and the kubelet goes on with every
\* volume and every container.
PodFairness ==
    \A x \in PodIds :
        /\ WF_podVars(CreatePod(x) \/ DeletePod(x))
        /\ WF_podVars(MountConfig(x))
        /\ WF_podVars(StartContainer(x) \/ CopyConfig(x) \/ ProbeFails(x))

FairPodSpec == PodSpec /\ Fairness /\ PodFairness

-----------------------------------------------------------------------------

\* The configuration a worker pod has mounted or runs with names a coordinator
\* Service that has been created, however long ago the pod read it: coordinators
\* are registered before workers, and the objects of removed role groups stay.
PodDiscoveryResolves ==
    \A x \in PodIds : x.role = "worker" =>
        \A c \in {pods[x].volume, pods[x].config} :
            c # Absent /\ c.uriHost \in Groups =>
                Provided(Obj("service", "coordinator", c.uriHost))

\* Every container that has the shared secret has the current one.
PodsAgree ==
    \A x \in PodIds : pods[x].secret \in {Absent, store[SharedSecret]}

\* Once the secret is settled and the running pods agree on it, this lasts: they
\* and all pods started later go on to agree, until somebody deletes the secret.
AgreementKept ==
    [][SecretSettled /\ PodsAgree =>
        \/ store'[SharedSecret] = Absent
        \/ SecretSettled' /\ PodsAgree']_podVars

\* Pod x runs what the spec asks for.
PodAsSpecified(x) ==
    LET r == x.role
        scheme == IF spec.tls THEN "https" ELSE "http"
        up == /\ x.group \in DOMAIN RoleSpec(spec, r)
              /\ ~spec.stopped
              /\ x.ordinal < RoleSpec(spec, r)[x.group].replicas
    IN  /\ up => /\ pods[x].phase = "running" /\ Works(x)
                 /\ pods[x].config.server = scheme
                 /\ pods[x].template.vector = spec.vector
        /\ x.group \in DOMAIN RoleSpec(spec, r) /\ ~up => pods[x].phase = "none"

\* Pod x has its place in the StatefulSet but an old template, which the stored
\* ConfigMap does not fit: when its container has started, or starts, with that
\* ConfigMap, it does not get ready, and the controller waits for it before it
\* replaces any pod of the StatefulSet.  It takes a user to delete the pod.
Stuck(x) ==
    LET y == pods[x]
        cm == store[PodConfigMap(x)]
        sts == store[PodStatefulSet(x)]
    IN  /\ y.phase # "none" /\ ~Ready(x)
        /\ sts # Absent /\ x.ordinal < sts.replicas /\ y.template # Template(sts)
        /\ y.volume \in IF y.phase = "created" THEN {Absent, cm} ELSE {cm}
        /\ ~Fits(y.template, cm)

Held(x) == \E y \in Siblings(x) : Stuck(y)

\* Once nothing interferes, the pods of the role groups of the spec run, and work,
\* with the scheme of the spec: also those that have read a configuration and a
\* template of different versions on the way.  A pod of which a container starts
\* between the write of the ConfigMap and the replacement of the pod may be stuck;
\* nothing else keeps the pods from getting there.
PodsConverge ==
    <>[](IF spec = NoCluster THEN \A x \in PodIds : pods[x].phase = "none"
         ELSE ~spec.paused /\ Establishable(spec) =>
            \A x \in PodIds : PodAsSpecified(x) \/ Held(x))

-----------------------------------------------------------------------------
(* Pods of an established cluster.                                           *)

OfSpec(x) == spec # NoCluster /\ x.group \in DOMAIN RoleSpec(spec, x.role)

\* Pod x has its place in the StatefulSet and the template of it; what it has still
\* to read it will find as it is now; if it runs already, it works.
PodSettled(x) ==
    LET y == pods[x]
        cm == store[PodConfigMap(x)]
        sts == store[PodStatefulSet(x)]
    IN  y.phase # "none" =>
            /\ x.ordinal < sts.replicas /\ y.template = Template(sts)
            /\ y.volume \in IF y.phase = "created" THEN {Absent, cm} ELSE {cm}
            /\ y.phase = "starting" /\ sts.envFromSecret => y.secret # Absent
            /\ y.phase = "running" => Works(x)

PodsSettled == Established /\ \A x \in PodIds : OfSpec(x) => PodSettled(x)

\* A running pod of an established cluster is left alone: no template that changes
\* once more, no volume and no probe that fails restarts it, whatever happens to the
\* operators and to other pods, and a pod started later is as good.
RunningPodsKept ==
    [][PodsSettled /\ Undisturbed =>
        /\ PodsSettled'
        /\ \A x \in PodIds :
              OfSpec(x) /\ pods[x].phase = "running" /\ restarts' = restarts =>
                  pods'[x] = pods[x]]_podVars

\* All pods the spec asks for run, and no others, but for stuck pods and the others
\* of their StatefulSet.
PodsUp ==
    /\ Established
    /\ \A x \in PodIds :
          IF OfSpec(x)
          THEN \/ Held(x)
               \/ /\ PodSettled(x)
                  /\ x.ordinal < store[PodStatefulSet(x)].replicas => pods[x].phase = "running"
          ELSE spec = NoCluster => pods[x].phase = "none"

\* The pods get there.
PodsSettle == <>[](Attainable => PodsUp)
=============================================================================
