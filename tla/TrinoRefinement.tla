-------------------------- MODULE TrinoRefinement ---------------------------
(***************************************************************************)
(* TrinoOperator keeps the promise of ClusterPromise: the refinement       *)
(* mapping.  The objects and their contents are those of the API server;   *)
(* the secret is settled, and a pause in force, when every running         *)
(* operator has seen it.                                                   *)
(***************************************************************************)
EXTENDS TrinoOperator

\* The objects that o refers to with content c: a StatefulSet mounts its ConfigMap
\* and is reached through its Services, a worker's discovery URI names a
\* coordinator's Service, and an https entry point leads to pods that take their
\* environment from the shared secret.
DependsOn(o, c) ==
    {x \in Objects :
        \/ /\ o.kind = "statefulset"
           /\ \E k \in {"configmap", "service", "metrics"} : x = Obj(k, o.role, o.group)
        \/ /\ o.kind = "configmap" /\ o.role = "worker"
           /\ x = Obj("service", "coordinator", c.uriHost)
        \/ /\ o = RoleService /\ c.targetPort = "https"
           /\ x = SharedSecret}

Promise ==
    INSTANCE ClusterPromise WITH
        Secret <- SharedSecret,
        Refs <- DependsOn,
        wanted <- spec,
        content <- store,
        settled <- SecretSettled,
        frozen <- PausedAndQuiet

\* The operators, with their caches, aborted passes, restarts and races, do to the
\* objects of the cluster only what ClusterPromise allows.
PromiseKept == Promise!Spec
=============================================================================
