-------------------------- MODULE MCTrinoOperator ---------------------------
(***************************************************************************)
(* Instances of TrinoOperator for TLC: the specs the user may submit, the  *)
(* classes' states and how often the environment interferes.               *)
(***************************************************************************)
EXTENDS TrinoRefinement, TLC

CONSTANTS g1, g2, k1, k2

NoGroups == [g \in {} |-> [replicas |-> 0, heapOk |-> TRUE]]
One(g) == g :> [replicas |-> 1, heapOk |-> TRUE]
BadHeap(g) == g :> [replicas |-> 1, heapOk |-> FALSE]

\* One coordinator role group and no worker, no TLS, no authentication.
Small == [coordinators |-> One(g1), workers |-> NoGroups, tls |-> FALSE, vector |-> FALSE,
          auth |-> <<>>, stopped |-> FALSE, paused |-> FALSE]
SmallTls == [Small EXCEPT !.tls = TRUE]
Plain == [Small EXCEPT !.workers = One(g1)]

\* A running http cluster becomes a stopped https cluster, or the reverse.
LifecycleSpecs == {Plain, [Plain EXCEPT !.tls = TRUE, !.stopped = TRUE]}

SmallTlsOnly == {SmallTls}
SmallOnly == {Small}

\* A role without role groups: the cluster is its shared secret and role Service.
NoGroupsTls == {[SmallTls EXCEPT !.coordinators = NoGroups]}

\* The cluster is stopped, and started again in the edit that pauses it.
PauseSpecs == {[Small EXCEPT !.stopped = TRUE], [Small EXCEPT !.paused = TRUE], SmallTls}

\* The coordinator role group is renamed, or renamed along with an impossible
\* memory limit for the workers, or removed.
RenameSpecs == {Plain,
                [Plain EXCEPT !.coordinators = One(g2), !.workers = BadHeap(g1)],
                [Plain EXCEPT !.coordinators = NoGroups]}

\* Authentication with two classes, of which one lacks its OidcSpec.
TwoClasses == <<[class |-> k1, oidc |-> TRUE], [class |-> k2, oidc |-> FALSE]>>
TwoClassesSpecs == {[Small EXCEPT !.auth = TwoClasses, !.vector = TRUE]}

\* The cluster of examples/simple-trino-oauth2.yaml: it names the class
\* simple-trino-oidc with its OidcSpec, and simple-trino-users.
ExampleSpecs == {[Plain EXCEPT !.auth = TwoClasses]}
ExampleClasses == k1 :> "oidc" @@ k2 :> "static"

\* What examples/simple-trino-oauth2.yaml offers its reader: with its two classes in
\* place, the cluster it declares gets a StatefulSet for each of its role groups.
ExampleStarts ==
    [](classes = ExampleClasses) =>
        <>(\A r \in Roles : store[Obj("statefulset", r, g1)] # Absent)

Limit(d) == [x \in Disturbances |-> IF x \in DOMAIN d THEN d[x] ELSE 0]
OneEdit == Limit([edit |-> 1])
OneUninstall == Limit([uninstall |-> 1])
OneOfEachFault == Limit([delete |-> 1, error |-> 1, crash |-> 1])
OneClassEdit == Limit([class |-> 1])
EditAndCrash == Limit([edit |-> 1, crash |-> 1])
Quiet == Limit([edit |-> 0])

\* The random values of the secret are interchangeable (safety runs only).
SecretSymmetry == Permutations(SecretValues)
=============================================================================
