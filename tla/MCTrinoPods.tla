---------------------------- MODULE MCTrinoPods -----------------------------
(***************************************************************************)
(* Instances of TrinoPods for TLC.                                         *)
(***************************************************************************)
EXTENDS TrinoPods, MCTrinoOperator

Pod(r, n) == [role |-> r, group |-> g1, ordinal |-> n]
CoordinatorPods == {Pod("coordinator", 0), Pod("coordinator", 1)}
WorkerPod == {Pod("worker", 0)}

\* Two coordinators with http become one with https and the log collector, or the
\* reverse.
ScaledSpecs == {[Small EXCEPT !.coordinators[g1].replicas = 2],
                [SmallTls EXCEPT !.vector = TRUE]}
=============================================================================
