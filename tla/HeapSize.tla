------------------------------ MODULE HeapSize ------------------------------
(***************************************************************************)
(* getHeapSize of the ConfigMap builder: the -Xmx and -Xms of a role group *)
(* from the memory limit of its merged config.  The heap is 8/10 of the    *)
(* limit (JvmHeapFactor), cut to a whole number of a unit chosen by the    *)
(* magnitude of the limit.  Base is 1024 in the code; a quantity is its    *)
(* value in bytes, so fractions of a byte are left out.                    *)
(***************************************************************************)
EXTENDS Naturals

CONSTANT Base       \* 1024

ASSUME BaseIsABase == Base \in Nat /\ Base >= 2

Ki == Base
Mi == Base * Ki
Gi == Base * Mi
Ti == Base * Gi

\* The switch on the magnitude has no case below 1<<20: it panics.
HeapSizePanics(value) == value < Mi

\* "G" from 1<<40, "M" from 1<<30, "K" from 1<<20.
HeapUnit(value) ==
    IF value >= Ti THEN Gi ELSE IF value >= Gi THEN Mi ELSE Ki

\* int(heapSize * factor) of the unit.
HeapAmount(value) == (8 * value) \div (10 * HeapUnit(value))

\* What the JVM is given, in bytes.
getHeapSize(value) == HeapAmount(value) * HeapUnit(value)

\* A heap fits a memory limit: it is at most 8/10 of the limit, and rounding down
\* to the unit loses less than 1/Base of the limit.
HeapFits(heap, limit) ==
    /\ 10 * heap <= 8 * limit
    /\ 10 * (Base * heap) + 10 * limit > 8 * (Base * limit)
=============================================================================
