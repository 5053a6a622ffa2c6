--------------------------- MODULE ClusterPromise ---------------------------
(***************************************************************************)
(* What the operator promises about the objects of one TrinoCluster, with  *)
(* none of the machinery that keeps the promise: no caches, no passes, no  *)
(* work queues, no processes.                                              *)
(*                                                                         *)
(*   - An object is written only when everything its content refers to has *)
(*     been provided.                                                      *)
(*   - The shared secret, once settled, is written no more.                *)
(*   - While a pause is in force, nothing is written.                      *)
(*                                                                         *)
(* Objects are removed by others only, at any moment.  When the secret     *)
(* settles and when a pause takes effect is not determined here, but       *)
(* neither is ever taken back: a settled secret stays so until it is       *)
(* removed, a pause until the user asks for something else.                *)
(***************************************************************************)
EXTENDS TLAPS

CONSTANTS
    Objects,        \* the names of the objects
    Secret,         \* one of them, the shared secret
    Absent,         \* the content of an object that does not exist
    Refs(_, _)      \* Refs(o, c): the objects that o refers to if its content is c

VARIABLES
    wanted,         \* what the user asks for
    content,        \* content[o]
    deleted,        \* the objects others have removed
    settled,        \* the secret is final
    frozen          \* a pause is in force

vars == <<wanted, content, deleted, settled, frozen>>

Provided(o) == content[o] # Absent \/ o \in deleted

Init ==
    /\ content = [o \in Objects |-> Absent]
    /\ deleted = {}
    /\ settled = FALSE
    /\ frozen \in BOOLEAN

\* What is never taken back.
Lasting ==
    /\ settled' \in BOOLEAN /\ frozen' \in BOOLEAN
    /\ settled' => content'[Secret] # Absent
    /\ settled /\ content'[Secret] # Absent => settled'
    /\ frozen /\ wanted' = wanted => frozen'

\* The operator creates or changes o.
Write(o) ==
    /\ ~frozen
    /\ o = Secret => ~settled
    /\ content'[o] # Absent
    /\ \A x \in Refs(o, content'[o]) : Provided(x)
    /\ content' = [content EXCEPT ![o] = content'[o]]
    /\ UNCHANGED <<wanted, deleted>>

\* Somebody else removes o.
Remove(o) ==
    /\ content' = [content EXCEPT ![o] = Absent]
    /\ o \in deleted' /\ deleted \subseteq deleted'
    /\ UNCHANGED wanted

\* Nothing happens to the objects; the user may ask for something else, and the
\* operators may learn of it.
Leave == UNCHANGED <<content, deleted>>

Next ==
    /\ Lasting
    /\ Leave \/ \E o \in Objects : Write(o) \/ Remove(o)

Spec == Init /\ [][Next]_vars

\* No object that exists refers to one that was never there.
NoDangling ==
    \A o \in Objects : content[o] # Absent =>
        \A x \in Refs(o, content[o]) : x \in Objects => Provided(x)

-----------------------------------------------------------------------------
\* The promise leaves no dangling reference, whatever the objects are and whatever
\* their contents refer to.
LEMMA NothingDangles == Spec => []NoDangling
<1> DEFINE Inv == DOMAIN content = Objects /\ NoDangling
<1>1. Init => Inv
  BY DEF Init, NoDangling
<1>2. Inv /\ [Next]_vars => Inv'
  <2> SUFFICES ASSUME Inv, [Next]_vars PROVE Inv'
    OBVIOUS
  <2>1. CASE UNCHANGED <<content, deleted>>
    BY <2>1 DEF NoDangling, Provided
  <2>2. ASSUME NEW o \in Objects, Write(o) PROVE Inv'
    <3>1. DOMAIN content' = Objects /\ \A x \in Objects : x # o => content'[x] = content[x]
      BY <2>2 DEF Write
    <3>2. \A x \in Objects : Provided(x) => Provided(x)'
      BY <2>2, <3>1 DEF Write, Provided
    <3> QED
      BY <2>2, <3>1, <3>2 DEF Write, NoDangling
  <2>3. ASSUME NEW o \in Objects, Remove(o) PROVE Inv'
    <3>1. /\ DOMAIN content' = Objects /\ content'[o] = Absent
          /\ \A x \in Objects : x # o => content'[x] = content[x]
      BY <2>3 DEF Remove
    <3>2. \A x \in Objects : Provided(x) => Provided(x)'
      BY <2>3, <3>1 DEF Remove, Provided
    <3> QED
      BY <3>1, <3>2 DEF NoDangling
  <2> QED
    BY <2>1, <2>2, <2>3 DEF Next, Leave, vars
<1>3. Inv => NoDangling
  OBVIOUS
<1> QED
  BY <1>1, <1>2, <1>3, PTL DEF Spec
=============================================================================
