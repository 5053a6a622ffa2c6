------------------------ MODULE LauncherScriptProofs ------------------------
(***************************************************************************)
(* The safety properties of the launcher script, for any number of         *)
(* containers in the pod.                                                  *)
(***************************************************************************)
EXTENDS LauncherScript, TLAPS

\* The inductive invariant: where the script is, and what it has done by then in
\* this container and to the volume of the pod.
ScriptInv ==
    /\ TypeOK
    /\ launcher = "running" => pc = "run"
    /\ pc \in {"handlers", "keytool", "auth", "run", "wait", "untrap", "mark"} =>
          ~marker /\ "config" \in prepared
    /\ pc \in {"auth", "run"} => "truststore" \in prepared
    /\ pc = "clean" => "config" \in prepared
    /\ launcher = "ok" => pc \in {"wait", "untrap", "mark", "ended"}
    /\ launcher = "failed" => pc = "ended"
    /\ pc \in {"wait", "untrap", "mark"} => launcher = "ok"
    /\ MarkerTellsEnd

\* Going on to the next command leaves the shell's variables well typed.
LEMMA ContinueTypes ==
    ASSUME TypeOK, NEW next \in Commands, Continue(next)
    PROVE  pc' = next /\ trap' = trap /\ end' = end /\ term' \in BOOLEAN /\ killNeeded' \in BOOLEAN
BY DEF TypeOK, Continue, handle_term_signal

\* Every command of the script keeps the invariant.
LEMMA ScriptKeeps ==
    ASSUME ScriptInv, Script
    PROVE  ScriptInv'
<1>1. CASE CopyConfig
  <2>1. CASE prepared' = prepared \cup {"config"} /\ Continue("clean")
    BY <1>1, <2>1, ContinueTypes DEF ScriptInv, MarkerTellsEnd, TypeOK, CopyConfig, Commands
  <2>2. CASE UNCHANGED prepared /\ Exit
    BY <1>1, <2>2 DEF ScriptInv, MarkerTellsEnd, TypeOK, CopyConfig, Exit, shell, Commands
  <2> QED
    BY <1>1, <2>1, <2>2 DEF CopyConfig
<1>2. CASE RemoveMarker
  <2>1. CASE marker' = FALSE /\ Continue("handlers")
    BY <1>2, <2>1, ContinueTypes DEF ScriptInv, MarkerTellsEnd, TypeOK, RemoveMarker, Commands
  <2>2. CASE UNCHANGED marker /\ Exit
    BY <1>2, <2>2 DEF ScriptInv, MarkerTellsEnd, TypeOK, RemoveMarker, Exit, shell, Commands
  <2> QED
    BY <1>2, <2>1, <2>2 DEF RemoveMarker
<1>3. CASE prepare_signal_handlers
  BY <1>3 DEF ScriptInv, MarkerTellsEnd, TypeOK, prepare_signal_handlers, Commands
<1>4. CASE ImportKeystore
  <2>1. CASE prepared' = prepared \cup {"truststore"} /\ Continue("auth")
    BY <1>4, <2>1, ContinueTypes DEF ScriptInv, MarkerTellsEnd, TypeOK, ImportKeystore, Commands
  <2>2. CASE UNCHANGED prepared /\ Exit
    BY <1>4, <2>2 DEF ScriptInv, MarkerTellsEnd, TypeOK, ImportKeystore, Exit, shell, Commands
  <2> QED
    BY <1>4, <2>1, <2>2 DEF ImportKeystore
<1>5. CASE StartLauncher
  BY <1>5, ContinueTypes DEF ScriptInv, MarkerTellsEnd, TypeOK, StartLauncher, Commands
<1>6. CASE wait_for_termination
  BY <1>6, ContinueTypes DEF ScriptInv, MarkerTellsEnd, TypeOK, wait_for_termination, Commands
<1>7. CASE RemoveTrap
  BY <1>7 DEF ScriptInv, MarkerTellsEnd, TypeOK, RemoveTrap, Commands
<1>8. CASE TouchMarker
  <2>1. CASE marker' = TRUE /\ pc' = "ended" /\ end' = "done" /\ UNCHANGED shell
    BY <1>8, <2>1 DEF ScriptInv, MarkerTellsEnd, TypeOK, TouchMarker, shell, Commands
  <2>2. CASE UNCHANGED marker /\ Exit
    BY <1>8, <2>2 DEF ScriptInv, MarkerTellsEnd, TypeOK, TouchMarker, Exit, shell, Commands
  <2> QED
    BY <1>8, <2>1, <2>2 DEF TouchMarker
<1> QED
  BY <1>1, <1>2, <1>3, <1>4, <1>5, <1>6, <1>7, <1>8 DEF Script

\* So do the launcher, the kubelet and a stutter.
LEMMA StepKeeps ==
    ASSUME ScriptInv, [Next]_vars
    PROVE  ScriptInv'
<1>1. CASE Script
  BY <1>1, ScriptKeeps
<1>2. CASE LauncherEnds
  <2>1. CASE launcher' = "ok" /\ Continue("wait")
    BY <1>2, <2>1, ContinueTypes DEF ScriptInv, MarkerTellsEnd, TypeOK, LauncherEnds, Commands
  <2>2. CASE launcher' = "failed" /\ Exit
    BY <1>2, <2>2 DEF ScriptInv, MarkerTellsEnd, TypeOK, LauncherEnds, Exit, shell, Commands
  <2> QED
    BY <1>2, <2>1, <2>2 DEF LauncherEnds
<1>3. CASE SendTerm
  BY <1>3 DEF ScriptInv, MarkerTellsEnd, TypeOK, SendTerm
<1>7. CASE KillContainer
  BY <1>7 DEF ScriptInv, MarkerTellsEnd, TypeOK, KillContainer, shell, Commands
<1>4. CASE RemovePod
  BY <1>4 DEF ScriptInv, MarkerTellsEnd, TypeOK, RemovePod, shell
<1>5. CASE RestartContainer
  <2>1. containers' \in 1..MaxContainers
    BY <1>5, MaxContainersIsNat DEF ScriptInv, MarkerTellsEnd, TypeOK, RestartContainer
  <2>2. /\ trap' \in BOOLEAN /\ term' \in BOOLEAN /\ killNeeded' \in BOOLEAN
        /\ marker' \in BOOLEAN
    BY <1>5, Zenon DEF ScriptInv, MarkerTellsEnd, TypeOK, RestartContainer
  <2>3. /\ pc' = "copy" /\ prepared' = {} /\ launcher' = "none"
        /\ stopping' = "none" /\ end' = "none"
    BY <1>5 DEF RestartContainer
  <2> QED
    BY <2>1, <2>2, <2>3 DEF ScriptInv, MarkerTellsEnd, TypeOK, Commands
<1>6. CASE UNCHANGED vars
  BY <1>6 DEF ScriptInv, MarkerTellsEnd, TypeOK, vars
<1> QED
  BY <1>1, <1>2, <1>3, <1>4, <1>5, <1>6, <1>7 DEF Next

\* The invariant holds however often the container ends and is started again,
\* whichever command fails and whenever TERM arrives.
THEOREM ScriptInvariant == Spec => []ScriptInv
<1>1. Init => ScriptInv
  <2> SUFFICES ASSUME Init PROVE ScriptInv
    OBVIOUS
  <2>1. containers \in 1..MaxContainers
    BY MaxContainersIsNat DEF Init
  <2>2. /\ trap \in BOOLEAN /\ term \in BOOLEAN /\ killNeeded \in BOOLEAN
        /\ marker \in BOOLEAN
    BY Zenon DEF Init
  <2>3. /\ pc = "copy" /\ prepared = {} /\ launcher = "none"
        /\ stopping = "none" /\ end = "none"
    BY DEF Init
  <2> QED
    BY <2>1, <2>2, <2>3 DEF ScriptInv, MarkerTellsEnd, TypeOK, Commands
<1>2. ScriptInv /\ [Next]_vars => ScriptInv'
  BY StepKeeps
<1> QED
  BY <1>1, <1>2, PTL DEF Spec

\* The marker that stops the sidecar is never there while the server runs.
THEOREM MarkerSafe == Spec => []MarkerMeansStopped
<1>1. ScriptInv => MarkerMeansStopped
  BY DEF ScriptInv, MarkerMeansStopped
<1> QED
  BY <1>1, ScriptInvariant, PTL

\* The server runs only on what its own container has prepared.
THEOREM LaunchSafe == Spec => []LaunchPrepared
<1>1. ScriptInv => LaunchPrepared
  BY DEF ScriptInv, TypeOK, LaunchPrepared
<1> QED
  BY <1>1, ScriptInvariant, PTL

\* The safety half of ShutdownAnnounced, over any number of containers: a marker
\* found after a server's end was written by its own container after status 0, and
\* the announcement of such an end is lost only with a KILL or the failure of the
\* last command itself.
THEOREM EndAnnounced == Spec => []MarkerTellsEnd
<1>1. ScriptInv => MarkerTellsEnd
  BY DEF ScriptInv
<1> QED
  BY <1>1, ScriptInvariant, PTL
=============================================================================
