--------------------------- MODULE LauncherScript ---------------------------
(***************************************************************************)
(* The shell script that getMainContainerArgs gives the container of a     *)
(* role group, run by the shell as process 1 of the container, with the    *)
(* signals of the kubelet, containers that end and are started again in    *)
(* the same pod, and the marker file the vector sidecar waits for.         *)
(*                                                                         *)
(* pc is the command being executed.  A TERM that arrives meanwhile is     *)
(* acted upon when the command ends: the shell waits for its foreground    *)
(* command before it runs a trap.  Without a trap process 1 ignores TERM.  *)
(* The volume that holds the marker belongs to the pod and outlives its    *)
(* containers; the shell and the copied files go with the container.       *)
(* A container ends with its script, or is killed at any command: by the   *)
(* kubelet after a failed liveness probe, or for want of memory.           *)
(***************************************************************************)
EXTENDS Naturals

CONSTANT MaxContainers  \* bound on the containers of one pod

ASSUME MaxContainersIsNat == MaxContainers \in Nat \ {0}

VARIABLES
    pc,             \* the command, "ended" without a container, "gone" without a pod
    trap,           \* handle_term_signal is the trap for TERM
    term,           \* a TERM has arrived and is not handled yet
    killNeeded,     \* term_kill_needed is set
    prepared,       \* what the commands of this container have prepared
    launcher,       \* "none", "running", or how it has ended: "ok", "failed"
    marker,         \* the file _vector/shutdown exists
    stopping,       \* what the kubelet has begun to stop: "container", "pod" or "none"
    end,            \* how the container has ended: "done", "killed" or the command
                    \* that failed; "none" before
    containers      \* the containers started so far

vars == <<pc, trap, term, killNeeded, prepared, launcher, marker, stopping, end, containers>>
shell == <<trap, term, killNeeded>>

Commands == {"copy", "clean", "handlers", "keytool", "auth", "run", "wait", "untrap", "mark"}

TypeOK ==
    /\ pc \in Commands \cup {"ended", "gone"}
    /\ trap \in BOOLEAN /\ term \in BOOLEAN /\ killNeeded \in BOOLEAN
    /\ prepared \in SUBSET {"config", "truststore"}
    /\ launcher \in {"none", "running", "ok", "failed"}
    /\ marker \in BOOLEAN
    /\ stopping \in {"none", "container", "pod"}
    /\ end \in Commands \cup {"none", "done", "killed"}
    /\ containers \in 1..MaxContainers

Init ==
    /\ pc = "copy"
    /\ trap = FALSE /\ term = FALSE /\ killNeeded = FALSE
    /\ prepared = {} /\ launcher = "none"
    /\ marker = FALSE /\ stopping = "none" /\ end = "none"
    /\ containers = 1

-----------------------------------------------------------------------------
(* The script.                                                               *)

\* handle_term_signal, run when a command has ended and a TERM is pending.  It would
\* signal the child if term_child_pid named one: the variable is unset before
\* wait_for_termination and empty after it (see there), so the wish is noted.
handle_term_signal ==
    /\ term' = FALSE
    /\ killNeeded' = TRUE

\* The command ends well, and the script goes on to the next.
Continue(next) ==
    /\ pc' = next
    /\ IF term /\ trap THEN handle_term_signal ELSE UNCHANGED <<term, killNeeded>>
    /\ UNCHANGED <<trap, end>>

\* Under set -e the script ends with a command that fails.
Exit ==
    /\ pc' = "ended"
    /\ end' = pc
    /\ UNCHANGED shell

\* Mutant: a script without set -e.
CopyCarriesOn ==
    /\ pc = "copy"
    /\ \/ prepared' = prepared \cup {"config"} /\ Continue("clean")
       \/ UNCHANGED prepared /\ Continue("clean")
    /\ UNCHANGED <<launcher, marker, stopping, containers>>

\* mkdir, cp of the mounted configuration, move of the catalog files.
CopyConfig ==
    /\ pc = "copy"
    /\ \/ prepared' = prepared \cup {"config"} /\ Continue("clean")
       \/ UNCHANGED prepared /\ Exit
    /\ UNCHANGED <<launcher, marker, stopping, containers>>

\* Mutant: the marker of an earlier container stays.
MarkerLeft ==
    /\ pc = "clean"
    /\ Continue("handlers") \/ Exit
    /\ UNCHANGED <<prepared, launcher, marker, stopping, containers>>

\* rm -f /kubedoop/log/_vector/shutdown
RemoveMarker ==
    /\ pc = "clean"
    /\ \/ marker' = FALSE /\ Continue("handlers")
       \/ UNCHANGED marker /\ Exit
    /\ UNCHANGED <<prepared, launcher, stopping, containers>>

prepare_signal_handlers ==
    /\ pc = "handlers"
    /\ pc' = "keytool"
    /\ killNeeded' = FALSE
    /\ trap' = TRUE
    /\ UNCHANGED <<term, prepared, launcher, marker, stopping, end, containers>>

ImportKeystore ==
    /\ pc = "keytool"
    /\ \/ prepared' = prepared \cup {"truststore"} /\ Continue("auth")
       \/ UNCHANGED prepared /\ Exit
    /\ UNCHANGED <<launcher, marker, stopping, containers>>

\* The commands of the authenticators (an export does not fail with the command
\* whose output it takes), then bin/launcher run in the foreground.
StartLauncher ==
    /\ pc = "auth"
    /\ launcher' = "running"
    /\ Continue("run")
    /\ UNCHANGED <<prepared, marker, stopping, containers>>

\* The launcher ends, by itself: the script goes on only after status 0.
LauncherEnds ==
    /\ pc = "run"
    /\ \/ launcher' = "ok" /\ Continue("wait")
       \/ launcher' = "failed" /\ Exit
    /\ UNCHANGED <<prepared, marker, stopping, containers>>

\* Mutant: the kill without a process id fails under set -e.
WaitUnderErrexit ==
    /\ pc = "wait"
    /\ IF killNeeded THEN Exit ELSE Continue("untrap")
    /\ UNCHANGED <<prepared, launcher, marker, stopping, containers>>

\* wait_for_termination $!, up to the first wait.  The launcher was no background
\* job: $! is empty, kill fails without consequence (set +e), wait returns at once.
wait_for_termination ==
    /\ pc = "wait"
    /\ Continue("untrap")
    /\ UNCHANGED <<prepared, launcher, marker, stopping, containers>>

\* trap - TERM, and the second wait; a TERM that is still pending is forgotten.
RemoveTrap ==
    /\ pc = "untrap"
    /\ pc' = "mark"
    /\ trap' = FALSE /\ term' = FALSE
    /\ UNCHANGED <<killNeeded, prepared, launcher, marker, stopping, end, containers>>

\* mkdir -p && touch of the marker, the last command: either may fail.
TouchMarker ==
    /\ pc = "mark"
    /\ \/ marker' = TRUE /\ pc' = "ended" /\ end' = "done" /\ UNCHANGED shell
       \/ UNCHANGED marker /\ Exit
    /\ UNCHANGED <<prepared, launcher, stopping, containers>>

Script ==
    \/ CopyConfig
    \/ RemoveMarker
    \/ prepare_signal_handlers
    \/ ImportKeystore
    \/ StartLauncher
    \/ wait_for_termination
    \/ RemoveTrap
    \/ TouchMarker

-----------------------------------------------------------------------------
(* The kubelet.                                                              *)

\* It stops the container, whose liveness probe has failed, or the pod: a TERM for
\* process 1.
SendTerm ==
    /\ \/ pc \in Commands /\ stopping = "none" /\ stopping' = "container"
       \/ pc # "gone" /\ stopping # "pod" /\ stopping' = "pod"
    /\ term' = (trap /\ pc # "ended")
    /\ UNCHANGED <<pc, trap, killNeeded, prepared, launcher, marker, end, containers>>

\* A KILL for the container, at any command: the grace period after the TERM is over,
\* or the container has used more memory than its limit.  The launcher goes with it.
KillContainer ==
    /\ pc \in Commands
    /\ pc' = "ended"
    /\ end' = "killed"
    /\ launcher' = IF launcher = "running" THEN "failed" ELSE launcher
    /\ UNCHANGED <<shell, prepared, marker, stopping, containers>>

\* The grace period is over, or the container has ended: the pod goes away.
RemovePod ==
    /\ stopping = "pod"
    /\ pc # "gone"
    /\ pc' = "gone"
    /\ launcher' = "none"
    /\ UNCHANGED <<shell, prepared, marker, stopping, end, containers>>

\* A container that has ended is started again, unless the pod is being stopped.
RestartContainer ==
    /\ pc = "ended"
    /\ stopping # "pod"
    /\ containers < MaxContainers
    /\ containers' = containers + 1
    /\ pc' = "copy"
    /\ trap' = FALSE /\ term' = FALSE /\ killNeeded' = FALSE
    /\ prepared' = {} /\ launcher' = "none"
    /\ stopping' = "none" /\ end' = "none"
    /\ UNCHANGED marker

Next ==
    \/ Script
    \/ LauncherEnds
    \/ SendTerm
    \/ KillContainer
    \/ RemovePod
    \/ RestartContainer

Spec == Init /\ [][Next]_vars

\* The shell executes the script; the launcher may run for ever.
FairSpec == Spec /\ WF_vars(Script)

-----------------------------------------------------------------------------

\* The sidecar that collects the logs stops when it sees the marker: it must not
\* be there while the server runs, also not one left by an earlier container.
MarkerMeansStopped == marker => launcher # "running"

\* The server runs only with the configuration copied and the truststore imported
\* in its own container, whichever command failed in this one or in an earlier one.
LaunchPrepared == launcher = "running" => prepared = {"config", "truststore"}

\* The marker tells the two ends of a server apart: when the script has run one, it
\* is there only if that server ended with status 0 and the script with it, whatever
\* an earlier container has left; and it is missing after such an end only if the
\* marker itself could not be written or the container was killed, whatever a TERM
\* has done to the waiting.
MarkerTellsEnd ==
    pc = "ended" /\ launcher # "none" =>
        /\ marker => launcher = "ok" /\ end = "done"
        /\ launcher = "ok" => marker \/ end \in {"mark", "killed"}

\* A server that has ended well is announced to the sidecar, whenever TERM signals
\* arrive, unless the container is killed or the pod removed first, or the marker
\* cannot be written.
ShutdownAnnounced ==
    launcher = "ok" ~> (marker \/ pc = "gone" \/ end \in {"mark", "killed"})
=============================================================================
