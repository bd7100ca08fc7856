------------------------------ MODULE MountLife ------------------------------
(***************************************************************************)
(* What mounty promises about the end of a mount: it serves, drains the    *)
(* handles that are still open, and stops; and it exits with success only  *)
(* if the drain left no handle behind.  WriteBack implements this with the *)
(* PUTs of the drain, Shutdown with the signals and threads that lead to   *)
(* it.                                                                     *)
(***************************************************************************)
VARIABLES
  mode,      \* "running", "draining" or "stopped"
  undrained, \* open handles
  exit       \* how the last process ended

vars == <<mode, undrained, exit>>

Init ==
  /\ mode = "running"
  /\ undrained = {}
  /\ exit = "none"

\* Applications open and close files.
Serve ==
  /\ mode = "running"
  /\ UNCHANGED <<mode, exit>>

BeginDrain ==
  /\ mode = "running"
  /\ mode' = "draining"
  /\ UNCHANGED <<undrained, exit>>

\* The drain gives up handles, and only those it has stored.
Drain ==
  /\ mode = "draining"
  /\ undrained' \subseteq undrained
  /\ UNCHANGED <<mode, exit>>

\* The process ends by itself: with success only if nothing was left.
Finish ==
  /\ mode = "draining"
  /\ mode' = "stopped"
  /\ undrained' = {}
  /\ \/ exit' = "ok" /\ undrained = {}
     \/ exit' = "failed"

\* It is killed, or told to exit at once.
Kill ==
  /\ mode # "stopped"
  /\ mode' = "stopped"
  /\ undrained' = {}
  /\ exit' = "killed"

Mount ==
  /\ mode = "stopped"
  /\ mode' = "running"
  /\ undrained' = {}
  /\ exit' = "none"

Next == Serve \/ BeginDrain \/ Drain \/ Finish \/ Kill \/ Mount

Spec == Init /\ [][Next]_vars
=============================================================================
