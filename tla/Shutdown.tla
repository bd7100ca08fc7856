------------------------------ MODULE Shutdown -------------------------------
(***************************************************************************)
(* How a mount ends (mounty/src/main.rs on Linux): the main thread runs    *)
(* the FUSE session, drains the handles when it is over and chooses the    *)
(* exit code; a second thread waits for a signal and then tries to unmount *)
(* until the mount is gone; a task it spawns waits for a second signal,    *)
(* forces the unmount and ends the process.                                *)
(*                                                                         *)
(* Abstractions:                                                           *)
(*  - A callback waits on one HTTP call; the filer may never answer it,    *)
(*    and the client has no timeout.  What a callback or the drain does    *)
(*    with a handle is in WriteBack: here a callback opens or releases a   *)
(*    handle, and the drain stores one or fails to.                        *)
(*  - Sleeps are left out: any number of steps of others may happen        *)
(*    between two steps.  The number of attempts only serves the log.      *)
(*  - External: an unmount of an idle mount that is asked of the platform  *)
(*    succeeds, one of a mount in use fails or detaches it at once; the    *)
(*    session ends when the mount is detached and nothing uses it.         *)
(*    Looking for the mount point in the table needs no answer of the      *)
(*    mount (realpath reads links), but the command may fail to run.       *)
(***************************************************************************)
EXTENDS FiniteSets

CONSTANT Handles      \* handles that can be open at once

VARIABLES
  \* the platform
  attached,   \* the mount is in the table of mounts
  inUse,      \* a program has a file or its directory in the mount
  \* main and the session
  session,    \* where the main thread is
  handles,    \* fh_map
  todo,       \* handles the drain has still to visit
  run_result, \* whether session.run() returned Ok
  shutdown_failed,
  exit,       \* how the process ended
  \* install_shutdown_unmounter
  unmounter,  \* where its thread is
  mine,       \* it still holds the Mount object
  forcer,     \* where the task is that waits for the second signal
  forced_shutdown

platform == <<attached, inUse>>
main     == <<session, handles, todo, run_result, shutdown_failed, exit>>
signals  == <<unmounter, mine, forcer, forced_shutdown>>
vars     == <<platform, main, signals>>

Init ==
  /\ attached = TRUE
  /\ inUse = FALSE
  /\ session = "serving"
  /\ handles = {} /\ todo = {}
  /\ run_result = "none"
  /\ shutdown_failed = FALSE
  /\ exit = "none"
  /\ unmounter = "starting" /\ mine = TRUE
  /\ forcer = "none"
  /\ forced_shutdown = FALSE

Running == exit = "none"

-----------------------------------------------------------------------------
(* Programs and administrators *)

\* A program begins to use the mount, or the last one that does ends.
Use ==
  /\ attached
  /\ inUse' = TRUE
  /\ UNCHANGED <<attached, main, signals>>

Leave ==
  /\ inUse' = FALSE
  /\ UNCHANGED <<attached, main, signals>>

\* Someone else unmounts it (fusermount -u, or ExecStopPost of the service).
OtherUnmount ==
  /\ attached /\ ~inUse
  /\ attached' = FALSE
  /\ UNCHANGED <<inUse, main, signals>>

-----------------------------------------------------------------------------
(* The main thread *)

\* A callback begins and waits for the filer.  The kernel sends releases for
\* handles of programs that are gone.
Callbacks == {"opening", "releasing", "calling"}

BeginCallback(kind) ==
  /\ Running /\ session = "serving"
  /\ IF kind = "releasing" THEN handles # {} ELSE inUse
  /\ session' = kind
  /\ UNCHANGED <<platform, handles, todo, run_result, shutdown_failed, exit, signals>>

\* The filer answers and the callback returns.
EndCallback ==
  /\ Running /\ session \in Callbacks
  /\ \/ session = "opening" /\ \E h \in Handles : handles' = handles \cup {h}
     \/ session = "releasing" /\ \E h \in handles : handles' = handles \ {h}
     \/ session # "releasing" /\ handles' = handles
  /\ session' = "serving"
  /\ UNCHANGED <<platform, todo, run_result, shutdown_failed, exit, signals>>

\* session.run() returns, and drop(session) calls destroy, which starts the
\* drain: after the unmount, or because reading from the device failed.
BeginDrain(result) ==
  /\ Running /\ session = "serving"
  /\ result = "ok" => ~attached /\ ~inUse
  /\ session' = "draining"
  /\ todo' = handles
  /\ run_result' = result
  /\ UNCHANGED <<platform, handles, shutdown_failed, exit, signals>>

\* Variant with a plausible mistake: a released handle stays on the list.
DrainHandleAgain(h, stored) ==
  /\ Running /\ session = "draining" /\ h \in todo
  /\ handles' = IF stored THEN handles \ {h} ELSE handles
  /\ UNCHANGED <<platform, session, todo, run_result, shutdown_failed, exit, signals>>

\* One handle of the drain: it is released if all of it was stored.
DrainHandle(h, stored) ==
  /\ Running /\ session = "draining" /\ h \in todo
  /\ todo' = todo \ {h}
  /\ handles' = IF stored THEN handles \ {h} ELSE handles
  /\ UNCHANGED <<platform, session, run_result, shutdown_failed, exit, signals>>

\* Variant with a plausible mistake: failures are only logged.
EndDrainSilently ==
  /\ Running /\ session = "draining" /\ todo = {}
  /\ session' = "drained"
  /\ UNCHANGED <<platform, handles, todo, run_result, shutdown_failed, exit, signals>>

\* The end of shutdown_flush_all: mark_shutdown_failed if a handle failed.
EndDrain ==
  /\ Running /\ session = "draining" /\ todo = {}
  /\ session' = "drained"
  /\ shutdown_failed' = (handles # {})
  /\ UNCHANGED <<platform, handles, todo, run_result, exit, signals>>

\* main looks at forced_shutdown.
CheckForced ==
  /\ Running /\ session = "drained"
  /\ IF forced_shutdown THEN exit' = "killed" /\ UNCHANGED session
     ELSE session' = "checked" /\ UNCHANGED exit
  /\ UNCHANGED <<platform, handles, todo, run_result, shutdown_failed, signals>>

\* Variant with a plausible mistake: the result of the session is not looked at.
ReturnWithoutRun ==
  /\ Running /\ session = "checked"
  /\ exit' = IF shutdown_failed THEN "failed" ELSE "ok"
  /\ UNCHANGED <<platform, session, handles, todo, run_result, shutdown_failed, signals>>

\* Then at shutdown_failed and at the result of the session.
Return ==
  /\ Running /\ session = "checked"
  /\ exit' = IF shutdown_failed \/ run_result = "err" THEN "failed" ELSE "ok"
  /\ UNCHANGED <<platform, session, handles, todo, run_result, shutdown_failed, signals>>

-----------------------------------------------------------------------------
(* The unmounter thread *)

UnmounterGoes(from, to) ==
  /\ Running
  /\ unmounter = from
  /\ unmounter' = to

\* wait_for_shutdown_signal installs its handlers.
Install ==
  /\ UnmounterGoes("starting", "waiting")
  /\ UNCHANGED <<platform, main, mine, forcer, forced_shutdown>>

\* A signal before that has its default effect.
EarlySignal ==
  /\ Running /\ unmounter = "starting"
  /\ exit' = "killed"
  /\ UNCHANGED <<platform, session, handles, todo, run_result, shutdown_failed, signals>>

\* The first signal starts the loop, and a task that waits for the second.
FirstSignal ==
  /\ UnmounterGoes("waiting", "attempting")
  /\ forcer' = "spawned"
  /\ UNCHANGED <<platform, main, mine, forced_shutdown>>

\* unmounter.unmount(): the first call drops the Mount, which may detach it.
Attempt ==
  /\ \E to \in {"asking", "settling"} : UnmounterGoes("attempting", to)
  /\ mine' = FALSE
  /\ attached' \in IF mine THEN {attached, FALSE} ELSE {attached}
  /\ UNCHANGED <<inUse, main, forcer, forced_shutdown>>

\* is_mount_active: FALSE also when `mount` cannot be run.
Active(answer) == answer => attached

\* After a successful attempt.
CheckAttempt ==
  /\ \E answer \in BOOLEAN :
       /\ Active(answer)
       /\ UnmounterGoes("settling", IF answer THEN "asking" ELSE "returned")
  /\ UNCHANGED <<platform, main, mine, forcer, forced_shutdown>>

\* Variant with a plausible mistake: the platform is not asked.
AskNobody ==
  /\ UnmounterGoes("asking", "asked")
  /\ UNCHANGED <<platform, main, mine, forcer, forced_shutdown>>

\* request_platform_unmount, without force.
Ask ==
  /\ UnmounterGoes("asking", "asked")
  /\ attached' = (attached /\ inUse)
  /\ UNCHANGED <<inUse, main, mine, forcer, forced_shutdown>>

\* The end of a round, with its pause.
CheckAsked ==
  /\ \E answer \in BOOLEAN :
       /\ Active(answer)
       /\ UnmounterGoes("asked", IF answer THEN "attempting" ELSE "returned")
  /\ UNCHANGED <<platform, main, mine, forcer, forced_shutdown>>

-----------------------------------------------------------------------------
(* The task that waits for the second signal *)

ForcerGoes(from, to) ==
  /\ Running
  /\ forcer = from
  /\ forcer' = to

\* Variant with a plausible mistake: it listens only while the unmount is retried.
ListenWhileRetrying ==
  /\ unmounter # "returned"
  /\ ForcerGoes("spawned", "listening")
  /\ UNCHANGED <<platform, main, unmounter, mine, forced_shutdown>>

\* It begins to listen; a signal before that, or after the second, is lost.
Listen ==
  /\ ForcerGoes("spawned", "listening")
  /\ UNCHANGED <<platform, main, unmounter, mine, forced_shutdown>>

SecondSignal ==
  /\ ForcerGoes("listening", "forcing")
  /\ forced_shutdown' = TRUE
  /\ UNCHANGED <<platform, main, unmounter, mine>>

\* is_mount_active and force_unmount, whose commands may all fail.
ForceUnmount ==
  /\ ForcerGoes("forcing", "exiting")
  /\ attached' \in {attached, FALSE}
  /\ UNCHANGED <<inUse, main, unmounter, mine, forced_shutdown>>

\* exit(130), wherever the other threads are.
ForceExit ==
  /\ ForcerGoes("exiting", "exited")
  /\ exit' = "killed"
  /\ UNCHANGED <<platform, session, handles, todo, run_result, shutdown_failed,
                 unmounter, mine, forced_shutdown>>

-----------------------------------------------------------------------------
Programs == Use \/ Leave \/ OtherUnmount

Filer == EndCallback \/ \E h \in Handles, stored \in BOOLEAN : DrainHandle(h, stored)

MainStep == BeginDrain("ok") \/ EndDrain \/ CheckForced \/ Return

UnmounterStep == Install \/ Attempt \/ CheckAttempt \/ Ask \/ CheckAsked

ForcerStep == Listen \/ ForceUnmount \/ ForceExit

Next ==
  \/ Programs
  \/ \E kind \in Callbacks : BeginCallback(kind)
  \/ Filer
  \/ MainStep
  \/ BeginDrain("err")
  \/ UnmounterStep
  \/ ForcerStep
  \/ EarlySignal \/ FirstSignal \/ SecondSignal

\* The threads of the process keep running.  Nothing is assumed of programs, of
\* the filer, or of whoever sends signals.
Fairness == WF_vars(MainStep) /\ WF_vars(UnmounterStep) /\ WF_vars(ForcerStep)

Spec == Init /\ [][Next]_vars /\ Fairness

-----------------------------------------------------------------------------
(* Properties *)

TypeOK ==
  /\ attached \in BOOLEAN /\ inUse \in BOOLEAN
  /\ session \in {"serving", "draining", "drained", "checked"} \cup Callbacks
  /\ handles \in SUBSET Handles /\ todo \in SUBSET handles
  /\ run_result \in {"none", "ok", "err"}
  /\ shutdown_failed \in BOOLEAN
  /\ exit \in {"none", "ok", "failed", "killed"}
  /\ unmounter \in {"starting", "waiting", "attempting", "settling", "asking",
                    "asked", "returned"}
  /\ mine \in BOOLEAN
  /\ forcer \in {"none", "spawned", "listening", "forcing", "exiting", "exited"}
  /\ forced_shutdown \in BOOLEAN

\* How a mount ends, as the rest of the system sees it.
Life == INSTANCE MountLife WITH
  mode <- IF exit # "none" THEN "stopped"
          ELSE IF session \in {"draining", "drained", "checked"} THEN "draining"
          ELSE "running",
  undrained <- IF exit # "none" THEN {} ELSE handles

\* Whatever the threads do to each other, and however many signals arrive: the
\* process exits with success only after a drain that left no handle behind
\* (shutdown_failed and forced_shutdown reach the exit code of main).
LifeImplemented == Life!Spec

\* Once a signal was taken, sending another one ends the process, even if the
\* filer never answers, the unmount never succeeds, programs never leave, or the
\* unmounter has given up (the task of install_shutdown_unmounter depends on none
\* of them).
Signalled == unmounter \notin {"starting", "waiting"}

SecondSignalEnds == WF_vars(SecondSignal) => (Signalled ~> ~Running)

\* One signal is enough when the mount is not in use for good and the filer
\* answers: the unmount is retried until the session ends, and the drain ends the
\* process - unless `mount` could not be run, which the loop takes for success.
GaveUp == unmounter = "returned" /\ attached

FirstSignalEnds ==
  (<>[]~inUse /\ WF_vars(Filer)) => (Signalled ~> ~Running \/ GaveUp)

\* A mount that ended by itself with success is not left in the table of mounts, so
\* that the service can mount again: nobody has to clean up after exit code 0.
NothingLeftMounted == exit = "ok" => ~attached /\ ~inUse
=============================================================================
