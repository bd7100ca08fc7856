----------------------------- MODULE FileContract -----------------------------
(***************************************************************************)
(* What a mount promises about the contents of a file, whatever it does    *)
(* with buffers, PUTs and their failures.  WriteBack implements this.      *)
(*                                                                         *)
(* A file that one handle writes stands for what its applications were     *)
(* told.  While bytes are only accepted, less than a chunk of them in a     *)
(* row is missing on the filer.  After a close() that returned 0 nothing is, and  *)
(* no later failure, close, release or end of the process changes that.    *)
(* Once bytes were lost no close() returns 0 until the writer is gone.     *)
(***************************************************************************)
EXTENDS Integers

CONSTANTS Files, Offsets,
          Contents,  \* records of the size of a file and the byte at each offset
          Empty,     \* those of an empty file
          Chunk      \* a handle buffers less

VARIABLES
  writers,   \* the handles that have a file open for writing
  said,      \* what a file contains, as the applications were told
  stored,    \* what the filer has of it
  standing,  \* "kept": all of it; "open": all but what is in a buffer; "failed": bytes
             \* were lost, and close() says so; "none": nothing is promised
  mode,      \* of the mount: "running" or "stopped"
  exit       \* how it ended

vars == <<writers, said, stored, standing, mode, exit>>

\* The offsets at which two contents differ.
Missing(c, d) == {o \in Offsets : c.data[o] # d.data[o]}

Promise(f) ==
  /\ standing[f] = "kept" => stored[f] = said[f]
  /\ standing[f] = "open" =>
       /\ stored[f].size <= said[f].size
       /\ \A o, p \in Missing(stored[f], said[f]) : o - p < Chunk - 1

Promises ==
  /\ said \in [Files -> Contents] /\ stored \in [Files -> Contents]
  /\ standing \in [Files -> {"kept", "open", "failed", "none"}]
  /\ \A f \in Files : Promise(f)

Init ==
  /\ writers = [f \in Files |-> {}]
  /\ stored = [f \in Files |-> Empty] /\ said = stored
  /\ standing = [f \in Files |-> "kept"]
  /\ mode = "running" /\ exit = "none"

Same(f) ==
  /\ writers'[f] = writers[f] /\ said'[f] = said[f]
  /\ stored'[f] = stored[f] /\ standing'[f] = standing[f]

\* A file that nobody writes is opened, and emptied if the application asks for it.
Begin(f) ==
  /\ writers[f] = {}
  /\ stored'[f] \in {stored[f], Empty}
  /\ said'[f] = stored'[f]
  /\ standing'[f] = IF writers'[f] = {} THEN "kept" ELSE "open"

\* A write is accepted, or refused as bytes could not be stored.
Write(f) ==
  /\ writers[f] # {} /\ writers'[f] = writers[f]
  /\ \/ standing[f] \in {"kept", "open"} /\ standing'[f] = "open"
     \/ /\ standing[f] \in {"kept", "open"} /\ standing'[f] = "failed"
        /\ said'[f] = said[f]
     \/ standing[f] = "failed" /\ standing'[f] = "failed"

\* Bytes are stored, or lost: by close(), by a release, by the drain.  A handle that
\* is given up before close() was told takes the promise with it.
Store(f) ==
  /\ writers'[f] \subseteq writers[f]
  /\ standing'[f] # "none" => said'[f] = said[f]
  /\ \/ standing[f] \in {"kept", "open"} /\ standing'[f] = "kept"
     \/ standing[f] = "open" /\ standing'[f] \in {"open", "failed"}
     \/ standing[f] = "failed" /\ standing'[f] = "failed"
     \/ /\ standing[f] \in {"open", "failed"} /\ standing'[f] = "none"
        /\ writers'[f] # writers[f]

\* The size is set: the bytes that stay are those that were there.
Truncate(f) ==
  /\ writers'[f] = writers[f]
  /\ \A o \in Offsets : o < said[f].size /\ o < said'[f].size =>
       said'[f].data[o] = said[f].data[o]
  /\ standing[f] # "none" /\ standing'[f] = standing[f]

\* A second writer, another client, or a call that failed without being undone.
Lose(f) ==
  /\ writers[f] \subseteq writers'[f]
  /\ standing'[f] = "none"

Unpromised(f) == standing[f] = "none" /\ standing'[f] = "none"

Step(f) ==
  /\ \A g \in Files \ {f} : Same(g)
  /\ \/ mode = "running" /\ (Begin(f) \/ Write(f) \/ Store(f) \/ Truncate(f))
     \/ Lose(f)
     \/ Unpromised(f)
  /\ UNCHANGED <<mode, exit>>

\* The mount ends, or is killed: what was kept stays, and nothing else is promised.
\* With success it ends only if nothing was missing or lost.
Stop ==
  /\ mode = "running" /\ mode' = "stopped"
  /\ stored' = stored
  /\ \A f \in Files :
       /\ writers'[f] = {}
       /\ IF standing[f] = "kept" THEN said'[f] = said[f] /\ standing'[f] = "kept"
          ELSE standing'[f] = "none"
  /\ exit' = "ok" => \A f \in Files : standing[f] \in {"kept", "none"}

Start ==
  /\ mode = "stopped" /\ mode' = "running"
  /\ exit' = "none"
  /\ UNCHANGED <<writers, said, stored, standing>>

Next == ((\E f \in Files : Step(f)) \/ Stop \/ Start) /\ Promises'

Spec == Init /\ [][Next]_vars
=============================================================================
