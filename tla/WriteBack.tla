------------------------------ MODULE WriteBack ------------------------------
(***************************************************************************)
(* The write path of one mounty mount: open file handles, the write-back   *)
(* buffer each of them holds, the HTTP PUTs that carry the buffers to the  *)
(* filer, truncation, release, and the drain at shutdown                   *)
(* (mounty/src/fs/remote_fs/file_ops.rs, mounty/src/fs/utils/              *)
(* file_handle.rs, the fuse callbacks flush and release, and the part of   *)
(* filer/src/handlers/write.rs that applies a PUT).                        *)
(*                                                                         *)
(* Abstractions:                                                           *)
(*  - fuser runs the callbacks of a mount one at a time, so a handler is   *)
(*    one step, the HTTP calls it makes and their failures included: each  *)
(*    call may fail without reaching the filer, fail after it was applied, *)
(*    or fail with a prefix of its body applied.  A crash between two      *)
(*    calls of a handler is the call that failed followed by Kill.  The    *)
(*    two handlers that loop over several handles (setattr with a size,    *)
(*    and the drain) take one step per handle, in any order, as the        *)
(*    HashMap they iterate over has none.                                  *)
(*  - A byte is tagged with the offset the application wrote it at, so     *)
(*    that a byte that lands elsewhere shows.                              *)
(*  - Files are named by their path, which does not change here, and files *)
(*    are not removed.  What read_bytes serves is not modelled.            *)
(***************************************************************************)
EXTENDS Integers, Sequences, FiniteSets

CONSTANTS Files,      \* paths of regular files
          Handles,    \* slots of fh_map; a slot is reused after release
          Vals,       \* payload of the bytes applications write
          Zero,       \* the byte a file is extended with
          MaxSize,    \* bound: no file grows beyond this many bytes
          WriteBufCap,\* write_buf_cap = config.chunk_size
          RemoteWrites\* whether other clients of the filer write too

ASSUME Assumptions ==
  /\ Files # {}
  /\ MaxSize \in Nat
  /\ WriteBufCap \in Nat \ {0}
  /\ RemoteWrites \in BOOLEAN

None == -1            \* file_size of a handle on a new file

VARIABLES
  present,   \* the files that exist on the filer
  server,    \* their contents
  open,      \* fh_map: the handles that are open
  fh,        \* their FhState
  mode,      \* "running", "draining" (begin_shutdown) or "stopped"
  task,      \* the setattr or drain loop in progress
  exit,      \* how the last process ended
  \* What the applications of this mount were told, for the properties:
  held,      \* files whose contents this model holds the mount to
  want,      \* what those would contain on a local file system
  synced     \* handles whose close() returned 0 since their last write

store == <<present, server>>
mount == <<open, fh, mode, task, exit>>
told  == <<held, want, synced>>
vars  == <<store, mount, told>>

-----------------------------------------------------------------------------
(* Bytes, contents and handles *)

Offsets == 0 .. MaxSize - 1
Sizes   == 0 .. MaxSize
Byte    == (Offsets \X Vals) \cup {Zero}
Content == [size : Sizes, data : [Offsets -> Byte]]
Empty   == [size |-> 0, data |-> [o \in Offsets |-> Zero]]

\* File::set_len: cut, or extend with zeros.
SetLen(c, n) ==
  [size |-> n, data |-> [o \in Offsets |-> IF o < n THEN c.data[o] ELSE Zero]]

\* The first n bytes of b written at offset off of c.
WriteAt(c, off, b, n) ==
  IF n = 0 THEN c
  ELSE [size |-> IF c.size < off + n THEN off + n ELSE c.size,
        data |-> [o \in Offsets |->
                    IF off <= o /\ o < off + n THEN b[o - off + 1] ELSE c.data[o]]]

\* n bytes of payload v that an application writes at offset off.
Payload(off, n, v) == [i \in 1..n |-> <<off + i - 1, v>>]

FhState == [file : Files, writable : BOOLEAN, file_size : Sizes \cup {None},
            write_buf : Seq(Byte), write_buf_offset : Sizes,
            pending_errors : BOOLEAN, dirty : BOOLEAN]

\* alloc_fh
NewFh(f, wr, size) ==
  [file |-> f, writable |-> wr, file_size |-> size, write_buf |-> <<>>,
   write_buf_offset |-> 0, pending_errors |-> FALSE, dirty |-> FALSE]

\* What a slot of fh_map without a handle holds.
FreeSlot == NewFh(CHOOSE f \in Files : TRUE, FALSE, None)

HandlesOf(f) == {h \in open : fh[h].file = f}
Writers(f)   == {h \in HandlesOf(f) : fh[h].writable}

Idle == [name |-> "idle", files |-> {}, size |-> 0, todo |-> {}]

Ready == mode = "running" /\ task = Idle

-----------------------------------------------------------------------------
(* HTTP calls.  A call that changes nothing on either side is not a step.  *)

\* How a PUT with a body of n bytes can end: bytes applied, and the reply.
PutResults(n) == {r \in [applied : 0..n, ok : BOOLEAN] : r.ok => r.applied = n}

\* A call whose effect is atomic on the filer: applied or not, and the reply.
CallResults == {r \in [applied : BOOLEAN, ok : BOOLEAN] : r.ok => r.applied}

\* Variant with a plausible mistake: the offset advances before and after the PUT.
FlushBufferAdvancesTwice(c, s, r) ==
  IF s.write_buf = <<>> THEN [content |-> c, state |-> s, ok |-> TRUE]
  ELSE [content |-> WriteAt(c, s.write_buf_offset, s.write_buf, r.applied),
        state   |-> [s EXCEPT !.write_buf = <<>>,
                              !.write_buf_offset = @ + 2 * Len(s.write_buf),
                              !.pending_errors = @ \/ ~r.ok],
        ok      |-> r.ok]

\* flush_write_buffer: the handle s and the content c of its file afterwards.
\* The buffer is taken before the PUT, and its offset advances only on success.
FlushBuffer(c, s, r) ==
  IF s.write_buf = <<>> THEN [content |-> c, state |-> s, ok |-> TRUE]
  ELSE [content |-> WriteAt(c, s.write_buf_offset, s.write_buf, r.applied),
        state   |-> IF r.ok
                    THEN [s EXCEPT !.write_buf = <<>>,
                                   !.write_buf_offset = @ + Len(s.write_buf)]
                    ELSE [s EXCEPT !.write_buf = <<>>, !.pending_errors = TRUE],
        ok      |-> r.ok]

\* flush_and_finalize_handle: r is the result of the PUT of the buffer, q that
\* of the PUT of the final size, which a clean handle does not send.  dirty is
\* reset only where the caller gives the handle up.
Finalize(c, s, r, q) ==
  LET flushed == FlushBuffer(c, s, r)
      t       == flushed.state
      sends   == flushed.ok /\ t.dirty /\ t.file_size # None
  IN [content |-> IF sends /\ q.applied THEN SetLen(flushed.content, t.file_size)
                  ELSE flushed.content,
      state   |-> t,
      ok      |-> /\ flushed.ok
                  /\ t.dirty => sends /\ q.ok
                  /\ ~t.pending_errors]

-----------------------------------------------------------------------------
(* Handlers *)

Init ==
  /\ present \in SUBSET Files
  /\ server = [f \in Files |-> Empty]
  /\ open = {}
  /\ fh = [h \in Handles |-> FreeSlot]
  /\ mode = "running"
  /\ task = Idle
  /\ exit = "none"
  /\ held = Files
  /\ want = server
  /\ synced = {}

\* Henceforth the files of fs are held to the contents w.
Hold(fs, w) ==
  /\ held' = fs
  /\ want' = [f \in Files |-> IF f \in fs THEN w[f] ELSE Empty]

\* The application obtains handle h on f.  A file nobody writes is held to what
\* is on the filer; with a second writer, or a truncation under a writer, the
\* buffers of several handles mix and the file is no longer held to anything.
\* intact: the call left the contents as the application asked for.
Opened(h, f, wr, trunc, size, intact) ==
  LET alone == Writers(f) = {}
      keep  == intact /\ (alone \/ (f \in held /\ ~wr /\ ~trunc))
  IN /\ open' = open \cup {h}
     /\ fh' = [fh EXCEPT ![h] = NewFh(f, wr, size)]
     /\ Hold(IF keep THEN held \cup {f} ELSE held \ {f},
             [want EXCEPT ![f] = IF trunc THEN Empty
                                 ELSE IF f \in held THEN @ ELSE server[f]])
     /\ synced' = synced \ {h}
     /\ UNCHANGED <<mode, task, exit>>

\* open: the metadata GET succeeds, and so does the truncating PUT if there is one.
Open(h, f, wr, trunc) ==
  /\ Ready
  /\ h \notin open
  /\ f \in present
  /\ server' = IF trunc THEN [server EXCEPT ![f] = Empty] ELSE server
  /\ Opened(h, f, wr, trunc, server'[f].size, TRUE)
  /\ UNCHANGED present

\* create_file, once a lookup for O_EXCL has not found the name (the caches it
\* consults may be out of date, so this says nothing of the filer).
\* metaOk: the metadata GET returned an entry, which only an existing file has.
Create(h, f, wr, trunc, metaOk) ==
  LET put  == trunc \/ ~metaOk
      gone == f \in present /\ ~metaOk /\ ~trunc
  IN /\ Ready
     /\ h \notin open
     /\ metaOk => f \in present
     /\ server' = IF put THEN [server EXCEPT ![f] = Empty] ELSE server
     /\ present' = present \cup {f}
     /\ Opened(h, f, wr, trunc \/ f \notin present,
               IF metaOk THEN server'[f].size ELSE None,
               gone => server[f] = Empty)

\* The empty PUT of open or create_file took effect but its reply was lost: the
\* caller gets an error and no handle.
EmptyPutUnacknowledged(f) ==
  /\ Ready
  /\ server' = [server EXCEPT ![f] = Empty]
  /\ present' = present \cup {f}
  /\ Hold(held \ {f}, want)
  /\ UNCHANGED <<mount, synced>>

\* Whether write_bytes flushes before it appends data meant for offset off (first
\* two variants with a plausible mistake: only data before, or beyond, the end of the
\* buffer does).
NeedsFlushOnlyBackwards(s, off) ==
  s.write_buf # <<>> /\ off < s.write_buf_offset + Len(s.write_buf)
NeedsFlushOnlyForwards(s, off) ==
  s.write_buf # <<>> /\ off > s.write_buf_offset + Len(s.write_buf)
NeedsFlush(s, off) ==
  s.write_buf # <<>> /\ off # s.write_buf_offset + Len(s.write_buf)

\* Whether it flushes after that (first a variant that is off by one).
IsFullOnlyBeyond(s) == Len(s.write_buf) > WriteBufCap
IsFull(s) == Len(s.write_buf) >= WriteBufCap

\* The buffer of s after write_bytes has appended data to it.
Extend(s, off, data) ==
  [s EXCEPT !.write_buf = @ \o data,
            !.write_buf_offset = IF s.write_buf = <<>> THEN off ELSE @,
            !.dirty = TRUE]

\* file_size after a successful write (first a variant that forgets what is
\* still in the buffer).
GrowToBufferStart(s) ==
  [s EXCEPT !.file_size = IF s.write_buf_offset > @ THEN s.write_buf_offset ELSE @]
Grow(s) ==
  LET newEnd == s.write_buf_offset + Len(s.write_buf)
  IN [s EXCEPT !.file_size = IF newEnd > @ THEN newEnd ELSE @]

\* The end of write_bytes: the file content and the handle it leaves, and
\* whether the n bytes of payload v at off were accepted.
Wrote(h, content, state, ok, off, n, v) ==
  /\ server' = [server EXCEPT ![fh[h].file] = content]
  /\ fh' = [fh EXCEPT ![h] = IF ok THEN Grow(state) ELSE state]
  /\ Hold(held, IF ok THEN [want EXCEPT ![fh[h].file] =
                              WriteAt(@, off, Payload(off, n, v), n)]
                ELSE want)

\* The two flushes of write_bytes, if they happen.
FlushFirst(c, s, off, r) ==
  IF NeedsFlush(s, off) THEN FlushBuffer(c, s, r)
  ELSE [content |-> c, state |-> s, ok |-> TRUE]
FlushFull(c, s, r) ==
  IF IsFull(s) THEN FlushBuffer(c, s, r)
  ELSE [content |-> c, state |-> s, ok |-> TRUE]

\* write_bytes.  Its two branches differ only in whether the buffer is flushed
\* before data that does not continue it; both flush a buffer that got full.
Write(h, off, n, v) ==
  LET s == fh[h]
  IN /\ Ready
     /\ h \in open /\ s.writable
     /\ off + n <= MaxSize
     /\ \E r1 \in PutResults(Len(s.write_buf)) :
          LET first  == FlushFirst(server[s.file], s, off, r1)
              filled == Extend(first.state, off, Payload(off, n, v))
          IN \/ ~first.ok /\ Wrote(h, first.content, first.state, FALSE, off, n, v)
             \/ /\ first.ok
                /\ \E r2 \in PutResults(Len(filled.write_buf)) :
                     LET second == FlushFull(first.content, filled, r2)
                     IN Wrote(h, second.content, second.state, second.ok, off, n, v)
     /\ synced' = synced \ {h}
     /\ UNCHANGED <<present, open, mode, task, exit>>

\* How the PUT of a handle's buffer can end.
BufferResults(h) == PutResults(Len(fh[h].write_buf))

\* What close() is told: errors of earlier flushes count, and stay (first a variant
\* that looks at this flush only).
CloseSucceedsLately(res) == res.ok
CloseSucceeds(res) == res.ok /\ ~res.state.pending_errors

\* The flush callback, which close() waits for.
Flush(h) ==
  /\ Ready
  /\ h \in open
  /\ \E r \in BufferResults(h) :
       LET res == FlushBuffer(server[fh[h].file], fh[h], r)
       IN /\ server' = [server EXCEPT ![fh[h].file] = res.content]
          /\ fh' = [fh EXCEPT ![h] = res.state]
          /\ synced' = IF CloseSucceeds(res)
                       THEN synced \cup {h} ELSE synced \ {h}
  /\ UNCHANGED <<present, open, mode, task, exit, held, want>>

\* The release callback: an error is only logged, and the handle goes away.
Release(h) ==
  LET f == fh[h].file
  IN /\ Ready
     /\ h \in open
     /\ open' = open \ {h}
     /\ fh' = [fh EXCEPT ![h] = FreeSlot]
     /\ synced' = synced \ {h}
     /\ \E r \in BufferResults(h), q \in CallResults :
          LET res == Finalize(server[f], fh[h], r, q)
          IN /\ server' = [server EXCEPT ![f] = res.content]
             /\ Hold(IF fh[h].writable /\ h \notin synced /\ ~res.ok
                     THEN held \ {f} ELSE held, want)
     /\ UNCHANGED <<present, mode, task, exit>>

\* setattr with a size, up to the loop over the handles of the inode (first a
\* variant that does not flush them).
BeginSetSizeUnflushed(f, n) ==
  /\ Ready
  /\ f \in present
  /\ task' = [name |-> "setattr", files |-> {f}, size |-> n, todo |-> {}]
  /\ UNCHANGED <<store, open, fh, mode, exit, told>>
BeginSetSize(f, n) ==
  /\ Ready
  /\ f \in present
  /\ task' = [name |-> "setattr", files |-> {f}, size |-> n, todo |-> HandlesOf(f)]
  /\ UNCHANGED <<store, open, fh, mode, exit, told>>

\* One round of that loop: the result of the flush is ignored.
SetSizeFlush(h) ==
  /\ task.name = "setattr" /\ h \in task.todo
  /\ \E r \in BufferResults(h) :
       LET res == FlushBuffer(server[fh[h].file], fh[h], r)
       IN /\ server' = [server EXCEPT ![fh[h].file] = res.content]
          /\ fh' = [fh EXCEPT ![h] = [res.state EXCEPT !.file_size = task.size,
                                                       !.dirty = FALSE]]
  /\ task' = [task EXCEPT !.todo = @ \ {h}]
  /\ UNCHANGED <<present, open, mode, exit, told>>

\* The PUT of the new size, and the reply to the application.
SetSizePut(f) ==
  /\ task.name = "setattr" /\ f \in task.files /\ task.todo = {}
  /\ \E r \in CallResults :
       /\ server' = IF r.applied THEN [server EXCEPT ![f] = SetLen(@, task.size)] ELSE server
       /\ IF r.ok THEN Hold(held, [want EXCEPT ![f] = SetLen(@, task.size)])
          ELSE Hold(held \ {f}, want)
  /\ task' = Idle
  /\ UNCHANGED <<present, open, fh, mode, exit, synced>>

-----------------------------------------------------------------------------
(* Shutdown, crash, other clients *)

\* destroy -> shutdown_flush_all
BeginDrain ==
  /\ Ready
  /\ mode' = "draining"
  /\ task' = [Idle EXCEPT !.name = "drain", !.todo = open]
  /\ UNCHANGED <<store, open, fh, exit, told>>

\* One round of its loop: the handle is released only if all of it succeeded.
DrainHandle(h) ==
  LET f == fh[h].file
  IN /\ task.name = "drain" /\ h \in task.todo
     /\ \E r \in BufferResults(h), q \in CallResults :
          LET res == Finalize(server[f], fh[h], r, q)
          IN /\ server' = [server EXCEPT ![f] = res.content]
             /\ open' = IF res.ok THEN open \ {h} ELSE open
             /\ fh' = [fh EXCEPT ![h] = IF res.ok THEN FreeSlot
                                        ELSE res.state]
     /\ task' = [task EXCEPT !.todo = @ \ {h}]
     /\ UNCHANGED <<present, mode, exit, told>>

\* The process ends: files with a handle it gave up on are written off unless
\* the exit code says that all went well.
Stop(code) ==
  /\ exit' = code
  /\ mode' = "stopped"
  /\ task' = Idle
  /\ open' = {}
  /\ fh' = [h \in Handles |-> FreeSlot]
  /\ Hold({f \in held : code = "ok" \/ Writers(f) \subseteq synced}, want)
  /\ synced' = {}
  /\ UNCHANGED store

\* A variant that ignores the failures of the drain.
FinishDrainAlwaysOk == task.name = "drain" /\ task.todo = {} /\ Stop("ok")

\* The handles still open are those whose drain failed (mark_shutdown_failed),
\* and main turns that into an error exit.
FinishDrain ==
  /\ task.name = "drain" /\ task.todo = {}
  /\ Stop(IF open = {} THEN "ok" ELSE "failed")

\* A crash, or the second signal: exit(130) wherever the handlers are.
Kill == mode # "stopped" /\ Stop("killed")

\* The user mounts again.
Mount ==
  /\ mode = "stopped"
  /\ mode' = "running"
  /\ exit' = "none"
  /\ UNCHANGED <<store, open, fh, task, told>>

\* Another client of the filer writes.
RemoteWrite(f, off, n, v) ==
  /\ RemoteWrites
  /\ off + n <= MaxSize
  /\ server' = [server EXCEPT ![f] = WriteAt(@, off, Payload(off, n, v), n)]
  /\ present' = present \cup {f}
  /\ Hold(held \ {f}, want)
  /\ UNCHANGED <<mount, synced>>

-----------------------------------------------------------------------------
OpenOrCreate ==
  \E h \in Handles, f \in Files, wr, trunc \in BOOLEAN :
    \/ Open(h, f, wr, trunc)
    \/ \E metaOk \in BOOLEAN : Create(h, f, wr, trunc, metaOk)

WriteSome ==
  \E h \in open, off \in Offsets, n \in 1..WriteBufCap, v \in Vals : Write(h, off, n, v)

SetSize ==
  \/ \E f \in Files, n \in Sizes : BeginSetSize(f, n)
  \/ \E h \in open : SetSizeFlush(h)
  \/ \E f \in Files : SetSizePut(f)

Close == \E h \in open : Flush(h) \/ Release(h)

Shutdown ==
  \/ BeginDrain
  \/ \E h \in open : DrainHandle(h)
  \/ FinishDrain
  \/ Kill
  \/ Mount

Environment ==
  \E f \in Files : \/ EmptyPutUnacknowledged(f)
                   \/ \E off \in Offsets, n \in 1..WriteBufCap, v \in Vals :
                        RemoteWrite(f, off, n, v)

Next == OpenOrCreate \/ WriteSome \/ SetSize \/ Close \/ Shutdown \/ Environment

Spec == Init /\ [][Next]_vars

-----------------------------------------------------------------------------
(* Properties *)

\* Types.
TypeOK ==
  /\ present \in SUBSET Files
  /\ server \in [Files -> Content]
  /\ open \in SUBSET Handles
  /\ fh \in [Handles -> FhState]
  /\ mode \in {"running", "draining", "stopped"}
  /\ task \in [name : {"idle", "setattr", "drain"}, files : SUBSET Files,
               size : Sizes, todo : SUBSET Handles]
  /\ exit \in {"none", "ok", "failed", "killed"}
  /\ held \in SUBSET Files
  /\ want \in [Files -> Content]
  /\ synced \in SUBSET Handles

\* Whatever fails, and whoever else writes: a byte an application wrote is never
\* stored at another offset than the one it was written at (write_bytes and
\* flush_write_buffer keep buffer and buffer offset together).
BytesInPlace ==
  \A f \in Files : \A o \in Offsets :
    server[f].data[o] \in ({o} \X Vals) \cup {Zero}

\* The size that release will set the file to (flush_and_finalize_handle) never
\* cuts off bytes that are still in the handle's buffer, and a handle that has
\* accepted a write can always be finalized, unless an error was recorded.
FinalSizeCoversBuffer ==
  \A h \in open :
    /\ fh[h].write_buf # <<>> =>
         fh[h].write_buf_offset + Len(fh[h].write_buf) <= fh[h].file_size
    /\ fh[h].dirty /\ fh[h].file_size = None => fh[h].pending_errors

\* What the filer would hold if the buffer of s were flushed to c.
View(c, s) == WriteAt(c, s.write_buf_offset, s.write_buf, Len(s.write_buf))

\* As long as no flush of a file's only writer failed, what the filer holds
\* together with the writer's buffer is what the application was told: no write,
\* flush, truncation or failed call of anyone else loses or resurrects a byte.
ViewIntact ==
  \A f \in held :
    \A h \in Writers(f) : ~fh[h].pending_errors =>
      View(server[f], fh[h]) = want[f]

\* Once close() has returned 0 the filer holds everything the application was
\* told is written, even if flushes failed before: an error stays pending, so that
\* every later close() reports it.
SyncedDurable ==
  \A h \in open : h \in synced /\ fh[h].writable /\ fh[h].file \in held
                    => server[fh[h].file] = want[fh[h].file]

\* A file nobody has open for writing is on the filer as the applications were
\* told, after a release whatever its last PUT did, and after a shutdown drain
\* that let the process exit with success.
DurableAtRest ==
  \A f \in held : Writers(f) = {} => server[f] = want[f]

\* A handle never holds a full chunk between two handlers, so that memory is
\* bounded by one chunk per open handle.
BufferBounded == \A h \in open : Len(fh[h].write_buf) < WriteBufCap

\* How a mount ends, as Shutdown sees it too: the handles that are still open are
\* those the drain has not stored.
Life == INSTANCE MountLife WITH undrained <- open

\* The drain takes on no new handle, gives up only handles whose PUTs all
\* succeeded, and lets the process exit with success only if none is left
\* (shutdown_flush_all, mark_shutdown_failed).
LifeImplemented == Life!Spec

\* How a file stands by the contract: a writer that has not been closed with success
\* since its last write may hold bytes back, and one with a pending error lost some.
Standing(f) ==
  IF f \notin held THEN "none"
  ELSE IF Writers(f) \subseteq synced THEN "kept"
  ELSE IF \E h \in Writers(f) : fh[h].pending_errors THEN "failed"
  ELSE "open"

Contract ==
  INSTANCE FileContract WITH
    Contents <- Content, Chunk <- WriteBufCap,
    writers <- [f \in Files |-> Writers(f)], said <- want, stored <- server,
    standing <- [f \in Files |-> Standing(f)],
    mode <- IF mode = "stopped" THEN "stopped" ELSE "running"

\* Close-to-open durability, whatever fails (flush_write_buffer, the flush and release
\* callbacks, setattr, the drain): a byte is at risk only while it is in the buffer,
\* less than a chunk of them at a time; once close() returned 0 they are all safe, from
\* a crash too; and an error is told by every close() until the handle is gone.
ContractImplemented == Contract!Spec
-----------------------------------------------------------------------------
(* The invariant from which the properties above follow by induction *)

\* A buffer holds the bytes for the offsets it will be written at, within bounds.
Placed(s) ==
  /\ s.write_buf_offset + Len(s.write_buf) <= MaxSize
  /\ \A i \in 1..Len(s.write_buf) : s.write_buf[i] \in {s.write_buf_offset + i - 1} \X Vals

BuffersPlaced == \A h \in open : Placed(fh[h])

\* A closed slot is as it was at the start.
ClosedSlots == \A h \in Handles \ open : fh[h] = FreeSlot

\* setattr works on one file and visits handles of that file.
TaskOK ==
  /\ task.todo \subseteq open
  /\ task.name = "setattr" =>
       \E f \in Files : task.files = {f} /\ \A h \in task.todo : fh[h].file = f

BufferInv ==
  /\ TypeOK /\ BuffersPlaced /\ ClosedSlots /\ TaskOK
  /\ BytesInPlace /\ FinalSizeCoversBuffer /\ BufferBounded

\* No byte lies beyond the end of a file, so setting its size to what it is
\* changes nothing.
Padded(c) == \A o \in Offsets : o >= c.size => c.data[o] = Zero

Normal == \A f \in Files : Padded(server[f])

\* Only writers buffer bytes or have a size to set.
ReadersClean ==
  \A h \in open : ~fh[h].writable => fh[h].write_buf = <<>> /\ ~fh[h].dirty

\* setattr is done with handle h of file f.
Visited(f, h) == task.name = "setattr" /\ f \in task.files /\ h \notin task.todo

VisitedFlushed == \A h \in open : Visited(fh[h].file, h) => fh[h].write_buf = <<>>

SyncedClean == \A h \in open \cap synced : fh[h].write_buf = <<>> /\ ~fh[h].pending_errors

\* s knows the size of w; a handle on a new file has none, and the file is empty.
Knows(s, w) == s.file_size = w.size \/ (s.file_size = None /\ w.size = 0)

\* A file that is held has one writer, which shows what is wanted and knows its size
\* or the one that setattr is about to set; or none, and the filer has what is wanted.
Session(f) ==
  /\ \A g, h \in Writers(f) : g = h
  /\ \A h \in Writers(f) : ~fh[h].pending_errors =>
       /\ View(server[f], fh[h]) = want[f]
       /\ IF Visited(f, h) THEN fh[h].file_size = task.size ELSE Knows(fh[h], want[f])
  /\ Writers(f) = {} => server[f] = want[f]

ViewInv ==
  /\ BufferInv
  /\ Normal /\ ReadersClean /\ VisitedFlushed /\ SyncedClean
  /\ \A f \in held : Session(f)

-----------------------------------------------------------------------------
(* What the repository says and the code does not do *)

\* "Files behave like local files to any program" (mounty/README.md): closing a
\* handle does not cut a file whose handles have had no error.
\* flush_and_finalize_handle sets the file to the size the handle last knew, which
\* writes through other handles do not update.
CloseNeverCuts ==
  [][\A h \in open :
       LET f == fh[h].file
       IN /\ h \notin open'
          /\ mode' # "stopped"
          /\ \A g \in HandlesOf(f) : ~fh[g].pending_errors
          => server'[f].size >= server[f].size]_vars

\* "File doesn't exist, create empty on server" (create_file): opening a file that
\* exists, with O_CREAT and without O_TRUNC, leaves its contents alone.  The branch
\* with that comment is taken whenever the metadata request fails.
CreateKeepsContents ==
  [][\A h \in Handles, f \in present, wr, metaOk \in BOOLEAN :
       Create(h, f, wr, FALSE, metaOk) => server'[f] = server[f]]_vars
=============================================================================
