------------------------------- MODULE ReadPath ------------------------------
(***************************************************************************)
(* What read_bytes serves (mounty/src/fs/remote_fs/file_ops.rs): the size  *)
(* and the read-ahead buffer of an open handle of one file, the ranges it  *)
(* asks of the filer, and what the filer answers                           *)
(* (filer/src/handlers/read.rs), while the file changes.                   *)
(*                                                                         *)
(* Abstractions:                                                           *)
(*  - The file may change at any time: by the flushes of this mount, which *)
(*    WriteBack models, by setattr, and by other clients.  All of these    *)
(*    are Store and SetLength here; only what they do to the size a handle *)
(*    knows is tied to the handle.                                         *)
(*  - A read is one step with the GET it makes, during which the file does *)
(*    not change; a read that fails for want of an answer is not a step.   *)
(*  - The file is not deleted while a handle is open.                      *)
(*  - A byte is tagged with its offset, so that one served at another      *)
(*    offset shows.                                                        *)
(***************************************************************************)
EXTENDS Integers, Sequences

CONSTANTS Handles,    \* the handles that may be open at a time
          Vals,       \* payload of the bytes that are stored
          Zero,       \* the byte a file is extended with
          MaxSize,    \* bound: no file grows beyond this many bytes
          ReadBufCap  \* read_buf_cap = config.max_buffer_size

ASSUME ReadAssumptions ==
  /\ MaxSize \in Nat
  /\ ReadBufCap \in Nat \ {0}

VARIABLES
  server,    \* the contents of the file on the filer
  fh,        \* the FhState of each handle
  \* For the properties:
  probe,     \* an offset, any one
  seen,      \* for each open handle the bytes stored at probe since its open
  quiet,     \* the handles since whose open the file has not changed
  own        \* for each handle the byte at probe that it wrote and flushed, none if
             \* there is none or anything else has changed the file since

watch == <<probe, seen, quiet, own>>
vars  == <<server, fh, watch>>

Offsets == 0 .. MaxSize - 1
Sizes   == 0 .. MaxSize
Byte    == (Offsets \X Vals) \cup {Zero}

\* The file_size of the handle of a new file.
None == -1

FhState == [open : BOOLEAN, write_only : BOOLEAN, file_size : Sizes \cup {None},
            read_buf : Seq(Byte), read_buf_offset : Nat]

Closed == [open |-> FALSE, write_only |-> FALSE, file_size |-> None,
           read_buf |-> <<>>, read_buf_offset |-> 0]

\* What alloc_fh and its callers make of a new handle.
Alloc(wronly, size) ==
  [Closed EXCEPT !.open = TRUE, !.write_only = wronly, !.file_size = size]

OpenHandles == {h \in Handles : fh[h].open}

Lesser(m, n) == IF m < n THEN m ELSE n

-----------------------------------------------------------------------------
(* The file *)

\* n bytes of payload v written at off of c.
WriteAt(c, off, n, v) ==
  [i \in 1 .. (IF Len(c) < off + n THEN off + n ELSE Len(c)) |->
     IF off < i /\ i <= off + n THEN <<i - 1, v>>
     ELSE IF i <= Len(c) THEN c[i] ELSE Zero]

SetLen(c, n) == [i \in 1..n |-> IF i <= Len(c) THEN c[i] ELSE Zero]

\* The bytes stored at offset o: one or none.
StoredAt(c, o) == IF o < Len(c) THEN {c[o + 1]} ELSE {}

\* An answer of the filer or of read_bytes.
Bytes(data) == [ok |-> TRUE, data |-> data]
Refused     == [ok |-> FALSE, data |-> <<>>]

\* Client::read_range and stream_file: the filer refuses a range that starts at or
\* beyond the end, and cuts one that ends beyond it (first a variant that is off by
\* one at the end).
RangeToEndExclusive(c, off, n) ==
  IF off >= Len(c) THEN Refused ELSE Bytes(SubSeq(c, off + 1, Lesser(off + n - 1, Len(c))))
ReadRange(c, off, n) ==
  IF off >= Len(c) THEN Refused ELSE Bytes(SubSeq(c, off + 1, Lesser(off + n, Len(c))))

-----------------------------------------------------------------------------
(* read_bytes *)

\* The size of the file as the handle knows it, or as the filer's metadata say.
KnownSize(s) == IF s.file_size = None THEN Len(server) ELSE s.file_size

ToRead(s, off, n) == Lesser(n, KnownSize(s) - off)

\* The buffer of s holds all of the n bytes at off.
Hit(s, off, n) ==
  /\ Len(s.read_buf) > 0
  /\ off >= s.read_buf_offset
  /\ off + n <= s.read_buf_offset + Len(s.read_buf)

\* The chunk that is fetched for a miss: aligned, and not beyond the known size
\* (first a variant that does not stop at the capacity).
FetchOffset(off) == (off \div ReadBufCap) * ReadBufCap

FetchSizeToEnd(s, off) ==
  IF s.file_size = None THEN ReadBufCap ELSE s.file_size - FetchOffset(off)
FetchSize(s, off) ==
  IF s.file_size = None THEN ReadBufCap
  ELSE Lesser(ReadBufCap, s.file_size - FetchOffset(off))

Chunk(s, off) == ReadRange(server, FetchOffset(off), FetchSize(s, off))

\* The handle after a miss; a refused fetch leaves it as it was (first a variant
\* that takes the chunk to start where the read does).
FetchedAtOffset(s, off) ==
  IF ~Chunk(s, off).ok THEN s
  ELSE [s EXCEPT !.read_buf = Chunk(s, off).data, !.read_buf_offset = off]
Fetched(s, off) ==
  IF ~Chunk(s, off).ok THEN s
  ELSE [s EXCEPT !.read_buf = Chunk(s, off).data, !.read_buf_offset = FetchOffset(off)]

Buffered(s, off, n) == ~s.write_only /\ ToRead(s, off, n) <= ReadBufCap

\* The n bytes at off in the buffer of s.
FromBuffer(s, off, n) ==
  SubSeq(s.read_buf, off - s.read_buf_offset + 1, off - s.read_buf_offset + n)

\* The handle after read_bytes.
AfterRead(s, off, n) ==
  IF off < KnownSize(s) /\ Buffered(s, off, n) /\ ~Hit(s, off, ToRead(s, off, n))
  THEN Fetched(s, off) ELSE s

\* What read_bytes returns: nothing at the end, the buffered bytes, a refused
\* fetch, or a direct GET where the buffer does not hold what is read (first a
\* variant that serves what there is of a short buffer).
ResultShort(s, off, n) ==
  LET k == ToRead(s, off, n)
      t == AfterRead(s, off, n)
  IN IF off >= KnownSize(s) THEN Bytes(<<>>)
     ELSE IF ~Buffered(s, off, n) THEN ReadRange(server, off, k)
     ELSE IF Hit(s, off, k) THEN Bytes(FromBuffer(s, off, k))
     ELSE IF ~Chunk(s, off).ok THEN Refused
     ELSE Bytes(FromBuffer(t, off, Lesser(k, t.read_buf_offset + Len(t.read_buf) - off)))
Result(s, off, n) ==
  LET k == ToRead(s, off, n)
      t == AfterRead(s, off, n)
  IN IF off >= KnownSize(s) THEN Bytes(<<>>)
     ELSE IF ~Buffered(s, off, n) THEN ReadRange(server, off, k)
     ELSE IF Hit(s, off, k) THEN Bytes(FromBuffer(s, off, k))
     ELSE IF ~Chunk(s, off).ok THEN Refused
     ELSE IF Hit(t, off, k) THEN Bytes(FromBuffer(t, off, k))
     ELSE ReadRange(server, off, k)

-----------------------------------------------------------------------------
(* Steps *)

Init ==
  /\ server = <<>>
  /\ fh = [h \in Handles |-> Closed]
  /\ probe \in Offsets
  /\ seen = [h \in Handles |-> {}]
  /\ quiet = {}
  /\ own = [h \in Handles |-> {}]

\* The file becomes c.
Changed(c) ==
  /\ server' = c
  /\ seen' = [h \in Handles |-> IF fh[h].open THEN seen[h] \cup StoredAt(c, probe)
                                ELSE seen[h]]
  /\ quiet' = {}
  /\ UNCHANGED probe

\* open of a file that it leaves as it is: the size is the one of the metadata.
Open(h, wronly) ==
  /\ ~fh[h].open
  /\ fh' = [fh EXCEPT ![h] = Alloc(wronly, Len(server))]
  /\ seen' = [seen EXCEPT ![h] = StoredAt(server, probe)]
  /\ quiet' = quiet \cup {h}
  /\ UNCHANGED <<server, probe, own>>

\* open or create_file that empties the file, or makes it: then the size is unknown.
OpenEmpty(h, wronly, size) ==
  /\ ~fh[h].open
  /\ fh' = [fh EXCEPT ![h] = Alloc(wronly, size)]
  /\ server' = <<>>
  /\ quiet' = {h}
  /\ own' = [g \in Handles |-> {}]
  /\ UNCHANGED <<probe, seen>>

Release(h) ==
  /\ fh[h].open
  /\ fh' = [fh EXCEPT ![h] = Closed]
  /\ seen' = [seen EXCEPT ![h] = {}]
  /\ quiet' = quiet \ {h}
  /\ own' = [own EXCEPT ![h] = {}]
  /\ UNCHANGED <<server, probe>>

Read(h, off, n) ==
  /\ fh[h].open
  /\ fh' = [fh EXCEPT ![h] = AfterRead(@, off, n)]
  /\ UNCHANGED <<server, watch>>

\* A write through h: it grows the size that the handle knows, and no other handle's,
\* and leaves the read buffer as it is.  Its bytes are flushed at once, or later by
\* a Store.
Write(h, off, n, v, flushed) ==
  /\ fh[h].open
  /\ off + n <= MaxSize
  /\ fh' = [fh EXCEPT ![h].file_size = IF off + n > @ THEN off + n ELSE @]
  /\ IF flushed
     THEN /\ Changed(WriteAt(server, off, n, v))
          /\ own' = [g \in Handles |-> IF g # h THEN {}
                                       ELSE IF off <= probe /\ probe < off + n
                                       THEN {<<probe, v>>} ELSE own[h]]
     ELSE /\ own' = [own EXCEPT ![h] = {}]
          /\ quiet' = quiet \ {h}
          /\ UNCHANGED <<server, probe, seen>>

\* Anyone else stores bytes: another handle, or another client.
Store(off, n, v) ==
  /\ off + n <= MaxSize
  /\ Changed(WriteAt(server, off, n, v))
  /\ own' = [h \in Handles |-> {}]
  /\ UNCHANGED fh

\* setattr with a size, whose PUT may not be applied: every open handle takes the
\* new size, and keeps its read buffer.
SetSize(n, applied) ==
  /\ fh' = [h \in Handles |-> IF fh[h].open THEN [fh[h] EXCEPT !.file_size = n] ELSE fh[h]]
  /\ IF applied THEN Changed(SetLen(server, n))
     ELSE quiet' = {} /\ UNCHANGED <<server, probe, seen>>
  /\ own' = [h \in Handles |-> {}]

\* Another client sets the length.
SetLength(n) ==
  /\ Changed(SetLen(server, n))
  /\ own' = [h \in Handles |-> {}]
  /\ UNCHANGED fh

Lengths == 1..MaxSize

Next ==
  \/ \E h \in Handles, wronly \in BOOLEAN : Open(h, wronly)
  \/ \E h \in Handles, wronly \in BOOLEAN, size \in {0, None} : OpenEmpty(h, wronly, size)
  \/ \E h \in Handles : Release(h)
  \/ \E h \in Handles, off \in Offsets, n \in Lengths : Read(h, off, n)
  \/ \E h \in Handles, off \in Offsets, n \in Lengths, v \in Vals, flushed \in BOOLEAN :
       Write(h, off, n, v, flushed)
  \/ \E off \in Offsets, n \in Lengths, v \in Vals : Store(off, n, v)
  \/ \E n \in Sizes, applied \in BOOLEAN : SetSize(n, applied)
  \/ \E n \in Sizes : SetLength(n)

Spec == Init /\ [][Next]_vars

-----------------------------------------------------------------------------
(* Properties *)

TypeOK ==
  /\ server \in Seq(Byte) /\ Len(server) <= MaxSize
  /\ fh \in [Handles -> FhState]
  /\ \A h \in Handles : Len(fh[h].read_buf) <= ReadBufCap
  /\ probe \in Offsets
  /\ seen \in [Handles -> SUBSET Byte]
  /\ quiet \in SUBSET Handles
  /\ own \in [Handles -> SUBSET Byte]

\* Whatever changes the file, and however reads, writes and truncations interleave:
\* a byte that a read returns was stored at that very offset at some time since
\* the handle was opened.  A stale read buffer, which nothing invalidates, serves
\* what was there and nothing that never was.
ReadsWhatWasThere ==
  \A h \in OpenHandles, off \in Offsets, n \in Lengths :
    LET res == Result(fh[h], off, n)
    IN (off <= probe /\ probe < off + Len(res.data))
         => res.data[probe - off + 1] \in seen[h]

\* A handle reads exactly the file, whatever ranges it reads in whatever order, if
\* the file has not changed since it was opened: alignment, the end of the file and
\* the partly filled buffer fit together.
QuietReadsExact ==
  \A h \in quiet, off \in Offsets, n \in Lengths :
    Result(fh[h], off, n) = Bytes(SubSeq(server, off + 1, Lesser(off + n, Len(server))))

\* A read within the known size of the handle neither fails nor stops before the
\* end of the file, even if that moved or the buffer is of another time.
ReadsReachTheEnd ==
  \A h \in OpenHandles, off \in Offsets, n \in Lengths :
    off < KnownSize(fh[h]) /\ off < Len(server)
      => LET res == Result(fh[h], off, n)
         IN res.ok /\ Len(res.data) >= Lesser(ToRead(fh[h], off, n), Len(server) - off)

-----------------------------------------------------------------------------
(* What the repository says and the code does not do *)

\* "Files behave like local files to any program" (mounty/README.md): what was
\* written through a handle and flushed is what the handle reads, if nobody else
\* has changed the file.
ReadsOwnWrites ==
  \A h \in OpenHandles, off \in Offsets, n \in Lengths :
    LET res == Result(fh[h], off, n)
    IN (own[h] # {} /\ off <= probe /\ probe < off + Len(res.data))
         => res.data[probe - off + 1] \in own[h]
=============================================================================
