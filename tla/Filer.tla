-------------------------------- MODULE Filer --------------------------------
(***************************************************************************)
(* What the filer does to the files of its directory, one system call at a *)
(* time (filer/src/handlers: write.rs, read.rs, meta.rs, dir.rs): requests *)
(* in flight together, clients that go away, a killed process and a power  *)
(* failure.                                                                *)
(*                                                                         *)
(* Abstractions:                                                           *)
(*  - A name leads to an inode, and an open file stays on its inode        *)
(*    whatever becomes of the name.  Directories, modes and times are left *)
(*    out.                                                                 *)
(*  - A byte stands for what BufWriter or ReaderStream passes on at a time.*)
(*  - The file system keeps the directory and truncations in an ordered    *)
(*    journal: after a power failure the directory is one that was, and no *)
(*    rename outlives the truncation before it.  The bytes of an inode     *)
(*    reach the disk when they are synced, or at any time before.          *)
(*  - A request that ends leaves no write behind in tokio's thread pool.   *)
(***************************************************************************)
EXTENDS Integers, Sequences

CONSTANTS Paths,    \* the files that are written and read
          Others,   \* names that files are only renamed to
          Vals,     \* payloads
          Requests, \* slots of requests in flight
          Inodes,   \* bound: inodes of the file system
          MaxSize,  \* bound: no file is longer
          FullSizes, PartSizes, \* sizes of the bodies of full and of partial PUTs
          MaxRequests, \* bound: so many requests come
          Totals,   \* total sizes that partial PUTs without a body give
          PartStarts, GetStarts, \* offsets where partial PUTs write and GETs read
          GetSizes  \* sizes of the ranges that are read

ASSUME FilerAssumptions ==
  /\ Inodes \subseteq Nat
  /\ MaxSize \in Nat /\ MaxRequests \in Nat
  /\ FullSizes \cup PartSizes \cup Totals \cup PartStarts \cup GetStarts \cup GetSizes
       \subseteq 0..MaxSize

\* No inode; no total size.
None == -1

\* Byte k of a body of n bytes of payload v, or one that nobody wrote.
Zero == <<>>
Byte == (Vals \X (1..MaxSize) \X (1..MaxSize)) \cup {Zero}

Body(v, n) == [k \in 1..n |-> <<v, n, k>>]
Bodies(S)  == {Body(v, n) : v \in Vals, n \in S}

\* Every path has a name of its own for the temporary file.
Tmp(p)  == <<p, "filer_tmp">>
File(p) == <<p, "file">>
Files   == {File(p) : p \in Paths \cup Others}
Names   == Files \cup {Tmp(p) : p \in Paths}

VARIABLES
  dir,      \* name -> inode, or None
  data,     \* inode -> bytes, as requests see them
  diskDir,  \* the directory on the disk
  diskData, \* the bytes on the disk
  req,      \* the request of each slot
  accepted, \* number of requests so far, for the bound
  \* For the properties:
  ideal,    \* inode -> the bytes its last writer means it to have
  muddled,  \* inodes that two writers had open together, or that one left half done,
            \* or that were published by another's rename
  patched   \* inodes that a partial PUT opened

disk  == <<diskDir, diskData>>
watch == <<ideal, muddled, patched>>
vars  == <<dir, data, disk, req, accepted, watch>>

Idle == [op |-> "idle", path |-> None, ino |-> None, at |-> "start", start |-> 0,
         size |-> None, body |-> <<>>, done |-> <<>>]

Busy(op)   == {r \in Requests : req[r].op = op}
Writers(i) == {r \in Requests : req[r].op \in {"full", "partial"} /\ req[r].ino = i}

\* A request comes to a free slot.
Accept(r) ==
  /\ req[r] = Idle
  /\ accepted < MaxRequests
  /\ accepted' = accepted + 1

\* Inodes without a name, in memory or on the disk, that no request has open.
Free == {i \in Inodes : /\ \A n \in Names : dir[n] # i /\ diskDir[n] # i
                        /\ \A r \in Requests : req[r].ino # i}
NewInode == CHOOSE i \in Free : TRUE

Lesser(m, n) == IF m < n THEN m ELSE n

\* Truncated or extended to n bytes; and bytes b written at off (first a variant that
\* appends them).
SetLen(c, n) == [k \in 1..n |-> IF k <= Len(c) THEN c[k] ELSE Zero]
WriteAppends(c, off, b) == c \o b
WriteAt(c, off, b) ==
  [k \in 1 .. (IF b # <<>> /\ Len(c) < off + Len(b) THEN off + Len(b) ELSE Len(c)) |->
     IF off < k /\ k <= off + Len(b) THEN b[k - off]
     ELSE IF k <= Len(c) THEN c[k] ELSE Zero]

-----------------------------------------------------------------------------
(* PUT *)

\* Inode i is opened by request r to become c.
Opened(r, i, c) ==
  /\ ideal' = [ideal EXCEPT ![i] = c]
  /\ muddled' = IF Writers(i) # {} THEN muddled \cup {i} ELSE muddled \ {i}

\* A PUT without Content-Range opens the temporary file, which is created or emptied
\* (first a variant that does not empty it).
OpenTmpAsIs(r, p, b) ==
  LET i == IF dir[Tmp(p)] = None THEN NewInode ELSE dir[Tmp(p)]
  IN /\ Accept(r)
     /\ dir[Tmp(p)] = None => Free # {}
     /\ dir' = [dir EXCEPT ![Tmp(p)] = i]
     /\ data' = IF dir[Tmp(p)] = None THEN [data EXCEPT ![i] = <<>>] ELSE data
     /\ diskData' = IF dir[Tmp(p)] = None THEN [diskData EXCEPT ![i] = <<>>] ELSE diskData
     /\ req' = [req EXCEPT ![r] = [Idle EXCEPT !.op = "full", !.path = p, !.ino = i,
                                               !.at = "write", !.body = b]]
     /\ Opened(r, i, b)
     /\ patched' = patched \ {i}
     /\ UNCHANGED diskDir
OpenTmp(r, p, b) ==
  LET i == IF dir[Tmp(p)] = None THEN NewInode ELSE dir[Tmp(p)]
  IN /\ Accept(r)
     /\ dir[Tmp(p)] = None => Free # {}
     /\ dir' = [dir EXCEPT ![Tmp(p)] = i]
     /\ data' = [data EXCEPT ![i] = <<>>]
     /\ diskData' = [diskData EXCEPT ![i] = <<>>]
     /\ req' = [req EXCEPT ![r] = [Idle EXCEPT !.op = "full", !.path = p, !.ino = i,
                                               !.at = "write", !.body = b]]
     /\ Opened(r, i, b)
     /\ patched' = patched \ {i}
     /\ UNCHANGED diskDir

\* One with Content-Range opens the file itself, as it is or new.
OpenPartial(r, p, off, b, total) ==
  LET i   == IF dir[File(p)] = None THEN NewInode ELSE dir[File(p)]
      old == IF dir[File(p)] = None THEN <<>> ELSE data[i]
  IN /\ Accept(r)
     /\ dir[File(p)] = None => Free # {}
     /\ dir' = [dir EXCEPT ![File(p)] = i]
     /\ data' = [data EXCEPT ![i] = old]
     /\ diskData' = IF dir[File(p)] = None THEN [diskData EXCEPT ![i] = <<>>] ELSE diskData
     /\ req' = [req EXCEPT ![r] = [Idle EXCEPT !.op = "partial", !.ino = i, !.at = "length",
                                               !.start = off, !.size = total,
                                               !.body = b]]
     /\ Opened(r, i, WriteAt(IF total = None THEN old ELSE SetLen(old, total), off, b))
     /\ patched' = patched \cup {i}
     /\ UNCHANGED diskDir

\* set_len, if the total size is given.
SetLength(r) ==
  /\ req[r].op = "partial" /\ req[r].at = "length"
  /\ req' = [req EXCEPT ![r].at = "write"]
  /\ data' = IF req[r].size = None THEN data
             ELSE [data EXCEPT ![req[r].ino] = SetLen(@, req[r].size)]
  /\ UNCHANGED <<dir, disk, watch, accepted>>

\* The next byte of the body is written behind the ones before.
Stream(r) ==
  LET k == Len(req[r].done) + 1
      b == <<req[r].body[k]>>
  IN /\ req[r].op \in {"full", "partial"} /\ req[r].at = "write"
     /\ k <= Len(req[r].body)
     /\ req' = [req EXCEPT ![r].done = @ \o b]
     /\ data' = [data EXCEPT ![req[r].ino] = WriteAt(@, req[r].start + k - 1, b)]
     /\ UNCHANGED <<dir, disk, watch, accepted>>

\* The whole body has been written (first a variant for which some of it is enough).
StreamedSoFar(r) == req[r].at = "write"
Streamed(r) == req[r].at = "write" /\ Len(req[r].done) = Len(req[r].body)

\* sync_all of the temporary file, unless the body is empty.
SyncFull(r) ==
  /\ req[r].op = "full" /\ Streamed(r)
  /\ req' = [req EXCEPT ![r].at = "publish"]
  /\ diskData' = IF req[r].body = <<>> THEN diskData
                 ELSE [diskData EXCEPT ![req[r].ino] = data[req[r].ino]]
  /\ UNCHANGED <<dir, data, diskDir, watch, accepted>>

\* Whatever has the temporary name by now gets the name of the file; it fails if
\* nothing has.
Publish(r) ==
  LET p == req[r].path
      i == dir[Tmp(p)]
  IN /\ req[r].op = "full" /\ req[r].at = "publish"
     /\ req' = [req EXCEPT ![r] = Idle]
     /\ dir' = IF i = None THEN dir ELSE [dir EXCEPT ![Tmp(p)] = None, ![File(p)] = i]
     /\ muddled' = IF i \notin {None, req[r].ino} THEN muddled \cup {i} ELSE muddled
     /\ UNCHANGED <<data, disk, ideal, patched, accepted>>

\* sync_all of the file ends a partial PUT (first a variant without).
NoSyncPartial(r) ==
  /\ req[r].op = "partial" /\ Streamed(r)
  /\ req' = [req EXCEPT ![r] = Idle]
  /\ UNCHANGED <<dir, data, disk, watch, accepted>>
SyncPartial(r) ==
  /\ req[r].op = "partial" /\ Streamed(r)
  /\ req' = [req EXCEPT ![r] = Idle]
  /\ diskData' = [diskData EXCEPT ![req[r].ino] = data[req[r].ino]]
  /\ UNCHANGED <<dir, data, diskDir, watch, accepted>>

-----------------------------------------------------------------------------
(* GET, PATCH, DELETE *)

\* The length is taken from whatever has the name.
Measure(r, p, off, n) ==
  /\ Accept(r)
  /\ dir[File(p)] # None
  /\ req' = [req EXCEPT ![r] = [Idle EXCEPT !.op = "get", !.path = p, !.start = off,
                !.at = "measured",
                !.size = Lesser(n, Len(data[dir[File(p)]]) - off)]]
  /\ UNCHANGED <<dir, data, disk, watch>>

\* Then it is opened, and refused if it is gone or the range begins behind its end.
OpenRead(r) ==
  LET i == dir[File(req[r].path)]
  IN /\ req[r].op = "get" /\ req[r].at = "measured"
     /\ req' = [req EXCEPT ![r] = IF i = None \/ @.size <= 0 THEN Idle
                                  ELSE [@ EXCEPT !.ino = i, !.at = "read"]]
     /\ UNCHANGED <<dir, data, disk, watch, accepted>>

\* Byte by byte, to the length or the end of the file, from the open file (first a
\* variant that goes by the name).
FetchByName(r) ==
  LET k == req[r].start + Len(req[r].done) + 1
      i == dir[File(req[r].path)]
  IN /\ req[r].op = "get" /\ req[r].at = "read"
     /\ req' = [req EXCEPT ![r] =
                  IF i = None THEN Idle
                  ELSE IF Len(@.done) = @.size \/ k > Len(data[i]) THEN Idle
                  ELSE [@ EXCEPT !.done = Append(req[r].done, data[i][k])]]
     /\ UNCHANGED <<dir, data, disk, accepted, watch>>
Fetch(r) ==
  LET k == req[r].start + Len(req[r].done) + 1
      i == req[r].ino
  IN /\ req[r].op = "get" /\ req[r].at = "read"
     /\ req' = [req EXCEPT ![r] =
                  IF Len(@.done) = @.size \/ k > Len(data[i]) THEN Idle
                  ELSE [@ EXCEPT !.done = Append(req[r].done, data[i][k])]]
     /\ UNCHANGED <<dir, data, disk, accepted, watch>>

\* PATCH with a new name.
Rename(p, f) ==
  /\ dir[File(p)] # None
  /\ f # File(p)
  /\ dir' = [dir EXCEPT ![File(p)] = None, ![f] = dir[File(p)]]
  /\ UNCHANGED <<data, disk, req, watch, accepted>>

Delete(p) ==
  /\ dir[File(p)] # None
  /\ dir' = [dir EXCEPT ![File(p)] = None]
  /\ UNCHANGED <<data, disk, req, watch, accepted>>

-----------------------------------------------------------------------------
(* Failures *)

\* The inodes that the requests rs leave half done.
Half(rs) == {i \in Inodes : Writers(i) \cap rs # {}}

\* A client goes away, a system call fails, or the process is killed, with all of its
\* requests: the temporary file stays.
Abort(r) ==
  /\ req[r] # Idle
  /\ req' = [req EXCEPT ![r] = Idle]
  /\ muddled' = muddled \cup Half({r})
  /\ UNCHANGED <<dir, data, disk, ideal, patched, accepted>>

\* The power fails: what is on the disk is what there is.
PowerFailure ==
  /\ req' = [r \in Requests |-> Idle]
  /\ muddled' = muddled \cup Half(Requests)
  /\ dir' = diskDir
  /\ data' = diskData
  /\ UNCHANGED <<disk, ideal, patched, accepted>>

\* The file system writes on its own account.
Journal ==
  /\ diskDir' = dir
  /\ UNCHANGED <<dir, data, diskData, req, watch, accepted>>

WriteOut(i) ==
  /\ diskData[i] # data[i]
  /\ diskData' = [diskData EXCEPT ![i] = data[i]]
  /\ UNCHANGED <<dir, data, diskDir, req, watch, accepted>>

-----------------------------------------------------------------------------
Init ==
  /\ dir = [n \in Names |-> None] /\ diskDir = dir
  /\ data = [i \in Inodes |-> <<>>] /\ diskData = data
  /\ req = [r \in Requests |-> Idle]
  /\ accepted = 0
  /\ ideal = data
  /\ muddled = {} /\ patched = {}

\* The ranges that the mount writes: bytes at an offset, or none and the total size.
Next ==
  \/ \E r \in Requests, p \in Paths :
       \/ \E b \in Bodies(FullSizes) : OpenTmp(r, p, b)
       \/ \E b \in Bodies(PartSizes), off \in PartStarts :
            off + Len(b) <= MaxSize /\ OpenPartial(r, p, off, b, None)
       \/ \E total \in Totals : OpenPartial(r, p, 0, <<>>, total)
       \/ \E off \in GetStarts, n \in GetSizes : Measure(r, p, off, n)
  \/ \E r \in Requests :
       \/ SetLength(r)
       \/ Stream(r)
       \/ SyncFull(r)
       \/ Publish(r)
       \/ SyncPartial(r)
       \/ OpenRead(r)
       \/ Fetch(r)
       \/ Abort(r)
  \/ \E p \in Paths, f \in Files : Rename(p, f)
  \/ \E p \in Paths : Delete(p)
  \/ \E i \in Inodes : WriteOut(i)
  \/ PowerFailure
  \/ Journal

Spec == Init /\ [][Next]_vars

-----------------------------------------------------------------------------
(* Properties *)

Content == {c \in Seq(Byte) : Len(c) <= MaxSize}

Request == [op : {"idle", "full", "partial", "get"}, path : Paths \cup {None},
            ino : Inodes \cup {None}, at : {"start", "length", "write", "publish",
            "measured", "read"}, start : 0..MaxSize,
            size : (-MaxSize..MaxSize) \cup {None}, body : Seq(Byte), done : Seq(Byte)]

TypeOK ==
  /\ dir \in [Names -> Inodes \cup {None}]
  /\ diskDir \in [Names -> Inodes \cup {None}]
  /\ data \in [Inodes -> Content]
  /\ diskData \in [Inodes -> Content]
  /\ ideal \in [Inodes -> Content]
  /\ req \in [Requests -> Request]
  /\ accepted \in 0..MaxRequests
  /\ muddled \subseteq Inodes /\ patched \subseteq Inodes

\* The inodes of the files, in memory and on the disk.
Published == {i \in Inodes : \E f \in Files : i \in {dir[f], diskDir[f]}}

\* A file that is only ever written whole is never seen half written, whatever
\* requests are in flight, go away or die with the process, and whatever a former
\* one left in the temporary file; and none is found half written after a power
\* failure: put_file syncs before it renames.
NeverHalf ==
  \A i \in Published \ (muddled \cup patched) : {data[i], diskData[i]} \subseteq Bodies(FullSizes)

\* Whatever else happened to a file, once no request writes to it it has, also on the
\* disk, what the last PUT that opened it meant, if that one neither failed nor had
\* to share it.
AnsweredStands ==
  \A i \in Published \ muddled :
    Writers(i) = {} => data[i] = ideal[i] /\ diskData[i] = ideal[i]

\* A GET in the middle of renames, deletes and PUTs delivers bytes of a single body,
\* each at its offset.
GetsOneBody ==
  \A r \in Busy("get") : req[r].at = "read" /\ req[r].ino \notin muddled \cup patched =>
    \E v \in Vals, n \in 1..MaxSize : \A k \in 1..Len(req[r].done) :
      req[r].done[k] = <<v, n, req[r].start + k>>

\* Inodes of which nothing is promised as a whole.
Loose == muddled \cup patched

\* What the files have that inode i is, with the bytes c.
Has(i, c) ==
  IF i = None THEN [is |-> "missing", body |-> <<>>]
  ELSE IF i \in Loose THEN [is |-> "loose", body |-> <<>>]
  ELSE [is |-> "whole", body |-> c[i]]

\* The PUT and the GET of request r, as WholeFiles sees them.
PutOf(r) ==
  IF req[r].op = "full"
  THEN [at |-> IF req[r].ino \in muddled THEN "shared" ELSE "alone",
        file |-> File(req[r].path), body |-> req[r].body]
  ELSE [at |-> "none", file |-> <<>>, body |-> <<>>]
GetOf(r) ==
  IF req[r].op = "get" /\ req[r].at = "read"
  THEN [of |-> Has(req[r].ino, data), start |-> req[r].start, done |-> req[r].done]
  ELSE [of |-> Has(None, data), start |-> 0, done |-> <<>>]

Held       == [f \in Files |-> Has(dir[f], data)]
HeldOnDisk == [f \in Files |-> Has(diskDir[f], diskData)]
Putting    == [r \in Requests |-> PutOf(r)]
Getting    == [r \in Requests |-> GetOf(r)]

Promised ==
  INSTANCE WholeFiles WITH
    Clients <- Requests, Brought <- Bodies(FullSizes), NoFile <- <<>>,
    now <- Held, then <- HeldOnDisk, puts <- Putting, gets <- Getting

\* A PUT of a whole file takes effect at one moment, the rename, or not at all, whatever
\* other requests do meanwhile; a GET delivers what the file had when the GET opened it;
\* and after a power failure the files are as they were at one moment (put_file, get_file).
WholeFilesImplemented == Promised!Spec
=============================================================================
