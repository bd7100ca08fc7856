# Verification of rusty-fs

TLA+ models, model-checking runs and machine-checked proofs of rusty-fs: `mounty`,
a FUSE client that mounts a remote directory, and `filer`, the REST server that
holds it. Paths below are relative to `src/`; `remote_fs/` stands for
`mounty/src/fs/remote_fs/`, `utils/` for `mounty/src/fs/utils/`.

## The system

| Component | State | Operations | Correct when |
|---|---|---|---|
| Handles and write-back buffers (`remote_fs/file_ops.rs`, `utils/file_handle.rs`) | `fh_map`: for each open handle its inode, flags, known size, write buffer with offset, pending errors, dirty flag | open, create, write, flush, release, setattr(size), drain | no acknowledged byte is lost or moved; close() and the exit code tell the truth; memory per handle is bounded |
| Read-ahead buffer (`file_ops.rs:46`) | one chunk per handle | read | a read returns the file's bytes |
| Names (`utils/inode_map.rs`, `remote_fs/dir_ops.rs`) | inode to path and path to inode, next inode | lookup, readdir, mkdir, delete, rename | the inode of a path goes where the file goes, and an open handle with it |
| Caches (`remote_fs/mod.rs`) | negative lookups, directory listings, metadata, each with expiry; LRU order and capacity | get, insert, remove, clear | a stale answer lasts no longer than its TTL, and does not follow a local mkdir, delete or rename; what goes first is what was not used lately |
| HTTP client (`mounty/src/fs/http/client.rs`) | none (no timeout, no retry) | list, meta, read, mkdir, delete, put, patch | an error is reported as what it is |
| Filer (`filer/src/handlers/`) | the files below its base directory, `.filer_tmp` files of running PUTs | the same, concurrently | a reader sees a file that some request wrote |
| Shutdown (`mounty/src/main.rs`) | signal tasks, unmount attempts, `shutdown_failed`, `forced_shutdown` | signal, unmount, drain, second signal | exit 0 implies that every handle was drained |

FUSE callbacks of a mount run one at a time on the thread of `session.run()`, and
each blocks on its HTTP calls; the filer serves many requests at once. All
components of the client share `RemoteFileSystem`: a handle reaches its file through
the inode map when it flushes, `getattr` mixes the handles' sizes with the metadata
cache, `create_file` consults `lookup` and with it the caches, and `destroy` drains
the handles. The hard behaviour is therefore in failures (each call may fail before,
during or after its effect, and several errors are only logged), in sequences of
calls on several handles of one file, and in state kept longer than it is true.
`PROJECT.json` lists the hazards at their lines.

## Modules

| Module | Models |
|---|---|
| `WriteBack` | the write path of one mount: handles, buffers, PUTs, truncation, release, drain, crash, other clients |
| `ReadPath` | the read path of one mount: sizes, read-ahead buffer, ranges, over a file that anyone changes |
| `InodeMap` | `InodeMapper`: operators that take the mapper and return it as a method leaves it |
| `DirOps` | names in one mount: the inode map, the three caches, the handlers that use them, and the paths that open handles flush to; extends `InodeMap` |
| `CacheStore` | how the caches keep to their capacities: the order of the `IndexMap`s and their eviction, the size defence of the negative lookups |
| `Shutdown` | the threads of `main.rs`: session and drain, signals, unmount retries, forced exit |
| `Filer` | PUT, GET, rename and delete of files on the filer, one system call at a time, with disconnects, a killed process and power failures |
| `FileContract` | abstract: what mounty promises about the contents of a file; `WriteBack` implements it |
| `WholeFiles` | abstract: what the filer promises its clients, whole files that a PUT replaces at one moment; `Filer` implements it |
| `MountLife` | abstract: what mounty promises about the end of a mount; `WriteBack` and `Shutdown` implement it |
| `ForgetfulCache` | abstract: a cache with a time to live; `CacheStore` implements it, and `DirOps` takes its caches to be like it |
| `MCWriteBack`, `MCReadPath`, `MCDirOps`, `MCCacheStore`, `MCFiler` | instances for TLC: symmetry, and the view of `Filer` |
| `WriteBackProofs`, `ReadPathProofs`, `InodeMapProofs`, `DirOpsProofs`, `DirCachesProofs`, `CacheStoreProofs`, `ShutdownProofs`, `FilerProofs` | theorems about the modules of these names; `DirCachesProofs` is about the caches in `DirOps` |

How they fit together: `WriteBack` and `ReadPath` see a file as its bytes and a PUT as
one step; `Filer` shows what a PUT is made of. That a PUT of a whole file may be taken as
one step, whatever other requests do, is that `Filer` implements `WholeFiles`. That the
others take an answered PUT for stored rests on its `AnsweredStands`, which is about the
bytes of an inode: they stand, on the disk too. It is not about the name: the directory
is never synced, so that a power failure before it is journalled undoes an answered PUT
of a new or replaced file whole. `WriteBack` has no power failures of the filer.
`DirOps` says which path a handle's PUT goes to.
`Shutdown` says when the drain of `WriteBack` runs and what of its result becomes the
exit code.

### WriteBack

`server` and `present` are the filer's files; `open` and `fh` are `fh_map` (a closed
slot holds `FreeSlot`, so that slots can be reused); `task` is the loop of `setattr`
or of the drain when one is in progress; `mode` and `exit` are the life of the
process. The record `FhState` has the fields of the Rust struct of that name that
the write path uses; `pending_write_errors` is whether it is empty.

| Action | Code |
|---|---|
| `Open`, `Create` | `open`, `create_file` (`file_ops.rs:14`, `176`) |
| `Write` | `write_bytes` with both flushes it may make (`288`) |
| `Flush`, `Release` | the callbacks in `fuse/mod.rs:369`, `414`; `FlushBuffer` and `Finalize` are `flush_write_buffer` (`355`) and `flush_and_finalize_handle` (`410`) |
| `BeginSetSize`, `SetSizeFlush`, `SetSizePut` | `setattr` with a size (`492`), one step per handle of its loop |
| `BeginDrain`, `DrainHandle`, `FinishDrain` | `destroy` and `shutdown_flush_all` (`466`), one step per handle; the exit code of `main` |
| `Kill`, `Mount` | the process ends anywhere (crash, or `exit(130)` of the second signal); the user mounts again |
| `EmptyPutUnacknowledged` | the truncating PUT of open or create took effect, its reply did not arrive |
| `RemoteWrite` | another client of the filer writes |

A callback is one step because no other callback of the mount can run before it
ends; its HTTP calls are part of the step. Each PUT ends in one of: nothing applied
and an error, a prefix of the body applied and an error, all applied and an error,
all applied and success (`PutResults`); the PUTs that only set a length are applied
or not (`CallResults`). The loops over several handles visit them in any order, as
a `HashMap` has none. Bytes are tagged with the offset the application wrote them
at, which makes a byte stored elsewhere visible.

Three variables record what the applications were told: `held` are the files the
model holds the mount to, `want` what they would contain on a local file system, and
`synced` the handles whose last close() returned 0 with no write since. A file leaves
`held` when it gets a second writer, is truncated under a writer by an open, is
written by another client, has its size change fail, loses a create to an error, or
is given up by a release, a kill or a failed drain of a handle that was not synced.
In those cases the code promises nothing (or breaks what it promises: see the
findings). It returns when a handle is opened on it while nobody writes.

The end of a mount is abstract in `MountLife`: it serves, drains and stops, and it exits
with success only if the drain left no open handle behind. `WriteBack` implements it
(`LifeImplemented`), with `mode`, `exit` and the open handles for its variables, and so
does `Shutdown`, which takes the drain of one handle as one step that stores it or
fails: what that step is, in terms of PUTs, is here.

`FileContract` puts this as a specification of its own, without buffers, PUTs and tasks,
which `WriteBack` implements (`ContractImplemented`). A file there has its writers, what
applications were told (`want`), what the filer has (`server`) and how the two relate,
its `Standing`:

| Standing | In `WriteBack` | Promised |
|---|---|---|
| `kept` | held, and every writer's last close() returned 0 with no write since | the filer has exactly what was told |
| `open` | held, a writer may hold bytes back | what is missing are bytes in a row, less than a chunk of them |
| `failed` | held, the writer has a pending error | bytes were lost; close() fails until the writer is gone |
| `none` | not held | nothing |

Which standing may follow which is what the contract says: from `kept` only a write, or
what ends the promise for all (a second writer, another client, a call that failed
without being undone), leads away, and no failing PUT, close, release, drain or crash
does; from `failed` no close() leads back to `kept`; and a mount exits with success only
if no file is `open` or `failed`.

Left out here: what `read_bytes` serves (`ReadPath`), names (a file is its path,
`DirOps`), caches, mode and times (no property here depends on them), and the removal
of files.

### InodeMap and DirOps

`imap` is `inode_mapper`; `negative`, `listing` and `metadata` are the three caches,
in which the ticks left to an entry's expiry stand for its `Instant`; `fh` is what
matters of `fh_map` here: the inode of a handle, whether its buffer holds something,
whether it is dirty. `files` is the filer's tree, with names that are a directory's
or a file's; directories are in the root only, which is enough for a path to have a
parent that moves. `task` is a lookup between its two listings of the directory.

| Action | Code |
|---|---|
| `LookupInListing`, `LookupAtFiler`, `LookupEnds` | `lookup` (`remote_fs/dir_ops.rs:13`): from a cached listing; the first listing; the second listing, which is cached, and the inode |
| `Getattr`, `Readdir` | `getattr` (`91`), `readdir` (`154`): every name of a listing gets an inode, in the listing's order |
| `CreateDirectory`, `Delete`, `Rename` | the handlers of these names (`233`, `285`, `328`), with every invalidation; `Forget` is those of the negative and listing caches |
| `OpenFile`, `CreateFile` | `open`, `create_file` (`remote_fs/file_ops.rs:14`, `176`), with the lookup that O_EXCL makes |
| `Write`, `Flush`, `Release`, `SetSize` | what these do to names: a PUT to the path that the handle's inode maps to now, which creates what is not there |
| `Tick` | time passes, between handlers and between the two listings of a lookup |
| `OtherClient` | another client of the filer creates or removes something (external) |

Handlers that answer from a cache and leave it as it is, and calls that fail without
effect, are not steps. A call that changes the tree may take effect although its reply
is lost (`CallResults`); the handler then returns its error early. A rename or delete
is of a path that has an inode, because the kernel has looked it up before.

Four variables serve the properties: `age` (ticks since a path began or ceased to
exist), `acked` (paths that an acknowledged mkdir, delete or rename of this mount changed
last; one that create_file changed is not in it), `home`
(where the file that a handle was opened on is now) and `uprooted` (handles on files
whose directory was renamed, for which the code keeps no promise: see the findings).

### ReadPath

`server` is the file on the filer, `fh` the fields of the `FhState` of each handle that
reading uses: whether it is open and write-only, the size it knows, its read buffer and
where that begins. `KnownSize`, `Hit`, `FetchOffset`, `FetchSize`, `Fetched` and
`FromBuffer` are the parts of `read_bytes` (`remote_fs/file_ops.rs:46`); `AfterRead` is
the handle and `Result` the answer after it, with the GET as `ReadRange`, which refuses
a range behind the end and cuts one that crosses it (`filer/src/handlers/read.rs:19`).

| Action | Code |
|---|---|
| `Open`, `OpenEmpty` | `open`, `create_file` (`14`, `176`): of a file as it is, whose size the metadata give; of one that is emptied or made, whose size is 0 or unknown |
| `Read` | `read_bytes` (`46`) with the GETs it makes |
| `Write` | `write_bytes` (`288`) as far as reading is concerned: the handle's size grows, the read buffer stays; its bytes are flushed now, or later by a `Store` |
| `SetSize` | `setattr` with a size (`492`): each open handle takes the size, whether the PUT is applied or not |
| `Store`, `SetLength` | another handle's flush or another client changes the file |
| `Release` | `release` |

Four variables serve the properties, each about a single offset `probe`, which is any
one: `seen` (the bytes stored there since a handle was opened), `own` (what the handle
wrote and flushed there, if nothing else changed the file since) and `quiet` (handles
since whose open the file has not changed).

A read is one step although it makes up to two GETs: no other callback of the mount can
come between, and another client that writes between the two is not modelled. A GET
that fails for want of an answer changes nothing.

### CacheStore

The listing and the metadata cache are the same code twice; here they are one `IndexMap`:
`order` are its keys from front to back, `expiry` the ticks left of each. `negative` is
the map of missing names, which has no order.

| Action | Code |
|---|---|
| `Get` | `listing_cache_get`, `metadata_cache_get` (`remote_fs/mod.rs:193`, `249`): a hit goes to the back with the expiry it had, an expired entry goes |
| `Insert` | `..._insert` (`222`, `273`): an entry that is there keeps its place, the rest of what is over the capacity goes from the front |
| `Remove`, `Clear` | `..._remove`, `clear_caches` |
| `NegativeInsert`, `NegativeRemove` | `negative_lookup_insert` (`169`) with its two thresholds, `negative_lookup_remove` (`185`) |
| `Tick` | time passes, in between calls |

`since` (what was used since a cached key was), `reloaded` (the cached keys that were last
used by loading them over the entry that was there) and `age` (ticks since a key was
loaded) serve the properties. To be found, to be loaded and to be loaded again are uses
alike; `reloaded` is there because the code does not treat the last as one.

### Shutdown

Three threads of control of the Linux build and a fourth party, the platform. Each step
ends where a thread reads or writes what another one can change.

| Variables | Code (`mounty/src/main.rs` unless named) |
|---|---|
| `attached`, `inUse` | external: the table of mounts, and whether a program has something of the mount open |
| `session`, `run_result`, `exit` | where the main thread is, what `session.run()` returned, how the process ended |
| `handles`, `todo`, `shutdown_failed` | `fh_map`, the drain's list and the flag that it sets (`remote_fs/file_ops.rs:466`) |
| `unmounter`, `mine` | the thread of `install_shutdown_unmounter` (`118`) and whether fuser's unmounter still holds the mount: its first call drops it, later ones do nothing |
| `forcer`, `forced_shutdown` | the task that waits for the second signal (`132`), and the flag it sets before it forces the unmount |

| Action | Code |
|---|---|
| `BeginCallback`, `EndCallback` | a callback waits for an answer of the filer, which may never come: the client has no timeout |
| `BeginDrain`, `DrainHandle`, `EndDrain` | the session ends, `drop(session)` calls `destroy`, which drains one handle after the other |
| `CheckForced`, `Return` | the exit code of `main` (`73`) from its three sources |
| `Install`, `EarlySignal`, `FirstSignal` | handlers are installed; a signal before that has its default effect |
| `Attempt`, `CheckAttempt`, `Ask`, `CheckAsked` | one round of the retry loop (`155`): fuser's unmount, whether the mount is still there, the platform's command, the same question again. That question is answered no when `mount` cannot be run |
| `Listen`, `SecondSignal`, `ForceUnmount`, `ForceExit` | the second signal, which ends the process with 130 wherever the other threads are |
| `Use`, `Leave`, `OtherUnmount` | external: programs, administrators |

Sleeps are not steps: any number of steps of others may come between two steps of a
thread anyway.

### Filer

A name (`dir`) leads to an inode, `data` holds what requests see of an inode, and a
request in flight (`req`) stays on the inode it opened. `diskDir` and `diskData` are
what a power failure leaves.

| Action | Code (`filer/src/handlers/`) |
|---|---|
| `OpenTmp`, `Stream`, `SyncFull`, `Publish` | `put_file` without Content-Range (`write.rs`): the temporary file is created or truncated, written, synced, and renamed |
| `OpenPartial`, `SetLength`, `Stream`, `SyncPartial` | `put_file` with Content-Range: the file itself is opened, its length set if a total is given, written at the offset, synced |
| `Measure`, `OpenRead`, `Fetch` | `stream_file` (`read.rs`): the length is taken from the name, then the file is opened, then its bytes are sent |
| `Rename`, `Delete` | the new name in `update_meta` (`meta.rs`), `delete_path` (`dir.rs`) |
| `Abort` | a client goes away, a system call fails or the process dies: the request is gone, what it wrote stays |
| `PowerFailure`, `Journal`, `WriteOut` | external: the file system |

`ideal` is what the last PUT that opened an inode means it to hold. `muddled` are the
inodes that two PUTs had open together, that one left half done, or that were published
by the rename of another request: the code promises nothing about these, and does reach
them, as two full PUTs of a path share one temporary name. `patched` are those a partial
PUT opened, which a reader may see in between.

`WholeFiles` is what this amounts to for a client (`WholeFilesImplemented`). A file there
is missing, a whole body, or loose: nothing is promised of it (`Loose`: its inode is
muddled or patched). The mapping takes `now` from the names and inodes, `then` from those
on the disk, a PUT from the request that has a temporary file open, and a GET from the
one that has a file open. A PUT takes effect in `Publish`, a GET delivers what the file
had at `OpenRead`, whatever becomes of the name, and a power failure takes all files
back to one moment: every other system call is a stutter. Two PUTs that share a temporary
file are disturbed (`shared`): one of them may publish the mix, or a rename that finds
nothing; a PUT that stays alone has exactly its own body there.

Assumed: the file system keeps names and truncations in an ordered journal (a directory
after a power failure is one that was, bytes may be older); a request that ended leaves
no write behind in tokio's thread pool; each file has a temporary name of its own (the
names `a` and `a.` share one, see the hazards). A byte stands for what `BufWriter` or
`ReaderStream` hands on at a time.

## Runs

| Run | Instance | Shows |
|---|---|---|
| `pair` | `WriteBack`: 1 file of at most 2 bytes, 2 handles, 2 values, chunk of 2, another client | `TypeOK`, `BytesInPlace`, `ViewIntact`, `SyncedDurable`, `DurableAtRest`, and the refinements `LifeImplemented` of `MountLife` and `ContractImplemented` of `FileContract` |
| `chunks` | 1 file of at most 3 bytes, 1 handle, 2 values, chunk of 3, another client | `FinalSizeCoversBuffer`, `BufferBounded`, `ViewIntact` |
| `close_never_cuts` | as `pair` without the other client | violated: `CloseNeverCuts` |
| `create_keeps_contents` | the same | violated: `CreateKeepsContents` |
| `reads` | `ReadPath`: 1 handle, 2 values, file of at most 3 bytes, read buffer of 2 | `TypeOK`, `ReadsWhatWasThere`, `QuietReadsExact`, `ReadsReachTheEnd` |
| `reads_own_writes` | the same | violated: `ReadsOwnWrites` |
| `names` | `DirOps`: 2 directories, 1 file name, 1 handle, 4 inodes, caches off | `MapConsistent`, `HandleFollowsFile`, and the action properties `InodesMoveWithFiles` and `FlushCreatesNothing` |
| `caches` | `DirOps`: 2 files in the root, 1 handle, 3 inodes, times to live 1, 2 and 2, another client | `TypeOK`, `MissingBounded`, `ListingBounded`, `MetadataBounded`, `MkdirDeleteRenameSeen` |
| `handle_follows_directory` | as `names`, 5 inodes | violated: `HandleFollowsDirectory` |
| `lru` | `CacheStore`: 4 keys, capacity 2, times to live 2, thresholds 2 and 3 | `TypeOK`, the refinement `NeverRenewed` of `ForgetfulCache`, and the action properties `RecentStayUnlessReloaded` and `ValidMissingStay` |
| `shutdown` | `Shutdown`: 2 handles | `TypeOK`, `NothingLeftMounted`, the refinement `LifeImplemented` of `MountLife`, and the liveness properties `SecondSignalEnds` and `FirstSignalEnds` |
| `filer` | `Filer`: 1 file and 1 other name, 2 values, 3 requests in 2 slots, 3 inodes, files of at most 2 bytes | `TypeOK`, `NeverHalf`, `AnsweredStands`, `GetsOneBody`, and the refinement `WholeFilesImplemented` of `WholeFiles` |

Why the bounds are enough.

`pair`, `chunks`: two handles are what it takes for a second writer, a reader with an
old size, and a loop over several handles. Files do not interact (a handle, a buffer and
a task belong to one file), except through the drain, which the proofs cover for any
number. With two bytes, a chunk holds either one byte, with room left for one, or gets
full, and a write can start before, in and after the buffered range. Three bytes and a
chunk of three add a write beyond a gap, one that overlaps the buffer in its middle, and
a buffer of two bytes of which one was applied. Handles and values are symmetric: no
definition compares or chooses among them.

`reads`: handles meet only in the file, which changes under the one in every way that
another handle could change it. With three bytes and a buffer of two there are two
aligned chunks, a last one that is partly filled, and reads that begin in one chunk and
end in the other, that fit in the buffer, and that are larger than it.

`names`: there are three paths of files and two of directories, so that a file can be
renamed in place, across directories, and over another that has an inode or an open
handle, and a directory with a file in it can be renamed; `MaxInode` leaves two of the
five without an inode (the root has one of the four), and the theorems cover any number. The caches are off there
because no property of that run reads them, and their properties are about one
directory: `caches` has one, with two names for a rename. A listing that lives two
ticks and a negative entry that lives one show that their times add up
(`MissingBounded` with `NegTTL` alone fails); metadata that live two show that a hit does
not renew them. `TypeOK` bounds what expiry leaves.

`lru`: two more keys than the capacity, so that a key can be evicted, loaded again and
evicted again; the thresholds are far enough apart for a map that is large and one that
is too large, with expired entries in it or not. A time of two ticks tells a renewed
entry from one that is not.

`shutdown`: two handles make a drain that stores one and fails on the other, or is
stopped between the two.

`filer`: two slots are what it takes for a PUT and a GET, or two PUTs, to meet; the third
request finds what the first two left. A body of two bytes can be half written, one of
zero is not synced. Three inodes are the file's, the temporary one and one that is open
without a name (or under the other name). TLC identifies states that differ only in an
inode that nothing leads to and no request has open, or in what a muddled inode is meant
to hold (`LiveView`): `Free` chooses among the former and overwrites what they hold, and
no action or property reads the latter. Values and slots are symmetric.

### Fairness

Only `Shutdown` has liveness properties. Its `Fairness` is weak fairness of the steps of
the main thread, of the unmounter and of the forcing task: threads of the process that
wait for nobody are scheduled. Nothing is assumed of programs (they may use the mount for
ever), of the filer (it may never answer), of whoever sends signals, or of the session
failing by itself. `SecondSignalEnds` assumes in the property that a second signal is
sent as long as the task listens for one, `FirstSignalEnds` that programs leave for good
and that the filer answers; it excepts the case that the retry loop has taken a `mount`
command that could not be run for success.

Deadlock is checked everywhere but in `shutdown`, where the process ends: a stopped
mount can be mounted again, a running one can always begin to drain, in `DirOps` and
`CacheStore` time can always pass, in `Filer` the journal can always be written.

### Findings

- **Closing a handle can cut a file.** `flush_and_finalize_handle` ends with a PUT
  that sets the file's length to the size the handle last knew (`file_ops.rs:431`).
  In the trace two handles write the file; the first one's close cuts off what the
  second has flushed.
- **create_file empties a file when a request fails.** Every error of the metadata
  request is taken for "file doesn't exist" (`file_ops.rs:253`).
- **A handle goes on reading bytes that it has overwritten.** Nothing empties the
  read-ahead buffer: a range that lies in it is served from it (`file_ops.rs:96`), also
  after a write through the same handle was flushed. `open` replies with direct I/O, so
  such a read does reach the mount.
- **Renaming a directory loses its open files.** `rename` moves one path of the inode
  map (`utils/inode_map.rs:53`); a handle on a file below goes on flushing to the old
  path, and the filer creates the old directory again to store it.

### Seen, without a run of their own

Where the code does less than a comment or a document says, and a property is worded
around it:

- **create_file leaves what the caches say.** `negative_lookup_remove` is commented
  "called after successful create/rename/delete" (`remote_fs/mod.rs:184`), and
  `docs/mounty_caching_architecture.svg:55` has "dir mutations" invalidate a listing;
  `create_file` does neither (`file_ops.rs:269-284`), so a file just created can be
  reported missing. `MkdirDeleteRenameSeen` is about the three handlers that do;
  `MissingBounded` and `ListingBounded` bound how long the other one's file may be unseen.
- **A reload is not a use.** The metadata cache is called LRU (`svg:65`), but loading an
  entry over one that is there keeps the old place (`remote_fs/mod.rs:281`): with room for
  two, load A, load B, load A again (an open with O_TRUNC) and load C, and A goes, though
  only C was used since. `RecentStayUnlessReloaded` has the exception; without it, the
  run fails with this trace. Listings are loaded after a miss only.
- **The mapper is not bidirectional for displaced inodes** (`utils/inode_map.rs:4`).
  After a rename over a known path, the inode of what was replaced still leads to that
  path, which is another file now and has another inode. `InodesMoveWithFiles` says that
  this is the only way an inode ceases to be that of its path (a file that is deleted and
  made again has the inode that it had). A handle that is open on the
  replaced file flushes into the file that replaced it; `HandleFollowsFile` excepts such
  handles, as it does those whose file was deleted.
- **A write does not invalidate metadata,** although `svg:66` says so: the size and time
  in the metadata cache stay as they were for their time. Entries carry no sizes in
  `DirOps`, and no property is about this.

## Proofs

TLAPS checks what follows for every value of the constants that the modules' assumptions
allow (`Assumptions`, `ReadAssumptions`, `CacheAssumptions`, `FilerAssumptions`): any
sets of files, handles, names and requests, any sizes, capacities and times.

### The write path

| Theorem of `WriteBackProofs` | Statement |
|---|---|
| `TypeCorrect` | `Spec => []TypeOK` |
| `BytesStayInPlace` | `Spec => []BytesInPlace` |
| `FinalSizeSafe` | `Spec => []FinalSizeCoversBuffer` |
| `BuffersBounded` | `Spec => []BufferBounded` |
| `ViewStaysIntact` | `Spec => []ViewIntact` |
| `SyncedIsDurable` | `Spec => []SyncedDurable` |
| `ReleasedIsDurable` | `Spec => []DurableAtRest` |
| `EndsAsPromised` | `Spec => LifeImplemented` |
| `ContractKept` | `Spec => ContractImplemented` |

The first four follow from `BufferInv`, which is inductive: types, `BytesInPlace`,
`FinalSizeCoversBuffer` and `BufferBounded` are not inductive alone. Bytes reach the
filer from a buffer, so the buffer must hold them in place (`BuffersPlaced`); a slot
is reused, so a closed one must be clean (`ClosedSlots`); and the loops must only
visit open handles (`TaskOK`). The proof has a lemma for each operator of the model
(`FlushBufferType`, `ExtendType`, ...), a lemma for each action, and
`NextBuffer` that puts them together.

What the applications were told follows from `ViewInv`, which adds to it what one file
is held to (`Session`): it has at most one writer; what the filer has with the writer's
buffer written over it (`View`) is what is wanted; and the writer knows the size that
is wanted, or the one that `setattr` is about to set (`Visited`), as release will set
the file to it. Around that, readers buffer nothing (`ReadersClean`), handles that
`setattr` has visited or whose close() succeeded are flushed (`VisitedFlushed`,
`SyncedClean`), and no byte lies beyond the end of a file, so that setting a length to
what it is changes nothing (`Normal`). The lemmas say what the operators do to a view:
a flush that succeeds stores it (`FlushView`), appending to the buffer writes the payload
over it (`ExtendView`), finalizing stores it and leaves it alone (`FinalizeStores`). A step
of a handle concerns one file and one slot of `fh_map` (`HandleStep`): `FrameStep` carries
the invariant over for the other files, so that each action is left with its own file
(`WriterKept`, `ReaderKept`, `WriterGone`, `FirstHandle`).

`LifeImplemented` needs an invariant of its own: a task goes with a running mount unless
it is the drain, and the drain with a draining one.

`ContractKept` needs, next to `ViewInv`, that nothing is recorded of a file that is held
to nothing (`Forgotten`). In each state, `ViewInv` gives the promise of the standing: the
view of the one writer is what was told, so that the filer lacks at most what is in its
buffer, and nothing once that is empty (`PromisesHold`). For the steps there is one lemma per
action, which shows the step of the contract that it makes (a callback that writes is a
`Write`, one that flushes or finalizes a `Store`, the size change of `setattr` a
`Truncate`) and that other files stay as they are (`OtherFilesSame`).

### The read path

| Theorem of `ReadPathProofs` | Statement |
|---|---|
| `TypeCorrect` | `Spec => []TypeOK` |
| `ReadsServeWhatWas` | `Spec => []ReadsWhatWasThere` |
| `ReadsAreComplete` | `Spec => []ReadsReachTheEnd` |
| `QuietFilesReadExactly` | `Spec => []QuietReadsExact` |

All four are about what a read would return, which is computed from the state; what has
to be invariant is the read buffer: its bytes at `probe` were seen, and as long as the
handle is quiet it is exactly the part of the file that it says it is. The arithmetic of
alignment and cutting is in lemmas about `FetchOffset`, `FetchSize`, `Hit` and
`ReadRange`, each case of `Result` in a lemma of its own.

### Names and caches

`DirOpsProofs` proves, for any finite sets of names, any handles and any times to live:

| Theorem | Statement |
|---|---|
| `InodesLeadBack` | `Spec => []MapConsistent` |
| `FlushReachesItsFile` | `Spec => []HandleFollowsFile` |
| `InodesMoveOrAreDisplaced` | `Spec => InodesMoveWithFiles` |
| `FlushesCreateNothing` | `Spec => FlushCreatesNothing` |

The first two are from the inductive invariant `IInv`. That a handle follows its file is not inductive
alone: `rename` changes the path of one inode, and the handles on other files keep
theirs only if no two paths share it, which is `MapConsistent`. That in turn needs the
types of the mapper and of what the caches hold, since `readdir` gives inodes to the
names of a cached listing. `InodeMapProofs` states what each method of the mapper
preserves (`GetOrCreateOK`, `RenamePathOK`), and `GaveInodesOK` adds a whole listing
at once; most handlers only add inodes (`Extends`) and open nothing (`Kept`), for
which `FollowsIfKept` is enough, and `AllocateKeeps` and `RenameKeeps` are the two
that do more.

`InodesMoveOrAreDisplaced` is about steps: all but a rename only add to the mapper
(`OthersOnlyAdd`), and what they add are new inodes for new paths (`AddedInodes`), so that
a displaced inode stays displaced. A rename moves the one inode of the path together with
what the filer has there (`RenamedMoves`), and displaces the one of the path it moves to,
if that has one (`RenameMovesInode`). That no other path has the inode that moves is
`MapConsistent` again. `FlushesCreateNothing` rests on `HandleFollowsFile`, and on
the tree having what the handle leads to: every file has its directory (`Closed`), and the
file of a handle is at its `home` (`HomesThere`), which are inductive together. The step
that takes work is again the rename, of a whole directory onto an empty one
(`RenamedTree`). It says nothing of a handle whose file was deleted: its PUT brings the
file back, and no line of the repository promises otherwise.

| Theorem of `DirCachesProofs` | Statement |
|---|---|
| `DirTypes` | `Spec => []TypeOK` |
| `ListingForItsTime` | `Spec => []ListingBounded` |
| `MetadataForItsTime` | `Spec => []MetadataBounded` |
| `MkdirDeleteRenameStick` | `Spec => []MkdirDeleteRenameSeen` |
| `MissingForBothTimes` | `Spec => []MissingBounded` |

The four properties of the caches and the types of the tree and the entries are
inductive together (`CInv`): a negative entry may have been made from a cached listing,
so that `MissingBounded` rests on `ListingBounded`, which is also why it adds the two
times. The proof splits a step into what it does to the tree (`TreeStep`) and to the
entry of one path in each cache (`NegativeStep`, `ListingStep`, `MetadataStep`): each
action is shown to be made of these, and each property to survive them. The types of the
mapper and the handles are a second, smaller invariant (`TInv`), because no cache
property needs them.

| Theorem of `CacheStoreProofs` | Statement |
|---|---|
| `TypeCorrect` | `Spec => []TypeOK` |
| `EvictsLeastRecentUnlessReloaded` | `Spec => RecentStayUnlessReloaded` |
| `DefenceSparesValid` | `Spec => ValidMissingStay` |
| `CachesForget` | `Spec => NeverRenewed` |

`TypeOK` includes that no key is twice in `order`. What is evicted is the least recently
used because the keys behind a key in `order` have all been used since it was, unless it
was last reloaded in its place (`UseOrder`): that is the inductive invariant, and as many
of them as the capacity are in the way of the front when an insert overflows.

### The end of a mount

| Theorem of `ShutdownProofs` | Statement |
|---|---|
| `ShutdownTypes` | `Spec => []TypeOK` |
| `LeavesNothingMounted` | `Spec => []NothingLeftMounted` |
| `SignalsKeepThePromise` | `Spec => LifeImplemented` |

The inductive invariant relates `run_result`, the flags and the handles to where the main
thread is: a session that ended well was detached and nothing can attach it again, and
after the drain `shutdown_failed` says whether a handle is left, whatever the other
threads did in between.

### The filer

| Theorem of `FilerProofs` | Statement |
|---|---|
| `TypeCorrect` | `Spec => []TypeOK` |
| `NeverHalfPublished` | `Spec => []NeverHalf` |
| `AnswersStand` | `Spec => []AnsweredStands` |
| `GetsAreOfOneBody` | `Spec => []GetsOneBody` |
| `WholeFilesKept` | `Spec => WholeFilesImplemented` |

`FilerInv` says of the names that each inode has at most one and that a temporary name
leads to none that a file has on the disk (`NamesInv`); of each request that its fields
are those of its operation (`Shape`) and what its inode holds at each stage, given that
no other wrote to it (`FullInv`, `PartInv`, `GetInv`); and of each inode without a writer
that it is as meant, whole if it is only written whole (`Stands`, `Whole`). A step of a
request touches this request and one inode. `StepKeeps` uses that: it reduces each
action to what becomes of its own request and inode, and of the names.

`WholeFilesKept` adds `PutsInv`: a temporary name leads to the inode of a full PUT only
if that PUT writes its path, so that a rename replaces the file that the PUT was meant for;
and an inode that a PUT has alone was not opened by a partial one. A file of which
something is promised has no writer and is on the disk as it is in memory (`Settled`, from
`FilerInv`), so that streaming, syncing and writing out change nothing that `WholeFiles`
sees. There is one lemma per action, which shows the step of `WholeFiles` that it makes
(`PublishEnds`, `OpenReadOpens`, `RenameMoves`, ...) or that it makes none
(`UnseenWrite`, `WriteOutIsUnseen`, ...).

### Only model-checked

- `SecondSignalEnds` and `FirstSignalEnds` of `Shutdown`: liveness under fairness is out
  of the prover's reach.

## Not modelled

- The branches of `main.rs` for macOS and other platforms, which are a different program
  for a different unmount.
- The filer process (arguments, bind, graceful shutdown), configuration and runtime: they
  keep no state that others read; what they configure is a constant here.
- `safe_join_path`, routes, URLs, JSON, error texts and the parsing of header values:
  conversions, which no property is about.
- Modes and times (`chmod`, `utimes`, the rest of `setattr`), extended attributes, the
  constant `statfs` and `fallocate`, which does nothing: no state of theirs is read by
  what is modelled.
- `readdir_entries`: the position in a listing that is fetched anew for every call.
  `DirOps` takes a listing as answered at once.
- `remove` and `clear_except_root` of the mapper, which nothing calls.
- Directories below directories, and a GET of a file that grows during a read of the
  mount.

## Plan

Done: `WriteBack`, `InodeMap`, `DirOps`, `CacheStore`, `ReadPath`, `Filer`, `Shutdown`,
with the four abstract specifications that they implement, and theorems of all their
invariants, action properties and refinements. Left, in this order:

1. `DirStream`: `readdir_entries` over a listing that changes between its calls.
2. Modes and times: what `setattr` promises of them when its PATCH fails.
