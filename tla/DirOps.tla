-------------------------------- MODULE DirOps --------------------------------
(***************************************************************************)
(* Names in one mounty mount: the inode map, the negative-lookup, listing  *)
(* and metadata caches, the directory handlers that use them               *)
(* (mounty/src/fs/remote_fs/dir_ops.rs, mod.rs), and the paths that open   *)
(* handles flush to.  What a file contains is WriteBack's subject.         *)
(*                                                                         *)
(* Abstractions:                                                           *)
(*  - A name is a directory's or a file's, and directories are in the root *)
(*    only.  Paths are sequences of names.                                 *)
(*  - Callbacks run one at a time, as in WriteBack.  lookup, which lists   *)
(*    the directory twice, is two steps.                                   *)
(*  - Time passes in ticks between callbacks.  A cache entry holds the     *)
(*    ticks left to its expiry and is gone at 0.  Eviction, which only     *)
(*    forgets earlier, is in CacheStore.                                   *)
(*  - destroy, after which nothing reads these maps, is WriteBack's.       *)
(***************************************************************************)
EXTENDS InodeMap, Sequences, FiniteSets

CONSTANTS DirNames, FileNames,
          Handles,
          NegTTL,        \* NEGATIVE_LOOKUP_TTL_MS, in ticks
          ListTTL,       \* config.listing_cache_ttl
          MetaTTL,       \* config.ttl
          DisableCache,  \* MOUNTY_DISABLE_CACHE
          OtherClients,  \* whether other clients change the tree
          MaxInode       \* bound: no more inodes than this are given out

ASSUME Assumptions ==
  /\ DirNames \cap FileNames = {}
  /\ IsFiniteSet(DirNames) /\ IsFiniteSet(FileNames)
  /\ NegTTL \in Nat /\ ListTTL \in Nat /\ MetaTTL \in Nat
  /\ DisableCache \in BOOLEAN /\ OtherClients \in BOOLEAN
  /\ MaxInode \in Nat \ {0}

\* join_path(d, n) is Append(d, n); the parent_path of p is Parent(p).
Root      == <<>>
DirPaths  == {Root} \cup {<<d>> : d \in DirNames}
FilePaths == {<<x>> : x \in FileNames} \cup {<<d, x>> : d \in DirNames, x \in FileNames}
Paths     == DirPaths \cup FilePaths
Parent(p) == IF Len(p) < 2 THEN Root ELSE <<p[1]>>
Children(d) == {p \in Paths \ {Root} : Parent(p) = d}
Below(d)    == {p \in Paths : p # d /\ Len(p) > Len(d) /\ SubSeq(p, 1, Len(d)) = d}

VARIABLES
  files,     \* the filer's tree: "none", "dir" or "file" at each path
  imap,      \* inode_mapper
  negative,  \* negative_lookup: ticks left
  listing,   \* listing_cache: ticks left and the paths listed
  metadata,  \* metadata_cache: ticks left and what was found
  fh,        \* the open handles
  task,      \* the lookup in progress
  \* For the properties:
  age,       \* ticks since a path began or ceased to exist, up to MaxAge
  acked,     \* paths that an acknowledged mkdir, delete or rename changed last (with caches)
  home,      \* where the file that a handle was opened on is now
  uprooted   \* handles on files whose directory was renamed

filer  == <<files, age, acked>>
caches == <<negative, listing, metadata>>
where  == <<home, uprooted>>
vars   == <<filer, imap, caches, fh, task, where>>

-----------------------------------------------------------------------------
(* The filer *)

Exists(p) == files[p] # "none"

\* create_dir_all(parent), then the path itself.
WithPath(p, what) ==
  [q \in Paths |-> IF q = p THEN what
                   ELSE IF q = Parent(p) /\ ~Exists(q) THEN "dir" ELSE files[q]]

WithoutPath(p) == [files EXCEPT ![p] = "none"]

\* Where a rename of src to dst leaves what was at p.
Moved(p, src, dst) ==
  IF p = src THEN dst
  ELSE IF p \in Below(src) THEN Append(dst, p[2]) ELSE p

\* A rename of src to dst, over what is there.
Renamed(src, dst) ==
  IF src = dst THEN files
  ELSE LET came(p) == {q \in {src} \cup Below(src) : Moved(q, src, dst) = p}
       IN [p \in Paths |->
             IF came(p) # {} THEN files[CHOOSE q \in came(p) : TRUE]
             ELSE IF p = src \/ p \in Below(src) THEN "none"
             ELSE IF p = Parent(dst) /\ ~Exists(p) THEN "dir"
             ELSE files[p]]

MaxAge == NegTTL + ListTTL

\* The tree becomes new.  who: the paths that an acknowledged mkdir, delete or rename
\* is about.
Becomes(new, who) ==
  LET changed == {p \in Paths : (new[p] = "none") # (files[p] = "none")}
  IN /\ files' = new
     /\ age' = [p \in Paths |-> IF p \in changed THEN 0 ELSE age[p]]
     /\ acked' = IF DisableCache THEN {} ELSE (acked \ changed) \cup (changed \cap who)

-----------------------------------------------------------------------------
(* Caches and handles *)

NoListing  == [left |-> 0, paths |-> {}]
NoMetadata == [left |-> 0, what |-> "none"]

\* listing_cache_insert and metadata_cache_insert
Listed(d)   == IF DisableCache \/ ListTTL = 0 THEN listing[d]
               ELSE [left |-> ListTTL, paths |-> {p \in Children(d) : Exists(p)}]
Entry(p, w) == IF DisableCache \/ MetaTTL = 0 THEN metadata[p]
               ELSE [left |-> MetaTTL, what |-> w]

NegativeHit(p) == ~DisableCache /\ negative[p] > 0
ListingHit(d)  == ~DisableCache /\ listing[d].left > 0
MetadataHit(p) == ~DisableCache /\ metadata[p].left > 0

NoHandle == [ino |-> 0, buffered |-> FALSE, dirty |-> FALSE]
Nowhere  == Root      \* where no file is

Open == {h \in Handles : fh[h] # NoHandle}

\* There is an inode through which the kernel can name d.
Named(d) == \E i \in Inodes(imap) : PathFor(imap, i) = d

\* The path that handle h reads and writes.
Target(h) == PathFor(imap, fh[h].ino)

Idle  == [name |-> "idle", path |-> Root]
Ready == task = Idle

\* An HTTP call that changes the filer: it may take effect although the reply is
\* lost.
CallResults == {r \in [applied : BOOLEAN, ok : BOOLEAN] : r.ok => r.applied}

-----------------------------------------------------------------------------
(* Handlers.  Those that reply from a cache and leave it as it is, or fail     *)
(* without effect, are not steps.                                              *)

Init ==
  /\ files \in {f \in [Paths -> {"none", "dir", "file"}] :
                  /\ \A p \in Paths : f[p] \in IF p \in DirPaths THEN {"none", "dir"}
                                               ELSE {"none", "file"}
                  /\ f[Root] = "dir"
                  /\ \A p \in Paths : f[p] # "none" => f[Parent(p)] = "dir"}
  /\ imap = NewMapper(Root)
  /\ negative = [p \in Paths |-> 0]
  /\ listing = [d \in DirPaths |-> NoListing]
  /\ metadata = [p \in Paths |-> NoMetadata]
  /\ fh = [h \in Handles |-> NoHandle]
  /\ task = Idle
  /\ age = [p \in Paths |-> MaxAge]
  /\ acked = {}
  /\ home = [h \in Handles |-> Nowhere]
  /\ uprooted = {}

\* lookup of p in a directory whose listing is cached, which is authoritative.
LookupInListing(p) ==
  /\ Ready /\ Named(Parent(p))
  /\ ~NegativeHit(p) /\ ListingHit(Parent(p))
  /\ IF p \in listing[Parent(p)].paths
     THEN negative' = [negative EXCEPT ![p] = 0] /\ imap' = GetOrCreate(imap, p)
     ELSE negative' = [negative EXCEPT ![p] = NegTTL] /\ UNCHANGED imap
  /\ UNCHANGED <<filer, listing, metadata, fh, task, where>>

\* lookup of p when it is not: the directory is listed.
LookupAtFiler(p) ==
  /\ Ready /\ Named(Parent(p))
  /\ ~NegativeHit(p) /\ ~ListingHit(Parent(p))
  /\ Exists(Parent(p))
  /\ IF Exists(p)
     THEN negative' = [negative EXCEPT ![p] = 0] /\ task' = [name |-> "lookup", path |-> p]
     ELSE negative' = [negative EXCEPT ![p] = NegTTL] /\ UNCHANGED task
  /\ UNCHANGED <<filer, imap, listing, metadata, fh, where>>

\* The rest of a lookup that found p: the directory is listed once more, for the
\* cache, unless that fails.
LookupEnds ==
  LET p == task.path
  IN /\ task.name = "lookup"
     /\ \/ Exists(Parent(p)) /\ listing' = [listing EXCEPT ![Parent(p)] = Listed(Parent(p))]
        \/ UNCHANGED listing
     /\ imap' = GetOrCreate(imap, p)
     /\ task' = Idle
     /\ UNCHANGED <<filer, negative, metadata, fh, where>>

\* A variant with a plausible mistake: a hit renews the entry's time.
GetattrRenews(p) ==
  /\ Ready /\ Named(p)
  /\ p # Root
  /\ IF MetadataHit(p) THEN metadata' = [metadata EXCEPT ![p].left = MetaTTL]
     ELSE Exists(p) /\ metadata' = [metadata EXCEPT ![p] = Entry(p, files[p])]
  /\ UNCHANGED <<filer, imap, negative, listing, fh, task, where>>

\* getattr that asks the filer.
Getattr(p) ==
  /\ Ready /\ Named(p)
  /\ p # Root /\ ~MetadataHit(p) /\ Exists(p)
  /\ metadata' = [metadata EXCEPT ![p] = Entry(p, files[p])]
  /\ UNCHANGED <<filer, imap, negative, listing, fh, task, where>>

\* The mapper after inodes were given to the new ones of ps, in the order of a
\* listing.
GaveInodes(m, ps) ==
  LET new  == ps \ Known(m)
      last == m.next_inode + Cardinality(new)
  IN {[inode_to_path |-> [i \in Inodes(m) \cup m.next_inode .. last - 1 |->
                            IF i < m.next_inode THEN PathFor(m, i)
                            ELSE CHOOSE p \in new : order[p] = i],
       path_to_inode |-> [p \in Known(m) \cup ps |->
                            IF p \in new THEN order[p] ELSE m.path_to_inode[p]],
       next_inode    |-> last] :
      order \in {o \in [new -> m.next_inode .. last - 1] :
                   \A p, q \in new : o[p] = o[q] => p = q}}

\* A variant with a plausible mistake: a hit renews the listing's time.
ReaddirRenews(d) ==
  /\ Ready /\ Named(d)
  /\ IF ListingHit(d) THEN listing' = [listing EXCEPT ![d].left = ListTTL]
     ELSE Exists(d) /\ listing' = [listing EXCEPT ![d] = Listed(d)]
  /\ imap' \in GaveInodes(imap, IF ListingHit(d) THEN listing[d].paths
                                ELSE {p \in Children(d) : Exists(p)})
  /\ UNCHANGED <<filer, negative, metadata, fh, task, where>>

\* readdir
Readdir(d) ==
  /\ Ready /\ Named(d)
  /\ IF ListingHit(d) THEN UNCHANGED listing
     ELSE Exists(d) /\ listing' = [listing EXCEPT ![d] = Listed(d)]
  /\ imap' \in GaveInodes(imap, IF ListingHit(d) THEN listing[d].paths
                                ELSE {p \in Children(d) : Exists(p)})
  /\ UNCHANGED <<filer, negative, metadata, fh, task, where>>

\* A variant with a plausible mistake: the listing is left as it is.
ForgetMissing(ps) ==
  /\ negative' = [p \in Paths |-> IF p \in ps THEN 0 ELSE negative[p]]
  /\ UNCHANGED listing

\* What is known of the paths of ps, and of their directories, is out of date.
Forget(ps) ==
  /\ negative' = [p \in Paths |-> IF p \in ps THEN 0 ELSE negative[p]]
  /\ listing' = [d \in DirPaths |-> IF \E p \in ps : d = Parent(p) THEN NoListing
                                    ELSE listing[d]]

\* create_directory: the getattr at its end may fail.
CreateDirectory(p) ==
  /\ Ready /\ p # Root
  /\ \E r \in CallResults :
       /\ Becomes(IF r.applied THEN WithPath(p, "dir") ELSE files, IF r.ok THEN {p} ELSE {})
       /\ IF r.ok
          THEN /\ Forget({p})
               /\ \E found \in {NoMetadata, [left |-> MetaTTL, what |-> "dir"]} :
                    metadata' = [metadata EXCEPT ![p] =
                                   IF DisableCache \/ MetaTTL = 0 THEN NoMetadata ELSE found]
               /\ imap' = GetOrCreate(imap, p)
          ELSE UNCHANGED <<caches, imap>>
  /\ UNCHANGED <<fh, task, where>>

\* delete_directory, which rmdir and unlink call: the inode keeps naming p.
Delete(p) ==
  /\ Ready /\ p # Root /\ p \in Known(imap)
  /\ Exists(p) /\ \A q \in Below(p) : ~Exists(q)
  /\ \E r \in CallResults :
       /\ r.applied
       /\ Becomes(WithoutPath(p), IF r.ok THEN {p} ELSE {})
       /\ IF r.ok THEN Forget({p}) /\ metadata' = [metadata EXCEPT ![p] = NoMetadata]
          ELSE UNCHANGED caches
  /\ home' = [h \in Handles |-> IF home[h] = p THEN Nowhere ELSE home[h]]
  /\ UNCHANGED <<imap, fh, task, uprooted>>

\* rename.  A file is not renamed to a directory's name, nor the other way round.
Rename(src, dst) ==
  /\ Ready /\ src # Root /\ dst # Root /\ src \in Known(imap) /\ Named(Parent(dst))
  /\ src \in DirPaths <=> dst \in DirPaths
  /\ Exists(src) /\ (src # dst => \A q \in Below(dst) : ~Exists(q))
  /\ \E r \in CallResults :
       /\ r.applied
       /\ Becomes(Renamed(src, dst), IF r.ok THEN {src, dst} ELSE {})
       /\ IF r.ok
          THEN /\ imap' = RenamePath(imap, src, dst)
               /\ Forget({src, dst})
               /\ metadata' = [metadata EXCEPT ![src] = NoMetadata, ![dst] = NoMetadata]
          ELSE UNCHANGED <<imap, caches>>
       /\ home' = [h \in Handles |->
                     IF src = dst THEN home[h]
                     ELSE IF home[h] \in {src} \cup Below(src)
                     THEN IF r.ok THEN Moved(home[h], src, dst) ELSE Nowhere
                     ELSE IF home[h] = dst THEN Nowhere ELSE home[h]]
  /\ uprooted' = uprooted \cup {h \in Handles : src # dst /\ home[h] \in Below(src)}
  /\ UNCHANGED <<fh, task>>

\* Handle h is allocated for the file at p.
Allocate(h, p, ino) ==
  /\ fh' = [fh EXCEPT ![h] = [ino |-> ino, buffered |-> FALSE, dirty |-> FALSE]]
  /\ home' = [home EXCEPT ![h] = p]
  /\ uprooted' = uprooted \ {h}

\* open: with O_TRUNC a PUT empties the file, and its entry is cached.
OpenFile(h, p, trunc) ==
  /\ Ready /\ fh[h] = NoHandle /\ p \in Known(imap) /\ Exists(p)
  /\ \E r \in CallResults :
       /\ trunc => r.applied
       /\ IF trunc THEN Becomes(WithPath(p, "file"), {}) ELSE UNCHANGED filer
       /\ IF trunc => r.ok
          THEN /\ Allocate(h, p, InodeOf(imap, p))
               /\ metadata' = IF trunc THEN [metadata EXCEPT ![p] = Entry(p, "file")]
                              ELSE metadata
          ELSE UNCHANGED <<fh, where, metadata>>
  /\ UNCHANGED <<imap, negative, listing, task>>

\* The lookup that create_file makes for O_EXCL did not find p: what it leaves in
\* the negative cache.  If the directory cannot be listed, nothing.
NotFound(p) ==
  IF NegativeHit(p) THEN {negative}
  ELSE IF ListingHit(Parent(p))
  THEN IF p \in listing[Parent(p)].paths THEN {} ELSE {[negative EXCEPT ![p] = NegTTL]}
  ELSE {negative} \cup IF Exists(p) THEN {} ELSE {[negative EXCEPT ![p] = NegTTL]}

\* create_file.  metaOk: the metadata request found the file.  An O_EXCL create whose
\* lookup finds p does what that lookup does, and no more.
CreateFile(h, p, excl, trunc, metaOk) ==
  LET put == trunc \/ ~metaOk
  IN /\ Ready /\ fh[h] = NoHandle /\ Named(Parent(p))
     /\ metaOk => Exists(p)
     /\ negative' \in IF excl THEN NotFound(p) ELSE {negative}
     /\ imap' = GetOrCreate(imap, p)
     /\ \E r \in CallResults :
          /\ Becomes(IF put /\ r.applied THEN WithPath(p, "file") ELSE files, {})
          /\ IF put => r.ok
             THEN /\ Allocate(h, p, InodeOf(imap, p))
                  /\ metadata' = IF put THEN [metadata EXCEPT ![p] = Entry(p, "file")]
                                 ELSE metadata
             ELSE UNCHANGED <<fh, where, metadata>>
     /\ UNCHANGED <<listing, task>>

\* write_bytes that leaves its data in the buffer.
Write(h) ==
  /\ Ready /\ fh[h] # NoHandle
  /\ fh' = [fh EXCEPT ![h].buffered = TRUE, ![h].dirty = TRUE]
  /\ UNCHANGED <<filer, imap, caches, task, where>>

\* A PUT to the path of handle h, if it sends one, creates what is not there.
PutAt(h, sends) ==
  \E applied \in BOOLEAN :
    Becomes(IF sends /\ applied THEN WithPath(Target(h), "file") ELSE files, {})

\* flush_write_buffer, by the flush callback or a write that fills the buffer.
Flush(h) ==
  /\ Ready /\ fh[h].buffered
  /\ PutAt(h, TRUE)
  /\ fh' = [fh EXCEPT ![h].buffered = FALSE]
  /\ UNCHANGED <<imap, caches, task, where>>

\* release: flush_and_finalize_handle sets the size of the file if the handle is
\* dirty, whether or not it still buffers.
Release(h) ==
  /\ Ready /\ fh[h] # NoHandle
  /\ PutAt(h, fh[h].dirty)
  /\ fh' = [fh EXCEPT ![h] = NoHandle]
  /\ home' = [home EXCEPT ![h] = Nowhere]
  /\ uprooted' = uprooted \ {h}
  /\ UNCHANGED <<imap, caches, task>>

\* setattr with a size: the handles of the inode are flushed and forget that they
\* are dirty, a PUT sets the size, and the entry is cached unless its GET fails.
SetSize(ino) ==
  LET p  == PathFor(imap, ino)
      on == {h \in Open : fh[h].ino = ino}
  IN /\ Ready /\ p \in FilePaths
     /\ fh' = [h \in Handles |-> IF h \in on
                                 THEN [fh[h] EXCEPT !.buffered = FALSE, !.dirty = FALSE]
                                 ELSE fh[h]]
     /\ \E r \in CallResults, flushed \in BOOLEAN :
          /\ flushed => \E h \in on : fh[h].buffered
          /\ Becomes(IF flushed \/ r.applied THEN WithPath(p, "file") ELSE files, {})
          /\ \/ r.ok /\ metadata' = [metadata EXCEPT ![p] = Entry(p, "file")]
             \/ UNCHANGED metadata
     /\ UNCHANGED <<imap, negative, listing, task, where>>

-----------------------------------------------------------------------------
(* Time and other clients *)

\* A variant with a plausible mistake: what has expired is not left alone.
LessAlways(n) == n - 1

\* Another: an entry that is there is a hit, whatever its expiry.
LessNever(n) == n

\* An entry is gone at its expiry.
Less(n) == IF n = 0 THEN 0 ELSE n - 1

Tick ==
  /\ negative' = [p \in Paths |-> Less(negative[p])]
  /\ listing' = [d \in DirPaths |-> IF listing[d].left <= 1 THEN NoListing
                                    ELSE [listing[d] EXCEPT !.left = @ - 1]]
  /\ metadata' = [p \in Paths |-> IF metadata[p].left <= 1 THEN NoMetadata
                                  ELSE [metadata[p] EXCEPT !.left = @ - 1]]
  /\ age' = [p \in Paths |-> IF age[p] = MaxAge THEN MaxAge ELSE age[p] + 1]
  /\ UNCHANGED <<files, acked, imap, fh, task, where>>

\* Another client creates or removes p.
OtherClient(p) ==
  /\ OtherClients /\ p # Root /\ Exists(Parent(p))
  /\ IF Exists(p)
     THEN /\ \A q \in Below(p) : ~Exists(q)
          /\ Becomes(WithoutPath(p), {})
          /\ home' = [h \in Handles |-> IF home[h] = p THEN Nowhere ELSE home[h]]
     ELSE /\ Becomes(WithPath(p, IF p \in DirPaths THEN "dir" ELSE "file"), {})
          /\ UNCHANGED home
  /\ UNCHANGED <<imap, caches, fh, task, uprooted>>

-----------------------------------------------------------------------------
Lookup == (\E p \in Paths \ {Root} : LookupInListing(p) \/ LookupAtFiler(p)) \/ LookupEnds

ReadNames == (\E p \in Paths : Getattr(p)) \/ (\E d \in DirPaths : Readdir(d))

ChangeNames ==
  \/ \E d \in DirPaths : CreateDirectory(d)
  \/ \E p \in Paths : Delete(p) \/ \E q \in Paths : Rename(p, q)

UseFiles ==
  \E h \in Handles :
    \/ \E p \in FilePaths, trunc \in BOOLEAN :
         \/ OpenFile(h, p, trunc)
         \/ \E excl, metaOk \in BOOLEAN : CreateFile(h, p, excl, trunc, metaOk)
    \/ Write(h) \/ Flush(h) \/ Release(h)

Truncate == \E ino \in Inodes(imap) : SetSize(ino)

Environment == Tick \/ \E p \in Paths : OtherClient(p)

Next ==
  /\ Lookup \/ ReadNames \/ ChangeNames \/ UseFiles \/ Truncate \/ Environment
  /\ imap'.next_inode <= MaxInode + 1

Spec == Init /\ [][Next]_vars

-----------------------------------------------------------------------------
(* Properties *)

\* Types.
TypeOK ==
  /\ files \in [Paths -> {"none", "dir", "file"}]
  /\ DOMAIN imap = {"inode_to_path", "path_to_inode", "next_inode"}
  /\ Inodes(imap) \subseteq 1..MaxInode /\ Known(imap) \subseteq Paths
  /\ \A i \in Inodes(imap) : PathFor(imap, i) \in Paths
  /\ \A q \in Known(imap) : imap.path_to_inode[q] \in 1..MaxInode
  /\ negative \in [Paths -> 0..NegTTL]
  /\ listing \in [DirPaths -> [left : 0..ListTTL, paths : SUBSET Paths]]
  /\ metadata \in [Paths -> [left : 0..MetaTTL, what : {"none", "dir", "file"}]]
  /\ fh \in [Handles -> [ino : 0..MaxInode, buffered : BOOLEAN, dirty : BOOLEAN]]
  /\ task \in [name : {"idle", "lookup"}, path : Paths]
  /\ age \in [Paths -> 0..MaxAge]
  /\ acked \in SUBSET Paths
  /\ home \in [Handles -> FilePaths \cup {Nowhere}]
  /\ uprooted \in SUBSET Handles

\* A path's inode leads back to the path, after any sequence of lookups, listings,
\* creations and renames (InodeMapper), so that two paths never share an inode.
MapConsistent == Consistent(imap)

\* As long as its directory is not renamed, a handle's flush reaches the file it was
\* opened on, wherever that was renamed to, and whoever opens the file there gets the
\* same inode, by which setattr and getattr find the handle (rename, inode_map.rs).
\* A rename whose reply was lost is not counted.
HandleFollowsFile ==
  \A h \in Open \ uprooted : home[h] # Nowhere =>
    /\ Target(h) = home[h]
    /\ home[h] \in Known(imap) /\ imap.path_to_inode[home[h]] = fh[h].ino

\* What was at p is at q after the step.
MovedTo(p, q) == Exists(p) /\ files'[p] = "none" /\ files'[q] = files[p]

\* What is at p after the step came from elsewhere, and brought its inode.
Replaced(p) ==
  \E q \in Known(imap) \ {p} :
    MovedTo(q, p) /\ p \in Known(imap') /\ imap'.path_to_inode[p] = imap.path_to_inode[q]

\* An inode that is its path's stays so, and goes where what is there goes; or it is
\* displaced by what replaces that, and is never the inode of a path again.
InodesFollow ==
  \A i \in Inodes(imap) :
    LET p == PathFor(imap, i)
        q == PathFor(imap', i)
    IN /\ i \in Inodes(imap')
       /\ \/ Own(imap, i) /\ Own(imap', i) /\ (q = p \/ MovedTo(p, q))
          \/ Own(imap, i) /\ ~Own(imap', i) /\ q = p /\ Replaced(p)
          \/ ~Own(imap, i) /\ ~Own(imap', i) /\ q = p

\* The kernel asks by inodes for as long as it likes.  The inode of a path goes with what
\* an acknowledged rename moves from there, and the path gets no other as long as that
\* stays, whatever is listed, created, deleted and renamed (get_or_create_inode,
\* InodeMapper::rename and its place in rename).  There is one way out: the inode of what
\* a rename replaced keeps the path, and with it leads to what came there.  No other is
\* displaced, and neither a displaced inode nor any other is given out again.  This is
\* about the inodes of paths: what a rename with a lost reply, or of a directory around
\* it, takes elsewhere, leaves its inode behind.
InodesMoveWithFiles == [][InodesFollow]_vars

\* As long as the file is there that a handle was opened on, whatever it is called by
\* now, a flush or release stores its bytes in it: the PUT, which would create what it
\* does not find, makes no name appear, nor a directory come back (flush_write_buffer,
\* flush_and_finalize_handle, which ask the mapper for the path each time).
FlushCreatesNothing ==
  [][\A h \in Open \ uprooted : home[h] # Nowhere /\ (Flush(h) \/ Release(h)) =>
       \A p \in Paths : files'[p] = "none" <=> files[p] = "none"]_vars

\* A name that exists is not reported missing by the negative cache for longer than
\* both TTLs together: an entry made from a cached listing adds its own.
MissingBounded ==
  \A p \in Paths : NegativeHit(p) /\ Exists(p) => age[p] + negative[p] <= NegTTL + ListTTL

\* A listing names what is gone, and lacks what is there, for its own TTL only.
ListingBounded ==
  \A p \in Paths \ {Root} :
    LET l == listing[Parent(p)]
    IN ListingHit(Parent(p)) /\ (p \in l.paths) # Exists(p) => age[p] + l.left <= ListTTL

\* What is gone is not described from the metadata cache for longer than its TTL,
\* although most handlers leave its entry alone, and some put one in for a file that
\* they made or emptied (open, create_file, setattr).
MetadataBounded ==
  \A p \in Paths : MetadataHit(p) /\ ~Exists(p) => age[p] + metadata[p].left <= MetaTTL

\* What an mkdir, rmdir, unlink or rename of this mount changed, when it was answered and
\* nobody changed it since, no cache contradicts (the invalidations at the end of the
\* three handlers).  create_file is not among them: it removes neither the negative entry
\* of its file (although negative_lookup_remove is said to be called after a successful
\* create, mod.rs:184) nor the listing, and only MissingBounded and ListingBounded say
\* when its file is seen.
MkdirDeleteRenameSeen ==
  \A p \in acked :
    /\ NegativeHit(p) => ~Exists(p)
    /\ ListingHit(Parent(p)) => (p \in listing[Parent(p)].paths <=> Exists(p))
    /\ MetadataHit(p) => Exists(p)

-----------------------------------------------------------------------------
(* What the repository says and the code does not do *)

\* "rename files and directories" (mounty/README.md:11), and "Files behave like local
\* files" (mounty/README.md:4): an open file keeps its handle when its directory is
\* renamed.
HandleFollowsDirectory ==
  \A h \in Open : home[h] # Nowhere => Target(h) = home[h]
=============================================================================
