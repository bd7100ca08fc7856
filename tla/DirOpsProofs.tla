------------------------------ MODULE DirOpsProofs ------------------------------
(***************************************************************************)
(* For any names, handles and times to live: a path's inode leads back to  *)
(* it, and a handle keeps reaching its file while files are renamed.       *)
(***************************************************************************)
EXTENDS DirOps, InodeMapProofs, FiniteSetTheorems, SequenceTheorems

\* The inductive invariant.  The mapper must be consistent for a rename to leave
\* alone the inodes of the handles on other files.
MapOK     == imap \in Mappers(Paths) /\ Consistent(imap)
HandlesOK == /\ fh \in [Handles -> [ino : Nat, buffered : BOOLEAN, dirty : BOOLEAN]]
             /\ DOMAIN home = Handles
CachesOK  == /\ listing \in [DirPaths -> [left : Int, paths : SUBSET Paths]]
             /\ task.path \in Paths
IInv      == MapOK /\ HandlesOK /\ CachesOK /\ HandleFollowsFile

\* Handle h followed a file before the step if it does after it, and the same.
KeptFor(h) ==
  h \in Open' /\ h \notin uprooted' /\ home'[h] # Nowhere =>
    /\ h \in Open /\ h \notin uprooted
    /\ home[h] = home'[h] /\ fh[h].ino = fh'[h].ino

Kept == \A h \in Handles : KeptFor(h)

\* HandleFollowsFile, for one handle.
Follows(h) ==
  h \in Open /\ h \notin uprooted /\ home[h] # Nowhere =>
    /\ PathFor(imap, fh[h].ino) = home[h]
    /\ home[h] \in Known(imap)
    /\ imap.path_to_inode[home[h]] = fh[h].ino

-----------------------------------------------------------------------------
LEMMA RootIsAPath == Root \in Paths /\ Root \in DirPaths /\ DirPaths \subseteq Paths
BY DEF Paths, DirPaths

LEMMA SingletonsFinite ==
  ASSUME NEW S, IsFiniteSet(S)
  PROVE  IsFiniteSet({<<x>> : x \in S})
<1> DEFINE f == [x \in S |-> <<x>>]
           T == {<<x>> : x \in S}
<1>1. f \in Surjection(S, T)
  BY DEF Surjection
<1> HIDE DEF f
<1> QED
  BY <1>1, FS_Surjection

LEMMA PathsFinite == IsFiniteSet(Paths)
<1>1. IsFiniteSet(DirNames) /\ IsFiniteSet(FileNames)
  BY Assumptions
<1>2. IsFiniteSet({<<d>> : d \in DirNames}) /\ IsFiniteSet({<<x>> : x \in FileNames})
  BY <1>1, SingletonsFinite
<1>3. IsFiniteSet({<<d, x>> : d \in DirNames, x \in FileNames})
  <2>1. {<<d, x>> : d \in DirNames, x \in FileNames} = DirNames \X FileNames
    OBVIOUS
  <2> QED
    BY <1>1, <2>1, FS_Product
<1>4. IsFiniteSet({Root})
  BY FS_Singleton
<1>5. IsFiniteSet(DirPaths)
  BY <1>2, <1>4, FS_Union DEF DirPaths
<1>6. IsFiniteSet(FilePaths)
  <2> DEFINE A == {<<x>> : x \in FileNames}
             B == {<<d, x>> : d \in DirNames, x \in FileNames}
  <2>1. IsFiniteSet(A) /\ IsFiniteSet(B) /\ FilePaths = A \cup B
    BY <1>2, <1>3 DEF FilePaths
  <2> HIDE DEF A, B
  <2> QED
    BY <2>1, FS_Union
<1> QED
  BY <1>5, <1>6, FS_Union DEF Paths

\* readdir: the new paths of a listing are known afterwards, and nothing else changes.
LEMMA GaveInodesOK ==
  ASSUME NEW m \in Mappers(Paths), Consistent(m), NEW ps \in SUBSET Paths,
         NEW n \in GaveInodes(m, ps)
  PROVE  n \in Mappers(Paths) /\ Consistent(n) /\ Extends(m, n)
<1> DEFINE new   == ps \ Known(m)
           first == m.next_inode
           last  == first + Cardinality(new)
           f(order) == [i \in Inodes(m) \cup first .. last - 1 |->
                          IF i < first THEN PathFor(m, i) ELSE CHOOSE p \in new : order[p] = i]
           g(order) == [p \in Known(m) \cup ps |->
                          IF p \in new THEN order[p] ELSE m.path_to_inode[p]]
<1>1. first \in Nat /\ last \in Nat /\ first <= last /\ Cardinality(new) \in Nat
  <2>1. IsFiniteSet(new)
    BY PathsFinite, FS_Subset
  <2>2. Cardinality(new) \in Nat
    BY <2>1, FS_CardinalityType
  <2> QED
    BY <2>2, MapperFields
<1>2. PICK order \in [new -> first .. last - 1] :
        /\ \A p, q \in new : order[p] = order[q] => p = q
        /\ n = [inode_to_path |-> f(order), path_to_inode |-> g(order), next_inode |-> last]
  BY DEF GaveInodes
<1> HIDE DEF new, last
<1>3. PICK D \in SUBSET Nat : m.inode_to_path \in [D -> Paths] /\ D = Inodes(m)
  BY MapperFields DEF PartialFns, Inodes
<1>4. \A i \in D : i \in Nat /\ i < first /\ PathFor(m, i) \in Paths
  BY <1>3, MapperFields DEF Consistent
<1>5. \A p \in Known(m) : p \in Paths /\ m.path_to_inode[p] \in D /\ PathFor(m, m.path_to_inode[p]) = p
  BY <1>3, MapperFields DEF Consistent
<1>6. \A p \in new : order[p] \in first .. last - 1
  BY <1>2
<1>7. new \subseteq Paths /\ new \subseteq ps /\ \A p \in ps : p \in new \/ p \in Known(m)
  BY DEF new
<1> DEFINE R == first .. last - 1
<1>r. \A i \in R : i \in Nat /\ ~(i < first) /\ i < last
  BY <1>1
<1>8. \A i \in R : \E p \in new : order[p] = i
  <2>1. order \in Injection(new, R)
    BY <1>2 DEF Injection, IsInjective
  <2>2. IsFiniteSet(R) /\ Cardinality(R) = Cardinality(new)
    <3>1. first \in Int /\ last - 1 \in Int
      BY <1>1
    <3>2. /\ IsFiniteSet(first .. last - 1)
          /\ Cardinality(first .. last - 1) = IF first > last - 1 THEN 0 ELSE last - 1 - first + 1
      BY <3>1, FS_Interval
    <3> QED
      BY <1>1, <3>2 DEF last
  <2>3. order \in Surjection(new, R)
    BY <2>1, <2>2, FS_Injection
  <2> QED
    BY <2>3 DEF Surjection
<1> DEFINE at(i)  == IF i < first THEN PathFor(m, i) ELSE CHOOSE p \in new : order[p] = i
           ino(p) == IF p \in new THEN order[p] ELSE m.path_to_inode[p]
<1>9. \A i \in D \cup R : at(i) \in Paths
  <2>1. ASSUME NEW i \in D
        PROVE  at(i) \in Paths
    BY <1>4, <2>1
  <2>2. ASSUME NEW i \in R
        PROVE  at(i) \in Paths
    <3>1. at(i) = CHOOSE p \in new : order[p] = i
      BY <1>r, <2>2
    <3> QED
      BY <1>7, <1>8, <2>2, <3>1
  <2> QED
    BY <2>1, <2>2
<1>n. new \cap Known(m) = {}
  BY DEF new
<1>10. \A p \in Known(m) \cup ps : ino(p) \in Nat
  <2>1. ASSUME NEW p \in new
        PROVE  ino(p) \in Nat
    BY <1>6, <1>r, <2>1
  <2>2. ASSUME NEW p \in Known(m)
        PROVE  ino(p) \in Nat
    BY <1>n, <1>4, <1>5, <2>2
  <2> QED
    BY <2>1, <2>2, <1>7
<1>11. n \in Mappers(Paths)
  <2> HIDE DEF at, ino, R
  <2>1. f(order) \in [D \cup R -> Paths]
    BY <1>3, <1>9 DEF at, R
  <2>2. g(order) \in [Known(m) \cup ps -> Nat]
    BY <1>10 DEF ino
  <2>3. D \cup R \in SUBSET Nat /\ Known(m) \cup ps \in SUBSET Paths
    BY <1>3, <1>5, <1>r
  <2> HIDE DEF f, g
  <2>4. f(order) \in PartialFns(Nat, Paths) /\ g(order) \in PartialFns(Paths, Nat)
    BY <2>1, <2>2, <2>3 DEF PartialFns
  <2> QED
    BY <1>1, <1>2, <2>4 DEF Mappers
<1> HIDE DEF at, ino
<1>12. /\ Inodes(n) = D \cup R /\ Known(n) = Known(m) \cup ps
       /\ n.next_inode = last
       /\ \A i \in D \cup R : PathFor(n, i) = at(i)
       /\ \A p \in Known(m) \cup ps : n.path_to_inode[p] = ino(p)
  BY <1>2, <1>3 DEF Inodes, Known, PathFor, at, ino
<1> HIDE DEF f, g, R
<1>13. \A i \in D : PathFor(n, i) = PathFor(m, i)
  BY <1>4, <1>12 DEF at
<1>14. ASSUME NEW p \in new
       PROVE  order[p] \in R /\ n.path_to_inode[p] = order[p] /\ PathFor(n, order[p]) = p
  <2>1. order[p] \in R
    BY <1>6 DEF R
  <2>2. at(order[p]) = CHOOSE q \in new : order[q] = order[p]
    BY <2>1, <1>r DEF at
  <2>3. at(order[p]) = p
    BY <2>2, <1>2
  <2>4. n.path_to_inode[p] = order[p]
    BY <1>7, <1>12 DEF ino
  <2> QED
    BY <2>1, <2>3, <2>4, <1>12
<1>15. \A p \in Known(m) : n.path_to_inode[p] = m.path_to_inode[p]
  BY <1>12, <1>n DEF ino
<1>16. \A p \in Known(n) \ Known(m) : n.path_to_inode[p] \notin Inodes(m)
  <2>1. ASSUME NEW p \in new
        PROVE  n.path_to_inode[p] \notin D
    BY <1>4, <1>14, <1>r, <2>1 DEF R
  <2> QED
    BY <1>3, <1>7, <1>12, <2>1
<1>17. Extends(m, n)
  BY <1>3, <1>12, <1>13, <1>15, <1>16 DEF Extends
<1>18. Consistent(n)
  <2>1. ASSUME NEW p \in Known(n)
        PROVE  n.path_to_inode[p] \in Inodes(n) /\ PathFor(n, n.path_to_inode[p]) = p
    <3>1. CASE p \in Known(m)
      BY <3>1, <1>5, <1>12, <1>13, <1>15
    <3>2. CASE p \in new
      BY <3>2, <1>12, <1>14
    <3> QED
      BY <3>1, <3>2, <1>7, <1>12
  <2>2. \A i \in Inodes(n) : i < n.next_inode
    <3> SUFFICES ASSUME NEW i \in D \cup R
                 PROVE  i < last
      BY <1>12
    <3> QED
      BY <1>1, <1>4, <1>r
  <2> QED
    BY <2>1, <2>2 DEF Consistent
<1> QED
  BY <1>11, <1>17, <1>18

-----------------------------------------------------------------------------
(* The invariant *)

LEMMA InitInv == Init => IInv
<1> SUFFICES ASSUME Init
             PROVE  IInv
  OBVIOUS
<1>1. MapOK
  BY NewMapperOK, RootIsAPath DEF Init, MapOK
<1>2. HandlesOK
  BY DEF Init, HandlesOK, NoHandle
<1>3. CachesOK
  BY RootIsAPath DEF Init, CachesOK, NoListing, Idle
<1>4. HandleFollowsFile
  BY DEF Init, HandleFollowsFile, Open
<1> QED
  BY <1>1, <1>2, <1>3, <1>4 DEF IInv

LEMMA OneByOne == HandleFollowsFile <=> \A h \in Handles : Follows(h)
BY DEF HandleFollowsFile, Follows, Target, Open

\* What a step need show of a handle, unless it renames or opens its file.
LEMMA FollowsIfKeptFor ==
  ASSUME MapOK, HandleFollowsFile, Extends(imap, imap'), NEW h \in Handles, KeptFor(h)
  PROVE  Follows(h)'
<1> SUFFICES ASSUME h \in Open', h \notin uprooted', home'[h] # Nowhere
             PROVE  /\ PathFor(imap', fh'[h].ino) = home'[h]
                    /\ home'[h] \in Known(imap')
                    /\ imap'.path_to_inode[home'[h]] = fh'[h].ino
  BY DEF Follows
<1>1. /\ h \in Open /\ h \notin uprooted
      /\ home[h] = home'[h] /\ fh[h].ino = fh'[h].ino
  BY DEF KeptFor
<1>2. /\ PathFor(imap, fh[h].ino) = home[h]
      /\ home[h] \in Known(imap)
      /\ imap.path_to_inode[home[h]] = fh[h].ino
  BY <1>1, OneByOne DEF Follows
<1>3. fh[h].ino \in Inodes(imap)
  BY <1>2 DEF MapOK, Consistent
<1> QED
  BY <1>1, <1>2, <1>3 DEF Extends

LEMMA FollowsIfKept ==
  ASSUME MapOK, HandleFollowsFile, Extends(imap, imap'), Kept
  PROVE  HandleFollowsFile'
<1>1. \A h \in Handles : Follows(h)'
  BY FollowsIfKeptFor DEF Kept
<1> QED
  BY <1>1, OneByOne DEF HandleFollowsFile, Follows, Target, Open

LEMMA ParentIsAPath == ASSUME NEW p \in Paths PROVE Parent(p) \in Paths
BY DEF Parent, Paths, DirPaths, FilePaths, Root

LEMMA UnchangedMap == ASSUME MapOK, imap' = imap PROVE MapOK' /\ Extends(imap, imap')
BY DEF MapOK, Extends

LEMMA CreatedInode ==
  ASSUME MapOK, NEW p \in Paths, imap' = GetOrCreate(imap, p)
  PROVE  MapOK' /\ Extends(imap, imap') /\ p \in Known(imap')
BY GetOrCreateOK DEF MapOK

LEMMA UnchangedHandles ==
  ASSUME HandlesOK, UNCHANGED <<fh, where>>
  PROVE  HandlesOK' /\ Kept
BY DEF HandlesOK, Kept, KeptFor, where, Open

-----------------------------------------------------------------------------
(* Steps that only look *)

LEMMA LookupKeeps ==
  ASSUME IInv, Lookup
  PROVE  IInv'
<1> USE DEF IInv
<1>1. CASE \E p \in Paths \ {Root} : LookupInListing(p)
  <2>1. PICK p \in Paths : LookupInListing(p)
    BY <1>1
  <2>2. MapOK' /\ Extends(imap, imap')
    BY <2>1, CreatedInode, UnchangedMap DEF LookupInListing
  <2>3. HandlesOK' /\ Kept
    BY <2>1, UnchangedHandles DEF LookupInListing
  <2>4. CachesOK'
    BY <2>1 DEF LookupInListing, CachesOK
  <2> QED
    BY <2>2, <2>3, <2>4, FollowsIfKept
<1>2. CASE \E p \in Paths \ {Root} : LookupAtFiler(p)
  <2>1. PICK p \in Paths : LookupAtFiler(p)
    BY <1>2
  <2>2. MapOK' /\ Extends(imap, imap')
    BY <2>1, UnchangedMap DEF LookupAtFiler
  <2>3. HandlesOK' /\ Kept
    BY <2>1, UnchangedHandles DEF LookupAtFiler
  <2>4. CachesOK'
    BY <2>1 DEF LookupAtFiler, CachesOK
  <2> QED
    BY <2>2, <2>3, <2>4, FollowsIfKept
<1>3. CASE LookupEnds
  <2>1. task.path \in Paths
    BY DEF CachesOK
  <2>2. MapOK' /\ Extends(imap, imap')
    BY <1>3, <2>1, CreatedInode DEF LookupEnds
  <2>3. HandlesOK' /\ Kept
    BY <1>3, UnchangedHandles DEF LookupEnds
  <2>4. CachesOK'
    <3>1. \A d \in DirPaths : Listed(d) \in [left : Int, paths : SUBSET Paths]
      BY Assumptions DEF Assumptions, CachesOK, Listed, Children
    <3> DEFINE d == Parent(task.path)
    <3>2. listing' = [listing EXCEPT ![d] = Listed(d)] \/ listing' = listing
      BY <1>3 DEF LookupEnds
    <3>3. listing' \in [DirPaths -> [left : Int, paths : SUBSET Paths]]
      <4> HIDE DEF d
      <4> QED
        BY <3>1, <3>2 DEF CachesOK
    <3>4. task'.path \in Paths
      BY <1>3, RootIsAPath DEF LookupEnds, Idle
    <3> QED
      BY <3>3, <3>4 DEF CachesOK
  <2> QED
    BY <2>2, <2>3, <2>4, FollowsIfKept
<1> QED
  BY <1>1, <1>2, <1>3 DEF Lookup

LEMMA ReadNamesKeeps ==
  ASSUME IInv, ReadNames
  PROVE  IInv'
<1> USE DEF IInv
<1>1. CASE \E p \in Paths : Getattr(p)
  <2>1. PICK p \in Paths : Getattr(p)
    BY <1>1
  <2>2. MapOK' /\ Extends(imap, imap')
    BY <2>1, UnchangedMap DEF Getattr
  <2>3. HandlesOK' /\ Kept
    BY <2>1, UnchangedHandles DEF Getattr
  <2>4. CachesOK'
    BY <2>1 DEF Getattr, CachesOK
  <2> QED
    BY <2>2, <2>3, <2>4, FollowsIfKept
<1>2. CASE \E d \in DirPaths : Readdir(d)
  <2>1. PICK d \in DirPaths : Readdir(d)
    BY <1>2
  <2>2. MapOK' /\ Extends(imap, imap')
    <3>1. PICK ps \in SUBSET Paths : imap' \in GaveInodes(imap, ps)
      <4>1. listing[d].paths \in SUBSET Paths
        BY DEF CachesOK
      <4>2. {p \in Children(d) : Exists(p)} \in SUBSET Paths
        BY DEF Children
      <4> QED
        BY <2>1, <4>1, <4>2 DEF Readdir
    <3> QED
      BY <3>1, GaveInodesOK DEF MapOK
  <2>3. HandlesOK' /\ Kept
    BY <2>1, UnchangedHandles DEF Readdir
  <2>4. CachesOK'
    <3>1. Listed(d) \in [left : Int, paths : SUBSET Paths]
      BY Assumptions DEF Assumptions, CachesOK, Listed, Children
    <3> QED
      BY <2>1, <3>1 DEF Readdir, CachesOK
  <2> QED
    BY <2>2, <2>3, <2>4, FollowsIfKept
<1> QED
  BY <1>1, <1>2 DEF ReadNames

-----------------------------------------------------------------------------
(* Steps that change names *)

LEMMA ForgetKeepsType ==
  ASSUME CachesOK, NEW ps, Forget(ps), task' = task
  PROVE  CachesOK'
BY DEF CachesOK, Forget, NoListing

LEMMA UnchangedCaches ==
  ASSUME CachesOK, UNCHANGED <<listing, task>>
  PROVE  CachesOK'
BY DEF CachesOK

LEMMA CreateDirectoryKeeps ==
  ASSUME IInv, NEW p \in Paths, CreateDirectory(p)
  PROVE  IInv'
<1> USE DEF IInv
<1>1. MapOK' /\ Extends(imap, imap')
  BY CreatedInode, UnchangedMap DEF CreateDirectory
<1>2. HandlesOK' /\ Kept
  BY UnchangedHandles DEF CreateDirectory
<1>3. CachesOK'
  BY ForgetKeepsType, UnchangedCaches DEF CreateDirectory, caches
<1> QED
  BY <1>1, <1>2, <1>3, FollowsIfKept

LEMMA DeleteKeeps ==
  ASSUME IInv, NEW p \in Paths, Delete(p)
  PROVE  IInv'
<1> USE DEF IInv
<1>1. MapOK' /\ Extends(imap, imap')
  BY UnchangedMap DEF Delete
<1>2. HandlesOK' /\ Kept
  BY DEF Delete, HandlesOK, Kept, KeptFor, Open
<1>3. CachesOK'
  BY ForgetKeepsType, UnchangedCaches DEF Delete, caches
<1> QED
  BY <1>1, <1>2, <1>3, FollowsIfKept

\* The inode of the renamed path names the new one from now on, so that the handles
\* on the file move with it; the others have other inodes.
LEMMA RenameKeeps ==
  ASSUME IInv, NEW src \in Paths, NEW dst \in Paths, Rename(src, dst)
  PROVE  IInv'
<1> USE DEF IInv
<1>1. HandlesOK' /\ fh' = fh
  BY DEF Rename, HandlesOK
<1>2. CachesOK'
  BY ForgetKeepsType, UnchangedCaches DEF Rename, caches
<1>3. PICK r \in CallResults :
        /\ imap' = IF r.ok THEN RenamePath(imap, src, dst) ELSE imap
        /\ home' = [h \in Handles |->
                      IF src = dst THEN home[h]
                      ELSE IF home[h] \in {src} \cup Below(src)
                      THEN IF r.ok THEN Moved(home[h], src, dst) ELSE Nowhere
                      ELSE IF home[h] = dst THEN Nowhere ELSE home[h]]
  BY DEF Rename
<1>4. src \in Known(imap)
  BY DEF Rename
<1>5. \A h \in Handles : h \notin uprooted' =>
        h \notin uprooted /\ (src # dst => home[h] \notin Below(src))
  BY DEF Rename
<1>6. CASE ~r.ok
  <2>1. MapOK' /\ Extends(imap, imap')
    BY <1>3, <1>6, UnchangedMap
  <2>2. Kept
    BY <1>1, <1>3, <1>5, <1>6 DEF Kept, KeptFor, Open
  <2> QED
    BY <1>1, <1>2, <2>1, <2>2, FollowsIfKept
<1>7. CASE r.ok
  <2> DEFINE n == RenamePath(imap, src, dst)
             i == imap.path_to_inode[src]
  <2>1. imap' = n
    BY <1>3, <1>7
  <2>2. /\ n \in Mappers(Paths) /\ Consistent(n)
        /\ \A p \in Known(imap) \ {src, dst} :
             p \in Known(n) /\ n.path_to_inode[p] = imap.path_to_inode[p]
        /\ \A j \in Inodes(imap) : j # i => PathFor(n, j) = PathFor(imap, j)
        /\ dst \in Known(n) /\ n.path_to_inode[dst] = i /\ PathFor(n, i) = dst
    BY <1>4, RenamePathOK DEF MapOK
  <2>3. MapOK'
    BY <2>1, <2>2 DEF MapOK
  <2> HIDE DEF n
  <2>4. ASSUME NEW h \in Handles, h \in Open', h \notin uprooted', home'[h] # Nowhere
        PROVE  /\ PathFor(imap', fh'[h].ino) = home'[h]
               /\ home'[h] \in Known(imap')
               /\ imap'.path_to_inode[home'[h]] = fh'[h].ino
    <3>1. h \in Open /\ h \notin uprooted /\ (src # dst => home[h] \notin Below(src))
      BY <2>4, <1>1, <1>5 DEF Open
    <3>2. CASE home[h] = Nowhere
      <4>1. src # Nowhere
        BY DEF Rename, Nowhere
      <4>2. home'[h] = Nowhere
        BY <1>3, <3>1, <3>2, <4>1
      <4> QED
        BY <2>4, <4>2
    <3>3. CASE home[h] # Nowhere
      <4>1. /\ PathFor(imap, fh[h].ino) = home[h]
            /\ home[h] \in Known(imap)
            /\ imap.path_to_inode[home[h]] = fh[h].ino
        BY <3>1, <3>3, OneByOne DEF Follows
      <4>2. CASE home[h] = src
        <5>1. home'[h] = dst
          BY <1>3, <1>7, <4>2 DEF Moved
        <5> QED
          BY <1>1, <2>1, <2>2, <4>1, <4>2, <5>1
      <4>3. CASE home[h] # src
        <5>1. home[h] # dst /\ home'[h] = home[h]
          BY <1>3, <2>4, <3>1, <4>3
        <5>2. fh[h].ino \in Inodes(imap) /\ PathFor(imap, i) = src
          BY <1>4, <4>1 DEF MapOK, Consistent
        <5>3. fh[h].ino # i
          BY <4>1, <4>3, <5>2
        <5> QED
          BY <1>1, <2>1, <2>2, <4>1, <4>3, <5>1, <5>2, <5>3
      <4> QED
        BY <4>2, <4>3
    <3> QED
      BY <3>2, <3>3
  <2>5. HandleFollowsFile'
    BY <2>4 DEF HandleFollowsFile, Target, Open
  <2> QED
    BY <1>1, <1>2, <2>3, <2>5
<1> QED
  BY <1>6, <1>7

-----------------------------------------------------------------------------
(* Steps of open files *)

\* A handle is opened under the inode of its file's path.
LEMMA AllocateKeeps ==
  ASSUME MapOK, HandlesOK, HandleFollowsFile, NEW h \in Handles, NEW p \in Paths,
         imap' = GetOrCreate(imap, p), Allocate(h, p, InodeOf(imap, p))
  PROVE  HandlesOK' /\ HandleFollowsFile'
<1> DEFINE ino == InodeOf(imap, p)
<1>1. MapOK' /\ Extends(imap, imap') /\ p \in Known(imap')
  BY CreatedInode
<1>2. imap'.path_to_inode[p] = ino /\ PathFor(imap', ino) = p
  BY <1>1 DEF InodeOf, MapOK, Consistent
<1>3. ino \in Nat
  BY <1>1, <1>2, MapperFields DEF MapOK
<1> HIDE DEF ino
<1>4. /\ fh' = [fh EXCEPT ![h] = [ino |-> ino, buffered |-> FALSE, dirty |-> FALSE]]
      /\ home' = [home EXCEPT ![h] = p]
      /\ uprooted' = uprooted \ {h}
  BY DEF Allocate, ino
<1>5. HandlesOK'
  BY <1>3, <1>4 DEF HandlesOK
<1>6. fh'[h].ino = ino /\ home'[h] = p
  BY <1>4 DEF HandlesOK
<1>7. Follows(h)'
  BY <1>1, <1>2, <1>6 DEF Follows
<1>8. ASSUME NEW k \in Handles, k # h
      PROVE  Follows(k)'
  <2>1. KeptFor(k)
    BY <1>4, <1>8 DEF KeptFor, Open, HandlesOK
  <2> QED
    BY <1>1, <2>1, FollowsIfKeptFor
<1>9. \A k \in Handles : Follows(k)'
  BY <1>7, <1>8
<1>10. HandleFollowsFile'
  BY <1>9 DEF HandleFollowsFile, Follows, Target, Open
<1> QED
  BY <1>5, <1>10

LEMMA FilePathsArePaths == FilePaths \subseteq Paths
BY DEF Paths

LEMMA OpenFileKeeps ==
  ASSUME IInv, NEW h \in Handles, NEW p \in FilePaths, NEW trunc \in BOOLEAN,
         OpenFile(h, p, trunc)
  PROVE  IInv'
<1> USE DEF IInv
<1>1. MapOK' /\ Extends(imap, imap')
  BY UnchangedMap DEF OpenFile
<1>2. CachesOK'
  BY UnchangedCaches DEF OpenFile
<1>3. CASE UNCHANGED <<fh, where>>
  <2>1. HandlesOK' /\ Kept
    BY <1>3, UnchangedHandles
  <2> QED
    BY <1>1, <1>2, <2>1, FollowsIfKept
<1>4. CASE Allocate(h, p, InodeOf(imap, p))
  <2>1. imap' = GetOrCreate(imap, p)
    BY DEF OpenFile, GetOrCreate
  <2> QED
    BY <1>1, <1>2, <1>4, <2>1, AllocateKeeps, FilePathsArePaths
<1> QED
  BY <1>3, <1>4 DEF OpenFile

LEMMA CreateFileKeeps ==
  ASSUME IInv, NEW h \in Handles, NEW p \in FilePaths, NEW trunc \in BOOLEAN,
         NEW excl \in BOOLEAN, NEW metaOk \in BOOLEAN,
         CreateFile(h, p, excl, trunc, metaOk)
  PROVE  IInv'
<1> USE DEF IInv
<1>1. imap' = GetOrCreate(imap, p) /\ p \in Paths
  BY FilePathsArePaths DEF CreateFile
<1>2. MapOK' /\ Extends(imap, imap')
  BY <1>1, CreatedInode
<1>3. CachesOK'
  BY UnchangedCaches DEF CreateFile
<1>4. CASE UNCHANGED <<fh, where>>
  <2>1. HandlesOK' /\ Kept
    BY <1>4, UnchangedHandles
  <2> QED
    BY <1>2, <1>3, <2>1, FollowsIfKept
<1>5. CASE Allocate(h, p, InodeOf(imap, p))
  BY <1>1, <1>2, <1>3, <1>5, AllocateKeeps
<1> QED
  BY <1>4, <1>5 DEF CreateFile

\* write, flush and release leave the inodes of the handles as they are.
LEMMA DataKeeps ==
  ASSUME IInv, NEW h \in Handles, Write(h) \/ Flush(h) \/ Release(h)
  PROVE  IInv'
<1> USE DEF IInv
<1>1. MapOK' /\ Extends(imap, imap')
  BY UnchangedMap DEF Write, Flush, Release
<1>2. CachesOK'
  BY UnchangedCaches DEF Write, Flush, Release, caches
<1>3. CASE Write(h)
  <2>1. /\ fh[h] # NoHandle
        /\ fh' = [fh EXCEPT ![h] = [fh[h] EXCEPT !.buffered = TRUE, !.dirty = TRUE]]
        /\ UNCHANGED <<home, uprooted>>
    BY <1>3 DEF Write, where, HandlesOK
  <2>2. HandlesOK'
    BY <2>1 DEF HandlesOK
  <2>3. Kept
    BY <2>1 DEF Kept, KeptFor, Open, HandlesOK
  <2> QED
    BY <1>1, <1>2, <2>2, <2>3, FollowsIfKept
<1>4. CASE Flush(h)
  <2>1. /\ fh[h] # NoHandle
        /\ fh' = [fh EXCEPT ![h] = [fh[h] EXCEPT !.buffered = FALSE]]
        /\ UNCHANGED <<home, uprooted>>
    BY <1>4 DEF Flush, where, HandlesOK, NoHandle
  <2>2. HandlesOK'
    BY <2>1 DEF HandlesOK
  <2>3. Kept
    BY <2>1 DEF Kept, KeptFor, Open, HandlesOK
  <2> QED
    BY <1>1, <1>2, <2>2, <2>3, FollowsIfKept
<1>5. CASE Release(h)
  <2>1. /\ fh' = [fh EXCEPT ![h] = NoHandle]
        /\ home' = [home EXCEPT ![h] = Nowhere]
        /\ uprooted' = uprooted \ {h}
    BY <1>5 DEF Release
  <2>2. HandlesOK'
    BY <2>1 DEF HandlesOK, NoHandle
  <2>3. Kept
    BY <2>1 DEF Kept, KeptFor, Open, HandlesOK
  <2> QED
    BY <1>1, <1>2, <2>2, <2>3, FollowsIfKept
<1> QED
  BY <1>3, <1>4, <1>5

LEMMA SetSizeKeeps ==
  ASSUME IInv, NEW ino \in Inodes(imap), SetSize(ino)
  PROVE  IInv'
<1> USE DEF IInv
<1>1. MapOK' /\ Extends(imap, imap')
  BY UnchangedMap DEF SetSize
<1>2. CachesOK'
  BY UnchangedCaches DEF SetSize
<1>3. /\ fh' = [h \in Handles |->
                  IF h \in Open /\ fh[h].ino = ino
                  THEN [fh[h] EXCEPT !.buffered = FALSE, !.dirty = FALSE] ELSE fh[h]]
      /\ UNCHANGED <<home, uprooted>>
  BY DEF SetSize, where
<1>4. HandlesOK'
  BY <1>3 DEF HandlesOK
<1>5. Kept
  BY <1>3 DEF Kept, KeptFor, Open, HandlesOK
<1> QED
  BY <1>1, <1>2, <1>4, <1>5, FollowsIfKept

LEMMA EnvironmentKeeps ==
  ASSUME IInv, Environment
  PROVE  IInv'
<1> USE DEF IInv
<1>1. MapOK' /\ Extends(imap, imap')
  BY UnchangedMap DEF Environment, Tick, OtherClient
<1>2. HandlesOK' /\ Kept
  <2>1. CASE Tick
    BY <2>1, UnchangedHandles DEF Tick
  <2>2. CASE \E p \in Paths : OtherClient(p)
    BY <2>2 DEF OtherClient, HandlesOK, Kept, KeptFor, Open
  <2> QED
    BY <2>1, <2>2 DEF Environment
<1>3. CachesOK'
  <2>1. CASE Tick
    <3>1. \A d \in DirPaths : [listing[d] EXCEPT !.left = @ - 1] \in [left : Int, paths : SUBSET Paths]
      BY DEF CachesOK
    <3>2. NoListing \in [left : Int, paths : SUBSET Paths]
      BY DEF NoListing
    <3> QED
      BY <2>1, <3>1, <3>2 DEF Tick, CachesOK
  <2>2. CASE \E p \in Paths : OtherClient(p)
    BY <2>2, UnchangedCaches DEF OtherClient, caches
  <2> QED
    BY <2>1, <2>2 DEF Environment
<1> QED
  BY <1>1, <1>2, <1>3, FollowsIfKept

-----------------------------------------------------------------------------
LEMMA NextKeepsInv == IInv /\ [Next]_vars => IInv'
<1> SUFFICES ASSUME IInv, [Next]_vars
             PROVE  IInv'
  OBVIOUS
<1>1. CASE Lookup
  BY <1>1, LookupKeeps
<1>2. CASE ReadNames
  BY <1>2, ReadNamesKeeps
<1>3. CASE ChangeNames
  BY <1>3, CreateDirectoryKeeps, DeleteKeeps, RenameKeeps, RootIsAPath DEF ChangeNames
<1>4. CASE UseFiles
  BY <1>4, OpenFileKeeps, CreateFileKeeps, DataKeeps DEF UseFiles
<1>5. CASE Truncate
  BY <1>5, SetSizeKeeps DEF Truncate
<1>6. CASE Environment
  BY <1>6, EnvironmentKeeps
<1>7. CASE UNCHANGED vars
  <2>1. MapOK' /\ Extends(imap, imap')
    BY <1>7, UnchangedMap DEF IInv, vars
  <2>2. HandlesOK' /\ Kept
    BY <1>7, UnchangedHandles DEF IInv, vars
  <2>3. CachesOK'
    BY <1>7, UnchangedCaches DEF IInv, vars, caches
  <2> QED
    BY <2>1, <2>2, <2>3, FollowsIfKept DEF IInv
<1> QED
  BY <1>1, <1>2, <1>3, <1>4, <1>5, <1>6, <1>7 DEF Next

\* After any sequence of lookups, listings, creations and renames, the inode of a
\* path leads back to the path: InodeMapper keeps its two maps in step from paths to
\* inodes, so that two paths never share an inode.
THEOREM InodesLeadBack == Spec => []MapConsistent
<1>1. IInv => MapConsistent
  BY DEF IInv, MapOK, MapConsistent
<1> QED
  BY InitInv, NextKeepsInv, <1>1, PTL DEF Spec

\* As long as its directory is not renamed, a handle's flush reaches the file it was
\* opened on, wherever that was renamed to: rename moves the inode to the new path.
THEOREM FlushReachesItsFile == Spec => []HandleFollowsFile
<1>1. IInv => HandleFollowsFile
  BY DEF IInv
<1> QED
  BY InitInv, NextKeepsInv, <1>1, PTL DEF Spec

-----------------------------------------------------------------------------
(* Inodes *)

\* Only a rename changes what is in the mapper; all other steps add to it.
LEMMA OthersOnlyAdd ==
  ASSUME IInv, Next, \A src, dst \in Paths : ~Rename(src, dst)
  PROVE  Extends(imap, imap')
<1> USE DEF IInv
<1>1. CASE Lookup
  <2>1. task.path \in Paths
    BY DEF CachesOK
  <2> QED
    BY <1>1, <2>1, CreatedInode, UnchangedMap
    DEF Lookup, LookupInListing, LookupAtFiler, LookupEnds
<1>2. CASE ReadNames
  <2>1. CASE \E p \in Paths : Getattr(p)
    BY <2>1, UnchangedMap DEF Getattr
  <2>2. CASE \E d \in DirPaths : Readdir(d)
    <3>1. PICK d \in DirPaths : Readdir(d)
      BY <2>2
    <3>2. listing[d].paths \in SUBSET Paths
      BY DEF CachesOK
    <3>3. {p \in Children(d) : Exists(p)} \in SUBSET Paths
      BY DEF Children
    <3>4. PICK ps \in SUBSET Paths : imap' \in GaveInodes(imap, ps)
      BY <3>1, <3>2, <3>3 DEF Readdir
    <3> QED
      BY <3>4, GaveInodesOK DEF MapOK
  <2> QED
    BY <1>2, <2>1, <2>2 DEF ReadNames
<1>3. CASE ChangeNames
  BY <1>3, CreatedInode, UnchangedMap, RootIsAPath DEF ChangeNames, CreateDirectory, Delete
<1>4. CASE UseFiles
  <2>1. PICK h \in Handles :
          \/ \E p \in FilePaths, trunc \in BOOLEAN :
               \/ OpenFile(h, p, trunc)
               \/ \E excl, metaOk \in BOOLEAN : CreateFile(h, p, excl, trunc, metaOk)
          \/ Write(h) \/ Flush(h) \/ Release(h)
    BY <1>4 DEF UseFiles
  <2>2. CASE Write(h) \/ Flush(h) \/ Release(h)
    BY <2>2, UnchangedMap DEF Write, Flush, Release
  <2>3. CASE \E p \in FilePaths, trunc \in BOOLEAN :
               \/ OpenFile(h, p, trunc)
               \/ \E excl, metaOk \in BOOLEAN : CreateFile(h, p, excl, trunc, metaOk)
    <3>1. imap' = imap \/ \E p \in FilePaths : imap' = GetOrCreate(imap, p)
      BY <2>3 DEF OpenFile, CreateFile
    <3> QED
      BY <3>1, CreatedInode, UnchangedMap, FilePathsArePaths
  <2> QED
    BY <2>1, <2>2, <2>3
<1>5. CASE Truncate
  BY <1>5, UnchangedMap DEF Truncate, SetSize
<1>6. CASE Environment
  BY <1>6, UnchangedMap DEF Environment, Tick, OtherClient
<1> QED
  BY <1>1, <1>2, <1>3, <1>4, <1>5, <1>6 DEF Next

\* A mapper that has only grown names everything as before.
LEMMA AddedInodes ==
  ASSUME Extends(imap, imap')
  PROVE  InodesFollow
BY DEF Extends, InodesFollow, Own

\* What was at src is at dst after a rename.
LEMMA RenamedMoves ==
  ASSUME NEW src \in Paths, NEW dst \in Paths, src # dst, src # Root, dst # Root
  PROVE  Renamed(src, dst)[src] = "none" /\ Renamed(src, dst)[dst] = files[src]
<1> DEFINE came(p) == {q \in {src} \cup Below(src) : Moved(q, src, dst) = p}
<1>1. \A p \in Paths :
        Renamed(src, dst)[p] =
          IF came(p) # {} THEN files[CHOOSE q \in came(p) : TRUE]
          ELSE IF p = src \/ p \in Below(src) THEN "none"
          ELSE IF p = Parent(dst) /\ ~Exists(p) THEN "dir"
          ELSE files[p]
  BY DEF Renamed
<1>2. src \notin Below(src) /\ Moved(src, src, dst) = dst
  BY DEF Below, Moved
<1>3. ASSUME NEW q \in Below(src)
      PROVE  Moved(q, src, dst) # dst /\ Moved(q, src, dst) # src
  <2>1. q \in Paths /\ q # src /\ Len(q) > Len(src)
    BY DEF Below
  <2>2. Moved(q, src, dst) = Append(dst, q[2])
    BY <1>2 DEF Moved
  <2>3. Len(dst) \in 1..2 /\ Len(Append(dst, q[2])) = Len(dst) + 1
    BY DEF Paths, DirPaths, FilePaths, Root
  <2>4. Len(q) \in 0..2 /\ Len(src) \in 0..2
    BY <2>1 DEF Paths, DirPaths, FilePaths, Root
  <2>5. Len(src) < Len(Append(dst, q[2]))
    BY <2>1, <2>3, <2>4
  <2> QED
    BY <2>2, <2>3, <2>5
<1>4. came(src) = {} /\ came(dst) = {src}
  BY <1>2, <1>3
<1> HIDE DEF came
<1> QED
  BY <1>1, <1>4

\* A rename moves the inode of the path that is renamed, with what is there; that of the
\* path it is renamed to is displaced.
LEMMA RenameMovesInode ==
  ASSUME IInv, NEW src \in Paths, NEW dst \in Paths, Rename(src, dst)
  PROVE  InodesFollow
<1>1. PICK r \in CallResults :
        imap' = IF r.ok THEN RenamePath(imap, src, dst) ELSE imap
  BY DEF Rename
<1>2. CASE ~r.ok
  BY <1>1, <1>2, AddedInodes DEF Extends
<1>3. CASE r.ok
  <2> DEFINE i == imap.path_to_inode[src]
  <2>1. src \in Known(imap) /\ i \in Inodes(imap) /\ PathFor(imap, i) = src
    BY DEF Rename, IInv, MapOK, Consistent
  <2>2. imap' = RenamePath(imap, src, dst)
    BY <1>1, <1>3
  <2>3. /\ Inodes(imap) \subseteq Inodes(imap')
        /\ \A p \in Known(imap) \ {src, dst} : imap'.path_to_inode[p] = imap.path_to_inode[p]
        /\ \A j \in Inodes(imap) : j # i => PathFor(imap', j) = PathFor(imap, j)
        /\ Known(imap') = (Known(imap) \ {src}) \cup {dst}
        /\ imap'.path_to_inode[dst] = i /\ PathFor(imap', i) = dst
    BY <2>1, <2>2, RenamePathOK DEF IInv, MapOK
  <2>4. Own(imap, i) /\ Own(imap', i)
    BY <2>1, <2>3 DEF Own
  <2>5. src # dst => MovedTo(src, dst)
    <3>1. Exists(src) /\ files' = Renamed(src, dst) /\ src # Root /\ dst # Root
      BY DEF Rename, Becomes
    <3> QED
      BY <3>1, RenamedMoves DEF MovedTo
  <2>6. src # dst => Replaced(dst)
    BY <2>1, <2>3, <2>5 DEF Replaced
  <2> HIDE DEF i
  <2>7. ASSUME NEW j \in Inodes(imap)
        PROVE  LET p == PathFor(imap, j)
                   q == PathFor(imap', j)
               IN \/ Own(imap, j) /\ Own(imap', j) /\ (q = p \/ MovedTo(p, q))
                  \/ Own(imap, j) /\ ~Own(imap', j) /\ q = p /\ Replaced(p)
                  \/ ~Own(imap, j) /\ ~Own(imap', j) /\ q = p
    <3>1. CASE j = i
      BY <2>1, <2>3, <2>4, <2>5, <3>1
    <3>2. CASE j # i /\ Own(imap, j)
      <4>1. PathFor(imap, j) # src
        BY <3>2 DEF Own, i
      <4>2. CASE PathFor(imap, j) = dst
        BY <2>3, <2>6, <3>2, <4>1, <4>2 DEF Own
      <4>3. CASE PathFor(imap, j) # dst
        BY <2>3, <3>2, <4>1, <4>3 DEF Own
      <4> QED
        BY <4>2, <4>3
    <3>3. CASE j # i /\ ~Own(imap, j)
      BY <2>3, <3>3 DEF Own
    <3> QED
      BY <3>1, <3>2, <3>3
  <2> QED
    BY <2>3, <2>7 DEF InodesFollow
<1> QED
  BY <1>2, <1>3

\* The inode of a path goes with what an acknowledged rename moves, and leaves the path
\* in no other way than displaced by what a rename puts there; a displaced inode stays so:
\* get_or_create_inode only adds, and InodeMapper::rename, called after the filer has
\* renamed, moves one inode.
THEOREM InodesMoveOrAreDisplaced == Spec => InodesMoveWithFiles
<1>1. IInv /\ [Next]_vars => [InodesFollow]_vars
  <2> SUFFICES ASSUME IInv, Next
               PROVE  InodesFollow
    OBVIOUS
  <2>1. CASE \E src, dst \in Paths : Rename(src, dst)
    BY <2>1, RenameMovesInode
  <2>2. CASE \A src, dst \in Paths : ~Rename(src, dst)
    BY <2>2, OthersOnlyAdd, AddedInodes
  <2> QED
    BY <2>1, <2>2
<1> QED
  BY InitInv, NextKeepsInv, <1>1, PTL DEF Spec, InodesMoveWithFiles

-----------------------------------------------------------------------------
(* The tree *)

\* A tree has the directories of what is in it.
Closed(t) == /\ t[Root] # "none"
             /\ \A p \in Paths : t[p] # "none" => t[Parent(p)] # "none"

\* The file that a handle was opened on is where the properties take it to be.
HomesThere == \A h \in Handles : home[h] # Nowhere => home[h] \in Paths /\ Exists(home[h])
TreeInv    == Closed(files) /\ HomesThere

\* What was there still is.
Grown(t) == \A p \in Paths : Exists(p) => t[p] # "none"

LEMMA PathShape ==
  ASSUME NEW p \in Paths
  PROVE  \/ p = Root
         \/ p \in DirPaths /\ p = <<p[1]>> /\ p[1] \in DirNames
         \/ p \in FilePaths /\ p = <<p[1]>> /\ p[1] \in FileNames
         \/ p \in FilePaths /\ p = <<p[1], p[2]>> /\ p[1] \in DirNames /\ p[2] \in FileNames
BY DEF Paths, DirPaths, FilePaths

LEMMA ParentOfParent == ASSUME NEW p PROVE Parent(Parent(p)) = Root
BY DEF Parent, Root

LEMMA FirstOfTwo ==
  ASSUME NEW a, NEW b
  PROVE  SubSeq(<<a, b>>, 1, 1) = <<a>>
<1> DEFINE S == {a, b}
           s == <<a, b>>
<1>1. s \in Seq(S) /\ Len(s) = 2 /\ s[1] = a
  OBVIOUS
<1> HIDE DEF s, S
<1>2. /\ SubSeq(s, 1, 1) \in Seq(S) /\ Len(SubSeq(s, 1, 1)) = 1
      /\ SubSeq(s, 1, 1)[1] = a
  <2>1. \A i \in 1 .. 1 : s[i] \in S
    BY <1>1
  <2> QED
    BY <1>1, <2>1, SubSeqProperties
<1>3. ASSUME NEW t \in Seq(S), Len(t) = 1, t[1] = a
      PROVE  t = <<a>>
  <2>1. <<a>> \in Seq(S)
    BY DEF S
  <2>2. Len(<<a>>) = 1 /\ <<a>>[1] = a
    OBVIOUS
  <2>3. \A i \in 1 .. Len(t) : t[i] = <<a>>[i]
    BY <1>3, <2>2
  <2> QED
    BY <1>3, <2>1, <2>2, <2>3, SeqEqual
<1>4. SubSeq(s, 1, 1) = <<a>>
  BY <1>2, <1>3
<1> QED
  BY <1>4 DEF s

\* Below a path other than the root there are the files of a directory.
LEMMA BelowShape ==
  ASSUME NEW d \in Paths \ {Root}, NEW q \in Paths
  PROVE  q \in Below(d) <=>
           d = <<d[1]>> /\ d[1] \in DirNames /\ q = <<d[1], q[2]>> /\ q[2] \in FileNames
<1>1. ASSUME q \in Below(d)
      PROVE  d = <<d[1]>> /\ q = <<d[1], q[2]>> /\ d[1] \in DirNames /\ q[2] \in FileNames
  <2>1. Len(q) > Len(d) /\ SubSeq(q, 1, Len(d)) = d
    BY <1>1 DEF Below
  <2>2. d = <<d[1]>> /\ q = <<q[1], q[2]>> /\ q[1] \in DirNames /\ q[2] \in FileNames
    BY <2>1, PathShape DEF Root
  <2>3. Len(d) = 1
    BY <2>2
  <2>4. SubSeq(q, 1, 1) = <<q[1]>>
    BY <2>2, FirstOfTwo
  <2>5. d = <<q[1]>>
    BY <2>1, <2>3, <2>4
  <2>6. d[1] = q[1]
    BY <2>5
  <2> QED
    BY <2>2, <2>6
<1>2. ASSUME d = <<d[1]>>, q = <<d[1], q[2]>>
      PROVE  q \in Below(d)
  <2>1. Len(d) = 1 /\ Len(q) = 2
    BY <1>2
  <2>2. SubSeq(q, 1, 1) = <<d[1]>>
    BY <1>2, FirstOfTwo
  <2>3. SubSeq(q, 1, Len(d)) = d
    BY <1>2, <2>1, <2>2
  <2>4. q # d /\ Len(q) > Len(d)
    BY <2>1
  <2> QED
    BY <2>3, <2>4 DEF Below
<1> QED
  BY <1>1, <1>2

LEMMA ParentShape ==
  ASSUME NEW p \in Paths, Parent(p) # Root
  PROVE  p = <<p[1], p[2]>> /\ Parent(p) = <<p[1]>> /\ p[1] \in DirNames /\ p[2] \in FileNames
BY PathShape DEF Parent, Root

LEMMA ChildrenAreBelow ==
  ASSUME NEW p \in Paths, Parent(p) # Root
  PROVE  p \in Below(Parent(p))
<1>1. Parent(p) \in Paths \ {Root}
  BY ParentIsAPath
<1>2. p = <<p[1], p[2]>> /\ Parent(p) = <<p[1]>> /\ p[1] \in DirNames /\ p[2] \in FileNames
  BY ParentShape
<1>3. Parent(p)[1] = p[1]
  BY <1>2
<1> QED
  BY <1>1, <1>2, <1>3, BelowShape

\* A PUT or mkdir leaves what is there, and makes the directory it needs.
LEMMA WithPathTree ==
  ASSUME Closed(files), NEW p, NEW w \in {"dir", "file"}
  PROVE  /\ Closed(WithPath(p, w)) /\ Grown(WithPath(p, w))
         /\ p \in Paths => WithPath(p, w)[p] # "none"
<1> DEFINE t == WithPath(p, w)
<1>1. \A q \in Paths : t[q] = IF q = p THEN w
                             ELSE IF q = Parent(p) /\ ~Exists(q) THEN "dir" ELSE files[q]
  BY DEF WithPath
<1> HIDE DEF t
<1>2. Grown(t)
  BY <1>1 DEF Grown, Exists
<1>3. ASSUME NEW q \in Paths, t[q] # "none"
      PROVE  t[Parent(q)] # "none"
  <2>1. Parent(q) \in Paths
    BY ParentIsAPath
  <2>2. CASE q = p
    BY <1>1, <2>1, <2>2 DEF Exists
  <2>3. CASE q = Parent(p)
    BY <1>2, <2>3, ParentOfParent, RootIsAPath DEF Closed, Grown, Exists
  <2>4. CASE Exists(q)
    BY <1>2, <2>1, <2>4 DEF Closed, Grown, Exists
  <2> QED
    BY <1>1, <1>3, <2>2, <2>3, <2>4 DEF Exists
<1>4. Closed(t)
  BY <1>2, <1>3, RootIsAPath DEF Closed, Grown, Exists
<1> QED
  BY <1>1, <1>2, <1>4 DEF t

\* A path goes when nothing is below it.
LEMMA WithoutPathTree ==
  ASSUME Closed(files), DOMAIN files = Paths, NEW p \in Paths \ {Root},
         \A q \in Below(p) : ~Exists(q)
  PROVE  /\ Closed(WithoutPath(p))
         /\ \A q \in Paths \ {p} : WithoutPath(p)[q] = files[q]
<1>1. \A q \in Paths : WithoutPath(p)[q] = IF q = p THEN "none" ELSE files[q]
  BY DEF WithoutPath
<1>2. ASSUME NEW q \in Paths, q # p, files[q] # "none"
      PROVE  Parent(q) # p
  BY <1>2, ChildrenAreBelow DEF Exists
<1>3. \A q \in Paths : Parent(q) \in Paths
  BY ParentIsAPath
<1> QED
  BY <1>1, <1>2, <1>3, RootIsAPath DEF Closed

LEMMA AppendToOne ==
  ASSUME NEW a, NEW b
  PROVE  Append(<<a>>, b) = <<a, b>>
<1> DEFINE S == {a, b}
<1>1. <<a>> \in Seq(S) /\ b \in S /\ <<a, b>> \in Seq(S)
  OBVIOUS
<1> HIDE DEF S
<1>2. Append(<<a>>, b) \in Seq(S) /\ Len(Append(<<a>>, b)) = 2
  BY <1>1
<1>3. Append(<<a>>, b)[1] = a /\ Append(<<a>>, b)[2] = b
  BY <1>1
<1>4. \A i \in 1 .. 2 : Append(<<a>>, b)[i] = <<a, b>>[i]
  BY <1>3
<1> QED
  BY <1>1, <1>2, <1>4, SeqEqual

\* What is below src is as far below dst after a rename.
LEMMA MovedShape ==
  ASSUME NEW src \in Paths \ {Root}, NEW dst \in Paths \ {Root}, src # dst,
         src \in DirPaths <=> dst \in DirPaths, NEW q \in Below(src)
  PROVE  /\ q = <<src[1], q[2]>> /\ src = <<src[1]>> /\ dst = <<dst[1]>> /\ src[1] # dst[1]
         /\ Moved(q, src, dst) = <<dst[1], q[2]>>
         /\ Moved(q, src, dst) \in Below(dst)
<1>1. q \in Paths /\ q # src
  BY DEF Below
<1>2. src = <<src[1]>> /\ src[1] \in DirNames /\ q = <<src[1], q[2]>> /\ q[2] \in FileNames
  BY <1>1, BelowShape
<1>3. src \in DirPaths
  BY <1>2 DEF DirPaths
<1>4. dst = <<dst[1]>> /\ dst[1] \in DirNames
  BY <1>3 DEF DirPaths
<1>5. Moved(q, src, dst) = <<dst[1], q[2]>>
  <2>1. Moved(q, src, dst) = Append(dst, q[2])
    BY <1>1 DEF Moved
  <2>2. Append(<<dst[1]>>, q[2]) = <<dst[1], q[2]>>
    BY AppendToOne
  <2> QED
    BY <1>4, <2>1, <2>2
<1> DEFINE m == Moved(q, src, dst)
<1>6. m \in Paths /\ m[1] = dst[1] /\ m[2] = q[2]
  BY <1>2, <1>4, <1>5 DEF Paths, FilePaths
<1>7. m \in Below(dst)
  BY <1>2, <1>4, <1>5, <1>6, BelowShape
<1> QED
  BY <1>2, <1>4, <1>5, <1>7

\* A rename moves what is at src and below it, and makes the directory it needs; what is
\* neither there nor replaced stays.
LEMMA RenamedTree ==
  ASSUME Closed(files), NEW src \in Paths \ {Root}, NEW dst \in Paths \ {Root}, src # dst,
         src \in DirPaths <=> dst \in DirPaths, Exists(src), \A q \in Below(dst) : ~Exists(q)
  PROVE  /\ Closed(Renamed(src, dst))
         /\ \A p \in {src} \cup Below(src) :
              /\ Moved(p, src, dst) \in Paths
              /\ Renamed(src, dst)[Moved(p, src, dst)] = files[p]
         /\ \A p \in Paths \ ({src, dst} \cup Below(src)) :
              Exists(p) => Renamed(src, dst)[p] # "none"
<1> DEFINE S       == {src} \cup Below(src)
           came(p) == {q \in S : Moved(q, src, dst) = p}
           t       == Renamed(src, dst)
<1>1. \A p \in Paths :
        t[p] = IF came(p) # {} THEN files[CHOOSE q \in came(p) : TRUE]
               ELSE IF p \in S THEN "none"
               ELSE IF p = Parent(dst) /\ ~Exists(p) THEN "dir"
               ELSE files[p]
  BY DEF Renamed
<1>2. Moved(src, src, dst) = dst
  BY DEF Moved
<1>3. \A q \in Below(src) : Moved(q, src, dst) \in Below(dst)
  BY MovedShape
<1>4. dst \notin Below(dst) /\ Below(dst) \subseteq Paths /\ Below(src) \subseteq Paths
  BY DEF Below
<1>5. ASSUME NEW q \in S, NEW r \in S, Moved(q, src, dst) = Moved(r, src, dst)
      PROVE  q = r
  <2>1. CASE q = src \/ r = src
    BY <1>2, <1>3, <1>4, <1>5, <2>1
  <2>2. CASE q \in Below(src) /\ r \in Below(src)
    <3>1. /\ q = <<src[1], q[2]>> /\ Moved(q, src, dst) = <<dst[1], q[2]>>
          /\ r = <<src[1], r[2]>> /\ Moved(r, src, dst) = <<dst[1], r[2]>>
      BY <2>2, MovedShape
    <3>2. <<dst[1], q[2]>> = <<dst[1], r[2]>>
      BY <1>5, <3>1
    <3>3. q[2] = r[2]
      BY <3>2
    <3> QED
      BY <3>1, <3>3
  <2> QED
    BY <2>1, <2>2
<1> HIDE DEF t
<1>6. ASSUME NEW p \in S
      PROVE  Moved(p, src, dst) \in Paths /\ t[Moved(p, src, dst)] = files[p]
  <2>1. Moved(p, src, dst) \in Paths
    BY <1>2, <1>3, <1>4
  <2>2. came(Moved(p, src, dst)) = {p}
    BY <1>5
  <2> HIDE DEF came, S
  <2> QED
    BY <1>1, <2>1, <2>2
<1>7. \A p \in Paths : p # dst /\ p \notin Below(dst) => came(p) = {}
  BY <1>2, <1>3
<1>8. ASSUME NEW p \in Paths, p # dst, p \notin S, Exists(p)
      PROVE  t[p] # "none" /\ t[p] = files[p]
  <2>1. came(p) = {}
    BY <1>7, <1>8
  <2> QED
    BY <1>1, <1>8, <2>1 DEF Exists
<1>9. t[dst] = files[src] /\ t[dst] # "none"
  BY <1>2, <1>6 DEF Exists
<1>10. t[Root] # "none"
  <2>1. Root \notin S
    BY <1>4, BelowShape, RootIsAPath DEF Root
  <2> QED
    BY <1>8, <2>1, RootIsAPath DEF Closed, Exists
<1>11. t[Parent(dst)] # "none"
  <2> DEFINE d == Parent(dst)
  <2>1. d \in Paths /\ d \in DirPaths
    BY ParentShape, RootIsAPath, PathShape DEF Parent, DirPaths
  <2>2. CASE d = Root
    BY <1>10, <2>2
  <2>3. CASE d # Root
    <3>1. dst = <<dst[1], dst[2]>> /\ d = <<dst[1]>>
      BY <2>3, ParentShape
    <3>2. dst \notin DirPaths /\ d # dst /\ d \notin Below(dst)
      BY <2>1, <3>1, BelowShape DEF DirPaths, Root
    <3>3. d \notin S
      <4>1. d # src
        BY <2>1, <3>2
      <4>2. d \notin Below(src)
        BY <2>1, <3>1, BelowShape
      <4> QED
        BY <4>1, <4>2
    <3>4. came(d) = {}
      BY <1>7, <2>1, <3>2
    <3> HIDE DEF came, S, d
    <3> QED
      BY <1>1, <2>1, <3>3, <3>4 DEF Exists, d
  <2> QED
    BY <2>2, <2>3
<1>12. ASSUME NEW p \in Paths, t[p] # "none"
       PROVE  t[Parent(p)] # "none"
  <2>1. Parent(p) \in Paths
    BY ParentIsAPath
  <2>2. CASE Parent(p) = Root \/ Parent(p) = dst \/ p = dst
    BY <1>9, <1>10, <1>11, <2>2
  <2>3. CASE Parent(p) # Root /\ Parent(p) # dst /\ p # dst
    <3>1. p \in Below(Parent(p)) /\ p = <<p[1], p[2]>> /\ Parent(p) = <<p[1]>>
      BY <2>3, ChildrenAreBelow, ParentShape
    <3>2. p \notin Below(dst)
      BY <2>3, <3>1, BelowShape
    <3>3. p \notin S
      BY <1>1, <1>7, <1>12, <2>3, <3>2
    <3>4. Parent(p) \notin S
      <4>1. Parent(p) # src
        BY <3>1, <3>3
      <4>2. Parent(p) \notin Below(src)
        BY <2>1, <3>1, BelowShape
      <4> QED
        BY <4>1, <4>2
    <3>5. CASE Exists(p)
      BY <1>8, <2>1, <2>3, <3>4, <3>5 DEF Closed, Exists
    <3>6. CASE p = Parent(dst)
      BY <2>3, <3>6, ParentOfParent
    <3> HIDE DEF came, S
    <3>7. came(p) = {}
      BY <1>7, <2>3, <3>2
    <3> QED
      BY <1>1, <1>12, <3>3, <3>5, <3>6, <3>7 DEF Exists
  <2> QED
    BY <2>2, <2>3
<1>13. Closed(t)
  BY <1>10, <1>12 DEF Closed
<1> QED
  BY <1>6, <1>8, <1>13 DEF t

\* A step that only adds to the tree, and opens handles on what is there.
LEMMA TreeGrows ==
  ASSUME TreeInv, Closed(files'), Grown(files'),
         \A h \in Handles : home'[h] \in {home[h], Nowhere} \/ (home'[h] \in Paths /\ files'[home'[h]] # "none")
  PROVE  TreeInv'
<1>1. ASSUME NEW h \in Handles, home'[h] # Nowhere
      PROVE  home'[h] \in Paths /\ files'[home'[h]] # "none"
  BY <1>1 DEF TreeInv, HomesThere, Grown
<1> QED
  BY <1>1 DEF TreeInv, HomesThere, Closed, Exists

LEMMA SameTreeKept ==
  ASSUME TreeInv, UNCHANGED <<files, home>>
  PROVE  TreeInv'
BY DEF TreeInv, HomesThere, Closed, Exists

\* A PUT or mkdir that may or may not be applied.
LEMMA MayPut ==
  ASSUME Closed(files), NEW p, NEW w \in {"dir", "file"}, NEW a \in BOOLEAN,
         files' = IF a THEN WithPath(p, w) ELSE files
  PROVE  Closed(files') /\ Grown(files') /\ (a /\ p \in Paths => files'[p] # "none")
<1>1. CASE a
  BY <1>1, WithPathTree
<1>2. CASE ~a
  BY <1>2 DEF Grown, Exists, Closed
<1> QED
  BY <1>1, <1>2

LEMMA RenameTree ==
  ASSUME TreeInv, HandlesOK, NEW src \in Paths, NEW dst \in Paths, Rename(src, dst)
  PROVE  TreeInv'
<1> DEFINE S == {src} \cup Below(src)
<1>1. /\ src # Root /\ dst # Root /\ Exists(src)
      /\ src \in DirPaths <=> dst \in DirPaths
      /\ src # dst => \A q \in Below(dst) : ~Exists(q)
      /\ files' = Renamed(src, dst)
      /\ \A h \in Handles :
           \/ home'[h] = Nowhere
           \/ src # dst /\ home[h] \in S /\ home'[h] = Moved(home[h], src, dst)
           \/ (src # dst => home[h] \notin S \cup {dst}) /\ home'[h] = home[h]
  BY DEF Rename, Becomes
<1>2. CASE src = dst
  <2>1. files' = files /\ \A h \in Handles : home'[h] \in {home[h], Nowhere}
    BY <1>1, <1>2 DEF Renamed
  <2> QED
    BY <2>1 DEF TreeInv, HomesThere, Closed, Exists
<1>3. CASE src # dst
  <2>1. /\ Closed(files')
        /\ \A p \in S : Moved(p, src, dst) \in Paths /\ files'[Moved(p, src, dst)] = files[p]
        /\ \A p \in Paths \ (S \cup {dst}) : Exists(p) => files'[p] # "none"
    BY <1>1, <1>3, RenamedTree DEF TreeInv
  <2> HIDE DEF S
  <2>2. ASSUME NEW h \in Handles, home'[h] # Nowhere
        PROVE  home'[h] \in Paths /\ files'[home'[h]] # "none"
    <3>1. CASE home[h] \in S /\ home'[h] = Moved(home[h], src, dst)
      <4>1. home[h] # Nowhere
        BY <1>1, <3>1, BelowShape, RootIsAPath DEF S, Nowhere, Below, Root
      <4> QED
        BY <2>1, <3>1, <4>1 DEF TreeInv, HomesThere, Exists
    <3>2. CASE home[h] \notin S \cup {dst} /\ home'[h] = home[h]
      BY <2>1, <2>2, <3>2 DEF TreeInv, HomesThere
    <3> QED
      BY <1>1, <1>3, <2>2, <3>1, <3>2
  <2> QED
    BY <2>1, <2>2 DEF TreeInv, HomesThere, Exists
<1> QED
  BY <1>2, <1>3

\* A path is removed, and the handles on the file with it.
LEMMA RemoveTree ==
  ASSUME TreeInv, DOMAIN files = Paths, NEW p \in Paths \ {Root},
         \A q \in Below(p) : ~Exists(q), files' = WithoutPath(p),
         home' = [h \in Handles |-> IF home[h] = p THEN Nowhere ELSE home[h]]
  PROVE  TreeInv'
<1>1. Closed(files') /\ \A q \in Paths \ {p} : files'[q] = files[q]
  BY WithoutPathTree DEF TreeInv
<1>2. ASSUME NEW h \in Handles, home'[h] # Nowhere
      PROVE  home'[h] \in Paths /\ files'[home'[h]] # "none"
  BY <1>1, <1>2 DEF TreeInv, HomesThere, Exists
<1> QED
  BY <1>1, <1>2 DEF TreeInv, HomesThere, Exists

LEMMA OpenFileTree ==
  ASSUME TreeInv, HandlesOK, NEW h \in Handles, NEW p \in FilePaths, NEW trunc \in BOOLEAN,
         OpenFile(h, p, trunc)
  PROVE  TreeInv'
<1>1. p \in Paths /\ Exists(p)
  BY FilePathsArePaths DEF OpenFile
<1>2. files' = IF trunc THEN WithPath(p, "file") ELSE files
  BY DEF OpenFile, Becomes, filer
<1>3. Closed(files') /\ Grown(files')
  BY <1>2, MayPut DEF TreeInv
<1>4. home' = home \/ home' = [home EXCEPT ![h] = p]
  BY DEF OpenFile, Allocate, where
<1>5. \A k \in Handles : home'[k] \in {home[k], Nowhere} \/ (home'[k] \in Paths /\ files'[home'[k]] # "none")
  BY <1>1, <1>3, <1>4 DEF HandlesOK, Grown
<1> QED
  BY <1>3, <1>5, TreeGrows

LEMMA CreateFileTree ==
  ASSUME TreeInv, HandlesOK, NEW h \in Handles, NEW p \in FilePaths, NEW trunc \in BOOLEAN,
         NEW excl \in BOOLEAN, NEW metaOk \in BOOLEAN, CreateFile(h, p, excl, trunc, metaOk)
  PROVE  TreeInv'
<1> DEFINE put == trunc \/ ~metaOk
<1>1. p \in Paths /\ (~put => Exists(p))
  BY FilePathsArePaths DEF CreateFile
<1>2. PICK r \in CallResults :
        /\ files' = IF put /\ r.applied THEN WithPath(p, "file") ELSE files
        /\ \/ home' = home
           \/ (put => r.ok) /\ home' = [home EXCEPT ![h] = p]
  BY DEF CreateFile, Becomes, Allocate, where
<1>3. r.applied \in BOOLEAN /\ (r.ok => r.applied)
  BY DEF CallResults
<1> HIDE DEF put
<1>4. put \in BOOLEAN
  BY DEF put
<1>5. Closed(files') /\ Grown(files') /\ (put /\ r.applied => files'[p] # "none")
  BY <1>1, <1>2, <1>3, <1>4, MayPut DEF TreeInv
<1>6. (put => r.ok) => files'[p] # "none"
  BY <1>1, <1>3, <1>4, <1>5 DEF Grown
<1>7. \A k \in Handles : home'[k] \in {home[k], Nowhere} \/ (home'[k] \in Paths /\ files'[home'[k]] # "none")
  BY <1>1, <1>2, <1>6 DEF HandlesOK
<1> QED
  BY <1>5, <1>7, TreeGrows

\* The PUT of a handle: to the path that the mapper has for it.
LEMMA PutTree ==
  ASSUME Closed(files), NEW h, NEW sends \in BOOLEAN, PutAt(h, sends)
  PROVE  /\ files' = WithPath(Target(h), "file") \/ files' = files
         /\ Closed(files') /\ Grown(files')
<1>1. PICK a \in BOOLEAN : files' = IF sends /\ a THEN WithPath(Target(h), "file") ELSE files
  BY DEF PutAt, Becomes
<1>2. (sends /\ a) \in BOOLEAN
  OBVIOUS
<1> QED
  BY <1>1, <1>2, MayPut

LEMMA DataTree ==
  ASSUME TreeInv, HandlesOK, NEW h \in Handles, Write(h) \/ Flush(h) \/ Release(h)
  PROVE  TreeInv'
<1>1. fh[h].dirty \in BOOLEAN
  BY DEF HandlesOK
<1>2. CASE Write(h)
  BY <1>2, SameTreeKept DEF Write, filer, where
<1>3. CASE Flush(h) \/ Release(h)
  <2>1. Closed(files') /\ Grown(files')
    BY <1>1, <1>3, PutTree DEF Flush, Release, TreeInv
  <2>2. \A k \in Handles : home'[k] \in {home[k], Nowhere}
    BY <1>3 DEF Flush, Release, where, HandlesOK
  <2> QED
    BY <2>1, <2>2, TreeGrows
<1> QED
  BY <1>2, <1>3

LEMMA NextKeepsTree ==
  ASSUME IInv, TreeInv, DOMAIN files = Paths, [Next]_vars
  PROVE  TreeInv' /\ DOMAIN files' = Paths
<1> USE DEF IInv
<1>1. CASE Lookup \/ ReadNames \/ UNCHANGED vars
  BY <1>1, SameTreeKept
  DEF Lookup, LookupInListing, LookupAtFiler, LookupEnds, ReadNames, Getattr, Readdir,
      filer, where, vars
<1>2. CASE ChangeNames
  <2>1. CASE \E d \in DirPaths : CreateDirectory(d)
    <3>1. PICK d \in DirPaths, a \in BOOLEAN :
            files' = (IF a THEN WithPath(d, "dir") ELSE files) /\ home' = home
      BY <2>1 DEF CreateDirectory, Becomes, CallResults, where
    <3>2. Closed(files') /\ Grown(files')
      BY <3>1, MayPut DEF TreeInv
    <3>3. DOMAIN files' = Paths
      BY <3>1 DEF WithPath
    <3> QED
      BY <3>1, <3>2, <3>3, TreeGrows
  <2>2. CASE \E p \in Paths : Delete(p)
    <3>1. PICK p \in Paths \ {Root} :
            /\ \A q \in Below(p) : ~Exists(q)
            /\ files' = WithoutPath(p)
            /\ home' = [h \in Handles |-> IF home[h] = p THEN Nowhere ELSE home[h]]
      BY <2>2 DEF Delete, Becomes
    <3>2. DOMAIN files' = Paths
      BY <3>1 DEF WithoutPath
    <3> QED
      BY <3>1, <3>2, RemoveTree
  <2>3. CASE \E p, q \in Paths : Rename(p, q)
    <3>1. PICK p \in Paths, q \in Paths : Rename(p, q)
      BY <2>3
    <3>2. DOMAIN files' = Paths
      BY <3>1 DEF Rename, Becomes, Renamed
    <3> QED
      BY <3>1, <3>2, RenameTree
  <2> QED
    BY <1>2, <2>1, <2>2, <2>3 DEF ChangeNames
<1>3. CASE UseFiles
  <2>1. PICK h \in Handles :
          \/ \E p \in FilePaths, trunc \in BOOLEAN :
               \/ OpenFile(h, p, trunc)
               \/ \E excl, metaOk \in BOOLEAN : CreateFile(h, p, excl, trunc, metaOk)
          \/ Write(h) \/ Flush(h) \/ Release(h)
    BY <1>3 DEF UseFiles
  <2>2. TreeInv'
    BY <2>1, OpenFileTree, CreateFileTree, DataTree
  <2>3. DOMAIN files' = Paths
    BY <2>1 DEF OpenFile, CreateFile, Write, Flush, Release, PutAt, Becomes, WithPath, filer
  <2> QED
    BY <2>2, <2>3
<1>4. CASE Truncate
  <2>1. PICK ino \in Inodes(imap), a \in BOOLEAN :
          files' = (IF a THEN WithPath(PathFor(imap, ino), "file") ELSE files) /\ home' = home
    BY <1>4 DEF Truncate, SetSize, Becomes, CallResults, where
  <2>2. Closed(files') /\ Grown(files')
    BY <2>1, MayPut DEF TreeInv
  <2>3. DOMAIN files' = Paths
    BY <2>1 DEF WithPath
  <2> QED
    BY <2>1, <2>2, <2>3, TreeGrows
<1>5. CASE Environment
  <2>1. CASE Tick
    BY <2>1, SameTreeKept DEF Tick, where
  <2>2. CASE \E p \in Paths : OtherClient(p)
    <3>1. PICK p \in Paths \ {Root} :
            \/ /\ \A q \in Below(p) : ~Exists(q)
               /\ files' = WithoutPath(p)
               /\ home' = [h \in Handles |-> IF home[h] = p THEN Nowhere ELSE home[h]]
            \/ /\ \E w \in {"dir", "file"} : files' = WithPath(p, w)
               /\ home' = home
      BY <2>2 DEF OtherClient, Becomes
    <3>2. DOMAIN files' = Paths
      BY <3>1 DEF WithoutPath, WithPath
    <3>3. CASE \E w \in {"dir", "file"} : files' = WithPath(p, w) /\ home' = home
      <4>1. Closed(files') /\ Grown(files')
        BY <3>3, WithPathTree DEF TreeInv
      <4> QED
        BY <3>2, <3>3, <4>1, TreeGrows
    <3> QED
      BY <3>1, <3>2, <3>3, RemoveTree
  <2> QED
    BY <1>5, <2>1, <2>2 DEF Environment
<1> QED
  BY <1>1, <1>2, <1>3, <1>4, <1>5 DEF Next

LEMMA InitTree == Init => TreeInv /\ DOMAIN files = Paths
BY RootIsAPath, ParentIsAPath DEF Init, TreeInv, Closed, HomesThere, Exists

\* As long as the file is there that a handle was opened on, its flushes and its release
\* store into that file and make nothing appear: the mapper leads to where the file is
\* (HandleFollowsFile), and the file and its directory are there (TreeInv).
THEOREM FlushesCreateNothing == Spec => FlushCreatesNothing
<1> DEFINE Quiet == \A h \in Open \ uprooted :
                      home[h] # Nowhere /\ (Flush(h) \/ Release(h)) =>
                        \A p \in Paths : files'[p] = "none" <=> files[p] = "none"
<1>1. IInv /\ TreeInv => Quiet
  <2> SUFFICES ASSUME IInv, TreeInv, NEW h \in Open, h \notin uprooted, home[h] # Nowhere,
                      Flush(h) \/ Release(h), NEW p \in Paths
               PROVE  files'[p] = "none" <=> files[p] = "none"
    OBVIOUS
  <2>1. Target(h) = home[h] /\ home[h] \in Paths /\ Exists(home[h]) /\ h \in Handles
    BY DEF IInv, HandleFollowsFile, TreeInv, HomesThere, Open
  <2>2. files[Parent(home[h])] # "none"
    BY <2>1 DEF TreeInv, Closed, Exists
  <2>3. fh[h].dirty \in BOOLEAN
    BY <2>1 DEF IInv, HandlesOK
  <2>4. files' = WithPath(home[h], "file") \/ files' = files
    BY <2>1, <2>3, PutTree DEF Flush, Release, TreeInv
  <2> QED
    BY <2>1, <2>2, <2>4 DEF WithPath, Exists
<1> HIDE DEF Quiet
<1>2. IInv /\ TreeInv /\ [Next]_vars => [Quiet]_vars
  BY <1>1
<1>3. IInv /\ (TreeInv /\ DOMAIN files = Paths) /\ [Next]_vars => (TreeInv /\ DOMAIN files = Paths)'
  BY NextKeepsTree
<1>4. Spec => [][Quiet]_vars
  BY InitInv, NextKeepsInv, InitTree, <1>2, <1>3, PTL DEF Spec
<1> QED
  BY <1>4 DEF Quiet, FlushCreatesNothing
=============================================================================
