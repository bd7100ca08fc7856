------------------------------- MODULE InodeMap -------------------------------
(***************************************************************************)
(* InodeMapper (mounty/src/fs/utils/inode_map.rs): two maps, from inodes   *)
(* to paths and from paths to inodes, and the next inode to give out.  The *)
(* operators take the mapper and return it as the method leaves it.        *)
(* remove and clear_except_root are called from nowhere but tests.         *)
(***************************************************************************)
EXTENDS Integers

RootInode == 1        \* FUSE_ROOT_ID

Put(f, k, v) == [x \in DOMAIN f \cup {k} |-> IF x = k THEN v ELSE f[x]]
Without(f, k) == [x \in DOMAIN f \ {k} |-> f[x]]

\* InodeMapper::new
NewMapper(root) ==
  [inode_to_path |-> [i \in {RootInode} |-> root],
   path_to_inode |-> [p \in {root} |-> RootInode],
   next_inode    |-> RootInode + 1]

Inodes(m) == DOMAIN m.inode_to_path
Known(m)  == DOMAIN m.path_to_inode

PathFor(m, ino) == m.inode_to_path[ino]

GetOrCreate(m, p) ==
  IF p \in Known(m) THEN m
  ELSE [inode_to_path |-> Put(m.inode_to_path, m.next_inode, p),
        path_to_inode |-> Put(m.path_to_inode, p, m.next_inode),
        next_inode    |-> m.next_inode + 1]

InodeOf(m, p) == GetOrCreate(m, p).path_to_inode[p]

\* A variant with a plausible mistake: the inode goes on naming the old path.
RenameKeepsPath(m, old, new) ==
  IF old \in Known(m)
  THEN [m EXCEPT !.path_to_inode = Put(Without(@, old), new, m.path_to_inode[old])]
  ELSE GetOrCreate(m, new)

\* Another: the old path is dropped and the new one is given an inode of its own.
RenameAfresh(m, old, new) ==
  IF old \in Known(m)
  THEN GetOrCreate([m EXCEPT !.path_to_inode = Without(@, old)], new)
  ELSE GetOrCreate(m, new)

\* InodeMapper::rename.  The inode that named the new path before goes on doing so.
RenamePath(m, old, new) ==
  IF old \in Known(m)
  THEN LET ino == m.path_to_inode[old]
       IN [m EXCEPT !.inode_to_path = Put(@, ino, new),
                    !.path_to_inode = Put(Without(@, old), new, ino)]
  ELSE GetOrCreate(m, new)

\* The inode of a path names that path, and inodes yet to be given out are new.
Consistent(m) ==
  /\ \A p \in Known(m) :
       m.path_to_inode[p] \in Inodes(m) /\ PathFor(m, m.path_to_inode[p]) = p
  /\ \A i \in Inodes(m) : i < m.next_inode

\* i is the inode of the path that it names.  The mapping is said to be bidirectional,
\* which is this for all inodes; but rename leaves displaced the inode that named the
\* new path before: it goes on naming the path, and is not the path's any more.
Own(m, i) ==
  PathFor(m, i) \in Known(m) /\ m.path_to_inode[PathFor(m, i)] = i
=============================================================================
