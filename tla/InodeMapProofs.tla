----------------------------- MODULE InodeMapProofs -----------------------------
(***************************************************************************)
(* What the methods of InodeMapper preserve, for any set P of paths.       *)
(***************************************************************************)
EXTENDS InodeMap, TLAPS

\* The functions from a part of S to T.
PartialFns(S, T) == UNION {[D -> T] : D \in SUBSET S}

\* The mappers of paths in P.
Mappers(P) ==
  [inode_to_path : PartialFns(Nat, P),
   path_to_inode : PartialFns(P, Nat),
   next_inode    : Nat]

\* n names all that m names, in the same way, and what is new in it has a new inode.
Extends(m, n) ==
  /\ \A i \in Inodes(m) : i \in Inodes(n) /\ PathFor(n, i) = PathFor(m, i)
  /\ \A p \in Known(m) : p \in Known(n) /\ n.path_to_inode[p] = m.path_to_inode[p]
  /\ \A p \in Known(n) \ Known(m) : n.path_to_inode[p] \notin Inodes(m)

-----------------------------------------------------------------------------
(* Functions changed at one point *)

LEMMA PutType ==
  ASSUME NEW S, NEW T, NEW f \in PartialFns(S, T), NEW k \in S, NEW v \in T
  PROVE  Put(f, k, v) \in PartialFns(S, T)
<1>1. PICK D \in SUBSET S : f \in [D -> T]
  BY DEF PartialFns
<1>2. Put(f, k, v) \in [D \cup {k} -> T] /\ D \cup {k} \in SUBSET S
  BY <1>1 DEF Put
<1> QED
  BY <1>2 DEF PartialFns

LEMMA WithoutType ==
  ASSUME NEW S, NEW T, NEW f \in PartialFns(S, T), NEW k
  PROVE  Without(f, k) \in PartialFns(S, T)
<1>1. PICK D \in SUBSET S : f \in [D -> T]
  BY DEF PartialFns
<1>2. Without(f, k) \in [D \ {k} -> T] /\ D \ {k} \in SUBSET S
  BY <1>1 DEF Without
<1> QED
  BY <1>2 DEF PartialFns

LEMMA MapperFields ==
  ASSUME NEW P, NEW m \in Mappers(P)
  PROVE  /\ m.inode_to_path \in PartialFns(Nat, P)
         /\ m.path_to_inode \in PartialFns(P, Nat)
         /\ m.next_inode \in Nat
         /\ Inodes(m) \subseteq Nat
         /\ Known(m) \subseteq P
         /\ \A i \in Inodes(m) : PathFor(m, i) \in P
         /\ \A p \in Known(m) : m.path_to_inode[p] \in Nat
<1>1. /\ m.inode_to_path \in PartialFns(Nat, P)
      /\ m.path_to_inode \in PartialFns(P, Nat)
      /\ m.next_inode \in Nat
  BY DEF Mappers
<1>2. PICK D \in SUBSET Nat : m.inode_to_path \in [D -> P]
  BY <1>1 DEF PartialFns
<1>3. PICK K \in SUBSET P : m.path_to_inode \in [K -> Nat]
  BY <1>1 DEF PartialFns
<1> QED
  BY <1>1, <1>2, <1>3 DEF Inodes, Known, PathFor

-----------------------------------------------------------------------------
(* The methods *)

\* A mount starts with the root alone.
LEMMA NewMapperOK ==
  ASSUME NEW P, NEW root \in P
  PROVE  NewMapper(root) \in Mappers(P) /\ Consistent(NewMapper(root))
<1> DEFINE f == [i \in {RootInode} |-> root]
           g == [p \in {root} |-> RootInode]
<1>1. RootInode \in Nat /\ RootInode < RootInode + 1 /\ RootInode + 1 \in Nat
  BY DEF RootInode
<1>2. f \in [{RootInode} -> P] /\ g \in [{root} -> Nat]
  BY <1>1
<1>3. {RootInode} \in SUBSET Nat /\ {root} \in SUBSET P
  BY <1>1
<1>4. f \in PartialFns(Nat, P) /\ g \in PartialFns(P, Nat)
  BY <1>2, <1>3 DEF PartialFns
<1>5. NewMapper(root) \in Mappers(P)
  BY <1>1, <1>4 DEF NewMapper, Mappers
<1>6. Consistent(NewMapper(root))
  BY <1>1 DEF NewMapper, Consistent, Inodes, Known, PathFor
<1> QED
  BY <1>5, <1>6

\* get_or_create_inode: the path is known afterwards, and nothing else changes.
LEMMA GetOrCreateOK ==
  ASSUME NEW P, NEW m \in Mappers(P), Consistent(m), NEW p \in P
  PROVE  LET n == GetOrCreate(m, p)
         IN /\ n \in Mappers(P)
            /\ Consistent(n)
            /\ Extends(m, n)
            /\ p \in Known(n)
<1>1. CASE p \in Known(m)
  BY <1>1 DEF GetOrCreate, Extends
<1>2. CASE p \notin Known(m)
  <2> DEFINE i == m.next_inode
             f == Put(m.inode_to_path, i, p)
             g == Put(m.path_to_inode, p, i)
             n == [inode_to_path |-> f, path_to_inode |-> g, next_inode |-> i + 1]
  <2>1. GetOrCreate(m, p) = n
    BY <1>2 DEF GetOrCreate
  <2>2. i \in Nat /\ i \notin Inodes(m) /\ \A j \in Inodes(m) : j \in Nat /\ j < i
    BY MapperFields DEF Consistent
  <2>f. m.inode_to_path \in PartialFns(Nat, P)
    BY MapperFields
  <2>g. m.path_to_inode \in PartialFns(P, Nat)
    BY MapperFields
  <2> HIDE DEF i, f, g
  <2>3. /\ f \in PartialFns(Nat, P)
        /\ DOMAIN f = Inodes(m) \cup {i}
        /\ f[i] = p
        /\ \A j \in Inodes(m) : j # i => f[j] = PathFor(m, j)
    <3>1. i \in Nat
      BY <2>2
    <3>2. f \in PartialFns(Nat, P)
      BY <3>1, <2>f, PutType DEF f
    <3> QED
      BY <3>2 DEF Inodes, PathFor, f, Put
  <2>4. /\ g \in PartialFns(P, Nat)
        /\ DOMAIN g = Known(m) \cup {p}
        /\ g[p] = i
        /\ \A q \in Known(m) : q # p => g[q] = m.path_to_inode[q]
    <3>1. i \in Nat
      BY <2>2
    <3>2. g \in PartialFns(P, Nat)
      BY <3>1, <2>g, PutType DEF g
    <3> QED
      BY <3>2 DEF Known, g, Put
  <2>5. /\ n.inode_to_path = f /\ n.path_to_inode = g /\ n.next_inode = i + 1
        /\ Inodes(n) = DOMAIN f /\ Known(n) = DOMAIN g
        /\ \A j : PathFor(n, j) = f[j]
    BY DEF Inodes, Known, PathFor
  <2>6. n \in Mappers(P)
    BY <2>2, <2>3, <2>4 DEF Mappers
  <2> HIDE DEF n
  <2>7. \A q \in Known(n) : n.path_to_inode[q] \in Inodes(n) /\ PathFor(n, n.path_to_inode[q]) = q
    <3> SUFFICES ASSUME NEW q \in Known(n)
                 PROVE  g[q] \in Inodes(n) /\ f[g[q]] = q
      BY <2>5
    <3>1. CASE q = p
      BY <3>1, <2>3, <2>4, <2>5
    <3>2. CASE q # p
      <4>1. q \in Known(m) /\ g[q] = m.path_to_inode[q]
        BY <3>2, <2>4, <2>5
      <4>2. g[q] \in Inodes(m) /\ PathFor(m, g[q]) = q
        BY <4>1 DEF Consistent
      <4> QED
        BY <4>2, <2>2, <2>3, <2>5
    <3> QED
      BY <3>1, <3>2
  <2>8. \A j \in Inodes(n) : j < n.next_inode
    BY <2>2, <2>3, <2>5
  <2>9. Consistent(n)
    BY <2>7, <2>8 DEF Consistent
  <2>10. Extends(m, n)
    BY <1>2, <2>2, <2>3, <2>4, <2>5 DEF Extends
  <2> QED
    BY <2>1, <2>4, <2>5, <2>6, <2>9, <2>10
<1> QED
  BY <1>1, <1>2

\* rename: the inode of the old path names the new one, and every other path that
\* is neither keeps its inode.
LEMMA RenamePathOK ==
  ASSUME NEW P, NEW m \in Mappers(P), Consistent(m), NEW old \in P, NEW new \in P
  PROVE  LET n == RenamePath(m, old, new)
         IN /\ n \in Mappers(P)
            /\ Consistent(n)
            /\ Inodes(m) \subseteq Inodes(n)
            /\ \A p \in Known(m) \ {old, new} :
                 p \in Known(n) /\ n.path_to_inode[p] = m.path_to_inode[p]
            /\ \A i \in Inodes(m) :
                 (old \in Known(m) => i # m.path_to_inode[old]) => PathFor(n, i) = PathFor(m, i)
            /\ old \in Known(m) =>
                 /\ Known(n) = (Known(m) \ {old}) \cup {new}
                 /\ n.path_to_inode[new] = m.path_to_inode[old]
                 /\ PathFor(n, m.path_to_inode[old]) = new
<1>1. CASE old \notin Known(m)
  <2>1. RenamePath(m, old, new) = GetOrCreate(m, new)
    BY <1>1 DEF RenamePath
  <2> QED
    BY <1>1, <2>1, GetOrCreateOK DEF Extends
<1>2. CASE old \in Known(m)
  <2> DEFINE i == m.path_to_inode[old]
             f == Put(m.inode_to_path, i, new)
             w == Without(m.path_to_inode, old)
             g == Put(w, new, i)
             n == RenamePath(m, old, new)
  <2>1. /\ DOMAIN m = {"inode_to_path", "path_to_inode", "next_inode"}
        /\ m.inode_to_path \in PartialFns(Nat, P)
        /\ m.path_to_inode \in PartialFns(P, Nat)
        /\ m.next_inode \in Nat
    BY DEF Mappers
  <2>2. n \in [inode_to_path : {f}, path_to_inode : {g}, next_inode : {m.next_inode}]
    <3>1. n = [m EXCEPT !.inode_to_path = f, !.path_to_inode = g]
      BY <1>2 DEF RenamePath
    <3> HIDE DEF n, f, g
    <3> QED
      BY <3>1 DEF Mappers
  <2>3. i \in Inodes(m) /\ i \in Nat /\ PathFor(m, i) = old
    BY <1>2, MapperFields DEF Consistent
  <2>4. w \in PartialFns(P, Nat)
    BY <2>1, WithoutType
  <2>5. f \in PartialFns(Nat, P) /\ g \in PartialFns(P, Nat)
    <3> HIDE DEF w, i
    <3> QED
      BY <2>1, <2>3, <2>4, PutType
  <2>6. n \in Mappers(P)
    <3> HIDE DEF n, f, g
    <3> QED
      BY <2>1, <2>2, <2>5 DEF Mappers
  <2>7. /\ DOMAIN f = Inodes(m)
        /\ f[i] = new
        /\ \A j \in Inodes(m) : j # i => f[j] = PathFor(m, j)
    BY <2>3 DEF Put, Inodes, PathFor
  <2>8. /\ DOMAIN g = (Known(m) \ {old}) \cup {new}
        /\ g[new] = i
        /\ \A q \in Known(m) \ {old, new} : g[q] = m.path_to_inode[q]
    BY DEF Put, Without, Known
  <2> HIDE DEF n, f, g, w
  <2>9. /\ n.path_to_inode = g /\ n.next_inode = m.next_inode
        /\ Inodes(n) = DOMAIN f /\ Known(n) = DOMAIN g
        /\ \A j : PathFor(n, j) = f[j]
    BY <2>2 DEF Inodes, Known, PathFor
  <2>10. \A q \in Known(n) : n.path_to_inode[q] \in Inodes(n) /\ PathFor(n, n.path_to_inode[q]) = q
    <3> SUFFICES ASSUME NEW q \in Known(n)
                 PROVE  g[q] \in Inodes(n) /\ f[g[q]] = q
      BY <2>9
    <3>1. CASE q = new
      BY <3>1, <2>3, <2>7, <2>8, <2>9
    <3>2. CASE q # new
      <4>1. q \in Known(m) /\ q # old /\ g[q] = m.path_to_inode[q]
        BY <3>2, <2>8, <2>9
      <4>2. g[q] \in Inodes(m) /\ PathFor(m, g[q]) = q
        BY <4>1 DEF Consistent
      <4>3. g[q] # i
        BY <4>1, <4>2, <2>3
      <4> QED
        BY <4>2, <4>3, <2>7, <2>9
    <3> QED
      BY <3>1, <3>2
  <2>11. \A j \in Inodes(n) : j < n.next_inode
    BY <2>7, <2>9 DEF Consistent
  <2>12. Consistent(n)
    BY <2>10, <2>11 DEF Consistent
  <2>13. \A p \in Known(m) \ {old, new} :
           p \in Known(n) /\ n.path_to_inode[p] = m.path_to_inode[p]
    BY <2>8, <2>9
  <2>14. \A j \in Inodes(m) : j # i => PathFor(n, j) = PathFor(m, j)
    BY <2>7, <2>9
  <2>15. /\ Known(n) = (Known(m) \ {old}) \cup {new}
         /\ n.path_to_inode[new] = i /\ PathFor(n, i) = new
    BY <2>7, <2>8, <2>9
  <2> QED
    BY <1>2, <2>6, <2>7, <2>9, <2>12, <2>13, <2>14, <2>15 DEF n
<1> QED
  BY <1>1, <1>2
=============================================================================
