------------------------------ MODULE CacheStore -----------------------------
(***************************************************************************)
(* How the caches of a mount keep to their capacities                      *)
(* (mounty/src/fs/remote_fs/mod.rs): the listing cache and the metadata    *)
(* cache, which are alike, as one IndexMap whose oldest entry goes first,  *)
(* and the size defence of the negative-lookup map.                        *)
(*                                                                         *)
(* Abstractions:                                                           *)
(*  - Time passes in ticks between calls, as in DirOps; an entry with no   *)
(*    ticks left is expired, and stays until something finds it.           *)
(*  - What an entry says is left out: it is what was loaded with it.       *)
(*  - MOUNTY_DISABLE_CACHE, with which nothing is stored, is DirOps's.     *)
(***************************************************************************)
EXTENDS Integers, Sequences, FiniteSets

CONSTANTS Keys,      \* paths
          Capacity,  \* listing_cache_capacity, of either cache
          TTL,       \* listing_cache_ttl, or ttl
          NegTTL,    \* NEGATIVE_LOOKUP_TTL_MS
          Soft, Hard \* 10_000 and 20_000 entries

ASSUME CacheAssumptions ==
  /\ IsFiniteSet(Keys)
  /\ Capacity \in Nat
  /\ TTL \in Nat \ {0} /\ NegTTL \in Nat \ {0}
  /\ Soft \in Nat /\ Hard \in Nat /\ Soft < Hard

VARIABLES
  order,     \* the keys of the IndexMap from front to back
  expiry,    \* the ticks left of each of them
  negative,  \* negative_lookup: the ticks left of each of its keys
  \* For the properties:
  since,     \* for each cached key, the others used since its last use: listed or
             \* looked up anew, found in the cache, or loaded over the entry there
  reloaded,  \* the cached keys whose last use was a load over the entry there
  age        \* for each key, the ticks since its entry was loaded, up to TTL

vars == <<order, expiry, negative, since, reloaded, age>>

Elems(s) == {s[i] : i \in 1..Len(s)}

Cached == Elems(order)

Left(k) == IF k \in Cached THEN expiry[k] ELSE 0

\* The promise, for the tick counts of this cache.
Promise == INSTANCE ForgetfulCache WITH left <- [k \in Keys |-> Left(k)]

-----------------------------------------------------------------------------
(* The IndexMap *)

\* shift_remove: the others keep their order.
Without(s, k) ==
  LET p == CHOOSE i \in 1..Len(s) : s[i] = k
  IN [i \in 1 .. Len(s) - 1 |-> IF i < p THEN s[i] ELSE s[i + 1]]

\* The entries of the keys of s, of those in f.
Entries(f, s) == [k \in Elems(s) |-> f[k]]

Holds(s) ==
  /\ order' = s
  /\ UNCHANGED negative

\* A use of k that leaves the keys of s: for k, nothing has been used since.
Uses(k, s) ==
  since' = [j \in Elems(s) |-> IF j = k THEN {} ELSE since[j] \cup {k}]

\* shift_remove of k
Drop(k) ==
  LET s == Without(order, k)
  IN /\ Holds(s)
     /\ expiry' = Entries(expiry, s)
     /\ since' = Entries(since, s)
     /\ reloaded' = reloaded \ {k}
     /\ UNCHANGED age

\* listing_cache_get, metadata_cache_get: a hit moves the entry to the back and
\* leaves its expiry (first variants that leave the entry where it is, and that
\* renew it); an expired entry is removed.
GetInPlace(k) ==
  /\ k \in Cached
  /\ IF expiry[k] > 0
     THEN /\ Holds(order)
          /\ Uses(k, order)
          /\ reloaded' = reloaded \ {k}
          /\ UNCHANGED <<expiry, age>>
     ELSE Drop(k)
GetRenews(k) ==
  /\ k \in Cached
  /\ IF expiry[k] > 0
     THEN /\ Holds(Append(Without(order, k), k))
          /\ Uses(k, order)
          /\ reloaded' = reloaded \ {k}
          /\ expiry' = [expiry EXCEPT ![k] = TTL]
          /\ UNCHANGED age
     ELSE Drop(k)
Get(k) ==
  /\ k \in Cached
  /\ IF expiry[k] > 0
     THEN /\ Holds(Append(Without(order, k), k))
          /\ Uses(k, order)
          /\ reloaded' = reloaded \ {k}
          /\ UNCHANGED <<expiry, age>>
     ELSE Drop(k)

\* The last n of s, where it is longer.
AtMost(n, s) == IF Len(s) <= n THEN s ELSE SubSeq(s, Len(s) - n + 1, Len(s))

\* listing_cache_insert, metadata_cache_insert: a key that is there keeps its place,
\* another comes last, and what is over the capacity goes from the front (first a
\* variant that lets one too many stay).
InsertOneMore(k) ==
  LET s == AtMost(Capacity + 1, IF k \in Cached THEN order ELSE Append(order, k))
      e == [j \in Cached \cup {k} |-> IF j = k THEN TTL ELSE expiry[j]]
  IN /\ Holds(s)
     /\ expiry' = Entries(e, s)
     /\ Uses(k, s)
     /\ reloaded' = (reloaded \cup ({k} \cap Cached)) \cap Elems(s)
     /\ age' = [age EXCEPT ![k] = 0]
Insert(k) ==
  LET s == AtMost(Capacity, IF k \in Cached THEN order ELSE Append(order, k))
      e == [j \in Cached \cup {k} |-> IF j = k THEN TTL ELSE expiry[j]]
  IN /\ Holds(s)
     /\ expiry' = Entries(e, s)
     /\ Uses(k, s)
     /\ reloaded' = (reloaded \cup ({k} \cap Cached)) \cap Elems(s)
     /\ age' = [age EXCEPT ![k] = 0]

\* listing_cache_remove, metadata_cache_remove
Remove(k) == k \in Cached /\ Drop(k)

-----------------------------------------------------------------------------
(* negative_lookup *)

Live(f) == {k \in DOMAIN f : f[k] > 0}

\* negative_lookup_insert: a large map loses its expired entries, and all of them if
\* it is still too large (first a variant that does not look again).
NegativeInsertClears(k) ==
  LET f == [j \in DOMAIN negative \cup {k} |-> IF j = k THEN NegTTL ELSE negative[j]]
  IN /\ negative' = IF Cardinality(DOMAIN f) > Hard THEN [j \in {} |-> 0]
                    ELSE IF Cardinality(DOMAIN f) > Soft THEN [j \in Live(f) |-> f[j]]
                    ELSE f
     /\ UNCHANGED <<order, expiry, since, reloaded, age>>
NegativeInsert(k) ==
  LET f == [j \in DOMAIN negative \cup {k} |-> IF j = k THEN NegTTL ELSE negative[j]]
      g == [j \in Live(f) |-> f[j]]
  IN /\ negative' = IF Cardinality(DOMAIN f) <= Soft THEN f
                    ELSE IF Cardinality(DOMAIN g) <= Hard THEN g
                    ELSE [j \in {} |-> 0]
     /\ UNCHANGED <<order, expiry, since, reloaded, age>>

NegativeRemove(k) ==
  /\ k \in DOMAIN negative
  /\ negative' = [j \in DOMAIN negative \ {k} |-> negative[j]]
  /\ UNCHANGED <<order, expiry, since, reloaded, age>>

-----------------------------------------------------------------------------
Init ==
  /\ order = <<>> /\ expiry = [k \in {} |-> 0]
  /\ negative = [k \in {} |-> 0]
  /\ since = [k \in {} |-> {}] /\ reloaded = {}
  /\ age = [k \in Keys |-> TTL]

\* clear_caches
Clear ==
  /\ order' = <<>> /\ expiry' = [k \in {} |-> 0]
  /\ negative' = [k \in {} |-> 0]
  /\ since' = [k \in {} |-> {}] /\ reloaded' = {}
  /\ UNCHANGED age

Older(f) == [k \in DOMAIN f |-> IF f[k] > 0 THEN f[k] - 1 ELSE 0]

Tick ==
  /\ expiry' = Older(expiry)
  /\ negative' = Older(negative)
  /\ age' = [k \in Keys |-> IF age[k] < TTL THEN age[k] + 1 ELSE TTL]
  /\ UNCHANGED <<order, since, reloaded>>

Next ==
  \/ \E k \in Keys : \/ Get(k)
                     \/ Insert(k)
                     \/ Remove(k)
                     \/ NegativeInsert(k)
                     \/ NegativeRemove(k)
  \/ Clear
  \/ Tick

Spec == Init /\ [][Next]_vars

-----------------------------------------------------------------------------
(* Properties *)

TypeOK ==
  /\ order \in Seq(Keys)
  /\ \A i, j \in 1..Len(order) : order[i] = order[j] => i = j
  /\ expiry \in [Cached -> 0..TTL]
  /\ Len(order) <= Capacity
  /\ DOMAIN negative \subseteq Keys /\ negative \in [DOMAIN negative -> 0..NegTTL]
  /\ Cardinality(DOMAIN negative) <= Hard
  /\ since \in [Cached -> SUBSET Keys] /\ reloaded \subseteq Cached
  /\ age \in [Keys -> 0..TTL]

\* Neither hits, nor evictions, nor inserts of other keys make an entry last longer
\* than its time from when it was loaded.
NeverRenewed == Promise!Spec

\* The caches are called LRU (mounty/src/fs/config.rs:14, mounty/README.md:47). They
\* are, but for what was loaded over the entry that was there: an insert evicts a
\* path only if, with the one inserted, as many others as there is room for were
\* used since it was - or if its last use was such a load, after which it keeps the
\* place it had (mod.rs:281) and may go first although it was used last. open with
\* O_TRUNC, create_file and setattr load metadata so (file_ops.rs:34, :281, :574); a
\* listing is inserted only after a miss (dir_ops.rs:26 and :74, :163 and :179),
\* so for the listing cache there is no such exception.
RecentStayUnlessReloaded ==
  [][\A k \in Keys : Insert(k) =>
       \A j \in Cached \ Cached' :
         j \in reloaded \/ Cardinality(since[j] \cup {k}) >= Capacity]_vars

\* The defence against a large map of missing names takes a name that is still valid
\* only if the valid ones alone are too many.
ValidMissingStay ==
  [][\A k \in Keys : NegativeInsert(k) =>
       \A j \in Live(negative) \ DOMAIN negative' :
         Cardinality(Live(negative) \cup {k}) > Hard]_vars
=============================================================================
