--------------------------- MODULE CacheStoreProofs --------------------------
(* Proofs about CacheStore, for every value of its constants. *)
EXTENDS CacheStore, FiniteSetTheorems, SequenceTheorems, TLAPS

Distinct(s) == \A i, j \in 1..Len(s) : s[i] = s[j] => i = j

\* What comes behind an entry was used after it, unless the entry is of R.
UseOrder(s, f, R) ==
  \A i, j \in 1..Len(s) : i < j => s[i] \in R \/ s[j] \in f[s[i]]

CacheInv == TypeOK /\ UseOrder(order, since, reloaded)

-----------------------------------------------------------------------------
(* Sequences of keys *)

LEMMA EmptyKeys ==
  <<>> \in Seq(Keys) /\ Len(<<>>) = 0 /\ Distinct(<<>>) /\ Elems(<<>>) = {}
  BY DEF Distinct, Elems

LEMMA WithoutOK ==
  ASSUME NEW s \in Seq(Keys), Distinct(s), NEW k \in Elems(s)
  PROVE  /\ Without(s, k) \in Seq(Keys)
         /\ Len(Without(s, k)) = Len(s) - 1
         /\ Distinct(Without(s, k))
         /\ Elems(Without(s, k)) = Elems(s) \ {k}
         /\ \A f, R : UseOrder(s, f, R) => UseOrder(Without(s, k), f, R)
<1>. DEFINE p == CHOOSE i \in 1..Len(s) : s[i] = k
            w == Without(s, k)
            at(i) == IF i < p THEN i ELSE i + 1
<1>1. p \in 1..Len(s) /\ s[p] = k
  BY DEF Elems
<1>2. Len(s) \in Nat /\ Len(s) - 1 \in Nat
  BY <1>1
<1>3. w = [i \in 1 .. Len(s) - 1 |-> IF i < p THEN s[i] ELSE s[i + 1]]
  BY DEF Without
<1>. HIDE DEF p, w
<1>4. \A i \in 1 .. Len(s) - 1 : at(i) \in 1..Len(s) /\ at(i) # p
  BY <1>1, <1>2
<1>5. \A i, j \in 1 .. Len(s) - 1 : (i < j => at(i) < at(j)) /\ (at(i) = at(j) => i = j)
  BY <1>1, <1>2
<1>6. \A i \in 1 .. Len(s) - 1 : w[i] = s[at(i)]
  BY <1>3
<1>. HIDE DEF at
<1>7. w \in Seq(Keys) /\ Len(w) = Len(s) - 1
  <2>1. w \in [1 .. Len(s) - 1 -> Keys]
    BY <1>3, <1>4, <1>6
  <2>. QED BY <1>2, <2>1
<1>8. Distinct(w)
  BY <1>4, <1>5, <1>6, <1>7 DEF Distinct
<1>9. Elems(w) = Elems(s) \ {k}
  <2>1. ASSUME NEW i \in 1..Len(w) PROVE w[i] \in Elems(s) /\ w[i] # k
    BY <1>1, <1>4, <1>6, <1>7 DEF Elems, Distinct
  <2>2. ASSUME NEW i \in 1..Len(s), s[i] # k PROVE s[i] \in Elems(w)
    <3>1. CASE i < p
      <4>1. i \in 1..Len(w) /\ at(i) = i
        BY <1>1, <1>7, <3>1 DEF at
      <4>. QED BY <1>6, <1>7, <4>1 DEF Elems
    <3>2. CASE i > p
      <4>1. i - 1 \in 1..Len(w) /\ at(i - 1) = i
        BY <1>1, <1>7, <3>2 DEF at
      <4>. QED BY <1>6, <1>7, <4>1 DEF Elems
    <3>. QED BY <1>1, <2>2, <3>1, <3>2
  <2>. QED BY <2>1, <2>2 DEF Elems
<1>10. ASSUME NEW f, NEW R, UseOrder(s, f, R) PROVE UseOrder(w, f, R)
  <2>1. ASSUME NEW i \in 1..Len(w), NEW j \in 1..Len(w), i < j
        PROVE  w[i] \in R \/ w[j] \in f[w[i]]
    <3>1. i \in 1 .. Len(s) - 1 /\ j \in 1 .. Len(s) - 1
      BY <1>7
    <3>2. at(i) \in 1..Len(s) /\ at(j) \in 1..Len(s) /\ at(i) < at(j)
      BY <1>4, <1>5, <2>1, <3>1
    <3>3. s[at(i)] \in R \/ s[at(j)] \in f[s[at(i)]]
      BY <1>10, <3>2 DEF UseOrder
    <3>. QED BY <1>6, <3>1, <3>3
  <2>. QED BY <2>1 DEF UseOrder
<1>. QED BY <1>7, <1>8, <1>9, <1>10 DEF w

LEMMA AppendOK ==
  ASSUME NEW s \in Seq(Keys), Distinct(s), NEW k \in Keys \ Elems(s)
  PROVE  /\ Append(s, k) \in Seq(Keys)
         /\ Len(Append(s, k)) = Len(s) + 1
         /\ Distinct(Append(s, k))
         /\ Elems(Append(s, k)) = Elems(s) \cup {k}
         /\ Append(s, k)[Len(s) + 1] = k
         /\ \A i \in 1..Len(s) : Append(s, k)[i] = s[i]
<1>. DEFINE a == Append(s, k)
<1>1. /\ a \in Seq(Keys) /\ Len(a) = Len(s) + 1 /\ Len(s) \in Nat
      /\ \A i \in 1..Len(s) : a[i] = s[i]
      /\ a[Len(s) + 1] = k
  BY AppendProperties
<1>. HIDE DEF a
<1>2. \A i \in 1..Len(a) : i \in 1..Len(s) \/ i = Len(s) + 1
  BY <1>1
<1>3. \A i \in 1..Len(s) : s[i] # k
  BY DEF Elems
<1>4. Distinct(a)
  BY <1>1, <1>2, <1>3 DEF Distinct
<1>5. Elems(a) = Elems(s) \cup {k}
  <2>1. \A i \in 1..Len(a) : a[i] \in Elems(s) \cup {k}
    BY <1>1, <1>2 DEF Elems
  <2>2. \A i \in 1..Len(s) : s[i] \in Elems(a)
    BY <1>1 DEF Elems
  <2>3. k \in Elems(a)
    BY <1>1 DEF Elems
  <2>. QED BY <2>1, <2>2, <2>3 DEF Elems
<1>. QED BY <1>1, <1>4, <1>5 DEF a

LEMMA AtMostOK ==
  ASSUME NEW s \in Seq(Keys), Distinct(s), NEW n \in Nat
  PROVE  /\ AtMost(n, s) \in Seq(Keys)
         /\ Len(AtMost(n, s)) <= n
         /\ Distinct(AtMost(n, s))
         /\ Elems(AtMost(n, s)) \subseteq Elems(s)
         /\ \A f, R : UseOrder(s, f, R) => UseOrder(AtMost(n, s), f, R)
         /\ Len(s) <= n => AtMost(n, s) = s
         /\ \A i \in 1..Len(s) : i > Len(s) - n => s[i] \in Elems(AtMost(n, s))
<1>1. CASE Len(s) <= n
  BY <1>1 DEF AtMost, Elems
<1>2. CASE Len(s) > n
  <2>. DEFINE a == AtMost(n, s)
              lo == Len(s) - n + 1
  <2>1. Len(s) \in Nat /\ lo \in Int /\ lo >= 1
    BY <1>2
  <2>2. a = SubSeq(s, lo, Len(s))
    BY <1>2 DEF AtMost
  <2>3. \A i \in lo .. Len(s) : s[i] \in Keys
    BY <2>1
  <2>4. /\ SubSeq(s, lo, Len(s)) \in Seq(Keys)
        /\ Len(SubSeq(s, lo, Len(s))) = IF lo <= Len(s) THEN Len(s) - lo + 1 ELSE 0
        /\ \A i \in 1 .. Len(s) - lo + 1 : SubSeq(s, lo, Len(s))[i] = s[lo + i - 1]
    BY <2>1, <2>3, SubSeqProperties
  <2>. HIDE DEF a
  <2>5. /\ a \in Seq(Keys) /\ Len(a) = n
        /\ \A i \in 1..n : a[i] = s[Len(s) - n + i]
    BY <2>1, <2>2, <2>4
  <2>6. \A i \in 1..n : Len(s) - n + i \in 1..Len(s)
    BY <1>2, <2>1
  <2>7. \A i, j \in 1..n : Len(s) - n + i = Len(s) - n + j => i = j
    BY <2>1
  <2>8. \A i, j \in 1..n : i < j => Len(s) - n + i < Len(s) - n + j
    BY <2>1
  <2>9. Distinct(a)
    <3>1. ASSUME NEW i \in 1..n, NEW j \in 1..n, a[i] = a[j] PROVE i = j
      <4>. DEFINE x == Len(s) - n + i
                  y == Len(s) - n + j
      <4>1. x \in 1..Len(s) /\ y \in 1..Len(s) /\ s[x] = s[y]
        BY <2>5, <2>6, <3>1
      <4>2. x = y => i = j
        BY <2>7
      <4>. HIDE DEF x, y
      <4>. QED BY <4>1, <4>2 DEF Distinct
    <3>. QED BY <2>5, <3>1 DEF Distinct
  <2>10. Elems(a) \subseteq Elems(s)
    <3>1. ASSUME NEW i \in 1..n PROVE a[i] \in Elems(s)
      BY <2>5, <2>6 DEF Elems
    <3>2. Elems(a) = {a[i] : i \in 1..n}
      BY <2>5 DEF Elems
    <3>. QED BY <3>1, <3>2
  <2>11. ASSUME NEW f, NEW R, UseOrder(s, f, R) PROVE UseOrder(a, f, R)
    BY <2>5, <2>6, <2>8, <2>11 DEF UseOrder
  <2>12. ASSUME NEW i \in 1..Len(s), i > Len(s) - n PROVE s[i] \in Elems(a)
    <3>1. i - (Len(s) - n) \in 1..n /\ Len(s) - n + (i - (Len(s) - n)) = i
      BY <2>1, <2>12
    <3>. QED BY <2>5, <3>1 DEF Elems
  <2>. QED BY <1>2, <2>5, <2>9, <2>10, <2>11, <2>12 DEF a
<1>. QED BY <1>1, <1>2

-----------------------------------------------------------------------------
(* The invariant is inductive *)

LEMMA Types ==
  ASSUME TypeOK
  PROVE  /\ order \in Seq(Keys) /\ Distinct(order) /\ Len(order) \in Nat
         /\ expiry \in [Elems(order) -> 0..TTL] /\ Elems(order) \subseteq Keys
         /\ since \in [Elems(order) -> SUBSET Keys] /\ reloaded \subseteq Elems(order)
         /\ age \in [Keys -> 0..TTL]
         /\ Cached = Elems(order)
<1>1. Cached = Elems(order)
  BY DEF Cached
<1>2. order \in Seq(Keys) /\ Distinct(order)
  BY DEF TypeOK, Distinct
<1>3. Len(order) \in Nat /\ Elems(order) \subseteq Keys
  BY <1>2 DEF Elems
<1>. QED BY <1>1, <1>2, <1>3 DEF TypeOK

\* A step that leaves the negative map alone.
LEMMA IndexStep ==
  ASSUME CacheInv, negative' = negative, order' \in Seq(Keys), Distinct(order'),
         expiry' \in [Elems(order') -> 0..TTL], Len(order') <= Capacity,
         since' \in [Elems(order') -> SUBSET Keys], reloaded' \subseteq Elems(order'),
         age' \in [Keys -> 0..TTL], UseOrder(order', since', reloaded')
  PROVE  CacheInv'
<1>1. TypeOK'
  BY DEF CacheInv, TypeOK, Distinct, Elems, Cached
<1>. QED BY <1>1 DEF CacheInv

\* What is known of the order stays, where no key loses a later use or its reload.
LEMMA StillOrdered ==
  ASSUME NEW s, NEW f, NEW R, UseOrder(s, f, R), NEW g, NEW Q,
         \A x \in Elems(s) : x \in Q \/ (x \notin R /\ f[x] \subseteq g[x])
  PROVE  UseOrder(s, g, Q)
<1>1. ASSUME NEW i \in 1..Len(s), NEW j \in 1..Len(s), i < j
      PROVE  s[i] \in Q \/ s[j] \in g[s[i]]
  <2>1. s[i] \in R \/ s[j] \in f[s[i]]
    BY <1>1 DEF UseOrder
  <2>2. s[i] \in Q \/ (s[i] \notin R /\ f[s[i]] \subseteq g[s[i]])
    BY DEF Elems
  <2>. QED BY <2>1, <2>2
<1>. QED BY <1>1 DEF UseOrder

\* An entry is removed.
LEMMA DropOK ==
  ASSUME CacheInv, NEW k \in Cached, Drop(k)
  PROVE  CacheInv'
<1>. DEFINE w == Without(order, k)
<1>1. /\ order \in Seq(Keys) /\ Distinct(order) /\ k \in Elems(order) /\ Len(order) \in Nat
      /\ expiry \in [Elems(order) -> 0..TTL]
      /\ UseOrder(order, since, reloaded) /\ Len(order) <= Capacity
      /\ since \in [Elems(order) -> SUBSET Keys] /\ reloaded \subseteq Elems(order)
      /\ age \in [Keys -> 0..TTL]
  BY Types DEF CacheInv, TypeOK
<1>2. /\ order' = w /\ expiry' = Entries(expiry, w) /\ since' = Entries(since, w)
      /\ reloaded' = reloaded \ {k} /\ UNCHANGED <<negative, age>>
  BY DEF Drop, Holds
<1>3. /\ w \in Seq(Keys) /\ Len(w) = Len(order) - 1 /\ Distinct(w)
      /\ Elems(w) = Elems(order) \ {k}
      /\ UseOrder(w, since, reloaded)
  BY <1>1, WithoutOK
<1>. HIDE DEF w
<1>4. expiry' \in [Elems(w) -> 0..TTL] /\ since' \in [Elems(w) -> SUBSET Keys]
      /\ reloaded' \subseteq Elems(w)
  BY <1>1, <1>2, <1>3 DEF Entries
<1>5. PICK g, Q : g = since' /\ Q = reloaded'
  OBVIOUS
<1>6. \A x \in Elems(w) : x \in Q \/ (x \notin reloaded /\ since[x] \subseteq g[x])
  BY <1>2, <1>3, <1>5 DEF Entries
<1>7. UseOrder(w, g, Q)
  BY <1>3, <1>6, StillOrdered
<1>8. Len(w) <= Capacity
  BY <1>1, <1>3, CacheAssumptions
<1>. QED BY <1>1, <1>2, <1>3, <1>4, <1>5, <1>7, <1>8, IndexStep

\* A key used just now comes last.
LEMMA LastUsed ==
  ASSUME NEW s \in Seq(Keys), Distinct(s), NEW f, NEW R, UseOrder(s, f, R),
         NEW k \in Keys \ Elems(s), NEW g, \A x \in Elems(s) : f[x] \cup {k} \subseteq g[x],
         NEW Q, \A x \in Elems(s) : x \in R => x \in Q
  PROVE  UseOrder(Append(s, k), g, Q)
<1>. DEFINE a == Append(s, k)
<1>1. /\ Len(a) = Len(s) + 1 /\ Len(s) \in Nat /\ a[Len(s) + 1] = k
      /\ \A i \in 1..Len(s) : a[i] = s[i]
  BY AppendOK
<1>. HIDE DEF a
<1>2. ASSUME NEW i \in 1..Len(a), NEW j \in 1..Len(a), i < j
      PROVE  a[i] \in Q \/ a[j] \in g[a[i]]
  <2>1. i \in 1..Len(s) /\ a[i] = s[i] /\ s[i] \in Elems(s)
    BY <1>1, <1>2 DEF Elems
  <2>2. f[s[i]] \cup {k} \subseteq g[s[i]]
    BY <2>1
  <2>3. CASE j = Len(s) + 1
    BY <1>1, <2>1, <2>2, <2>3
  <2>4. CASE j # Len(s) + 1
    <3>1. j \in 1..Len(s) /\ a[j] = s[j]
      BY <1>1, <2>4
    <3>2. s[i] \in R \/ s[j] \in f[s[i]]
      BY <1>2, <2>1, <3>1 DEF UseOrder
    <3>. QED BY <2>1, <2>2, <3>1, <3>2
  <2>. QED BY <2>3, <2>4
<1>. QED BY <1>2 DEF UseOrder, a

LEMMA GetInv ==
  ASSUME CacheInv, NEW k \in Keys, Get(k)
  PROVE  CacheInv'
<1>1. /\ TypeOK /\ order \in Seq(Keys) /\ Distinct(order) /\ k \in Elems(order)
      /\ expiry \in [Elems(order) -> 0..TTL] /\ Len(order) \in Nat
      /\ UseOrder(order, since, reloaded) /\ Len(order) <= Capacity
      /\ since \in [Elems(order) -> SUBSET Keys] /\ reloaded \subseteq Elems(order)
      /\ age \in [Keys -> 0..TTL]
  BY Types DEF CacheInv, TypeOK, Get, Cached
<1>2. CASE expiry[k] > 0
  <2>. DEFINE w == Without(order, k)
              a == Append(w, k)
              g == [j \in Elems(order) |-> IF j = k THEN {} ELSE since[j] \cup {k}]
              Q == reloaded \ {k}
  <2>1. /\ w \in Seq(Keys) /\ Len(w) = Len(order) - 1 /\ Distinct(w)
        /\ Elems(w) = Elems(order) \ {k} /\ UseOrder(w, since, reloaded)
    BY <1>1, WithoutOK
  <2>2. order' = a /\ since' = g /\ reloaded' = Q /\ UNCHANGED <<negative, expiry, age>>
    BY <1>2 DEF Get, Holds, Uses
  <2>. HIDE DEF w
  <2>3. k \in Keys \ Elems(w)
    BY <2>1
  <2>4. /\ a \in Seq(Keys) /\ Len(a) = Len(w) + 1 /\ Distinct(a)
        /\ Elems(a) = Elems(w) \cup {k}
    BY <2>1, <2>3, AppendOK
  <2>5. \A x \in Elems(w) : since[x] \cup {k} \subseteq g[x] /\ (x \in reloaded => x \in Q)
    BY <2>1
  <2>6. g \in [Elems(order) -> SUBSET Keys] /\ Q \subseteq Elems(order)
    BY <1>1
  <2>. HIDE DEF g, Q
  <2>7. UseOrder(a, g, Q)
    BY <2>1, <2>3, <2>5, LastUsed
  <2>. HIDE DEF a
  <2>8. Elems(a) = Elems(order) /\ Len(a) = Len(order)
    BY <1>1, <2>1, <2>4
  <2>. QED BY <1>1, <2>2, <2>4, <2>6, <2>7, <2>8, IndexStep
<1>3. CASE ~(expiry[k] > 0)
  BY <1>1, <1>3, DropOK DEF Get, Cached
<1>. QED BY <1>2, <1>3

\* An insert before anything is evicted: the order is still the one of use.
LEMMA InsertOrder ==
  ASSUME CacheInv, NEW k \in Keys
  PROVE  LET o == IF k \in Cached THEN order ELSE Append(order, k)
             g == [j \in Elems(o) |-> IF j = k THEN {} ELSE since[j] \cup {k}]
         IN /\ o \in Seq(Keys) /\ Distinct(o) /\ Elems(o) = Cached \cup {k}
            /\ g \in [Elems(o) -> SUBSET Keys]
            /\ UseOrder(o, g, reloaded \cup ({k} \cap Cached))
<1>. DEFINE o == IF k \in Cached THEN order ELSE Append(order, k)
            g == [j \in Elems(o) |-> IF j = k THEN {} ELSE since[j] \cup {k}]
            Q == reloaded \cup ({k} \cap Cached)
<1>1. /\ order \in Seq(Keys) /\ Distinct(order) /\ Cached = Elems(order)
      /\ UseOrder(order, since, reloaded) /\ since \in [Elems(order) -> SUBSET Keys]
  BY Types DEF CacheInv
<1>2. o \in Seq(Keys) /\ Distinct(o) /\ Elems(o) = Cached \cup {k}
  <2>1. CASE k \in Cached
    BY <1>1, <2>1
  <2>2. CASE k \notin Cached
    BY <1>1, <2>2, AppendOK
  <2>. QED BY <2>1, <2>2
<1>3. g \in [Elems(o) -> SUBSET Keys]
  BY <1>1, <1>2
<1>4. \A x \in Cached \ {k} : since[x] \cup {k} \subseteq g[x]
  BY <1>2
<1>5. UseOrder(o, g, Q)
  <2>1. CASE k \in Cached
    <3>1. \A x \in Elems(order) : x \in Q \/ (x \notin reloaded /\ since[x] \subseteq g[x])
      BY <1>1, <1>4, <2>1
    <3>. HIDE DEF g, Q
    <3>2. UseOrder(order, g, Q)
      BY <1>1, <3>1, StillOrdered
    <3>. QED BY <2>1, <3>2
  <2>2. CASE k \notin Cached
    <3>1. k \in Keys \ Elems(order) /\ o = Append(order, k)
      BY <1>1, <2>2
    <3>2. \A x \in Elems(order) : since[x] \cup {k} \subseteq g[x] /\ (x \in reloaded => x \in Q)
      BY <1>1, <1>4, <2>2
    <3>. HIDE DEF g, Q, o
    <3>3. UseOrder(Append(order, k), g, Q)
      BY <1>1, <3>1, <3>2, LastUsed
    <3>. QED BY <3>1, <3>3
  <2>. QED BY <2>1, <2>2
<1>. QED BY <1>2, <1>3, <1>5

LEMMA InsertInv ==
  ASSUME CacheInv, NEW k \in Keys, Insert(k)
  PROVE  CacheInv'
<1>. DEFINE o == IF k \in Cached THEN order ELSE Append(order, k)
            g == [j \in Elems(o) |-> IF j = k THEN {} ELSE since[j] \cup {k}]
            R == reloaded \cup ({k} \cap Cached)
            s == AtMost(Capacity, o)
            e == [j \in Cached \cup {k} |-> IF j = k THEN TTL ELSE expiry[j]]
<1>1. expiry \in [Cached -> 0..TTL] /\ age \in [Keys -> 0..TTL]
  BY DEF CacheInv, TypeOK
<1>2. /\ order' = s /\ negative' = negative /\ expiry' = Entries(e, s)
      /\ since' = [j \in Elems(s) |-> IF j = k THEN {} ELSE since[j] \cup {k}]
      /\ reloaded' = R \cap Elems(s) /\ age' = [age EXCEPT ![k] = 0]
  BY DEF Insert, Holds, Uses
<1>3. /\ o \in Seq(Keys) /\ Distinct(o) /\ Elems(o) = Cached \cup {k}
      /\ g \in [Elems(o) -> SUBSET Keys] /\ UseOrder(o, g, R)
  BY InsertOrder
<1>4. \A x \in Elems(o) : g[x] = IF x = k THEN {} ELSE since[x] \cup {k}
  OBVIOUS
<1>. HIDE DEF o, g, R
<1>5. /\ s \in Seq(Keys) /\ Len(s) <= Capacity /\ Distinct(s)
      /\ Elems(s) \subseteq Elems(o) /\ UseOrder(s, g, R)
  BY <1>3, CacheAssumptions, AtMostOK
<1>. HIDE DEF s
<1>6. since' \in [Elems(s) -> SUBSET Keys] /\ \A x \in Elems(s) : since'[x] = g[x]
  <2>1. \A x \in Elems(s) : (IF x = k THEN {} ELSE since[x] \cup {k}) = g[x]
    BY <1>4, <1>5
  <2>2. \A x \in Elems(s) : g[x] \in SUBSET Keys
    BY <1>3, <1>5
  <2>. QED BY <1>2, <2>1, <2>2
<1>7. PICK h, Q : h = since' /\ Q = reloaded'
  OBVIOUS
<1>8. UseOrder(s, h, Q)
  <2>1. \A x \in Elems(s) : x \in Q \/ (x \notin R /\ g[x] \subseteq h[x])
    BY <1>2, <1>6, <1>7
  <2>. QED BY <1>5, <2>1, StillOrdered
<1>9. e \in [Elems(o) -> 0..TTL]
  BY <1>1, <1>3, CacheAssumptions
<1>. HIDE DEF e
<1>10. expiry' \in [Elems(s) -> 0..TTL]
  BY <1>2, <1>5, <1>9 DEF Entries
<1>11. age' \in [Keys -> 0..TTL] /\ reloaded' \subseteq Elems(s)
  BY <1>1, <1>2, CacheAssumptions
<1>. QED BY <1>2, <1>5, <1>6, <1>7, <1>8, <1>10, <1>11, IndexStep

LEMMA NegativeInv ==
  ASSUME CacheInv, UNCHANGED <<order, expiry, since, reloaded, age>>,
         DOMAIN negative' \subseteq Keys, negative' \in [DOMAIN negative' -> 0..NegTTL],
         Cardinality(DOMAIN negative') <= Hard
  PROVE  CacheInv'
<1>1. TypeOK'
  BY DEF CacheInv, TypeOK, Cached
<1>2. UseOrder(order, since, reloaded)'
  BY DEF CacheInv, UseOrder
<1>. QED BY <1>1, <1>2 DEF CacheInv

\* The map that negative_lookup_insert begins with, and what of it is valid.
LEMMA Inserted ==
  ASSUME TypeOK, NEW k \in Keys
  PROVE  LET f == [j \in DOMAIN negative \cup {k} |-> IF j = k THEN NegTTL ELSE negative[j]]
         IN /\ DOMAIN f \subseteq Keys /\ f \in [DOMAIN f -> 0..NegTTL]
            /\ Cardinality(DOMAIN f) \in Nat
            /\ Live(f) = Live(negative) \cup {k}
            /\ Live(f) \subseteq DOMAIN f
<1>. DEFINE f == [j \in DOMAIN negative \cup {k} |-> IF j = k THEN NegTTL ELSE negative[j]]
<1>1. DOMAIN negative \subseteq Keys /\ negative \in [DOMAIN negative -> 0..NegTTL]
  BY DEF TypeOK
<1>2. NegTTL \in 0..NegTTL /\ NegTTL > 0
  BY CacheAssumptions
<1>3. /\ DOMAIN f = DOMAIN negative \cup {k}
      /\ f[k] = NegTTL /\ \A j \in DOMAIN negative : j # k => f[j] = negative[j]
  OBVIOUS
<1>4. DOMAIN f \subseteq Keys /\ f \in [DOMAIN f -> 0..NegTTL]
  BY <1>1, <1>2
<1>. HIDE DEF f
<1>5. Cardinality(DOMAIN f) \in Nat
  BY <1>4, CacheAssumptions, FS_Subset, FS_CardinalityType
<1>6. Live(f) = Live(negative) \cup {k} /\ Live(f) \subseteq DOMAIN f
  BY <1>2, <1>3 DEF Live
<1>. QED BY <1>4, <1>5, <1>6 DEF f

LEMMA NegativeInsertInv ==
  ASSUME CacheInv, NEW k \in Keys, NegativeInsert(k)
  PROVE  CacheInv'
<1>. DEFINE f == [j \in DOMAIN negative \cup {k} |-> IF j = k THEN NegTTL ELSE negative[j]]
            g == [j \in Live(f) |-> f[j]]
            z == [j \in {} |-> 0]
<1>1. /\ DOMAIN f \subseteq Keys /\ f \in [DOMAIN f -> 0..NegTTL]
      /\ Cardinality(DOMAIN f) \in Nat /\ Live(f) \subseteq DOMAIN f
  BY Inserted DEF CacheInv
<1>2. /\ negative' = IF Cardinality(DOMAIN f) <= Soft THEN f
                     ELSE IF Cardinality(DOMAIN g) <= Hard THEN g ELSE z
      /\ UNCHANGED <<order, expiry, since, reloaded, age>>
  BY DEF NegativeInsert
<1>. HIDE DEF f
<1>3. DOMAIN g = Live(f) /\ g \in [DOMAIN g -> 0..NegTTL] /\ DOMAIN g \subseteq Keys
  BY <1>1
<1>4. DOMAIN z = {} /\ z \in [DOMAIN z -> 0..NegTTL] /\ Cardinality({}) = 0
  BY FS_EmptySet
<1>. HIDE DEF g, z
<1>5. CASE Cardinality(DOMAIN f) <= Soft
  <2>1. negative' = f /\ Cardinality(DOMAIN f) <= Hard
    BY <1>1, <1>2, <1>5, CacheAssumptions
  <2>. QED BY <1>1, <1>2, <2>1, NegativeInv
<1>6. CASE ~(Cardinality(DOMAIN f) <= Soft) /\ Cardinality(DOMAIN g) <= Hard
  BY <1>2, <1>3, <1>6, NegativeInv
<1>7. CASE ~(Cardinality(DOMAIN f) <= Soft) /\ ~(Cardinality(DOMAIN g) <= Hard)
  <2>1. negative' = z /\ Cardinality(DOMAIN z) <= Hard /\ DOMAIN z \subseteq Keys
    BY <1>2, <1>4, <1>7, CacheAssumptions
  <2>. QED BY <1>2, <1>4, <2>1, NegativeInv
<1>. QED BY <1>5, <1>6, <1>7

LEMMA NegativeRemoveInv ==
  ASSUME CacheInv, NEW k \in Keys, NegativeRemove(k)
  PROVE  CacheInv'
<1>1. /\ DOMAIN negative \subseteq Keys /\ negative \in [DOMAIN negative -> 0..NegTTL]
      /\ Cardinality(DOMAIN negative) <= Hard
  BY DEF CacheInv, TypeOK
<1>2. DOMAIN negative' = DOMAIN negative \ {k} /\ UNCHANGED <<order, expiry, since, reloaded, age>>
      /\ negative' \in [DOMAIN negative' -> 0..NegTTL]
  BY <1>1 DEF NegativeRemove
<1>3. IsFiniteSet(DOMAIN negative)
  BY <1>1, CacheAssumptions, FS_Subset
<1>4. Cardinality(DOMAIN negative \ {k}) <= Cardinality(DOMAIN negative)
      /\ Cardinality(DOMAIN negative) \in Nat /\ Cardinality(DOMAIN negative \ {k}) \in Nat
  <2>. DEFINE D == DOMAIN negative
              E == DOMAIN negative \ {k}
  <2>1. E \in SUBSET D
    OBVIOUS
  <2>. HIDE DEF D, E
  <2>2. IsFiniteSet(D) /\ IsFiniteSet(E) /\ Cardinality(E) <= Cardinality(D)
    BY <1>3, <2>1, FS_Subset DEF D
  <2>3. Cardinality(D) \in Nat /\ Cardinality(E) \in Nat
    BY <2>2, FS_CardinalityType
  <2>. QED BY <2>2, <2>3 DEF D, E
<1>. QED BY <1>1, <1>2, <1>4, NegativeInv, CacheAssumptions

LEMMA ClearInv == CacheInv /\ Clear => CacheInv'
<1>. SUFFICES ASSUME CacheInv, Clear PROVE CacheInv'
  OBVIOUS
<1>1. /\ order' = <<>> /\ expiry' = [k \in {} |-> 0] /\ negative' = [k \in {} |-> 0]
      /\ since' = [k \in {} |-> {}] /\ reloaded' = {} /\ age' = age
  BY DEF Clear
<1>2. age \in [Keys -> 0..TTL]
  BY DEF CacheInv, TypeOK
<1>3. Elems(<<>>) = {} /\ <<>> \in Seq(Keys) /\ Len(<<>>) = 0
  BY EmptyKeys
<1>4. TypeOK'
  BY <1>1, <1>2, <1>3, FS_EmptySet, CacheAssumptions DEF TypeOK, Cached
<1>5. UseOrder(order, since, reloaded)'
  BY <1>1, <1>3 DEF UseOrder
<1>. QED BY <1>4, <1>5 DEF CacheInv

LEMMA TickInv == CacheInv /\ Tick => CacheInv'
<1>. SUFFICES ASSUME CacheInv, Tick PROVE CacheInv'
  OBVIOUS
<1>1. TypeOK /\ UNCHANGED <<order, since, reloaded>>
  BY DEF CacheInv, Tick
<1>2. expiry' \in [Cached -> 0..TTL]
  BY <1>1, CacheAssumptions DEF TypeOK, Tick, Older
<1>3. DOMAIN negative' = DOMAIN negative /\ negative' \in [DOMAIN negative -> 0..NegTTL]
  BY <1>1, CacheAssumptions DEF TypeOK, Tick, Older
<1>4. age' \in [Keys -> 0..TTL]
  BY <1>1, CacheAssumptions DEF TypeOK, Tick
<1>5. TypeOK'
  <2>1. Cached' = Cached
    BY <1>1 DEF Cached
  <2>2. DOMAIN negative' \subseteq Keys /\ Cardinality(DOMAIN negative') <= Hard
    BY <1>1, <1>3 DEF TypeOK
  <2>. QED BY <1>1, <1>2, <1>3, <1>4, <2>1, <2>2 DEF TypeOK
<1>6. UseOrder(order, since, reloaded)'
  BY <1>1 DEF CacheInv, UseOrder
<1>. QED BY <1>5, <1>6 DEF CacheInv

LEMMA RemoveInv ==
  ASSUME CacheInv, NEW k \in Keys, Remove(k)
  PROVE  CacheInv'
  BY DropOK DEF Remove

LEMMA InitInv == Init => CacheInv
<1>. SUFFICES ASSUME Init PROVE CacheInv
  OBVIOUS
<1>1. Elems(<<>>) = {} /\ <<>> \in Seq(Keys) /\ Len(<<>>) = 0
  BY EmptyKeys
<1>2. TypeOK
  BY <1>1, FS_EmptySet, CacheAssumptions DEF Init, TypeOK, Cached
<1>3. UseOrder(order, since, reloaded)
  BY <1>1 DEF Init, UseOrder
<1>. QED BY <1>2, <1>3 DEF CacheInv

LEMMA NextInv == CacheInv /\ [Next]_vars => CacheInv'
<1>. SUFFICES ASSUME CacheInv, [Next]_vars PROVE CacheInv'
  OBVIOUS
<1>1. CASE Next
  BY <1>1, GetInv, InsertInv, RemoveInv, NegativeInsertInv, NegativeRemoveInv, ClearInv, TickInv
     DEF Next
<1>2. CASE UNCHANGED vars
  <2>1. TypeOK'
    BY <1>2 DEF vars, CacheInv, TypeOK, Cached
  <2>2. UseOrder(order, since, reloaded)'
    BY <1>2 DEF vars, CacheInv, UseOrder
  <2>. QED BY <2>1, <2>2 DEF CacheInv
<1>. QED BY <1>1, <1>2

\* The invariant of the caches: types, capacities, and an order that is the one of
\* use but for the entries reloaded in place.
THEOREM CacheInvariant == Spec => []CacheInv
  BY InitInv, NextInv, PTL DEF Spec

\* Every value has its type, no path is cached twice, the caches keep to their
\* capacity and the map of missing names to its hard bound.
THEOREM TypeCorrect == Spec => []TypeOK
<1>1. CacheInv => TypeOK
  BY DEF CacheInv
<1>. QED BY <1>1, CacheInvariant, PTL

-----------------------------------------------------------------------------
(* What is evicted *)

LEMMA EvictsUnused ==
  ASSUME CacheInv, NEW k \in Keys, Insert(k), NEW j \in Cached \ Cached', j \notin reloaded
  PROVE  Cardinality(since[j] \cup {k}) >= Capacity
<1>1. /\ TypeOK /\ order \in Seq(Keys) /\ Distinct(order) /\ Cached = Elems(order)
      /\ Len(order) <= Capacity /\ Len(order) \in Nat
      /\ since \in [Cached -> SUBSET Keys] /\ Cached \subseteq Keys
  BY Types DEF CacheInv, TypeOK
<1>2. Cached' = Elems(order') /\ Capacity \in Nat
  BY CacheAssumptions DEF Cached, Elems
<1>3. k \notin Cached
  <2>1. ASSUME k \in Cached PROVE order' = AtMost(Capacity, order)
    BY <2>1 DEF Insert, Holds
  <2>2. AtMost(Capacity, order) = order
    BY <1>1, <1>2, AtMostOK
  <2>. QED BY <1>1, <1>2, <2>1, <2>2
<1>. DEFINE o == Append(order, k)
            g == [i \in Elems(o) |-> IF i = k THEN {} ELSE since[i] \cup {k}]
            T == since[j] \cup {k}
<1>4. order' = AtMost(Capacity, o)
  BY <1>3 DEF Insert, Holds
<1>5. /\ o \in Seq(Keys) /\ Len(o) = Len(order) + 1 /\ Distinct(o)
      /\ Elems(o) = Elems(order) \cup {k} /\ o[Len(order) + 1] = k
      /\ \A i \in 1..Len(order) : o[i] = order[i]
  BY <1>1, <1>3, AppendOK
<1>6. UseOrder(o, g, reloaded) /\ g[j] = T
  <2>1. UseOrder(o, g, reloaded \cup ({k} \cap Cached))
    BY <1>3, InsertOrder
  <2>2. reloaded \cup ({k} \cap Cached) = reloaded
    BY <1>3
  <2>3. j \in Elems(o) /\ j # k
    BY <1>1, <1>3, <1>5
  <2>. QED BY <2>1, <2>2, <2>3
<1>. HIDE DEF o, g
<1>7. /\ Len(o) <= Capacity => AtMost(Capacity, o) = o
      /\ \A i \in 1..Len(o) : i > Len(o) - Capacity => o[i] \in Elems(AtMost(Capacity, o))
  BY <1>2, <1>5, AtMostOK
<1>8. j \in Elems(o) /\ j \notin Elems(AtMost(Capacity, o))
  BY <1>1, <1>2, <1>4, <1>5
<1>9. Len(o) = Capacity + 1
  BY <1>1, <1>2, <1>5, <1>7, <1>8
<1>10. j = o[1]
  <2>1. PICK p \in 1..Len(o) : j = o[p]
    BY <1>8 DEF Elems
  <2>2. ~(p > Len(o) - Capacity)
    BY <1>7, <1>8, <2>1
  <2>3. p = 1
    BY <1>2, <1>9, <2>1, <2>2
  <2>. QED BY <2>1, <2>3
<1>. DEFINE f == [i \in 1..Capacity |-> o[i + 1]]
<1>11. T \subseteq Keys /\ IsFiniteSet(T)
  BY <1>1, CacheAssumptions, FS_Subset
<1>. HIDE DEF T
<1>12. \A i \in 1..Capacity : o[i + 1] \in T
  <2>1. ASSUME NEW i \in 1..Capacity PROVE o[i + 1] \in T
    <3>1. 1 \in 1..Len(o) /\ i + 1 \in 1..Len(o) /\ 1 < i + 1
      BY <1>2, <1>9
    <3>2. o[1] \in reloaded \/ o[i + 1] \in g[o[1]]
      BY <1>6, <3>1 DEF UseOrder
    <3>. QED BY <1>6, <1>10, <3>2
  <2>. QED BY <2>1
<1>13. \A i, m \in 1..Capacity : o[i + 1] = o[m + 1] => i = m
  <2>1. ASSUME NEW i \in 1..Capacity, NEW m \in 1..Capacity, o[i + 1] = o[m + 1] PROVE i = m
    <3>1. i + 1 \in 1..Len(o) /\ m + 1 \in 1..Len(o)
      BY <1>2, <1>9
    <3>2. i + 1 = m + 1
      BY <1>5, <2>1, <3>1 DEF Distinct
    <3>. QED BY <3>2
  <2>. QED BY <2>1
<1>14. f \in Injection(1..Capacity, T)
  BY <1>12, <1>13 DEF Injection, IsInjective
<1>. HIDE DEF f
<1>15. Cardinality(1..Capacity) <= Cardinality(T)
  BY <1>11, <1>14, FS_Injection DEF T
<1>16. Cardinality(1..Capacity) = Capacity
  BY <1>2, FS_Interval
<1>. QED BY <1>11, <1>15, <1>16, <1>2, FS_CardinalityType DEF T

\* An insert evicts only what so many others were used after as the cache can hold -
\* or what was last loaded over its own entry, and has the place of that entry.
THEOREM EvictsLeastRecentUnlessReloaded == Spec => RecentStayUnlessReloaded
<1>1. CacheInv /\ [Next]_vars
        => [\A k \in Keys : Insert(k) =>
              \A j \in Cached \ Cached' :
                j \in reloaded \/ Cardinality(since[j] \cup {k}) >= Capacity]_vars
  BY EvictsUnused
<1>. QED BY <1>1, CacheInvariant, PTL DEF Spec, RecentStayUnlessReloaded

\* The size defence of the missing names does not take a valid one unless they are
\* too many.
THEOREM DefenceSparesValid == Spec => ValidMissingStay
<1>1. ASSUME CacheInv, NEW k \in Keys, NegativeInsert(k),
             NEW j \in Live(negative) \ DOMAIN negative'
      PROVE  Cardinality(Live(negative) \cup {k}) > Hard
  <2>. DEFINE f == [i \in DOMAIN negative \cup {k} |-> IF i = k THEN NegTTL ELSE negative[i]]
              g == [i \in Live(f) |-> f[i]]
  <2>1. Live(f) = Live(negative) \cup {k} /\ Live(f) \subseteq DOMAIN f /\ DOMAIN f \subseteq Keys
    BY <1>1, Inserted DEF CacheInv
  <2>2. negative' = IF Cardinality(DOMAIN f) <= Soft THEN f
                    ELSE IF Cardinality(DOMAIN g) <= Hard THEN g ELSE [i \in {} |-> 0]
    BY <1>1 DEF NegativeInsert
  <2>3. DOMAIN g = Live(f)
    OBVIOUS
  <2>. HIDE DEF f, g
  <2>4. negative' # f /\ negative' # g
    BY <1>1, <2>1, <2>3
  <2>5. ~(Cardinality(Live(f)) <= Hard)
    BY <2>2, <2>3, <2>4
  <2>6. Cardinality(Live(f)) \in Nat /\ Hard \in Nat
    BY <2>1, CacheAssumptions, FS_Subset, FS_CardinalityType
  <2>. QED BY <2>1, <2>5, <2>6
<1>2. CacheInv /\ [Next]_vars
        => [\A k \in Keys : NegativeInsert(k) =>
              \A j \in Live(negative) \ DOMAIN negative' :
                Cardinality(Live(negative) \cup {k}) > Hard]_vars
  BY <1>1
<1>. QED BY <1>2, CacheInvariant, PTL DEF Spec, ValidMissingStay

-----------------------------------------------------------------------------
(* The cache implements its promise *)

LEMMA LeftType ==
  ASSUME TypeOK
  PROVE  \A k \in Keys : Left(k) \in 0..TTL
  BY Types, CacheAssumptions DEF Left

\* Entries only go.
LEMMA Forgets ==
  ASSUME TypeOK, TypeOK', UNCHANGED age, \A j \in Keys : Left(j)' \in {0, Left(j)}
  PROVE  Promise!Forget
<1>1. \A j \in Keys : Left(j)' \in 0..TTL
  BY LeftType, CacheAssumptions
<1>2. [j \in Keys |-> Left(j)]' \in [Keys -> 0..TTL]
  BY <1>1
<1>3. \A j \in Keys : Promise!Kept(j)
  BY DEF Promise!Kept
<1>. QED BY <1>2, <1>3 DEF Promise!Forget

\* An entry is removed, or one is looked at.
LEMMA DropForgets ==
  ASSUME CacheInv, CacheInv', NEW k \in Cached, Drop(k)
  PROVE  Promise!Forget
<1>1. /\ TypeOK /\ TypeOK' /\ order \in Seq(Keys) /\ Distinct(order) /\ k \in Elems(order)
      /\ Cached = Elems(order) /\ Cached' = Elems(order')
  BY Types DEF CacheInv, Cached, Elems
<1>2. Elems(order') = Elems(order) \ {k} /\ UNCHANGED age
  BY <1>1, WithoutOK DEF Drop, Holds
<1>3. \A j \in Elems(order') : expiry'[j] = expiry[j]
  BY DEF Drop, Holds, Entries
<1>4. \A j \in Keys : Left(j)' \in {0, Left(j)}
  BY <1>1, <1>2, <1>3 DEF Left
<1>. QED BY <1>1, <1>2, <1>4, Forgets

LEMMA GetForgets ==
  ASSUME CacheInv, CacheInv', NEW k \in Keys, Get(k)
  PROVE  Promise!Forget
<1>1. /\ TypeOK /\ TypeOK' /\ order \in Seq(Keys) /\ Distinct(order) /\ k \in Elems(order)
      /\ Cached = Elems(order) /\ Cached' = Elems(order') /\ k \in Cached
  BY Types DEF CacheInv, Cached, Elems, Get
<1>2. CASE expiry[k] > 0
  <2>1. order' = Append(Without(order, k), k) /\ UNCHANGED <<expiry, age>>
    BY <1>2 DEF Get, Holds
  <2>. DEFINE w == Without(order, k)
  <2>2. w \in Seq(Keys) /\ Distinct(w) /\ Elems(w) = Elems(order) \ {k}
    BY <1>1, WithoutOK
  <2>. HIDE DEF w
  <2>3. Elems(Append(w, k)) = Elems(w) \cup {k}
    BY <2>2, AppendOK
  <2>4. Cached' = Cached
    BY <1>1, <2>1, <2>2, <2>3 DEF w
  <2>5. \A j \in Keys : Left(j)' = Left(j)
    BY <2>1, <2>4 DEF Left
  <2>. QED BY <1>1, <2>1, <2>5, Forgets
<1>3. CASE ~(expiry[k] > 0)
  BY <1>1, <1>3, DropForgets DEF Get
<1>. QED BY <1>2, <1>3

LEMMA InsertLoads ==
  ASSUME CacheInv, CacheInv', NEW k \in Keys, Insert(k)
  PROVE  Promise!Load(k)
<1>1. /\ TypeOK /\ TypeOK' /\ order \in Seq(Keys) /\ Distinct(order)
      /\ Cached = Elems(order) /\ Cached' = Elems(order')
  BY Types DEF CacheInv, Cached, Elems
<1>. DEFINE o == IF k \in Cached THEN order ELSE Append(order, k)
            s == AtMost(Capacity, o)
            e == [j \in Cached \cup {k} |-> IF j = k THEN TTL ELSE expiry[j]]
<1>2. order' = s /\ expiry' = Entries(e, s) /\ age' = [age EXCEPT ![k] = 0]
  BY DEF Insert, Holds
<1>3. o \in Seq(Keys) /\ Distinct(o) /\ Elems(o) = Cached \cup {k}
  <2>1. CASE k \in Cached
    BY <1>1, <2>1
  <2>2. CASE k \notin Cached
    BY <1>1, <2>2, AppendOK
  <2>. QED BY <2>1, <2>2
<1>. HIDE DEF o
<1>4. Elems(s) \subseteq Cached \cup {k}
  BY <1>3, AtMostOK, CacheAssumptions
<1>. HIDE DEF s
<1>5. \A j \in Elems(s) : expiry'[j] = e[j]
  BY <1>2 DEF Entries
<1>6. Left(k)' \in {0, TTL}
  BY <1>1, <1>2, <1>4, <1>5 DEF Left
<1>7. ASSUME NEW j \in Keys \ {k} PROVE Left(j)' \in {0, Left(j)}
  <2>1. j \in Elems(s) => j \in Cached /\ expiry'[j] = expiry[j]
    BY <1>4, <1>5
  <2>. QED BY <1>1, <1>2, <2>1 DEF Left
<1>8. \A j \in Keys : Left(j)' \in 0..TTL
  <2>1. \A j \in Keys : Left(j) \in 0..TTL
    BY <1>1, LeftType
  <2>. QED BY <1>6, <1>7, <2>1, CacheAssumptions
<1>9. [j \in Keys |-> Left(j)]' \in [Keys -> 0..TTL]
  BY <1>8
<1>10. \A j \in Keys \ {k} : Promise!Kept(j)
  BY <1>7 DEF Promise!Kept
<1>. QED BY <1>2, <1>6, <1>9, <1>10 DEF Promise!Load

LEMMA ClearForgets ==
  ASSUME CacheInv, CacheInv', Clear
  PROVE  Promise!Forget
<1>1. TypeOK /\ TypeOK' /\ Cached' = Elems(<<>>) /\ UNCHANGED age
  BY DEF CacheInv, Clear, Cached, Elems
<1>2. \A j \in Keys : Left(j)' = 0
  BY <1>1, EmptyKeys DEF Left
<1>. QED BY <1>1, <1>2, Forgets

LEMMA TickAges ==
  ASSUME CacheInv, CacheInv', Tick
  PROVE  Promise!Age
<1>1. /\ TypeOK /\ expiry \in [Cached -> 0..TTL] /\ Cached' = Cached /\ expiry' = Older(expiry)
  BY DEF CacheInv, TypeOK, Tick, Cached, Elems
<1>2. age' = [k \in Keys |-> IF age[k] < TTL THEN age[k] + 1 ELSE TTL]
  BY DEF Tick
<1>3. ASSUME NEW k \in Keys
      PROVE  Left(k)' = IF Left(k) > 0 THEN Left(k) - 1 ELSE 0
  <2>1. CASE k \in Cached
    <3>1. Left(k)' = expiry'[k] /\ Left(k) = expiry[k]
      BY <1>1, <2>1 DEF Left
    <3>2. expiry'[k] = IF expiry[k] > 0 THEN expiry[k] - 1 ELSE 0
      BY <1>1, <2>1 DEF Older
    <3>. QED BY <3>1, <3>2
  <2>2. CASE k \notin Cached
    BY <1>1, <2>2 DEF Left
  <2>. QED BY <2>1, <2>2
<1>. QED BY <1>2, <1>3 DEF Promise!Age

LEMMA PromiseStep ==
  ASSUME CacheInv, CacheInv', [Next]_vars
  PROVE  [Promise!Next]_(Promise!vars)
<1>1. ASSUME NEW k \in Keys, Get(k) PROVE Promise!Next
  BY <1>1, GetForgets DEF Promise!Next
<1>2. ASSUME NEW k \in Keys, Insert(k) PROVE Promise!Next
  BY <1>2, InsertLoads DEF Promise!Next
<1>3. ASSUME NEW k \in Keys, Remove(k) PROVE Promise!Next
  BY <1>3, DropForgets DEF Remove, Promise!Next
<1>4. ASSUME UNCHANGED <<order, expiry, age>> PROVE Promise!Forget
  <2>1. \A j \in Keys : Left(j)' = Left(j)
    BY <1>4 DEF Left, Cached, Elems
  <2>. QED BY <1>4, <2>1, Forgets DEF CacheInv
<1>5. ASSUME NEW k \in Keys, NegativeInsert(k) \/ NegativeRemove(k) PROVE Promise!Next
  BY <1>4, <1>5 DEF NegativeInsert, NegativeRemove, Promise!Next
<1>6. CASE Clear
  BY <1>6, ClearForgets DEF Promise!Next
<1>7. CASE Tick
  BY <1>7, TickAges DEF Promise!Next
<1>8. CASE UNCHANGED vars
  BY <1>4, <1>8 DEF vars, Promise!Next
<1>. QED BY <1>1, <1>2, <1>3, <1>5, <1>6, <1>7, <1>8 DEF Next

\* The caches keep the promise of ForgetfulCache: whatever is found, inserted and
\* evicted, nothing outlives its time from when it was loaded.
THEOREM CachesForget == Spec => NeverRenewed
<1>1. Init => Promise!Init
  <2>1. Init => \A k \in Keys : Left(k) = 0
    BY EmptyKeys DEF Init, Left, Cached
  <2>. QED BY <2>1 DEF Init, Promise!Init
<1>2. CacheInv /\ CacheInv' /\ [Next]_vars => [Promise!Next]_(Promise!vars)
  BY PromiseStep
<1>. QED BY <1>1, <1>2, CacheInvariant, PTL DEF Spec, NeverRenewed, Promise!Spec
=============================================================================
