---------------------------- MODULE ReadPathProofs ---------------------------
(* Proofs about ReadPath, for every value of its constants. *)
EXTENDS ReadPath, SequenceTheorems, TLAPS

\* The bytes d, read from off on, hold at probe one of S.
Serves(d, off, S) ==
  (off <= probe /\ probe < off + Len(d)) => d[probe - off + 1] \in S

\* The buffer of s is a part of the file as it is.
Matches(s) ==
  \A i \in 1..Len(s.read_buf) :
    /\ s.read_buf_offset + i <= Len(server)
    /\ s.read_buf[i] = server[s.read_buf_offset + i]

\* What is in the file and in the buffer of a handle was seen by it.
SeenInv ==
  \A h \in Handles : fh[h].open =>
    /\ StoredAt(server, probe) \subseteq seen[h]
    /\ Serves(fh[h].read_buf, fh[h].read_buf_offset, seen[h])

\* A handle since whose open the file has not changed knows its size and its bytes.
QuietInv ==
  \A h \in quiet :
    /\ fh[h].open
    /\ fh[h].file_size \in {None, Len(server)}
    /\ Matches(fh[h])

ReadInv == TypeOK /\ SeenInv /\ QuietInv

-----------------------------------------------------------------------------
(* Contents and ranges *)

LEMMA LesserType ==
  ASSUME NEW m \in Int, NEW n \in Int
  PROVE  Lesser(m, n) \in Int /\ Lesser(m, n) <= m /\ Lesser(m, n) <= n
         /\ Lesser(m, n) \in {m, n}
  BY DEF Lesser

LEMMA PartOf ==
  ASSUME NEW c \in Seq(Byte), NEW lo \in Nat, NEW hi \in Int, hi <= Len(c)
  PROVE  /\ SubSeq(c, lo + 1, hi) \in Seq(Byte)
         /\ Len(SubSeq(c, lo + 1, hi)) = IF lo < hi THEN hi - lo ELSE 0
         /\ \A i \in 1..Len(SubSeq(c, lo + 1, hi)) : SubSeq(c, lo + 1, hi)[i] = c[lo + i]
<1>1. \A i \in lo + 1 .. hi : c[i] \in Byte
  OBVIOUS
<1>2. lo + 1 \in Int
  OBVIOUS
<1>3. /\ SubSeq(c, lo + 1, hi) \in Seq(Byte)
      /\ Len(SubSeq(c, lo + 1, hi)) = IF lo + 1 <= hi THEN hi - (lo + 1) + 1 ELSE 0
      /\ \A i \in 1 .. hi - (lo + 1) + 1 : SubSeq(c, lo + 1, hi)[i] = c[lo + 1 + i - 1]
  BY <1>1, <1>2, SubSeqProperties
<1>. QED BY <1>3

LEMMA WriteAtType ==
  ASSUME NEW c \in Seq(Byte), Len(c) <= MaxSize, NEW off \in Nat, NEW n \in Nat,
         off + n <= MaxSize, NEW v \in Vals
  PROVE  WriteAt(c, off, n, v) \in Seq(Byte) /\ Len(WriteAt(c, off, n, v)) <= MaxSize
<1>. DEFINE len == IF Len(c) < off + n THEN off + n ELSE Len(c)
<1>1. len \in Nat /\ len <= MaxSize
  OBVIOUS
<1>2. ASSUME NEW i \in 1..len
      PROVE  (IF off < i /\ i <= off + n THEN <<i - 1, v>>
              ELSE IF i <= Len(c) THEN c[i] ELSE Zero) \in Byte
  <2>1. CASE off < i /\ i <= off + n
    BY <1>1, <2>1, ReadAssumptions DEF Byte, Offsets
  <2>2. CASE ~(off < i /\ i <= off + n)
    BY <1>1, <2>2 DEF Byte
  <2>. QED BY <2>1, <2>2
<1>3. WriteAt(c, off, n, v) \in [1..len -> Byte]
  BY <1>2 DEF WriteAt
<1>. HIDE DEF len
<1>. QED BY <1>1, <1>3

LEMMA SetLenType ==
  ASSUME NEW c \in Seq(Byte), NEW n \in Sizes
  PROVE  SetLen(c, n) \in Seq(Byte) /\ Len(SetLen(c, n)) <= MaxSize
<1>1. SetLen(c, n) \in [1..n -> Byte] /\ n \in Nat /\ n <= MaxSize
  BY ReadAssumptions DEF SetLen, Byte, Sizes
<1>. QED BY <1>1

LEMMA StoredAtType ==
  ASSUME NEW c \in Seq(Byte), NEW o \in Offsets
  PROVE  StoredAt(c, o) \subseteq Byte
  BY ReadAssumptions DEF StoredAt, Offsets

LEMMA FetchOffsetType ==
  ASSUME NEW off \in Nat
  PROVE  FetchOffset(off) \in Nat /\ FetchOffset(off) <= off
<1>. DEFINE q == off \div ReadBufCap
<1>1. q \in Nat /\ ReadBufCap * q <= off
  BY ReadAssumptions, Z3
<1>. HIDE DEF q
<1>2. q * ReadBufCap \in Nat /\ q * ReadBufCap <= off
  BY <1>1, ReadAssumptions, Z3
<1>. QED BY <1>2 DEF FetchOffset, q

LEMMA BytesFields ==
  ASSUME NEW d
  PROVE  Bytes(d).ok /\ Bytes(d).data = d
  BY Zenon DEF Bytes

\* What a GET of n bytes at off returns: bytes of the file from off on, as far as
\* there are any.
LEMMA RangeType ==
  ASSUME NEW c \in Seq(Byte), NEW off \in Nat, NEW n \in Int
  PROVE  LET r == ReadRange(c, off, n)
         IN /\ r.ok \in BOOLEAN /\ r.data \in Seq(Byte)
            /\ r.ok <=> off < Len(c)
            /\ Len(r.data) <= n \/ Len(r.data) = 0
            /\ off < Len(c) /\ 0 < n => Len(r.data) = Lesser(n, Len(c) - off)
            /\ \A i \in 1..Len(r.data) : off + i <= Len(c) /\ r.data[i] = c[off + i]
<1>. DEFINE hi == Lesser(off + n, Len(c))
<1>1. CASE off >= Len(c)
  BY <1>1 DEF ReadRange, Refused
<1>2. CASE off < Len(c)
  <2>1. hi \in Int /\ hi <= Len(c) /\ hi <= off + n
    BY <1>2 DEF Lesser
  <2>2. (0 < n) => hi - off = Lesser(n, Len(c) - off) /\ off < hi
    BY <1>2 DEF Lesser
  <2>3. ReadRange(c, off, n) = Bytes(SubSeq(c, off + 1, hi))
    BY <1>2 DEF ReadRange
  <2>6. ReadRange(c, off, n).data = SubSeq(c, off + 1, hi) /\ ReadRange(c, off, n).ok
    BY <2>3, BytesFields
  <2>. HIDE DEF hi
  <2>4. /\ SubSeq(c, off + 1, hi) \in Seq(Byte)
        /\ Len(SubSeq(c, off + 1, hi)) = IF off < hi THEN hi - off ELSE 0
        /\ \A i \in 1..Len(SubSeq(c, off + 1, hi)) : SubSeq(c, off + 1, hi)[i] = c[off + i]
    BY <2>1, PartOf
  <2>. DEFINE d == SubSeq(c, off + 1, hi)
  <2>5. /\ d \in Seq(Byte)
        /\ Len(d) <= n \/ Len(d) = 0
        /\ 0 < n => Len(d) = Lesser(n, Len(c) - off)
        /\ \A i \in 1..Len(d) : off + i <= Len(c) /\ d[i] = c[off + i]
    BY <2>1, <2>2, <2>4
  <2>7. ReadRange(c, off, n).data = d /\ ReadRange(c, off, n).ok
    BY <2>6 DEF d
  <2>. HIDE DEF d
  <2>. QED BY <1>2, <2>5, <2>7
<1>. QED BY <1>1, <1>2
-----------------------------------------------------------------------------
(* What the buffer of a handle and a fetch give *)

LEMMA KnownSizeType ==
  ASSUME TypeOK, NEW h \in Handles
  PROVE  KnownSize(fh[h]) \in Nat
  BY ReadAssumptions DEF TypeOK, KnownSize, FhState, Sizes, None

LEMMA HandleType ==
  ASSUME TypeOK, NEW h \in Handles
  PROVE  /\ fh[h] \in FhState /\ fh[h].read_buf \in Seq(Byte) /\ fh[h].read_buf_offset \in Nat
         /\ fh[h].file_size \in Sizes \cup {None} /\ Len(fh[h].read_buf) <= ReadBufCap
         /\ server \in Seq(Byte) /\ Len(server) \in Nat /\ Len(fh[h].read_buf) \in Nat
         /\ seen[h] \subseteq Byte
  BY DEF TypeOK, FhState

LEMMA BufferPart ==
  ASSUME NEW s \in FhState, NEW off \in Nat, NEW k \in Int, Hit(s, off, k)
  PROVE  /\ FromBuffer(s, off, k) \in Seq(Byte)
         /\ Len(FromBuffer(s, off, k)) = IF 0 < k THEN k ELSE 0
         /\ \A i \in 1..Len(FromBuffer(s, off, k)) :
              FromBuffer(s, off, k)[i] = s.read_buf[off - s.read_buf_offset + i]
<1>. DEFINE lo == off - s.read_buf_offset
            hi == lo + k
<1>1. s.read_buf \in Seq(Byte) /\ s.read_buf_offset \in Nat
  BY DEF FhState
<1>0. s.read_buf_offset <= off /\ off + k <= s.read_buf_offset + Len(s.read_buf)
  BY DEF Hit
<1>2. s.read_buf_offset <= off /\ off - s.read_buf_offset + k <= Len(s.read_buf)
  <2>. DEFINE start == s.read_buf_offset
              size == Len(s.read_buf)
  <2>1. start \in Nat /\ size \in Nat /\ start <= off /\ off + k <= start + size
    BY <1>0, <1>1
  <2>. HIDE DEF start, size
  <2>2. start <= off /\ off - start + k <= size
    BY <2>1, SMTT(30)
  <2>. QED BY <2>2 DEF start, size
<1>a. lo \in Nat /\ hi \in Int /\ hi <= Len(s.read_buf)
  <2>1. lo \in Int /\ hi \in Int
    BY <1>1
  <2>2. 0 <= lo
    BY <1>1, <1>2
  <2>. QED BY <1>2, <2>1, <2>2
<1>3. FromBuffer(s, off, k) = SubSeq(s.read_buf, lo + 1, hi)
  BY DEF FromBuffer
<1>4. lo < hi <=> 0 < k
  BY <1>1
<1>5. hi - lo = k
  BY <1>1
<1>. HIDE DEF hi
<1>6. /\ SubSeq(s.read_buf, lo + 1, hi) \in Seq(Byte)
      /\ Len(SubSeq(s.read_buf, lo + 1, hi)) = IF lo < hi THEN hi - lo ELSE 0
      /\ \A i \in 1..Len(SubSeq(s.read_buf, lo + 1, hi)) :
           SubSeq(s.read_buf, lo + 1, hi)[i] = s.read_buf[lo + i]
  BY <1>1, <1>a, PartOf
<1>. QED BY <1>3, <1>4, <1>5, <1>6

LEMMA NewBuffer ==
  ASSUME NEW s \in FhState, NEW off \in Nat, Chunk(s, off).ok,
         Chunk(s, off).data \in Seq(Byte), FetchOffset(off) \in Nat
  PROVE  /\ Fetched(s, off) \in FhState
         /\ Fetched(s, off).read_buf = Chunk(s, off).data
         /\ Fetched(s, off).read_buf_offset = FetchOffset(off)
         /\ Fetched(s, off).open = s.open /\ Fetched(s, off).file_size = s.file_size
<1>. DEFINE b == Chunk(s, off).data
            o == FetchOffset(off)
<1>1. b \in Seq(Byte) /\ o \in Nat
  OBVIOUS
<1>2. Fetched(s, off) = [s EXCEPT !.read_buf = b, !.read_buf_offset = o]
  BY DEF Fetched
<1>. HIDE DEF b, o
<1>3. [s EXCEPT !.read_buf = b, !.read_buf_offset = o] \in FhState
  BY <1>1 DEF FhState
<1>4. /\ [s EXCEPT !.read_buf = b, !.read_buf_offset = o].read_buf = b
      /\ [s EXCEPT !.read_buf = b, !.read_buf_offset = o].read_buf_offset = o
      /\ [s EXCEPT !.read_buf = b, !.read_buf_offset = o].open = s.open
      /\ [s EXCEPT !.read_buf = b, !.read_buf_offset = o].file_size = s.file_size
  BY DEF FhState
<1>. QED BY <1>2, <1>3, <1>4 DEF b, o

\* A fetch that is made succeeds if the file reaches to the offset.
LEMMA FetchedType ==
  ASSUME TypeOK, NEW h \in Handles, NEW off \in Nat, off < KnownSize(fh[h])
  PROVE  LET s == fh[h]  t == Fetched(s, off)
         IN /\ t \in FhState
            /\ t.open = s.open /\ t.file_size = s.file_size
            /\ Len(t.read_buf) <= ReadBufCap
            /\ Chunk(s, off).ok <=> FetchOffset(off) < Len(server)
            /\ ~Chunk(s, off).ok => t = s
            /\ Chunk(s, off).ok => Matches(t)
<1>. DEFINE s == fh[h]
            n == FetchSize(s, off)
            c == Chunk(s, off)
<1>1. /\ s \in FhState /\ s.file_size \in Sizes \cup {None} /\ Len(s.read_buf) <= ReadBufCap
      /\ server \in Seq(Byte)
  BY HandleType
<1>2. FetchOffset(off) \in Nat
  BY FetchOffsetType
<1>3. n \in Int /\ n <= ReadBufCap /\ ReadBufCap \in Nat
  BY <1>1, <1>2, ReadAssumptions DEF FetchSize, Lesser, Sizes, None
<1>. HIDE DEF n
<1>4. c = ReadRange(server, FetchOffset(off), n)
  BY DEF Chunk, n
<1>5. /\ c.data \in Seq(Byte)
      /\ c.ok <=> FetchOffset(off) < Len(server)
      /\ Len(c.data) <= n \/ Len(c.data) = 0
      /\ \A i \in 1..Len(c.data) : FetchOffset(off) + i <= Len(server)
                                   /\ c.data[i] = server[FetchOffset(off) + i]
  BY <1>1, <1>2, <1>3, <1>4, RangeType
<1>. HIDE DEF c
<1>6. CASE ~c.ok
  BY <1>1, <1>5, <1>6 DEF Fetched, c
<1>7. CASE c.ok
  <2>2. /\ Fetched(s, off) \in FhState
        /\ Fetched(s, off).read_buf = c.data
        /\ Fetched(s, off).read_buf_offset = FetchOffset(off)
        /\ Fetched(s, off).open = s.open /\ Fetched(s, off).file_size = s.file_size
    BY <1>1, <1>2, <1>5, <1>7, NewBuffer DEF c
  <2>3. Len(c.data) <= ReadBufCap
    BY <1>3, <1>5
  <2>4. Matches(Fetched(s, off))
    BY <1>5, <2>2 DEF Matches
  <2>5. Chunk(s, off).ok /\ FetchOffset(off) < Len(server)
    BY <1>5, <1>7 DEF c
  <2>. HIDE DEF s
  <2>. QED BY <2>2, <2>3, <2>4, <2>5 DEF s
<1>. QED BY <1>6, <1>7

LEMMA RangeServes ==
  ASSUME TypeOK, NEW S, StoredAt(server, probe) \subseteq S, NEW off \in Nat, NEW n \in Int
  PROVE  Serves(ReadRange(server, off, n).data, off, S)
<1>. DEFINE d == ReadRange(server, off, n).data
<1>1. probe \in Int /\ server \in Seq(Byte) /\ Len(server) \in Nat
  BY ReadAssumptions DEF TypeOK, Offsets
<1>2. /\ d \in Seq(Byte)
      /\ \A i \in 1..Len(d) : off + i <= Len(server) /\ d[i] = server[off + i]
  BY <1>1, RangeType
<1>. HIDE DEF d
<1>. SUFFICES ASSUME off <= probe, probe < off + Len(d)
              PROVE  d[probe - off + 1] \in S
  BY DEF Serves, d
<1>3. Len(d) \in Nat
  BY <1>2
<1>4. probe - off + 1 \in 1..Len(d)
  BY <1>1, <1>3
<1>5. off + (probe - off + 1) <= Len(server)
      /\ d[probe - off + 1] = server[off + (probe - off + 1)]
  BY <1>2, <1>4
<1>6. off + (probe - off + 1) = probe + 1
  BY <1>1
<1>7. probe < Len(server) /\ d[probe - off + 1] = server[probe + 1]
  BY <1>1, <1>5, <1>6
<1>. QED BY <1>7 DEF StoredAt

LEMMA PartServes ==
  ASSUME TypeOK, NEW S, NEW s \in FhState, NEW off \in Nat, NEW k \in Int,
         Hit(s, off, k), Serves(s.read_buf, s.read_buf_offset, S)
  PROVE  Serves(FromBuffer(s, off, k), off, S)
<1>. DEFINE d == FromBuffer(s, off, k)
<1>1. probe \in Int /\ s.read_buf_offset \in Nat /\ s.read_buf \in Seq(Byte)
  BY ReadAssumptions DEF TypeOK, Offsets, FhState
<1>2. /\ Len(d) = IF 0 < k THEN k ELSE 0
      /\ \A i \in 1..Len(d) : d[i] = s.read_buf[off - s.read_buf_offset + i]
  BY BufferPart
<1>. HIDE DEF d
<1>. SUFFICES ASSUME off <= probe, probe < off + Len(d)
              PROVE  d[probe - off + 1] \in S
  BY DEF Serves, d
<1>3. probe - off + 1 \in 1..Len(d) /\ k = Len(d)
  BY <1>1, <1>2
<1>4. d[probe - off + 1] = s.read_buf[off - s.read_buf_offset + (probe - off + 1)]
  BY <1>2, <1>3
<1>5. off - s.read_buf_offset + (probe - off + 1) = probe - s.read_buf_offset + 1
  BY <1>1
<1>6. s.read_buf_offset <= probe /\ probe < s.read_buf_offset + Len(s.read_buf)
  BY <1>1, <1>3 DEF Hit
<1>. QED BY <1>4, <1>5, <1>6 DEF Serves

LEMMA MatchServes ==
  ASSUME TypeOK, NEW S, NEW s \in FhState, Matches(s), StoredAt(server, probe) \subseteq S
  PROVE  Serves(s.read_buf, s.read_buf_offset, S)
<1>1. /\ probe \in Int /\ s.read_buf_offset \in Nat /\ Len(s.read_buf) \in Nat
      /\ Len(server) \in Nat
  BY ReadAssumptions DEF TypeOK, Offsets, FhState
<1>. SUFFICES ASSUME s.read_buf_offset <= probe, probe < s.read_buf_offset + Len(s.read_buf)
              PROVE  s.read_buf[probe - s.read_buf_offset + 1] \in S
  BY DEF Serves
<1>. DEFINE i == probe - s.read_buf_offset + 1
<1>2. i \in 1..Len(s.read_buf) /\ s.read_buf_offset + i = probe + 1
  BY <1>1
<1>. HIDE DEF i
<1>3. probe + 1 <= Len(server) /\ s.read_buf[i] = server[probe + 1]
  BY <1>2 DEF Matches
<1>4. s.read_buf[i] \in S
  BY <1>1, <1>3 DEF StoredAt
<1>. QED BY <1>4 DEF i

\* A read leaves the handle well typed, with what it may serve in its buffer.
LEMMA AfterReadType ==
  ASSUME TypeOK, NEW h \in Handles, NEW off \in Nat, NEW n \in Nat
  PROVE  LET t == AfterRead(fh[h], off, n)
         IN /\ t \in FhState /\ Len(t.read_buf) <= ReadBufCap
            /\ t.open = fh[h].open /\ t.file_size = fh[h].file_size
            /\ t = fh[h] \/ Matches(t)
<1>1. fh[h] \in FhState /\ Len(fh[h].read_buf) <= ReadBufCap
  BY HandleType
<1>2. CASE AfterRead(fh[h], off, n) = fh[h]
  BY <1>1, <1>2
<1>3. CASE AfterRead(fh[h], off, n) # fh[h]
  <2>1. off < KnownSize(fh[h]) /\ AfterRead(fh[h], off, n) = Fetched(fh[h], off)
    BY <1>3 DEF AfterRead
  <2>2. /\ Fetched(fh[h], off) \in FhState
        /\ Fetched(fh[h], off).open = fh[h].open
        /\ Fetched(fh[h], off).file_size = fh[h].file_size
        /\ Len(Fetched(fh[h], off).read_buf) <= ReadBufCap
        /\ Chunk(fh[h], off).ok \/ Fetched(fh[h], off) = fh[h]
        /\ Chunk(fh[h], off).ok => Matches(Fetched(fh[h], off))
    BY <2>1, FetchedType
  <2>3. Matches(Fetched(fh[h], off))
    BY <1>3, <2>1, <2>2
  <2>. QED BY <2>1, <2>2, <2>3
<1>. QED BY <1>2, <1>3

LEMMA AfterReadServes ==
  ASSUME TypeOK, SeenInv, NEW h \in Handles, fh[h].open, NEW off \in Nat, NEW n \in Nat
  PROVE  LET t == AfterRead(fh[h], off, n)
         IN Serves(t.read_buf, t.read_buf_offset, seen[h])
<1>1. /\ StoredAt(server, probe) \subseteq seen[h]
      /\ Serves(fh[h].read_buf, fh[h].read_buf_offset, seen[h])
  BY DEF SeenInv
<1>2. /\ AfterRead(fh[h], off, n) \in FhState
      /\ AfterRead(fh[h], off, n) = fh[h] \/ Matches(AfterRead(fh[h], off, n))
  BY AfterReadType
<1>. QED BY <1>1, <1>2, MatchServes

LEMMA NothingServes ==
  ASSUME TypeOK, NEW off \in Nat, NEW S
  PROVE  Serves(<<>>, off, S)
  BY ReadAssumptions DEF TypeOK, Offsets, Serves

LEMMA ResultServes ==
  ASSUME TypeOK, SeenInv, NEW h \in Handles, fh[h].open, NEW off \in Nat, NEW n \in Nat
  PROVE  Serves(Result(fh[h], off, n).data, off, seen[h])
<1>. DEFINE s == fh[h]
            k == ToRead(s, off, n)
            t == AfterRead(s, off, n)
<1>1. k \in Int
  BY KnownSizeType DEF ToRead, Lesser
<1>2. /\ StoredAt(server, probe) \subseteq seen[h]
      /\ Serves(s.read_buf, s.read_buf_offset, seen[h])
  BY DEF SeenInv
<1>3. s \in FhState /\ t \in FhState
  BY HandleType, AfterReadType
<1>4. Serves(t.read_buf, t.read_buf_offset, seen[h])
  BY AfterReadServes
<1>5. Serves(ReadRange(server, off, k).data, off, seen[h])
  BY <1>1, <1>2, RangeServes
<1>6. ASSUME Hit(s, off, k) PROVE Serves(FromBuffer(s, off, k), off, seen[h])
  BY <1>1, <1>2, <1>3, <1>6, PartServes
<1>7. ASSUME Hit(t, off, k) PROVE Serves(FromBuffer(t, off, k), off, seen[h])
  BY <1>1, <1>3, <1>4, <1>7, PartServes
<1>8. Serves(<<>>, off, seen[h])
  BY NothingServes
<1>9. Bytes(<<>>).data = <<>> /\ Refused.data = <<>>
  BY DEF Bytes, Refused
<1>. DEFINE R == Result(s, off, n)
<1>10. \/ R = Bytes(<<>>)
       \/ R = Refused
       \/ R = ReadRange(server, off, k)
       \/ Hit(s, off, k) /\ R = Bytes(FromBuffer(s, off, k))
       \/ Hit(t, off, k) /\ R = Bytes(FromBuffer(t, off, k))
  BY DEF Result
<1>. HIDE DEF k, t, s, R
<1>. QED BY <1>5, <1>6, <1>7, <1>8, <1>9, <1>10, BytesFields DEF R, s

-----------------------------------------------------------------------------
(* The invariant is inductive *)

LEMMA ProbeType ==
  ASSUME TypeOK
  PROVE  probe \in Offsets /\ probe \in Nat /\ probe < MaxSize
  BY ReadAssumptions DEF TypeOK, Offsets

LEMMA RangesType ==
  /\ \A off \in Offsets : off \in Nat
  /\ \A n \in Lengths : n \in Nat /\ 0 < n
  /\ \A n \in Sizes : n \in Nat
  BY ReadAssumptions DEF Offsets, Lengths, Sizes

LEMMA InitInv == Init => ReadInv
<1>. SUFFICES ASSUME Init PROVE ReadInv
  OBVIOUS
<1>1. \A h \in Handles : fh[h] = Closed /\ seen[h] = {} /\ own[h] = {}
  BY DEF Init
<1>2. <<>> \in Seq(Byte) /\ Len(<<>>) = 0
  OBVIOUS
<1>3. Closed \in FhState /\ Closed.open = FALSE /\ Closed.read_buf = <<>>
  BY <1>2 DEF Closed, FhState
<1>4. TypeOK
  BY <1>1, <1>2, <1>3, ReadAssumptions DEF Init, TypeOK
<1>5. SeenInv
  BY <1>1, <1>3 DEF SeenInv
<1>6. QuietInv
  BY DEF Init, QuietInv
<1>. QED BY <1>4, <1>5, <1>6 DEF ReadInv

\* The file changes, and the handles keep their buffers.
LEMMA ChangedInv ==
  ASSUME ReadInv, NEW c \in Seq(Byte), Len(c) <= MaxSize, Changed(c),
         fh' \in [Handles -> FhState], own' \in [Handles -> SUBSET Byte],
         \A h \in Handles : /\ fh'[h].open = fh[h].open
                            /\ fh'[h].read_buf = fh[h].read_buf
                            /\ fh'[h].read_buf_offset = fh[h].read_buf_offset
  PROVE  ReadInv'
<1>1. TypeOK /\ SeenInv
  BY DEF ReadInv
<1>2. StoredAt(c, probe) \subseteq Byte
  BY <1>1, ProbeType, StoredAtType
<1>3. server' = c /\ quiet' = {} /\ probe' = probe
  BY DEF Changed
<1>4. seen' \in [Handles -> SUBSET Byte]
  BY <1>1, <1>2 DEF Changed, TypeOK
<1>5. TypeOK'
  BY <1>1, <1>3, <1>4 DEF TypeOK
<1>6. ASSUME NEW h \in Handles, fh'[h].open
      PROVE  /\ StoredAt(c, probe) \subseteq seen'[h]
             /\ Serves(fh'[h].read_buf, fh'[h].read_buf_offset, seen'[h])
  <2>1. seen'[h] = seen[h] \cup StoredAt(c, probe)
    BY <1>6 DEF Changed
  <2>2. Serves(fh[h].read_buf, fh[h].read_buf_offset, seen[h])
    BY <1>1, <1>6 DEF SeenInv
  <2>. QED BY <2>1, <2>2 DEF Serves
<1>7. SeenInv'
  BY <1>3, <1>6 DEF SeenInv, Serves
<1>8. QuietInv'
  BY <1>3 DEF QuietInv
<1>. QED BY <1>5, <1>7, <1>8 DEF ReadInv

\* A handle h is opened or released; the others stay as they are, with less to hold
\* true for them.
LEMMA FreshHandle ==
  ASSUME NEW wronly \in BOOLEAN, NEW size \in Sizes \cup {None}
  PROVE  /\ Alloc(wronly, size) \in FhState
         /\ Alloc(wronly, size).open = TRUE /\ Alloc(wronly, size).file_size = size
         /\ Alloc(wronly, size).read_buf = <<>> /\ Alloc(wronly, size).read_buf_offset = 0
<1>1. <<>> \in Seq(Byte)
  OBVIOUS
<1>. QED BY <1>1 DEF Alloc, Closed, FhState

LEMMA OpenInv ==
  ASSUME ReadInv, NEW h \in Handles, NEW wronly \in BOOLEAN, Open(h, wronly)
  PROVE  ReadInv'
<1>1. TypeOK /\ SeenInv /\ QuietInv
  BY DEF ReadInv
<1>. DEFINE t == Alloc(wronly, Len(server))
<1>2. Len(server) \in Sizes
  BY <1>1, ReadAssumptions DEF TypeOK, Sizes
<1>3. /\ t \in FhState /\ t.open = TRUE /\ t.file_size = Len(server)
      /\ t.read_buf = <<>> /\ t.read_buf_offset = 0
  <2>. DEFINE size == Len(server)
  <2>1. size \in Sizes \cup {None}
    BY <1>2
  <2>. HIDE DEF size
  <2>2. /\ Alloc(wronly, size) \in FhState
        /\ Alloc(wronly, size).open = TRUE /\ Alloc(wronly, size).file_size = size
        /\ Alloc(wronly, size).read_buf = <<>> /\ Alloc(wronly, size).read_buf_offset = 0
    BY <2>1, FreshHandle
  <2>. QED BY <2>2 DEF size
<1>4. fh' = [fh EXCEPT ![h] = t]
  BY DEF Open
<1>. HIDE DEF t
<1>5. fh'[h] = t /\ \A g \in Handles : g # h => fh'[g] = fh[g]
  BY <1>1, <1>4 DEF TypeOK
<1>6. /\ server' = server /\ probe' = probe /\ own' = own /\ quiet' = quiet \cup {h}
      /\ seen' = [seen EXCEPT ![h] = StoredAt(server, probe)]
  BY DEF Open
<1>7. StoredAt(server, probe) \subseteq Byte
  BY <1>1, ProbeType, StoredAtType DEF TypeOK
<1>8. seen'[h] = StoredAt(server, probe) /\ \A g \in Handles : g # h => seen'[g] = seen[g]
  BY <1>1, <1>6 DEF TypeOK
<1>9. fh' \in [Handles -> FhState] /\ \A g \in Handles : Len(fh'[g].read_buf) <= ReadBufCap
  <2>1. Len(t.read_buf) <= ReadBufCap
    BY <1>3, ReadAssumptions
  <2>. QED BY <1>1, <1>3, <1>4, <1>5, <2>1 DEF TypeOK
<1>10. TypeOK'
  BY <1>1, <1>6, <1>7, <1>9 DEF TypeOK
<1>11. SeenInv'
  <2>1. ASSUME NEW g \in Handles, fh'[g].open
        PROVE  /\ StoredAt(server, probe) \subseteq seen'[g]
               /\ Serves(fh'[g].read_buf, fh'[g].read_buf_offset, seen'[g])
    <3>1. CASE g = h
      <4>1. Serves(<<>>, 0, seen'[h])
        BY <1>1, NothingServes
      <4>. QED BY <1>3, <1>5, <1>8, <3>1, <4>1
    <3>2. CASE g # h
      BY <1>1, <1>5, <1>8, <2>1, <3>2 DEF SeenInv
    <3>. QED BY <3>1, <3>2
  <2>. QED BY <1>6, <2>1 DEF SeenInv, Serves
<1>12. QuietInv'
  <2>1. ASSUME NEW g \in quiet'
        PROVE  /\ fh'[g].open /\ fh'[g].file_size \in {None, Len(server)}
               /\ Matches(fh'[g])
    <3>1. CASE g = h
      BY <1>3, <1>5, <3>1 DEF Matches
    <3>2. CASE g # h
      <4>1. g \in quiet /\ g \in Handles
        BY <1>1, <1>6, <2>1, <3>2 DEF TypeOK
      <4>2. fh'[g] = fh[g]
        BY <1>5, <3>2, <4>1
      <4>. QED BY <1>1, <4>1, <4>2 DEF QuietInv
    <3>. QED BY <3>1, <3>2
  <2>. QED BY <1>6, <2>1 DEF QuietInv, Matches
<1>. QED BY <1>10, <1>11, <1>12 DEF ReadInv

LEMMA OpenEmptyInv ==
  ASSUME ReadInv, NEW h \in Handles, NEW wronly \in BOOLEAN, NEW size \in {0, None},
         OpenEmpty(h, wronly, size)
  PROVE  ReadInv'
<1>1. TypeOK /\ SeenInv
  BY DEF ReadInv
<1>. DEFINE t == Alloc(wronly, size)
<1>2. size \in Sizes \cup {None}
  BY ReadAssumptions DEF Sizes
<1>3. /\ t \in FhState /\ t.open = TRUE /\ t.file_size = size
      /\ t.read_buf = <<>> /\ t.read_buf_offset = 0
  BY <1>2, FreshHandle
<1>4. fh' = [fh EXCEPT ![h] = t]
  BY DEF OpenEmpty
<1>. HIDE DEF t
<1>5. fh'[h] = t /\ \A g \in Handles : g # h => fh'[g] = fh[g]
  BY <1>1, <1>4 DEF TypeOK
<1>6. /\ server' = <<>> /\ quiet' = {h} /\ probe' = probe /\ seen' = seen
      /\ own' = [g \in Handles |-> {}]
  BY DEF OpenEmpty
<1>7. <<>> \in Seq(Byte) /\ Len(<<>>) = 0 /\ StoredAt(<<>>, probe) = {}
  BY <1>1, ProbeType DEF StoredAt
<1>8. fh' \in [Handles -> FhState] /\ \A g \in Handles : Len(fh'[g].read_buf) <= ReadBufCap
  <2>1. Len(t.read_buf) <= ReadBufCap
    BY <1>3, ReadAssumptions
  <2>. QED BY <1>1, <1>3, <1>4, <1>5, <2>1 DEF TypeOK
<1>9. own' \in [Handles -> SUBSET Byte]
  BY <1>6
<1>10. TypeOK'
  BY <1>1, <1>6, <1>7, <1>8, <1>9, ReadAssumptions DEF TypeOK
<1>11. SeenInv'
  <2>1. ASSUME NEW g \in Handles, fh'[g].open
        PROVE  Serves(fh'[g].read_buf, fh'[g].read_buf_offset, seen[g])
    <3>1. CASE g = h
      BY <1>1, <1>3, <1>5, <3>1, NothingServes
    <3>2. CASE g # h
      BY <1>1, <1>5, <2>1, <3>2 DEF SeenInv
    <3>. QED BY <3>1, <3>2
  <2>. QED BY <1>6, <1>7, <2>1 DEF SeenInv, Serves
<1>12. QuietInv'
  <2>1. /\ fh'[h].open /\ fh'[h].file_size \in {None, Len(<<>>)}
        /\ fh'[h].read_buf = <<>>
    BY <1>3, <1>5, <1>7
  <2>2. Matches(fh[h])'
    BY <2>1 DEF Matches
  <2>. QED BY <1>6, <2>1, <2>2 DEF QuietInv
<1>. QED BY <1>10, <1>11, <1>12 DEF ReadInv

LEMMA ReleaseInv ==
  ASSUME ReadInv, NEW h \in Handles, Release(h)
  PROVE  ReadInv'
<1>1. TypeOK /\ SeenInv /\ QuietInv
  BY DEF ReadInv
<1>2. <<>> \in Seq(Byte) /\ Len(<<>>) = 0
  OBVIOUS
<1>3. Closed \in FhState /\ Closed.open = FALSE /\ Closed.read_buf = <<>>
  BY <1>2 DEF Closed, FhState
<1>4. /\ fh' = [fh EXCEPT ![h] = Closed] /\ server' = server /\ probe' = probe
      /\ seen' = [seen EXCEPT ![h] = {}] /\ own' = [own EXCEPT ![h] = {}]
      /\ quiet' = quiet \ {h}
  BY DEF Release
<1>5. fh'[h] = Closed /\ \A g \in Handles : g # h => fh'[g] = fh[g] /\ seen'[g] = seen[g]
  BY <1>1, <1>4 DEF TypeOK
<1>6. fh' \in [Handles -> FhState] /\ \A g \in Handles : Len(fh'[g].read_buf) <= ReadBufCap
  <2>1. Len(Closed.read_buf) <= ReadBufCap
    BY <1>2, <1>3, ReadAssumptions
  <2>. QED BY <1>1, <1>3, <1>4, <1>5, <2>1 DEF TypeOK
<1>7. seen' \in [Handles -> SUBSET Byte] /\ own' \in [Handles -> SUBSET Byte]
  BY <1>1, <1>4 DEF TypeOK
<1>8. TypeOK'
  BY <1>1, <1>4, <1>6, <1>7 DEF TypeOK
<1>9. \A g \in Handles : fh'[g].open => g # h /\ fh[g].open /\ fh'[g] = fh[g]
  BY <1>3, <1>5
<1>10. SeenInv'
  BY <1>1, <1>4, <1>5, <1>9 DEF SeenInv, Serves
<1>11. QuietInv'
  <2>1. \A g \in quiet' : g \in quiet /\ fh'[g] = fh[g]
    BY <1>1, <1>4, <1>5 DEF TypeOK
  <2>. QED BY <1>1, <1>4, <2>1 DEF QuietInv, Matches
<1>. QED BY <1>8, <1>10, <1>11 DEF ReadInv

LEMMA ReadStepInv ==
  ASSUME ReadInv, NEW h \in Handles, NEW off \in Offsets, NEW n \in Lengths, Read(h, off, n)
  PROVE  ReadInv'
<1>1. TypeOK /\ SeenInv /\ QuietInv /\ off \in Nat /\ n \in Nat /\ fh[h].open
  BY RangesType DEF ReadInv, Read
<1>. DEFINE t == AfterRead(fh[h], off, n)
<1>2. /\ t \in FhState /\ Len(t.read_buf) <= ReadBufCap
      /\ t.open = fh[h].open /\ t.file_size = fh[h].file_size
      /\ t = fh[h] \/ Matches(t)
  BY <1>1, AfterReadType
<1>3. Serves(t.read_buf, t.read_buf_offset, seen[h])
  BY <1>1, AfterReadServes
<1>4. fh' = [fh EXCEPT ![h] = t] /\ UNCHANGED <<server, probe, seen, quiet, own>>
  BY DEF Read, watch
<1>. HIDE DEF t
<1>5. fh'[h] = t /\ \A g \in Handles : g # h => fh'[g] = fh[g]
  BY <1>1, <1>4 DEF TypeOK
<1>6. fh' \in [Handles -> FhState] /\ \A g \in Handles : Len(fh'[g].read_buf) <= ReadBufCap
  BY <1>1, <1>2, <1>4, <1>5 DEF TypeOK
<1>7. TypeOK'
  BY <1>1, <1>4, <1>6 DEF TypeOK
<1>8. \A g \in Handles : fh'[g].open = fh[g].open
  BY <1>2, <1>5
<1>9. SeenInv'
  <2>1. ASSUME NEW g \in Handles, fh'[g].open
        PROVE  Serves(fh'[g].read_buf, fh'[g].read_buf_offset, seen[g])
    BY <1>1, <1>3, <1>5, <1>8, <2>1 DEF SeenInv
  <2>2. ASSUME NEW g \in Handles, fh'[g].open
        PROVE  StoredAt(server, probe) \subseteq seen[g]
    BY <1>1, <1>8, <2>2 DEF SeenInv
  <2>. QED BY <1>4, <2>1, <2>2 DEF SeenInv, Serves
<1>10. QuietInv'
  <2>1. ASSUME NEW g \in quiet
        PROVE  /\ fh'[g].open /\ fh'[g].file_size \in {None, Len(server)}
               /\ Matches(fh'[g])
    <3>1. g \in Handles /\ fh[g].open /\ fh[g].file_size \in {None, Len(server)}
          /\ Matches(fh[g])
      BY <1>1 DEF QuietInv, TypeOK
    <3>. QED BY <1>2, <1>5, <3>1
  <2>. QED BY <1>4, <2>1 DEF QuietInv, Matches
<1>. QED BY <1>7, <1>9, <1>10 DEF ReadInv

\* Only what the handles know of the size changes, and maybe fewer are quiet.
LEMMA SizesInv ==
  ASSUME ReadInv, UNCHANGED <<server, probe, seen>>, NEW Q \in SUBSET quiet, quiet' = Q,
         fh' \in [Handles -> FhState], own' \in [Handles -> SUBSET Byte],
         \A h \in Handles : /\ fh'[h].open = fh[h].open
                            /\ fh'[h].read_buf = fh[h].read_buf
                            /\ fh'[h].read_buf_offset = fh[h].read_buf_offset,
         \A h \in Q : fh'[h] = fh[h]
  PROVE  ReadInv'
<1>1. TypeOK /\ SeenInv /\ QuietInv
  BY DEF ReadInv
<1>2. \A h \in Handles : Len(fh'[h].read_buf) <= ReadBufCap
  BY <1>1 DEF TypeOK
<1>3. TypeOK'
  BY <1>1, <1>2 DEF TypeOK
<1>4. SeenInv'
  BY <1>1 DEF SeenInv, Serves
<1>5. QuietInv'
  <2>1. \A h \in Q : h \in quiet /\ fh'[h] = fh[h]
    OBVIOUS
  <2>. QED BY <1>1, <2>1 DEF QuietInv, Matches
<1>. QED BY <1>3, <1>4, <1>5 DEF ReadInv

LEMMA NewSize ==
  ASSUME NEW s \in FhState, NEW n \in Sizes
  PROVE  /\ [s EXCEPT !.file_size = n] \in FhState
         /\ [s EXCEPT !.file_size = n].open = s.open
         /\ [s EXCEPT !.file_size = n].read_buf = s.read_buf
         /\ [s EXCEPT !.file_size = n].read_buf_offset = s.read_buf_offset
  BY DEF FhState

LEMMA WriteInv ==
  ASSUME ReadInv, NEW h \in Handles, NEW off \in Offsets, NEW n \in Lengths, NEW v \in Vals,
         NEW flushed \in BOOLEAN, Write(h, off, n, v, flushed)
  PROVE  ReadInv'
<1>1. TypeOK /\ off \in Nat /\ n \in Nat /\ off + n <= MaxSize /\ fh[h] \in FhState
  BY RangesType DEF ReadInv, Write, TypeOK
<1>. DEFINE size == IF off + n > fh[h].file_size THEN off + n ELSE fh[h].file_size
            t    == [fh[h] EXCEPT !.file_size = size]
<1>2. size \in Sizes
  <2>1. fh[h].file_size \in Sizes \cup {None}
    BY <1>1 DEF FhState
  <2>. QED BY <1>1, <2>1, ReadAssumptions DEF Sizes, None
<1>3. fh' = [fh EXCEPT ![h] = t]
  BY DEF Write
<1>. HIDE DEF size
<1>4. /\ t \in FhState /\ t.open = fh[h].open /\ t.read_buf = fh[h].read_buf
      /\ t.read_buf_offset = fh[h].read_buf_offset
  BY <1>1, <1>2, NewSize
<1>. HIDE DEF t
<1>5. fh'[h] = t /\ \A g \in Handles : g # h => fh'[g] = fh[g]
  BY <1>1, <1>3 DEF TypeOK
<1>6. fh' \in [Handles -> FhState]
  BY <1>1, <1>3, <1>4 DEF TypeOK
<1>7. \A g \in Handles : /\ fh'[g].open = fh[g].open
                         /\ fh'[g].read_buf = fh[g].read_buf
                         /\ fh'[g].read_buf_offset = fh[g].read_buf_offset
  BY <1>4, <1>5
<1>8. CASE flushed
  <2>1. Changed(WriteAt(server, off, n, v))
    BY <1>8 DEF Write
  <2>2. own' = [g \in Handles |-> IF g # h THEN {}
                                 ELSE IF off <= probe /\ probe < off + n
                                 THEN {<<probe, v>>} ELSE own[h]]
    BY <1>8 DEF Write
  <2>3. {<<probe, v>>} \subseteq Byte
    BY <1>1, ProbeType DEF Byte
  <2>4. own' \in [Handles -> SUBSET Byte]
    BY <1>1, <2>2, <2>3 DEF TypeOK
  <2>5. /\ WriteAt(server, off, n, v) \in Seq(Byte)
        /\ Len(WriteAt(server, off, n, v)) <= MaxSize
    BY <1>1, WriteAtType DEF TypeOK
  <2>. QED BY <1>6, <1>7, <2>1, <2>4, <2>5, ChangedInv
<1>9. CASE ~flushed
  <2>1. /\ own' = [own EXCEPT ![h] = {}] /\ quiet' = quiet \ {h}
        /\ UNCHANGED <<server, probe, seen>>
    BY <1>9 DEF Write
  <2>2. own' \in [Handles -> SUBSET Byte]
    BY <1>1, <2>1 DEF TypeOK
  <2>3. \A g \in quiet \ {h} : fh'[g] = fh[g]
    BY <1>1, <1>5 DEF TypeOK
  <2>4. quiet \ {h} \in SUBSET quiet
    OBVIOUS
  <2>. QED BY <1>6, <1>7, <2>1, <2>2, <2>3, <2>4, SizesInv
<1>. QED BY <1>8, <1>9

LEMMA StoreInv ==
  ASSUME ReadInv, NEW off \in Offsets, NEW n \in Lengths, NEW v \in Vals, Store(off, n, v)
  PROVE  ReadInv'
<1>1. /\ TypeOK /\ off \in Nat /\ n \in Nat /\ off + n <= MaxSize /\ fh' = fh
      /\ Changed(WriteAt(server, off, n, v)) /\ own' = [h \in Handles |-> {}]
  BY RangesType DEF ReadInv, Store
<1>2. /\ WriteAt(server, off, n, v) \in Seq(Byte)
      /\ Len(WriteAt(server, off, n, v)) <= MaxSize
  BY <1>1, WriteAtType DEF TypeOK
<1>3. fh' \in [Handles -> FhState] /\ own' \in [Handles -> SUBSET Byte]
  BY <1>1 DEF TypeOK
<1>. QED BY <1>1, <1>2, <1>3, ChangedInv

LEMMA SetLengthInv ==
  ASSUME ReadInv, NEW n \in Sizes, SetLength(n)
  PROVE  ReadInv'
<1>1. /\ TypeOK /\ fh' = fh /\ Changed(SetLen(server, n)) /\ own' = [h \in Handles |-> {}]
  BY DEF ReadInv, SetLength
<1>2. SetLen(server, n) \in Seq(Byte) /\ Len(SetLen(server, n)) <= MaxSize
  BY <1>1, SetLenType DEF TypeOK
<1>3. fh' \in [Handles -> FhState] /\ own' \in [Handles -> SUBSET Byte]
  BY <1>1 DEF TypeOK
<1>. QED BY <1>1, <1>2, <1>3, ChangedInv

LEMMA SetSizeInv ==
  ASSUME ReadInv, NEW n \in Sizes, NEW applied \in BOOLEAN, SetSize(n, applied)
  PROVE  ReadInv'
<1>1. TypeOK
  BY DEF ReadInv
<1>2. /\ fh' = [h \in Handles |-> IF fh[h].open THEN [fh[h] EXCEPT !.file_size = n] ELSE fh[h]]
      /\ own' = [h \in Handles |-> {}]
  BY DEF SetSize
<1>3. ASSUME NEW h \in Handles
      PROVE  /\ fh'[h] \in FhState /\ fh'[h].open = fh[h].open
             /\ fh'[h].read_buf = fh[h].read_buf
             /\ fh'[h].read_buf_offset = fh[h].read_buf_offset
  <2>1. fh[h] \in FhState
    BY <1>1 DEF TypeOK
  <2>2. CASE fh'[h] = fh[h]
    BY <2>1, <2>2
  <2>3. CASE fh'[h] = [fh[h] EXCEPT !.file_size = n]
    BY <2>1, <2>3, NewSize
  <2>. QED BY <1>2, <2>2, <2>3
<1>4. fh' \in [Handles -> FhState] /\ own' \in [Handles -> SUBSET Byte]
  BY <1>2, <1>3
<1>5. CASE applied
  <2>1. SetLen(server, n) \in Seq(Byte) /\ Len(SetLen(server, n)) <= MaxSize
    BY <1>1, SetLenType DEF TypeOK
  <2>2. Changed(SetLen(server, n))
    BY <1>5 DEF SetSize
  <2>. QED BY <1>3, <1>4, <2>1, <2>2, ChangedInv
<1>6. CASE ~applied
  <2>1. quiet' = {} /\ UNCHANGED <<server, probe, seen>>
    BY <1>6 DEF SetSize
  <2>2. {} \in SUBSET quiet /\ \A h \in {} : fh'[h] = fh[h]
    OBVIOUS
  <2>. QED BY <1>3, <1>4, <2>1, <2>2, SizesInv
<1>. QED BY <1>5, <1>6

LEMMA NextInv == ReadInv /\ [Next]_vars => ReadInv'
<1>. SUFFICES ASSUME ReadInv, [Next]_vars PROVE ReadInv'
  OBVIOUS
<1>1. CASE Next
  BY <1>1, OpenInv, OpenEmptyInv, ReleaseInv, ReadStepInv, WriteInv, StoreInv, SetSizeInv,
     SetLengthInv DEF Next
<1>2. CASE UNCHANGED vars
  BY <1>2 DEF vars, watch, ReadInv, TypeOK, SeenInv, QuietInv, Serves, Matches
<1>. QED BY <1>1, <1>2

\* The invariant of the read path: what is in the file and in the buffers was seen, and
\* the buffers of quiet handles are parts of the file.
THEOREM ReadInvariant == Spec => []ReadInv
<1>1. Init => ReadInv
  BY InitInv
<1>2. ReadInv /\ [Next]_vars => ReadInv'
  BY NextInv
<1>. QED BY <1>1, <1>2, PTL DEF Spec

-----------------------------------------------------------------------------
(* The properties *)

LEMMA ServedBytesSeen == ReadInv => ReadsWhatWasThere
<1>. SUFFICES ASSUME ReadInv, NEW h \in OpenHandles, NEW off \in Offsets, NEW n \in Lengths,
                     off <= probe, probe < off + Len(Result(fh[h], off, n).data)
              PROVE  Result(fh[h], off, n).data[probe - off + 1] \in seen[h]
  BY DEF ReadsWhatWasThere
<1>1. TypeOK /\ SeenInv /\ h \in Handles /\ fh[h].open /\ off \in Nat /\ n \in Nat
  BY RangesType DEF ReadInv, OpenHandles
<1>2. Serves(Result(fh[h], off, n).data, off, seen[h])
  BY <1>1, ResultServes
<1>. QED BY <1>2 DEF Serves

\* A read of bytes that the handle knows of and the file has: a buffer that holds
\* them all, or the file itself.
LEMMA ResultCases ==
  ASSUME TypeOK, NEW h \in Handles, NEW off \in Nat, NEW n \in Nat, 0 < n,
         off < KnownSize(fh[h]), off < Len(server)
  PROVE  LET s == fh[h]
             k == ToRead(s, off, n)
             t == AfterRead(s, off, n)
         IN /\ k \in Nat /\ 0 < k
            /\ \/ Result(s, off, n) = ReadRange(server, off, k)
               \/ Hit(s, off, k) /\ Result(s, off, n) = Bytes(FromBuffer(s, off, k))
               \/ Hit(t, off, k) /\ Result(s, off, n) = Bytes(FromBuffer(t, off, k))
<1>. DEFINE s == fh[h]
            k == ToRead(s, off, n)
            t == AfterRead(s, off, n)
<1>1. k \in Nat /\ 0 < k
  BY KnownSizeType DEF ToRead, Lesser
<1>2. KnownSize(s) \in Nat /\ ~(off >= KnownSize(s))
  BY KnownSizeType
<1>3. Chunk(s, off).ok
  <2>1. FetchOffset(off) \in Nat /\ FetchOffset(off) <= off /\ Len(server) \in Nat
    BY FetchOffsetType, HandleType
  <2>2. FetchOffset(off) < Len(server)
    BY <2>1
  <2>3. Chunk(s, off).ok <=> FetchOffset(off) < Len(server)
    BY FetchedType
  <2>. QED BY <2>2, <2>3
<1>4. \/ Result(s, off, n) = ReadRange(server, off, k)
      \/ Hit(s, off, k) /\ Result(s, off, n) = Bytes(FromBuffer(s, off, k))
      \/ Hit(t, off, k) /\ Result(s, off, n) = Bytes(FromBuffer(t, off, k))
  <2>. DEFINE B == Buffered(s, off, n)
              H == Hit(s, off, k)
              J == Hit(t, off, k)
              C == Chunk(s, off).ok
  <2>1. Result(s, off, n) =
          IF off >= KnownSize(s) THEN Bytes(<<>>)
          ELSE IF ~B THEN ReadRange(server, off, k)
          ELSE IF H THEN Bytes(FromBuffer(s, off, k))
          ELSE IF ~C THEN Refused
          ELSE IF J THEN Bytes(FromBuffer(t, off, k))
          ELSE ReadRange(server, off, k)
    BY DEF Result
  <2>2. C
    BY <1>3
  <2>. HIDE DEF B, H, J, C, s, k, t
  <2>3. \/ Result(s, off, n) = ReadRange(server, off, k)
        \/ H /\ Result(s, off, n) = Bytes(FromBuffer(s, off, k))
        \/ J /\ Result(s, off, n) = Bytes(FromBuffer(t, off, k))
    BY <1>2, <2>1, <2>2, Zenon
  <2>. QED BY <2>3 DEF H, J
<1>. HIDE DEF s, k, t
<1>. QED BY <1>1, <1>4 DEF s, k, t

LEMMA ResultReaches == ReadInv => ReadsReachTheEnd
<1>. SUFFICES ASSUME ReadInv, NEW h \in OpenHandles, NEW off \in Offsets, NEW n \in Lengths,
                     off < KnownSize(fh[h]), off < Len(server)
              PROVE  /\ Result(fh[h], off, n).ok
                     /\ Len(Result(fh[h], off, n).data)
                          >= Lesser(ToRead(fh[h], off, n), Len(server) - off)
  BY DEF ReadsReachTheEnd
<1>. DEFINE s == fh[h]
            k == ToRead(s, off, n)
            t == AfterRead(s, off, n)
            R == Result(s, off, n)
<1>1. TypeOK /\ h \in Handles /\ off \in Nat /\ n \in Nat /\ 0 < n
  BY RangesType DEF ReadInv, OpenHandles
<1>2. s \in FhState /\ t \in FhState /\ server \in Seq(Byte) /\ Len(server) \in Nat
  BY <1>1, HandleType, AfterReadType
<1>3. /\ k \in Nat /\ 0 < k
      /\ \/ R = ReadRange(server, off, k)
         \/ Hit(s, off, k) /\ R = Bytes(FromBuffer(s, off, k))
         \/ Hit(t, off, k) /\ R = Bytes(FromBuffer(t, off, k))
  BY <1>1, ResultCases
<1>4. Lesser(k, Len(server) - off) \in Int /\ Lesser(k, Len(server) - off) <= k
  BY <1>1, <1>2, <1>3 DEF Lesser
<1>. HIDE DEF s, k, t, R
<1>5. /\ ReadRange(server, off, k).ok <=> off < Len(server)
      /\ off < Len(server) /\ 0 < k
           => Len(ReadRange(server, off, k).data) = Lesser(k, Len(server) - off)
  BY <1>1, <1>2, <1>3, RangeType
<1>6. CASE R = ReadRange(server, off, k)
  BY <1>3, <1>4, <1>5, <1>6 DEF R, k, s
<1>7. CASE Hit(s, off, k) /\ R = Bytes(FromBuffer(s, off, k))
  <2>1. Len(FromBuffer(s, off, k)) = k
    BY <1>1, <1>2, <1>3, <1>7, BufferPart
  <2>2. R.ok /\ R.data = FromBuffer(s, off, k)
    BY <1>7, BytesFields
  <2>. QED BY <1>3, <1>4, <2>1, <2>2 DEF R, k, s
<1>8. CASE Hit(t, off, k) /\ R = Bytes(FromBuffer(t, off, k))
  <2>1. Len(FromBuffer(t, off, k)) = k
    BY <1>1, <1>2, <1>3, <1>8, BufferPart
  <2>2. R.ok /\ R.data = FromBuffer(t, off, k)
    BY <1>8, BytesFields
  <2>. QED BY <1>3, <1>4, <2>1, <2>2 DEF R, k, s
<1>. QED BY <1>3, <1>6, <1>7, <1>8

\* What a buffer that matches the file holds of it.
LEMMA MatchPart ==
  ASSUME TypeOK, NEW s \in FhState, Matches(s), NEW off \in Nat, NEW k \in Nat, 0 < k,
         Hit(s, off, k)
  PROVE  off + k <= Len(server) /\ FromBuffer(s, off, k) = SubSeq(server, off + 1, off + k)
<1>. DEFINE b == FromBuffer(s, off, k)
            d == SubSeq(server, off + 1, off + k)
            lo == off - s.read_buf_offset
<1>1. /\ s.read_buf \in Seq(Byte) /\ s.read_buf_offset \in Nat /\ server \in Seq(Byte)
      /\ lo \in Nat /\ lo + k <= Len(s.read_buf) /\ s.read_buf_offset + lo = off
      /\ Len(s.read_buf) \in Nat
  BY DEF FhState, TypeOK, Hit
<1>2. /\ b \in Seq(Byte) /\ Len(b) = k
      /\ \A i \in 1..k : b[i] = s.read_buf[lo + i]
  BY BufferPart
<1>. HIDE DEF lo, b
<1>3. ASSUME NEW i \in 1..k
      PROVE  off + i <= Len(server) /\ b[i] = server[off + i]
  <2>1. lo + i \in Nat /\ 1 <= lo + i /\ lo + i <= Len(s.read_buf)
        /\ s.read_buf_offset + (lo + i) = off + i
    <3>. DEFINE start == s.read_buf_offset
                size == Len(s.read_buf)
    <3>1. /\ start \in Nat /\ size \in Nat /\ lo \in Nat
          /\ lo + k <= size /\ start + lo = off
      BY <1>1
    <3>. HIDE DEF start, size
    <3>2. lo + i \in Nat /\ 1 <= lo + i /\ lo + i <= size
      BY <3>1
    <3>3. start + (lo + i) = off + i
      BY <3>1
    <3>. QED BY <3>2, <3>3 DEF start, size
  <2>2. /\ s.read_buf_offset + (lo + i) <= Len(server)
        /\ s.read_buf[lo + i] = server[s.read_buf_offset + (lo + i)]
    BY <1>1, <2>1 DEF Matches
  <2>. QED BY <1>2, <2>1, <2>2
<1>4. off + k <= Len(server)
  BY <1>3
<1>5. /\ d \in Seq(Byte) /\ Len(d) = k
      /\ \A i \in 1..k : d[i] = server[off + i]
  BY <1>1, <1>4, PartOf
<1>. HIDE DEF d
<1>6. b = d
  BY <1>2, <1>3, <1>5, SeqEqual
<1>. QED BY <1>4, <1>6 DEF b, d

LEMMA QuietResult == ReadInv => QuietReadsExact
<1>. SUFFICES ASSUME ReadInv, NEW h \in quiet, NEW off \in Offsets, NEW n \in Lengths
              PROVE  Result(fh[h], off, n)
                       = Bytes(SubSeq(server, off + 1, Lesser(off + n, Len(server))))
  BY DEF QuietReadsExact
<1>. DEFINE s == fh[h]
            k == ToRead(s, off, n)
            t == AfterRead(s, off, n)
            R == Result(s, off, n)
<1>1. /\ TypeOK /\ h \in Handles /\ off \in Nat /\ n \in Nat /\ 0 < n
      /\ s.file_size \in {None, Len(server)} /\ Matches(s)
  BY RangesType DEF ReadInv, QuietInv, TypeOK
<1>2. s \in FhState /\ t \in FhState /\ server \in Seq(Byte) /\ Len(server) \in Nat
  BY <1>1, HandleType, AfterReadType
<1>3. KnownSize(s) = Len(server)
  BY <1>1, <1>2 DEF KnownSize
<1>4. CASE off >= Len(server)
  <2>1. R = Bytes(<<>>)
    BY <1>3, <1>4 DEF Result
  <2>2. Lesser(off + n, Len(server)) \in Int /\ Lesser(off + n, Len(server)) < off + 1
    BY <1>1, <1>2, <1>4 DEF Lesser
  <2>3. SubSeq(server, off + 1, Lesser(off + n, Len(server))) = <<>>
    BY <1>1, <2>2, SubSeqEmpty
  <2>. QED BY <2>1, <2>3
<1>5. CASE off < Len(server)
  <2>1. /\ k \in Nat /\ 0 < k
        /\ \/ R = ReadRange(server, off, k)
           \/ Hit(s, off, k) /\ R = Bytes(FromBuffer(s, off, k))
           \/ Hit(t, off, k) /\ R = Bytes(FromBuffer(t, off, k))
    BY <1>1, <1>3, <1>5, ResultCases
  <2>2. off + k = Lesser(off + n, Len(server)) /\ off + k <= Len(server)
    BY <1>1, <1>2, <1>3, <1>5 DEF ToRead, Lesser
  <2>3. Matches(t)
    BY <1>1, AfterReadType
  <2>. DEFINE d == SubSeq(server, off + 1, off + k)
  <2>. HIDE DEF s, k, t, R
  <2>4. ReadRange(server, off, k) = Bytes(d)
    BY <1>1, <1>2, <1>5, <2>1, <2>2 DEF ReadRange, Lesser
  <2>5. Hit(s, off, k) => FromBuffer(s, off, k) = d
    BY <1>1, <1>2, <2>1, MatchPart
  <2>6. Hit(t, off, k) => FromBuffer(t, off, k) = d
    BY <1>1, <1>2, <2>1, <2>3, MatchPart
  <2>. HIDE DEF d
  <2>7. R = Bytes(d)
    BY <2>1, <2>4, <2>5, <2>6
  <2>8. R = Bytes(SubSeq(server, off + 1, Lesser(off + n, Len(server))))
    BY <2>2, <2>7 DEF d
  <2>. QED BY <2>8 DEF R, s
<1>. QED BY <1>1, <1>2, <1>4, <1>5

\* Every value of the state has its type.
THEOREM TypeCorrect == Spec => []TypeOK
<1>1. ReadInv => TypeOK
  BY DEF ReadInv
<1>. QED BY <1>1, ReadInvariant, PTL

\* Whatever bytes a read returns were stored at their offsets since the open, however
\* many handles and clients change the file and whatever the chunk size.
THEOREM ReadsServeWhatWas == Spec => []ReadsWhatWasThere
  BY ReadInvariant, ServedBytesSeen, PTL

\* A read within the known size of its handle reaches the end of the file.
THEOREM ReadsAreComplete == Spec => []ReadsReachTheEnd
  BY ReadInvariant, ResultReaches, PTL

\* A handle reads a file that does not change exactly.
THEOREM QuietFilesReadExactly == Spec => []QuietReadsExact
  BY ReadInvariant, QuietResult, PTL
=============================================================================
