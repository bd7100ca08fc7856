--------------------------- MODULE WriteBackProofs ---------------------------
(* Proofs about WriteBack, for every value of its constants. *)
EXTENDS WriteBack, SequenceTheorems, TLAPS

-----------------------------------------------------------------------------
(* Contents and buffers *)

LEMMA EmptyType == Empty \in Content
  BY Assumptions DEF Empty, Content, Sizes, Byte

LEMMA FreeSlotType == FreeSlot \in FhState /\ FreeSlot.write_buf = <<>>
  BY Assumptions DEF FreeSlot, NewFh, FhState, Sizes, None

LEMMA SetLenType ==
  ASSUME NEW c \in Content, NEW n \in Sizes
  PROVE  SetLen(c, n) \in Content
  BY Assumptions DEF SetLen, Content, Sizes, Byte, Offsets

\* Writing a prefix of a buffer that fits into the bounds gives a content.
LEMMA WriteAtType ==
  ASSUME NEW c \in Content, NEW off \in Nat, NEW b \in Seq(Byte), NEW n \in 0..Len(b),
         off + Len(b) <= MaxSize
  PROVE  WriteAt(c, off, b, n) \in Content
<1>1. \A o \in Offsets : off <= o /\ o < off + n => b[o - off + 1] \in Byte
  BY DEF Offsets
<1>2. (IF c.size < off + n THEN off + n ELSE c.size) \in Sizes
  BY Assumptions DEF Content, Sizes
<1>3. c.data \in [Offsets -> Byte]
  BY DEF Content
<1>. QED BY <1>1, <1>2, <1>3 DEF WriteAt, Content

LEMMA PayloadType ==
  ASSUME NEW off \in Nat, NEW n \in Nat, NEW v \in Vals, off + n <= MaxSize
  PROVE  /\ Payload(off, n, v) \in Seq(Byte)
         /\ Len(Payload(off, n, v)) = n
         /\ \A i \in 1..n : Payload(off, n, v)[i] = <<off + i - 1, v>>
<1>1. \A i \in 1..n : <<off + i - 1, v>> \in Byte
  BY Assumptions DEF Byte, Offsets
<1>2. Payload(off, n, v) \in [1..n -> Byte]
  BY <1>1 DEF Payload
<1>3. Payload(off, n, v) \in Seq(Byte) /\ Len(Payload(off, n, v)) = n
  BY <1>2
<1>. QED BY <1>3 DEF Payload

LEMMA PayloadPlaced ==
  ASSUME NEW off \in Nat, NEW n \in Nat, NEW v \in Vals
  PROVE  \A i \in 1..n : Payload(off, n, v)[i] \in {off + i - 1} \X Vals
  BY DEF Payload

\* What flush_write_buffer does to a well-formed handle and its file.
LEMMA FlushBufferType ==
  ASSUME NEW c \in Content, NEW s \in FhState, Placed(s),
         NEW r \in PutResults(Len(s.write_buf))
  PROVE  /\ FlushBuffer(c, s, r).content \in Content
         /\ FlushBuffer(c, s, r).state \in FhState
         /\ FlushBuffer(c, s, r).state.write_buf = <<>>
         /\ FlushBuffer(c, s, r).state.file = s.file
         /\ FlushBuffer(c, s, r).state.writable = s.writable
         /\ FlushBuffer(c, s, r).state.file_size = s.file_size
         /\ FlushBuffer(c, s, r).state.dirty = s.dirty
         /\ s.pending_errors => FlushBuffer(c, s, r).state.pending_errors
         /\ FlushBuffer(c, s, r).ok \in BOOLEAN
         /\ ~FlushBuffer(c, s, r).ok => FlushBuffer(c, s, r).state.pending_errors
         /\ FlushBuffer(c, s, r).ok =>
              /\ FlushBuffer(c, s, r).state.pending_errors = s.pending_errors
              /\ FlushBuffer(c, s, r).state.write_buf_offset
                   = s.write_buf_offset + Len(s.write_buf)
<1>1. CASE s.write_buf = <<>>
  BY <1>1 DEF FlushBuffer, Placed, FhState, Sizes
<1>2. CASE s.write_buf # <<>>
  <2>1. /\ s.write_buf \in Seq(Byte) /\ s.write_buf_offset \in Nat
        /\ Len(s.write_buf) \in Nat
    BY DEF FhState, Sizes
  <2>2. r.applied \in 0..Len(s.write_buf) /\ r.ok \in BOOLEAN
    BY DEF PutResults
  <2>3. WriteAt(c, s.write_buf_offset, s.write_buf, r.applied) \in Content
    BY <2>1, <2>2, WriteAtType DEF Placed
  <2>4. s.write_buf_offset + Len(s.write_buf) \in Sizes
    BY <2>1, Assumptions DEF Placed, Sizes
  <2>5. <<>> \in Seq(Byte)
    OBVIOUS
  <2>. QED BY <1>2, <2>2, <2>3, <2>4, <2>5 DEF FlushBuffer, FhState
<1>. QED BY <1>1, <1>2

\* A content in which every byte is where it was written.
InPlace(c) == \A o \in Offsets : c.data[o] \in ({o} \X Vals) \cup {Zero}

LEMMA WriteAtInPlace ==
  ASSUME NEW c \in Content, InPlace(c), NEW off \in Nat, NEW b \in Seq(Byte),
         NEW n \in 0..Len(b),
         \A i \in 1..Len(b) : b[i] \in {off + i - 1} \X Vals
  PROVE  InPlace(WriteAt(c, off, b, n))
<1>1. CASE n = 0
  BY <1>1 DEF WriteAt
<1>2. CASE n # 0
  <2>. SUFFICES ASSUME NEW o \in Offsets
                PROVE  WriteAt(c, off, b, n).data[o] \in ({o} \X Vals) \cup {Zero}
    BY DEF InPlace
  <2>1. WriteAt(c, off, b, n).data[o]
          = IF off <= o /\ o < off + n THEN b[o - off + 1] ELSE c.data[o]
    BY <1>2 DEF WriteAt
  <2>2. CASE off <= o /\ o < off + n
    <3>1. o - off + 1 \in 1..Len(b) /\ off + (o - off + 1) - 1 = o
      BY <2>2 DEF Offsets
    <3>2. b[o - off + 1] \in {off + (o - off + 1) - 1} \X Vals
      BY <3>1
    <3>. QED BY <2>1, <2>2, <3>1, <3>2
  <2>3. CASE ~(off <= o /\ o < off + n)
    BY <2>1, <2>3 DEF InPlace
  <2>. QED BY <2>2, <2>3
<1>. QED BY <1>1, <1>2

LEMMA SetLenInPlace ==
  ASSUME NEW c \in Content, InPlace(c), NEW n \in Sizes
  PROVE  InPlace(SetLen(c, n))
  BY DEF InPlace, SetLen

LEMMA FlushBufferInPlace ==
  ASSUME NEW c \in Content, InPlace(c), NEW s \in FhState, Placed(s),
         NEW r \in PutResults(Len(s.write_buf))
  PROVE  InPlace(FlushBuffer(c, s, r).content)
<1>1. /\ s.write_buf \in Seq(Byte) /\ s.write_buf_offset \in Nat
      /\ r.applied \in 0..Len(s.write_buf)
  BY DEF FhState, Sizes, PutResults
<1>2. InPlace(WriteAt(c, s.write_buf_offset, s.write_buf, r.applied))
  BY <1>1, WriteAtInPlace DEF Placed
<1>. QED BY <1>2 DEF FlushBuffer

\* flush_and_finalize_handle.
LEMMA FinalizeType ==
  ASSUME NEW c \in Content, InPlace(c), NEW s \in FhState, Placed(s),
         NEW r \in PutResults(Len(s.write_buf)), NEW q \in CallResults
  PROVE  /\ Finalize(c, s, r, q).content \in Content
         /\ InPlace(Finalize(c, s, r, q).content)
         /\ Finalize(c, s, r, q).state = FlushBuffer(c, s, r).state
<1>. DEFINE t == FlushBuffer(c, s, r).state
            d == FlushBuffer(c, s, r).content
<1>1. t \in FhState /\ d \in Content /\ InPlace(d)
  BY FlushBufferType, FlushBufferInPlace
<1>2. t.file_size # None =>
        SetLen(d, t.file_size) \in Content /\ InPlace(SetLen(d, t.file_size))
  BY <1>1, SetLenType, SetLenInPlace DEF FhState
<1>. QED BY <1>1, <1>2 DEF Finalize

\* write_bytes appends: contiguous data, or any data to an empty buffer.
LEMMA ExtendType ==
  ASSUME NEW s \in FhState, Placed(s), NEW off \in Offsets, NEW n \in Nat \ {0},
         NEW v \in Vals, off + n <= MaxSize, ~NeedsFlush(s, off)
  PROVE  /\ Extend(s, off, Payload(off, n, v)) \in FhState
         /\ Placed(Extend(s, off, Payload(off, n, v)))
         /\ Len(Extend(s, off, Payload(off, n, v)).write_buf) = Len(s.write_buf) + n
         /\ Extend(s, off, Payload(off, n, v)).write_buf_offset
              = off - Len(s.write_buf)
         /\ Extend(s, off, Payload(off, n, v)).write_buf
              = s.write_buf \o Payload(off, n, v)
         /\ Extend(s, off, Payload(off, n, v)).file = s.file
         /\ Extend(s, off, Payload(off, n, v)).writable = s.writable
         /\ Extend(s, off, Payload(off, n, v)).file_size = s.file_size
         /\ Extend(s, off, Payload(off, n, v)).pending_errors = s.pending_errors
         /\ Extend(s, off, Payload(off, n, v)).dirty
<1>. DEFINE p == Payload(off, n, v)
            e == Extend(s, off, p)
<1>0. off \in Nat /\ n \in Nat /\ s.write_buf \in Seq(Byte) /\ s.write_buf_offset \in Nat
  BY Assumptions DEF Offsets, FhState, Sizes
<1>1. p \in Seq(Byte) /\ Len(p) = n /\ \A i \in 1..n : p[i] = <<off + i - 1, v>>
  BY <1>0, PayloadType
<1>. HIDE DEF p
<1>2. /\ s.write_buf \o p \in Seq(Byte)
      /\ Len(s.write_buf \o p) = Len(s.write_buf) + n
      /\ \A i \in 1..Len(s.write_buf) : (s.write_buf \o p)[i] = s.write_buf[i]
      /\ \A i \in Len(s.write_buf) + 1 .. Len(s.write_buf) + n :
           (s.write_buf \o p)[i] = p[i - Len(s.write_buf)]
  <2>1. Len(s.write_buf) \in Nat
    BY <1>0
  <2>2. /\ s.write_buf \o p \in Seq(Byte)
        /\ Len(s.write_buf \o p) = Len(s.write_buf) + Len(p)
        /\ \A i \in 1 .. Len(s.write_buf) + Len(p) :
             (s.write_buf \o p)[i] = IF i <= Len(s.write_buf) THEN s.write_buf[i]
                                    ELSE p[i - Len(s.write_buf)]
    <3>. DEFINE b == s.write_buf
    <3>1. b \in Seq(Byte) /\ p \in Seq(Byte)
      BY <1>0, <1>1
    <3>. HIDE DEF b
    <3>2. /\ b \o p \in Seq(Byte)
          /\ Len(b \o p) = Len(b) + Len(p)
          /\ \A i \in 1 .. Len(b) + Len(p) :
               (b \o p)[i] = IF i <= Len(b) THEN b[i] ELSE p[i - Len(b)]
      BY <3>1, ConcatProperties
    <3>. QED BY <3>2 DEF b
  <2>3. \A i \in 1..Len(s.write_buf) : (s.write_buf \o p)[i] = s.write_buf[i]
    BY <1>1, <2>1, <2>2
  <2>4. ASSUME NEW i \in Len(s.write_buf) + 1 .. Len(s.write_buf) + n
        PROVE  (s.write_buf \o p)[i] = p[i - Len(s.write_buf)]
    <3>1. i \in 1 .. Len(s.write_buf) + Len(p) /\ ~(i <= Len(s.write_buf))
      BY <1>1, <2>1
    <3>. QED BY <2>2, <3>1
  <2>. QED BY <1>1, <2>2, <2>3, <2>4
<1>3. (IF s.write_buf = <<>> THEN off ELSE s.write_buf_offset) = off - Len(s.write_buf)
  BY <1>0 DEF NeedsFlush
<1>4. off - Len(s.write_buf) \in Sizes
  <2>1. CASE s.write_buf = <<>>
    BY <1>0, <2>1, Assumptions DEF Sizes
  <2>2. CASE s.write_buf # <<>>
    BY <1>3, <2>2 DEF FhState
  <2>. QED BY <2>1, <2>2
<1>5. /\ e.write_buf = s.write_buf \o p
      /\ e.write_buf_offset = off - Len(s.write_buf)
      /\ e.dirty
      /\ e.file = s.file /\ e.writable = s.writable
      /\ e.file_size = s.file_size /\ e.pending_errors = s.pending_errors
      /\ e \in FhState
  BY <1>2, <1>3, <1>4 DEF Extend, FhState
<1>6. Placed(e)
  <2>1. e.write_buf_offset + Len(e.write_buf) <= MaxSize
    BY <1>0, <1>2, <1>5, Assumptions
  <2>2. ASSUME NEW i \in 1..Len(e.write_buf)
        PROVE  e.write_buf[i] \in {e.write_buf_offset + i - 1} \X Vals
    <3>1. CASE i <= Len(s.write_buf)
      <4>1. s.write_buf[i] \in {s.write_buf_offset + i - 1} \X Vals
        BY <1>0, <3>1 DEF Placed
      <4>2. s.write_buf # <<>>
        BY <1>0, <3>1
      <4>3. s.write_buf_offset = off - Len(s.write_buf)
        BY <1>3, <4>2
      <4>4. e.write_buf[i] = s.write_buf[i]
        BY <1>0, <1>2, <1>5, <3>1
      <4>. QED BY <1>5, <4>1, <4>3, <4>4
    <3>2. CASE i > Len(s.write_buf)
      <4>1. i - Len(s.write_buf) \in 1..n /\ i \in Len(s.write_buf) + 1 .. Len(s.write_buf) + n
        BY <1>0, <1>2, <1>5, <3>2
      <4>2. e.write_buf[i] = p[i - Len(s.write_buf)]
        BY <1>2, <1>5, <4>1
      <4>3. p[i - Len(s.write_buf)] = <<off + (i - Len(s.write_buf)) - 1, v>>
        BY <1>1, <4>1
      <4>4. off + (i - Len(s.write_buf)) - 1 = e.write_buf_offset + i - 1
        BY <1>0, <1>5, <4>1
      <4>. QED BY <4>2, <4>3, <4>4
    <3>. QED BY <1>0, <3>1, <3>2
  <2>. QED BY <2>1, <2>2 DEF Placed
<1>. QED BY <1>2, <1>5, <1>6 DEF p

-----------------------------------------------------------------------------
(* BufferInv is inductive *)

\* What BufferInv says of one open handle.
HandleOK(s) ==
  /\ Placed(s)
  /\ s.write_buf # <<>> => s.write_buf_offset + Len(s.write_buf) <= s.file_size
  /\ s.dirty /\ s.file_size = None => s.pending_errors
  /\ Len(s.write_buf) < WriteBufCap

LEMMA FreeSlotOK == HandleOK(FreeSlot)
  BY Assumptions, FreeSlotType DEF HandleOK, Placed, FreeSlot, NewFh

LEMMA HandlesOK == BufferInv => \A h \in open : HandleOK(fh[h]) /\ fh[h] \in FhState
  BY DEF BufferInv, TypeOK, BuffersPlaced, FinalSizeCoversBuffer, BufferBounded, HandleOK

LEMMA HoldType ==
  ASSUME NEW fs \in SUBSET Files, NEW w \in [Files -> Content], Hold(fs, w)
  PROVE  held' \in SUBSET Files /\ want' \in [Files -> Content]
  BY EmptyType DEF Hold

\* A flushed handle is well-formed if it was, and if a successful flush leaves a
\* handle without errors its size as well.
LEMMA FlushedOK ==
  ASSUME NEW c \in Content, NEW s \in FhState, Placed(s),
         NEW r \in PutResults(Len(s.write_buf)),
         s.dirty /\ s.file_size = None => s.pending_errors
  PROVE  HandleOK(FlushBuffer(c, s, r).state)
<1>. DEFINE t == FlushBuffer(c, s, r).state
<1>1. /\ t \in FhState /\ t.write_buf = <<>>
      /\ t.file_size = s.file_size /\ t.dirty = s.dirty
      /\ s.pending_errors => t.pending_errors
  BY FlushBufferType
<1>2. t.write_buf_offset \in Sizes
  BY <1>1 DEF FhState
<1>. HIDE DEF t
<1>3. Placed(t)
  BY <1>1, <1>2, Assumptions DEF Placed, Sizes
<1>4. Len(t.write_buf) < WriteBufCap
  BY <1>1, Assumptions
<1>. QED BY <1>1, <1>3, <1>4 DEF HandleOK, t

\* A step that replaces one handle and the contents of one file.
LEMMA StoreStep ==
  ASSUME BufferInv,
         NEW h \in Handles, NEW x \in FhState, NEW f \in Files, NEW c \in Content,
         InPlace(c), HandleOK(x), x = FreeSlot \/ h \in open',
         server' = [server EXCEPT ![f] = c],
         fh' = [fh EXCEPT ![h] = x],
         open' \in {open, open \cup {h}, open \ {h}}
  PROVE  /\ server' \in [Files -> Content] /\ fh' \in [Handles -> FhState]
         /\ open' \in SUBSET Handles
         /\ BuffersPlaced' /\ ClosedSlots' /\ BytesInPlace'
         /\ FinalSizeCoversBuffer' /\ BufferBounded'
<1>1. /\ server' \in [Files -> Content] /\ fh' \in [Handles -> FhState]
      /\ open' \in SUBSET Handles
  BY DEF BufferInv, TypeOK
<1>2. \A g \in open' : HandleOK(fh'[g])
  <2>. TAKE g \in open'
  <2>1. CASE g = h
    BY <2>1, <1>1 DEF BufferInv, TypeOK
  <2>2. CASE g # h
    BY <2>2, HandlesOK DEF BufferInv, TypeOK
  <2>. QED BY <2>1, <2>2
<1>3. BuffersPlaced' /\ FinalSizeCoversBuffer' /\ BufferBounded'
  BY <1>2 DEF HandleOK, BuffersPlaced, FinalSizeCoversBuffer, BufferBounded, Placed
<1>4. ClosedSlots'
  BY DEF BufferInv, ClosedSlots, TypeOK
<1>5. BytesInPlace'
  BY DEF BufferInv, TypeOK, BytesInPlace, InPlace
<1>. QED BY <1>1, <1>3, <1>4, <1>5

\* The conjuncts of BufferInv that StoreStep leaves to show.
LEMMA RestOfBufferInv ==
  ASSUME BufferInv,
         server' \in [Files -> Content], fh' \in [Handles -> FhState],
         open' \in SUBSET Handles,
         BuffersPlaced', ClosedSlots', BytesInPlace', FinalSizeCoversBuffer',
         BufferBounded',
         present' \in SUBSET Files, mode' \in {"running", "draining", "stopped"},
         exit' \in {"none", "ok", "failed", "killed"}, held' \in SUBSET Files,
         want' \in [Files -> Content], synced' \in SUBSET Handles,
         task' \in [name : {"idle", "setattr", "drain"}, files : SUBSET Files,
                    size : Sizes, todo : SUBSET Handles],
         TaskOK'
  PROVE  BufferInv'
  BY DEF BufferInv, TypeOK

LEMMA IdleType ==
  Idle \in [name : {"idle", "setattr", "drain"}, files : SUBSET Files,
            size : Sizes, todo : SUBSET Handles]
  BY Assumptions DEF Idle, Sizes

LEMMA IdleOK == task' = Idle => TaskOK'
  BY DEF TaskOK, Idle

\* A new handle.
LEMMA NewFhOK ==
  ASSUME NEW f \in Files, NEW wr \in BOOLEAN, NEW size \in Sizes \cup {None}
  PROVE  NewFh(f, wr, size) \in FhState /\ HandleOK(NewFh(f, wr, size))
  BY Assumptions DEF NewFh, FhState, HandleOK, Placed, Sizes

LEMMA EmptyInPlace == InPlace(Empty)
  BY DEF InPlace, Empty

LEMMA OpenedBuffer ==
  ASSUME BufferInv, Ready, NEW h \in Handles, NEW f \in Files, NEW wr \in BOOLEAN,
         NEW trunc \in BOOLEAN, NEW size \in Sizes \cup {None}, NEW intact \in BOOLEAN,
         Opened(h, f, wr, trunc, size, intact),
         NEW c \in Content, InPlace(c), server' = [server EXCEPT ![f] = c],
         present' \in SUBSET Files
  PROVE  BufferInv'
<1>1. NewFh(f, wr, size) \in FhState /\ HandleOK(NewFh(f, wr, size))
  BY NewFhOK
<1>2. /\ server' \in [Files -> Content] /\ fh' \in [Handles -> FhState]
      /\ open' \in SUBSET Handles
      /\ BuffersPlaced' /\ ClosedSlots' /\ BytesInPlace'
      /\ FinalSizeCoversBuffer' /\ BufferBounded'
  BY <1>1, StoreStep DEF Opened
<1>3. held' \in SUBSET Files /\ want' \in [Files -> Content]
  <2>. DEFINE w == [want EXCEPT ![f] = IF trunc THEN Empty
                                       ELSE IF f \in held THEN @ ELSE server[f]]
              keep == intact /\ (Writers(f) = {} \/ (f \in held /\ ~wr /\ ~trunc))
              fs == IF keep THEN held \cup {f} ELSE held \ {f}
  <2>1. w \in [Files -> Content]
    BY EmptyType DEF BufferInv, TypeOK
  <2>2. fs \in SUBSET Files
    BY DEF BufferInv, TypeOK
  <2>3. Hold(fs, w)
    BY DEF Opened
  <2>. HIDE DEF w, fs
  <2>. QED BY <2>1, <2>2, <2>3, HoldType
<1>4. /\ mode' = mode /\ exit' = exit /\ task' = Idle /\ synced' \in SUBSET Handles
  BY DEF Opened, Ready, BufferInv, TypeOK
<1>. QED BY <1>2, <1>3, <1>4, IdleType, IdleOK, RestOfBufferInv DEF BufferInv, TypeOK

LEMMA OpenBuffer ==
  ASSUME BufferInv, NEW h \in Handles, NEW f \in Files, NEW wr \in BOOLEAN,
         NEW trunc \in BOOLEAN, Open(h, f, wr, trunc)
  PROVE  BufferInv'
<1>. DEFINE c == IF trunc THEN Empty ELSE server[f]
<1>1. c \in Content /\ InPlace(c) /\ server' = [server EXCEPT ![f] = c]
  BY EmptyType, EmptyInPlace DEF Open, BufferInv, TypeOK, BytesInPlace, InPlace
<1>2. server'[f].size \in Sizes
  BY <1>1 DEF BufferInv, TypeOK, Content
<1>3. Opened(h, f, wr, trunc, server'[f].size, TRUE) /\ Ready /\ present' \in SUBSET Files
  BY DEF Open, BufferInv, TypeOK
<1>. HIDE DEF c
<1>. QED BY <1>1, <1>2, <1>3, OpenedBuffer

LEMMA CreateBuffer ==
  ASSUME BufferInv, NEW h \in Handles, NEW f \in Files, NEW wr \in BOOLEAN,
         NEW trunc \in BOOLEAN, NEW metaOk \in BOOLEAN, Create(h, f, wr, trunc, metaOk)
  PROVE  BufferInv'
<1>. DEFINE c == IF trunc \/ ~metaOk THEN Empty ELSE server[f]
            size == IF metaOk THEN server'[f].size ELSE None
            intact == (f \in present /\ ~metaOk /\ ~trunc) => server[f] = Empty
<1>1. c \in Content /\ InPlace(c) /\ server' = [server EXCEPT ![f] = c]
  BY EmptyType, EmptyInPlace DEF Create, BufferInv, TypeOK, BytesInPlace, InPlace
<1>2. size \in Sizes \cup {None}
  BY <1>1 DEF BufferInv, TypeOK, Content
<1>3. Opened(h, f, wr, trunc \/ f \notin present, size, intact)
  BY DEF Create
<1>4. Ready /\ present' \in SUBSET Files
  BY DEF Create, BufferInv, TypeOK
<1>. HIDE DEF c, size, intact
<1>5. intact \in BOOLEAN
  BY DEF intact
<1>6. (trunc \/ f \notin present) \in BOOLEAN
  OBVIOUS
<1>. QED BY <1>1, <1>2, <1>3, <1>4, <1>5, <1>6, OpenedBuffer

\* Steps on which the handles stay as they are and one file may change.
LEMMA FileStep ==
  ASSUME BufferInv, NEW f \in Files, NEW c \in Content, InPlace(c),
         server' \in {server, [server EXCEPT ![f] = c]},
         UNCHANGED <<open, fh>>
  PROVE  /\ server' \in [Files -> Content] /\ fh' \in [Handles -> FhState]
         /\ open' \in SUBSET Handles
         /\ BuffersPlaced' /\ ClosedSlots' /\ BytesInPlace'
         /\ FinalSizeCoversBuffer' /\ BufferBounded'
<1>1. server' \in [Files -> Content]
  BY DEF BufferInv, TypeOK
<1>2. BytesInPlace'
  BY DEF BufferInv, TypeOK, BytesInPlace, InPlace
<1>3. BuffersPlaced' /\ ClosedSlots' /\ FinalSizeCoversBuffer' /\ BufferBounded'
  BY DEF BufferInv, BuffersPlaced, ClosedSlots, FinalSizeCoversBuffer, BufferBounded,
         Placed
<1>. QED BY <1>1, <1>2, <1>3 DEF BufferInv, TypeOK

LEMMA EmptyPutBuffer ==
  ASSUME BufferInv, NEW f \in Files, EmptyPutUnacknowledged(f)
  PROVE  BufferInv'
<1>1. /\ server' \in [Files -> Content] /\ fh' \in [Handles -> FhState]
      /\ open' \in SUBSET Handles
      /\ BuffersPlaced' /\ ClosedSlots' /\ BytesInPlace'
      /\ FinalSizeCoversBuffer' /\ BufferBounded'
  BY EmptyType, EmptyInPlace, FileStep DEF EmptyPutUnacknowledged, mount
<1>2. held' \in SUBSET Files /\ want' \in [Files -> Content]
  BY HoldType DEF EmptyPutUnacknowledged, BufferInv, TypeOK
<1>3. /\ UNCHANGED <<mode, exit, task, synced, open, fh>> /\ present' \in SUBSET Files
  BY DEF EmptyPutUnacknowledged, mount, BufferInv, TypeOK
<1>4. TaskOK'
  BY <1>3 DEF BufferInv, TaskOK
<1>. QED BY <1>1, <1>2, <1>3, <1>4, RestOfBufferInv DEF BufferInv, TypeOK

LEMMA RemoteWriteBuffer ==
  ASSUME BufferInv, NEW f \in Files, NEW off \in Offsets, NEW n \in 1..WriteBufCap,
         NEW v \in Vals, RemoteWrite(f, off, n, v)
  PROVE  BufferInv'
<1>. DEFINE p == Payload(off, n, v)
            c == WriteAt(server[f], off, p, n)
<1>0. off \in Nat /\ n \in Nat /\ off + n <= MaxSize
  BY Assumptions DEF Offsets, RemoteWrite
<1>1. p \in Seq(Byte) /\ Len(p) = n /\ \A i \in 1..n : p[i] \in {off + i - 1} \X Vals
  BY <1>0, PayloadType, PayloadPlaced
<1>2. server[f] \in Content /\ InPlace(server[f])
  BY DEF BufferInv, TypeOK, BytesInPlace, InPlace
<1>. HIDE DEF p
<1>a. n \in 0..Len(p) /\ off + Len(p) <= MaxSize
  BY <1>0, <1>1
<1>b. \A i \in 1..Len(p) : p[i] \in {off + i - 1} \X Vals
  BY <1>1
<1>3. c \in Content
  BY <1>0, <1>1, <1>2, <1>a, WriteAtType
<1>4. InPlace(c)
  BY <1>0, <1>1, <1>2, <1>a, <1>b, WriteAtInPlace
<1>5. server' = [server EXCEPT ![f] = c]
  BY DEF RemoteWrite, p
<1>. HIDE DEF c
<1>6. UNCHANGED <<open, fh, mode, exit, task, synced>> /\ present' \in SUBSET Files
  BY DEF RemoteWrite, mount, BufferInv, TypeOK
<1>7. /\ server' \in [Files -> Content] /\ fh' \in [Handles -> FhState]
      /\ open' \in SUBSET Handles
      /\ BuffersPlaced' /\ ClosedSlots' /\ BytesInPlace'
      /\ FinalSizeCoversBuffer' /\ BufferBounded'
  BY <1>3, <1>4, <1>5, <1>6, FileStep
<1>8. held' \in SUBSET Files /\ want' \in [Files -> Content]
  BY HoldType DEF RemoteWrite, BufferInv, TypeOK
<1>9. TaskOK'
  BY <1>6 DEF BufferInv, TaskOK
<1>. QED BY <1>6, <1>7, <1>8, <1>9, RestOfBufferInv DEF BufferInv, TypeOK

LEMMA FlushBufferInv ==
  ASSUME BufferInv, NEW h \in open, Flush(h)
  PROVE  BufferInv'
<1>1. PICK r \in BufferResults(h) :
        LET res == FlushBuffer(server[fh[h].file], fh[h], r)
        IN /\ server' = [server EXCEPT ![fh[h].file] = res.content]
           /\ fh' = [fh EXCEPT ![h] = res.state]
           /\ synced' = IF CloseSucceeds(res) THEN synced \cup {h} ELSE synced \ {h}
  BY DEF Flush
<1>. DEFINE f == fh[h].file
            res == FlushBuffer(server[f], fh[h], r)
<1>2. /\ h \in Handles /\ fh[h] \in FhState /\ HandleOK(fh[h])
      /\ f \in Files /\ server[f] \in Content /\ InPlace(server[f])
      /\ r \in PutResults(Len(fh[h].write_buf))
  BY HandlesOK DEF BufferInv, TypeOK, BytesInPlace, InPlace, BufferResults, FhState
<1>3. /\ res.content \in Content /\ InPlace(res.content) /\ res.state \in FhState
      /\ HandleOK(res.state)
  BY <1>2, FlushBufferType, FlushBufferInPlace, FlushedOK DEF HandleOK
<1>4. server' = [server EXCEPT ![f] = res.content] /\ fh' = [fh EXCEPT ![h] = res.state]
  BY <1>1
<1>5. UNCHANGED <<present, open, mode, task, exit, held, want>> /\ synced' \in SUBSET Handles
  BY <1>1, <1>2 DEF Flush, BufferInv, TypeOK
<1>. HIDE DEF res
<1>6. /\ server' \in [Files -> Content] /\ fh' \in [Handles -> FhState]
      /\ open' \in SUBSET Handles
      /\ BuffersPlaced' /\ ClosedSlots' /\ BytesInPlace'
      /\ FinalSizeCoversBuffer' /\ BufferBounded'
  BY <1>2, <1>3, <1>4, <1>5, StoreStep
<1>7. TaskOK'
  BY <1>5, IdleOK DEF Flush, Ready
<1>. QED BY <1>5, <1>6, <1>7, RestOfBufferInv DEF BufferInv, TypeOK

LEMMA ReleaseBuffer ==
  ASSUME BufferInv, NEW h \in open, Release(h)
  PROVE  BufferInv'
<1>. DEFINE f == fh[h].file
<1>1. PICK r \in BufferResults(h), q \in CallResults :
        LET res == Finalize(server[f], fh[h], r, q)
        IN /\ server' = [server EXCEPT ![f] = res.content]
           /\ Hold(IF fh[h].writable /\ h \notin synced /\ ~res.ok
                   THEN held \ {f} ELSE held, want)
  BY DEF Release
<1>. DEFINE res == Finalize(server[f], fh[h], r, q)
<1>2. /\ h \in Handles /\ fh[h] \in FhState /\ HandleOK(fh[h])
      /\ f \in Files /\ server[f] \in Content /\ InPlace(server[f])
      /\ r \in PutResults(Len(fh[h].write_buf))
  BY HandlesOK DEF BufferInv, TypeOK, BytesInPlace, InPlace, BufferResults, FhState
<1>3. res.content \in Content /\ InPlace(res.content)
  BY <1>2, FinalizeType DEF HandleOK
<1>4. server' = [server EXCEPT ![f] = res.content]
  BY <1>1
<1>5. held' \in SUBSET Files /\ want' \in [Files -> Content]
  BY <1>1, HoldType DEF BufferInv, TypeOK
<1>6. /\ fh' = [fh EXCEPT ![h] = FreeSlot] /\ open' = open \ {h}
      /\ UNCHANGED <<present, mode, task, exit>> /\ synced' \in SUBSET Handles
  BY <1>2 DEF Release, BufferInv, TypeOK
<1>. HIDE DEF res
<1>7. /\ server' \in [Files -> Content] /\ fh' \in [Handles -> FhState]
      /\ open' \in SUBSET Handles
      /\ BuffersPlaced' /\ ClosedSlots' /\ BytesInPlace'
      /\ FinalSizeCoversBuffer' /\ BufferBounded'
  BY <1>2, <1>3, <1>4, <1>6, StoreStep, FreeSlotType, FreeSlotOK
<1>8. TaskOK'
  BY <1>6, IdleOK DEF Release, Ready
<1>. QED BY <1>5, <1>6, <1>7, <1>8, RestOfBufferInv DEF BufferInv, TypeOK

\* The end of write_bytes, given what the flushes before it left.
LEMMA WroteBuffer ==
  ASSUME BufferInv, NEW h \in open, NEW c \in Content, InPlace(c),
         NEW s \in FhState, s.file = fh[h].file, NEW ok \in BOOLEAN,
         NEW off \in Offsets, NEW n \in Nat \ {0}, NEW v \in Vals, off + n <= MaxSize,
         HandleOK(IF ok THEN Grow(s) ELSE s),
         (IF ok THEN Grow(s) ELSE s) \in FhState,
         Wrote(h, c, s, ok, off, n, v),
         Ready, synced' = synced \ {h}, UNCHANGED <<present, open, mode, task, exit>>
  PROVE  BufferInv'
<1>. DEFINE f == fh[h].file
            x == IF ok THEN Grow(s) ELSE s
            w == WriteAt(want[f], off, Payload(off, n, v), n)
<1>1. h \in Handles /\ f \in Files /\ want[f] \in Content
  BY DEF BufferInv, TypeOK, FhState
<1>2. server' = [server EXCEPT ![f] = c] /\ fh' = [fh EXCEPT ![h] = x]
  BY DEF Wrote
<1>3. w \in Content
  <2>1. off \in Nat /\ n \in Nat
    BY DEF Offsets
  <2>2. Payload(off, n, v) \in Seq(Byte) /\ Len(Payload(off, n, v)) = n
    BY <2>1, PayloadType
  <2>3. n \in 0..Len(Payload(off, n, v)) /\ off + Len(Payload(off, n, v)) <= MaxSize
    BY <2>2
  <2>. QED BY <1>1, <2>1, <2>2, <2>3, WriteAtType
<1>. HIDE DEF x, w
<1>4. /\ server' \in [Files -> Content] /\ fh' \in [Handles -> FhState]
      /\ open' \in SUBSET Handles
      /\ BuffersPlaced' /\ ClosedSlots' /\ BytesInPlace'
      /\ FinalSizeCoversBuffer' /\ BufferBounded'
  <2>1. x \in FhState /\ HandleOK(x)
    BY DEF x
  <2>. QED BY <1>1, <1>2, <2>1, StoreStep
<1>5. held' \in SUBSET Files /\ want' \in [Files -> Content]
  <2>1. Hold(held, IF ok THEN [want EXCEPT ![f] = w] ELSE want)
    BY DEF Wrote, w
  <2>2. (IF ok THEN [want EXCEPT ![f] = w] ELSE want) \in [Files -> Content]
    BY <1>3 DEF BufferInv, TypeOK
  <2>3. held \in SUBSET Files
    BY DEF BufferInv, TypeOK
  <2>. QED BY <2>1, <2>2, <2>3, HoldType
<1>6. synced' \in SUBSET Handles
  BY DEF BufferInv, TypeOK
<1>7. TaskOK'
  BY IdleOK DEF Ready
<1>. QED BY <1>4, <1>5, <1>6, <1>7, RestOfBufferInv DEF BufferInv, TypeOK

\* file_size catches up with the buffer.
LEMMA GrowOK ==
  ASSUME NEW s \in FhState, Placed(s), Len(s.write_buf) < WriteBufCap
  PROVE  Grow(s) \in FhState /\ HandleOK(Grow(s))
<1>1. /\ s.write_buf_offset \in Nat /\ Len(s.write_buf) \in Nat
      /\ s.file_size \in Int /\ s.write_buf_offset + Len(s.write_buf) \in Sizes
  BY Assumptions DEF FhState, Sizes, None, Placed
<1>2. Grow(s) \in FhState
  BY <1>1 DEF Grow, FhState
<1>3. /\ Grow(s).file_size >= s.write_buf_offset + Len(s.write_buf)
      /\ Grow(s).write_buf = s.write_buf
      /\ Grow(s).write_buf_offset = s.write_buf_offset
      /\ Grow(s).file_size \in Int
  BY <1>1 DEF Grow, FhState
<1>4. Grow(s).file_size # None
  BY <1>1, <1>3 DEF None, Sizes
<1>. QED BY <1>1, <1>2, <1>3, <1>4 DEF HandleOK, Placed

LEMMA FlushFirstOK ==
  ASSUME NEW c \in Content, InPlace(c), NEW s \in FhState, HandleOK(s), NEW off,
         NEW r \in PutResults(Len(s.write_buf))
  PROVE  LET first == FlushFirst(c, s, off, r)
         IN /\ first.content \in Content /\ InPlace(first.content)
            /\ first.state \in FhState /\ HandleOK(first.state) /\ Placed(first.state)
            /\ first.state.file = s.file
            /\ first.ok \in BOOLEAN
            /\ ~NeedsFlush(first.state, off)
<1>1. CASE NeedsFlush(s, off)
  <2>. DEFINE first == FlushBuffer(c, s, r)
  <2>1. /\ first.state.write_buf = <<>> /\ first.content \in Content
        /\ first.state \in FhState /\ first.state.file = s.file /\ first.ok \in BOOLEAN
    BY FlushBufferType DEF HandleOK
  <2>2. InPlace(first.content)
    BY FlushBufferInPlace DEF HandleOK
  <2>3. HandleOK(first.state)
    BY FlushedOK DEF HandleOK
  <2>. HIDE DEF first
  <2>4. ~NeedsFlush(first.state, off)
    BY <2>1 DEF NeedsFlush
  <2>5. Placed(first.state)
    BY <2>3 DEF HandleOK
  <2>6. FlushFirst(c, s, off, r) = first
    BY <1>1 DEF FlushFirst, first
  <2>. QED BY <2>1, <2>2, <2>3, <2>4, <2>5, <2>6
<1>2. CASE ~NeedsFlush(s, off)
  BY <1>2 DEF FlushFirst, HandleOK
<1>. QED BY <1>1, <1>2

LEMMA FlushFullOK ==
  ASSUME NEW c \in Content, InPlace(c), NEW s \in FhState, Placed(s), s.dirty,
         NEW r \in PutResults(Len(s.write_buf))
  PROVE  LET second == FlushFull(c, s, r)
         IN /\ second.content \in Content /\ InPlace(second.content)
            /\ second.state \in FhState /\ second.state.file = s.file
            /\ second.ok \in BOOLEAN
            /\ Placed(second.state) /\ Len(second.state.write_buf) < WriteBufCap
            /\ ~second.ok => HandleOK(second.state)
<1>1. CASE IsFull(s)
  <2>. DEFINE second == FlushBuffer(c, s, r)
              t == second.state
  <2>1. /\ t.write_buf = <<>> /\ second.content \in Content
        /\ t \in FhState /\ t.file = s.file /\ second.ok \in BOOLEAN
        /\ ~second.ok => t.pending_errors
    BY FlushBufferType
  <2>2. InPlace(second.content)
    BY FlushBufferInPlace
  <2>3. FlushFull(c, s, r) = second
    BY <1>1 DEF FlushFull
  <2>. HIDE DEF second
  <2>4. Placed(t) /\ Len(t.write_buf) < WriteBufCap
    <3>1. t.write_buf_offset \in Sizes
      BY <2>1 DEF FhState
    <3>. QED BY <2>1, <3>1, Assumptions DEF Placed, Sizes
  <2>5. ~second.ok => HandleOK(t)
    BY <2>1, <2>4 DEF HandleOK
  <2>. QED BY <2>1, <2>2, <2>3, <2>4, <2>5
<1>2. CASE ~IsFull(s)
  <2>1. Len(s.write_buf) < WriteBufCap
    BY <1>2, Assumptions DEF IsFull, FhState
  <2>. QED BY <1>2, <2>1 DEF FlushFull
<1>. QED BY <1>1, <1>2

LEMMA WriteBuffer ==
  ASSUME BufferInv, NEW h \in open, NEW off \in Offsets, NEW n \in 1..WriteBufCap,
         NEW v \in Vals, Write(h, off, n, v)
  PROVE  BufferInv'
<1>. DEFINE s == fh[h]
<1>1. PICK r1 \in PutResults(Len(s.write_buf)) :
        LET first  == FlushFirst(server[s.file], s, off, r1)
            filled == Extend(first.state, off, Payload(off, n, v))
        IN \/ ~first.ok /\ Wrote(h, first.content, first.state, FALSE, off, n, v)
           \/ /\ first.ok
              /\ \E r2 \in PutResults(Len(filled.write_buf)) :
                   LET second == FlushFull(first.content, filled, r2)
                   IN Wrote(h, second.content, second.state, second.ok, off, n, v)
  BY DEF Write
<1>. DEFINE first  == FlushFirst(server[s.file], s, off, r1)
            filled == Extend(first.state, off, Payload(off, n, v))
<1>2. /\ Ready /\ synced' = synced \ {h} /\ UNCHANGED <<present, open, mode, task, exit>>
      /\ off + n <= MaxSize
  BY DEF Write
<1>n. n \in Nat \ {0}
  BY Assumptions
<1>3. /\ s \in FhState /\ HandleOK(s) /\ Placed(s)
      /\ server[s.file] \in Content /\ InPlace(server[s.file])
  BY HandlesOK DEF BufferInv, TypeOK, BytesInPlace, InPlace, FhState, HandleOK
<1>4. /\ first.content \in Content /\ InPlace(first.content)
      /\ first.state \in FhState /\ HandleOK(first.state) /\ Placed(first.state)
      /\ first.state.file = s.file
      /\ first.ok \in BOOLEAN
      /\ ~NeedsFlush(first.state, off)
  BY <1>3, FlushFirstOK
<1>5. CASE ~first.ok /\ Wrote(h, first.content, first.state, FALSE, off, n, v)
  <2>. HIDE DEF first
  <2>. QED BY <1>2, <1>n, <1>4, <1>5, WroteBuffer
<1>6. ASSUME NEW r2 \in PutResults(Len(filled.write_buf)),
             LET second == FlushFull(first.content, filled, r2)
             IN Wrote(h, second.content, second.state, second.ok, off, n, v)
      PROVE  BufferInv'
  <2>. DEFINE second == FlushFull(first.content, filled, r2)
              t == second.state
  <2>. HIDE DEF first
  <2>1. filled \in FhState /\ Placed(filled) /\ filled.file = s.file /\ filled.dirty
    BY <1>2, <1>n, <1>4, ExtendType
  <2>. HIDE DEF filled
  <2>2. /\ second.content \in Content /\ InPlace(second.content)
        /\ t \in FhState /\ t.file = s.file /\ second.ok \in BOOLEAN
        /\ Placed(t) /\ Len(t.write_buf) < WriteBufCap
        /\ ~second.ok => HandleOK(t)
    BY <1>4, <2>1, FlushFullOK
  <2>3. Wrote(h, second.content, t, second.ok, off, n, v)
    BY <1>6
  <2>. HIDE DEF second
  <2>4. Grow(t) \in FhState /\ HandleOK(Grow(t))
    BY <2>2, GrowOK
  <2>5. /\ HandleOK(IF second.ok THEN Grow(t) ELSE t)
        /\ (IF second.ok THEN Grow(t) ELSE t) \in FhState
    BY <2>2, <2>4
  <2>. HIDE DEF t
  <2>. QED BY <1>2, <1>n, <2>2, <2>3, <2>5, WroteBuffer
<1>. QED BY <1>1, <1>5, <1>6

LEMMA BeginSetSizeBuffer ==
  ASSUME BufferInv, NEW f \in Files, NEW n \in Sizes, BeginSetSize(f, n)
  PROVE  BufferInv'
<1>1. UNCHANGED <<present, server, open, fh, mode, exit, held, want, synced>>
  BY DEF BeginSetSize, store, told
<1>2. /\ server' \in [Files -> Content] /\ fh' \in [Handles -> FhState]
      /\ open' \in SUBSET Handles
      /\ BuffersPlaced' /\ ClosedSlots' /\ BytesInPlace'
      /\ FinalSizeCoversBuffer' /\ BufferBounded'
  BY <1>1, EmptyType, EmptyInPlace, FileStep
<1>3. HandlesOf(f) \subseteq open /\ open \subseteq Handles
  BY DEF HandlesOf, BufferInv, TypeOK
<1>4. task' = [name |-> "setattr", files |-> {f}, size |-> n, todo |-> HandlesOf(f)]
  BY DEF BeginSetSize
<1>5. TaskOK'
  <2>1. task'.todo \subseteq open'
    BY <1>1, <1>3, <1>4
  <2>2. task'.files = {f} /\ \A h \in task'.todo : fh'[h].file = f
    BY <1>1, <1>4 DEF HandlesOf
  <2>. QED BY <2>1, <2>2 DEF TaskOK
<1>6. task' \in [name : {"idle", "setattr", "drain"}, files : SUBSET Files,
                 size : Sizes, todo : SUBSET Handles]
  BY <1>3, <1>4
<1>. QED BY <1>1, <1>2, <1>5, <1>6, RestOfBufferInv DEF BufferInv, TypeOK

\* The loops shrink their list of handles.
LEMMA TodoStep ==
  ASSUME BufferInv, NEW h \in Handles, task' = [task EXCEPT !.todo = @ \ {h}],
         open' \in {open, open \ {h}}, \A g \in open : fh'[g].file = fh[g].file \/ g = h
  PROVE  /\ TaskOK'
         /\ task' \in [name : {"idle", "setattr", "drain"}, files : SUBSET Files,
                       size : Sizes, todo : SUBSET Handles]
<1>1. /\ task'.name = task.name /\ task'.files = task.files /\ task'.size = task.size
      /\ task'.todo = task.todo \ {h}
      /\ task' \in [name : {"idle", "setattr", "drain"}, files : SUBSET Files,
                    size : Sizes, todo : SUBSET Handles]
  BY DEF BufferInv, TypeOK
<1>. QED BY <1>1 DEF BufferInv, TaskOK

LEMMA SetSizeFlushBuffer ==
  ASSUME BufferInv, NEW h \in open, SetSizeFlush(h)
  PROVE  BufferInv'
<1>. DEFINE f == fh[h].file
<1>1. PICK r \in BufferResults(h) :
        LET res == FlushBuffer(server[f], fh[h], r)
        IN /\ server' = [server EXCEPT ![f] = res.content]
           /\ fh' = [fh EXCEPT ![h] = [res.state EXCEPT !.file_size = task.size,
                                                        !.dirty = FALSE]]
  BY DEF SetSizeFlush
<1>. DEFINE res == FlushBuffer(server[f], fh[h], r)
            x == [res.state EXCEPT !.file_size = task.size, !.dirty = FALSE]
<1>2. /\ h \in Handles /\ fh[h] \in FhState /\ Placed(fh[h])
      /\ f \in Files /\ server[f] \in Content /\ InPlace(server[f])
      /\ r \in PutResults(Len(fh[h].write_buf)) /\ task.size \in Sizes
  BY HandlesOK DEF BufferInv, TypeOK, BytesInPlace, InPlace, BufferResults, FhState,
                   HandleOK
<1>3. /\ res.content \in Content /\ InPlace(res.content) /\ res.state \in FhState
      /\ res.state.write_buf = <<>> /\ res.state.file = f
  BY <1>2, FlushBufferType, FlushBufferInPlace
<1>4. server' = [server EXCEPT ![f] = res.content] /\ fh' = [fh EXCEPT ![h] = x]
  BY <1>1
<1>. HIDE DEF res
<1>5. x \in FhState /\ HandleOK(x) /\ x.file = f
  <2>1. /\ x \in FhState /\ x.write_buf = <<>> /\ ~x.dirty /\ x.file = f
        /\ x.write_buf_offset \in Sizes
    BY <1>2, <1>3 DEF FhState
  <2>. HIDE DEF x
  <2>. QED BY <2>1, Assumptions DEF HandleOK, Placed, Sizes
<1>. HIDE DEF x
<1>6. /\ UNCHANGED <<present, open, mode, exit, held, want, synced>>
      /\ task' = [task EXCEPT !.todo = @ \ {h}]
  BY DEF SetSizeFlush, told
<1>7. /\ server' \in [Files -> Content] /\ fh' \in [Handles -> FhState]
      /\ open' \in SUBSET Handles
      /\ BuffersPlaced' /\ ClosedSlots' /\ BytesInPlace'
      /\ FinalSizeCoversBuffer' /\ BufferBounded'
  BY <1>2, <1>3, <1>4, <1>5, <1>6, StoreStep
<1>8. \A g \in open : fh'[g].file = fh[g].file \/ g = h
  BY <1>4 DEF BufferInv, TypeOK
<1>. QED BY <1>2, <1>6, <1>7, <1>8, TodoStep, RestOfBufferInv DEF BufferInv, TypeOK

LEMMA SetSizePutBuffer ==
  ASSUME BufferInv, NEW f \in Files, SetSizePut(f)
  PROVE  BufferInv'
<1>1. PICK r \in CallResults :
        /\ server' = IF r.applied THEN [server EXCEPT ![f] = SetLen(@, task.size)]
                     ELSE server
        /\ IF r.ok THEN Hold(held, [want EXCEPT ![f] = SetLen(@, task.size)])
           ELSE Hold(held \ {f}, want)
  BY DEF SetSizePut
<1>2. /\ SetLen(server[f], task.size) \in Content /\ SetLen(want[f], task.size) \in Content
      /\ InPlace(SetLen(server[f], task.size))
  BY SetLenType, SetLenInPlace DEF BufferInv, TypeOK, BytesInPlace, InPlace
<1>3. UNCHANGED <<present, open, fh, mode, exit, synced>> /\ task' = Idle
  BY DEF SetSizePut
<1>4. /\ server' \in [Files -> Content] /\ fh' \in [Handles -> FhState]
      /\ open' \in SUBSET Handles
      /\ BuffersPlaced' /\ ClosedSlots' /\ BytesInPlace'
      /\ FinalSizeCoversBuffer' /\ BufferBounded'
  BY <1>1, <1>2, <1>3, FileStep
<1>5. held' \in SUBSET Files /\ want' \in [Files -> Content]
  <2>1. CASE r.ok
    <3>1. [want EXCEPT ![f] = SetLen(@, task.size)] \in [Files -> Content]
      BY <1>2 DEF BufferInv, TypeOK
    <3>. QED BY <1>1, <2>1, <3>1, HoldType DEF BufferInv, TypeOK
  <2>2. CASE ~r.ok
    BY <1>1, <2>2, HoldType DEF BufferInv, TypeOK
  <2>. QED BY <2>1, <2>2
<1>. QED BY <1>3, <1>4, <1>5, IdleOK, IdleType, RestOfBufferInv DEF BufferInv, TypeOK

LEMMA BeginDrainBuffer == BufferInv /\ BeginDrain => BufferInv'
<1>. SUFFICES ASSUME BufferInv, BeginDrain PROVE BufferInv'
  OBVIOUS
<1>1. /\ UNCHANGED <<present, server, open, fh, exit, held, want, synced>>
      /\ mode' = "draining"
      /\ task' = [name |-> "drain", files |-> {}, size |-> 0, todo |-> open]
  BY DEF BeginDrain, store, told, Idle
<1>2. /\ server' \in [Files -> Content] /\ fh' \in [Handles -> FhState]
      /\ open' \in SUBSET Handles
      /\ BuffersPlaced' /\ ClosedSlots' /\ BytesInPlace'
      /\ FinalSizeCoversBuffer' /\ BufferBounded'
  BY <1>1, EmptyInPlace, EmptyType, Assumptions, FileStep
<1>3. /\ TaskOK'
      /\ task' \in [name : {"idle", "setattr", "drain"}, files : SUBSET Files,
                    size : Sizes, todo : SUBSET Handles]
  BY <1>1, Assumptions DEF TaskOK, Sizes, BufferInv, TypeOK
<1>. QED BY <1>1, <1>2, <1>3, RestOfBufferInv DEF BufferInv, TypeOK

LEMMA DrainHandleBuffer ==
  ASSUME BufferInv, NEW h \in open, DrainHandle(h)
  PROVE  BufferInv'
<1>. DEFINE f == fh[h].file
<1>1. PICK r \in BufferResults(h), q \in CallResults :
        LET res == Finalize(server[f], fh[h], r, q)
        IN /\ server' = [server EXCEPT ![f] = res.content]
           /\ open' = IF res.ok THEN open \ {h} ELSE open
           /\ fh' = [fh EXCEPT ![h] = IF res.ok THEN FreeSlot ELSE res.state]
  BY DEF DrainHandle
<1>. DEFINE res == Finalize(server[f], fh[h], r, q)
            x == IF res.ok THEN FreeSlot ELSE res.state
<1>2. /\ h \in Handles /\ fh[h] \in FhState /\ HandleOK(fh[h])
      /\ f \in Files /\ server[f] \in Content /\ InPlace(server[f])
      /\ r \in PutResults(Len(fh[h].write_buf))
  BY HandlesOK DEF BufferInv, TypeOK, BytesInPlace, InPlace, BufferResults, FhState
<1>3. /\ res.content \in Content /\ InPlace(res.content)
      /\ res.state = FlushBuffer(server[f], fh[h], r).state
  BY <1>2, FinalizeType DEF HandleOK
<1>4. res.state \in FhState /\ HandleOK(res.state)
  <2>1. Placed(fh[h]) /\ (fh[h].dirty /\ fh[h].file_size = None => fh[h].pending_errors)
    BY <1>2 DEF HandleOK
  <2>2. /\ FlushBuffer(server[f], fh[h], r).state \in FhState
        /\ HandleOK(FlushBuffer(server[f], fh[h], r).state)
    BY <1>2, <2>1, FlushBufferType, FlushedOK
  <2>. QED BY <1>3, <2>2
<1>5. /\ server' = [server EXCEPT ![f] = res.content] /\ fh' = [fh EXCEPT ![h] = x]
      /\ open' = IF res.ok THEN open \ {h} ELSE open
  BY <1>1
<1>. HIDE DEF res
<1>6. x \in FhState /\ HandleOK(x) /\ (x = FreeSlot \/ h \in open')
  BY <1>4, <1>5, FreeSlotType, FreeSlotOK
<1>. HIDE DEF x
<1>7. /\ UNCHANGED <<present, mode, exit, held, want, synced>>
      /\ task' = [task EXCEPT !.todo = @ \ {h}]
      /\ open' \in {open, open \ {h}}
  BY <1>5 DEF DrainHandle, told
<1>8. /\ server' \in [Files -> Content] /\ fh' \in [Handles -> FhState]
      /\ open' \in SUBSET Handles
      /\ BuffersPlaced' /\ ClosedSlots' /\ BytesInPlace'
      /\ FinalSizeCoversBuffer' /\ BufferBounded'
  BY <1>2, <1>3, <1>5, <1>6, <1>7, StoreStep
<1>9. \A g \in open : fh'[g].file = fh[g].file \/ g = h
  BY <1>5 DEF BufferInv, TypeOK
<1>. QED BY <1>2, <1>7, <1>8, <1>9, TodoStep, RestOfBufferInv DEF BufferInv, TypeOK

LEMMA StopBuffer ==
  ASSUME BufferInv, NEW code \in {"ok", "failed", "killed"}, Stop(code)
  PROVE  BufferInv'
<1>1. /\ UNCHANGED <<present, server>> /\ open' = {} /\ synced' = {} /\ task' = Idle
      /\ mode' = "stopped" /\ exit' = code
      /\ fh' = [h \in Handles |-> FreeSlot]
  BY DEF Stop, store
<1>2. fh' \in [Handles -> FhState] /\ ClosedSlots' /\ BytesInPlace'
  BY <1>1, FreeSlotType DEF ClosedSlots, BufferInv, BytesInPlace
<1>3. BuffersPlaced' /\ FinalSizeCoversBuffer' /\ BufferBounded'
  BY <1>1 DEF BuffersPlaced, FinalSizeCoversBuffer, BufferBounded
<1>4. held' \in SUBSET Files /\ want' \in [Files -> Content]
  <2>1. {f \in held : code = "ok" \/ Writers(f) \subseteq synced} \in SUBSET Files
    BY DEF BufferInv, TypeOK
  <2>. QED BY <2>1, HoldType DEF Stop, BufferInv, TypeOK
<1>. QED BY <1>1, <1>2, <1>3, <1>4, IdleOK, IdleType, RestOfBufferInv DEF BufferInv, TypeOK

LEMMA StutterBuffer == BufferInv /\ UNCHANGED vars => BufferInv'
  BY DEF BufferInv, TypeOK, BuffersPlaced, ClosedSlots, TaskOK, BytesInPlace,
         FinalSizeCoversBuffer, BufferBounded, Placed, vars, store, mount, told

LEMMA MountBuffer == BufferInv /\ Mount => BufferInv'
  BY DEF BufferInv, TypeOK, BuffersPlaced, ClosedSlots, TaskOK, BytesInPlace,
         FinalSizeCoversBuffer, BufferBounded, Placed, Mount, store, told

LEMMA InitBuffer == Init => BufferInv
<1>. SUFFICES ASSUME Init PROVE BufferInv
  OBVIOUS
<1>1. TypeOK
  BY EmptyType, FreeSlotType, IdleType DEF Init, TypeOK
<1>2. BytesInPlace
  BY EmptyInPlace DEF Init, BytesInPlace, InPlace
<1>. QED BY <1>1, <1>2 DEF Init, BufferInv, BuffersPlaced, ClosedSlots, TaskOK, Idle,
                           FinalSizeCoversBuffer, BufferBounded

LEMMA NextBuffer == BufferInv /\ [Next]_vars => BufferInv'
<1>. SUFFICES ASSUME BufferInv, [Next]_vars PROVE BufferInv'
  OBVIOUS
<1>1. CASE OpenOrCreate
  BY <1>1, OpenBuffer, CreateBuffer DEF OpenOrCreate
<1>2. CASE WriteSome
  BY <1>2, WriteBuffer DEF WriteSome
<1>3. CASE SetSize
  BY <1>3, BeginSetSizeBuffer, SetSizeFlushBuffer, SetSizePutBuffer DEF SetSize
<1>4. CASE Close
  BY <1>4, FlushBufferInv, ReleaseBuffer DEF Close
<1>5. CASE Shutdown
  BY <1>5, BeginDrainBuffer, DrainHandleBuffer, StopBuffer, MountBuffer
     DEF Shutdown, FinishDrain, Kill
<1>6. CASE Environment
  BY <1>6, EmptyPutBuffer, RemoteWriteBuffer DEF Environment
<1>7. CASE UNCHANGED vars
  BY <1>7, StutterBuffer
<1>. QED BY <1>1, <1>2, <1>3, <1>4, <1>5, <1>6, <1>7 DEF Next

\* The strengthening holds in every state the program can reach.
THEOREM BufferInvariant == Spec => []BufferInv
<1>. QED BY InitBuffer, NextBuffer, PTL DEF Spec

\* Every value of the state has its type.
THEOREM TypeCorrect == Spec => []TypeOK
<1>1. BufferInv => TypeOK
  BY DEF BufferInv
<1>. QED BY <1>1, BufferInvariant, PTL

\* A byte is stored only at the offset an application wrote it at, whatever calls
\* fail, in whatever order the handles are flushed, and whoever else writes.
THEOREM BytesStayInPlace == Spec => []BytesInPlace
<1>1. BufferInv => BytesInPlace
  BY DEF BufferInv
<1>. QED BY <1>1, BufferInvariant, PTL

\* The size a handle is finalized with covers what it still buffers.
THEOREM FinalSizeSafe == Spec => []FinalSizeCoversBuffer
<1>1. BufferInv => FinalSizeCoversBuffer
  BY DEF BufferInv
<1>. QED BY <1>1, BufferInvariant, PTL

\* A handle buffers less than a chunk between handlers.
THEOREM BuffersBounded == Spec => []BufferBounded
<1>1. BufferInv => BufferBounded
  BY DEF BufferInv
<1>. QED BY <1>1, BufferInvariant, PTL

-----------------------------------------------------------------------------
(* What a handle shows: contents with its buffer written over them *)

\* The fields of what WriteAt makes.
LEMMA WriteAtFields ==
  ASSUME NEW c \in Content, NEW off \in Nat, NEW b, NEW n \in Nat, n # 0
  PROVE  /\ WriteAt(c, off, b, n).size = IF c.size < off + n THEN off + n ELSE c.size
         /\ \A o \in Offsets :
              WriteAt(c, off, b, n).data[o]
                = IF off <= o /\ o < off + n THEN b[o - off + 1] ELSE c.data[o]
  BY DEF WriteAt

LEMMA ContentFields ==
  ASSUME NEW c \in Content
  PROVE  c.size \in Nat /\ c.size \in Sizes /\ c.data \in [Offsets -> Byte]
  BY Assumptions DEF Content, Sizes

\* Contents with the same size and bytes are the same.
LEMMA SameContent ==
  ASSUME NEW c \in Content, NEW d \in Content, c.size = d.size,
         \A o \in Offsets : c.data[o] = d.data[o]
  PROVE  c = d
<1>1. c.data = d.data
  BY ContentFields
<1>. QED BY <1>1 DEF Content

LEMMA WriteAtPadded ==
  ASSUME NEW c \in Content, Padded(c), NEW off \in Nat, NEW b, NEW n \in Nat
  PROVE  Padded(WriteAt(c, off, b, n))
<1>1. CASE n = 0
  BY <1>1 DEF WriteAt
<1>2. CASE n # 0
  <2>. DEFINE w == WriteAt(c, off, b, n)
  <2>. SUFFICES ASSUME NEW o \in Offsets, o >= w.size PROVE w.data[o] = Zero
    BY DEF Padded
  <2>1. /\ w.size = IF c.size < off + n THEN off + n ELSE c.size
        /\ w.data[o] = IF off <= o /\ o < off + n THEN b[o - off + 1] ELSE c.data[o]
    BY <1>2, WriteAtFields
  <2>. HIDE DEF w
  <2>2. o >= off + n /\ o >= c.size
    BY <2>1, ContentFields DEF Offsets
  <2>3. ~(o < off + n)
    BY <2>2 DEF Offsets
  <2>. QED BY <2>1, <2>2, <2>3 DEF Padded
<1>. QED BY <1>1, <1>2

LEMMA SetLenPadded ==
  ASSUME NEW c \in Content, NEW n \in Sizes
  PROVE  Padded(SetLen(c, n)) /\ SetLen(c, n).size = n
  BY Assumptions DEF Padded, SetLen, Offsets, Sizes

LEMMA EmptyPadded == Padded(Empty)
  BY DEF Padded, Empty

\* Setting the size a file has changes nothing.
LEMMA SetLenSame ==
  ASSUME NEW c \in Content, Padded(c)
  PROVE  SetLen(c, c.size) = c
<1>1. SetLen(c, c.size) \in Content /\ SetLen(c, c.size).size = c.size
  BY ContentFields, SetLenType, SetLenPadded
<1>2. ASSUME NEW o \in Offsets
      PROVE  SetLen(c, c.size).data[o] = c.data[o]
  <2>1. SetLen(c, c.size).data[o] = IF o < c.size THEN c.data[o] ELSE Zero
    BY DEF SetLen
  <2>2. ~(o < c.size) => o >= c.size
    BY ContentFields DEF Offsets
  <2>. QED BY <2>1, <2>2 DEF Padded
<1>. QED BY <1>1, <1>2, SameContent

\* A handle that buffers nothing shows what the filer has.
LEMMA EmptyView ==
  ASSUME NEW c, NEW s, s.write_buf = <<>>
  PROVE  View(c, s) = c
  BY DEF View, WriteAt

LEMMA ViewType ==
  ASSUME NEW c \in Content, NEW s \in FhState, Placed(s)
  PROVE  /\ View(c, s) \in Content
         /\ Padded(c) => Padded(View(c, s))
<1>1. /\ s.write_buf \in Seq(Byte) /\ s.write_buf_offset \in Nat
      /\ Len(s.write_buf) \in 0..Len(s.write_buf) /\ Len(s.write_buf) \in Nat
  BY Assumptions DEF FhState, Sizes
<1>. QED BY <1>1, WriteAtType, WriteAtPadded DEF View, Placed

\* A flush keeps contents padded, and one that succeeds stores what the handle shows.
LEMMA FlushView ==
  ASSUME NEW c \in Content, Padded(c), NEW s \in FhState, Placed(s),
         NEW r \in PutResults(Len(s.write_buf))
  PROVE  /\ Padded(FlushBuffer(c, s, r).content)
         /\ FlushBuffer(c, s, r).ok => FlushBuffer(c, s, r).content = View(c, s)
         /\ s.write_buf = <<>> =>
              /\ FlushBuffer(c, s, r).content = c
              /\ FlushBuffer(c, s, r).state = s
              /\ FlushBuffer(c, s, r).ok
<1>1. CASE s.write_buf = <<>>
  BY <1>1, EmptyView DEF FlushBuffer
<1>2. CASE s.write_buf # <<>>
  <2>1. /\ s.write_buf_offset \in Nat /\ r.applied \in Nat
        /\ r.ok => r.applied = Len(s.write_buf)
    BY Assumptions DEF FhState, Sizes, PutResults
  <2>2. Padded(WriteAt(c, s.write_buf_offset, s.write_buf, r.applied))
    BY <2>1, WriteAtPadded
  <2>. QED BY <1>2, <2>1, <2>2 DEF FlushBuffer, View
<1>. QED BY <1>1, <1>2

\* What a handle shows after write_bytes has appended to its buffer is what it showed
\* before with the payload written on top.
LEMMA ExtendView ==
  ASSUME NEW c \in Content, NEW s \in FhState, Placed(s), NEW off \in Offsets,
         NEW n \in Nat \ {0}, NEW v \in Vals, off + n <= MaxSize, ~NeedsFlush(s, off)
  PROVE  View(c, Extend(s, off, Payload(off, n, v)))
           = WriteAt(View(c, s), off, Payload(off, n, v), n)
<1>. DEFINE p == Payload(off, n, v)
            e == Extend(s, off, p)
            b == s.write_buf
            k == Len(s.write_buf)
            start == s.write_buf_offset
            w == View(c, s)
            lhs == View(c, e)
            rhs == WriteAt(w, off, p, n)
<1>1. /\ e \in FhState /\ Placed(e) /\ Len(e.write_buf) = k + n
      /\ e.write_buf_offset = off - k /\ e.write_buf = b \o p
  BY ExtendType
<1>2. /\ off \in Nat /\ n \in Nat /\ n # 0 /\ k \in Nat /\ start \in Nat
      /\ b \in Seq(Byte) /\ Len(b) = k
  BY Assumptions DEF Offsets, FhState, Sizes
<1>3. p \in Seq(Byte) /\ Len(p) = n
  BY <1>2, PayloadType
<1>4. w \in Content
  BY ViewType
<1>5. lhs \in Content /\ rhs \in Content
  <2>1. rhs \in Content
    <3>1. n \in 0..Len(p) /\ off + Len(p) <= MaxSize
      BY <1>2, <1>3
    <3>. HIDE DEF p, w
    <3>. QED BY <1>2, <1>3, <1>4, <3>1, WriteAtType
  <2>. QED BY <1>1, <2>1, ViewType
<1>6. k # 0 => start + k = off
  BY <1>2 DEF NeedsFlush
<1>7. off - k \in Nat /\ k + n \in Nat /\ k + n # 0 /\ (off - k) + (k + n) = off + n
  <2>. HIDE DEF k, start, b
  <2>. QED BY <1>2, <1>6
<1>8. \A i \in 1 .. k + n : (b \o p)[i] = IF i <= k THEN b[i] ELSE p[i - k]
  <2>. HIDE DEF b, p, k
  <2>. QED BY <1>2, <1>3, ConcatProperties
<1>9. lhs = WriteAt(c, off - k, b \o p, k + n)
  BY <1>1 DEF View
<1>10. w = WriteAt(c, start, b, k)
  BY DEF View
<1>11. k = 0 => w = c
  BY <1>10 DEF WriteAt
<1>. HIDE DEF p, e, b, k, start, w, lhs, rhs
<1>12. /\ lhs.size = IF c.size < off + n THEN off + n ELSE c.size
       /\ \A o \in Offsets :
            lhs.data[o] = IF off - k <= o /\ o < off + n THEN (b \o p)[o - (off - k) + 1]
                          ELSE c.data[o]
  <2>. DEFINE a == off - k
              m == k + n
              z == b \o p
  <2>1. a \in Nat /\ m \in Nat /\ m # 0 /\ a + m = off + n /\ lhs = WriteAt(c, a, z, m)
    BY <1>7, <1>9
  <2>. HIDE DEF a, m, z
  <2>2. /\ lhs.size = IF c.size < a + m THEN a + m ELSE c.size
        /\ \A o \in Offsets :
             lhs.data[o] = IF a <= o /\ o < a + m THEN z[o - a + 1] ELSE c.data[o]
    BY <2>1, WriteAtFields
  <2>. QED BY <2>1, <2>2 DEF a, z
<1>13. /\ rhs.size = IF w.size < off + n THEN off + n ELSE w.size
       /\ \A o \in Offsets :
            rhs.data[o] = IF off <= o /\ o < off + n THEN p[o - off + 1] ELSE w.data[o]
  <2>1. rhs = WriteAt(w, off, p, n)
    BY DEF rhs
  <2>. QED BY <1>2, <1>4, <2>1, WriteAtFields
<1>14. k # 0 =>
         /\ w.size = IF c.size < off THEN off ELSE c.size
         /\ \A o \in Offsets :
              w.data[o] = IF start <= o /\ o < off THEN b[o - start + 1] ELSE c.data[o]
  <2>. SUFFICES ASSUME k # 0
                PROVE  /\ w.size = IF c.size < off THEN off ELSE c.size
                       /\ \A o \in Offsets :
                            w.data[o] = IF start <= o /\ o < off THEN b[o - start + 1]
                                        ELSE c.data[o]
    OBVIOUS
  <2>1. /\ w.size = IF c.size < start + k THEN start + k ELSE c.size
        /\ \A o \in Offsets :
             w.data[o] = IF start <= o /\ o < start + k THEN b[o - start + 1] ELSE c.data[o]
    BY <1>2, <1>10, WriteAtFields
  <2>2. start + k = off
    BY <1>6
  <2>. QED BY <2>1, <2>2
<1>15. lhs.size = rhs.size
  <2>1. c.size \in Nat
    BY ContentFields
  <2>. QED BY <1>2, <1>11, <1>12, <1>13, <1>14, <2>1
<1>16. ASSUME NEW o \in Offsets
       PROVE  lhs.data[o] = rhs.data[o]
  <2>0. o \in Nat
    BY DEF Offsets
  <2>1. CASE off <= o /\ o < off + n
    <3>1. o - (off - k) + 1 \in 1 .. k + n /\ ~(o - (off - k) + 1 <= k)
      BY <1>2, <2>0, <2>1
    <3>2. (o - (off - k) + 1) - k = o - off + 1
      BY <1>2, <2>0
    <3>3. off - k <= o
      BY <1>2, <2>0, <2>1
    <3>5. lhs.data[o] = (b \o p)[o - (off - k) + 1]
      BY <1>12, <2>1, <3>3
    <3>4. lhs.data[o] = p[o - off + 1]
      BY <1>8, <3>1, <3>2, <3>5
    <3>. QED BY <1>13, <2>1, <3>4
  <2>2. CASE off - k <= o /\ o < off
    <3>1. k # 0 /\ start = off - k
      BY <1>2, <1>6, <2>0, <2>2
    <3>2. o - (off - k) + 1 \in 1 .. k + n /\ o - (off - k) + 1 <= k
      BY <1>2, <2>0, <2>2
    <3>3. lhs.data[o] = b[o - start + 1]
      BY <1>2, <1>8, <1>12, <2>0, <2>2, <3>1, <3>2
    <3>4. w.data[o] = b[o - start + 1]
      BY <1>14, <2>2, <3>1
    <3>5. rhs.data[o] = w.data[o]
      BY <1>2, <1>13, <2>0, <2>2
    <3>. QED BY <3>3, <3>4, <3>5
  <2>3. CASE ~(off - k <= o /\ o < off + n)
    <3>1. lhs.data[o] = c.data[o]
      BY <1>12, <2>3
    <3>2. ~(off <= o /\ o < off + n)
      BY <1>2, <2>0, <2>3
    <3>3. rhs.data[o] = w.data[o]
      BY <1>13, <3>2
    <3>4. w.data[o] = c.data[o]
      <4>1. CASE k = 0
        BY <1>11, <4>1
      <4>2. CASE k # 0
        <5>1. ~(start <= o /\ o < off)
          BY <1>2, <1>6, <2>0, <2>3, <4>2
        <5>. QED BY <1>14, <4>2, <5>1
      <4>. QED BY <4>1, <4>2
    <3>. QED BY <3>1, <3>3, <3>4
  <2>. QED BY <1>2, <2>0, <2>1, <2>2, <2>3
<1>17. lhs = rhs
  BY <1>5, <1>15, <1>16, SameContent
<1>. QED BY <1>17 DEF lhs, rhs, w, e, p

-----------------------------------------------------------------------------
(* What a step leaves alone *)

\* What ViewInv says of one open handle.
HandleClean(h) ==
  /\ ~fh[h].writable => fh[h].write_buf = <<>> /\ ~fh[h].dirty
  /\ h \in synced => fh[h].write_buf = <<>> /\ ~fh[h].pending_errors
  /\ Visited(fh[h].file, h) => fh[h].write_buf = <<>>

LEMMA CleanParts ==
  ReadersClean /\ VisitedFlushed /\ SyncedClean <=> \A h \in open : HandleClean(h)
  BY DEF ReadersClean, VisitedFlushed, SyncedClean, HandleClean

\* The setattr loop sees handle h of file e as before.
SameVisit(e, h) ==
  /\ Visited(e, h)' <=> Visited(e, h)
  /\ Visited(e, h) => task'.size = task.size

\* A file whose contents, writers and promise do not change.
LEMMA SessionSame ==
  ASSUME NEW e \in Files, Session(e), Writers(e)' = Writers(e),
         server'[e] = server[e], want'[e] = want[e],
         \A h \in Writers(e) : fh'[h] = fh[h] /\ SameVisit(e, h)
  PROVE  Session(e)'
<1>1. ASSUME NEW h \in Writers(e)', ~fh'[h].pending_errors
      PROVE  /\ View(server'[e], fh'[h]) = want'[e]
             /\ IF Visited(e, h)' THEN fh'[h].file_size = task'.size
                ELSE Knows(fh'[h], want'[e])
  <2>1. h \in Writers(e) /\ fh'[h] = fh[h] /\ SameVisit(e, h)
    OBVIOUS
  <2>2. /\ View(server[e], fh[h]) = want[e]
        /\ IF Visited(e, h) THEN fh[h].file_size = task.size
           ELSE Knows(fh[h], want[e])
    BY <1>1, <2>1 DEF Session
  <2>. QED BY <2>1, <2>2 DEF SameVisit
<1>2. \A g, h \in Writers(e)' : g = h
  BY DEF Session
<1>3. Writers(e)' = {} => server'[e] = want'[e]
  BY DEF Session
<1>. QED BY <1>1, <1>2, <1>3 DEF Session

\* A handle that does not change.
SameHandle(h) ==
  /\ fh'[h] = fh[h]
  /\ h \in open' <=> h \in open
  /\ h \in synced' => h \in synced

\* A step that touches only file f and handles of it.
LEMMA FrameStep ==
  ASSUME ViewInv, BufferInv', NEW f \in Files, NEW c \in Content, Padded(c),
         server' = [server EXCEPT ![f] = c],
         \A h \in Handles : \/ SameHandle(h) /\ \A e \in Files \ {f} : SameVisit(e, h)
                            \/ /\ h \in open => fh[h].file = f
                               /\ h \in open' => fh'[h].file = f,
         \A h \in open' : fh'[h].file = f => HandleClean(h)',
         held' \subseteq held \cup {f},
         \A e \in held' \ {f} : want'[e] = want[e],
         f \in held' => Session(f)'
  PROVE  ViewInv'
<1>1. /\ open \subseteq Handles /\ open' \subseteq Handles
      /\ \A h \in Handles : fh[h].file \in Files
      /\ server \in [Files -> Content] /\ held \subseteq Files
  BY DEF ViewInv, BufferInv, TypeOK, FhState
<1>2. ASSUME NEW h \in open'
      PROVE  HandleClean(h)'
  <2>1. CASE fh'[h].file = f
    BY <2>1
  <2>2. CASE fh'[h].file # f
    <3>1. SameHandle(h) /\ h \in Handles /\ h \in open
      BY <1>1, <2>2 DEF SameHandle
    <3>a. PICK e \in Files : e = fh[h].file
      BY <1>1, <3>1
    <3>2. HandleClean(h) /\ e \in Files \ {f} /\ SameVisit(e, h)
      BY <1>1, <2>2, <3>1, <3>a, CleanParts DEF ViewInv, SameHandle
    <3>3. fh'[h] = fh[h] /\ (h \in synced' => h \in synced)
      BY <3>1 DEF SameHandle
    <3>4. Visited(fh[h].file, h)' <=> Visited(fh[h].file, h)
      BY <3>a, <3>2, <3>3 DEF SameVisit, Visited
    <3>. QED BY <3>2, <3>3, <3>4 DEF HandleClean
  <2>. QED BY <2>1, <2>2
<1>3. (ReadersClean /\ VisitedFlushed /\ SyncedClean)'
  BY <1>2 DEF ReadersClean, VisitedFlushed, SyncedClean, HandleClean
<1>4. Normal'
  BY <1>1 DEF Normal, ViewInv
<1>5. ASSUME NEW e \in held', e # f
      PROVE  Session(e)'
  <2>1. e \in held /\ e \in Files /\ Session(e)
    BY <1>1, <1>5 DEF ViewInv
  <2>2. \A h \in Handles : \/ SameHandle(h) /\ SameVisit(e, h)
                           \/ /\ h \in open => fh[h].file # e
                              /\ h \in open' => fh'[h].file # e
    BY <1>5, <2>1
  <2>3. Writers(e)' = Writers(e) /\ \A h \in Writers(e) : fh'[h] = fh[h] /\ SameVisit(e, h)
    BY <1>1, <2>2 DEF Writers, HandlesOf, SameHandle
  <2>4. server'[e] = server[e] /\ want'[e] = want[e]
    BY <1>1, <1>5, <2>1
  <2>. QED BY <1>5, <2>1, <2>3, <2>4, SessionSame
<1>. QED BY <1>3, <1>4, <1>5 DEF ViewInv

\* A step that changes neither contents nor handles, and the setattr loop at most for
\* handles of other files.
LEMMA QuietStep ==
  ASSUME ViewInv, BufferInv', UNCHANGED <<server, open, fh, held, want, synced>>,
         \A e \in Files, h \in open : fh[h].file = e => SameVisit(e, h)
  PROVE  ViewInv'
<1>1. open \subseteq Handles /\ \A h \in Handles : fh[h].file \in Files
  BY DEF ViewInv, BufferInv, TypeOK, FhState
<1>2. ASSUME NEW h \in open
      PROVE  HandleClean(h)'
  <2>1. PICK e \in Files : e = fh[h].file
    BY <1>1
  <2>2. HandleClean(h) /\ SameVisit(e, h)
    BY <2>1, CleanParts DEF ViewInv
  <2>3. Visited(fh[h].file, h)' <=> Visited(fh[h].file, h)
    BY <2>1, <2>2 DEF SameVisit, Visited
  <2>. QED BY <2>2, <2>3 DEF HandleClean
<1>3. (ReadersClean /\ VisitedFlushed /\ SyncedClean)'
  BY <1>2 DEF ReadersClean, VisitedFlushed, SyncedClean, HandleClean
<1>4. Normal'
  BY DEF Normal, ViewInv
<1>5. ASSUME NEW e \in held
      PROVE  Session(e)'
  <2>1. e \in Files /\ Session(e)
    BY DEF ViewInv, BufferInv, TypeOK
  <2>2. Writers(e)' = Writers(e) /\ \A h \in Writers(e) : h \in open /\ fh[h].file = e
    BY DEF Writers, HandlesOf
  <2>. QED BY <2>1, <2>2, SessionSame
<1>. QED BY <1>3, <1>4, <1>5 DEF ViewInv

\* A step on handle h of file f: the filer then has c, and the slot x.
HandleStep(h, f, c, x) ==
  /\ server' = [server EXCEPT ![f] = c]
  /\ fh' = [fh EXCEPT ![h] = x]
  /\ open' \in {open, open \cup {h}, open \ {h}}
  /\ h \in open => fh[h].file = f
  /\ h \in open' => x.file = f
  /\ synced' \subseteq synced \cup {h}
  /\ held' \subseteq held \cup {f}
  /\ \A e \in held' \ {f} : want'[e] = want[e]
  /\ task'.name = task.name /\ task'.files = task.files /\ task'.size = task.size
  /\ task'.todo \in {task.todo, task.todo \ {h}}

\* The other handles are as before.
LEMMA OthersSame ==
  ASSUME ViewInv, NEW h \in Handles, NEW f \in Files, NEW c, NEW x, HandleStep(h, f, c, x)
  PROVE  /\ \A g \in Handles \ {h} :
              SameHandle(g) /\ \A e \in Files : SameVisit(e, g)
         /\ fh'[h] = x /\ server'[f] = c
<1>1. fh \in [Handles -> FhState] /\ server \in [Files -> Content]
  BY DEF ViewInv, BufferInv, TypeOK
<1>2. \A g \in Handles \ {h} : SameHandle(g)
  BY <1>1 DEF HandleStep, SameHandle
<1>3. \A g \in Handles \ {h}, e \in Files : SameVisit(e, g)
  BY DEF HandleStep, SameVisit, Visited
<1>. QED BY <1>1, <1>2, <1>3 DEF HandleStep

LEMMA HandleStepKeeps ==
  ASSUME ViewInv, BufferInv', NEW h \in Handles, NEW f \in Files, NEW c \in Content,
         NEW x, Padded(c), HandleStep(h, f, c, x),
         h \in open' => HandleClean(h)',
         f \in held' => Session(f)'
  PROVE  ViewInv'
<1>1. \A g \in Handles \ {h} : SameHandle(g) /\ \A e \in Files : SameVisit(e, g)
  BY OthersSame
<1>2. fh'[h] = x
  BY OthersSame
<1>3. \A g \in Handles : \/ SameHandle(g) /\ \A e \in Files \ {f} : SameVisit(e, g)
                         \/ /\ g \in open => fh[g].file = f
                            /\ g \in open' => fh'[g].file = f
  BY <1>1, <1>2 DEF HandleStep
<1>4. open' \subseteq Handles /\ open \subseteq Handles
  BY DEF BufferInv, TypeOK, ViewInv
<1>5. ASSUME NEW g \in open'
      PROVE  HandleClean(g)'
  <2>1. CASE g = h
    BY <2>1
  <2>2. CASE g # h
    <3>1. g \in Handles /\ g \in open /\ HandleClean(g) /\ fh[g].file \in Files
      BY <1>1, <1>4, <2>2, CleanParts DEF ViewInv, SameHandle, BufferInv, TypeOK, FhState
    <3>2. PICK e \in Files : e = fh[g].file
      BY <3>1
    <3>3. SameHandle(g) /\ SameVisit(e, g)
      BY <1>1, <2>2, <3>1
    <3>4. Visited(fh[g].file, g)' <=> Visited(fh[g].file, g)
      BY <3>2, <3>3 DEF SameVisit, SameHandle, Visited
    <3>. QED BY <3>1, <3>3, <3>4 DEF HandleClean, SameHandle
  <2>. QED BY <2>1, <2>2
<1>6. /\ server' = [server EXCEPT ![f] = c] /\ held' \subseteq held \cup {f}
      /\ \A e \in held' \ {f} : want'[e] = want[e]
  BY DEF HandleStep
<1>. QED BY <1>3, <1>5, <1>6, FrameStep

-----------------------------------------------------------------------------
(* The file of the handle that takes the step *)

\* The only writer of a file that is held stays its only writer.
LEMMA WriterKept ==
  ASSUME ViewInv, NEW h \in open, NEW f \in held, NEW c, NEW x, HandleStep(h, f, c, x),
         h \in open', fh[h].writable, x.writable,
         ~x.pending_errors =>
           /\ View(c, x) = want'[f]
           /\ IF Visited(f, h)' THEN x.file_size = task'.size ELSE Knows(x, want'[f])
  PROVE  Session(f)'
<1>1. h \in Handles /\ f \in Files /\ open \subseteq Handles /\ Session(f)
  BY DEF ViewInv, BufferInv, TypeOK
<1>2. fh'[h] = x /\ server'[f] = c /\ \A g \in Handles \ {h} : SameHandle(g)
  BY <1>1, OthersSame
<1>3. h \in Writers(f) /\ Writers(f) = {h}
  BY <1>1 DEF HandleStep, Writers, HandlesOf, Session
<1>4. Writers(f)' = {h}
  <2>1. h \in Writers(f)'
    BY <1>2 DEF HandleStep, Writers, HandlesOf
  <2>2. ASSUME NEW g \in Writers(f)', g # h PROVE FALSE
    <3>1. g \in open'
      BY DEF Writers, HandlesOf
    <3>2. g \in Handles
      BY <1>1, <2>2, <3>1 DEF HandleStep
    <3>3. g \in open /\ fh'[g] = fh[g]
      BY <1>2, <2>2, <3>1, <3>2 DEF SameHandle
    <3>. QED BY <1>3, <2>2, <3>3 DEF Writers, HandlesOf
  <2>. QED BY <2>1, <2>2
<1>. QED BY <1>2, <1>4 DEF Session

\* A step on a handle that is no writer, before or after, which leaves the file alone.
LEMMA ReaderKept ==
  ASSUME ViewInv, NEW h \in Handles, NEW f \in held, NEW x,
         HandleStep(h, f, server[f], x), want'[f] = want[f],
         h \in open => ~fh[h].writable, h \in open' => ~x.writable
  PROVE  Session(f)'
<1>1. f \in Files /\ open \subseteq Handles /\ Session(f)
  BY DEF ViewInv, BufferInv, TypeOK
<1>2. /\ fh'[h] = x /\ server'[f] = server[f]
      /\ \A g \in Handles \ {h} : SameHandle(g) /\ \A e \in Files : SameVisit(e, g)
  BY <1>1, OthersSame
<1>3. h \notin Writers(f) /\ h \notin Writers(f)'
  BY <1>2 DEF Writers, HandlesOf
<1>4. open' \subseteq Handles
  BY <1>1 DEF HandleStep
<1>5. Writers(f)' = Writers(f)
  BY <1>1, <1>2, <1>3, <1>4 DEF Writers, HandlesOf, SameHandle
<1>6. \A g \in Writers(f) : fh'[g] = fh[g] /\ SameVisit(f, g)
  BY <1>1, <1>2, <1>3 DEF Writers, HandlesOf, SameHandle
<1>. QED BY <1>1, <1>2, <1>5, <1>6, SessionSame

\* The only writer of a file that is held goes away.
LEMMA WriterGone ==
  ASSUME ViewInv, NEW h \in open, NEW f \in held, NEW c, NEW x, HandleStep(h, f, c, x),
         h \notin open', fh[h].writable, c = want'[f]
  PROVE  Session(f)'
<1>1. h \in Handles /\ f \in Files /\ open \subseteq Handles /\ Session(f)
  BY DEF ViewInv, BufferInv, TypeOK
<1>2. server'[f] = c /\ \A g \in Handles \ {h} : SameHandle(g)
  BY <1>1, OthersSame
<1>3. Writers(f) = {h}
  BY <1>1 DEF HandleStep, Writers, HandlesOf, Session
<1>4. Writers(f)' = {}
  <2>. SUFFICES ASSUME NEW g \in Writers(f)' PROVE FALSE
    OBVIOUS
  <2>1. g \in open' /\ g # h
    BY DEF Writers, HandlesOf
  <2>2. g \in Handles
    BY <1>1, <2>1 DEF HandleStep
  <2>3. g \in open /\ fh'[g] = fh[g]
    BY <1>2, <2>1, <2>2 DEF SameHandle
  <2>. QED BY <1>3, <2>1, <2>3 DEF Writers, HandlesOf
<1>. QED BY <1>2, <1>4 DEF Session

\* A file that has no writer gets a new handle, which may be one.
LEMMA FirstHandle ==
  ASSUME ViewInv, NEW h \in Handles \ open, NEW f \in Files, NEW c, NEW x,
         HandleStep(h, f, c, x), Writers(f) = {}, h \in open', c = want'[f],
         x.write_buf = <<>>, Knows(x, c), task'.name # "setattr"
  PROVE  Session(f)'
<1>1. open \subseteq Handles
  BY DEF ViewInv, BufferInv, TypeOK
<1>2. fh'[h] = x /\ server'[f] = c /\ \A g \in Handles \ {h} : SameHandle(g)
  BY OthersSame
<1>3. Writers(f)' \subseteq {h}
  <2>. SUFFICES ASSUME NEW g \in Writers(f)', g # h PROVE FALSE
    OBVIOUS
  <2>1. g \in open'
    BY DEF Writers, HandlesOf
  <2>2. g \in Handles
    BY <1>1, <2>1 DEF HandleStep
  <2>3. g \in open /\ fh'[g] = fh[g]
    BY <1>2, <2>1, <2>2 DEF SameHandle
  <2>. QED BY <2>1, <2>3 DEF Writers, HandlesOf
<1>4. View(c, x) = want'[f]
  BY EmptyView
<1>5. ~Visited(f, h)'
  BY DEF Visited
<1>. QED BY <1>2, <1>3, <1>4, <1>5 DEF Session

-----------------------------------------------------------------------------
(* The steps *)

\* Facts about one handle in a state of the invariant.
LEMMA HandleFacts ==
  ASSUME ViewInv, NEW h \in open
  PROVE  /\ h \in Handles /\ fh[h] \in FhState /\ Placed(fh[h]) /\ HandleClean(h)
         /\ fh[h].file \in Files /\ server[fh[h].file] \in Content
         /\ Padded(server[fh[h].file])
         /\ fh[h].write_buf \in Seq(Byte) /\ fh[h].write_buf_offset \in Nat
  BY HandlesOK, CleanParts, Assumptions
     DEF ViewInv, BufferInv, TypeOK, FhState, HandleOK, Normal, Sizes

\* What is promised of the files that stay held.
LEMMA HoldKeeps ==
  ASSUME TypeOK, NEW fs \in SUBSET Files, NEW w, Hold(fs, w)
  PROVE  held' = fs /\ \A e \in fs : want'[e] = w[e]
  BY DEF Hold

\* The new handle h of f, and what the filer then has of f.
OpenedAs(h, f, wr, trunc, size, intact, c) ==
  /\ h \in Handles \ open /\ f \in Files /\ c \in Content /\ Padded(c)
  /\ wr \in BOOLEAN /\ trunc \in BOOLEAN /\ intact \in BOOLEAN
  /\ server' = [server EXCEPT ![f] = c]
  /\ Opened(h, f, wr, trunc, size, intact)
  /\ size = c.size \/ (size = None /\ c.size = 0)
  /\ intact /\ Writers(f) = {} =>
       c = IF trunc THEN Empty ELSE IF f \in held THEN want[f] ELSE server[f]
  /\ intact /\ ~trunc /\ f \in held => c = server[f]

\* Whether the mount is held to f from then on, and to what.
KeptAs(f, wr, trunc, intact) ==
  intact /\ (Writers(f) = {} \/ (f \in held /\ ~wr /\ ~trunc))
HeldTo(f, trunc) == IF trunc THEN Empty ELSE IF f \in held THEN want[f] ELSE server[f]

LEMMA OpenedHandle ==
  ASSUME ViewInv, NEW h, NEW f, NEW wr, NEW trunc, NEW size, NEW intact,
         NEW c, OpenedAs(h, f, wr, trunc, size, intact, c)
  PROVE  /\ HandleStep(h, f, c, NewFh(f, wr, size))
         /\ open' = open \cup {h} /\ synced' = synced \ {h}
         /\ UNCHANGED <<mode, task, exit>>
         /\ held' = IF KeptAs(f, wr, trunc, intact) THEN held \cup {f} ELSE held \ {f}
         /\ f \in held' => want'[f] = HeldTo(f, trunc)
<1>. USE DEF OpenedAs
<1>. DEFINE x == NewFh(f, wr, size)
            keep == KeptAs(f, wr, trunc, intact)
            fs == IF keep THEN held \cup {f} ELSE held \ {f}
            now == HeldTo(f, trunc)
            w == [want EXCEPT ![f] = now]
<1>0. TypeOK /\ held \subseteq Files /\ want \in [Files -> Content]
  BY DEF ViewInv, BufferInv, TypeOK
<1>1. /\ open' = open \cup {h} /\ fh' = [fh EXCEPT ![h] = x] /\ synced' = synced \ {h}
      /\ UNCHANGED <<mode, task, exit>>
  BY DEF Opened
<1>2. Hold(fs, w)
  BY Zenon DEF Opened, KeptAs, HeldTo
<1>3. fs \in SUBSET Files
  BY <1>0
<1>. HIDE DEF keep, now, w
<1>4. held' = fs /\ \A e \in fs : want'[e] = w[e]
  BY <1>0, <1>2, <1>3, HoldKeeps
<1>5. \A e \in Files : w[e] = IF e = f THEN now ELSE want[e]
  BY <1>0 DEF w
<1>6. x.file = f
  BY DEF NewFh
<1>7. /\ held' \subseteq held \cup {f} /\ \A e \in held' \ {f} : want'[e] = want[e]
      /\ f \in held' => want'[f] = now
  BY <1>3, <1>4, <1>5
<1>. HIDE DEF x
<1>8. HandleStep(h, f, c, x)
  BY <1>1, <1>6, <1>7 DEF HandleStep
<1>. QED BY <1>1, <1>4, <1>7, <1>8 DEF x, now, keep

LEMMA OpenedView ==
  ASSUME ViewInv, BufferInv', Ready, NEW h, NEW f, NEW wr, NEW trunc, NEW size, NEW intact,
         NEW c, OpenedAs(h, f, wr, trunc, size, intact, c)
  PROVE  ViewInv'
<1>. USE DEF OpenedAs
<1>. DEFINE x == NewFh(f, wr, size)
<1>1. /\ HandleStep(h, f, c, x)
      /\ open' = open \cup {h} /\ synced' = synced \ {h}
      /\ UNCHANGED <<mode, task, exit>>
      /\ f \in held' => KeptAs(f, wr, trunc, intact) /\ want'[f] = HeldTo(f, trunc)
  BY OpenedHandle
<1>2. /\ x.file = f /\ x.writable = wr /\ x.file_size = size /\ x.write_buf = <<>>
      /\ ~x.dirty
  BY DEF NewFh
<1>. HIDE DEF x
<1>3. HandleClean(h)'
  <2>1. fh'[h] = x /\ h \notin synced'
    BY <1>1, OthersSame
  <2>. QED BY <1>2, <2>1 DEF HandleClean
<1>4. ASSUME f \in held' PROVE Session(f)'
  <2>1. KeptAs(f, wr, trunc, intact) /\ want'[f] = HeldTo(f, trunc)
    BY <1>1, <1>4
  <2>2. CASE Writers(f) = {}
    <3>1. c = want'[f]
      BY <2>1, <2>2 DEF HeldTo, KeptAs
    <3>2. Knows(x, c) /\ task'.name # "setattr" /\ h \in open'
      BY <1>1, <1>2 DEF Knows, Ready, Idle
    <3>. QED BY <1>1, <1>2, <2>2, <3>1, <3>2, FirstHandle
  <2>3. CASE Writers(f) # {}
    <3>1. f \in held /\ ~wr /\ c = server[f] /\ want'[f] = want[f]
      BY <2>1, <2>3 DEF HeldTo, KeptAs
    <3>. QED BY <1>1, <1>2, <3>1, ReaderKept
  <2>. QED BY <2>2, <2>3
<1>. QED BY <1>1, <1>3, <1>4, HandleStepKeeps

LEMMA OpenAs ==
  ASSUME ViewInv, NEW h \in Handles, NEW f \in Files, NEW wr \in BOOLEAN,
         NEW trunc \in BOOLEAN, Open(h, f, wr, trunc)
  PROVE  Ready /\ \E size, c : OpenedAs(h, f, wr, trunc, size, TRUE, c)
<1>. DEFINE c == IF trunc THEN Empty ELSE server[f]
<1>0. server \in [Files -> Content] /\ Normal
  BY DEF ViewInv, BufferInv, TypeOK
<1>1. c \in Content /\ Padded(c)
  BY <1>0, EmptyType, EmptyPadded DEF Normal
<1>2. server' = [server EXCEPT ![f] = c]
  BY <1>0 DEF Open
<1>3. server'[f] = c
  BY <1>0, <1>2
<1>4. Ready /\ h \notin open /\ Opened(h, f, wr, trunc, c.size, TRUE)
  <2>1. Ready /\ h \notin open /\ Opened(h, f, wr, trunc, server'[f].size, TRUE)
    BY Zenon DEF Open
  <2>. HIDE DEF c
  <2>. QED BY <1>3, <2>1
<1>5. Writers(f) = {} /\ f \in held => server[f] = want[f]
  BY DEF ViewInv, Session
<1>6. /\ Writers(f) = {} => c = IF trunc THEN Empty ELSE IF f \in held THEN want[f]
                                ELSE server[f]
      /\ ~trunc => c = server[f]
  BY <1>5
<1>. HIDE DEF c
<1>7. OpenedAs(h, f, wr, trunc, c.size, TRUE, c)
  BY <1>1, <1>2, <1>4, <1>6 DEF OpenedAs
<1>. QED BY <1>4, <1>7, Zenon

LEMMA CreateAs ==
  ASSUME ViewInv, NEW h \in Handles, NEW f \in Files, NEW wr \in BOOLEAN,
         NEW trunc \in BOOLEAN, NEW metaOk \in BOOLEAN, Create(h, f, wr, trunc, metaOk)
  PROVE  Ready /\ \E new, size, intact, c : OpenedAs(h, f, wr, new, size, intact, c)
<1>. DEFINE put == trunc \/ ~metaOk
            gone == f \in present /\ ~metaOk /\ ~trunc
            new == trunc \/ f \notin present
            c == IF put THEN Empty ELSE server[f]
            size == IF metaOk THEN c.size ELSE None
            intact == gone => server[f] = Empty
<1>0. server \in [Files -> Content] /\ Normal
  BY DEF ViewInv, BufferInv, TypeOK
<1>1. c \in Content /\ Padded(c)
  BY <1>0, EmptyType, EmptyPadded DEF Normal
<1>2. server' = [server EXCEPT ![f] = c]
  BY <1>0 DEF Create
<1>3. server'[f] = c
  BY <1>0, <1>2
<1>4. /\ Ready /\ h \notin open /\ (metaOk => f \in present)
      /\ Opened(h, f, wr, new, IF metaOk THEN server'[f].size ELSE None, intact)
  BY Zenon DEF Create
<1>5. Opened(h, f, wr, new, size, intact)
  <2>. HIDE DEF c, new, intact
  <2>. QED BY <1>3, <1>4
<1>6. Writers(f) = {} /\ f \in held => server[f] = want[f]
  BY DEF ViewInv, Session
<1>7. /\ intact /\ Writers(f) = {} =>
           c = IF new THEN Empty ELSE IF f \in held THEN want[f] ELSE server[f]
      /\ intact /\ ~new => c = server[f]
  BY <1>4, <1>6
<1>8. size = c.size \/ (size = None /\ c.size = 0)
  BY <1>1, ContentFields DEF Empty
<1>9. new \in BOOLEAN /\ intact \in BOOLEAN
  OBVIOUS
<1>10. Ready /\ h \in Handles \ open
  BY <1>4
<1>. HIDE DEF put, gone, c, size, new, intact
<1>12. OpenedAs(h, f, wr, new, size, intact, c)
  BY <1>1, <1>2, <1>5, <1>7, <1>8, <1>9, <1>10, Zenon DEF OpenedAs
<1>. QED BY <1>10, <1>12, Zenon

\* Either way a handle is opened.
LEMMA SomeOpened ==
  ASSUME ViewInv, OpenOrCreate
  PROVE  Ready /\ \E h, f, wr, trunc, size, intact, c :
                    OpenedAs(h, f, wr, trunc, size, intact, c)
<1>1. PICK h \in Handles, f \in Files, wr \in BOOLEAN, trunc \in BOOLEAN :
        \/ Open(h, f, wr, trunc)
        \/ \E metaOk \in BOOLEAN : Create(h, f, wr, trunc, metaOk)
  BY Zenon DEF OpenOrCreate
<1>2. CASE Open(h, f, wr, trunc)
  <2>1. Ready /\ \E size, c : OpenedAs(h, f, wr, trunc, size, TRUE, c)
    BY <1>2, OpenAs
  <2>. QED BY <2>1, Zenon
<1>3. ASSUME NEW metaOk \in BOOLEAN, Create(h, f, wr, trunc, metaOk)
      PROVE  Ready /\ \E new, size, intact, c : OpenedAs(h, f, wr, new, size, intact, c)
  BY <1>3, CreateAs
<1>. QED BY <1>1, <1>2, <1>3, Zenon

LEMMA OpenView ==
  ASSUME ViewInv, BufferInv', OpenOrCreate
  PROVE  ViewInv'
<1>1. Ready
  BY SomeOpened
<1>2. PICK h, f, wr, trunc, size, intact, c : OpenedAs(h, f, wr, trunc, size, intact, c)
  BY SomeOpened
<1>. QED BY <1>1, <1>2, OpenedView

\* What the flushes of a handle preserve: unless an error is pending, what the handle
\* shows, and where its buffer ends.
FlushedFrom(res, c, s) ==
  /\ Padded(res.content)
  /\ res.state.file_size = s.file_size /\ res.state.writable = s.writable
  /\ ~res.ok => res.state.pending_errors
  /\ res.ok /\ ~s.pending_errors => ~res.state.pending_errors
  /\ ~res.state.pending_errors => ~s.pending_errors /\ View(res.content, res.state) = View(c, s)
  /\ res.ok => res.state.write_buf_offset + Len(res.state.write_buf)
                 = s.write_buf_offset + Len(s.write_buf)

LEMMA FlushShows ==
  ASSUME NEW c \in Content, Padded(c), NEW s \in FhState, Placed(s),
         NEW r \in PutResults(Len(s.write_buf)), NEW off
  PROVE  /\ FlushedFrom(FlushBuffer(c, s, r), c, s)
         /\ FlushedFrom(FlushFirst(c, s, off, r), c, s)
         /\ FlushedFrom(FlushFull(c, s, r), c, s)
<1>. DEFINE res == FlushBuffer(c, s, r)
<1>1. FlushedFrom(res, c, s)
  <2>1. /\ res.state.write_buf = <<>>
        /\ res.state.writable = s.writable /\ res.state.file_size = s.file_size
        /\ s.pending_errors => res.state.pending_errors
        /\ ~res.ok => res.state.pending_errors
        /\ res.ok => res.state.write_buf_offset = s.write_buf_offset + Len(s.write_buf)
    BY FlushBufferType
  <2>2. Padded(res.content) /\ (res.ok => res.content = View(c, s))
    BY FlushView
  <2>6. res.ok /\ ~s.pending_errors => ~res.state.pending_errors
    BY DEF FlushBuffer
  <2>. HIDE DEF res
  <2>3. View(res.content, res.state) = res.content
    BY <2>1, EmptyView
  <2>4. s.write_buf_offset + Len(s.write_buf) \in Int
    BY Assumptions DEF FhState, Sizes
  <2>5. res.ok => res.state.write_buf_offset + Len(res.state.write_buf)
                   = s.write_buf_offset + Len(s.write_buf)
    BY <2>1, <2>4
  <2>. QED BY <2>1, <2>2, <2>3, <2>5, <2>6 DEF FlushedFrom
<1>2. FlushedFrom([content |-> c, state |-> s, ok |-> TRUE], c, s)
  BY DEF FlushedFrom
<1>. HIDE DEF res
<1>3. FlushFirst(c, s, off, r) \in {res, [content |-> c, state |-> s, ok |-> TRUE]}
  BY DEF FlushFirst, res
<1>4. FlushFull(c, s, r) \in {res, [content |-> c, state |-> s, ok |-> TRUE]}
  BY DEF FlushFull, res
<1>. QED BY <1>1, <1>2, <1>3, <1>4, Zenon DEF res

\* The handle s over the content c shows w and knows its size.
Tracks(s, c, w) == ~s.pending_errors => View(c, s) = w /\ Knows(s, w)

LEMMA FinalizePadded ==
  ASSUME NEW c \in Content, Padded(c), NEW s \in FhState, Placed(s),
         NEW r \in PutResults(Len(s.write_buf)), NEW q \in CallResults
  PROVE  Padded(Finalize(c, s, r, q).content)
<1>. DEFINE flushed == FlushBuffer(c, s, r)
            t == flushed.state
<1>1. Padded(flushed.content) /\ flushed.content \in Content /\ t \in FhState
  BY FlushView, FlushBufferType
<1>. HIDE DEF flushed
<1>2. t.file_size # None => Padded(SetLen(flushed.content, t.file_size))
  BY <1>1, SetLenPadded DEF FhState
<1>3. Finalize(c, s, r, q).content
        \in {flushed.content} \cup
            {d \in {SetLen(flushed.content, t.file_size)} : t.file_size # None}
  BY DEF Finalize, flushed
<1>. QED BY <1>1, <1>2, <1>3

\* Finalizing a handle that shows w stores w, unless an error is pending.
LEMMA FinalizeStores ==
  ASSUME NEW c \in Content, Padded(c), NEW s \in FhState, Placed(s),
         NEW r \in PutResults(Len(s.write_buf)), NEW q \in CallResults,
         NEW w, Tracks(s, c, w)
  PROVE  LET res == Finalize(c, s, r, q)
         IN /\ res.ok => ~res.state.pending_errors
            /\ ~res.state.pending_errors =>
                 /\ res.content = w /\ View(res.content, res.state) = w
                 /\ Knows(res.state, w)
<1>. DEFINE flushed == FlushBuffer(c, s, r)
            t == flushed.state
            res == Finalize(c, s, r, q)
<1>1. /\ flushed.content \in Content /\ t.write_buf = <<>>
      /\ t.file_size = s.file_size
      /\ s.pending_errors => t.pending_errors
      /\ ~flushed.ok => t.pending_errors
  BY FlushBufferType
<1>2. Padded(flushed.content) /\ (flushed.ok => flushed.content = View(c, s))
  BY FlushView
<1>3. /\ res.state = t
      /\ res.ok => ~t.pending_errors
      /\ \/ res.content = flushed.content
         \/ res.content = SetLen(flushed.content, t.file_size) /\ t.file_size # None
  BY DEF Finalize
<1>. HIDE DEF res, flushed
<1>4. ASSUME ~t.pending_errors
      PROVE  res.content = w /\ View(res.content, t) = w /\ Knows(t, w)
  <2>1. flushed.content = w /\ Knows(s, w)
    BY <1>1, <1>2, <1>4 DEF Tracks
  <2>2. Knows(t, w)
    BY <1>1, <2>1 DEF Knows
  <2>3. t.file_size # None => SetLen(flushed.content, t.file_size) = w
    BY <1>1, <1>2, <2>1, <2>2, SetLenSame DEF Knows
  <2>4. res.content = w
    BY <1>3, <2>1, <2>3
  <2>. QED BY <1>1, <2>2, <2>4, EmptyView
<1>. QED BY <1>3, <1>4 DEF res

\* Finalizing a handle that buffers nothing and has no size to set does nothing.
LEMMA FinalizeClean ==
  ASSUME NEW c, NEW s, NEW r, NEW q, s.write_buf = <<>>
  PROVE  /\ Finalize(c, s, r, q).state = s
         /\ ~s.dirty => Finalize(c, s, r, q).content = c
  BY DEF Finalize, FlushBuffer

\* write_bytes knows the size it has made.
LEMMA GrowKnows ==
  ASSUME NEW s \in FhState, NEW w \in Content, Knows(s, w), NEW off \in Nat,
         NEW n \in Nat \ {0}, NEW b,
         s.write_buf_offset + Len(s.write_buf) = off + n
  PROVE  /\ Knows(Grow(s), WriteAt(w, off, b, n))
         /\ Grow(s).write_buf = s.write_buf /\ Grow(s).write_buf_offset = s.write_buf_offset
         /\ Grow(s).file = s.file /\ Grow(s).writable = s.writable
         /\ Grow(s).pending_errors = s.pending_errors
<1>1. /\ Grow(s).write_buf = s.write_buf /\ Grow(s).write_buf_offset = s.write_buf_offset
      /\ Grow(s).file = s.file /\ Grow(s).writable = s.writable
      /\ Grow(s).pending_errors = s.pending_errors
      /\ Grow(s).file_size = IF off + n > s.file_size THEN off + n ELSE s.file_size
  BY DEF Grow, FhState
<1>2. WriteAt(w, off, b, n).size = IF w.size < off + n THEN off + n ELSE w.size
  BY DEF WriteAt
<1>3. w.size \in Nat
  BY ContentFields
<1>. DEFINE g == Grow(s)
            d == WriteAt(w, off, b, n)
<1>. HIDE DEF g, d
<1>4. Knows(g, d)
  <2>1. CASE s.file_size = w.size
    <3>1. g.file_size = d.size
      BY <1>1, <1>2, <1>3, <2>1 DEF g, d
    <3>. QED BY <3>1 DEF Knows
  <2>2. CASE s.file_size = None /\ w.size = 0
    <3>1. g.file_size = d.size
      BY <1>1, <1>2, <1>3, <2>2 DEF g, d, None
    <3>. QED BY <3>1 DEF Knows
  <2>. QED BY <2>1, <2>2 DEF Knows
<1>. QED BY <1>1, <1>4 DEF g, d

\* The end of write_bytes, given what the flushes before it left.
WroteAs(h, c, s, ok, off, n, v) ==
  /\ c \in Content /\ Padded(c)
  /\ s \in FhState /\ s.file = fh[h].file /\ s.writable
  /\ ok \in BOOLEAN /\ off \in Nat /\ n \in Nat \ {0} /\ v \in Vals
  /\ Wrote(h, c, s, ok, off, n, v)
  /\ ok => s.write_buf_offset + Len(s.write_buf) = off + n
  /\ ~ok => s.pending_errors
  /\ ok /\ ~fh[h].pending_errors => ~s.pending_errors
  /\ ~s.pending_errors => ~fh[h].pending_errors
  /\ fh[h].file \in held /\ ~s.pending_errors =>
       /\ Knows(s, want[fh[h].file])
       /\ View(c, s) = WriteAt(want[fh[h].file], off, Payload(off, n, v), n)

LEMMA WroteHandle ==
  ASSUME ViewInv, NEW h \in open, NEW c, NEW s, NEW ok, NEW off, NEW n, NEW v,
         WroteAs(h, c, s, ok, off, n, v),
         synced' = synced \ {h}, UNCHANGED <<open, task>>
  PROVE  LET f == fh[h].file
             x == IF ok THEN Grow(s) ELSE s
             w == WriteAt(want[f], off, Payload(off, n, v), n)
         IN /\ HandleStep(h, f, c, x)
            /\ x.file = f /\ x.writable /\ x.pending_errors = s.pending_errors
            /\ x.write_buf = s.write_buf /\ x.write_buf_offset = s.write_buf_offset
            /\ held' = held /\ (f \in held => want'[f] = IF ok THEN w ELSE want[f])
            /\ ok /\ f \in held /\ ~s.pending_errors => Knows(x, w)
<1>. USE DEF WroteAs
<1>. PICK f \in Files : f = fh[h].file
  BY HandleFacts
<1>. DEFINE x == IF ok THEN Grow(s) ELSE s
            p == Payload(off, n, v)
            w == WriteAt(want[f], off, p, n)
<1>0. want \in [Files -> Content] /\ held \subseteq Files /\ TypeOK
  BY DEF ViewInv, BufferInv, TypeOK
<1>1. server' = [server EXCEPT ![f] = c] /\ fh' = [fh EXCEPT ![h] = x]
  BY DEF Wrote
<1>2. /\ held' = held /\ (f \in held => want'[f] = IF ok THEN w ELSE want[f])
      /\ \A e \in held \ {f} : want'[e] = want[e]
  <2>. DEFINE d == IF ok THEN [want EXCEPT ![f] = w] ELSE want
  <2>1. Hold(held, d)
    BY DEF Wrote
  <2>. HIDE DEF w
  <2>2. /\ d[f] = IF ok THEN w ELSE want[f]
        /\ \A e \in held \ {f} : d[e] = want[e]
    BY <1>0
  <2>. HIDE DEF d
  <2>3. held' = held /\ \A e \in held : want'[e] = d[e]
    BY <1>0, <2>1, HoldKeeps
  <2>. QED BY <2>2, <2>3
<1>. HIDE DEF p
<1>3. /\ x.file = f /\ x.writable /\ x.pending_errors = s.pending_errors
      /\ x.write_buf = s.write_buf /\ x.write_buf_offset = s.write_buf_offset
  BY DEF Grow, FhState
<1>4. ok /\ f \in held /\ ~s.pending_errors => Knows(x, w)
  BY <1>0, GrowKnows
<1>. HIDE DEF x, w
<1>5. HandleStep(h, f, c, x)
  BY <1>1, <1>2, <1>3 DEF HandleStep
<1>. QED BY <1>2, <1>3, <1>4, <1>5 DEF x, w, p

LEMMA WroteView ==
  ASSUME ViewInv, BufferInv', NEW h \in open, fh[h].writable, NEW c, NEW s, NEW ok,
         NEW off, NEW n, NEW v, WroteAs(h, c, s, ok, off, n, v),
         Ready, synced' = synced \ {h}, UNCHANGED <<open, task>>
  PROVE  ViewInv'
<1>. PICK f \in Files : f = fh[h].file
  BY HandleFacts
<1>. DEFINE x == IF ok THEN Grow(s) ELSE s
            w == WriteAt(want[f], off, Payload(off, n, v), n)
<1>0. h \in Handles
  BY DEF ViewInv, BufferInv, TypeOK
<1>1. /\ HandleStep(h, f, c, x)
      /\ x.file = f /\ x.writable /\ x.pending_errors = s.pending_errors
      /\ x.write_buf = s.write_buf /\ x.write_buf_offset = s.write_buf_offset
      /\ held' = held /\ (f \in held => want'[f] = IF ok THEN w ELSE want[f])
      /\ ok /\ f \in held /\ ~s.pending_errors => Knows(x, w)
  BY WroteHandle
<1>2. /\ c \in Content /\ Padded(c) /\ (~ok => s.pending_errors)
      /\ f \in held /\ ~s.pending_errors => View(c, s) = w
  BY DEF WroteAs
<1>. HIDE DEF x, w
<1>3. ~Visited(f, h)'
  BY DEF Visited, Ready, Idle
<1>4. HandleClean(h)'
  <2>1. fh'[h] = x
    BY <1>0, <1>1, OthersSame
  <2>. QED BY <1>1, <1>3, <2>1 DEF HandleClean, Visited, Ready, Idle
<1>5. ASSUME f \in held' PROVE Session(f)'
  <2>1. ASSUME ~x.pending_errors
        PROVE  View(c, x) = want'[f] /\ Knows(x, want'[f])
    <3>1. ok /\ f \in held /\ ~s.pending_errors
      BY <1>1, <1>2, <1>5, <2>1
    <3>2. View(c, s) = w /\ want'[f] = w /\ Knows(x, w)
      BY <1>1, <1>2, <3>1
    <3>3. View(c, x) = View(c, s)
      BY <1>1 DEF View
    <3>. QED BY <3>2, <3>3
  <2>. QED BY <1>1, <1>3, <1>5, <2>1, WriterKept
<1>. QED BY <1>0, <1>1, <1>2, <1>4, <1>5, HandleStepKeeps

\* What ViewInv promises of a writer of a file that is held.
LEMMA WriterTracks ==
  ASSUME ViewInv, NEW h \in open, fh[h].writable, fh[h].file \in held, task.name # "setattr"
  PROVE  Tracks(fh[h], server[fh[h].file], want[fh[h].file])
<1>. PICK f \in held : f = fh[h].file
  OBVIOUS
<1>1. h \in Writers(f) /\ Session(f) /\ ~Visited(f, h)
  BY DEF Writers, HandlesOf, ViewInv, Visited
<1>. QED BY <1>1 DEF Session, Tracks

LEMMA WriteLeaves ==
  ASSUME ViewInv, NEW h \in open, NEW off \in Offsets, NEW n \in 1..WriteBufCap,
         NEW v \in Vals, Write(h, off, n, v)
  PROVE  \E c, s, ok : WroteAs(h, c, s, ok, off, n, v)
<1>. DEFINE s == fh[h]
            p == Payload(off, n, v)
<1>1. PICK r1 \in PutResults(Len(s.write_buf)) :
        LET first  == FlushFirst(server[s.file], s, off, r1)
            filled == Extend(first.state, off, p)
        IN \/ ~first.ok /\ Wrote(h, first.content, first.state, FALSE, off, n, v)
           \/ /\ first.ok
              /\ \E r2 \in PutResults(Len(filled.write_buf)) :
                   LET second == FlushFull(first.content, filled, r2)
                   IN Wrote(h, second.content, second.state, second.ok, off, n, v)
  BY DEF Write
<1>. DEFINE first  == FlushFirst(server[s.file], s, off, r1)
            filled == Extend(first.state, off, p)
<1>2. /\ Ready /\ synced' = synced \ {h} /\ UNCHANGED <<present, open, mode, task, exit>>
      /\ off + n <= MaxSize /\ s.writable
  BY DEF Write
<1>n. n \in Nat \ {0} /\ off \in Nat
  BY Assumptions DEF Offsets
<1>a. \A k \in Nat : (off - k) + (k + n) = off + n
  BY <1>n
<1>3. /\ s \in FhState /\ HandleOK(s) /\ Placed(s) /\ s.file \in Files
      /\ server[s.file] \in Content /\ InPlace(server[s.file]) /\ Padded(server[s.file])
  BY HandlesOK DEF ViewInv, BufferInv, TypeOK, BytesInPlace, InPlace, FhState, HandleOK,
                   Normal
<1>4. /\ first.content \in Content /\ InPlace(first.content)
      /\ first.state \in FhState /\ Placed(first.state)
      /\ first.state.file = s.file
      /\ ~NeedsFlush(first.state, off)
  BY <1>3, FlushFirstOK
<1>5. FlushedFrom(first, server[s.file], s)
  BY <1>3, FlushShows
<1>6. s.file \in held => Tracks(s, server[s.file], want[s.file])
  BY <1>2, WriterTracks DEF Ready, Idle
<1>7. CASE ~first.ok /\ Wrote(h, first.content, first.state, FALSE, off, n, v)
  <2>. HIDE DEF first
  <2>1. Padded(first.content) /\ first.state.writable /\ first.state.pending_errors
    BY <1>2, <1>5, <1>7 DEF FlushedFrom
  <2>2. first.content \in Content /\ first.state \in FhState /\ first.state.file = s.file
    BY <1>4
  <2>3. WroteAs(h, first.content, first.state, FALSE, off, n, v)
    BY <1>n, <1>7, <2>1, <2>2, Zenon DEF WroteAs
  <2>. QED BY <2>3, Zenon
<1>8. ASSUME NEW r2 \in PutResults(Len(filled.write_buf)), first.ok,
             LET second == FlushFull(first.content, filled, r2)
             IN Wrote(h, second.content, second.state, second.ok, off, n, v)
      PROVE  \E c, u, ok : WroteAs(h, c, u, ok, off, n, v)
  <2>. DEFINE second == FlushFull(first.content, filled, r2)
              t == second.state
              a == first.state
  <2>. HIDE DEF first
  <2>1. /\ filled \in FhState /\ Placed(filled) /\ filled.file = s.file /\ filled.dirty
        /\ filled.writable = first.state.writable
        /\ filled.file_size = first.state.file_size
        /\ filled.pending_errors = first.state.pending_errors
        /\ filled.write_buf_offset = off - Len(first.state.write_buf)
        /\ Len(filled.write_buf) = Len(first.state.write_buf) + n
    <3>1. a \in FhState /\ Placed(a) /\ ~NeedsFlush(a, off) /\ a.file = s.file
      BY <1>4
    <3>2. filled = Extend(a, off, Payload(off, n, v))
      OBVIOUS
    <3>. HIDE DEF a, filled
    <3>3. /\ filled \in FhState /\ Placed(filled) /\ filled.file = a.file /\ filled.dirty
          /\ filled.writable = a.writable /\ filled.file_size = a.file_size
          /\ filled.pending_errors = a.pending_errors
          /\ filled.write_buf_offset = off - Len(a.write_buf)
          /\ Len(filled.write_buf) = Len(a.write_buf) + n
      BY <1>2, <1>n, <3>1, <3>2, ExtendType
    <3>. QED BY <3>1, <3>3 DEF a
  <2>2. View(first.content, filled) = WriteAt(View(first.content, first.state), off, p, n)
    BY <1>2, <1>n, <1>4, ExtendView
  <2>. HIDE DEF filled
  <2>3. Padded(first.content)
    BY <1>5 DEF FlushedFrom
  <2>4. FlushedFrom(second, first.content, filled)
    BY <1>4, <2>1, <2>3, FlushShows
  <2>5. second.content \in Content /\ t \in FhState /\ t.file = s.file /\ second.ok \in BOOLEAN
    BY <1>4, <2>1, FlushFullOK
  <2>6. Wrote(h, second.content, t, second.ok, off, n, v)
    BY <1>8
  <2>. HIDE DEF second, p
  <2>7. /\ Padded(second.content) /\ t.writable
        /\ ~second.ok => t.pending_errors
        /\ t.file_size = s.file_size
    BY <1>2, <1>5, <2>1, <2>4 DEF FlushedFrom
  <2>8. second.ok => t.write_buf_offset + Len(t.write_buf) = off + n
    <3>1. Len(first.state.write_buf) \in Nat
      BY <1>4 DEF FhState
    <3>2. filled.write_buf_offset + Len(filled.write_buf)
            = (off - Len(first.state.write_buf)) + (Len(first.state.write_buf) + n)
      BY <2>1, Zenon
    <3>3. filled.write_buf_offset + Len(filled.write_buf) = off + n
      BY <1>a, <3>1, <3>2, Zenon
    <3>. QED BY <2>4, <3>3 DEF FlushedFrom
  <2>9. ASSUME s.file \in held, ~t.pending_errors
        PROVE  /\ Knows(t, want[s.file])
               /\ View(second.content, t) = WriteAt(want[s.file], off, p, n)
    <3>1. ~filled.pending_errors /\ View(second.content, t) = View(first.content, filled)
      BY <2>4, <2>9 DEF FlushedFrom
    <3>2. ~s.pending_errors /\ View(first.content, first.state) = View(server[s.file], s)
      BY <1>5, <2>1, <3>1 DEF FlushedFrom
    <3>3. View(server[s.file], s) = want[s.file] /\ Knows(s, want[s.file])
      BY <1>6, <2>9, <3>2 DEF Tracks
    <3>. QED BY <2>2, <2>7, <3>1, <3>2, <3>3 DEF Knows
  <2>10. /\ second.ok /\ ~s.pending_errors => ~t.pending_errors
         /\ ~t.pending_errors => ~s.pending_errors
    BY <1>5, <1>8, <2>1, <2>4 DEF FlushedFrom
  <2>. HIDE DEF t
  <2>11. WroteAs(h, second.content, t, second.ok, off, n, v)
    BY <1>n, <2>5, <2>6, <2>7, <2>8, <2>9, <2>10 DEF p, WroteAs
  <2>. QED BY <2>11, Zenon
<1>. QED BY <1>1, <1>7, <1>8

LEMMA WriteView ==
  ASSUME ViewInv, BufferInv', NEW h \in open, NEW off \in Offsets, NEW n \in 1..WriteBufCap,
         NEW v \in Vals, Write(h, off, n, v)
  PROVE  ViewInv'
<1>1. /\ Ready /\ synced' = synced \ {h} /\ UNCHANGED <<open, task>> /\ fh[h].writable
  BY DEF Write
<1>2. PICK c, s, ok : WroteAs(h, c, s, ok, off, n, v)
  BY WriteLeaves
<1>. QED BY <1>1, <1>2, WroteView

LEMMA FlushCallbackView ==
  ASSUME ViewInv, BufferInv', NEW h \in open, Flush(h)
  PROVE  ViewInv'
<1>1. PICK r \in BufferResults(h) :
        LET res == FlushBuffer(server[fh[h].file], fh[h], r)
        IN /\ server' = [server EXCEPT ![fh[h].file] = res.content]
           /\ fh' = [fh EXCEPT ![h] = res.state]
           /\ synced' = IF CloseSucceeds(res) THEN synced \cup {h} ELSE synced \ {h}
  BY DEF Flush
<1>. PICK f \in Files : f = fh[h].file
  BY HandleFacts
<1>. DEFINE s == fh[h]
            res == FlushBuffer(server[f], s, r)
            t == res.state
<1>2. /\ h \in Handles /\ s \in FhState /\ Placed(s) /\ HandleClean(h)
      /\ server[f] \in Content /\ Padded(server[f]) /\ r \in PutResults(Len(s.write_buf))
  BY HandleFacts DEF BufferResults
<1>3. /\ res.content \in Content /\ t \in FhState /\ t.write_buf = <<>> /\ t.file = f
      /\ t.writable = s.writable /\ t.dirty = s.dirty /\ t.file_size = s.file_size
  BY <1>2, FlushBufferType
<1>4. FlushedFrom(res, server[f], s)
  BY <1>2, FlushShows
<1>5. s.write_buf = <<>> => res.content = server[f]
  BY <1>2, FlushView
<1>6. /\ server' = [server EXCEPT ![f] = res.content] /\ fh' = [fh EXCEPT ![h] = t]
      /\ synced' = IF CloseSucceeds(res) THEN synced \cup {h} ELSE synced \ {h}
      /\ UNCHANGED <<open, task, held, want>> /\ Ready
  BY <1>1 DEF Flush
<1>. HIDE DEF res
<1>7. h \in synced' => ~t.pending_errors
  BY <1>6 DEF CloseSucceeds
<1>. HIDE DEF t
<1>8. HandleStep(h, f, res.content, t)
  BY <1>3, <1>6 DEF HandleStep
<1>9. HandleClean(h)'
  <2>1. fh'[h] = t
    BY <1>2, <1>8, OthersSame
  <2>. QED BY <1>2, <1>3, <1>7, <2>1 DEF HandleClean
<1>10. ASSUME f \in held' PROVE Session(f)'
  <2>1. CASE s.writable
    <3>1. Tracks(s, server[f], want[f])
      BY <1>6, <1>10, <2>1, WriterTracks DEF Ready, Idle
    <3>2. ASSUME ~t.pending_errors PROVE View(res.content, t) = want[f] /\ Knows(t, want[f])
      BY <1>3, <1>4, <3>1, <3>2 DEF FlushedFrom, Tracks, Knows, t
    <3>3. ~Visited(f, h)'
      BY <1>6 DEF Visited, Ready, Idle
    <3>. QED BY <1>3, <1>6, <1>8, <1>10, <2>1, <3>2, <3>3, WriterKept
  <2>2. CASE ~s.writable
    <3>1. res.content = server[f]
      BY <1>2, <1>5, <2>2 DEF HandleClean
    <3>. QED BY <1>2, <1>3, <1>6, <1>8, <1>10, <2>2, <3>1, ReaderKept
  <2>. QED BY <2>1, <2>2
<1>11. Padded(res.content)
  BY <1>4 DEF FlushedFrom
<1>. QED BY <1>2, <1>3, <1>8, <1>9, <1>10, <1>11, HandleStepKeeps

LEMMA ReleaseView ==
  ASSUME ViewInv, BufferInv', NEW h \in open, Release(h)
  PROVE  ViewInv'
<1>1. PICK r \in BufferResults(h), q \in CallResults :
        LET res == Finalize(server[fh[h].file], fh[h], r, q)
        IN /\ server' = [server EXCEPT ![fh[h].file] = res.content]
           /\ Hold(IF fh[h].writable /\ h \notin synced /\ ~res.ok
                   THEN held \ {fh[h].file} ELSE held, want)
  BY DEF Release
<1>. PICK f \in Files : f = fh[h].file
  BY HandleFacts
<1>. DEFINE s == fh[h]
            res == Finalize(server[f], s, r, q)
            fs == IF s.writable /\ h \notin synced /\ ~res.ok THEN held \ {f} ELSE held
<1>2. /\ h \in Handles /\ s \in FhState /\ Placed(s) /\ HandleClean(h)
      /\ server[f] \in Content /\ Padded(server[f]) /\ InPlace(server[f])
      /\ r \in PutResults(Len(s.write_buf))
  BY HandleFacts DEF BufferResults, ViewInv, BufferInv, BytesInPlace, InPlace
<1>3. res.content \in Content /\ Padded(res.content)
  BY <1>2, FinalizeType, FinalizePadded
<1>4. server' = [server EXCEPT ![f] = res.content] /\ Hold(fs, want)
  BY <1>1
<1>5. /\ fh' = [fh EXCEPT ![h] = FreeSlot] /\ open' = open \ {h}
      /\ synced' = synced \ {h} /\ task' = task /\ Ready
  BY DEF Release
<1>6. s.writable /\ f \in held => Tracks(s, server[f], want[f])
  BY <1>5, WriterTracks DEF Ready, Idle
<1>7. s.writable /\ f \in held /\ (h \in synced \/ res.ok) => res.content = want[f]
  <2>. SUFFICES ASSUME s.writable, f \in held, h \in synced \/ res.ok
                PROVE  res.content = want[f]
    OBVIOUS
  <2>1. /\ res.ok => ~res.state.pending_errors
        /\ ~res.state.pending_errors => res.content = want[f]
    BY <1>2, <1>6, FinalizeStores
  <2>2. h \in synced => res.state = s /\ ~s.pending_errors
    BY <1>2, FinalizeClean DEF HandleClean
  <2>. HIDE DEF res
  <2>. QED BY <2>1, <2>2
<1>8. ~s.writable => res.content = server[f]
  BY <1>2, FinalizeClean DEF HandleClean
<1>. HIDE DEF res
<1>9. held' = fs /\ \A e \in fs : want'[e] = want[e]
  <2>1. TypeOK /\ fs \in SUBSET Files
    BY DEF ViewInv, BufferInv, TypeOK
  <2>. HIDE DEF fs
  <2>. QED BY <1>4, <2>1, HoldKeeps
<1>10. HandleStep(h, f, res.content, FreeSlot)
  BY <1>4, <1>5, <1>9 DEF HandleStep
<1>11. ASSUME f \in held' PROVE Session(f)'
  <2>0. f \in held /\ want'[f] = want[f] /\ h \notin open'
    BY <1>5, <1>9, <1>11
  <2>1. CASE s.writable
    <3>1. res.content = want'[f]
      BY <1>7, <1>9, <1>11, <2>0, <2>1
    <3>. QED BY <1>10, <2>0, <2>1, <3>1, WriterGone
  <2>2. CASE ~s.writable
    <3>1. HandleStep(h, f, server[f], FreeSlot)
      BY <1>8, <1>10, <2>2
    <3>. QED BY <1>2, <2>0, <2>2, <3>1, ReaderKept
  <2>. QED BY <2>1, <2>2
<1>. QED BY <1>2, <1>3, <1>5, <1>10, <1>11, HandleStepKeeps

LEMMA DrainHandleView ==
  ASSUME ViewInv, BufferInv', NEW h \in open, DrainHandle(h)
  PROVE  ViewInv'
<1>1. PICK r \in BufferResults(h), q \in CallResults :
        LET res == Finalize(server[fh[h].file], fh[h], r, q)
        IN /\ server' = [server EXCEPT ![fh[h].file] = res.content]
           /\ open' = IF res.ok THEN open \ {h} ELSE open
           /\ fh' = [fh EXCEPT ![h] = IF res.ok THEN FreeSlot ELSE res.state]
  BY DEF DrainHandle
<1>. PICK f \in Files : f = fh[h].file
  BY HandleFacts
<1>. DEFINE s == fh[h]
            res == Finalize(server[f], s, r, q)
            t == res.state
            x == IF res.ok THEN FreeSlot ELSE t
<1>2. /\ h \in Handles /\ s \in FhState /\ Placed(s) /\ HandleClean(h)
      /\ server[f] \in Content /\ Padded(server[f]) /\ InPlace(server[f])
      /\ r \in PutResults(Len(s.write_buf))
  BY HandleFacts DEF BufferResults, ViewInv, BufferInv, BytesInPlace, InPlace
<1>3. /\ res.content \in Content /\ Padded(res.content)
      /\ t = FlushBuffer(server[f], s, r).state
  BY <1>2, FinalizeType, FinalizePadded
<1>4. /\ t.write_buf = <<>> /\ t.file = f /\ t.writable = s.writable /\ t.dirty = s.dirty
  BY <1>2, <1>3, FlushBufferType
<1>5. /\ server' = [server EXCEPT ![f] = res.content] /\ fh' = [fh EXCEPT ![h] = x]
      /\ open' = IF res.ok THEN open \ {h} ELSE open
  BY <1>1
<1>6. /\ task' = [task EXCEPT !.todo = @ \ {h}] /\ task.name = "drain"
      /\ held' = held /\ want' = want /\ synced' = synced
  BY DEF DrainHandle, told
<1>7. s.writable /\ f \in held => Tracks(s, server[f], want[f])
  BY <1>6, WriterTracks
<1>8. s.writable /\ f \in held =>
        /\ res.ok => ~t.pending_errors
        /\ ~t.pending_errors => /\ res.content = want[f] /\ View(res.content, t) = want[f]
                                /\ Knows(t, want[f])
  BY <1>2, <1>7, FinalizeStores
<1>9. s.write_buf = <<>> => t = s
  BY FinalizeClean
<1>10. ~s.writable => res.content = server[f]
  BY <1>2, FinalizeClean DEF HandleClean
<1>. HIDE DEF res
<1>11. HandleStep(h, f, res.content, x)
  <2>1. h \in open' => x = t
    BY <1>5
  <2>2. task'.name = task.name /\ task'.files = task.files /\ task'.size = task.size
        /\ task'.todo = task.todo \ {h}
    BY <1>6 DEF ViewInv, BufferInv, TypeOK
  <2>. HIDE DEF x, t
  <2>. QED BY <1>4, <1>5, <1>6, <2>1, <2>2 DEF HandleStep
<1>12. ASSUME h \in open' PROVE HandleClean(h)' /\ x = t /\ ~res.ok
  <2>1. x = t /\ ~res.ok
    BY <1>5, <1>12
  <2>2. fh'[h] = t
    BY <1>2, <1>11, <2>1, OthersSame
  <2>. HIDE DEF t, x
  <2>. QED BY <1>2, <1>4, <1>6, <1>9, <2>1, <2>2 DEF HandleClean
<1>. HIDE DEF t
<1>13. ASSUME f \in held' PROVE Session(f)'
  <2>0. f \in held /\ want'[f] = want[f]
    BY <1>6, <1>13
  <2>1. CASE s.writable /\ res.ok
    <3>1. res.content = want'[f] /\ h \notin open'
      BY <1>5, <1>8, <2>0, <2>1
    <3>. HIDE DEF x
    <3>. QED BY <1>11, <2>0, <2>1, <3>1, WriterGone
  <2>2. CASE s.writable /\ ~res.ok
    <3>1. h \in open' /\ x = t
      BY <1>5, <2>2
    <3>2. ~Visited(f, h)'
      BY <1>11, <1>6 DEF Visited, HandleStep
    <3>3. ~x.pending_errors => View(res.content, x) = want'[f] /\ Knows(x, want'[f])
      BY <1>8, <2>0, <2>2, <3>1
    <3>. HIDE DEF x
    <3>. QED BY <1>4, <1>11, <2>0, <2>2, <3>1, <3>2, <3>3, WriterKept
  <2>3. CASE ~s.writable
    <3>1. HandleStep(h, f, server[f], x)
      BY <1>10, <1>11, <2>3
    <3>2. h \in open' => ~x.writable
      BY <1>4, <1>12, <2>3
    <3>. HIDE DEF x
    <3>. QED BY <1>2, <2>0, <2>3, <3>1, <3>2, ReaderKept
  <2>. QED BY <2>1, <2>2, <2>3
<1>. QED BY <1>2, <1>3, <1>11, <1>12, <1>13, HandleStepKeeps

LEMMA SetSizeFlushView ==
  ASSUME ViewInv, BufferInv', NEW h \in open, SetSizeFlush(h)
  PROVE  ViewInv'
<1>1. PICK r \in BufferResults(h) :
        LET res == FlushBuffer(server[fh[h].file], fh[h], r)
        IN /\ server' = [server EXCEPT ![fh[h].file] = res.content]
           /\ fh' = [fh EXCEPT ![h] = [res.state EXCEPT !.file_size = task.size,
                                                        !.dirty = FALSE]]
  BY DEF SetSizeFlush
<1>. PICK f \in Files : f = fh[h].file
  BY HandleFacts
<1>. DEFINE s == fh[h]
            res == FlushBuffer(server[f], s, r)
            x == [res.state EXCEPT !.file_size = task.size, !.dirty = FALSE]
<1>2. /\ h \in Handles /\ s \in FhState /\ Placed(s) /\ HandleClean(h)
      /\ server[f] \in Content /\ Padded(server[f]) /\ r \in PutResults(Len(s.write_buf))
  BY HandleFacts DEF BufferResults
<1>3. /\ res.content \in Content /\ res.state \in FhState /\ res.state.write_buf = <<>>
      /\ res.state.file = f /\ res.state.writable = s.writable
  BY <1>2, FlushBufferType
<1>4. FlushedFrom(res, server[f], s)
  BY <1>2, FlushShows
<1>5. s.write_buf = <<>> => res.content = server[f] /\ res.state = s
  BY <1>2, FlushView
<1>6. server' = [server EXCEPT ![f] = res.content] /\ fh' = [fh EXCEPT ![h] = x]
  BY <1>1
<1>7. /\ task.name = "setattr" /\ h \in task.todo /\ task' = [task EXCEPT !.todo = @ \ {h}]
      /\ UNCHANGED <<open, held, want, synced>>
  BY DEF SetSizeFlush, told
<1>. HIDE DEF res
<1>8. /\ x.write_buf = <<>> /\ x.file = f /\ x.writable = s.writable /\ ~x.dirty
      /\ x.file_size = task.size /\ x.pending_errors = res.state.pending_errors
      /\ x.write_buf_offset = res.state.write_buf_offset
  BY <1>3 DEF FhState
<1>. HIDE DEF x
<1>9. /\ task'.name = "setattr" /\ task'.files = task.files /\ task'.size = task.size
      /\ task'.todo = task.todo \ {h}
  BY <1>7 DEF ViewInv, BufferInv, TypeOK
<1>10. task.files = {f}
  BY <1>7 DEF ViewInv, BufferInv, TaskOK
<1>11. HandleStep(h, f, res.content, x)
  BY <1>6, <1>7, <1>8, <1>9 DEF HandleStep
<1>12. HandleClean(h)'
  <2>1. fh'[h] = x
    BY <1>2, <1>11, OthersSame
  <2>2. h \in synced => ~x.pending_errors
    BY <1>2, <1>5, <1>8 DEF HandleClean
  <2>. QED BY <1>7, <1>8, <2>1, <2>2 DEF HandleClean
<1>13. ASSUME f \in held' PROVE Session(f)'
  <2>1. CASE s.writable
    <3>1. h \in Writers(f) /\ Session(f) /\ ~Visited(f, h)
      BY <1>7, <1>13, <2>1 DEF Writers, HandlesOf, ViewInv, Visited
    <3>2. ~s.pending_errors => View(server[f], s) = want[f]
      BY <3>1 DEF Session
    <3>3. Visited(f, h)'
      BY <1>9, <1>10 DEF Visited
    <3>4. ASSUME ~x.pending_errors
          PROVE  View(res.content, x) = want'[f] /\ x.file_size = task'.size
      <4>1. View(res.content, x) = View(res.content, res.state)
        BY <1>3, <1>8, EmptyView
      <4>2. ~s.pending_errors /\ View(res.content, res.state) = View(server[f], s)
        BY <1>4, <1>8, <3>4 DEF FlushedFrom
      <4>. QED BY <1>7, <1>8, <1>9, <3>2, <4>1, <4>2
    <3>. QED BY <1>7, <1>8, <1>11, <1>13, <2>1, <3>3, <3>4, WriterKept
  <2>2. CASE ~s.writable
    <3>1. res.content = server[f]
      BY <1>2, <1>5, <2>2 DEF HandleClean
    <3>. QED BY <1>2, <1>7, <1>8, <1>11, <1>13, <2>2, <3>1, ReaderKept
  <2>. QED BY <2>1, <2>2
<1>14. Padded(res.content)
  BY <1>4 DEF FlushedFrom
<1>. QED BY <1>2, <1>3, <1>11, <1>12, <1>13, <1>14, HandleStepKeeps

LEMMA BeginSetSizeView ==
  ASSUME ViewInv, BufferInv', NEW f \in Files, NEW n \in Sizes, BeginSetSize(f, n)
  PROVE  ViewInv'
<1>1. /\ UNCHANGED <<server, open, fh, held, want, synced>> /\ task.name = "idle"
      /\ task' = [name |-> "setattr", files |-> {f}, size |-> n, todo |-> HandlesOf(f)]
  BY DEF BeginSetSize, store, told, Ready, Idle
<1>2. \A e \in Files, h \in open : fh[h].file = e => ~Visited(e, h) /\ ~Visited(e, h)'
  BY <1>1 DEF Visited, HandlesOf
<1>. QED BY <1>1, <1>2, QuietStep DEF SameVisit

LEMMA BeginDrainView == ViewInv /\ BufferInv' /\ BeginDrain => ViewInv'
<1>. SUFFICES ASSUME ViewInv, BufferInv', BeginDrain PROVE ViewInv'
  OBVIOUS
<1>1. /\ UNCHANGED <<server, open, fh, held, want, synced>> /\ task.name = "idle"
      /\ task'.name = "drain"
  BY DEF BeginDrain, store, told, Ready, Idle
<1>2. \A e \in Files, h \in open : SameVisit(e, h)
  BY <1>1 DEF Visited, SameVisit
<1>. QED BY <1>1, <1>2, QuietStep

LEMMA MountView == ViewInv /\ BufferInv' /\ (Mount \/ UNCHANGED vars) => ViewInv'
<1>. SUFFICES ASSUME ViewInv, BufferInv', Mount \/ UNCHANGED vars PROVE ViewInv'
  OBVIOUS
<1>1. UNCHANGED <<server, open, fh, held, want, synced, task>>
  BY DEF Mount, vars, store, mount, told
<1>2. \A e \in Files, h \in open : SameVisit(e, h)
  BY <1>1 DEF Visited, SameVisit
<1>. QED BY <1>1, <1>2, QuietStep

\* A step of the world on file f, which the mount does not notice.
LEMMA OutsideStep ==
  ASSUME ViewInv, BufferInv', NEW f \in Files, NEW c \in Content, Padded(c),
         server' = [server EXCEPT ![f] = c], UNCHANGED <<mount, synced>>,
         Hold(held \ {f}, want)
  PROVE  ViewInv'
<1>1. UNCHANGED <<open, fh, task, synced>>
  BY DEF mount
<1>2. TypeOK /\ held \ {f} \in SUBSET Files /\ open \subseteq Handles
  BY DEF ViewInv, BufferInv, TypeOK
<1>3. held' = held \ {f} /\ \A e \in held \ {f} : want'[e] = want[e]
  BY <1>2, HoldKeeps
<1>4. \A h \in Handles : SameHandle(h) /\ \A e \in Files : SameVisit(e, h)
  BY <1>1 DEF SameHandle, SameVisit, Visited
<1>5. \A h \in open' : HandleClean(h)'
  BY <1>1, CleanParts DEF ViewInv, HandleClean, Visited
<1>. QED BY <1>3, <1>4, <1>5, FrameStep

LEMMA EmptyPutView ==
  ASSUME ViewInv, BufferInv', NEW f \in Files, EmptyPutUnacknowledged(f)
  PROVE  ViewInv'
  BY OutsideStep, EmptyType, EmptyPadded DEF EmptyPutUnacknowledged

LEMMA RemoteWriteView ==
  ASSUME ViewInv, BufferInv', NEW f \in Files, NEW off \in Offsets,
         NEW n \in 1..WriteBufCap, NEW v \in Vals, RemoteWrite(f, off, n, v)
  PROVE  ViewInv'
<1>. DEFINE c == WriteAt(server[f], off, Payload(off, n, v), n)
<1>1. off \in Nat /\ n \in Nat /\ off + n <= MaxSize
  BY Assumptions DEF Offsets, RemoteWrite
<1>2. server \in [Files -> Content] /\ Padded(server[f])
  BY DEF ViewInv, BufferInv, TypeOK, Normal
<1>3. server' = [server EXCEPT ![f] = c] /\ Hold(held \ {f}, want)
      /\ UNCHANGED <<mount, synced>>
  BY DEF RemoteWrite
<1>4. Padded(c)
  BY <1>1, <1>2, WriteAtPadded
<1>. HIDE DEF c
<1>5. c \in Content
  <2>1. server'[f] = c /\ server' \in [Files -> Content]
    BY <1>2, <1>3 DEF BufferInv, TypeOK
  <2>. QED BY <2>1
<1>. QED BY <1>3, <1>4, <1>5, OutsideStep

LEMMA SetSizePutView ==
  ASSUME ViewInv, BufferInv', NEW f \in Files, SetSizePut(f)
  PROVE  ViewInv'
<1>1. PICK r \in CallResults :
        /\ server' = IF r.applied THEN [server EXCEPT ![f] = SetLen(@, task.size)]
                     ELSE server
        /\ IF r.ok THEN Hold(held, [want EXCEPT ![f] = SetLen(@, task.size)])
           ELSE Hold(held \ {f}, want)
  BY DEF SetSizePut
<1>2. /\ task.name = "setattr" /\ f \in task.files /\ task.todo = {} /\ task' = Idle
      /\ UNCHANGED <<open, fh, synced>>
  BY DEF SetSizePut
<1>3. task.files = {f} /\ task.size \in Sizes /\ TypeOK /\ open \subseteq Handles
  BY <1>2 DEF ViewInv, BufferInv, TaskOK, TypeOK
<1>. DEFINE new == SetLen(server[f], task.size)
            c == IF r.applied THEN new ELSE server[f]
<1>4. new \in Content /\ Padded(new) /\ new.size = task.size
  BY <1>3, SetLenType, SetLenPadded DEF TypeOK
<1>5. c \in Content /\ Padded(c) /\ server' = [server EXCEPT ![f] = c]
  BY <1>1, <1>3, <1>4 DEF TypeOK, ViewInv, Normal
<1>6. /\ held' \subseteq held /\ \A e \in held' \ {f} : want'[e] = want[e]
      /\ f \in held' => r.ok /\ want'[f] = SetLen(want[f], task.size)
  <2>1. held \in SUBSET Files /\ held \ {f} \in SUBSET Files /\ want \in [Files -> Content]
    BY <1>3 DEF TypeOK
  <2>2. CASE r.ok
    <3>. DEFINE w == [want EXCEPT ![f] = SetLen(@, task.size)]
    <3>1. \A e \in Files : w[e] = IF e = f THEN SetLen(want[f], task.size) ELSE want[e]
      BY <2>1
    <3>2. Hold(held, w)
      BY <1>1, <2>2
    <3>. HIDE DEF w
    <3>3. held' = held /\ \A e \in held : want'[e] = w[e]
      BY <1>3, <2>1, <3>2, HoldKeeps
    <3>. QED BY <2>1, <2>2, <3>1, <3>3
  <2>3. CASE ~r.ok
    <3>1. held' = held \ {f} /\ \A e \in held \ {f} : want'[e] = want[e]
      BY <1>1, <1>3, <2>1, <2>3, HoldKeeps
    <3>. QED BY <3>1
  <2>. QED BY <2>2, <2>3
<1>7. \A e \in Files, h \in Handles : ~Visited(e, h)'
  BY <1>2 DEF Visited, Idle
<1>8. \A h \in Handles : SameHandle(h) /\ \A e \in Files \ {f} : SameVisit(e, h)
  BY <1>2, <1>3, <1>7 DEF SameHandle, SameVisit, Visited
<1>9. \A h \in open' : HandleClean(h)'
  BY <1>2, <1>3, CleanParts DEF ViewInv, HandleClean, Visited, Idle
<1>10. ASSUME f \in held' PROVE Session(f)'
  <2>1. /\ f \in held /\ Session(f) /\ r.applied /\ server'[f] = new
        /\ want'[f] = SetLen(want[f], task.size)
    BY <1>1, <1>3, <1>5, <1>6, <1>10 DEF ViewInv, CallResults, TypeOK
  <2>2. Writers(f)' = Writers(f)
    BY <1>2 DEF Writers, HandlesOf
  <2>3. ASSUME NEW h \in Writers(f), ~fh[h].pending_errors
        PROVE  View(new, fh[h]) = want'[f] /\ Knows(fh[h], want'[f])
    <3>1. Visited(f, h) /\ h \in open /\ fh[h].file = f
      BY <1>2, <1>3 DEF Visited, Writers, HandlesOf
    <3>2. fh[h].write_buf = <<>>
      BY <3>1, CleanParts DEF ViewInv, HandleClean
    <3>3. View(server[f], fh[h]) = want[f] /\ fh[h].file_size = task.size
      BY <2>1, <2>3, <3>1 DEF Session
    <3>4. View(server[f], fh[h]) = server[f] /\ View(new, fh[h]) = new
      BY <3>2, EmptyView
    <3>5. want'[f] = new
      BY <2>1, <3>3, <3>4
    <3>. HIDE DEF new
    <3>. QED BY <1>4, <3>3, <3>4, <3>5 DEF Knows
  <2>4. Writers(f) = {} => new = want'[f]
    BY <2>1 DEF Session
  <2>5. \A g, h \in Writers(f) : g = h
    BY <2>1 DEF Session
  <2>6. \A h \in Writers(f) : ~Visited(f, h)'
    BY <1>3, <1>7 DEF Writers, HandlesOf
  <2>. HIDE DEF new
  <2>. QED BY <1>2, <2>1, <2>2, <2>3, <2>4, <2>5, <2>6 DEF Session
<1>. HIDE DEF c
<1>. QED BY <1>5, <1>6, <1>8, <1>9, <1>10, FrameStep

LEMMA StopView ==
  ASSUME ViewInv, BufferInv', NEW code, Stop(code), code = "ok" => open = {}
  PROVE  ViewInv'
<1>1. /\ open' = {} /\ synced' = {} /\ server' = server
      /\ Hold({f \in held : code = "ok" \/ Writers(f) \subseteq synced}, want)
  BY DEF Stop, store
<1>. DEFINE fs == {f \in held : code = "ok" \/ Writers(f) \subseteq synced}
<1>2. held' = fs /\ \A e \in fs : want'[e] = want[e]
  <2>1. TypeOK /\ fs \in SUBSET Files
    BY DEF ViewInv, BufferInv, TypeOK
  <2>. QED BY <1>1, <2>1, HoldKeeps
<1>3. (ReadersClean /\ VisitedFlushed /\ SyncedClean)'
  BY <1>1 DEF ReadersClean, VisitedFlushed, SyncedClean
<1>4. Normal'
  BY <1>1 DEF ViewInv, Normal
<1>5. ASSUME NEW f \in held' PROVE Session(f)'
  <2>1. f \in held /\ Session(f) /\ want'[f] = want[f] /\ Writers(f) \subseteq synced
    BY <1>2 DEF ViewInv, Writers, HandlesOf
  <2>2. Writers(f)' = {}
    BY <1>1 DEF Writers, HandlesOf
  <2>3. server[f] = want[f]
    <3>1. CASE Writers(f) = {}
      BY <2>1, <3>1 DEF Session
    <3>2. ASSUME NEW h \in Writers(f) PROVE server[f] = want[f]
      <4>1. h \in open /\ h \in synced
        BY <2>1 DEF Writers, HandlesOf
      <4>2. fh[h].write_buf = <<>> /\ ~fh[h].pending_errors
        BY <4>1 DEF ViewInv, SyncedClean
      <4>3. View(server[f], fh[h]) = want[f]
        BY <2>1, <4>2 DEF Session
      <4>. QED BY <4>2, <4>3, EmptyView
    <3>. QED BY <3>1, <3>2
  <2>. QED BY <1>1, <2>1, <2>2, <2>3 DEF Session
<1>. QED BY <1>3, <1>4, <1>5 DEF ViewInv

LEMMA InitView == Init => ViewInv
<1>. SUFFICES ASSUME Init PROVE ViewInv
  OBVIOUS
<1>1. BufferInv
  BY InitBuffer
<1>2. open = {} /\ \A f \in Files : server[f] = Empty /\ want[f] = server[f]
  BY DEF Init
<1>3. Normal
  BY <1>2, EmptyPadded DEF Normal
<1>4. \A f \in held : Session(f)
  BY <1>2 DEF Session, Writers, HandlesOf, Init
<1>. QED BY <1>1, <1>2, <1>3, <1>4 DEF ViewInv, ReadersClean, VisitedFlushed, SyncedClean

LEMMA NextView == ViewInv /\ [Next]_vars => ViewInv'
<1>. SUFFICES ASSUME ViewInv, [Next]_vars PROVE ViewInv'
  OBVIOUS
<1>0. BufferInv'
  BY NextBuffer DEF ViewInv
<1>1. CASE OpenOrCreate
  BY <1>0, <1>1, OpenView
<1>2. CASE WriteSome
  BY <1>0, <1>2, WriteView DEF WriteSome
<1>3. CASE SetSize
  BY <1>0, <1>3, BeginSetSizeView, SetSizeFlushView, SetSizePutView DEF SetSize
<1>4. CASE Close
  BY <1>0, <1>4, FlushCallbackView, ReleaseView DEF Close
<1>5. CASE Shutdown
  <2>1. CASE FinishDrain \/ Kill
    BY <1>0, <2>1, StopView DEF FinishDrain, Kill
  <2>. QED BY <1>0, <1>5, <2>1, BeginDrainView, DrainHandleView, MountView DEF Shutdown
<1>6. CASE Environment
  BY <1>0, <1>6, EmptyPutView, RemoteWriteView DEF Environment
<1>7. CASE UNCHANGED vars
  BY <1>0, <1>7, MountView
<1>. QED BY <1>1, <1>2, <1>3, <1>4, <1>5, <1>6, <1>7 DEF Next

\* What each handle shows, and what the filer has of files without a writer, is what the
\* applications were told, as long as the file is held to it.
THEOREM ViewInvariant == Spec => []ViewInv
<1>. QED BY InitView, NextView, PTL DEF Spec

\* Filer and write buffer together hold what the application was told, for any number of
\* files and handles and whatever calls fail, unless a flush of the writer failed.
THEOREM ViewStaysIntact == Spec => []ViewIntact
<1>1. ViewInv => ViewIntact
  BY DEF ViewInv, Session, ViewIntact
<1>. QED BY <1>1, ViewInvariant, PTL

\* A close() that returned 0 means that the filer has all of it.
THEOREM SyncedIsDurable == Spec => []SyncedDurable
<1>1. ViewInv => SyncedDurable
  <2>. SUFFICES ASSUME ViewInv, NEW h \in open, h \in synced, fh[h].writable,
                       fh[h].file \in held
                PROVE  server[fh[h].file] = want[fh[h].file]
    BY DEF SyncedDurable
  <2>. PICK f \in held : f = fh[h].file
    OBVIOUS
  <2>1. fh[h].write_buf = <<>> /\ ~fh[h].pending_errors
    BY DEF ViewInv, SyncedClean
  <2>2. h \in Writers(f) /\ Session(f)
    BY DEF ViewInv, Writers, HandlesOf
  <2>3. View(server[f], fh[h]) = want[f]
    BY <2>1, <2>2 DEF Session
  <2>. QED BY <2>1, <2>3, EmptyView
<1>. QED BY <1>1, ViewInvariant, PTL

\* What was released, or drained before an exit with success, is on the filer.
THEOREM ReleasedIsDurable == Spec => []DurableAtRest
<1>1. ViewInv => DurableAtRest
  BY DEF ViewInv, Session, DurableAtRest
<1>. QED BY <1>1, ViewInvariant, PTL

-----------------------------------------------------------------------------
(* The end of a mount *)

\* The drain is in progress exactly while its loop is, and a stopped process has
\* neither handles nor a loop.
LifeInv ==
  /\ mode = "draining" <=> task.name = "drain"
  /\ mode = "stopped" => open = {} /\ task = Idle

\* Each step keeps that, and is a step of MountLife or changes nothing there.
LEMMA LifeStep ==
  ASSUME TypeOK, LifeInv, [Next]_vars
  PROVE  LifeInv' /\ [Life!Next]_(Life!vars)
<1>. USE DEF LifeInv, Life!vars
<1>1. CASE OpenOrCreate
  <2>1. Ready /\ UNCHANGED <<mode, task, exit>>
    BY <1>1 DEF OpenOrCreate, Open, Create, Opened
  <2>2. Life!Serve
    BY <2>1 DEF Life!Serve, Ready
  <2>. QED BY <2>1, <2>2 DEF Life!Next, Ready, Idle
<1>2. CASE WriteSome
  <2>1. ASSUME NEW h, NEW off, NEW n, NEW v, Write(h, off, n, v)
        PROVE  UNCHANGED <<open, mode, task, exit>>
    BY <2>1, Zenon DEF Write
  <2>2. UNCHANGED <<open, mode, task, exit>>
    BY <1>2, <2>1, Zenon DEF WriteSome
  <2>. QED BY <2>2
<1>3. CASE SetSize
  <2>1. CASE \E f \in Files, n \in Sizes : BeginSetSize(f, n)
    BY <2>1 DEF BeginSetSize, Ready, Idle
  <2>2. CASE \E h \in open : SetSizeFlush(h)
    <3>1. task'.name = task.name
      BY <2>2 DEF SetSizeFlush, TypeOK
    <3>. QED BY <2>2, <3>1 DEF SetSizeFlush
  <2>3. CASE \E f \in Files : SetSizePut(f)
    BY <2>3 DEF SetSizePut, Idle
  <2>. QED BY <1>3, <2>1, <2>2, <2>3 DEF SetSize
<1>4. CASE Close
  <2>1. Ready /\ UNCHANGED <<mode, task, exit>>
    BY <1>4 DEF Close, Flush, Release
  <2>2. Life!Serve
    BY <2>1 DEF Life!Serve, Ready
  <2>. QED BY <2>1, <2>2 DEF Life!Next, Ready, Idle
<1>5. CASE Shutdown
  <2>1. CASE BeginDrain
    <3>1. Life!BeginDrain
      BY <2>1 DEF BeginDrain, Ready, Life!BeginDrain
    <3>2. task'.name = "drain" /\ mode' = "draining"
      BY <2>1 DEF BeginDrain, Idle
    <3>. QED BY <3>1, <3>2 DEF Life!Next
  <2>2. CASE \E h \in open : DrainHandle(h)
    <3>1. task'.name = task.name /\ task.name = "drain" /\ UNCHANGED <<mode, exit>>
      BY <2>2 DEF DrainHandle, TypeOK
    <3>2. open' \subseteq open
      BY <2>2 DEF DrainHandle
    <3>. QED BY <3>1, <3>2 DEF Life!Next, Life!Drain
  <2>3. CASE FinishDrain
    <3>1. Life!Finish
      BY <2>3 DEF FinishDrain, Stop, Life!Finish
    <3>. QED BY <2>3, <3>1 DEF FinishDrain, Stop, Idle, Life!Next
  <2>4. CASE Kill
    <3>1. Life!Kill
      BY <2>4 DEF Kill, Stop, Life!Kill
    <3>. QED BY <2>4, <3>1 DEF Kill, Stop, Idle, Life!Next
  <2>5. CASE Mount
    <3>1. Life!Mount
      BY <2>5 DEF Mount, Life!Mount
    <3>. QED BY <2>5, <3>1 DEF Mount, Idle, Life!Next
  <2>. QED BY <1>5, <2>1, <2>2, <2>3, <2>4, <2>5 DEF Shutdown
<1>6. CASE Environment
  BY <1>6 DEF Environment, EmptyPutUnacknowledged, RemoteWrite, mount
<1>7. CASE UNCHANGED vars
  BY <1>7 DEF vars, mount
<1>. QED BY <1>1, <1>2, <1>3, <1>4, <1>5, <1>6, <1>7 DEF Next

\* The drain of WriteBack implements what MountLife promises: success means that no
\* handle is left, for any number of files and handles.
THEOREM EndsAsPromised == Spec => LifeImplemented
<1>1. Init => LifeInv /\ Life!Init
  BY DEF Init, LifeInv, Idle, Life!Init
<1>2. TypeOK /\ LifeInv /\ [Next]_vars => LifeInv' /\ [Life!Next]_(Life!vars)
  BY LifeStep
<1>. QED BY <1>1, <1>2, TypeCorrect, PTL DEF Spec, LifeImplemented, Life!Spec

-----------------------------------------------------------------------------
(* What the mount promises of the contents of files *)

\* Nothing is recorded of a file that is held to nothing.
Forgotten == \A f \in Files \ held : want[f] = Empty

LEMMA OtherFilesSame ==
  ASSUME ViewInv, Forgotten, Forgotten', NEW h \in Handles, NEW f \in Files, NEW c, NEW x,
         HandleStep(h, f, c, x), held' \in {held, held \cup {f}, held \ {f}},
         synced' \in {synced, synced \cup {h}, synced \ {h}}
  PROVE  \A e \in Files \ {f} : Contract!Same(e)
<1>. SUFFICES ASSUME NEW e \in Files \ {f} PROVE Contract!Same(e)
  OBVIOUS
<1>0. open \subseteq Handles /\ open' \subseteq Handles /\ server \in [Files -> Content]
  BY DEF ViewInv, BufferInv, TypeOK, HandleStep
<1>1. fh'[h] = x /\ \A g \in Handles \ {h} : SameHandle(g)
  BY OthersSame
<1>2. server'[e] = server[e] /\ want'[e] = want[e]
  BY <1>0 DEF HandleStep, Forgotten
<1>3. h \notin Writers(e) /\ h \notin Writers(e)'
  BY <1>1 DEF HandleStep, Writers, HandlesOf
<1>4. Writers(e)' = Writers(e)
  BY <1>0, <1>1, <1>3 DEF Writers, HandlesOf, SameHandle
<1>5. \A g \in Writers(e) : fh'[g] = fh[g]
  BY <1>0, <1>1, <1>3 DEF Writers, HandlesOf, SameHandle
<1>6. Writers(e) \subseteq synced' <=> Writers(e) \subseteq synced
  BY <1>3
<1>7. e \in held' <=> e \in held
  OBVIOUS
<1>8. Standing(e)' = Standing(e)
  BY <1>4, <1>5, <1>6, <1>7 DEF Standing
<1>. QED BY <1>2, <1>4, <1>8 DEF Contract!Same

\* A file whose writers were all closed with success, or that has none, is on the filer.
LEMMA KeptStored ==
  ASSUME ViewInv, NEW f \in held, Writers(f) \subseteq synced
  PROVE  server[f] = want[f]
<1>1. Session(f)
  BY DEF ViewInv
<1>2. CASE Writers(f) = {}
  BY <1>1, <1>2 DEF Session
<1>3. ASSUME NEW h \in Writers(f) PROVE server[f] = want[f]
  <2>1. h \in open /\ h \in synced
    BY DEF Writers, HandlesOf
  <2>2. fh[h].write_buf = <<>> /\ ~fh[h].pending_errors
    BY <2>1 DEF ViewInv, SyncedClean
  <2>3. View(server[f], fh[h]) = want[f]
    BY <1>1, <2>2 DEF Session
  <2>. QED BY <2>2, <2>3, EmptyView
<1>. QED BY <1>2, <1>3

\* A flush of the buffer of s is all that c lacks, and that is less than a chunk.
LEMMA BufferMissing ==
  ASSUME NEW c \in Content, NEW s \in FhState, Placed(s), Len(s.write_buf) < WriteBufCap
  PROVE  /\ c.size <= View(c, s).size
         /\ \A o, p \in Contract!Missing(c, View(c, s)) : o - p < WriteBufCap - 1
<1>. DEFINE off == s.write_buf_offset
            n == Len(s.write_buf)
            w == View(c, s)
<1>0. off \in Nat /\ n \in Nat /\ WriteBufCap \in Nat /\ c.size \in Nat /\ n < WriteBufCap
  BY Assumptions, ContentFields DEF FhState, Sizes
<1>1. CASE n = 0
  <2>1. w = c
    BY <1>1 DEF View, WriteAt
  <2>. HIDE DEF w, n
  <2>. QED BY <1>0, <2>1 DEF Contract!Missing, w
<1>2. CASE n # 0
  <2>1. w = WriteAt(c, off, s.write_buf, n)
    BY DEF View
  <2>2. /\ w.size = IF c.size < off + n THEN off + n ELSE c.size
        /\ \A o \in Offsets :
             w.data[o] = IF off <= o /\ o < off + n THEN s.write_buf[o - off + 1]
                         ELSE c.data[o]
    <3>. HIDE DEF off, n, w
    <3>. QED BY <1>0, <1>2, <2>1, WriteAtFields
  <2>. HIDE DEF w, n, off
  <2>3. ASSUME NEW o \in Contract!Missing(c, w)
        PROVE  o \in Nat /\ off <= o /\ o < off + n
    <3>1. o \in Offsets /\ c.data[o] # w.data[o] /\ o \in Nat
      BY DEF Contract!Missing, Offsets
    <3>. QED BY <2>2, <3>1
  <2>4. ASSUME NEW o \in Contract!Missing(c, w), NEW p \in Contract!Missing(c, w)
        PROVE  o - p < WriteBufCap - 1
    BY <1>0, <2>3
  <2>5. c.size <= w.size
    BY <1>0, <2>2
  <2>. QED BY <2>4, <2>5 DEF w
<1>. QED BY <1>1, <1>2

\* What the contract says of a file follows from the invariant.
LEMMA PromisesHold == ViewInv => Contract!Promises
<1>. SUFFICES ASSUME ViewInv PROVE Contract!Promises
  OBVIOUS
<1>0. TypeOK /\ held \subseteq Files
  BY DEF ViewInv, BufferInv, TypeOK
<1>1. want \in [Files -> Content] /\ server \in [Files -> Content]
  BY <1>0 DEF TypeOK
<1>2. [f \in Files |-> Standing(f)] \in [Files -> {"kept", "open", "failed", "none"}]
  BY DEF Standing
<1>3. ASSUME NEW f \in Files, Standing(f) = "kept" PROVE server[f] = want[f]
  <2>1. f \in held /\ Writers(f) \subseteq synced
    BY <1>3 DEF Standing
  <2>. QED BY <2>1, KeptStored
<1>4. ASSUME NEW f \in Files, Standing(f) = "open"
      PROVE  /\ server[f].size <= want[f].size
             /\ \A o, p \in Contract!Missing(server[f], want[f]) : o - p < WriteBufCap - 1
  <2>1. f \in held /\ ~(Writers(f) \subseteq synced)
        /\ \A h \in Writers(f) : ~fh[h].pending_errors
    BY <1>4 DEF Standing
  <2>2. PICK h \in Writers(f) : h \notin synced
    BY <2>1
  <2>3. h \in open /\ fh[h].file = f
    BY DEF Writers, HandlesOf
  <2>4. View(server[f], fh[h]) = want[f]
    BY <2>1 DEF ViewInv, Session
  <2>5. fh[h] \in FhState /\ Placed(fh[h]) /\ server[f] \in Content
    BY <2>3, HandleFacts
  <2>6. Len(fh[h].write_buf) < WriteBufCap
    BY <2>3 DEF ViewInv, BufferInv, BufferBounded
  <2>. QED BY <2>4, <2>5, <2>6, BufferMissing
<1>. QED BY <1>1, <1>2, <1>3, <1>4 DEF Contract!Promises, Contract!Promise

\* Every step says anew what the files are held to, or leaves that alone.
LEMMA HoldForgets ==
  ASSUME NEW fs, NEW w, Hold(fs, w)
  PROVE  Forgotten'
  BY DEF Hold, Forgotten

LEMMA ForgottenStep == Forgotten /\ [Next]_vars => Forgotten'
<1>. SUFFICES ASSUME Forgotten, [Next]_vars PROVE Forgotten'
  OBVIOUS
<1>1. (\E fs, w : Hold(fs, w)) \/ UNCHANGED <<held, want>>
  <2>1. CASE OpenOrCreate
    <3>1. ASSUME NEW h, NEW f, NEW wr, NEW trunc, NEW size, NEW intact,
                 Opened(h, f, wr, trunc, size, intact)
          PROVE  \E fs, w : Hold(fs, w)
      BY <3>1, Zenon DEF Opened
    <3>2. ASSUME NEW h, NEW f, NEW wr, NEW trunc, Open(h, f, wr, trunc)
          PROVE  \E fs, w : Hold(fs, w)
      BY <3>1, <3>2, Zenon DEF Open
    <3>3. ASSUME NEW h, NEW f, NEW wr, NEW trunc, NEW ok, Create(h, f, wr, trunc, ok)
          PROVE  \E fs, w : Hold(fs, w)
      BY <3>1, <3>3, Zenon DEF Create
    <3>. QED BY <2>1, <3>2, <3>3, Zenon DEF OpenOrCreate
  <2>2. CASE WriteSome
    <3>1. ASSUME NEW h, NEW off, NEW n, NEW v, Write(h, off, n, v)
          PROVE  \E fs, w : Hold(fs, w)
      BY <3>1, Zenon DEF Write, Wrote
    <3>. QED BY <2>2, <3>1, Zenon DEF WriteSome
  <2>3. CASE SetSize
    BY <2>3, Zenon DEF SetSize, BeginSetSize, SetSizeFlush, SetSizePut, told
  <2>4. CASE Close
    BY <2>4, Zenon DEF Close, Flush, Release
  <2>5. CASE Shutdown
    BY <2>5, Zenon DEF Shutdown, BeginDrain, DrainHandle, FinishDrain, Kill, Mount, Stop, told
  <2>6. CASE Environment
    BY <2>6, Zenon DEF Environment, EmptyPutUnacknowledged, RemoteWrite
  <2>7. CASE UNCHANGED vars
    BY <2>7 DEF vars, told
  <2>. QED BY <2>1, <2>2, <2>3, <2>4, <2>5, <2>6, <2>7 DEF Next
<1>2. CASE UNCHANGED <<held, want>>
  BY <1>2 DEF Forgotten
<1>. QED BY <1>1, <1>2, HoldForgets

-----------------------------------------------------------------------------
(* The moves of the contract *)

\* What a step of WriteBack is to the contract.
Moves ==
  \/ \E f \in Files : Contract!Step(f)
  \/ Contract!Stop
  \/ Contract!Start
  \/ UNCHANGED Contract!vars

LEMMA NothingMoves ==
  ASSUME UNCHANGED <<want, server, exit>>, \A f \in Files : Contract!Same(f),
         mode' = "stopped" <=> mode = "stopped"
  PROVE  Moves
<1>1. \A f \in Files : Writers(f)' = Writers(f) /\ Standing(f)' = Standing(f)
  BY DEF Contract!Same
<1>2. /\ [f \in Files |-> Writers(f)]' = [f \in Files |-> Writers(f)]
      /\ [f \in Files |-> Standing(f)]' = [f \in Files |-> Standing(f)]
  BY <1>1
<1>. QED BY <1>2 DEF Moves, Contract!vars

\* The mount does something to file f.
LEMMA FileMoves ==
  ASSUME NEW f \in Files, \A e \in Files \ {f} : Contract!Same(e), UNCHANGED <<mode, exit>>,
         \/ /\ mode # "stopped"
            /\ Contract!Begin(f) \/ Contract!Write(f) \/ Contract!Store(f) \/ Contract!Truncate(f)
         \/ Contract!Lose(f)
         \/ Contract!Unpromised(f)
  PROVE  Moves
<1>1. Contract!Step(f)
  BY Zenon DEF Contract!Step
<1>. QED BY <1>1 DEF Moves

\* The only writer of a file that is held decides how the file stands.
LEMMA WriterStanding ==
  ASSUME ViewInv, NEW h \in open, NEW f \in held, NEW c, NEW x, HandleStep(h, f, c, x),
         fh[h].writable, h \in open' => x.writable
  PROVE  /\ Writers(f) = {h} /\ Writers(f)' = IF h \in open' THEN {h} ELSE {}
         /\ Standing(f) = IF h \in synced THEN "kept"
                          ELSE IF fh[h].pending_errors THEN "failed" ELSE "open"
         /\ Standing(f)' = IF f \notin held' THEN "none"
                           ELSE IF h \notin open' \/ h \in synced' THEN "kept"
                           ELSE IF x.pending_errors THEN "failed" ELSE "open"
<1>1. h \in Handles /\ f \in Files /\ open \subseteq Handles /\ Session(f)
  BY DEF ViewInv, BufferInv, TypeOK
<1>2. fh'[h] = x /\ \A g \in Handles \ {h} : SameHandle(g)
  BY <1>1, OthersSame
<1>3. Writers(f) = {h}
  BY <1>1 DEF HandleStep, Writers, HandlesOf, Session
<1>4. ASSUME NEW g \in Writers(f)', g # h PROVE FALSE
  <2>1. g \in open'
    BY DEF Writers, HandlesOf
  <2>2. g \in Handles
    BY <1>1, <1>4, <2>1 DEF HandleStep
  <2>3. g \in open /\ fh'[g] = fh[g]
    BY <1>2, <1>4, <2>1, <2>2 DEF SameHandle
  <2>. QED BY <1>3, <1>4, <2>3 DEF Writers, HandlesOf
<1>5. h \in Writers(f)' <=> h \in open'
  BY <1>2 DEF HandleStep, Writers, HandlesOf
<1>6. Writers(f)' = IF h \in open' THEN {h} ELSE {}
  BY <1>4, <1>5
<1>7. Standing(f) = IF h \in synced THEN "kept"
                    ELSE IF fh[h].pending_errors THEN "failed" ELSE "open"
  BY <1>3 DEF Standing
<1>8. Standing(f)' = IF f \notin held' THEN "none"
                     ELSE IF h \notin open' \/ h \in synced' THEN "kept"
                     ELSE IF x.pending_errors THEN "failed" ELSE "open"
  BY <1>2, <1>6 DEF Standing
<1>. QED BY <1>3, <1>6, <1>7, <1>8

\* What the other files need of a step on a handle of f.
Confined(h, f) ==
  /\ held' \in {held, held \cup {f}, held \ {f}}
  /\ synced' \in {synced, synced \cup {h}, synced \ {h}}

LEMMA ReaderMoves ==
  ASSUME ViewInv, Forgotten, Forgotten', NEW h \in Handles, NEW f \in Files, NEW x,
         HandleStep(h, f, server[f], x), Confined(h, f), UNCHANGED <<held, want, mode, exit>>,
         h \in open => ~fh[h].writable, h \in open' => ~x.writable
  PROVE  Moves
<1>1. open \subseteq Handles /\ server \in [Files -> Content]
  BY DEF ViewInv, BufferInv, TypeOK
<1>2. /\ fh'[h] = x /\ server'[f] = server[f]
      /\ \A g \in Handles \ {h} : SameHandle(g)
  BY <1>1, OthersSame
<1>3. h \notin Writers(f) /\ h \notin Writers(f)'
  BY <1>2 DEF Writers, HandlesOf
<1>4. open' \subseteq Handles
  BY <1>1 DEF HandleStep
<1>5. Writers(f)' = Writers(f) /\ \A g \in Writers(f) : fh'[g] = fh[g]
  BY <1>1, <1>2, <1>3, <1>4 DEF Writers, HandlesOf, SameHandle
<1>6. Writers(f) \subseteq synced' <=> Writers(f) \subseteq synced
  BY <1>3 DEF Confined
<1>7. Standing(f)' = Standing(f)
  BY <1>5, <1>6 DEF Standing
<1>8. Contract!Same(f)
  BY <1>2, <1>5, <1>7 DEF Contract!Same
<1>9. \A e \in Files \ {f} : Contract!Same(e)
  BY <1>1, OtherFilesSame DEF Confined
<1>10. server' = server
  BY <1>1 DEF HandleStep
<1>. QED BY <1>8, <1>9, <1>10, NothingMoves

\* A step on a writer of f.
LEMMA WriterMoves ==
  ASSUME ViewInv, Forgotten, Forgotten', mode # "stopped", NEW h \in open, NEW f \in Files,
         NEW c, NEW x, HandleStep(h, f, c, x), Confined(h, f), UNCHANGED <<mode, exit>>,
         held' \subseteq held,
         f \in held => Contract!Write(f) \/ Contract!Store(f)
  PROVE  Moves
<1>1. h \in Handles
  BY DEF ViewInv, BufferInv, TypeOK
<1>2. \A e \in Files \ {f} : Contract!Same(e)
  BY <1>1, OtherFilesSame DEF Confined
<1>3. f \notin held => Contract!Unpromised(f)
  BY DEF Contract!Unpromised, Standing
<1>. QED BY <1>2, <1>3, FileMoves

\* Files that stay held to what they were are all that is said of them.
LEMMA WantSame ==
  ASSUME ViewInv, ViewInv', Forgotten, Forgotten', held' = held,
         \A e \in held : want'[e] = want[e]
  PROVE  want' = want
<1>1. want \in [Files -> Content] /\ want' \in [Files -> Content] /\ held \subseteq Files
  BY DEF ViewInv, BufferInv, TypeOK
<1>2. \A e \in Files : want'[e] = want[e]
  BY DEF Forgotten
<1>. QED BY <1>1, <1>2

LEMMA OpenedMoves ==
  ASSUME ViewInv, ViewInv', Forgotten, Forgotten', Ready,
         NEW h, NEW f, NEW wr, NEW trunc, NEW size, NEW intact, NEW c,
         OpenedAs(h, f, wr, trunc, size, intact, c)
  PROVE  Moves
<1>. USE DEF OpenedAs
<1>. DEFINE x == NewFh(f, wr, size)
            keep == KeptAs(f, wr, trunc, intact)
<1>1. /\ HandleStep(h, f, c, x)
      /\ open' = open \cup {h} /\ synced' = synced \ {h}
      /\ UNCHANGED <<mode, task, exit>>
      /\ held' = IF keep THEN held \cup {f} ELSE held \ {f}
      /\ f \in held' => want'[f] = HeldTo(f, trunc)
  BY OpenedHandle
<1>2. x.file = f /\ x.writable = wr /\ ~x.pending_errors /\ x.write_buf = <<>>
  BY DEF NewFh
<1>3. Confined(h, f)
  BY <1>1 DEF Confined
<1>. HIDE DEF x, keep
<1>4. \A e \in Files \ {f} : Contract!Same(e)
  BY <1>1, <1>3, OtherFilesSame DEF Confined
<1>5. /\ open \subseteq Handles /\ fh'[h] = x /\ server'[f] = c
      /\ \A g \in Handles \ {h} : SameHandle(g)
  BY <1>1, OthersSame DEF ViewInv, BufferInv, TypeOK
<1>6. Writers(f) \subseteq Writers(f)' /\ Writers(f)' \subseteq Writers(f) \cup {h}
  BY <1>1, <1>5 DEF Writers, HandlesOf, SameHandle
<1>7. CASE ~keep
  <2>1. Standing(f)' = "none"
    BY <1>1, <1>7 DEF Standing
  <2>2. Contract!Lose(f)
    BY <1>6, <2>1 DEF Contract!Lose
  <2>. QED BY <1>1, <1>4, <2>2, FileMoves
<1>8. CASE keep /\ Writers(f) = {}
  <2>1. want'[f] = c /\ f \in held'
    BY <1>1, <1>8 DEF HeldTo, keep, KeptAs
  <2>2. c \in {server[f], Empty}
    <3>1. f \in held => server[f] = want[f]
      BY <1>8 DEF ViewInv, Session
    <3>. QED BY <1>1, <2>1, <3>1 DEF HeldTo
  <2>3. Standing(f)' = IF Writers(f)' = {} THEN "kept" ELSE "open"
    BY <1>1, <1>2, <1>5, <1>6, <1>8, <2>1 DEF Standing
  <2>4. Contract!Begin(f)
    BY <1>5, <1>8, <2>1, <2>2, <2>3 DEF Contract!Begin
  <2>. QED BY <1>1, <1>4, <2>4, FileMoves DEF Ready
<1>9. CASE keep /\ Writers(f) # {}
  <2>1. f \in held /\ ~wr /\ c = server[f] /\ held' = held /\ want'[f] = want[f]
    BY <1>1, <1>9 DEF HeldTo, keep, KeptAs
  <2>2. want' = want
    BY <1>1, <2>1, WantSame DEF HandleStep
  <2>. QED BY <1>1, <1>2, <1>3, <2>1, <2>2, ReaderMoves
<1>. QED BY <1>7, <1>8, <1>9

\* write_bytes.
LEMMA WriteMoves ==
  ASSUME ViewInv, ViewInv', Forgotten, Forgotten', NEW h \in open, NEW off \in Offsets,
         NEW n \in 1..WriteBufCap, NEW v \in Vals, Write(h, off, n, v)
  PROVE  Moves
<1>. PICK f \in Files : f = fh[h].file
  BY HandleFacts
<1>1. /\ Ready /\ synced' = synced \ {h} /\ UNCHANGED <<open, mode, task, exit>>
      /\ fh[h].writable
  BY DEF Write
<1>2. PICK c, s, ok : WroteAs(h, c, s, ok, off, n, v)
  BY WriteLeaves
<1>. DEFINE x == IF ok THEN Grow(s) ELSE s
<1>3. /\ HandleStep(h, f, c, x)
      /\ x.writable /\ x.pending_errors = s.pending_errors
      /\ held' = held /\ (f \in held /\ ~ok => want'[f] = want[f])
  BY <1>1, <1>2, WroteHandle
<1>4. /\ ok \in BOOLEAN
      /\ ~ok => s.pending_errors
      /\ ok /\ ~fh[h].pending_errors => ~s.pending_errors
      /\ ~s.pending_errors => ~fh[h].pending_errors
  BY <1>2 DEF WroteAs
<1>. HIDE DEF x
<1>5. Confined(h, f)
  BY <1>1, <1>3 DEF Confined
<1>6. ASSUME f \in held PROVE Contract!Write(f)
  <2>1. /\ Writers(f) = {h} /\ Writers(f)' = {h}
        /\ Standing(f) = IF h \in synced THEN "kept"
                         ELSE IF fh[h].pending_errors THEN "failed" ELSE "open"
        /\ Standing(f)' = IF x.pending_errors THEN "failed" ELSE "open"
    BY <1>1, <1>3, <1>6, WriterStanding
  <2>2. h \in synced => ~fh[h].pending_errors
    BY DEF ViewInv, SyncedClean
  <2>3. CASE ~x.pending_errors
    <3>1. Standing(f) \in {"kept", "open"} /\ Standing(f)' = "open"
      BY <1>3, <1>4, <2>1, <2>3
    <3>. QED BY <2>1, <3>1 DEF Contract!Write
  <2>4. CASE x.pending_errors /\ ~fh[h].pending_errors
    <3>1. Standing(f) \in {"kept", "open"} /\ Standing(f)' = "failed"
      BY <2>1, <2>4
    <3>2. want'[f] = want[f]
      BY <1>3, <1>4, <1>6, <2>4
    <3>. QED BY <2>1, <3>1, <3>2 DEF Contract!Write
  <2>5. CASE x.pending_errors /\ fh[h].pending_errors
    <3>1. Standing(f) = "failed" /\ Standing(f)' = "failed"
      BY <2>1, <2>2, <2>5
    <3>. QED BY <2>1, <3>1 DEF Contract!Write
  <2>. QED BY <2>3, <2>4, <2>5
<1>7. mode # "stopped"
  BY <1>1 DEF Ready
<1>. QED BY <1>1, <1>3, <1>5, <1>6, <1>7, WriterMoves

\* A handler that flushes the buffer of a writer and stores, keeps or gives up the handle.
LEMMA StoreMoves ==
  ASSUME ViewInv, Forgotten, Forgotten', mode # "stopped", NEW h \in open, NEW f \in Files,
         NEW c, NEW x, HandleStep(h, f, c, x), Confined(h, f), UNCHANGED <<mode, exit>>,
         held' \subseteq held, fh[h].writable, h \in open' => x.writable,
         f \in held' => want'[f] = want[f],
         h \in synced /\ h \in open' => h \in synced',
         h \in open' /\ fh[h].pending_errors => x.pending_errors /\ h \notin synced',
         f \in held \ held' => h \notin open' /\ h \notin synced,
         f \in held' /\ h \notin open' => ~fh[h].pending_errors
  PROVE  Moves
<1>1. ASSUME f \in held PROVE Contract!Store(f)
  <2>1. /\ Writers(f) = {h} /\ Writers(f)' = IF h \in open' THEN {h} ELSE {}
        /\ Standing(f) = IF h \in synced THEN "kept"
                         ELSE IF fh[h].pending_errors THEN "failed" ELSE "open"
        /\ Standing(f)' = IF f \notin held' THEN "none"
                          ELSE IF h \notin open' \/ h \in synced' THEN "kept"
                          ELSE IF x.pending_errors THEN "failed" ELSE "open"
    BY <1>1, WriterStanding
  <2>2. h \in synced => ~fh[h].pending_errors
    BY DEF ViewInv, SyncedClean
  <2>3. Standing(f)' # "none" => want'[f] = want[f]
    BY <2>1
  <2>4. CASE h \in synced
    <3>1. Standing(f) = "kept" /\ Standing(f)' = "kept"
      BY <1>1, <2>1, <2>4
    <3>. QED BY <2>1, <2>3, <3>1 DEF Contract!Store
  <2>5. CASE h \notin synced /\ f \notin held'
    <3>1. Standing(f) \in {"open", "failed"} /\ Standing(f)' = "none"
          /\ Writers(f)' # Writers(f)
      BY <1>1, <2>1, <2>5
    <3>. QED BY <2>1, <2>3, <3>1 DEF Contract!Store
  <2>6. CASE h \notin synced /\ f \in held' /\ fh[h].pending_errors
    <3>1. Standing(f) = "failed" /\ Standing(f)' = "failed"
      BY <2>1, <2>6
    <3>. QED BY <2>1, <2>3, <3>1 DEF Contract!Store
  <2>7. CASE h \notin synced /\ f \in held' /\ ~fh[h].pending_errors
    <3>1. Standing(f) = "open" /\ Standing(f)' \in {"kept", "open", "failed"}
      BY <2>1, <2>7
    <3>. QED BY <2>1, <2>3, <3>1 DEF Contract!Store
  <2>. QED BY <2>4, <2>5, <2>6, <2>7
<1>. QED BY <1>1, WriterMoves

LEMMA FlushCallbackMoves ==
  ASSUME ViewInv, ViewInv', Forgotten, Forgotten', NEW h \in open, Flush(h)
  PROVE  Moves
<1>1. PICK r \in BufferResults(h) :
        LET res == FlushBuffer(server[fh[h].file], fh[h], r)
        IN /\ server' = [server EXCEPT ![fh[h].file] = res.content]
           /\ fh' = [fh EXCEPT ![h] = res.state]
           /\ synced' = IF CloseSucceeds(res) THEN synced \cup {h} ELSE synced \ {h}
  BY DEF Flush
<1>. PICK f \in Files : f = fh[h].file
  BY HandleFacts
<1>. DEFINE s == fh[h]
            res == FlushBuffer(server[f], s, r)
            t == res.state
<1>2. /\ h \in Handles /\ s \in FhState /\ Placed(s) /\ HandleClean(h)
      /\ server[f] \in Content /\ Padded(server[f]) /\ r \in PutResults(Len(s.write_buf))
  BY HandleFacts DEF BufferResults
<1>3. t.file = f /\ t.writable = s.writable /\ (s.pending_errors => t.pending_errors)
  BY <1>2, FlushBufferType
<1>4. s.write_buf = <<>> => res.content = server[f] /\ t = s /\ res.ok
  BY <1>2, FlushView
<1>5. /\ server' = [server EXCEPT ![f] = res.content] /\ fh' = [fh EXCEPT ![h] = t]
      /\ synced' = IF CloseSucceeds(res) THEN synced \cup {h} ELSE synced \ {h}
      /\ UNCHANGED <<open, task, held, want, mode, exit>> /\ Ready
  BY <1>1 DEF Flush
<1>6. CloseSucceeds(res) <=> res.ok /\ ~t.pending_errors
  BY DEF CloseSucceeds
<1>. HIDE DEF res, t
<1>7. HandleStep(h, f, res.content, t) /\ Confined(h, f)
  BY <1>3, <1>5 DEF HandleStep, Confined
<1>8. CASE s.writable
  <2>1. h \in synced => h \in synced'
    BY <1>2, <1>4, <1>5, <1>6, <1>8 DEF HandleClean
  <2>2. fh[h].pending_errors => t.pending_errors /\ h \notin synced'
    BY <1>3, <1>5, <1>6
  <2>3. mode # "stopped"
    BY <1>5 DEF Ready
  <2>. QED BY <1>3, <1>5, <1>7, <1>8, <2>1, <2>2, <2>3, StoreMoves
<1>9. CASE ~s.writable
  <2>1. res.content = server[f]
    BY <1>2, <1>4, <1>9 DEF HandleClean
  <2>. QED BY <1>2, <1>3, <1>5, <1>7, <1>9, <2>1, ReaderMoves
<1>. QED BY <1>8, <1>9

\* What finalizing a handle leaves of it.
LEMMA FinalizeLeaves ==
  ASSUME ViewInv, NEW h \in open, NEW r \in BufferResults(h), NEW q \in CallResults
  PROVE  LET s   == fh[h]
             res == Finalize(server[s.file], s, r, q)
         IN /\ res.state.file = s.file /\ res.state.writable = s.writable
            /\ s.pending_errors => res.state.pending_errors
            /\ res.ok => ~res.state.pending_errors
            /\ ~s.writable => res.content = server[s.file]
<1>. PICK f \in Files : f = fh[h].file
  BY HandleFacts
<1>. DEFINE s == fh[h]
            res == Finalize(server[f], s, r, q)
<1>1. /\ s \in FhState /\ Placed(s) /\ HandleClean(h) /\ InPlace(server[f])
      /\ server[f] \in Content /\ Padded(server[f]) /\ r \in PutResults(Len(s.write_buf))
  BY HandleFacts DEF BufferResults, ViewInv, BufferInv, BytesInPlace, InPlace
<1>2. res.state = FlushBuffer(server[f], s, r).state /\ (res.ok => ~res.state.pending_errors)
  BY DEF Finalize
<1>3. /\ res.state.file = f /\ res.state.writable = s.writable
      /\ s.pending_errors => res.state.pending_errors
  BY <1>1, <1>2, FlushBufferType
<1>4. ~s.writable => res.content = server[f]
  BY <1>1, FinalizeClean DEF HandleClean
<1>. QED BY <1>2, <1>3, <1>4

LEMMA ReleaseMoves ==
  ASSUME ViewInv, ViewInv', Forgotten, Forgotten', NEW h \in open, Release(h)
  PROVE  Moves
<1>1. PICK r \in BufferResults(h), q \in CallResults :
        LET res == Finalize(server[fh[h].file], fh[h], r, q)
        IN /\ server' = [server EXCEPT ![fh[h].file] = res.content]
           /\ Hold(IF fh[h].writable /\ h \notin synced /\ ~res.ok
                   THEN held \ {fh[h].file} ELSE held, want)
  BY DEF Release
<1>. PICK f \in Files : f = fh[h].file
  BY HandleFacts
<1>. DEFINE s == fh[h]
            res == Finalize(server[f], s, r, q)
            fs == IF s.writable /\ h \notin synced /\ ~res.ok THEN held \ {f} ELSE held
<1>2. h \in Handles /\ HandleClean(h)
  BY HandleFacts
<1>3. /\ s.pending_errors => res.state.pending_errors
      /\ res.ok => ~res.state.pending_errors
      /\ ~s.writable => res.content = server[f]
  BY FinalizeLeaves
<1>4. server' = [server EXCEPT ![f] = res.content] /\ Hold(fs, want)
  BY <1>1
<1>5. /\ fh' = [fh EXCEPT ![h] = FreeSlot] /\ open' = open \ {h}
      /\ synced' = synced \ {h} /\ UNCHANGED <<task, mode, exit>> /\ Ready
  BY DEF Release
<1>. HIDE DEF res
<1>6. held' = fs /\ \A e \in fs : want'[e] = want[e]
  <2>1. TypeOK /\ fs \in SUBSET Files
    BY DEF ViewInv, BufferInv, TypeOK
  <2>. HIDE DEF fs
  <2>. QED BY <1>4, <2>1, HoldKeeps
<1>7. HandleStep(h, f, res.content, FreeSlot) /\ Confined(h, f)
  BY <1>4, <1>5, <1>6 DEF HandleStep, Confined
<1>8. CASE s.writable
  <2>1. f \in held' => ~fh[h].pending_errors
    BY <1>2, <1>3, <1>6, <1>8 DEF HandleClean
  <2>2. f \in held \ held' => h \notin synced
    BY <1>6
  <2>3. mode # "stopped" /\ h \notin open' /\ held' \subseteq held
        /\ (f \in held' => want'[f] = want[f])
    BY <1>5, <1>6 DEF Ready
  <2>. HIDE DEF fs
  <2>. QED BY <1>5, <1>7, <1>8, <2>1, <2>2, <2>3, StoreMoves
<1>9. CASE ~s.writable
  <2>1. held' = held
    BY <1>6, <1>9
  <2>2. want' = want
    BY <1>6, <2>1, WantSame
  <2>. HIDE DEF fs
  <2>. QED BY <1>2, <1>3, <1>5, <1>7, <1>9, <2>1, <2>2, ReaderMoves
<1>. QED BY <1>8, <1>9

LEMMA DrainHandleMoves ==
  ASSUME ViewInv, ViewInv', LifeInv, Forgotten, Forgotten', NEW h \in open, DrainHandle(h)
  PROVE  Moves
<1>1. PICK r \in BufferResults(h), q \in CallResults :
        LET res == Finalize(server[fh[h].file], fh[h], r, q)
        IN /\ server' = [server EXCEPT ![fh[h].file] = res.content]
           /\ open' = IF res.ok THEN open \ {h} ELSE open
           /\ fh' = [fh EXCEPT ![h] = IF res.ok THEN FreeSlot ELSE res.state]
  BY DEF DrainHandle
<1>. PICK f \in Files : f = fh[h].file
  BY HandleFacts
<1>. DEFINE s == fh[h]
            res == Finalize(server[f], s, r, q)
            x == IF res.ok THEN FreeSlot ELSE res.state
<1>2. h \in Handles /\ HandleClean(h)
  BY HandleFacts
<1>3. /\ res.state.file = f /\ res.state.writable = s.writable
      /\ s.pending_errors => res.state.pending_errors
      /\ res.ok => ~res.state.pending_errors
      /\ ~s.writable => res.content = server[f]
  BY FinalizeLeaves
<1>4. /\ server' = [server EXCEPT ![f] = res.content] /\ fh' = [fh EXCEPT ![h] = x]
      /\ open' = IF res.ok THEN open \ {h} ELSE open
  BY <1>1
<1>5. /\ task' = [task EXCEPT !.todo = @ \ {h}] /\ task.name = "drain"
      /\ UNCHANGED <<held, want, synced, mode, exit>>
  BY DEF DrainHandle, told
<1>. HIDE DEF res
<1>6. h \in open' => x = res.state
  BY <1>4
<1>7. HandleStep(h, f, res.content, x) /\ Confined(h, f)
  <2>1. task'.name = task.name /\ task'.files = task.files /\ task'.size = task.size
        /\ task'.todo = task.todo \ {h}
    BY <1>5 DEF ViewInv, BufferInv, TypeOK
  <2>. HIDE DEF x
  <2>. QED BY <1>3, <1>4, <1>5, <1>6, <2>1 DEF HandleStep, Confined
<1>8. h \notin open' => ~s.pending_errors
  BY <1>3, <1>4
<1>9. mode # "stopped"
  BY <1>5 DEF LifeInv, Idle
<1>10. h \in synced => ~s.pending_errors
  BY DEF ViewInv, SyncedClean
<1>. HIDE DEF x
<1>11. CASE s.writable
  BY <1>3, <1>5, <1>6, <1>7, <1>8, <1>9, <1>10, <1>11, StoreMoves
<1>12. CASE ~s.writable
  BY <1>2, <1>3, <1>5, <1>6, <1>7, <1>12, ReaderMoves
<1>. QED BY <1>11, <1>12

LEMMA SetSizeFlushMoves ==
  ASSUME ViewInv, ViewInv', LifeInv, Forgotten, Forgotten', NEW h \in open, SetSizeFlush(h)
  PROVE  Moves
<1>1. PICK r \in BufferResults(h) :
        LET res == FlushBuffer(server[fh[h].file], fh[h], r)
        IN /\ server' = [server EXCEPT ![fh[h].file] = res.content]
           /\ fh' = [fh EXCEPT ![h] = [res.state EXCEPT !.file_size = task.size,
                                                        !.dirty = FALSE]]
  BY DEF SetSizeFlush
<1>. PICK f \in Files : f = fh[h].file
  BY HandleFacts
<1>. DEFINE s == fh[h]
            res == FlushBuffer(server[f], s, r)
            x == [res.state EXCEPT !.file_size = task.size, !.dirty = FALSE]
<1>2. /\ h \in Handles /\ s \in FhState /\ Placed(s) /\ HandleClean(h)
      /\ server[f] \in Content /\ Padded(server[f]) /\ r \in PutResults(Len(s.write_buf))
  BY HandleFacts DEF BufferResults
<1>3. /\ res.state \in FhState /\ res.state.file = f /\ res.state.writable = s.writable
      /\ s.pending_errors => res.state.pending_errors
  BY <1>2, FlushBufferType
<1>4. s.write_buf = <<>> => res.content = server[f]
  BY <1>2, FlushView
<1>5. server' = [server EXCEPT ![f] = res.content] /\ fh' = [fh EXCEPT ![h] = x]
  BY <1>1
<1>6. /\ task.name = "setattr" /\ h \in task.todo /\ task' = [task EXCEPT !.todo = @ \ {h}]
      /\ UNCHANGED <<open, held, want, synced, mode, exit>>
  BY DEF SetSizeFlush, told
<1>. HIDE DEF res
<1>7. x.file = f /\ x.writable = s.writable /\ x.pending_errors = res.state.pending_errors
  BY <1>3 DEF FhState
<1>. HIDE DEF x
<1>8. HandleStep(h, f, res.content, x) /\ Confined(h, f)
  <2>1. /\ task'.name = task.name /\ task'.files = task.files /\ task'.size = task.size
        /\ task'.todo = task.todo \ {h}
    BY <1>6 DEF ViewInv, BufferInv, TypeOK
  <2>. QED BY <1>5, <1>6, <1>7, <2>1 DEF HandleStep, Confined
<1>9. mode # "stopped"
  BY <1>6 DEF LifeInv, Idle
<1>10. s.pending_errors => x.pending_errors /\ h \notin synced'
  BY <1>3, <1>6, <1>7 DEF ViewInv, SyncedClean
<1>11. CASE s.writable
  BY <1>6, <1>7, <1>8, <1>9, <1>10, <1>11, StoreMoves
<1>12. CASE ~s.writable
  <2>1. res.content = server[f]
    BY <1>2, <1>4, <1>12 DEF HandleClean
  <2>. QED BY <1>2, <1>6, <1>7, <1>8, <1>12, <2>1, ReaderMoves
<1>. QED BY <1>11, <1>12

\* A step that touches no handle, and no other file than f.
LEMMA OutsideMoves ==
  ASSUME ViewInv, Forgotten, Forgotten', NEW f \in Files,
         UNCHANGED <<open, fh, synced, mode, exit>>,
         \A e \in Files \ {f} : server'[e] = server[e],
         held' \subseteq held, held \ {f} \subseteq held',
         \A e \in held \ {f} : want'[e] = want[e],
         f \in held' => mode # "stopped" /\ Contract!Truncate(f)
  PROVE  Moves
<1>1. \A e \in Files : Writers(e)' = Writers(e)
  BY DEF Writers, HandlesOf
<1>2. ASSUME NEW e \in Files \ {f} PROVE Contract!Same(e)
  <2>1. want'[e] = want[e] /\ (e \in held' <=> e \in held)
    BY DEF Forgotten
  <2>2. Standing(e)' = Standing(e)
    BY <1>1, <2>1 DEF Standing
  <2>. QED BY <1>1, <2>1, <2>2 DEF Contract!Same
<1>3. f \notin held' => Contract!Lose(f)
  BY <1>1 DEF Contract!Lose, Standing
<1>. QED BY <1>2, <1>3, FileMoves

LEMMA SetSizePutMoves ==
  ASSUME ViewInv, LifeInv, Forgotten, Forgotten', NEW f \in Files, SetSizePut(f)
  PROVE  Moves
<1>1. PICK r \in CallResults :
        /\ server' = IF r.applied THEN [server EXCEPT ![f] = SetLen(@, task.size)]
                     ELSE server
        /\ IF r.ok THEN Hold(held, [want EXCEPT ![f] = SetLen(@, task.size)])
           ELSE Hold(held \ {f}, want)
  BY DEF SetSizePut
<1>2. task.name = "setattr" /\ UNCHANGED <<open, fh, synced, mode, exit>>
  BY DEF SetSizePut
<1>3. /\ task.size \in Nat /\ TypeOK /\ held \in SUBSET Files /\ held \ {f} \in SUBSET Files
      /\ want \in [Files -> Content] /\ server \in [Files -> Content] /\ mode # "stopped"
  BY <1>2, Assumptions DEF ViewInv, BufferInv, TypeOK, Sizes, LifeInv, Idle
<1>4. \A e \in Files \ {f} : server'[e] = server[e]
  BY <1>1, <1>3
<1>5. CASE r.ok
  <2>. DEFINE w == [want EXCEPT ![f] = SetLen(@, task.size)]
  <2>1. /\ \A e \in Files \ {f} : w[e] = want[e]
        /\ w[f] = SetLen(want[f], task.size)
    BY <1>3
  <2>2. Hold(held, w)
    BY <1>1, <1>5
  <2>. HIDE DEF w
  <2>3. held' = held /\ \A e \in held : want'[e] = w[e]
    BY <1>3, <2>2, HoldKeeps
  <2>4. ASSUME f \in held PROVE Contract!Truncate(f)
    <3>1. want'[f] = SetLen(want[f], task.size)
      BY <2>1, <2>3, <2>4
    <3>2. want'[f].size = task.size
          /\ \A o \in Offsets : o < task.size => want'[f].data[o] = want[f].data[o]
      BY <3>1 DEF SetLen
    <3>3. Writers(f)' = Writers(f)
      BY <1>2 DEF Writers, HandlesOf
    <3>4. Standing(f)' = Standing(f) /\ Standing(f) # "none"
      BY <1>2, <2>3, <2>4, <3>3 DEF Standing
    <3>. QED BY <3>2, <3>3, <3>4 DEF Contract!Truncate
  <2>. QED BY <1>2, <1>3, <1>4, <2>1, <2>3, <2>4, OutsideMoves
<1>6. CASE ~r.ok
  <2>1. held' = held \ {f} /\ \A e \in held \ {f} : want'[e] = want[e]
    BY <1>1, <1>3, <1>6, HoldKeeps
  <2>. QED BY <1>2, <1>4, <2>1, OutsideMoves
<1>. QED BY <1>5, <1>6

LEMMA EnvironmentMoves ==
  ASSUME ViewInv, Forgotten, Forgotten', Environment
  PROVE  Moves
<1>1. PICK f \in Files : \/ EmptyPutUnacknowledged(f)
                         \/ \E off, n, v : RemoteWrite(f, off, n, v)
  BY Zenon DEF Environment
<1>2. /\ UNCHANGED <<open, fh, synced, mode, exit>> /\ Hold(held \ {f}, want)
      /\ \A e \in Files \ {f} : server'[e] = server[e]
  <2>1. server \in [Files -> Content]
    BY DEF ViewInv, BufferInv, TypeOK
  <2>. QED BY <1>1, <2>1 DEF EmptyPutUnacknowledged, RemoteWrite, mount
<1>3. held' = held \ {f} /\ \A e \in held \ {f} : want'[e] = want[e]
  <2>1. TypeOK /\ held \ {f} \in SUBSET Files
    BY DEF ViewInv, BufferInv, TypeOK
  <2>. QED BY <1>2, <2>1, HoldKeeps
<1>. QED BY <1>2, <1>3, OutsideMoves

LEMMA QuietMoves ==
  ASSUME UNCHANGED <<server, open, fh, held, want, synced, exit>>,
         mode' = "stopped" <=> mode = "stopped"
  PROVE  Moves
<1>1. \A f \in Files : Writers(f)' = Writers(f)
  BY DEF Writers, HandlesOf
<1>2. \A f \in Files : Standing(f)' = Standing(f)
  BY <1>1 DEF Standing
<1>. QED BY <1>1, <1>2, NothingMoves DEF Contract!Same

LEMMA StopMoves ==
  ASSUME ViewInv, NEW code, Stop(code), code = "ok" => open = {}, mode # "stopped"
  PROVE  Moves
<1>. DEFINE fs == {f \in held : code = "ok" \/ Writers(f) \subseteq synced}
<1>1. /\ open' = {} /\ server' = server /\ exit' = code /\ mode' = "stopped"
      /\ Hold(fs, want)
  BY DEF Stop, store
<1>2. held' = fs /\ \A e \in fs : want'[e] = want[e]
  <2>1. TypeOK /\ fs \in SUBSET Files
    BY DEF ViewInv, BufferInv, TypeOK
  <2>. QED BY <1>1, <2>1, HoldKeeps
<1>3. \A f \in Files : Writers(f)' = {} /\ (code = "ok" => Writers(f) = {})
  BY <1>1 DEF Writers, HandlesOf
<1>4. ASSUME NEW f \in Files, Standing(f) = "kept"
      PROVE  want'[f] = want[f] /\ Standing(f)' = "kept"
  <2>1. f \in fs
    BY <1>4 DEF Standing
  <2>. QED BY <1>2, <1>3, <2>1 DEF Standing
<1>5. ASSUME NEW f \in Files, Standing(f) # "kept"
      PROVE  Standing(f)' = "none"
  <2>1. f \notin fs
    BY <1>3, <1>5 DEF Standing
  <2>. QED BY <1>2, <2>1 DEF Standing
<1>6. code = "ok" => \A f \in Files : Standing(f) \in {"kept", "none"}
  BY <1>3 DEF Standing
<1>. HIDE DEF fs
<1>7. Contract!Stop
  BY <1>1, <1>3, <1>4, <1>5, <1>6 DEF Contract!Stop
<1>. QED BY <1>7 DEF Moves

LEMMA MountMoves ==
  ASSUME Mount
  PROVE  Moves
<1>1. /\ UNCHANGED <<server, open, fh, held, want, synced>> /\ mode = "stopped"
      /\ mode' = "running" /\ exit' = "none"
  BY DEF Mount, store, told
<1>2. \A f \in Files : Writers(f)' = Writers(f)
  BY <1>1 DEF Writers, HandlesOf
<1>3. \A f \in Files : Standing(f)' = Standing(f)
  BY <1>1, <1>2 DEF Standing
<1>4. /\ [f \in Files |-> Writers(f)]' = [f \in Files |-> Writers(f)]
      /\ [f \in Files |-> Standing(f)]' = [f \in Files |-> Standing(f)]
  BY <1>2, <1>3, Zenon
<1>5. Contract!Start
  BY <1>1, <1>4 DEF Contract!Start
<1>. QED BY <1>5 DEF Moves

LEMMA NextMoves ==
  ASSUME ViewInv, ViewInv', LifeInv, Forgotten, Forgotten', [Next]_vars
  PROVE  Moves
<1>1. CASE OpenOrCreate
  <2>1. Ready
    BY <1>1, SomeOpened
  <2>2. PICK h, f, wr, trunc, size, intact, c : OpenedAs(h, f, wr, trunc, size, intact, c)
    BY <1>1, SomeOpened
  <2>. QED BY <2>1, <2>2, OpenedMoves
<1>2. CASE WriteSome
  BY <1>2, WriteMoves DEF WriteSome
<1>3. CASE SetSize
  <2>1. CASE \E f \in Files, n \in Sizes : BeginSetSize(f, n)
    <3>1. UNCHANGED <<server, open, fh, held, want, synced, mode, exit>>
      BY <2>1 DEF BeginSetSize, store, told
    <3>. QED BY <3>1, QuietMoves
  <2>. QED BY <1>3, <2>1, SetSizeFlushMoves, SetSizePutMoves DEF SetSize
<1>4. CASE Close
  BY <1>4, FlushCallbackMoves, ReleaseMoves DEF Close
<1>5. CASE Shutdown
  <2>1. CASE BeginDrain
    <3>1. /\ UNCHANGED <<server, open, fh, held, want, synced, exit>>
          /\ mode = "running" /\ mode' = "draining"
      BY <2>1 DEF BeginDrain, store, told, Ready
    <3>. QED BY <3>1, QuietMoves
  <2>2. CASE FinishDrain
    <3>1. mode # "stopped"
      BY <2>2 DEF FinishDrain, LifeInv, Idle
    <3>. QED BY <2>2, <3>1, StopMoves DEF FinishDrain
  <2>3. CASE Kill
    BY <2>3, StopMoves DEF Kill
  <2>. QED BY <1>5, <2>1, <2>2, <2>3, DrainHandleMoves, MountMoves DEF Shutdown
<1>6. CASE Environment
  BY <1>6, EnvironmentMoves
<1>7. CASE UNCHANGED vars
  <2>1. UNCHANGED <<server, open, fh, held, want, synced, mode, exit>>
    BY <1>7 DEF vars, store, mount, told
  <2>. QED BY <2>1, QuietMoves
<1>. QED BY <1>1, <1>2, <1>3, <1>4, <1>5, <1>6, <1>7 DEF Next

LEMMA ContractStep ==
  ASSUME ViewInv, LifeInv, Forgotten, [Next]_vars, Contract!Promises'
  PROVE  [Contract!Next]_(Contract!vars)
<1>1. ViewInv' /\ Forgotten'
  BY NextView, ForgottenStep
<1>2. Moves
  BY <1>1, NextMoves
<1>. QED BY <1>2, Zenon DEF Moves, Contract!Next

LEMMA ContractInit == Init => Contract!Init /\ Forgotten
<1>. SUFFICES ASSUME Init PROVE Contract!Init /\ Forgotten
  OBVIOUS
<1>1. /\ server = [f \in Files |-> Empty] /\ open = {} /\ held = Files /\ want = server
      /\ mode = "running" /\ exit = "none"
  BY DEF Init
<1>2. \A f \in Files : Writers(f) = {}
  BY <1>1 DEF Writers, HandlesOf
<1>3. \A f \in Files : Standing(f) = "kept"
  BY <1>1, <1>2 DEF Standing
<1>. QED BY <1>1, <1>2, <1>3 DEF Contract!Init, Forgotten

\* What WriteBack does with buffers, PUTs and their failures keeps the contract, for any
\* number of files and handles, any size of a chunk, and any other clients.
THEOREM ContractKept == Spec => ContractImplemented
<1>1. Init => LifeInv /\ Contract!Init /\ Forgotten
  BY ContractInit DEF Init, LifeInv, Idle
<1>2. ViewInv /\ LifeInv /\ Forgotten /\ [Next]_vars /\ Contract!Promises'
        => LifeInv' /\ Forgotten' /\ [Contract!Next]_(Contract!vars)
  <2>. SUFFICES ASSUME ViewInv, LifeInv, Forgotten, [Next]_vars, Contract!Promises'
                PROVE  LifeInv' /\ Forgotten' /\ [Contract!Next]_(Contract!vars)
    OBVIOUS
  <2>1. TypeOK
    BY DEF ViewInv, BufferInv
  <2>. QED BY <2>1, LifeStep, ForgottenStep, ContractStep
<1>. QED BY <1>1, <1>2, ViewInvariant, PromisesHold, PTL DEF Spec, ContractImplemented, Contract!Spec
=============================================================================
