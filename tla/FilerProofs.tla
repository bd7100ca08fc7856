------------------------------ MODULE FilerProofs ------------------------------
(***************************************************************************)
(* For any files, requests and sizes: what the filer's steps, failures and *)
(* power failures leave of a file.                                         *)
(***************************************************************************)
EXTENDS Filer, SequenceTheorems, TLAPS

\* Who the requests are.
Full(r)    == req[r].op = "full"
Partial(r) == req[r].op = "partial"
Reading(r) == req[r].op = "get" /\ req[r].at = "read"
Alone(r)   == Writers(req[r].ino) = {r}

\* No name is another's, and none of a file is that of a temporary one, neither in
\* memory nor on the disk, which is older.
Injective(d) == \A m, n \in Names : d[m] # None /\ d[m] = d[n] => m = n
NotTmp(i)    == \A p \in Paths : dir[Tmp(p)] # i
NamesInv ==
  /\ Injective(dir) /\ Injective(diskDir)
  /\ \A p \in Paths, f \in Files : dir[Tmp(p)] # None => diskDir[f] # dir[Tmp(p)]

\* What a request is in the middle of.
Shape(r) ==
  LET q == req[r]
  IN /\ Full(r) \/ Partial(r) => /\ q.ino \in Inodes
                                 /\ q.start + Len(q.body) <= MaxSize
                                 /\ Len(q.done) <= Len(q.body)
     /\ Full(r) => /\ q.path \in Paths /\ q.start = 0 /\ q.at \in {"write", "publish"}
                   /\ q.body \in Bodies(FullSizes)
                   /\ q.at = "publish" => Len(q.done) = Len(q.body)
     /\ Partial(r) => /\ q.at \in {"length", "write"}
                      /\ q.at = "length" => q.done = <<>>
                      /\ q.size \in {None} \cup 0..MaxSize
     /\ q.op = "get" => /\ q.path \in Paths /\ q.at \in {"measured", "read"}
                        /\ q.at = "measured" => q.done = <<>>
     /\ Reading(r) => q.ino \in Inodes /\ q.size > 0
     /\ q.op = "idle" => q = Idle

\* The temporary file holds what was streamed so far.
FullInv(r) ==
  LET q == req[r]
      i == req[r].ino
  IN Full(r) /\ i \notin muddled =>
       /\ dir[Tmp(q.path)] = i
       /\ Alone(r)
       /\ ideal[i] = q.body
       /\ Len(data[i]) = Len(q.done)
       /\ \A k \in 1..Len(q.done) : data[i][k] = q.body[k]
       /\ q.body = <<>> => diskData[i] = <<>>
       /\ q.at = "publish" => diskData[i] = q.body

\* A file that is patched will be what it shall when the rest is written.
PartInv(r) ==
  LET q == req[r]
      i == req[r].ino
      c == IF q.at = "length" /\ q.size # None THEN SetLen(data[i], q.size) ELSE data[i]
  IN Partial(r) =>
       /\ i \in patched /\ NotTmp(i)
       /\ i \notin muddled =>
            /\ Alone(r)
            /\ ideal[i] = WriteAt(c, q.start, q.body)
            /\ \A k \in 1..Len(q.done) :
                 q.start + k <= Len(data[i]) /\ data[i][q.start + k] = q.body[k]

\* A file that is read stays whole, and what was read are bytes of it.
GetInv(r) ==
  LET q == req[r]
      i == req[r].ino
  IN Reading(r) =>
       /\ NotTmp(i)
       /\ i \notin muddled \cup patched =>
            /\ data[i] \in Bodies(FullSizes)
            /\ \A k \in 1..Len(q.done) :
                 q.start + k <= Len(data[i]) /\ q.done[k] = data[i][q.start + k]

\* NeverHalf and AnsweredStands, for one inode.
Whole(i) ==
  i \in Published /\ i \notin muddled /\ i \notin patched =>
    data[i] \in Bodies(FullSizes) /\ diskData[i] \in Bodies(FullSizes)

Stands(i) ==
  i \in Published /\ i \notin muddled /\ Writers(i) = {} =>
    data[i] = ideal[i] /\ diskData[i] = ideal[i]

Requesting(r) == Shape(r) /\ FullInv(r) /\ PartInv(r) /\ GetInv(r)

\* The inductive invariant.
FilerInv ==
  /\ TypeOK /\ NamesInv
  /\ \A r \in Requests : Requesting(r)
  /\ \A i \in Inodes : Whole(i) /\ Stands(i)

-----------------------------------------------------------------------------
(* Names and contents *)

LEMMA Bounds ==
  /\ MaxSize \in Nat /\ MaxRequests \in Nat
  /\ \A i \in Inodes : i \in Nat /\ i # None
  /\ None \notin Inodes
  /\ FullSizes \subseteq 0..MaxSize /\ PartSizes \subseteq 0..MaxSize
  /\ Totals \subseteq 0..MaxSize /\ PartStarts \subseteq 0..MaxSize
  /\ GetStarts \subseteq 0..MaxSize /\ GetSizes \subseteq 0..MaxSize
BY FilerAssumptions DEF FilerAssumptions, None

LEMMA NameFacts ==
  /\ \A p \in Paths : Tmp(p) \in Names /\ File(p) \in Files
  /\ \A f \in Files : f \in Names
  /\ \A p \in Paths, f \in Files : Tmp(p) # f
  /\ \A p, q \in Paths : Tmp(p) = Tmp(q) => p = q
  /\ \A n \in Names : n \in Files \/ \E p \in Paths : n = Tmp(p)
BY DEF Names, Files, Tmp, File

LEMMA ZeroIsAByte == Zero \in Byte
BY DEF Byte

LEMMA EmptyContent == <<>> \in Content /\ Len(<<>>) = 0
BY Bounds DEF Content

LEMMA EmptyIsEmpty == ASSUME NEW S, NEW s \in Seq(S), Len(s) = 0 PROVE s = <<>>
OBVIOUS

LEMMA BodyType ==
  ASSUME NEW v \in Vals, NEW n \in 0..MaxSize
  PROVE  /\ Body(v, n) \in Content /\ Len(Body(v, n)) = n
         /\ \A k \in 1..n : Body(v, n)[k] = <<v, n, k>>
<1>1. n \in Nat /\ n <= MaxSize /\ MaxSize \in Nat
  BY Bounds
<1>2. \A k \in 1..n : <<v, n, k>> \in Byte
  BY <1>1 DEF Byte
<1>3. Body(v, n) \in [1..n -> Byte]
  BY <1>2 DEF Body
<1> QED
  BY <1>1, <1>3 DEF Content, Body

LEMMA BodiesType ==
  ASSUME NEW S \in SUBSET (0..MaxSize), NEW b \in Bodies(S)
  PROVE  b \in Content
BY BodyType DEF Bodies

LEMMA SetLenType ==
  ASSUME NEW c \in Content, NEW n \in 0..MaxSize
  PROVE  SetLen(c, n) \in Content
<1>1. SetLen(c, n) \in [1..n -> Byte] /\ n \in Nat /\ n <= MaxSize
  BY ZeroIsAByte, Bounds DEF SetLen, Content
<1> QED
  BY <1>1 DEF Content

\* The byte at k after b was written at off of c, and the length.
Mixed(c, off, b, k) == IF off < k /\ k <= off + Len(b) THEN b[k - off]
                       ELSE IF k <= Len(c) THEN c[k] ELSE Zero
LenAfter(c, off, b) == IF b # <<>> /\ Len(c) < off + Len(b) THEN off + Len(b) ELSE Len(c)

LEMMA WriteAtBytes ==
  ASSUME NEW c \in Seq(Byte), NEW off \in Nat, NEW b \in Seq(Byte)
  PROVE  /\ WriteAt(c, off, b) \in Seq(Byte)
         /\ LenAfter(c, off, b) \in Nat
         /\ Len(WriteAt(c, off, b)) = LenAfter(c, off, b)
         /\ \A k \in 1..LenAfter(c, off, b) : WriteAt(c, off, b)[k] = Mixed(c, off, b, k)
<1> DEFINE n == LenAfter(c, off, b)
<1>1. n \in Nat
  BY DEF LenAfter
<1>2. WriteAt(c, off, b) = [k \in 1..n |-> Mixed(c, off, b, k)]
  BY DEF WriteAt, LenAfter, Mixed
<1>3. ASSUME NEW k \in 1..n
      PROVE  Mixed(c, off, b, k) \in Byte
  <2>1. CASE off < k /\ k <= off + Len(b)
    <3>1. k - off \in 1..Len(b)
      BY <1>1, <2>1
    <3> QED
      BY <2>1, <3>1 DEF Mixed
  <2>2. CASE ~(off < k /\ k <= off + Len(b))
    <3>1. Mixed(c, off, b, k) = IF k <= Len(c) THEN c[k] ELSE Zero
      BY <2>2 DEF Mixed
    <3>2. k \in Nat /\ k >= 1
      BY <1>1
    <3>3. k <= Len(c) => c[k] \in Byte
      BY <3>2
    <3> QED
      BY <3>1, <3>3, ZeroIsAByte
  <2> QED
    BY <2>1, <2>2
<1> HIDE DEF n
<1>4. [k \in 1..n |-> Mixed(c, off, b, k)] \in [1..n -> Byte]
  BY <1>3
<1>5. /\ WriteAt(c, off, b) \in Seq(Byte)
      /\ Len(WriteAt(c, off, b)) = n
      /\ \A k \in 1..n : WriteAt(c, off, b)[k] = Mixed(c, off, b, k)
  BY <1>1, <1>2, <1>4
<1> QED
  BY <1>1, <1>5 DEF n

LEMMA WriteAtType ==
  ASSUME NEW c \in Content, NEW off \in Nat, NEW b \in Seq(Byte), off + Len(b) <= MaxSize
  PROVE  WriteAt(c, off, b) \in Content
<1>1. c \in Seq(Byte) /\ Len(c) <= MaxSize
  BY DEF Content
<1>2. LenAfter(c, off, b) <= MaxSize
  BY <1>1 DEF LenAfter
<1> QED
  BY <1>1, <1>2, WriteAtBytes DEF Content

\* Writing the next byte of a body first makes no difference.
LEMMA WriteAtNext ==
  ASSUME NEW c \in Seq(Byte), NEW off \in Nat, NEW b \in Seq(Byte), NEW n \in Nat,
         n + 1 <= Len(b), NEW one \in Seq(Byte), one # <<>>, Len(one) = 1, one[1] = b[n + 1]
  PROVE  WriteAt(WriteAt(c, off + n, one), off, b) = WriteAt(c, off, b)
<1> DEFINE o == off + n
           k == n + 1
           d == WriteAt(c, o, one)
           x == WriteAt(d, off, b)
           y == WriteAt(c, off, b)
<1>1. o \in Nat /\ o + 1 = off + k /\ k \in Nat /\ k >= 1 /\ k <= Len(b) /\ b # <<>>
  OBVIOUS
<1> HIDE DEF o
<1>2. /\ d \in Seq(Byte) /\ Len(d) = LenAfter(c, o, one)
      /\ \A j \in 1..Len(d) : d[j] = Mixed(c, o, one, j)
  BY <1>1, WriteAtBytes
<1>3. Len(d) = IF Len(c) < off + k THEN off + k ELSE Len(c)
  BY <1>1, <1>2 DEF LenAfter, o
<1> HIDE DEF d
<1>4. /\ x \in Seq(Byte) /\ Len(x) = LenAfter(d, off, b)
      /\ \A j \in 1..Len(x) : x[j] = Mixed(d, off, b, j)
  BY <1>2, WriteAtBytes
<1>5. /\ y \in Seq(Byte) /\ Len(y) = LenAfter(c, off, b)
      /\ \A j \in 1..Len(y) : y[j] = Mixed(c, off, b, j)
  BY WriteAtBytes
<1> HIDE DEF x, y
<1>6. Len(x) = Len(y)
  <2>1. off + k <= off + Len(b) /\ Len(c) <= Len(d) /\ Len(d) \in Nat
    BY <1>1, <1>2, <1>3
  <2>2. Len(d) < off + Len(b) => Len(x) = off + Len(b) /\ Len(y) = off + Len(b)
    BY <1>1, <1>4, <1>5, <2>1 DEF LenAfter
  <2>3. ~(Len(d) < off + Len(b)) => Len(x) = Len(d) /\ Len(y) = Len(d)
    BY <1>1, <1>3, <1>4, <1>5, <2>1 DEF LenAfter
  <2> QED
    BY <2>2, <2>3
<1>7. ASSUME NEW j \in 1..Len(x)
      PROVE  x[j] = y[j]
  <2>1. j \in Nat /\ j >= 1 /\ j <= Len(y)
    BY <1>4, <1>6, <1>7
  <2>2. CASE off < j /\ j <= off + Len(b)
    BY <1>4, <1>5, <1>6, <1>7, <2>2 DEF Mixed
  <2>3. CASE ~(off < j /\ j <= off + Len(b))
    <3>1. ~(o < j /\ j <= o + Len(one))
      BY <1>1, <2>1, <2>3 DEF o
    <3>2. Mixed(c, o, one, j) = IF j <= Len(c) THEN c[j] ELSE Zero
      BY <3>1 DEF Mixed
    <3>3. x[j] = (IF j <= Len(d) THEN d[j] ELSE Zero) /\ y[j] = IF j <= Len(c) THEN c[j] ELSE Zero
      BY <1>4, <1>5, <1>6, <1>7, <2>3 DEF Mixed
    <3>4. j <= Len(d) => d[j] = IF j <= Len(c) THEN c[j] ELSE Zero
      BY <1>2, <2>1, <3>2
    <3>5. ~(j <= Len(d)) => ~(j <= Len(c))
      BY <1>2, <1>3, <2>1
    <3> QED
      BY <3>3, <3>4, <3>5
  <2> QED
    BY <2>2, <2>3
<1>8. x = y
  BY <1>4, <1>5, <1>6, <1>7, SeqEqual
<1> QED
  BY <1>8 DEF x, y, d, o

\* Nor does writing a body where it is.
LEMMA WriteAtDone ==
  ASSUME NEW c \in Seq(Byte), NEW off \in Nat, NEW b \in Seq(Byte),
         \A k \in 1..Len(b) : off + k <= Len(c) /\ c[off + k] = b[k]
  PROVE  WriteAt(c, off, b) = c
<1> DEFINE y == WriteAt(c, off, b)
<1>1. /\ y \in Seq(Byte) /\ Len(y) = LenAfter(c, off, b)
      /\ \A j \in 1..Len(y) : y[j] = Mixed(c, off, b, j)
  BY WriteAtBytes
<1> HIDE DEF y
<1>2. Len(y) = Len(c)
  <2>1. CASE b = <<>>
    BY <1>1, <2>1 DEF LenAfter
  <2>2. CASE b # <<>>
    <3>1. Len(b) \in 1..Len(b)
      BY <2>2
    <3>2. off + Len(b) <= Len(c)
      BY <3>1
    <3> QED
      BY <1>1, <3>2 DEF LenAfter
  <2> QED
    BY <2>1, <2>2
<1>3. ASSUME NEW j \in 1..Len(y)
      PROVE  y[j] = c[j]
  <2>1. j \in Nat /\ j >= 1 /\ j <= Len(c)
    BY <1>2, <1>3
  <2>2. CASE off < j /\ j <= off + Len(b)
    <3>1. j - off \in 1..Len(b) /\ off + (j - off) = j
      BY <2>1, <2>2
    <3>2. y[j] = b[j - off]
      BY <1>1, <1>3, <2>2 DEF Mixed
    <3>3. c[off + (j - off)] = b[j - off]
      BY <3>1
    <3> QED
      BY <3>1, <3>2, <3>3
  <2>3. CASE ~(off < j /\ j <= off + Len(b))
    BY <1>1, <1>3, <2>1, <2>3 DEF Mixed
  <2> QED
    BY <2>2, <2>3
<1>4. y = c
  BY <1>1, <1>2, <1>3, SeqEqual
<1> QED
  BY <1>4 DEF y

-----------------------------------------------------------------------------
(* One step *)

\* An inode that a step leaves alone, but for what reaches the disk.
Steady(i) ==
  /\ data'[i] = data[i] /\ ideal'[i] = ideal[i]
  /\ diskData'[i] \in {diskData[i], data[i]}
  /\ i \in muddled => i \in muddled'
  /\ i \in patched' <=> i \in patched

\* A step of request r, or of none, that touches inode t, or none: it is seen to leave
\* the other requests their invariants, which may be those of t if t gets muddled.
StepBy(r, t) ==
  /\ \A s \in Requests : s # r => req'[s] = req[s]
  /\ \A i \in Inodes : i # t => Steady(i) /\ (r \in Writers(i)' <=> r \in Writers(i))
  /\ \A s \in Requests : s # r /\ s \in Writers(t) =>
       t \in muddled' /\ (Partial(s) => t \in patched')
  /\ \A s \in Requests : s # r /\ Reading(s) /\ req[s].ino = t =>
       t \in muddled' \cup patched'
  /\ \A s \in Requests : s # r /\ req[s].ino \in Inodes /\ NotTmp(req[s].ino) =>
       NotTmp(req[s].ino)'
  /\ \A s \in Requests : s # r /\ Full(s) /\ req[s].ino \notin muddled' =>
       dir'[Tmp(req[s].path)] = dir[Tmp(req[s].path)]
  /\ \A i \in Inodes : i \in Published' /\ i \notin muddled' => i \in Published \/ i = t

LEMMA WritersOf ==
  ASSUME NEW i, NEW s \in Requests
  PROVE  s \in Writers(i) <=> (Full(s) \/ Partial(s)) /\ req[s].ino = i
BY DEF Writers, Full, Partial

LEMMA WritersAfter ==
  ASSUME NEW i \in Inodes, NEW r, NEW t, StepBy(r, t), i # t
  PROVE  Writers(i)' = Writers(i)
BY DEF StepBy, Writers

LEMMA InodeFields ==
  ASSUME TypeOK, NEW i \in Inodes
  PROVE  /\ data[i] \in Content /\ diskData[i] \in Content /\ ideal[i] \in Content
         /\ data[i] \in Seq(Byte) /\ Len(data[i]) \in Nat /\ Len(data[i]) <= MaxSize
BY DEF TypeOK, Content

LEMMA RequestFields ==
  ASSUME TypeOK, NEW r \in Requests
  PROVE  /\ req[r] \in Request
         /\ req[r].body \in Seq(Byte) /\ req[r].done \in Seq(Byte)
         /\ req[r].start \in Nat /\ Len(req[r].body) \in Nat /\ Len(req[r].done) \in Nat
         /\ req[r].ino \in Inodes \cup {None} /\ req[r].path \in Paths \cup {None}
         /\ req[r].size \in Int
BY Bounds DEF TypeOK, Request, None

LEMMA ShapeKept ==
  ASSUME NEW s \in Requests, Shape(s), req'[s] = req[s]
  PROVE  Shape(s)'
BY DEF Shape, Full, Partial, Reading

LEMMA FullKept ==
  ASSUME TypeOK, NEW s \in Requests, Shape(s), FullInv(s), NEW r, NEW t, StepBy(r, t), s # r
  PROVE  FullInv(s)'
<1> DEFINE i == req[s].ino
<1>1. req'[s] = req[s]
  BY DEF StepBy
<1> SUFFICES ASSUME Full(s), i \notin muddled'
             PROVE  /\ dir'[Tmp(req[s].path)] = i
                    /\ Writers(i)' = {s}
                    /\ ideal'[i] = req[s].body
                    /\ Len(data'[i]) = Len(req[s].done)
                    /\ \A k \in 1..Len(req[s].done) : data'[i][k] = req[s].body[k]
                    /\ req[s].body = <<>> => diskData'[i] = <<>>
                    /\ req[s].at = "publish" => diskData'[i] = req[s].body
  BY <1>1 DEF FullInv, Full, Alone
<1>2. i \in Inodes /\ s \in Writers(i)
  BY WritersOf DEF Shape
<1>3. i # t
  BY <1>2 DEF StepBy
<1>4. Steady(i) /\ Writers(i)' = Writers(i)
  BY <1>2, <1>3, WritersAfter DEF StepBy
<1>5. i \notin muddled
  BY <1>4 DEF Steady
<1>6. /\ dir[Tmp(req[s].path)] = i
      /\ Writers(i) = {s}
      /\ ideal[i] = req[s].body
      /\ Len(data[i]) = Len(req[s].done)
      /\ \A k \in 1..Len(req[s].done) : data[i][k] = req[s].body[k]
      /\ req[s].body = <<>> => diskData[i] = <<>>
      /\ req[s].at = "publish" => diskData[i] = req[s].body
  BY <1>5 DEF FullInv, Alone
<1>7. dir'[Tmp(req[s].path)] = dir[Tmp(req[s].path)]
  BY DEF StepBy
<1>8. /\ data[i] \in Seq(Byte) /\ req[s].body \in Seq(Byte)
      /\ Len(req[s].done) \in Nat /\ Len(req[s].body) \in Nat
  BY <1>2, InodeFields, RequestFields
<1>9. req[s].body = <<>> => data[i] = <<>>
  BY <1>6, <1>8 DEF Shape
<1>10. req[s].at = "publish" => data[i] = req[s].body
  <2> SUFFICES ASSUME req[s].at = "publish"
               PROVE  data[i] = req[s].body
    OBVIOUS
  <2>1. Len(data[i]) = Len(req[s].body) /\ \A k \in 1..Len(data[i]) : data[i][k] = req[s].body[k]
    BY <1>6 DEF Shape
  <2> HIDE DEF i
  <2> QED
    BY <1>8, <2>1, SeqEqual
<1> QED
  BY <1>4, <1>6, <1>7, <1>9, <1>10 DEF Steady

LEMMA PartKept ==
  ASSUME TypeOK, NEW s \in Requests, Shape(s), PartInv(s), NEW r, NEW t, StepBy(r, t), s # r
  PROVE  PartInv(s)'
<1> DEFINE i == req[s].ino
<1>1. req'[s] = req[s]
  BY DEF StepBy
<1> SUFFICES ASSUME Partial(s)
             PROVE  PartInv(s)'
  BY <1>1 DEF PartInv, Partial
<1>2. i \in Inodes /\ s \in Writers(i)
  BY WritersOf DEF Shape
<1>3. NotTmp(i)'
  BY <1>2 DEF StepBy, PartInv
<1>4. CASE i = t
  <2>1. i \in muddled' /\ i \in patched'
    BY <1>2, <1>4 DEF StepBy
  <2> QED
    BY <1>1, <1>3, <2>1 DEF PartInv, Partial
<1>5. CASE i # t
  <2>1. Steady(i) /\ Writers(i)' = Writers(i)
    BY <1>2, <1>5, WritersAfter DEF StepBy
  <2> QED
    BY <1>1, <1>3, <2>1 DEF PartInv, Partial, Steady, Alone
<1> QED
  BY <1>4, <1>5

LEMMA GetKept ==
  ASSUME NEW s \in Requests, Shape(s), GetInv(s), NEW r, NEW t, StepBy(r, t), s # r
  PROVE  GetInv(s)'
<1> DEFINE i == req[s].ino
<1>1. req'[s] = req[s]
  BY DEF StepBy
<1> SUFFICES ASSUME Reading(s)
             PROVE  GetInv(s)'
  BY <1>1 DEF GetInv, Reading
<1>2. i \in Inodes
  BY DEF Shape
<1>3. NotTmp(i)'
  BY <1>2 DEF StepBy, GetInv
<1>4. CASE i = t
  <2>1. i \in muddled' \cup patched'
    BY <1>4 DEF StepBy
  <2> QED
    BY <1>1, <1>3, <2>1 DEF GetInv, Reading
<1>5. CASE i # t
  <2>1. Steady(i)
    BY <1>2, <1>5 DEF StepBy
  <2> QED
    BY <1>1, <1>3, <2>1 DEF GetInv, Reading, Steady
<1> QED
  BY <1>4, <1>5

LEMMA RequestingKept ==
  ASSUME TypeOK, NEW s \in Requests, Requesting(s), NEW r, NEW t, StepBy(r, t), s # r
  PROVE  Requesting(s)'
<1>1. req'[s] = req[s]
  BY DEF StepBy
<1> QED
  BY <1>1, ShapeKept, FullKept, PartKept, GetKept DEF Requesting

LEMMA InodesKept ==
  ASSUME NEW i \in Inodes, Whole(i), Stands(i), NEW r, NEW t, StepBy(r, t), i # t
  PROVE  Whole(i)' /\ Stands(i)'
<1>1. Steady(i) /\ Writers(i)' = Writers(i)
  BY WritersAfter DEF StepBy
<1>2. i \in Published' /\ i \notin muddled' => i \in Published
  BY DEF StepBy
<1>3. Whole(i)'
  BY <1>1, <1>2 DEF Steady, Whole
<1>4. Stands(i)'
  BY <1>1, <1>2 DEF Steady, Stands
<1> QED
  BY <1>3, <1>4

\* What is left to show of a step: the types, the names, the request that makes it and
\* the inode that it touches.
LEMMA StepKeeps ==
  ASSUME FilerInv, NEW r, NEW t, StepBy(r, t), TypeOK', NamesInv',
         r \in Requests => Requesting(r)',
         t \in Inodes => Whole(t)' /\ Stands(t)'
  PROVE  FilerInv'
<1>1. \A s \in Requests : Requesting(s)'
  BY RequestingKept DEF FilerInv
<1>2. \A i \in Inodes : Whole(i)' /\ Stands(i)'
  BY InodesKept DEF FilerInv
<1> QED
  BY <1>1, <1>2 DEF FilerInv

-----------------------------------------------------------------------------
(* Requests and readers *)

LEMMA SameNames ==
  ASSUME dir' = dir, diskDir' = diskDir
  PROVE  /\ NamesInv => NamesInv'
         /\ \A i : NotTmp(i)' <=> NotTmp(i)
         /\ \A i : i \in Published' <=> i \in Published
BY DEF NamesInv, Injective, NotTmp, Published

\* The slot of request r gets q.
LEMMA NewRequest ==
  ASSUME TypeOK, NEW r \in Requests, NEW q, req' = [req EXCEPT ![r] = q]
  PROVE  /\ req'[r] = q
         /\ \A s \in Requests : s # r => req'[s] = req[s]
         /\ q \in Request => req' \in [Requests -> Request]
BY DEF TypeOK

LEMMA IdleRequest ==
  /\ Idle \in Request
  /\ Idle.op = "idle" /\ Idle.ino = None /\ Idle.done = <<>> /\ Idle.start = 0
BY Bounds DEF Idle, Request

\* What becomes of a request is a request.
LEMMA ReadRequest ==
  ASSUME NEW q \in Request, NEW i \in Inodes
  PROVE  [q EXCEPT !.ino = i, !.at = "read"] \in Request
BY DEF Request

LEMMA FetchedRequest ==
  ASSUME NEW q \in Request, NEW d \in Seq(Byte)
  PROVE  [q EXCEPT !.done = d] \in Request
BY DEF Request

LEMMA PartialRequest ==
  ASSUME NEW i \in Inodes, NEW off \in 0..MaxSize, NEW b \in Seq(Byte),
         NEW total \in (-MaxSize..MaxSize) \cup {None}
  PROVE  [Idle EXCEPT !.op = "partial", !.ino = i, !.at = "length", !.start = off,
                      !.size = total, !.body = b] \in Request
BY IdleRequest DEF Request

LEMMA IdleKeeps ==
  ASSUME NEW r \in Requests, req'[r] = Idle
  PROVE  /\ Requesting(r)'
         /\ \A i : r \notin Writers(i)'
BY IdleRequest DEF Requesting, Shape, FullInv, PartInv, GetInv, Full, Partial, Reading, Writers

\* Requests have inodes open, not None.
LEMMA NoneIsNotOpen ==
  ASSUME NEW s \in Requests, Shape(s)
  PROVE  /\ s \notin Writers(None)
         /\ ~(Reading(s) /\ req[s].ino = None)
BY Bounds, WritersOf DEF Shape

\* A step of a request that only reads.
LEMMA QuietStep ==
  ASSUME FilerInv, NEW r \in Requests, UNCHANGED <<dir, data, disk, watch>>,
         \A s \in Requests : s # r => req'[s] = req[s],
         \A i \in Inodes : r \notin Writers(i) /\ r \notin Writers(i)'
  PROVE  StepBy(r, None)
<1>1. \A i \in Inodes : Steady(i)
  BY DEF Steady, disk, watch
<1>2. \A s \in Requests : Shape(s)
  BY DEF FilerInv, Requesting
<1>3. \A s \in Requests : NotTmp(req[s].ino) /\ s # r => NotTmp(req[s].ino)'
  BY SameNames DEF disk, NotTmp
<1>4. \A i \in Inodes : i \in Published' => i \in Published
  BY SameNames DEF disk
<1> QED
  BY <1>1, <1>2, <1>3, <1>4, NoneIsNotOpen DEF StepBy, disk

LEMMA QuietTypes ==
  ASSUME TypeOK, UNCHANGED <<dir, data, disk, watch>>, req' \in [Requests -> Request],
         accepted' \in 0..MaxRequests
  PROVE  TypeOK'
BY DEF TypeOK, disk, watch

LEMMA AcceptTypes ==
  ASSUME TypeOK, NEW r \in Requests, Accept(r)
  PROVE  accepted' \in 0..MaxRequests /\ req[r] = Idle /\ \A i : r \notin Writers(i)
<1>1. accepted' \in 0..MaxRequests /\ req[r] = Idle
  BY Bounds DEF TypeOK, Accept
<1>2. \A i : r \notin Writers(i)
  BY <1>1, IdleRequest DEF Writers
<1> QED
  BY <1>1, <1>2

LEMMA MeasureKeeps ==
  ASSUME FilerInv, NEW r \in Requests, NEW p \in Paths, NEW off \in GetStarts,
         NEW n \in GetSizes, Measure(r, p, off, n)
  PROVE  FilerInv'
<1> DEFINE i == dir[File(p)]
           q == [Idle EXCEPT !.op = "get", !.path = p, !.start = off, !.at = "measured",
                             !.size = Lesser(n, Len(data[i]) - off)]
<1>1. TypeOK /\ req' = [req EXCEPT ![r] = q] /\ UNCHANGED <<dir, data, disk, watch>>
  BY DEF Measure, FilerInv
<1>2. i \in Inodes
  BY NameFacts DEF Measure, FilerInv, TypeOK
<1>3. Len(data[i]) \in 0..MaxSize /\ off \in 0..MaxSize /\ n \in 0..MaxSize /\ MaxSize \in Nat
  BY <1>1, <1>2, InodeFields, Bounds
<1>4. Lesser(n, Len(data[i]) - off) \in -MaxSize..MaxSize
  BY <1>3 DEF Lesser
<1>5. q \in Request
  BY <1>3, <1>4, IdleRequest DEF Request
<1>6. /\ q.op = "get" /\ q.path = p /\ q.at = "measured" /\ q.done = <<>>
  BY DEF Idle
<1> HIDE DEF q
<1>7. /\ req'[r] = q /\ \A s \in Requests : s # r => req'[s] = req[s]
      /\ req' \in [Requests -> Request]
  BY <1>1, <1>5, NewRequest
<1>8. Requesting(r)'
  BY <1>6, <1>7 DEF Requesting, Shape, FullInv, PartInv, GetInv, Full, Partial, Reading
<1>9. accepted' \in 0..MaxRequests /\ \A j : r \notin Writers(j)
  BY <1>1, AcceptTypes DEF Measure
<1>10. \A j : r \notin Writers(j)'
  BY <1>6, <1>7 DEF Writers
<1>11. StepBy(r, None)
  BY <1>1, <1>7, <1>9, <1>10, QuietStep
<1>12. TypeOK' /\ NamesInv'
  BY <1>1, <1>7, <1>9, QuietTypes, SameNames DEF FilerInv, disk
<1> QED
  BY <1>8, <1>11, <1>12, StepKeeps, Bounds

\* An inode that has the name of a file has none of a temporary file.
LEMMA FileIsNotTmp ==
  ASSUME NamesInv, NEW f \in Files, dir[f] # None
  PROVE  NotTmp(dir[f])
BY NameFacts DEF NamesInv, Injective, NotTmp

LEMMA OpenReadKeeps ==
  ASSUME FilerInv, NEW r \in Requests, OpenRead(r)
  PROVE  FilerInv'
<1> DEFINE i == dir[File(req[r].path)]
           open == ~(i = None \/ req[r].size <= 0)
           q == IF open THEN [req[r] EXCEPT !.ino = i, !.at = "read"] ELSE Idle
<1>1. /\ TypeOK /\ req' = [req EXCEPT ![r] = q] /\ UNCHANGED <<dir, data, disk, watch, accepted>>
      /\ req[r].op = "get" /\ req[r].at = "measured"
  BY DEF OpenRead, FilerInv, TypeOK
<1>2. Shape(r) /\ req[r].path \in Paths /\ req[r].done = <<>>
  BY <1>1 DEF FilerInv, Requesting, Shape
<1>3. i \in Inodes \cup {None} /\ File(req[r].path) \in Files
  BY <1>1, <1>2, NameFacts DEF TypeOK
<1>4. req[r] \in Request /\ req[r].size \in Int
  BY <1>1, RequestFields
<1>5. q \in Request
  <2>1. CASE open
    BY <1>3, <1>4, <2>1, ReadRequest
  <2>2. CASE ~open
    BY <2>2, IdleRequest
  <2> QED
    BY <2>1, <2>2
<1>6. ~open => q = Idle
  OBVIOUS
<1>7. open => /\ q.op = "get" /\ q.path = req[r].path /\ q.at = "read" /\ q.done = <<>>
              /\ q.ino = i /\ q.size = req[r].size /\ i \in Inodes /\ q.size > 0
  BY <1>1, <1>2, <1>3, <1>4 DEF Request
<1>8. i # None => NotTmp(i) /\ i \in Published
  BY <1>3, FileIsNotTmp DEF FilerInv, Published
<1>9. i # None => (i \notin muddled \cup patched => data[i] \in Bodies(FullSizes))
  BY <1>3, <1>8 DEF FilerInv, Whole
<1> HIDE DEF q, i, open
<1>10. /\ req'[r] = q /\ \A s \in Requests : s # r => req'[s] = req[s]
       /\ req' \in [Requests -> Request]
  BY <1>1, <1>5, NewRequest
<1>11. \A j : r \notin Writers(j) /\ r \notin Writers(j)'
  BY <1>1, <1>6, <1>7, <1>10, IdleRequest DEF Writers
<1>12. Requesting(r)'
  <2>1. CASE ~open
    BY <1>6, <1>10, <2>1, IdleKeeps
  <2>2. CASE open
    <3>1. Shape(r)' /\ FullInv(r)' /\ PartInv(r)'
      BY <1>2, <1>7, <1>10, <2>2 DEF Shape, FullInv, PartInv, Full, Partial, Reading
    <3>2. i # None /\ data' = data /\ muddled' = muddled /\ patched' = patched /\ dir' = dir
      BY <1>1, <1>7, <2>2, Bounds DEF watch
    <3>3. GetInv(r)'
      BY <1>7, <1>8, <1>9, <1>10, <2>2, <3>2 DEF GetInv, NotTmp
    <3> QED
      BY <3>1, <3>3 DEF Requesting
  <2> QED
    BY <2>1, <2>2
<1>13. StepBy(r, None)
  BY <1>1, <1>10, <1>11, QuietStep
<1>14. TypeOK' /\ NamesInv'
  BY <1>1, <1>10, QuietTypes, SameNames DEF FilerInv, disk, TypeOK
<1> QED
  BY <1>12, <1>13, <1>14, StepKeeps, Bounds

LEMMA FetchKeeps ==
  ASSUME FilerInv, NEW r \in Requests, Fetch(r)
  PROVE  FilerInv'
<1> DEFINE i == req[r].ino
           n == Len(req[r].done)
           k == req[r].start + n + 1
           over == n = req[r].size \/ k > Len(data[i])
           q == IF over THEN Idle ELSE [req[r] EXCEPT !.done = Append(req[r].done, data[i][k])]
<1>1. /\ TypeOK /\ req' = [req EXCEPT ![r] = q] /\ UNCHANGED <<dir, data, disk, accepted, watch>>
      /\ Reading(r) /\ req[r].op = "get"
  BY DEF Fetch, FilerInv, TypeOK, Reading
<1>2. Shape(r) /\ GetInv(r) /\ i \in Inodes
  BY <1>1 DEF FilerInv, Requesting, Shape
<1>3. /\ req[r] \in Request /\ req[r].done \in Seq(Byte) /\ n \in Nat
      /\ req[r].start \in Nat /\ data[i] \in Seq(Byte) /\ req[r].size \in Int
  BY <1>1, <1>2, RequestFields, InodeFields
<1>4. ~over => k \in 1..Len(data[i]) /\ data[i][k] \in Byte
  <2>1. k \in Nat /\ k >= 1 /\ Len(data[i]) \in Nat
    BY <1>3, SMTT(30)
  <2> HIDE DEF k, i
  <2>2. k <= Len(data[i]) => k \in 1..Len(data[i]) /\ data[i][k] \in Byte
    BY <1>3, <2>1
  <2> QED
    BY <2>1, <2>2
<1>5. ~over => /\ Append(req[r].done, data[i][k]) \in Seq(Byte)
               /\ Len(Append(req[r].done, data[i][k])) = n + 1
               /\ \A j \in 1..(n + 1) : Append(req[r].done, data[i][k])[j] =
                    IF j = n + 1 THEN data[i][k] ELSE req[r].done[j]
  BY <1>3, <1>4
<1>6. q \in Request
  <2>1. CASE over
    BY <2>1, IdleRequest
  <2>2. CASE ~over
    BY <1>3, <1>5, <2>2, FetchedRequest
  <2> QED
    BY <2>1, <2>2
<1>7. ~over => /\ q.op = "get" /\ q.path = req[r].path /\ q.at = "read" /\ q.ino = i
               /\ q.done = Append(req[r].done, data[i][k]) /\ q.size = req[r].size
               /\ q.start = req[r].start
  BY <1>1, <1>3 DEF Request, Reading
<1>8. over => q = Idle
  OBVIOUS
<1> HIDE DEF q
<1>9. /\ req'[r] = q /\ \A s \in Requests : s # r => req'[s] = req[s]
      /\ req' \in [Requests -> Request]
  BY <1>1, <1>6, NewRequest
<1>10. \A j : r \notin Writers(j) /\ r \notin Writers(j)'
  BY <1>1, <1>7, <1>8, <1>9, IdleRequest DEF Writers
<1>11. Requesting(r)'
  <2>1. CASE over
    BY <1>8, <1>9, <2>1, IdleKeeps
  <2>2. CASE ~over
    <3>1. Shape(r)' /\ FullInv(r)' /\ PartInv(r)'
      BY <1>1, <1>2, <1>7, <1>9, <2>2 DEF Shape, FullInv, PartInv, Full, Partial, Reading
    <3>2. data' = data /\ muddled' = muddled /\ patched' = patched /\ dir' = dir
      BY <1>1 DEF watch
    <3>3. NotTmp(i)
      BY <1>1, <1>2 DEF GetInv
    <3>4. ASSUME i \notin muddled \cup patched, NEW j \in 1..Len(q.done)
          PROVE  q.start + j <= Len(data[i]) /\ q.done[j] = data[i][q.start + j]
      <4>1. j \in 1..(n + 1) /\ q.done[j] = IF j = n + 1 THEN data[i][k] ELSE req[r].done[j]
        BY <1>5, <1>7, <2>2, <3>4
      <4>2. CASE j = n + 1
        <5>1. req[r].start + j = k
          BY <1>3, <4>2, SMTT(30)
        <5>2. k <= Len(data[i])
          BY <1>3, <1>4, <2>2
        <5> QED
          BY <1>7, <2>2, <4>1, <4>2, <5>1, <5>2
      <4>3. CASE j # n + 1
        <5>1. j \in 1..n
          BY <1>3, <4>1, <4>3, SMTT(30)
        <5> QED
          BY <1>1, <1>2, <1>7, <2>2, <3>4, <4>1, <4>3, <5>1 DEF GetInv
      <4> QED
        BY <4>2, <4>3
    <3>5. i \notin muddled \cup patched => data[i] \in Bodies(FullSizes)
      BY <1>1, <1>2 DEF GetInv
    <3>6. GetInv(r)'
      BY <1>7, <1>9, <2>2, <3>2, <3>3, <3>4, <3>5 DEF GetInv, NotTmp
    <3> QED
      BY <3>1, <3>6 DEF Requesting
  <2> QED
    BY <2>1, <2>2
<1>12. StepBy(r, None)
  BY <1>1, <1>9, <1>10, QuietStep
<1>13. TypeOK' /\ NamesInv'
  BY <1>1, <1>9, QuietTypes, SameNames DEF FilerInv, disk, TypeOK
<1> QED
  BY <1>11, <1>12, <1>13, StepKeeps, Bounds

\* The inode of a full PUT that nobody disturbed is that of the temporary file, and of
\* no other.
LEMMA FullIsHidden ==
  ASSUME FilerInv, NEW r \in Requests, Full(r), req[r].ino \notin muddled
  PROVE  /\ req[r].ino \notin Published
         /\ \A s \in Requests : ~(Reading(s) /\ req[s].ino = req[r].ino)
<1> DEFINE i == req[r].ino
           p == req[r].path
<1>1. p \in Paths /\ i \in Inodes /\ dir[Tmp(p)] = i /\ i # None
  BY Bounds DEF FilerInv, Requesting, Shape, FullInv
<1>2. \A f \in Files : dir[f] # i /\ diskDir[f] # i
  BY <1>1, NameFacts DEF FilerInv, NamesInv, Injective
<1>3. i \notin Published
  BY <1>2 DEF Published
<1>4. \A s \in Requests : Reading(s) => NotTmp(req[s].ino)
  BY DEF FilerInv, Requesting, GetInv
<1> QED
  BY <1>1, <1>3, <1>4 DEF NotTmp

\* Who else has the inode of a writer open.
LEMMA OtherWriters ==
  ASSUME FilerInv, NEW r \in Requests, Full(r) \/ Partial(r)
  PROVE  /\ req[r].ino \in Inodes /\ r \in Writers(req[r].ino)
         /\ \A s \in Requests : s # r /\ s \in Writers(req[r].ino) =>
              req[r].ino \in muddled /\ (Partial(s) => req[r].ino \in patched)
         /\ \A s \in Requests : s # r /\ Reading(s) /\ req[s].ino = req[r].ino =>
              req[r].ino \in muddled \cup patched
<1> DEFINE i == req[r].ino
<1>1. i \in Inodes /\ r \in Writers(i)
  BY WritersOf DEF FilerInv, Requesting, Shape
<1>2. i \notin muddled => Writers(i) = {r}
  BY DEF FilerInv, Requesting, FullInv, PartInv, Alone
<1>3. \A s \in Requests : s \in Writers(i) /\ Partial(s) => i \in patched
  BY WritersOf DEF FilerInv, Requesting, PartInv
<1>4. ASSUME NEW s \in Requests, Reading(s), req[s].ino = i
      PROVE  i \in muddled \cup patched
  <2>1. CASE Full(r)
    BY <1>4, <2>1, FullIsHidden
  <2>2. CASE Partial(r)
    BY <2>2 DEF FilerInv, Requesting, PartInv
  <2> QED
    BY <2>1, <2>2
<1> QED
  BY <1>1, <1>2, <1>3, <1>4

\* A step that leaves the directory, and of the inodes only that of its writer.
LEMMA WriterStep ==
  ASSUME FilerInv, NEW r \in Requests, Full(r) \/ Partial(r),
         \A s \in Requests : s # r => req'[s] = req[s],
         \A i \in Inodes : i # req[r].ino => Steady(i) /\ r \notin Writers(i)',
         dir' = dir, diskDir' = diskDir, muddled \subseteq muddled', patched' = patched
  PROVE  StepBy(r, req[r].ino)
<1>1. \A i \in Inodes : i # req[r].ino => r \notin Writers(i)
  BY WritersOf
<1>2. \A s \in Requests : NotTmp(req[s].ino) /\ s # r => NotTmp(req[s].ino)'
  BY DEF NotTmp
<1>3. \A i \in Inodes : i \in Published' => i \in Published
  BY SameNames
<1> HIDE DEF FilerInv
<1> QED
  BY <1>1, <1>2, <1>3, OtherWriters DEF StepBy

LEMMA AbortKeeps ==
  ASSUME FilerInv, NEW r \in Requests, Abort(r)
  PROVE  FilerInv'
<1>1. /\ TypeOK /\ req' = [req EXCEPT ![r] = Idle]
      /\ UNCHANGED <<dir, data, disk, ideal, patched, accepted>>
      /\ muddled' = muddled \cup Half({r})
  BY DEF Abort, FilerInv
<1>2. /\ req'[r] = Idle /\ \A s \in Requests : s # r => req'[s] = req[s]
      /\ req' \in [Requests -> Request]
  BY <1>1, IdleRequest, NewRequest
<1>3. Requesting(r)' /\ \A j : r \notin Writers(j)'
  BY <1>2, IdleKeeps
<1>4. Half({r}) \subseteq Inodes /\ \A j \in Inodes : j \in Half({r}) <=> r \in Writers(j)
  BY DEF Half
<1>5. TypeOK' /\ NamesInv'
  BY <1>1, <1>2, <1>4, SameNames DEF FilerInv, TypeOK, disk
<1>6. \A j \in Inodes : Steady(j)
  BY <1>1 DEF Steady, disk
<1>7. CASE Full(r) \/ Partial(r)
  <2> PICK i \in Inodes : i = req[r].ino
    BY <1>7, OtherWriters
  <2>1. StepBy(r, i)
    BY <1>1, <1>2, <1>3, <1>6, <1>7, WriterStep DEF disk
  <2>2. i \in muddled'
    BY <1>1, <1>4, <1>7, OtherWriters
  <2>3. Whole(i)' /\ Stands(i)'
    BY <2>2 DEF Whole, Stands
  <2> QED
    BY <1>3, <1>5, <2>1, <2>3, StepKeeps
<1>8. CASE ~(Full(r) \/ Partial(r))
  <2>1. \A j \in Inodes : r \notin Writers(j)
    BY <1>8, WritersOf
  <2>2. muddled' = muddled
    BY <1>1, <1>4, <2>1
  <2>3. StepBy(r, None)
    BY <1>1, <1>2, <1>3, <2>1, <2>2, QuietStep DEF watch
  <2> QED
    BY <1>3, <1>5, <2>3, StepKeeps, Bounds
<1> QED
  BY <1>7, <1>8

\* What a sync leaves.
LEMMA SyncTypes ==
  ASSUME TypeOK, NEW r \in Requests, req' \in [Requests -> Request],
         UNCHANGED <<dir, data, diskDir, watch, accepted>>,
         \/ diskData' = diskData
         \/ diskData' = [diskData EXCEPT ![req[r].ino] = data[req[r].ino]],
         req[r].ino \in Inodes
  PROVE  /\ TypeOK'
         /\ \A i \in Inodes : i # req[r].ino => diskData'[i] = diskData[i]
         /\ diskData'[req[r].ino] \in {diskData[req[r].ino], data[req[r].ino]}
BY DEF TypeOK, watch

LEMMA SyncFullKeeps ==
  ASSUME FilerInv, NEW r \in Requests, SyncFull(r)
  PROVE  FilerInv'
<1> PICK i \in Inodes : i = req[r].ino
  BY OtherWriters DEF SyncFull, Full
<1> DEFINE q == [req[r] EXCEPT !.at = "publish"]
<1>1. /\ TypeOK /\ req' = [req EXCEPT ![r] = q]
      /\ UNCHANGED <<dir, data, diskDir, watch, accepted>>
      /\ Full(r) /\ req[r].at = "write" /\ Len(req[r].done) = Len(req[r].body)
      /\ diskData' = IF req[r].body = <<>> THEN diskData
                     ELSE [diskData EXCEPT ![i] = data[i]]
  BY DEF SyncFull, Streamed, FilerInv, Full
<1>2. /\ Shape(r) /\ FullInv(r)
      /\ req[r] \in Request /\ i \in Inodes
      /\ data[i] \in Seq(Byte) /\ req[r].body \in Seq(Byte)
      /\ i \in Inodes /\ r \in Writers(i)
  BY <1>1, RequestFields, InodeFields, OtherWriters DEF FilerInv, Requesting
<1>3. q \in Request
  BY <1>2 DEF Request
<1>4. /\ q.op = "full" /\ q.path = req[r].path /\ q.ino = i /\ q.at = "publish"
      /\ q.start = req[r].start /\ q.body = req[r].body /\ q.done = req[r].done
  BY <1>1, <1>2 DEF Request, Full
<1> HIDE DEF q
<1>5. /\ req'[r] = q /\ \A s \in Requests : s # r => req'[s] = req[s]
      /\ req' \in [Requests -> Request]
  BY <1>1, <1>3, NewRequest
<1>6. TypeOK' /\ \A j \in Inodes : diskData'[j] \in {diskData[j], data[j]}
  BY <1>1, <1>2, <1>5, SyncTypes
<1>7. NamesInv'
  BY <1>1, SameNames DEF FilerInv
<1>8. \A j \in Inodes : Steady(j)
  BY <1>1, <1>6 DEF Steady, watch
<1>9. \A j : r \in Writers(j)' <=> j = i
  BY <1>4, <1>5 DEF Writers
<1>10. StepBy(r, i)
  BY <1>1, <1>5, <1>8, <1>9, WriterStep DEF watch
<1>11. i \notin muddled => data[i] = req[r].body
  BY <1>1, <1>2, SeqEqual DEF FullInv
<1>12. i \notin muddled => diskData'[i] = req[r].body
  BY <1>1, <1>2, <1>11 DEF TypeOK, FullInv
<1>13. Shape(r)' /\ PartInv(r)' /\ GetInv(r)'
  BY <1>1, <1>2, <1>4, <1>5 DEF Shape, PartInv, GetInv, Full, Partial, Reading
<1>14. i \notin muddled => Alone(r)'
  <2> SUFFICES ASSUME i \notin muddled
               PROVE  Writers(i)' = {r}
    BY <1>4, <1>5 DEF Alone
  <2>1. Writers(i) = {r}
    BY <1>1, <1>2 DEF FullInv, Alone
  <2>2. \A s \in Requests : s # r => (s \in Writers(i)' <=> s \in Writers(i))
    BY <1>5 DEF Writers
  <2>3. Writers(i)' \subseteq Requests
    BY DEF Writers
  <2> QED
    BY <1>9, <2>1, <2>2, <2>3
<1>15. FullInv(r)'
  <2>1. Full(r)' <=> TRUE
    BY <1>4, <1>5 DEF Full
  <2>2. data' = data /\ muddled' = muddled /\ ideal' = ideal /\ dir' = dir
    BY <1>1 DEF watch
  <2>3. i \notin muddled => /\ dir[Tmp(req[r].path)] = i /\ ideal[i] = req[r].body
                            /\ Len(data[i]) = Len(req[r].done)
                            /\ \A k \in 1..Len(req[r].done) : data[i][k] = req[r].body[k]
    BY <1>1, <1>2 DEF FullInv
  <2> QED
    BY <1>4, <1>5, <1>12, <1>14, <2>2, <2>3 DEF FullInv
<1>16. Whole(i)' /\ Stands(i)'
  <2>1. i \notin muddled => i \notin Published'
    BY <1>1, FullIsHidden, SameNames
  <2>2. muddled' = muddled /\ Writers(i)' # {}
    BY <1>1, <1>9 DEF watch
  <2> QED
    BY <2>1, <2>2 DEF Whole, Stands
<1> QED
  BY <1>6, <1>7, <1>10, <1>13, <1>15, <1>16, StepKeeps DEF Requesting

LEMMA SyncPartialKeeps ==
  ASSUME FilerInv, NEW r \in Requests, SyncPartial(r)
  PROVE  FilerInv'
<1> PICK i \in Inodes : i = req[r].ino
  BY OtherWriters DEF SyncPartial, Partial
<1>1. /\ TypeOK /\ req' = [req EXCEPT ![r] = Idle]
      /\ UNCHANGED <<dir, data, diskDir, watch, accepted>>
      /\ Partial(r) /\ req[r].at = "write" /\ Len(req[r].done) = Len(req[r].body)
      /\ diskData' = [diskData EXCEPT ![i] = data[i]]
  BY DEF SyncPartial, Streamed, FilerInv, Partial
<1>2. /\ Shape(r) /\ PartInv(r)
      /\ data[i] \in Seq(Byte) /\ req[r].body \in Seq(Byte) /\ req[r].start \in Nat
      /\ i \in Inodes /\ r \in Writers(i)
  BY <1>1, RequestFields, InodeFields, OtherWriters DEF FilerInv, Requesting
<1>3. /\ req'[r] = Idle /\ \A s \in Requests : s # r => req'[s] = req[s]
      /\ req' \in [Requests -> Request]
  BY <1>1, IdleRequest, NewRequest
<1>4. Requesting(r)' /\ \A j : r \notin Writers(j)'
  BY <1>3, IdleKeeps
<1>5. TypeOK' /\ \A j \in Inodes : diskData'[j] \in {diskData[j], data[j]}
  BY <1>1, <1>2, <1>3, SyncTypes
<1>6. NamesInv'
  BY <1>1, SameNames DEF FilerInv
<1>7. \A j \in Inodes : Steady(j)
  BY <1>1, <1>5 DEF Steady, watch
<1>8. StepBy(r, i)
  BY <1>1, <1>3, <1>4, <1>7, WriterStep DEF watch
<1>9. i \notin muddled => ideal[i] = data[i]
  <2>1. i \notin muddled => /\ ideal[i] = WriteAt(data[i], req[r].start, req[r].body)
                            /\ \A k \in 1..Len(req[r].body) :
                                 /\ req[r].start + k <= Len(data[i])
                                 /\ data[i][req[r].start + k] = req[r].body[k]
    BY <1>1, <1>2 DEF PartInv
  <2> QED
    BY <1>2, <2>1, WriteAtDone
<1>10. /\ data'[i] = data[i] /\ diskData'[i] = data[i] /\ ideal'[i] = ideal[i]
       /\ muddled' = muddled /\ i \in patched'
  BY <1>1, <1>2 DEF TypeOK, PartInv, watch
<1>11. Whole(i)' /\ Stands(i)'
  BY <1>9, <1>10 DEF Whole, Stands
<1> QED
  BY <1>4, <1>5, <1>6, <1>8, <1>11, StepKeeps

\* A writer stays alone with its inode while the others do nothing.
LEMMA AloneKept ==
  ASSUME NEW r \in Requests, NEW i, Writers(i) \subseteq {r}, r \in Writers(i)',
         \A s \in Requests : s # r => req'[s] = req[s]
  PROVE  Writers(i)' = {r}
<1>1. \A s \in Requests : s # r => (s \in Writers(i)' <=> s \in Writers(i))
  BY DEF Writers
<1>2. Writers(i)' \subseteq Requests
  BY DEF Writers
<1> QED
  BY <1>1, <1>2

\* A step that puts c into the inode of its request.
LEMMA DataTypes ==
  ASSUME TypeOK, NEW i \in Inodes, NEW c \in Content, req' \in [Requests -> Request],
         UNCHANGED <<dir, disk, watch, accepted>>, data' = [data EXCEPT ![i] = c]
  PROVE  TypeOK' /\ data'[i] = c /\ \A j \in Inodes : j # i => Steady(j)
BY DEF TypeOK, watch, disk, Steady

LEMMA SetLengthKeeps ==
  ASSUME FilerInv, NEW r \in Requests, SetLength(r)
  PROVE  FilerInv'
<1> PICK i \in Inodes : i = req[r].ino
  BY OtherWriters DEF SetLength, Partial
<1> DEFINE q == [req[r] EXCEPT !.at = "write"]
           c == IF req[r].size = None THEN data[i] ELSE SetLen(data[i], req[r].size)
<1>1. /\ TypeOK /\ req' = [req EXCEPT ![r] = q]
      /\ UNCHANGED <<dir, disk, watch, accepted>>
      /\ Partial(r) /\ req[r].at = "length" /\ data[i] \in Content
      /\ data' = IF req[r].size = None THEN data
                 ELSE [data EXCEPT ![i] = SetLen(data[i], req[r].size)]
  BY InodeFields DEF SetLength, FilerInv, Partial
<1>2. data' = [data EXCEPT ![i] = c]
  BY <1>1 DEF TypeOK
<1>3. /\ Shape(r) /\ PartInv(r) /\ req[r].done = <<>> /\ req[r].size \in {None} \cup 0..MaxSize
      /\ req[r] \in Request
  BY <1>1, RequestFields DEF FilerInv, Requesting, Shape
<1>4. c \in Content
  BY <1>1, <1>3, SetLenType
<1>5. q \in Request
  BY <1>3 DEF Request
<1>6. /\ q.op = "partial" /\ q.ino = i /\ q.at = "write" /\ q.done = <<>>
      /\ q.start = req[r].start /\ q.body = req[r].body /\ q.size = req[r].size
  BY <1>1, <1>3 DEF Request, Partial
<1> HIDE DEF q
<1>7. /\ req'[r] = q /\ \A s \in Requests : s # r => req'[s] = req[s]
      /\ req' \in [Requests -> Request]
  BY <1>1, <1>5, NewRequest
<1>8. \A j : r \in Writers(j)' <=> j = i
  BY <1>6, <1>7 DEF Writers
<1>9. i \notin muddled =>
        /\ Writers(i) = {r}
        /\ ideal[i] = WriteAt(c, req[r].start, req[r].body)
  BY <1>1, <1>3 DEF PartInv, Alone
<1>10. NotTmp(i) /\ i \in patched
  BY <1>1, <1>3 DEF PartInv
<1> HIDE DEF c
<1>11. TypeOK' /\ data'[i] = c /\ \A j \in Inodes : j # i => Steady(j)
  BY <1>1, <1>2, <1>4, <1>7, DataTypes
<1>12. NamesInv'
  BY <1>1, SameNames DEF FilerInv, disk
<1>13. StepBy(r, i)
  BY <1>1, <1>7, <1>8, <1>11, WriterStep DEF watch, disk
<1>14. Shape(r)' /\ FullInv(r)' /\ GetInv(r)'
  BY <1>1, <1>3, <1>6, <1>7 DEF Shape, FullInv, GetInv, Full, Partial, Reading
<1>15. ideal' = ideal /\ muddled' = muddled /\ patched' = patched /\ dir' = dir
  BY <1>1 DEF watch
<1>16. i \notin muddled => Alone(r)'
  BY <1>6, <1>7, <1>8, <1>9, AloneKept DEF Alone
<1>17. PartInv(r)'
  BY <1>6, <1>7, <1>9, <1>10, <1>11, <1>15, <1>16 DEF PartInv, NotTmp
<1>18. Whole(i)' /\ Stands(i)'
  BY <1>8, <1>10, <1>15 DEF Whole, Stands
<1> QED
  BY <1>11, <1>12, <1>13, <1>14, <1>17, <1>18, StepKeeps DEF Requesting

\* The first n bytes of b are at off of c.
Written(c, off, b, n) == \A j \in 1..n : off + j <= Len(c) /\ c[off + j] = b[j]

\* What is left when the byte behind them is written.
NextWritten(c, off, b, n, d) ==
  /\ d \in Seq(Byte)
  /\ Len(c) < off + n + 1 => Len(d) = off + n + 1
  /\ Len(c) >= off + n + 1 => Len(d) = Len(c)
  /\ WriteAt(d, off, b) = WriteAt(c, off, b)
  /\ Written(c, off, b, n) => Written(d, off, b, n + 1)

LEMMA NextByte ==
  ASSUME NEW c \in Seq(Byte), NEW off \in Nat, NEW b \in Seq(Byte), NEW n \in Nat,
         n + 1 <= Len(b), NEW one \in Seq(Byte), one # <<>>, Len(one) = 1,
         one[1] = b[n + 1],
         NEW d, d = WriteAt(c, off + n, one)
  PROVE  NextWritten(c, off, b, n, d)
<1> DEFINE o == off + n
<1>1. o \in Nat /\ n + 1 \in 1..Len(b)
  OBVIOUS
<1>2. WriteAt(d, off, b) = WriteAt(c, off, b)
  <2>1. WriteAt(WriteAt(c, off + n, one), off, b) = WriteAt(c, off, b)
    BY WriteAtNext
  <2> QED
    BY <2>1
<1>3. d = WriteAt(c, o, one)
  OBVIOUS
<1> HIDE DEF o
<1>4. /\ d \in Seq(Byte) /\ Len(d) = LenAfter(c, o, one)
      /\ \A j \in 1..Len(d) : d[j] = Mixed(c, o, one, j)
  BY <1>1, <1>3, WriteAtBytes
<1>5. Len(d) = IF Len(c) < o + 1 THEN o + 1 ELSE Len(c)
  BY <1>1, <1>4 DEF LenAfter
<1>6. ASSUME Written(c, off, b, n), NEW j \in 1..(n + 1)
      PROVE  off + j <= Len(d) /\ d[off + j] = b[j]
  <2>1. CASE j = n + 1
    <3>1. off + j = o + 1 /\ o + 1 \in 1..Len(d)
      BY <1>1, <1>4, <1>5, <2>1 DEF o
    <3>2. d[o + 1] = Mixed(c, o, one, o + 1)
      BY <1>4, <3>1
    <3>3. o + 1 - o = 1
      BY <1>1
    <3>4. Mixed(c, o, one, o + 1) = one[1]
      BY <1>1, <3>3 DEF Mixed
    <3> QED
      BY <1>1, <1>4, <2>1, <3>1, <3>2, <3>4
  <2>2. CASE j # n + 1
    <3>0. j \in 1..n /\ j \in Nat /\ j <= n
      BY <2>2
    <3>1. off + j <= Len(c) /\ c[off + j] = b[j]
      BY <1>6, <3>0 DEF Written
    <3>2. off + j <= o /\ off + j >= 1 /\ off + j \in Nat
      BY <3>0 DEF o
    <3>3. off + j \in 1..Len(d) /\ off + j <= Len(d)
      BY <1>1, <1>4, <1>5, <3>1, <3>2, SMTT(30)
    <3>4. d[off + j] = c[off + j]
      BY <1>1, <1>4, <3>1, <3>2, <3>3 DEF Mixed
    <3> QED
      BY <3>1, <3>3, <3>4
  <2> QED
    BY <2>1, <2>2
<1> QED
  <2>1. /\ Len(c) < off + n + 1 => Len(d) = off + n + 1
        /\ Len(c) >= off + n + 1 => Len(d) = Len(c)
    BY <1>5 DEF o
  <2>2. Written(c, off, b, n) => Written(d, off, b, n + 1)
    BY <1>6 DEF Written
  <2> QED
    BY <1>2, <1>4, <2>1, <2>2 DEF NextWritten

LEMMA StreamKeeps ==
  ASSUME FilerInv, NEW r \in Requests, Stream(r)
  PROVE  FilerInv'
<1> PICK i \in Inodes : i = req[r].ino
  BY OtherWriters DEF Stream, Partial, Full
<1> DEFINE n == Len(req[r].done)
           k == n + 1
           off == req[r].start
           body == req[r].body
           b == <<body[k]>>
           q == [req[r] EXCEPT !.done = @ \o b]
           c == WriteAt(data[i], off + n, b)
<1>1. /\ TypeOK /\ req' = [req EXCEPT ![r] = q]
      /\ UNCHANGED <<dir, disk, watch, accepted>>
      /\ Full(r) \/ Partial(r)
      /\ req[r].at = "write" /\ data[i] \in Content
      /\ k <= Len(body)
      /\ data' = [data EXCEPT ![i] = WriteAt(data[i], off + k - 1, b)]
  BY InodeFields DEF Stream, FilerInv, Partial, Full, TypeOK
<1>2. /\ Shape(r) /\ FullInv(r) /\ PartInv(r) /\ req[r] \in Request
      /\ off + Len(body) <= MaxSize
  BY <1>1, RequestFields DEF FilerInv, Requesting, Shape
<1>3. /\ body \in Seq(Byte) /\ n \in Nat /\ req[r].done \in Seq(Byte) /\ off \in Nat
      /\ data[i] \in Seq(Byte) /\ Len(data[i]) \in Nat /\ Len(data[i]) <= MaxSize
      /\ Len(body) \in Nat /\ MaxSize \in Nat
  BY <1>1, RequestFields, Bounds DEF Content
<1>4. k \in 1..Len(body) /\ off + k - 1 = off + n /\ off + n + 1 <= MaxSize
  <2>1. k <= Len(body) /\ off + Len(body) <= MaxSize
    BY <1>1, <1>2
  <2>2. \A m, o, l \in Nat : m + 1 <= l /\ o + l <= MaxSize =>
          m + 1 \in 1..l /\ o + (m + 1) - 1 = o + m /\ o + m + 1 <= MaxSize
    BY <1>3
  <2> HIDE DEF n, off, body
  <2> QED
    BY <1>3, <2>1, <2>2
<1>5. body[k] \in Byte
  BY <1>3, <1>4
<1>6. b \in Seq(Byte) /\ b # <<>> /\ Len(b) = 1 /\ b[1] = body[k]
  BY <1>5
<1>7. /\ c \in Seq(Byte)
      /\ Len(data[i]) < off + n + 1 => Len(c) = off + n + 1
      /\ Len(data[i]) >= off + n + 1 => Len(c) = Len(data[i])
      /\ WriteAt(c, off, body) = WriteAt(data[i], off, body)
      /\ Written(data[i], off, body, n) => Written(c, off, body, k)
  <2> HIDE DEF c
  <2>1. c = WriteAt(data[i], off + n, b)
    BY DEF c
  <2>2. n + 1 <= Len(body)
    BY <1>1
  <2>3. /\ body \in Seq(Byte) /\ n \in Nat /\ off \in Nat /\ data[i] \in Seq(Byte)
    BY <1>3
  <2> HIDE DEF n, off, body, b
  <2>4. NextWritten(data[i], off, body, n, c)
    BY <1>6, <2>1, <2>2, <2>3, NextByte
  <2> QED
    BY <2>4 DEF NextWritten
<1>8. c \in Content
  <2> HIDE DEF c, n, off
  <2>1. Len(c) <= MaxSize
    BY <1>3, <1>4, <1>7
  <2> QED
    BY <1>7, <2>1 DEF Content
<1>9. LET d == req[r].done \o b
      IN d \in Seq(Byte) /\ Len(d) = n + 1
  BY <1>3, <1>6
<1>10. /\ q \in Request /\ q.op = req[r].op /\ q.path = req[r].path /\ q.ino = i
       /\ q.at = "write" /\ q.start = off /\ q.size = req[r].size /\ q.body = body
       /\ q.done = req[r].done \o b
  BY <1>1, <1>2, <1>9 DEF Request
<1>11. Len(q.done) = k
  BY <1>9, <1>10
<1>12. data' = [data EXCEPT ![i] = c]
  BY <1>1, <1>4
<1> HIDE DEF q, c
<1>14. /\ req'[r] = q /\ \A s \in Requests : s # r => req'[s] = req[s]
       /\ req' \in [Requests -> Request]
  BY <1>1, <1>10, NewRequest
<1>15. \A j : r \in Writers(j)' <=> j = i
  BY <1>1, <1>10, <1>14 DEF Writers, Full, Partial
<1>16. TypeOK' /\ data'[i] = c /\ \A j \in Inodes : j # i => Steady(j)
  BY <1>1, <1>8, <1>12, <1>14, DataTypes
<1>17. NamesInv'
  BY <1>1, SameNames DEF FilerInv, disk
<1>18. StepBy(r, i)
  BY <1>1, <1>14, <1>15, <1>16, WriterStep DEF watch, disk
<1>19. i \notin muddled => Writers(i) = {r}
  BY <1>1, <1>2 DEF FullInv, PartInv, Alone
<1>20. i \notin muddled => Alone(r)'
  BY <1>10, <1>14, <1>15, <1>19, AloneKept DEF Alone
<1>21. /\ ideal' = ideal /\ muddled' = muddled /\ patched' = patched /\ dir' = dir
       /\ diskData' = diskData
  BY <1>1 DEF watch, disk
<1>22. Shape(r)' /\ GetInv(r)'
  BY <1>1, <1>2, <1>4, <1>10, <1>11, <1>14 DEF Shape, GetInv, Full, Partial, Reading
<1>24. FullInv(r)'
  <2> SUFFICES ASSUME Full(r), i \notin muddled
               PROVE  FullInv(r)'
    BY <1>10, <1>14, <1>21 DEF FullInv, Full
  <2>1. /\ dir[Tmp(req[r].path)] = i /\ ideal[i] = body /\ Len(data[i]) = n
        /\ \A j \in 1..n : data[i][j] = body[j]
        /\ off = 0
    BY <1>2 DEF FullInv, Shape
  <2>2. Written(data[i], off, body, n)
    BY <1>3, <2>1 DEF Written
  <2>3. \A j \in 1..k : c[j] = body[j]
    <3>1. \A j \in 1..k : off + j <= Len(c) /\ c[off + j] = body[j]
      BY <1>7, <2>2 DEF Written
    <3>2. k \in Nat /\ \A j \in 1..k : off + j = j
      BY <1>3, <2>1
    <3> HIDE DEF k, off, body
    <3> QED
      BY <3>1, <3>2
  <2>4. Len(c) = k
    BY <1>3, <1>7, <2>1
  <2>5. body # <<>>
    BY <1>4
  <2> HIDE DEF k, n, body, off
  <2> QED
    BY <1>10, <1>11, <1>14, <1>16, <1>20, <1>21, <2>1, <2>3, <2>4, <2>5 DEF FullInv, body
<1>25. PartInv(r)'
  <2> SUFFICES ASSUME Partial(r)
               PROVE  PartInv(r)'
    BY <1>10, <1>14 DEF PartInv, Partial
  <2>1. NotTmp(i) /\ i \in patched
    BY <1>2 DEF PartInv
  <2>2. i \notin muddled =>
          /\ ideal[i] = WriteAt(data[i], off, body)
          /\ Written(data[i], off, body, n)
    BY <1>1, <1>2 DEF PartInv, Written
  <2>3. i \notin muddled =>
          /\ ideal[i] = WriteAt(c, off, body)
          /\ Written(c, off, body, k)
    BY <1>7, <2>2
  <2> HIDE DEF k, n, body, off
  <2> QED
    BY <1>10, <1>11, <1>14, <1>16, <1>20, <1>21, <2>1, <2>3 DEF PartInv, NotTmp, body, Written
<1>26. Whole(i)' /\ Stands(i)'
  <2>1. i \notin muddled /\ i \notin patched => i \notin Published
    BY <1>1, <1>2, FullIsHidden DEF PartInv
  <2>2. i \notin muddled /\ i \notin patched => i \notin Published'
    BY <1>1, <2>1, SameNames DEF disk
  <2> QED
    BY <1>15, <1>21, <2>2 DEF Whole, Stands
<1> QED
  BY <1>16, <1>17, <1>18, <1>22, <1>24, <1>25, <1>26, StepKeeps DEF Requesting

LEMMA PublishKeeps ==
  ASSUME FilerInv, NEW r \in Requests, Publish(r)
  PROVE  FilerInv'
<1> PICK i \in Inodes : i = req[r].ino
  BY OtherWriters DEF Publish, Full
<1> DEFINE p == req[r].path
<1> PICK j : j = dir[Tmp(p)]
  OBVIOUS
<1>1. /\ TypeOK /\ NamesInv /\ req' = [req EXCEPT ![r] = Idle]
      /\ UNCHANGED <<data, disk, ideal, patched, accepted>>
      /\ Full(r) /\ req[r].at = "publish"
      /\ dir' = IF j = None THEN dir ELSE [dir EXCEPT ![Tmp(p)] = None, ![File(p)] = j]
      /\ muddled' = IF j \notin {None, i} THEN muddled \cup {j} ELSE muddled
  BY DEF Publish, FilerInv, Full
<1>2. /\ Shape(r) /\ FullInv(r) /\ i # None
      /\ req[r] \in Request /\ r \in Writers(i)
      /\ data[i] \in Seq(Byte) /\ req[r].body \in Seq(Byte)
  BY <1>1, RequestFields, InodeFields, OtherWriters, Bounds DEF FilerInv, Requesting
<1>3. /\ p \in Paths /\ Tmp(p) \in Names /\ File(p) \in Names /\ File(p) \in Files
      /\ Tmp(p) # File(p) /\ j \in Inodes \cup {None}
  BY <1>1, <1>2, NameFacts DEF Shape, TypeOK
<1>4. /\ req'[r] = Idle /\ \A s \in Requests : s # r => req'[s] = req[s]
      /\ req' \in [Requests -> Request]
  BY <1>1, IdleRequest, NewRequest
<1>5. Requesting(r)' /\ \A k : r \notin Writers(k)'
  BY <1>4, IdleKeeps
<1>6. /\ \A n \in Names \ {Tmp(p), File(p)} : dir'[n] = dir[n]
      /\ j = None => dir' = dir
      /\ j # None => dir'[Tmp(p)] = None /\ dir'[File(p)] = j
      /\ dir' \in [Names -> Inodes \cup {None}]
  BY <1>1, <1>3 DEF TypeOK
<1>7. TypeOK'
  BY <1>1, <1>3, <1>4, <1>6 DEF TypeOK, disk
<1> HIDE DEF p
<1>8. \A q \in Paths : dir'[Tmp(q)] \in {dir[Tmp(q)], None}
  BY <1>3, <1>6, NameFacts
<1>9. NamesInv'
  <2>1. CASE j = None
    BY <1>1, <1>6, <2>1, SameNames DEF disk
  <2>2. CASE j # None
    <3>1. Injective(dir)'
      BY <1>1, <1>3, <1>6, <2>2 DEF NamesInv, Injective
    <3>2. Injective(diskDir)'
      BY <1>1 DEF NamesInv, Injective, disk
    <3>3. \A q \in Paths, f \in Files : dir'[Tmp(q)] # None => diskDir'[f] # dir'[Tmp(q)]
      BY <1>1, <1>8 DEF NamesInv, disk
    <3> QED
      BY <3>1, <3>2, <3>3 DEF NamesInv
  <2> QED
    BY <2>1, <2>2
<1>10. \A k \in Inodes : Steady(k)
  BY <1>1 DEF Steady, disk
<1>11. \A s \in Requests : s # r /\ s \in Writers(i) => i \in muddled /\ (Partial(s) => i \in patched)
  BY <1>1, OtherWriters
<1>12. \A s \in Requests : s # r /\ Reading(s) /\ req[s].ino = i => i \in muddled \cup patched
  BY <1>1, OtherWriters
<1>13. muddled \subseteq muddled' /\ patched' = patched /\ (j \notin {None, i} => j \in muddled')
  BY <1>1
<1>14. ASSUME NEW s \in Requests, s # r, Full(s), req[s].ino \notin muddled'
       PROVE  dir'[Tmp(req[s].path)] = dir[Tmp(req[s].path)]
  <2>1. /\ req[s].path \in Paths /\ dir[Tmp(req[s].path)] = req[s].ino /\ req[s].ino \in Inodes
        /\ s \in Writers(req[s].ino)
    BY <1>13, <1>14, WritersOf DEF FilerInv, Requesting, Shape, FullInv
  <2>2. CASE j = None
    BY <1>6, <2>2
  <2>3. CASE j # None
    <3>1. req[s].path # p
      <4> SUFFICES ASSUME req[s].path = p
                   PROVE  FALSE
        OBVIOUS
      <4>1. req[s].ino = j
        BY <2>1
      <4>2. j = i
        BY <1>13, <1>14, <2>3, <4>1
      <4> QED
        BY <1>11, <1>13, <1>14, <2>1, <4>1, <4>2
    <3>2. Tmp(req[s].path) \in Names \ {Tmp(p), File(p)}
      BY <1>3, <2>1, <3>1, NameFacts
    <3> QED
      BY <1>6, <3>2
  <2> QED
    BY <2>2, <2>3
<1>15. \A k \in Inodes : NotTmp(k) => NotTmp(k)'
  BY <1>8, Bounds DEF NotTmp
<1>16. ASSUME NEW s \in Requests, s # r, req[s].ino \in Inodes, NotTmp(req[s].ino)
       PROVE  NotTmp(req[s].ino)'
  <2>1. req'[s] = req[s]
    BY <1>4, <1>16
  <2> QED
    BY <1>15, <1>16, <2>1 DEF NotTmp
<1>17. ASSUME NEW k \in Inodes, k \in Published', k \notin muddled'
       PROVE  k \in Published \/ k = i
  <2>1. PICK f \in Files : k \in {dir'[f], diskDir'[f]}
    BY <1>17 DEF Published
  <2>2. f \in Names /\ f # Tmp(p)
    BY <1>3, NameFacts
  <2>3. CASE k = diskDir'[f]
    BY <1>1, <2>3 DEF Published, disk
  <2>4. CASE k = dir'[f] /\ (j = None \/ f # File(p))
    BY <1>6, <2>2, <2>4 DEF Published
  <2>5. CASE k = dir'[f] /\ j # None /\ f = File(p)
    <3>1. k = j
      BY <1>6, <2>5
    <3> QED
      BY <1>13, <1>17, <2>5, <3>1
  <2> QED
    BY <2>1, <2>3, <2>4, <2>5
<1>18. \A k \in Inodes : k # i => r \notin Writers(k)
  BY WritersOf
<1>19. StepBy(r, i)
  <2>1. \A k \in Inodes : k # i => Steady(k) /\ (r \in Writers(k)' <=> r \in Writers(k))
    BY <1>5, <1>10, <1>18
  <2>2. \A s \in Requests : s # r /\ s \in Writers(i) =>
          i \in muddled' /\ (Partial(s) => i \in patched')
    BY <1>11, <1>13
  <2>3. \A s \in Requests : s # r /\ Reading(s) /\ req[s].ino = i => i \in muddled' \cup patched'
    BY <1>12, <1>13
  <2> QED
    BY <1>4, <1>14, <1>16, <1>17, <2>1, <2>2, <2>3 DEF StepBy
<1>20. i \notin muddled => data[i] = req[r].body
  BY <1>1, <1>2, SeqEqual DEF FullInv, Shape
<1>21. i \notin muddled => diskData[i] = req[r].body /\ ideal[i] = req[r].body
  BY <1>1, <1>2 DEF FullInv
<1>22. Whole(i)' /\ Stands(i)'
  <2>1. data' = data /\ diskData' = diskData /\ ideal' = ideal
    BY <1>1 DEF disk
  <2>2. req[r].body \in Bodies(FullSizes)
    BY <1>1, <1>2 DEF Shape
  <2> QED
    BY <1>13, <1>20, <1>21, <2>1, <2>2 DEF Whole, Stands
<1> QED
  BY <1>5, <1>7, <1>9, <1>19, <1>22, StepKeeps

\* The inode that is opened under a name is the one that has it, or a free one.
LEMMA OpenedInode ==
  ASSUME TypeOK, NEW n \in Names, dir[n] = None => Free # {}
  PROVE  \E i \in Inodes :
           /\ i = IF dir[n] = None THEN NewInode ELSE dir[n]
           /\ dir[n] \in {None, i}
           /\ dir[n] = None => i \in Free
<1>1. CASE dir[n] = None
  <2>1. NewInode \in Free /\ NewInode \in Inodes
    BY <1>1 DEF NewInode, Free
  <2> QED
    BY <1>1, <2>1
<1>2. CASE dir[n] # None
  BY <1>2 DEF TypeOK
<1> QED
  BY <1>1, <1>2

LEMMA OpenTmpKeeps ==
  ASSUME FilerInv, NEW r \in Requests, NEW p \in Paths, NEW b \in Bodies(FullSizes),
         OpenTmp(r, p, b)
  PROVE  FilerInv'
<1>1. TypeOK /\ NamesInv /\ Tmp(p) \in Names
  BY NameFacts DEF FilerInv
<1> PICK i \in Inodes :
      /\ i = IF dir[Tmp(p)] = None THEN NewInode ELSE dir[Tmp(p)]
      /\ dir[Tmp(p)] \in {None, i}
      /\ dir[Tmp(p)] = None => i \in Free
  BY <1>1, OpenedInode DEF OpenTmp
<1> DEFINE q == [Idle EXCEPT !.op = "full", !.path = p, !.ino = i, !.at = "write", !.body = b]
<1>2. /\ req' = [req EXCEPT ![r] = q]
      /\ dir' = [dir EXCEPT ![Tmp(p)] = i]
      /\ data' = [data EXCEPT ![i] = <<>>]
      /\ diskData' = [diskData EXCEPT ![i] = <<>>]
      /\ ideal' = [ideal EXCEPT ![i] = b]
      /\ muddled' = IF Writers(i) # {} THEN muddled \cup {i} ELSE muddled \ {i}
      /\ patched' = patched \ {i}
      /\ diskDir' = diskDir
  BY DEF OpenTmp, Opened
<1>3. b \in Content /\ b \in Seq(Byte) /\ Len(b) \in Nat /\ Len(b) <= MaxSize
  BY BodiesType, Bounds DEF Content
<1>4. q \in Request
  BY <1>3, IdleRequest DEF Request
<1>5. /\ q.op = "full" /\ q.path = p /\ q.ino = i /\ q.at = "write" /\ q.body = b
      /\ q.start = 0 /\ q.done = <<>> /\ Len(q.done) = 0
  BY EmptyContent DEF Idle
<1> HIDE DEF q
<1>6. /\ req'[r] = q /\ \A s \in Requests : s # r => req'[s] = req[s]
      /\ req' \in [Requests -> Request]
  BY <1>1, <1>2, <1>4, NewRequest
<1>7. accepted' \in 0..MaxRequests /\ \A k : r \notin Writers(k)
  BY <1>1, AcceptTypes DEF OpenTmp
<1>8. /\ data'[i] = <<>> /\ diskData'[i] = <<>> /\ ideal'[i] = b
      /\ \A k \in Inodes : k # i => data'[k] = data[k] /\ diskData'[k] = diskData[k] /\ ideal'[k] = ideal[k]
      /\ data' \in [Inodes -> Content] /\ diskData' \in [Inodes -> Content]
      /\ ideal' \in [Inodes -> Content]
  BY <1>1, <1>2, <1>3, EmptyContent DEF TypeOK
<1>9. /\ dir'[Tmp(p)] = i /\ \A n \in Names : n # Tmp(p) => dir'[n] = dir[n]
      /\ dir' \in [Names -> Inodes \cup {None}]
  BY <1>1, <1>2 DEF TypeOK
<1>10. TypeOK'
  BY <1>1, <1>2, <1>6, <1>7, <1>8, <1>9 DEF TypeOK
<1>11. \A k : r \in Writers(k)' <=> k = i
  BY <1>5, <1>6 DEF Writers
<1>12. i # None /\ \A n \in Names : n # Tmp(p) => dir[n] # i
  BY <1>1, Bounds DEF Free, NamesInv, Injective
<1>13. \A f \in Files : diskDir[f] # i
  BY <1>1, NameFacts, Bounds DEF Free, NamesInv
<1>14. \A s \in Requests : Reading(s) \/ Partial(s) => req[s].ino # i
  <2> SUFFICES ASSUME NEW s \in Requests, Reading(s) \/ Partial(s)
               PROVE  req[s].ino # i
    OBVIOUS
  <2>1. NotTmp(req[s].ino)
    BY DEF FilerInv, Requesting, PartInv, GetInv
  <2> QED
    BY <2>1 DEF NotTmp, Free
<1>15. NamesInv'
  <2>1. Injective(dir)'
    BY <1>1, <1>9, <1>12 DEF NamesInv, Injective
  <2>2. Injective(diskDir)'
    BY <1>1, <1>2 DEF NamesInv, Injective
  <2>3. \A x \in Paths, f \in Files : dir'[Tmp(x)] # None => diskDir'[f] # dir'[Tmp(x)]
    BY <1>1, <1>2, <1>9, <1>13, NameFacts DEF NamesInv
  <2> QED
    BY <2>1, <2>2, <2>3 DEF NamesInv
<1>16. ASSUME NEW k \in Inodes, k \in Published'
       PROVE  k \in Published /\ k # i
  <2>1. PICK f \in Files : k \in {dir'[f], diskDir'[f]}
    BY <1>16 DEF Published
  <2>2. f \in Names /\ dir'[f] = dir[f] /\ diskDir'[f] = diskDir[f] /\ f # Tmp(p)
    BY <1>2, <1>9, NameFacts
  <2> QED
    BY <1>12, <1>13, <2>1, <2>2 DEF Published
<1>17. \A k \in Inodes : k # i => (k \in muddled' <=> k \in muddled) /\ (k \in patched' <=> k \in patched)
  BY <1>2
<1>18. ASSUME NEW s \in Requests, s # r, Full(s), req[s].ino \notin muddled'
       PROVE  dir'[Tmp(req[s].path)] = dir[Tmp(req[s].path)]
  <2>1. /\ req[s].path \in Paths /\ req[s].ino \in Inodes /\ s \in Writers(req[s].ino)
    BY <1>18, WritersOf DEF FilerInv, Requesting, Shape
  <2>2. req[s].ino # i
    BY <1>2, <1>18, <2>1
  <2>3. dir[Tmp(req[s].path)] = req[s].ino
    BY <1>17, <1>18, <2>1, <2>2 DEF FilerInv, Requesting, FullInv
  <2>4. req[s].path # p
    BY <2>1, <2>2, <2>3, Bounds
  <2> QED
    BY <1>9, <2>1, <2>4, NameFacts
<1>19. ASSUME NEW s \in Requests, s # r, req[s].ino \in Inodes, NotTmp(req[s].ino)
       PROVE  NotTmp(req[s].ino)'
  <2>1. req'[s] = req[s]
    BY <1>6, <1>19
  <2>2. req[s].ino # i
    BY <1>19 DEF NotTmp, Free
  <2> QED
    BY <1>9, <1>19, <2>1, <2>2, NameFacts DEF NotTmp
<1>20. StepBy(r, i)
  <2>1. \A k \in Inodes : k # i => Steady(k) /\ (r \in Writers(k)' <=> r \in Writers(k))
    BY <1>7, <1>8, <1>11, <1>17 DEF Steady
  <2>2. \A s \in Requests : s # r /\ s \in Writers(i) =>
          i \in muddled' /\ (Partial(s) => i \in patched')
    BY <1>2, <1>14, WritersOf
  <2> QED
    BY <1>6, <1>14, <1>16, <1>18, <1>19, <2>1, <2>2 DEF StepBy
<1>21. Shape(r)' /\ PartInv(r)' /\ GetInv(r)'
  BY <1>3, <1>5, <1>6 DEF Shape, PartInv, GetInv, Full, Partial, Reading
<1>22. FullInv(r)'
  <2>1. i \notin muddled' => Writers(i)' = {r}
    <3>1. i \notin muddled' => Writers(i) = {}
      BY <1>2
    <3> QED
      BY <1>6, <1>11, <3>1, AloneKept
  <2>2. \A k \in 1..0 : FALSE
    OBVIOUS
  <2> QED
    BY <1>5, <1>6, <1>8, <1>9, <2>1, <2>2, EmptyContent DEF FullInv, Alone
<1>23. Whole(i)' /\ Stands(i)'
  BY <1>16 DEF Whole, Stands
<1> QED
  BY <1>10, <1>15, <1>20, <1>21, <1>22, <1>23, StepKeeps DEF Requesting

LEMMA OpenPartialKeeps ==
  ASSUME FilerInv, NEW r \in Requests, NEW p \in Paths, NEW off \in Nat, NEW b \in Content,
         off + Len(b) <= MaxSize, NEW total \in {None} \cup 0..MaxSize,
         OpenPartial(r, p, off, b, total)
  PROVE  FilerInv'
<1>1. TypeOK /\ NamesInv /\ File(p) \in Names /\ File(p) \in Files
  BY NameFacts DEF FilerInv
<1> PICK i \in Inodes :
      /\ i = IF dir[File(p)] = None THEN NewInode ELSE dir[File(p)]
      /\ dir[File(p)] \in {None, i}
      /\ dir[File(p)] = None => i \in Free
  BY <1>1, OpenedInode DEF OpenPartial
<1> DEFINE q == [Idle EXCEPT !.op = "partial", !.ino = i, !.at = "length", !.start = off,
                             !.size = total, !.body = b]
           old == IF dir[File(p)] = None THEN <<>> ELSE data[i]
           c == IF total = None THEN old ELSE SetLen(old, total)
<1>2. /\ req' = [req EXCEPT ![r] = q]
      /\ dir' = [dir EXCEPT ![File(p)] = i]
      /\ data' = [data EXCEPT ![i] = old]
      /\ diskData' = IF dir[File(p)] = None THEN [diskData EXCEPT ![i] = <<>>] ELSE diskData
      /\ ideal' = [ideal EXCEPT ![i] = WriteAt(c, off, b)]
      /\ muddled' = IF Writers(i) # {} THEN muddled \cup {i} ELSE muddled \ {i}
      /\ patched' = patched \cup {i}
      /\ diskDir' = diskDir
  BY DEF OpenPartial, Opened
<1>3. b \in Seq(Byte) /\ Len(b) \in Nat /\ MaxSize \in Nat /\ off \in 0..MaxSize
  <2>1. b \in Seq(Byte) /\ Len(b) \in Nat /\ MaxSize \in Nat
    BY Bounds DEF Content
  <2> QED
    BY <2>1
<1>4. old \in Content /\ c \in Content
  <2>1. old \in Content
    BY <1>1, InodeFields, EmptyContent
  <2> HIDE DEF old
  <2> QED
    BY <2>1, SetLenType
<1>5. WriteAt(c, off, b) \in Content
  BY <1>3, <1>4, WriteAtType
<1>6. q \in Request
  <2>1. total \in (-MaxSize..MaxSize) \cup {None}
    BY <1>3
  <2> QED
    BY <1>3, <2>1, PartialRequest
<1>7. /\ q.op = "partial" /\ q.ino = i /\ q.at = "length" /\ q.body = b
      /\ q.start = off /\ q.size = total /\ q.done = <<>> /\ Len(q.done) = 0
  BY EmptyContent DEF Idle
<1>8. c = IF total # None THEN SetLen(old, total) ELSE old
  OBVIOUS
<1> HIDE DEF q, c, old
<1>9. /\ req'[r] = q /\ \A s \in Requests : s # r => req'[s] = req[s]
      /\ req' \in [Requests -> Request]
  BY <1>1, <1>2, <1>6, NewRequest
<1>10. accepted' \in 0..MaxRequests /\ \A k : r \notin Writers(k)
  BY <1>1, AcceptTypes DEF OpenPartial
<1>11. /\ data'[i] = old /\ ideal'[i] = WriteAt(c, off, b)
       /\ \A k \in Inodes : k # i => data'[k] = data[k] /\ diskData'[k] = diskData[k] /\ ideal'[k] = ideal[k]
       /\ data' \in [Inodes -> Content] /\ diskData' \in [Inodes -> Content]
       /\ ideal' \in [Inodes -> Content]
  BY <1>1, <1>2, <1>4, <1>5, EmptyContent DEF TypeOK
<1>12. /\ dir'[File(p)] = i /\ \A n \in Names : n # File(p) => dir'[n] = dir[n]
       /\ dir' \in [Names -> Inodes \cup {None}]
  BY <1>1, <1>2 DEF TypeOK
<1>13. TypeOK'
  BY <1>1, <1>2, <1>9, <1>10, <1>11, <1>12 DEF TypeOK
<1>14. \A k : r \in Writers(k)' <=> k = i
  BY <1>7, <1>9 DEF Writers
<1>15. i # None /\ \A n \in Names : n # File(p) => dir[n] # i
  BY <1>1, Bounds DEF Free, NamesInv, Injective
<1>16. \A x \in Paths : dir'[Tmp(x)] = dir[Tmp(x)] /\ dir[Tmp(x)] # i
  BY <1>12, <1>15, NameFacts
<1>17. \A x \in Paths, f \in Files : dir[Tmp(x)] # None => diskDir[f] # dir[Tmp(x)]
  BY <1>1 DEF NamesInv
<1>18. NamesInv'
  <2>1. Injective(dir)'
    BY <1>1, <1>12, <1>15 DEF NamesInv, Injective
  <2>2. Injective(diskDir)'
    BY <1>1, <1>2 DEF NamesInv, Injective
  <2> QED
    BY <1>2, <1>16, <1>17, <2>1, <2>2 DEF NamesInv
<1>19. ASSUME NEW k \in Inodes, k \in Published'
       PROVE  k \in Published \/ k = i
  <2>1. PICK f \in Files : k \in {dir'[f], diskDir'[f]}
    BY <1>19 DEF Published
  <2>2. f \in Names /\ diskDir'[f] = diskDir[f] /\ (f = File(p) \/ dir'[f] = dir[f])
    BY <1>2, <1>12, NameFacts
  <2> QED
    BY <1>12, <2>1, <2>2 DEF Published
<1>20. \A k \in Inodes : k # i => (k \in muddled' <=> k \in muddled) /\ (k \in patched' <=> k \in patched)
  BY <1>2
<1>21. \A s \in Requests : s # r /\ Full(s) => req[s].path \in Paths
  BY DEF FilerInv, Requesting, Shape
<1>22. ASSUME NEW s \in Requests, s # r, NotTmp(req[s].ino)
       PROVE  NotTmp(req[s].ino)'
  <2>1. req'[s] = req[s]
    BY <1>9, <1>22
  <2> QED
    BY <1>16, <1>22, <2>1 DEF NotTmp
<1>23. StepBy(r, i)
  <2>1. \A k \in Inodes : k # i => Steady(k) /\ (r \in Writers(k)' <=> r \in Writers(k))
    BY <1>10, <1>11, <1>14, <1>20 DEF Steady
  <2>2. i \in patched' /\ \A s \in Requests : s \in Writers(i) => i \in muddled'
    BY <1>2
  <2> QED
    BY <1>9, <1>16, <1>19, <1>21, <1>22, <2>1, <2>2 DEF StepBy
<1>24. Shape(r)' /\ FullInv(r)' /\ GetInv(r)'
  BY <1>3, <1>7, <1>9 DEF Shape, FullInv, GetInv, Full, Partial, Reading
<1>25. PartInv(r)'
  <2>1. i \notin muddled' => Writers(i)' = {r}
    <3>1. i \notin muddled' => Writers(i) = {}
      BY <1>2
    <3> QED
      BY <1>9, <1>14, <3>1, AloneKept
  <2>2. NotTmp(i)'
    BY <1>16 DEF NotTmp
  <2>3. i \in patched' /\ \A k \in 1..0 : FALSE
    BY <1>2
  <2> QED
    BY <1>7, <1>8, <1>9, <1>11, <2>1, <2>2, <2>3 DEF PartInv, Alone, NotTmp
<1>26. Whole(i)' /\ Stands(i)'
  BY <1>2, <1>14 DEF Whole, Stands
<1> QED
  BY <1>13, <1>18, <1>23, <1>24, <1>25, <1>26, StepKeeps DEF Requesting

-----------------------------------------------------------------------------
(* Steps of nobody's request *)

\* Somebody who is not there.
Nobody == CHOOSE r : r \notin Requests

LEMMA NobodyIsNot ==
  /\ Nobody \notin Requests
  /\ \A i : Nobody \notin Writers(i)
  /\ \A i : Nobody \notin Writers(i)'
BY NoSetContainsEverything DEF Nobody, Writers

\* A step that lets names go or moves them among the files, and lets bytes reach the
\* disk.
LEMMA NamesOnly ==
  ASSUME FilerInv, UNCHANGED <<data, req, watch, accepted>>,
         dir' \in [Names -> Inodes \cup {None}], diskDir' \in [Names -> Inodes \cup {None}],
         diskData' \in [Inodes -> Content],
         \A i \in Inodes : diskData'[i] \in {diskData[i], data[i]},
         NamesInv', \A p \in Paths : dir'[Tmp(p)] = dir[Tmp(p)],
         \A i \in Inodes : i \in Published' => i \in Published
  PROVE  FilerInv'
<1>1. TypeOK'
  BY DEF FilerInv, TypeOK, watch
<1>2. \A i \in Inodes : Steady(i)
  BY DEF Steady, watch
<1>3. \A s \in Requests : NotTmp(req[s].ino) => NotTmp(req[s].ino)'
  BY DEF NotTmp
<1>4. \A s \in Requests : Full(s) => req[s].path \in Paths
  BY DEF FilerInv, Requesting, Shape
<1>5. \A s \in Requests : Shape(s)
  BY DEF FilerInv, Requesting
<1> HIDE DEF FilerInv
<1>6. StepBy(Nobody, None)
  BY <1>2, <1>3, <1>4, <1>5, NobodyIsNot, NoneIsNotOpen DEF StepBy
<1> QED
  BY <1>1, <1>6, NobodyIsNot, StepKeeps, Bounds

LEMMA RenameKeeps ==
  ASSUME FilerInv, NEW p \in Paths, NEW f \in Files, Rename(p, f)
  PROVE  FilerInv'
<1>1. /\ TypeOK /\ NamesInv /\ f # File(p) /\ dir[File(p)] # None
      /\ dir' = [dir EXCEPT ![File(p)] = None, ![f] = dir[File(p)]]
      /\ UNCHANGED <<data, disk, req, watch, accepted>>
      /\ File(p) \in Names /\ f \in Names /\ File(p) \in Files
  BY NameFacts DEF FilerInv, Rename
<1>2. /\ dir'[File(p)] = None /\ dir'[f] = dir[File(p)]
      /\ \A n \in Names : n \notin {f, File(p)} => dir'[n] = dir[n]
      /\ dir' \in [Names -> Inodes \cup {None}]
  BY <1>1 DEF TypeOK
<1>3. \A x \in Paths : dir'[Tmp(x)] = dir[Tmp(x)]
  BY <1>1, <1>2, NameFacts
<1>4. NamesInv'
  <2>1. Injective(dir)'
    BY <1>1, <1>2 DEF NamesInv, Injective
  <2>2. Injective(diskDir)'
    BY <1>1 DEF NamesInv, Injective, disk
  <2> QED
    BY <1>1, <1>3, <2>1, <2>2 DEF NamesInv, disk
<1>5. \A i \in Inodes : i \in Published' => i \in Published
  <2> SUFFICES ASSUME NEW i \in Inodes, NEW g \in Files, i \in {dir'[g], diskDir'[g]}
               PROVE  i \in Published
    BY DEF Published
  <2>1. g \in Names /\ dir'[g] \in {dir[g], None, dir[File(p)]} /\ diskDir'[g] = diskDir[g]
    BY <1>1, <1>2, NameFacts DEF disk
  <2> QED
    BY <1>1, <2>1, Bounds DEF Published
<1> QED
  BY <1>1, <1>2, <1>3, <1>4, <1>5, NamesOnly DEF TypeOK, disk

LEMMA DeleteKeeps ==
  ASSUME FilerInv, NEW p \in Paths, Delete(p)
  PROVE  FilerInv'
<1>1. /\ TypeOK /\ NamesInv
      /\ dir' = [dir EXCEPT ![File(p)] = None]
      /\ UNCHANGED <<data, disk, req, watch, accepted>>
      /\ File(p) \in Names
  BY NameFacts DEF FilerInv, Delete
<1>2. /\ dir'[File(p)] = None
      /\ \A n \in Names : n # File(p) => dir'[n] = dir[n]
      /\ dir' \in [Names -> Inodes \cup {None}]
  BY <1>1 DEF TypeOK
<1>3. \A x \in Paths : dir'[Tmp(x)] = dir[Tmp(x)]
  BY <1>1, <1>2, NameFacts
<1>4. NamesInv'
  <2>1. Injective(dir)'
    BY <1>1, <1>2 DEF NamesInv, Injective
  <2>2. Injective(diskDir)'
    BY <1>1 DEF NamesInv, Injective, disk
  <2> QED
    BY <1>1, <1>3, <2>1, <2>2 DEF NamesInv, disk
<1>5. \A i \in Inodes : i \in Published' => i \in Published
  <2> SUFFICES ASSUME NEW i \in Inodes, NEW g \in Files, i \in {dir'[g], diskDir'[g]}
               PROVE  i \in Published
    BY DEF Published
  <2>1. g \in Names /\ dir'[g] \in {dir[g], None} /\ diskDir'[g] = diskDir[g]
    BY <1>1, <1>2, NameFacts DEF disk
  <2> QED
    BY <2>1, Bounds DEF Published
<1> QED
  BY <1>1, <1>2, <1>3, <1>4, <1>5, NamesOnly DEF TypeOK, disk

LEMMA JournalKeeps ==
  ASSUME FilerInv, Journal
  PROVE  FilerInv'
<1>1. TypeOK /\ NamesInv /\ diskDir' = dir /\ UNCHANGED <<dir, data, diskData, req, watch, accepted>>
  BY DEF FilerInv, Journal
<1>2. NamesInv'
  BY <1>1, NameFacts DEF NamesInv, Injective
<1>3. \A i \in Inodes : i \in Published' => i \in Published
  BY <1>1 DEF Published
<1> QED
  BY <1>1, <1>2, <1>3, NamesOnly DEF TypeOK

LEMMA WriteOutKeeps ==
  ASSUME FilerInv, NEW i \in Inodes, WriteOut(i)
  PROVE  FilerInv'
<1>1. /\ TypeOK /\ diskData' = [diskData EXCEPT ![i] = data[i]]
      /\ UNCHANGED <<dir, data, diskDir, req, watch, accepted>>
  BY DEF FilerInv, WriteOut
<1>2. diskData' \in [Inodes -> Content] /\ \A j \in Inodes : diskData'[j] \in {diskData[j], data[j]}
  BY <1>1 DEF TypeOK
<1>3. NamesInv' /\ \A j \in Inodes : j \in Published' => j \in Published
  BY <1>1, SameNames DEF FilerInv
<1> QED
  BY <1>1, <1>2, <1>3, NamesOnly DEF TypeOK

\* After a power failure the disk is all there is; what was being written is muddled.
LEMMA PowerFailureKeeps ==
  ASSUME FilerInv, PowerFailure
  PROVE  FilerInv'
<1>1. /\ TypeOK /\ NamesInv /\ req' = [r \in Requests |-> Idle]
      /\ muddled' = muddled \cup Half(Requests)
      /\ dir' = diskDir /\ data' = diskData
      /\ UNCHANGED <<disk, ideal, patched, accepted>>
  BY DEF FilerInv, PowerFailure
<1>2. \A r \in Requests : req'[r] = Idle
  BY <1>1
<1>3. TypeOK'
  BY <1>1, IdleRequest DEF TypeOK, Half, disk
<1>4. NamesInv'
  BY <1>1, NameFacts DEF NamesInv, Injective, disk
<1>5. \A r \in Requests : Requesting(r)'
  BY <1>2, IdleKeeps
<1>6. ASSUME NEW i \in Inodes, i \in Published', i \notin muddled'
      PROVE  i \in Published /\ i \notin muddled /\ Writers(i) = {}
  <2>1. i \in Published
    BY <1>1, <1>6 DEF Published, disk
  <2>2. Writers(i) \subseteq Requests
    BY DEF Writers
  <2> QED
    BY <1>1, <1>6, <2>1, <2>2 DEF Half
<1>7. \A i \in Inodes : Whole(i)' /\ Stands(i)'
  <2> SUFFICES ASSUME NEW i \in Inodes, i \in Published', i \notin muddled'
               PROVE  Whole(i)' /\ Stands(i)'
    BY DEF Whole, Stands
  <2>1. Whole(i) /\ Stands(i) /\ data'[i] = diskData[i] /\ diskData'[i] = diskData[i]
        /\ ideal'[i] = ideal[i] /\ patched' = patched
    BY <1>1 DEF FilerInv, disk
  <2> QED
    BY <1>6, <2>1 DEF Whole, Stands
<1> QED
  BY <1>3, <1>4, <1>5, <1>7 DEF FilerInv

-----------------------------------------------------------------------------
LEMMA FilerInit == Init => FilerInv
<1> SUFFICES ASSUME Init
             PROVE  FilerInv
  OBVIOUS
<1>1. TypeOK
  BY EmptyContent, IdleRequest, Bounds DEF Init, TypeOK
<1>2. \A n \in Names : dir[n] = None /\ diskDir[n] = None
  BY DEF Init
<1>3. NamesInv
  BY <1>2, NameFacts DEF NamesInv, Injective
<1>4. \A r \in Requests : req[r] = Idle
  BY DEF Init
<1>5. \A r \in Requests : Requesting(r)
  BY <1>4, IdleRequest DEF Requesting, Shape, FullInv, PartInv, GetInv, Full, Partial, Reading
<1>6. \A i \in Inodes : i \notin Published
  BY <1>2, NameFacts, Bounds DEF Published
<1> QED
  BY <1>1, <1>3, <1>5, <1>6 DEF FilerInv, Whole, Stands

LEMMA FilerSame ==
  ASSUME FilerInv, UNCHANGED vars
  PROVE  FilerInv'
BY DEF FilerInv, vars, disk, watch, TypeOK, NamesInv, Injective, Requesting, Shape, FullInv,
       PartInv, GetInv, Full, Partial, Reading, Alone, NotTmp, Writers, Whole, Stands, Published

LEMMA FilerNext ==
  ASSUME FilerInv, Next
  PROVE  FilerInv'
<1>1. ASSUME NEW r \in Requests, NEW p \in Paths, NEW b \in Bodies(FullSizes), OpenTmp(r, p, b)
      PROVE  FilerInv'
  BY <1>1, OpenTmpKeeps
<1>2. ASSUME NEW r \in Requests, NEW p \in Paths, NEW b \in Bodies(PartSizes),
             NEW off \in PartStarts, off + Len(b) <= MaxSize, OpenPartial(r, p, off, b, None)
      PROVE  FilerInv'
  <2>1. off \in Nat /\ b \in Content
    BY Bounds, BodiesType
  <2> QED
    BY <1>2, <2>1, OpenPartialKeeps
<1>3. ASSUME NEW r \in Requests, NEW p \in Paths, NEW total \in Totals,
             OpenPartial(r, p, 0, <<>>, total)
      PROVE  FilerInv'
  <2>1. total \in {None} \cup 0..MaxSize /\ 0 + Len(<<>>) <= MaxSize
    BY Bounds, EmptyContent
  <2> QED
    BY <1>3, <2>1, EmptyContent, OpenPartialKeeps
<1>4. ASSUME NEW r \in Requests, NEW p \in Paths, NEW off \in GetStarts, NEW n \in GetSizes,
             Measure(r, p, off, n)
      PROVE  FilerInv'
  BY <1>4, MeasureKeeps
<1>5. ASSUME NEW r \in Requests,
             \/ SetLength(r) \/ Stream(r) \/ SyncFull(r) \/ Publish(r)
             \/ SyncPartial(r) \/ OpenRead(r) \/ Fetch(r) \/ Abort(r)
      PROVE  FilerInv'
  BY <1>5, SetLengthKeeps, StreamKeeps, SyncFullKeeps, PublishKeeps, SyncPartialKeeps,
     OpenReadKeeps, FetchKeeps, AbortKeeps
<1>6. ASSUME NEW p \in Paths, NEW f \in Files, Rename(p, f)
      PROVE  FilerInv'
  BY <1>6, RenameKeeps
<1>7. ASSUME NEW p \in Paths, Delete(p)
      PROVE  FilerInv'
  BY <1>7, DeleteKeeps
<1>8. ASSUME NEW i \in Inodes, WriteOut(i)
      PROVE  FilerInv'
  BY <1>8, WriteOutKeeps
<1> QED
  BY <1>1, <1>2, <1>3, <1>4, <1>5, <1>6, <1>7, <1>8, PowerFailureKeeps, JournalKeeps DEF Next

LEMMA FilerInductive == Spec => []FilerInv
<1>1. FilerInv /\ [Next]_vars => FilerInv'
  BY FilerNext, FilerSame
<1> QED
  BY <1>1, FilerInit, PTL DEF Spec

\* What the directory, the files and the requests are made of.
THEOREM TypeCorrect == Spec => []TypeOK
<1>1. FilerInv => TypeOK
  BY DEF FilerInv
<1> QED
  BY <1>1, FilerInductive, PTL

\* A file that is only ever written whole is never half written, neither for a GET nor
\* after a power failure, however many requests there are and whatever ends them.
THEOREM NeverHalfPublished == Spec => []NeverHalf
<1>1. FilerInv => NeverHalf
  BY DEF FilerInv, Whole, NeverHalf, Published
<1> QED
  BY <1>1, FilerInductive, PTL

\* When no request writes to a file, it has, also on the disk, what the last PUT meant,
\* if that one neither failed nor shared the file.
THEOREM AnswersStand == Spec => []AnsweredStands
<1>1. FilerInv => AnsweredStands
  BY DEF FilerInv, Stands, AnsweredStands, Published
<1> QED
  BY <1>1, FilerInductive, PTL

\* A GET delivers the bytes of one body, whatever is renamed, deleted or replaced
\* meanwhile.
THEOREM GetsAreOfOneBody == Spec => []GetsOneBody
<1>1. ASSUME FilerInv, NEW r \in Busy("get"), req[r].at = "read",
             req[r].ino \notin muddled \cup patched
      PROVE  \E v \in Vals, n \in 1..MaxSize : \A k \in 1..Len(req[r].done) :
               req[r].done[k] = <<v, n, req[r].start + k>>
  <2>1. r \in Requests /\ Reading(r)
    BY <1>1 DEF Busy, Reading
  <2>2. /\ TypeOK /\ req[r].ino \in Inodes /\ data[req[r].ino] \in Bodies(FullSizes)
        /\ \A k \in 1..Len(req[r].done) :
             /\ req[r].start + k <= Len(data[req[r].ino])
             /\ req[r].done[k] = data[req[r].ino][req[r].start + k]
    BY <1>1, <2>1 DEF FilerInv, Requesting, Shape, GetInv
  <2>3. PICK v \in Vals, n \in FullSizes : data[req[r].ino] = Body(v, n)
    BY <2>2 DEF Bodies
  <2> DEFINE d == req[r].done
             off == req[r].start
  <2>4. /\ n \in 0..MaxSize /\ MaxSize \in Nat /\ off \in Nat /\ Len(d) \in Nat
        /\ req[r].size \in (-MaxSize..MaxSize) \cup {None} /\ req[r].size > 0
    <3>1. req[r] \in Request /\ off \in Nat /\ Len(d) \in Nat
      BY <2>1, <2>2, RequestFields
    <3>2. req[r].size \in (-MaxSize..MaxSize) \cup {None}
      BY <3>1 DEF Request
    <3>3. req[r].size > 0
      BY <1>1, <2>1 DEF FilerInv, Requesting, Shape
    <3> QED
      BY <3>1, <3>2, <3>3, Bounds
  <2>5. MaxSize >= 1
    BY <2>4 DEF None
  <2>6. Len(Body(v, n)) = n /\ \A k \in 1..n : Body(v, n)[k] = <<v, n, k>>
    BY <2>4, BodyType
  <2>7. \A k \in 1..Len(d) : off + k <= n /\ d[k] = Body(v, n)[off + k]
    BY <2>2, <2>3, <2>6
  <2> HIDE DEF d, off
  <2>8. \A k \in 1..Len(d) : off + k \in 1..n /\ d[k] = <<v, n, off + k>>
    <3> SUFFICES ASSUME NEW k \in 1..Len(d)
                 PROVE  off + k \in 1..n /\ d[k] = <<v, n, off + k>>
      OBVIOUS
    <3>1. off + k \in 1..n
      BY <2>4, <2>7
    <3> QED
      BY <2>6, <2>7, <3>1
  <2>9. CASE n >= 1
    <3>1. n \in 1..MaxSize
      BY <2>4, <2>9
    <3> QED
      BY <2>8, <3>1 DEF d, off
  <2>10. CASE n = 0
    <3>1. \A k \in 1..Len(d) : FALSE
      BY <2>8, <2>10
    <3>2. 1 \in 1..MaxSize
      BY <2>4, <2>5
    <3> QED
      BY <3>1, <3>2 DEF d, off
  <2>11. n = 0 \/ n >= 1
    BY <2>4
  <2> QED
    BY <2>9, <2>10, <2>11
<1>2. FilerInv => GetsOneBody
  BY <1>1 DEF GetsOneBody
<1> QED
  BY <1>2, FilerInductive, PTL

-----------------------------------------------------------------------------
(* What the filer promises of whole files *)

\* Only who writes a body has opened a temporary file under its name, as one that no
\* partial PUT had.
PutInv(r) ==
  Full(r) =>
    /\ req[r].ino \notin muddled => req[r].ino \notin patched
    /\ \A p \in Paths : dir[Tmp(p)] = req[r].ino => req[r].path = p
PutsInv == \A r \in Requests : PutInv(r)

\* Promises of one file, one PUT and one GET.
LEMMA InAbstract ==
  /\ \A f \in Files : Held[f] = Has(dir[f], data) /\ HeldOnDisk[f] = Has(diskDir[f], diskData)
  /\ \A f \in Files : Held'[f] = Has(dir[f], data)' /\ HeldOnDisk'[f] = Has(diskDir[f], diskData)'
  /\ \A r \in Requests : Putting[r] = PutOf(r) /\ Getting[r] = GetOf(r)
  /\ \A r \in Requests : Putting'[r] = PutOf(r)' /\ Getting'[r] = GetOf(r)'
BY DEF Held, HeldOnDisk, Putting, Getting

LEMMA SameHeld ==
  ASSUME \A f \in Files : Has(dir[f], data)' = Has(dir[f], data)
  PROVE  Held' = Held
BY DEF Held

LEMMA SameOnDisk ==
  ASSUME \A f \in Files : Has(diskDir[f], diskData)' = Has(diskDir[f], diskData)
  PROVE  HeldOnDisk' = HeldOnDisk
BY DEF HeldOnDisk

LEMMA SamePutting ==
  ASSUME \A r \in Requests : PutOf(r)' = PutOf(r)
  PROVE  Putting' = Putting
BY DEF Putting

LEMMA SameGetting ==
  ASSUME \A r \in Requests : GetOf(r)' = GetOf(r)
  PROVE  Getting' = Getting
BY DEF Getting

\* A file of which something is promised has no writer, nor has one that is read; its
\* bytes are on the disk.
LEMMA Settled ==
  ASSUME FilerInv, NEW i \in Inodes, i \notin Loose
  PROVE  /\ i \in Published => Writers(i) = {} /\ diskData[i] = data[i]
         /\ \A s \in Requests : Reading(s) /\ req[s].ino = i => Writers(i) = {}
<1>1. \A s \in Requests : s \in Writers(i) =>
        i \notin Published /\ \A t \in Requests : ~(Reading(t) /\ req[t].ino = i)
  <2> SUFFICES ASSUME NEW s \in Requests, s \in Writers(i)
               PROVE  i \notin Published /\ \A t \in Requests : ~(Reading(t) /\ req[t].ino = i)
    OBVIOUS
  <2>1. req[s].ino = i /\ i \notin muddled /\ i \notin patched /\ (Full(s) \/ Partial(s))
    BY WritersOf DEF Loose
  <2>2. ~Partial(s)
    BY <2>1 DEF FilerInv, Requesting, PartInv
  <2> QED
    BY <2>1, <2>2, FullIsHidden
<1>2. Writers(i) \subseteq Requests
  BY DEF Writers
<1>3. Writers(i) = {} /\ i \in Published => diskData[i] = data[i]
  BY DEF FilerInv, Stands, Loose
<1> QED
  BY <1>1, <1>2, <1>3

\* Where a step leaves an inode to what it was promised to have, or to nothing.
Same(i) == (i \in Loose' <=> i \in Loose) /\ (i \notin Loose => data'[i] = data[i])
SameDisk(i) == (i \in Loose' <=> i \in Loose) /\ (i \notin Loose => diskData'[i] = diskData[i])

LEMMA SameHas ==
  ASSUME TypeOK, NEW f \in Files, dir'[f] = dir[f], \A i \in Inodes : i \in Published => Same(i)
  PROVE  Has(dir[f], data)' = Has(dir[f], data)
<1>1. dir[f] = None \/ (dir[f] \in Inodes /\ dir[f] \in Published)
  BY NameFacts DEF TypeOK, Published
<1> QED
  BY <1>1 DEF Has, Same

LEMMA SameHasOnDisk ==
  ASSUME TypeOK, NEW f \in Files, diskDir'[f] = diskDir[f],
         \A i \in Inodes : i \in Published => SameDisk(i)
  PROVE  Has(diskDir[f], diskData)' = Has(diskDir[f], diskData)
<1>1. diskDir[f] = None \/ (diskDir[f] \in Inodes /\ diskDir[f] \in Published)
  BY NameFacts DEF TypeOK, Published
<1> QED
  BY <1>1 DEF Has, SameDisk

\* The other requests, where r may be nobody.
LEMMA SamePut ==
  ASSUME NEW s \in Requests, req'[s] = req[s],
         Full(s) => (req[s].ino \in muddled' <=> req[s].ino \in muddled)
  PROVE  PutOf(s)' = PutOf(s)
BY DEF PutOf, Full

LEMMA SameGet ==
  ASSUME TypeOK, NEW s \in Requests, req'[s] = req[s], Reading(s) => Same(req[s].ino)
  PROVE  GetOf(s)' = GetOf(s)
<1>1. CASE ~Reading(s)
  <2>1. Has(None, data)' = Has(None, data)
    BY DEF Has
  <2> QED
    BY <1>1, <2>1 DEF GetOf, Reading
<1>2. CASE Reading(s)
  BY <1>2 DEF GetOf, Reading, Has, Same
<1> QED
  BY <1>1, <1>2

\* Another PUT that has to share its temporary file.
LEMMA NowShared ==
  ASSUME NEW s \in Requests, req'[s] = req[s], Full(s), req[s].ino \in muddled'
  PROVE  PutOf(s)' = [PutOf(s) EXCEPT !.at = "shared"]
BY DEF PutOf, Full

\* Request r goes on, where the PUTs of p that use inode i, if any, share it from now on.
LEMMA Sharing ==
  ASSUME NEW r \in Requests, NEW p \in Paths, NEW i,
         \A s \in Requests : s # r => req'[s] = req[s],
         \A s \in Requests : s # r /\ Full(s) =>
           IF req[s].ino = i THEN req[s].path = p /\ i \in muddled'
           ELSE req[s].ino \in muddled' <=> req[s].ino \in muddled
  PROVE  Promised!Puts(r, File(p), Putting'[r])
<1> DEFINE ds == {s \in Requests : s # r /\ Full(s) /\ req[s].ino = i}
<1>1. ds \subseteq Promised!Rivals(r, File(p))
  <2> SUFFICES ASSUME NEW s \in ds
               PROVE  s \in Requests \ {r} /\ Putting[s].at # "none" /\ Putting[s].file = File(p)
    BY DEF Promised!Rivals
  <2>1. s \in Requests /\ s # r /\ Full(s) /\ req[s].path = p
    OBVIOUS
  <2>2. Putting[s] = PutOf(s)
    BY <2>1, InAbstract
  <2>3. PutOf(s).at # "none" /\ PutOf(s).file = File(p)
    BY <2>1 DEF PutOf, Full
  <2> QED
    BY <2>1, <2>2, <2>3
<1>2. ASSUME NEW s \in Requests, s # r
      PROVE  Putting'[s] = IF s \in ds THEN [Putting[s] EXCEPT !.at = "shared"] ELSE Putting[s]
  <2>1. req'[s] = req[s]
    BY <1>2
  <2>2. CASE s \in ds
    <3>1. Full(s) /\ req[s].ino \in muddled'
      BY <2>2
    <3> QED
      BY <2>1, <2>2, <3>1, NowShared, InAbstract
  <2>3. CASE s \notin ds
    <3>1. Full(s) => (req[s].ino \in muddled' <=> req[s].ino \in muddled)
      BY <1>2, <2>3
    <3> QED
      BY <2>1, <2>3, <3>1, SamePut, InAbstract
  <2> QED
    BY <2>2, <2>3
<1> HIDE DEF ds
<1>3. Putting' = [s \in Requests |-> Putting'[s]]
  BY DEF Putting
<1>4. Putting' = [s \in Requests |->
                    IF s = r THEN Putting'[r]
                    ELSE IF s \in ds THEN [Putting[s] EXCEPT !.at = "shared"] ELSE Putting[s]]
  BY <1>2, <1>3, Zenon
<1> QED
  BY <1>1, <1>4 DEF Promised!Puts

\* Steps of WholeFiles.
LEMMA PutStep ==
  ASSUME NEW r \in Requests, NEW f \in Files,
         Promised!BeginPut(r, f) \/ Promised!EndPut(r, f) \/ Promised!FailPut(r)
  PROVE  Promised!Next
<1>1. Putting'[r] # Putting[r]
  <2>1. CASE Promised!BeginPut(r, f)
    <3>1. Putting[r].at = "none" /\ Putting'[r].at \in {"alone", "shared"}
      BY <2>1 DEF Promised!BeginPut, Promised!NoPut
    <3> QED
      BY <3>1
  <2>2. CASE Promised!EndPut(r, f)
    <3>1. Putting[r].at # "none" /\ Putting'[r].at = "none"
      BY <2>2 DEF Promised!EndPut, Promised!Puts, Promised!NoPut
    <3> QED
      BY <3>1
  <2>3. CASE Promised!FailPut(r)
    <3>1. Putting[r].at # "none" /\ Putting'[r].at = "none"
      BY <2>3 DEF Promised!FailPut, Promised!NoPut, Putting
    <3> QED
      BY <3>1
  <2> QED
    BY <2>1, <2>2, <2>3
<1> QED
  BY <1>1 DEF Promised!Next

LEMMA GetStep ==
  ASSUME NEW r \in Requests, NEW f \in Files,
         Getting'[r] # Getting[r],
         Promised!OpenGet(r, f) \/ Promised!Serve(r) \/ Promised!EndGet(r)
  PROVE  Promised!Next
BY DEF Promised!Next

LEMMA FileStep ==
  ASSUME NEW f \in Files, NEW g \in Files, Held'[f] # Held[f],
         Promised!Patch(f) \/ Promised!Remove(f) \/ Promised!Move(f, g)
  PROVE  Promised!Next
BY DEF Promised!Next

LEMMA Stutters ==
  ASSUME Held' = Held, HeldOnDisk' = HeldOnDisk, Putting' = Putting, Getting' = Getting
  PROVE  [Promised!Next]_(Promised!vars)
BY DEF Promised!vars

-----------------------------------------------------------------------------
(* Who opened the temporary files *)

LEMMA PutsKept ==
  ASSUME FilerInv, PutsInv,
         \A s \in Requests : Full(s)' =>
           Full(s) /\ req'[s].ino = req[s].ino /\ req'[s].path = req[s].path,
         \A q \in Paths : dir'[Tmp(q)] \in {dir[Tmp(q)], None},
         muddled \subseteq muddled', patched' = patched
  PROVE  PutsInv'
<1> SUFFICES ASSUME NEW s \in Requests, Full(s)'
             PROVE  /\ req'[s].ino \notin muddled' => req'[s].ino \notin patched'
                    /\ \A q \in Paths : dir'[Tmp(q)] = req'[s].ino => req'[s].path = q
  BY DEF PutsInv, PutInv
<1>1. Full(s) /\ req'[s].ino = req[s].ino /\ req'[s].path = req[s].path /\ PutInv(s)
  BY DEF PutsInv
<1>2. req[s].ino # None
  BY <1>1, Bounds DEF FilerInv, Requesting, Shape
<1> QED
  BY <1>1, <1>2 DEF PutInv

LEMMA OpenTmpPuts ==
  ASSUME FilerInv, PutsInv, NEW r \in Requests, NEW p \in Paths, NEW b \in Bodies(FullSizes),
         OpenTmp(r, p, b)
  PROVE  PutsInv'
<1>1. TypeOK /\ NamesInv /\ Tmp(p) \in Names
  BY NameFacts DEF FilerInv
<1> PICK i \in Inodes :
      /\ i = IF dir[Tmp(p)] = None THEN NewInode ELSE dir[Tmp(p)]
      /\ dir[Tmp(p)] \in {None, i}
      /\ dir[Tmp(p)] = None => i \in Free
  BY <1>1, OpenedInode DEF OpenTmp
<1> DEFINE q == [Idle EXCEPT !.op = "full", !.path = p, !.ino = i, !.at = "write", !.body = b]
<1>2. /\ req' = [req EXCEPT ![r] = q]
      /\ dir' = [dir EXCEPT ![Tmp(p)] = i]
      /\ muddled' = IF Writers(i) # {} THEN muddled \cup {i} ELSE muddled \ {i}
      /\ patched' = patched \ {i}
  BY DEF OpenTmp, Opened
<1>3. q.op = "full" /\ q.path = p /\ q.ino = i
  BY DEF Idle
<1> HIDE DEF q
<1>4. /\ req'[r] = q /\ \A s \in Requests : s # r => req'[s] = req[s]
      /\ dir'[Tmp(p)] = i /\ \A n \in Names : n # Tmp(p) => dir'[n] = dir[n]
  BY <1>1, <1>2 DEF TypeOK
<1>5. i # None /\ \A x \in Paths : dir[Tmp(x)] = i => x = p
  BY <1>1, Bounds, NameFacts DEF Free, NamesInv, Injective
<1>6. \A x \in Paths : x # p => dir'[Tmp(x)] = dir[Tmp(x)]
  BY <1>4, NameFacts
<1>7. PutInv(r)'
  BY <1>2, <1>3, <1>4, <1>5, <1>6 DEF PutInv, Full
<1>8. ASSUME NEW s \in Requests, s # r, Full(s)
      PROVE  PutInv(s)'
  <2>1. PutInv(s) /\ req'[s] = req[s] /\ s \in Writers(req[s].ino)
    BY <1>4, <1>8, WritersOf DEF PutsInv
  <2>2. CASE req[s].ino = i
    <3>1. i \in muddled' /\ dir[Tmp(p)] = i
      BY <1>2, <1>8, <2>1, <2>2 DEF Free
    <3>2. req[s].path = p
      BY <1>8, <2>1, <2>2, <3>1 DEF PutInv
    <3> QED
      BY <1>5, <1>6, <2>1, <2>2, <3>1, <3>2 DEF PutInv
  <2>3. CASE req[s].ino # i
    BY <1>2, <1>4, <1>6, <1>8, <2>1, <2>3 DEF PutInv, Full
  <2> QED
    BY <2>2, <2>3
<1>9. ASSUME NEW s \in Requests, s # r, ~Full(s)
      PROVE  PutInv(s)'
  BY <1>4, <1>9 DEF PutInv, Full
<1> QED
  BY <1>7, <1>8, <1>9 DEF PutsInv

LEMMA OpenPartialPuts ==
  ASSUME FilerInv, PutsInv, NEW r \in Requests, NEW p \in Paths, NEW off, NEW b, NEW total,
         OpenPartial(r, p, off, b, total)
  PROVE  PutsInv'
<1>1. TypeOK /\ NamesInv /\ File(p) \in Names
  BY NameFacts DEF FilerInv
<1> PICK i \in Inodes :
      /\ i = IF dir[File(p)] = None THEN NewInode ELSE dir[File(p)]
      /\ dir[File(p)] \in {None, i}
      /\ dir[File(p)] = None => i \in Free
  BY <1>1, OpenedInode DEF OpenPartial
<1> DEFINE q == [Idle EXCEPT !.op = "partial", !.ino = i, !.at = "length",
                             !.start = off, !.size = total, !.body = b]
<1>2. /\ req' = [req EXCEPT ![r] = q]
      /\ dir' = [dir EXCEPT ![File(p)] = i]
      /\ muddled' = IF Writers(i) # {} THEN muddled \cup {i} ELSE muddled \ {i}
      /\ patched' = patched \cup {i}
  BY DEF OpenPartial, Opened
<1>3. q.op = "partial"
  BY DEF Idle
<1> HIDE DEF q
<1>4. /\ req'[r] = q /\ \A s \in Requests : s # r => req'[s] = req[s]
      /\ \A n \in Names : n # File(p) => dir'[n] = dir[n]
  BY <1>1, <1>2 DEF TypeOK
<1>5. \A x \in Paths : dir'[Tmp(x)] = dir[Tmp(x)]
  BY <1>4, NameFacts
<1>6. PutInv(r)'
  BY <1>3, <1>4 DEF PutInv, Full
<1>7. ASSUME NEW s \in Requests, s # r, Full(s)
      PROVE  PutInv(s)'
  <2>1. PutInv(s) /\ req'[s] = req[s] /\ s \in Writers(req[s].ino)
    BY <1>4, <1>7, WritersOf DEF PutsInv
  <2>2. req[s].ino = i => i \in muddled'
    BY <1>2, <2>1
  <2> QED
    BY <1>2, <1>5, <1>7, <2>1, <2>2 DEF PutInv, Full
<1>8. ASSUME NEW s \in Requests, s # r, ~Full(s)
      PROVE  PutInv(s)'
  BY <1>4, <1>8 DEF PutInv, Full
<1> QED
  BY <1>6, <1>7, <1>8 DEF PutsInv

LEMMA GoesOnPuts ==
  ASSUME FilerInv, PutsInv, NEW r \in Requests,
         \/ SetLength(r) \/ Stream(r) \/ SyncFull(r) \/ SyncPartial(r)
         \/ OpenRead(r) \/ Fetch(r)
  PROVE  PutsInv'
<1>1. /\ req \in [Requests -> Request] /\ Idle.op = "idle"
      /\ UNCHANGED <<dir, muddled, patched>>
  BY DEF FilerInv, TypeOK, Idle, SetLength, Stream, SyncFull, SyncPartial, OpenRead, Fetch, watch
<1>2. \A s \in Requests : Full(s)' =>
        Full(s) /\ req'[s].ino = req[s].ino /\ req'[s].path = req[s].path
  <2>1. CASE SetLength(r)
    BY <1>1, <2>1 DEF SetLength, Full
  <2>2. CASE Stream(r)
    <3>1. \A x : [req[r] EXCEPT !.done = x].op = req[r].op
      BY <1>1 DEF Request
    <3> QED
      BY <1>1, <2>2, <3>1 DEF Stream, Full
  <2>3. CASE SyncFull(r)
    BY <1>1, <2>3 DEF SyncFull, Full
  <2>4. CASE SyncPartial(r)
    BY <1>1, <2>4 DEF SyncPartial, Full
  <2>5. CASE OpenRead(r)
    BY <1>1, <2>5 DEF OpenRead, Full, Request
  <2>6. CASE Fetch(r)
    BY <1>1, <2>6 DEF Fetch, Full, Request
  <2> QED
    BY <2>1, <2>2, <2>3, <2>4, <2>5, <2>6
<1> QED
  BY <1>1, <1>2, PutsKept

LEMMA EndsPuts ==
  ASSUME FilerInv, PutsInv, NEW r \in Requests, Publish(r) \/ Abort(r)
  PROVE  PutsInv'
<1>1. /\ req' = [req EXCEPT ![r] = Idle] /\ Idle.op = "idle"
      /\ muddled \subseteq muddled' /\ patched' = patched
  BY DEF Publish, Abort, Idle
<1>2. \A s \in Requests : Full(s)' => s # r /\ req'[s] = req[s]
  BY <1>1 DEF Full, FilerInv, TypeOK
<1>3. \A q \in Paths : dir'[Tmp(q)] \in {dir[Tmp(q)], None}
  <2>1. CASE Abort(r)
    BY <2>1 DEF Abort
  <2>2. CASE Publish(r)
    <3>1. PICK p \in Paths : p = req[r].path
      BY <2>2 DEF Publish, Full, FilerInv, Requesting, Shape
    <3>2. PICK i : i = dir[Tmp(p)]
      OBVIOUS
    <3>3. dir' \in {dir, [dir EXCEPT ![Tmp(p)] = None, ![File(p)] = i]}
      BY <2>2, <3>1, <3>2 DEF Publish
    <3>4. dir \in [Names -> Inodes \cup {None}]
      BY DEF FilerInv, TypeOK
    <3> QED
      BY <3>3, <3>4, NameFacts
  <2> QED
    BY <2>1, <2>2
<1> QED
  BY <1>1, <1>2, <1>3, PutsKept DEF Full

LEMMA MeasurePuts ==
  ASSUME FilerInv, PutsInv, NEW r \in Requests, NEW p \in Paths, NEW off, NEW n,
         Measure(r, p, off, n)
  PROVE  PutsInv'
<1> PICK size : size = Lesser(n, Len(data[dir[File(p)]]) - off)
  OBVIOUS
<1> PICK q : q = [Idle EXCEPT !.op = "get", !.path = p, !.start = off, !.at = "measured",
                              !.size = size]
  OBVIOUS
<1>1. req' = [req EXCEPT ![r] = q] /\ q.op = "get" /\ UNCHANGED <<dir, muddled, patched>>
  BY DEF Measure, Idle, watch
<1>2. \A s \in Requests : Full(s)' => s # r /\ req'[s] = req[s]
  BY <1>1 DEF Full, FilerInv, TypeOK
<1> QED
  BY <1>1, <1>2, PutsKept DEF Full

LEMMA NobodysPuts ==
  ASSUME FilerInv, PutsInv,
         \/ \E p \in Paths : Delete(p) \/ \E f \in Files : Rename(p, f)
         \/ \E i \in Inodes : WriteOut(i)
         \/ Journal
  PROVE  PutsInv'
<1>1. UNCHANGED <<req, muddled, patched>>
  BY DEF Delete, Rename, WriteOut, Journal, watch
<1>2. \A q \in Paths : dir'[Tmp(q)] = dir[Tmp(q)]
  BY NameFacts DEF Delete, Rename, WriteOut, Journal, FilerInv, TypeOK
<1> QED
  BY <1>1, <1>2, PutsKept DEF Full

LEMMA PowerFailurePuts ==
  ASSUME PowerFailure
  PROVE  PutsInv'
BY DEF PowerFailure, PutsInv, PutInv, Full, Idle

LEMMA PutsNext ==
  ASSUME FilerInv, PutsInv, Next
  PROVE  PutsInv'
BY OpenTmpPuts, OpenPartialPuts, GoesOnPuts, EndsPuts, MeasurePuts, NobodysPuts,
   PowerFailurePuts DEF Next

-----------------------------------------------------------------------------
(* What each step does to whole files *)

\* What a writer does to an inode, to its bytes or those on the disk, nobody sees.
LEMMA UnseenWrite ==
  ASSUME FilerInv, NEW r \in Requests, NEW i \in Inodes, r \in Writers(i),
         UNCHANGED <<dir, diskDir, muddled, patched>>,
         \A k \in Inodes \ {i} : data'[k] = data[k] /\ diskData'[k] = diskData[k],
         \A s \in Requests : s # r => req'[s] = req[s],
         PutOf(r)' = PutOf(r), GetOf(r)' = GetOf(r)
  PROVE  [Promised!Next]_(Promised!vars)
<1>1. TypeOK /\ Loose' = Loose
  BY DEF FilerInv, Loose
<1>2. i \in Loose \/ (i \notin Published /\ \A s \in Requests : Reading(s) => req[s].ino # i)
  BY Settled
<1>3. \A k \in Inodes : k \in Published => Same(k) /\ SameDisk(k)
  BY <1>1, <1>2 DEF Same, SameDisk
<1>4. \A f \in Files : Has(dir[f], data)' = Has(dir[f], data)
  BY <1>1, <1>3, SameHas
<1>5. \A f \in Files : Has(diskDir[f], diskData)' = Has(diskDir[f], diskData)
  BY <1>1, <1>3, SameHasOnDisk
<1>6. \A s \in Requests : PutOf(s)' = PutOf(s)
  BY SamePut
<1>7. \A s \in Requests : Reading(s) => Same(req[s].ino)
  BY <1>1, <1>2 DEF Same, FilerInv, Requesting, Shape
<1>8. \A s \in Requests : GetOf(s)' = GetOf(s)
  BY <1>1, <1>7, SameGet
<1> QED
  BY <1>4, <1>5, <1>6, <1>8, SameHeld, SameOnDisk, SamePutting, SameGetting, Stutters

LEMMA GoesOnWriting ==
  ASSUME FilerInv, NEW r \in Requests,
         SetLength(r) \/ Stream(r) \/ SyncFull(r) \/ SyncPartial(r)
  PROVE  [Promised!Next]_(Promised!vars)
<1>1. /\ TypeOK /\ req \in [Requests -> Request] /\ data \in [Inodes -> Content]
      /\ diskData \in [Inodes -> Content] /\ Idle.op = "idle"
  BY DEF FilerInv, TypeOK, Idle
<1> PICK i \in Inodes : i = req[r].ino /\ r \in Writers(i)
  BY OtherWriters DEF SetLength, Stream, SyncFull, SyncPartial, Full, Partial
<1>2. /\ UNCHANGED <<dir, diskDir, muddled, patched>>
      /\ \A s \in Requests : s # r => req'[s] = req[s]
  BY <1>1 DEF SetLength, Stream, SyncFull, SyncPartial, disk, watch
<1>3. \A k \in Inodes \ {i} : data'[k] = data[k] /\ diskData'[k] = diskData[k]
  BY <1>1 DEF SetLength, Stream, SyncFull, SyncPartial, disk
<1>4. /\ req[r].op \in {"full", "partial"}
      /\ req'[r].op = "full" <=> req[r].op = "full"
      /\ req'[r].op # "get"
      /\ req[r].op = "full" => /\ req'[r].ino = req[r].ino /\ req'[r].path = req[r].path
                               /\ req'[r].body = req[r].body
  <2>1. CASE SetLength(r)
    BY <1>1, <2>1 DEF SetLength, Request
  <2>2. CASE Stream(r)
    <3>1. \A x : LET q == [req[r] EXCEPT !.done = x]
                 IN q.op = req[r].op /\ q.ino = req[r].ino /\ q.path = req[r].path
                    /\ q.body = req[r].body
      BY <1>1 DEF Request
    <3> QED
      BY <1>1, <2>2, <3>1 DEF Stream
  <2>3. CASE SyncFull(r)
    BY <1>1, <2>3 DEF SyncFull, Request
  <2>4. CASE SyncPartial(r)
    BY <1>1, <2>4 DEF SyncPartial
  <2> QED
    BY <2>1, <2>2, <2>3, <2>4
<1>5. PutOf(r)' = PutOf(r)
  BY <1>2, <1>4 DEF PutOf
<1>6. GetOf(r)' = GetOf(r)
  BY <1>4 DEF GetOf, Has
<1> QED
  BY <1>2, <1>3, <1>5, <1>6, UnseenWrite

\* Nor do they see what reaches the disk of a file.
LEMMA WriteOutIsUnseen ==
  ASSUME FilerInv, NEW i \in Inodes, WriteOut(i)
  PROVE  [Promised!Next]_(Promised!vars)
<1>1. TypeOK /\ UNCHANGED <<dir, diskDir, data, req, muddled, patched>> /\ Loose' = Loose
  BY DEF FilerInv, WriteOut, watch, Loose
<1>2. \A k \in Inodes : diskData'[k] \in {diskData[k], data[k]}
  BY <1>1 DEF WriteOut, TypeOK
<1>3. \A k \in Inodes : k \in Published => Same(k) /\ SameDisk(k)
  BY <1>1, <1>2, Settled DEF Same, SameDisk
<1>4. \A f \in Files : Has(dir[f], data)' = Has(dir[f], data)
  BY <1>1, <1>3, SameHas
<1>5. \A f \in Files : Has(diskDir[f], diskData)' = Has(diskDir[f], diskData)
  BY <1>1, <1>3, SameHasOnDisk
<1>6. \A s \in Requests : PutOf(s)' = PutOf(s) /\ GetOf(s)' = GetOf(s)
  BY <1>1 DEF PutOf, GetOf, Has
<1> QED
  BY <1>4, <1>5, <1>6, SameHeld, SameOnDisk, SamePutting, SameGetting, Stutters

LEMMA OpenTmpBegins ==
  ASSUME FilerInv, PutsInv, NEW r \in Requests, NEW p \in Paths, NEW b \in Bodies(FullSizes),
         OpenTmp(r, p, b)
  PROVE  [Promised!Next]_(Promised!vars)
<1>1. TypeOK /\ NamesInv /\ Tmp(p) \in Names
  BY NameFacts DEF FilerInv
<1> PICK i \in Inodes :
      /\ i = IF dir[Tmp(p)] = None THEN NewInode ELSE dir[Tmp(p)]
      /\ dir[Tmp(p)] \in {None, i}
      /\ dir[Tmp(p)] = None => i \in Free
  BY <1>1, OpenedInode DEF OpenTmp
<1> DEFINE q == [Idle EXCEPT !.op = "full", !.path = p, !.ino = i, !.at = "write", !.body = b]
<1>2. /\ req' = [req EXCEPT ![r] = q] /\ req[r] = Idle
      /\ dir' = [dir EXCEPT ![Tmp(p)] = i]
      /\ data' = [data EXCEPT ![i] = <<>>]
      /\ diskData' = [diskData EXCEPT ![i] = <<>>]
      /\ muddled' = IF Writers(i) # {} THEN muddled \cup {i} ELSE muddled \ {i}
      /\ patched' = patched \ {i}
      /\ diskDir' = diskDir
  BY DEF OpenTmp, Opened, Accept
<1>3. q.op = "full" /\ q.path = p /\ q.ino = i /\ q.body = b
  BY DEF Idle
<1> HIDE DEF q
<1>4. /\ req'[r] = q /\ \A s \in Requests : s # r => req'[s] = req[s]
      /\ \A n \in Names : n # Tmp(p) => dir'[n] = dir[n]
      /\ \A k \in Inodes : k # i => data'[k] = data[k] /\ diskData'[k] = diskData[k]
      /\ \A k : k # i => (k \in muddled' <=> k \in muddled) /\ (k \in Loose' <=> k \in Loose)
  BY <1>1, <1>2 DEF TypeOK, Loose
<1>5. i # None /\ \A f \in Files : dir[f] # i /\ diskDir[f] # i /\ dir'[f] = dir[f]
  BY <1>1, <1>4, Bounds, NameFacts DEF Free, NamesInv, Injective
<1>6. \A s \in Requests : Reading(s) \/ Partial(s) => req[s].ino # i
  <2> SUFFICES ASSUME NEW s \in Requests, Reading(s) \/ Partial(s)
               PROVE  req[s].ino # i
    OBVIOUS
  <2>1. NotTmp(req[s].ino)
    BY DEF FilerInv, Requesting, PartInv, GetInv
  <2> QED
    BY <2>1 DEF NotTmp, Free
<1>7. ASSUME NEW s \in Requests, s \in Writers(i)
      PROVE  s # r /\ Full(s) /\ req[s].ino = i /\ req[s].path = p /\ i \in muddled'
  <2>1. s # r /\ (Full(s) \/ Partial(s)) /\ req[s].ino = i
    BY <1>2, <1>7, WritersOf DEF Full, Partial, Idle
  <2>2. Full(s)
    BY <1>6, <2>1
  <2>3. dir[Tmp(p)] = i
    BY <2>1 DEF Free
  <2> QED
    BY <1>2, <1>7, <2>1, <2>2, <2>3 DEF PutsInv, PutInv
<1>8. i \notin Published /\ \A k \in Inodes : k # i => Same(k) /\ SameDisk(k)
  BY <1>4, <1>5 DEF Published, Same, SameDisk
<1>9. Held' = Held
  BY <1>1, <1>5, <1>8, SameHas, SameHeld
<1>10. HeldOnDisk' = HeldOnDisk
  BY <1>1, <1>2, <1>8, SameHasOnDisk, SameOnDisk
<1>11. Getting' = Getting
  <2>1. \A s \in Requests : Reading(s) => Same(req[s].ino)
    BY <1>6, <1>8 DEF FilerInv, Requesting, Shape
  <2>2. GetOf(r)' = GetOf(r)
    BY <1>2, <1>3, <1>4 DEF GetOf, Has, Idle
  <2> QED
    BY <1>1, <1>4, <2>1, <2>2, SameGet, SameGetting
<1>12. Promised!Puts(r, File(p), Putting'[r])
  <2>1. \A s \in Requests : s # r /\ Full(s) =>
          IF req[s].ino = i THEN req[s].path = p /\ i \in muddled'
          ELSE req[s].ino \in muddled' <=> req[s].ino \in muddled
    BY <1>4, <1>7, WritersOf
  <2> QED
    BY <1>4, <2>1, Sharing
<1>13. /\ Putting[r] = Promised!NoPut
       /\ Putting'[r] = [at |-> IF i \in muddled' THEN "shared" ELSE "alone",
                         file |-> File(p), body |-> b]
  <2>1. PutOf(r) = Promised!NoPut
    BY <1>2 DEF PutOf, Idle, Promised!NoPut
  <2>2. PutOf(r)' = [at |-> IF i \in muddled' THEN "shared" ELSE "alone",
                     file |-> File(p), body |-> b]
    BY <1>3, <1>4 DEF PutOf
  <2> QED
    BY <2>1, <2>2, InAbstract
<1>14. Putting'[r].at = "shared" => Promised!Rivals(r, File(p)) # {}
  <2> SUFFICES ASSUME i \in muddled'
               PROVE  Promised!Rivals(r, File(p)) # {}
    BY <1>13
  <2>1. Writers(i) # {} /\ Writers(i) \subseteq Requests
    BY <1>2 DEF Writers
  <2>2. PICK s \in Requests : s \in Writers(i)
    BY <2>1
  <2>3. s # r /\ Full(s) /\ req[s].path = p /\ Putting[s] = PutOf(s)
    BY <1>7, <2>2, InAbstract
  <2>4. PutOf(s).at # "none" /\ PutOf(s).file = File(p)
    BY <2>3 DEF PutOf, Full
  <2> QED
    BY <2>3, <2>4 DEF Promised!Rivals
<1>15. Promised!BeginPut(r, File(p))
  <2>1. Putting'[r].file = File(p) /\ Putting'[r].body \in Bodies(FullSizes)
        /\ Putting'[r].at \in {"alone", "shared"}
    BY <1>13
  <2> QED
    BY <1>9, <1>10, <1>11, <1>12, <1>13, <1>14, <2>1 DEF Promised!BeginPut
<1> QED
  BY <1>15, NameFacts, PutStep

\* The rename ends a PUT: alone it puts its body in place of the file, and shared it may
\* put anything there, or nothing.
LEMMA PublishEnds ==
  ASSUME FilerInv, PutsInv, NEW r \in Requests, Publish(r)
  PROVE  [Promised!Next]_(Promised!vars)
<1>1. PICK p \in Paths : p = req[r].path
  BY DEF Publish, Full, FilerInv, Requesting, Shape
<1>2. PICK i \in Inodes : i = req[r].ino
  BY OtherWriters DEF Publish, Full
<1>3. PICK j \in Inodes \cup {None} : j = dir[Tmp(p)]
  BY NameFacts DEF FilerInv, TypeOK
<1>4. /\ TypeOK /\ NamesInv /\ req' = [req EXCEPT ![r] = Idle]
      /\ UNCHANGED <<data, diskDir, diskData, patched>>
      /\ Full(r) /\ req[r].at = "publish"
      /\ dir' = IF j = None THEN dir ELSE [dir EXCEPT ![Tmp(p)] = None, ![File(p)] = j]
      /\ muddled' = IF j \notin {None, i} THEN muddled \cup {j} ELSE muddled
  BY <1>1, <1>2, <1>3 DEF Publish, FilerInv, Full, disk
<1>5. /\ req'[r] = Idle /\ \A s \in Requests : s # r => req'[s] = req[s]
      /\ j = None => \A f \in Files : dir'[f] = dir[f]
      /\ j # None => /\ dir'[File(p)] = j
                     /\ \A f \in Files : f # File(p) => dir'[f] = dir[f]
      /\ \A k : k # j => (k \in Loose' <=> k \in Loose)
  BY <1>4, NameFacts DEF TypeOK, Loose
<1>6. i \notin muddled =>
        /\ i = j /\ i \notin Loose
        /\ data[i] = req[r].body
  <2> SUFFICES ASSUME i \notin muddled
               PROVE  i = j /\ i \notin Loose /\ data[i] = req[r].body
    OBVIOUS
  <2>1. i = j /\ i \notin patched
    BY <1>1, <1>2, <1>3, <1>4 DEF FilerInv, Requesting, FullInv, PutsInv, PutInv
  <2>2. data[i] \in Seq(Byte) /\ req[r].body \in Seq(Byte)
    BY <1>4, RequestFields, InodeFields
  <2>3. data[i] = req[r].body
    <3>1. Shape(r) /\ FullInv(r)
      BY DEF FilerInv, Requesting
    <3>2. /\ Len(data[i]) = Len(req[r].body)
          /\ \A k \in 1..Len(req[r].body) : data[i][k] = req[r].body[k]
      BY <1>2, <1>4, <3>1 DEF FullInv, Shape
    <3> QED
      BY <2>2, <3>2, SeqEqual
  <2> QED
    BY <2>1, <2>3 DEF Loose
<1>7. j # None => /\ \A f \in Files : dir[f] # j /\ diskDir[f] # j
                  /\ \A s \in Requests : Reading(s) => req[s].ino # j
  <2> SUFFICES ASSUME j # None
               PROVE  /\ \A f \in Files : dir[f] # j /\ diskDir[f] # j
                      /\ \A s \in Requests : Reading(s) => req[s].ino # j
    OBVIOUS
  <2>1. \A f \in Files : dir[f] # j /\ diskDir[f] # j
    BY <1>3, <1>4, NameFacts DEF NamesInv, Injective
  <2>2. \A s \in Requests : Reading(s) => NotTmp(req[s].ino)
    BY DEF FilerInv, Requesting, GetInv
  <2> QED
    BY <1>3, <2>1, <2>2 DEF NotTmp
<1>8. \A k \in Inodes : k # j => Same(k) /\ SameDisk(k)
  BY <1>4, <1>5 DEF Same, SameDisk
<1>9. \A k \in Inodes : k \in Published => k # j
  <2>1. j # None => j \notin Published
    BY <1>7 DEF Published
  <2> QED
    BY <2>1, Bounds
<1>10. HeldOnDisk' = HeldOnDisk
  BY <1>4, <1>8, <1>9, SameHasOnDisk, SameOnDisk
<1>11. Getting' = Getting
  <2>1. \A s \in Requests : Reading(s) => Same(req[s].ino)
    BY <1>7, <1>8, Bounds DEF FilerInv, Requesting, Shape
  <2>2. GetOf(r)' = GetOf(r)
    BY <1>4, <1>5 DEF GetOf, Has, Idle, Full
  <2> QED
    BY <1>4, <1>5, <2>1, <2>2, SameGet, SameGetting
<1>12. \A f \in Files : j = None \/ f # File(p) => Held'[f] = Held[f]
  <2> SUFFICES ASSUME NEW f \in Files, j = None \/ f # File(p)
               PROVE  Held'[f] = Held[f]
    OBVIOUS
  <2>1. dir'[f] = dir[f]
    BY <1>5
  <2>2. \A k \in Inodes : k \in Published => Same(k)
    BY <1>8, <1>9
  <2>3. Has(dir[f], data)' = Has(dir[f], data)
    BY <1>4, <2>1, <2>2, SameHas
  <2> QED
    BY <2>3, InAbstract
<1>13. j # None => Held'[File(p)] = IF i \in muddled THEN Promised!Loose
                                     ELSE Promised!Whole(req[r].body)
  <2> SUFFICES ASSUME j # None
               PROVE  Has(dir[File(p)], data)' = IF i \in muddled THEN Promised!Loose
                                                 ELSE Promised!Whole(req[r].body)
    BY <1>1, NameFacts, InAbstract
  <2>1. dir'[File(p)] = j
    BY <1>5
  <2>2. CASE i \in muddled
    <3>1. j \in Loose'
      BY <1>4, <2>2 DEF Loose
    <3> QED
      BY <2>1, <2>2, <3>1 DEF Has, Promised!Loose
  <2>3. CASE i \notin muddled
    <3>1. j \notin Loose' /\ data'[j] = req[r].body
      BY <1>4, <1>6, <2>3 DEF Loose
    <3> QED
      BY <2>1, <2>3, <3>1 DEF Has, Promised!Whole
  <2> QED
    BY <2>2, <2>3
<1>14. /\ Putting[r] = [at |-> IF i \in muddled THEN "shared" ELSE "alone",
                        file |-> File(p), body |-> req[r].body]
       /\ Putting'[r] = Promised!NoPut
  <2>1. PutOf(r) = [at |-> IF i \in muddled THEN "shared" ELSE "alone",
                    file |-> File(p), body |-> req[r].body]
    BY <1>1, <1>2, <1>4 DEF PutOf, Full
  <2>2. PutOf(r)' = Promised!NoPut
    BY <1>5 DEF PutOf, Idle, Promised!NoPut
  <2> QED
    BY <2>1, <2>2, InAbstract
<1>15. Promised!Puts(r, File(p), Promised!NoPut)
  <2>1. CASE j \in {None, i}
    <3>1. muddled' = muddled /\ \A s \in Requests : Full(s) => req[s].ino # None
      BY <1>4, <2>1, Bounds DEF FilerInv, Requesting, Shape
    <3>2. \A s \in Requests : s # r /\ Full(s) =>
            IF req[s].ino = None THEN req[s].path = p /\ None \in muddled'
            ELSE req[s].ino \in muddled' <=> req[s].ino \in muddled
      BY <3>1
    <3> QED
      BY <1>5, <1>14, <3>2, Sharing
  <2>2. CASE j \notin {None, i}
    <3>1. \A s \in Requests : s # r /\ Full(s) =>
            IF req[s].ino = j THEN req[s].path = p /\ j \in muddled'
            ELSE req[s].ino \in muddled' <=> req[s].ino \in muddled
      BY <1>3, <1>4, <2>2 DEF PutsInv, PutInv
    <3> QED
      BY <1>5, <1>14, <3>1, Sharing
  <2> QED
    BY <2>1, <2>2
<1>16. Held = [f \in Files |-> Held[f]] /\ Held' = [f \in Files |-> Held'[f]]
  BY DEF Held
<1>17. Promised!EndPut(r, File(p))
  <2>1. Putting[r].at # "none" /\ Putting[r].file = File(p) /\ Putting[r].body = req[r].body
        /\ Putting[r].at = IF i \in muddled THEN "shared" ELSE "alone"
    BY <1>14
  <2>2. CASE i \notin muddled
    <3>1. j # None
      BY <1>6, <2>2, Bounds
    <3>2. Held' = [Held EXCEPT ![File(p)] = Promised!Whole(req[r].body)]
      BY <1>12, <1>13, <1>16, <2>2, <3>1
    <3> QED
      BY <1>10, <1>11, <1>15, <2>1, <2>2, <3>2 DEF Promised!EndPut
  <2>3. CASE i \in muddled /\ j = None
    <3>1. Held' = Held
      BY <1>12, <1>16, <2>3
    <3> QED
      BY <1>10, <1>11, <1>15, <2>1, <2>3, <3>1 DEF Promised!EndPut
  <2>4. CASE i \in muddled /\ j # None
    <3>1. Held' = [Held EXCEPT ![File(p)] = Promised!Loose]
      BY <1>12, <1>13, <1>16, <2>4
    <3> QED
      BY <1>10, <1>11, <1>15, <2>1, <2>4, <3>1 DEF Promised!EndPut
  <2> QED
    BY <2>2, <2>3, <2>4
<1> QED
  BY <1>17, NameFacts, PutStep

\* A PUT with a range begins: what the file has is not whole any more.
LEMMA OpenPartialPatches ==
  ASSUME FilerInv, NEW r \in Requests, NEW p \in Paths, NEW off, NEW b, NEW total,
         OpenPartial(r, p, off, b, total)
  PROVE  [Promised!Next]_(Promised!vars)
<1>1. TypeOK /\ NamesInv /\ File(p) \in Names /\ File(p) \in Files
  BY NameFacts DEF FilerInv
<1> PICK i \in Inodes :
      /\ i = IF dir[File(p)] = None THEN NewInode ELSE dir[File(p)]
      /\ dir[File(p)] \in {None, i}
      /\ dir[File(p)] = None => i \in Free
  BY <1>1, OpenedInode DEF OpenPartial
<1> DEFINE q == [Idle EXCEPT !.op = "partial", !.ino = i, !.at = "length",
                             !.start = off, !.size = total, !.body = b]
<1>2. /\ req' = [req EXCEPT ![r] = q] /\ req[r] = Idle
      /\ dir' = [dir EXCEPT ![File(p)] = i]
      /\ data' = [data EXCEPT ![i] = IF dir[File(p)] = None THEN <<>> ELSE data[i]]
      /\ diskData' = IF dir[File(p)] = None THEN [diskData EXCEPT ![i] = <<>>] ELSE diskData
      /\ muddled' = IF Writers(i) # {} THEN muddled \cup {i} ELSE muddled \ {i}
      /\ patched' = patched \cup {i}
      /\ diskDir' = diskDir
  BY DEF OpenPartial, Opened, Accept
<1>3. q.op = "partial"
  BY DEF Idle
<1> HIDE DEF q
<1>4. /\ req'[r] = q /\ \A s \in Requests : s # r => req'[s] = req[s]
      /\ dir'[File(p)] = i /\ \A n \in Names : n # File(p) => dir'[n] = dir[n]
      /\ \A k \in Inodes : k # i => data'[k] = data[k] /\ diskData'[k] = diskData[k]
      /\ dir[File(p)] # None => data' = data /\ diskData' = diskData
      /\ i \in Loose' /\ \A k : k # i => (k \in muddled' <=> k \in muddled) /\ (k \in Loose' <=> k \in Loose)
  BY <1>1, <1>2 DEF TypeOK, Loose
<1>5. \A k \in Inodes : k # i => Same(k) /\ SameDisk(k)
  BY <1>4 DEF Same, SameDisk
<1>6. dir[File(p)] = None =>
        /\ i \notin Published
        /\ \A s \in Requests : req[s].ino # i
  BY NameFacts DEF Free, Published
<1>7. i # None /\ \A f \in Files : f # File(p) => dir[f] # i /\ dir'[f] = dir[f]
  BY <1>1, <1>4, Bounds, NameFacts DEF Free, NamesInv, Injective
<1>8. Putting' = Putting
  <2>1. ASSUME NEW s \in Requests, s # r
        PROVE  PutOf(s)' = PutOf(s)
    <3>1. req'[s] = req[s]
      BY <1>4, <2>1
    <3>2. ASSUME Full(s), req[s].ino = i
          PROVE  i \in muddled' /\ i \in muddled
      <4>1. s \in Writers(i) /\ dir[File(p)] = i
        BY <1>6, <3>2, WritersOf
      <4>2. i \in Published
        BY <1>1, <4>1 DEF Published
      <4> QED
        BY <1>2, <3>2, <4>1, <4>2, FullIsHidden
    <3>3. Full(s) => (req[s].ino \in muddled' <=> req[s].ino \in muddled)
      BY <1>4, <3>2
    <3> QED
      BY <3>1, <3>3, SamePut
  <2>2. PutOf(r)' = PutOf(r)
    BY <1>2, <1>3, <1>4 DEF PutOf, Idle
  <2> QED
    BY <2>1, <2>2, SamePutting
<1>9. \A s \in Requests : ~(Reading(s) /\ req[s].ino = i) => GetOf(s)' = GetOf(s)
  <2>1. GetOf(r)' = GetOf(r)
    BY <1>2, <1>3, <1>4 DEF GetOf, Has, Idle
  <2>2. ASSUME NEW s \in Requests, s # r, ~(Reading(s) /\ req[s].ino = i)
        PROVE  GetOf(s)' = GetOf(s)
    <3>1. Reading(s) => Same(req[s].ino)
      BY <1>5, <2>2 DEF FilerInv, Requesting, Shape
    <3> QED
      BY <1>1, <1>4, <2>2, <3>1, SameGet
  <2> QED
    BY <2>1, <2>2
<1>10. ASSUME NEW s \in Requests, Reading(s), req[s].ino = i
       PROVE  GetOf(s)' = [GetOf(s) EXCEPT !.of = Promised!Loose] /\ GetOf(s).of = Has(i, data)
  <2>1. req'[s] = req[s]
    BY <1>2, <1>4, <1>10 DEF Reading, Idle
  <2>2. GetOf(s)' = [of |-> Promised!Loose, start |-> req[s].start, done |-> req[s].done]
    BY <1>4, <1>7, <1>10, <2>1 DEF GetOf, Has, Reading, Promised!Loose
  <2>3. GetOf(s) = [of |-> Has(i, data), start |-> req[s].start, done |-> req[s].done]
    BY <1>10 DEF GetOf, Reading
  <2> QED
    BY <2>2, <2>3
<1>11. ASSUME NEW f \in Files, diskDir[f] # i
       PROVE  HeldOnDisk'[f] = HeldOnDisk[f]
  <2>1. diskDir[f] \in Inodes => SameDisk(diskDir[f])
    BY <1>5, <1>11
  <2>2. diskDir[f] \in Inodes \cup {None} /\ diskDir'[f] = diskDir[f]
    BY <1>1, <1>2, NameFacts DEF TypeOK
  <2>3. Has(diskDir[f], diskData)' = Has(diskDir[f], diskData)
    BY <2>1, <2>2 DEF Has, SameDisk
  <2> QED
    BY <2>3, InAbstract
<1>12. ASSUME NEW f \in Files, f # File(p)
       PROVE  Held'[f] = Held[f]
  <2>1. dir[f] \in Inodes => Same(dir[f])
    BY <1>5, <1>7, <1>12
  <2>2. dir[f] \in Inodes \cup {None} /\ dir'[f] = dir[f]
    BY <1>1, <1>7, <1>12, NameFacts DEF TypeOK
  <2>3. Has(dir[f], data)' = Has(dir[f], data)
    BY <2>1, <2>2 DEF Has, Same
  <2> QED
    BY <2>3, InAbstract
<1>13. Held'[File(p)] = Promised!Loose
  <2>1. Has(dir[File(p)], data)' = Promised!Loose
    BY <1>4, <1>7 DEF Has, Promised!Loose
  <2> QED
    BY <1>1, <2>1, InAbstract
<1>14. /\ Held = [f \in Files |-> Held[f]] /\ Held' = [f \in Files |-> Held'[f]]
       /\ HeldOnDisk' = [f \in Files |-> HeldOnDisk'[f]] /\ HeldOnDisk = [f \in Files |-> HeldOnDisk[f]]
       /\ Getting' = [s \in Requests |-> Getting'[s]] /\ Getting = [s \in Requests |-> Getting[s]]
  BY DEF Held, HeldOnDisk, Getting
<1>15. CASE dir[File(p)] = i /\ i \in Loose
  <2>1. Held[File(p)] = Promised!Loose
    <3>1. Has(dir[File(p)], data) = Promised!Loose
      BY <1>7, <1>15 DEF Has, Promised!Loose
    <3> QED
      BY <1>1, <3>1, InAbstract
  <2>2. Held' = Held
    BY <1>12, <1>13, <1>14, <2>1
  <2>3. ASSUME NEW s \in Requests, Reading(s), req[s].ino = i
        PROVE  GetOf(s)' = GetOf(s)
    <3>1. GetOf(s) = [of |-> Promised!Loose, start |-> req[s].start, done |-> req[s].done]
      BY <1>7, <1>15, <2>3 DEF GetOf, Reading, Has, Promised!Loose
    <3> QED
      BY <1>10, <2>3, <3>1
  <2>4. Getting' = Getting
    BY <1>9, <2>3, SameGetting
  <2>5. ASSUME NEW f \in Files, diskDir[f] = i
        PROVE  HeldOnDisk'[f] = HeldOnDisk[f]
    <3>1. Has(diskDir[f], diskData)' = Has(diskDir[f], diskData)
      BY <1>2, <1>4, <1>7, <1>15, <2>5 DEF Has
    <3> QED
      BY <3>1, InAbstract
  <2>6. HeldOnDisk' = HeldOnDisk
    BY <1>11, <1>14, <2>5
  <2> QED
    BY <1>8, <2>2, <2>4, <2>6, Stutters
<1>16. CASE ~(dir[File(p)] = i /\ i \in Loose)
  <2> DEFINE gs == {f \in Files : dir[File(p)] = i /\ diskDir[f] = i}
             cs == {s \in Requests : dir[File(p)] = i /\ Reading(s) /\ req[s].ino = i}
  <2>1. Held[File(p)] = Has(dir[File(p)], data)
    BY <1>1, InAbstract
  <2>2. dir[File(p)] = i =>
          /\ Held[File(p)] = Promised!Whole(data[i]) /\ Held[File(p)] = Has(i, data)
          /\ diskData[i] = data[i]
    <3> SUFFICES ASSUME dir[File(p)] = i
                 PROVE  /\ Held[File(p)] = Promised!Whole(data[i])
                        /\ Held[File(p)] = Has(i, data)
                        /\ diskData[i] = data[i]
      OBVIOUS
    <3>1. i \notin Loose
      BY <1>16
    <3>2. i \in Published
      BY <1>1 DEF Published
    <3>3. diskData[i] = data[i]
      BY <3>1, <3>2, Settled
    <3>4. Has(i, data) = Promised!Whole(data[i])
      BY <1>7, <3>1 DEF Has, Promised!Whole
    <3> QED
      BY <2>1, <3>3, <3>4
  <2>3. Held[File(p)] # Promised!Loose
    <3>1. dir[File(p)] = None => Held[File(p)].is = "missing"
      BY <2>1 DEF Has
    <3>2. dir[File(p)] = i => Held[File(p)].is = "whole"
      BY <2>2 DEF Promised!Whole
    <3>3. Promised!Loose.is = "loose"
      BY DEF Promised!Loose
    <3> QED
      BY <3>1, <3>2, <3>3
  <2>4. dir[File(p)] = i => Held[File(p)] # Promised!Missing
    <3>1. dir[File(p)] = i => Held[File(p)].is = "whole"
      BY <2>2 DEF Promised!Whole
    <3>2. Promised!Missing.is = "missing"
      BY DEF Promised!Missing
    <3> QED
      BY <3>1, <3>2
  <2>5. gs \subseteq {g \in Files : HeldOnDisk[g] = Held[File(p)] /\ Held[File(p)] # Promised!Missing}
    <3> SUFFICES ASSUME NEW g \in Files, dir[File(p)] = i, diskDir[g] = i
                 PROVE  HeldOnDisk[g] = Held[File(p)] /\ Held[File(p)] # Promised!Missing
      OBVIOUS
    <3>1. Has(i, diskData) = Promised!Whole(data[i])
      <4>1. i \notin Loose /\ diskData[i] = data[i]
        BY <1>16, <2>2
      <4> QED
        BY <1>7, <4>1 DEF Has, Promised!Whole
    <3>2. HeldOnDisk[g] = Has(i, diskData)
      BY InAbstract
    <3> QED
      BY <2>2, <2>4, <3>1, <3>2
  <2>6. cs \subseteq {c \in Requests : Getting[c].of = Held[File(p)] /\ Held[File(p)] # Promised!Missing}
    <3> SUFFICES ASSUME NEW c \in Requests, dir[File(p)] = i, Reading(c), req[c].ino = i
                 PROVE  Getting[c].of = Held[File(p)] /\ Held[File(p)] # Promised!Missing
      OBVIOUS
    <3>1. Getting[c] = GetOf(c) /\ GetOf(c).of = Has(i, data)
      BY <1>10, InAbstract
    <3> QED
      BY <2>2, <2>4, <3>1
  <2>7. \A g \in Files : HeldOnDisk'[g] = IF g \in gs THEN Promised!Loose ELSE HeldOnDisk[g]
    <3>1. ASSUME NEW g \in Files, g \in gs
          PROVE  HeldOnDisk'[g] = Promised!Loose
      <4>1. Has(diskDir[g], diskData)' = Promised!Loose
        BY <1>2, <1>4, <1>7, <3>1 DEF Has, Promised!Loose
      <4> QED
        BY <4>1, InAbstract
    <3>2. ASSUME NEW g \in Files, g \notin gs
          PROVE  diskDir[g] # i
      <4>1. dir[File(p)] = None => diskDir[g] # i
        BY NameFacts DEF Free
      <4> QED
        BY <3>2, <4>1
    <3> QED
      BY <1>11, <3>1, <3>2
  <2>8. \A c \in Requests : Getting'[c] = IF c \in cs THEN [Getting[c] EXCEPT !.of = Promised!Loose]
                                          ELSE Getting[c]
    <3>1. ASSUME NEW c \in Requests, c \in cs
          PROVE  Getting'[c] = [Getting[c] EXCEPT !.of = Promised!Loose]
      BY <1>10, <3>1, InAbstract
    <3>2. ASSUME NEW c \in Requests, c \notin cs
          PROVE  Getting'[c] = Getting[c]
      <4>1. ~(Reading(c) /\ req[c].ino = i)
        BY <1>6, <3>2
      <4> QED
        BY <1>9, <4>1, InAbstract
    <3> QED
      BY <3>1, <3>2
  <2> HIDE DEF gs, cs
  <2>9. HeldOnDisk' = [g \in Files |-> IF g \in gs THEN Promised!Loose ELSE HeldOnDisk[g]]
    BY <1>14, <2>7
  <2>10. Getting' = [c \in Requests |-> IF c \in cs THEN [Getting[c] EXCEPT !.of = Promised!Loose]
                                        ELSE Getting[c]]
    BY <1>14, <2>8, Zenon
  <2>11. Held' = [Held EXCEPT ![File(p)] = Promised!Loose]
    BY <1>12, <1>13, <1>14
  <2>12. Promised!Patch(File(p))
    BY <1>8, <2>5, <2>6, <2>9, <2>10, <2>11 DEF Promised!Patch
  <2>13. Held'[File(p)] # Held[File(p)]
    BY <1>13, <2>3
  <2> QED
    BY <1>1, <2>12, <2>13, FileStep
<1> QED
  BY <1>15, <1>16

\* A step of request r alone, which is no PUT of a whole file.
LEMMA OneRequest ==
  ASSUME FilerInv, NEW r \in Requests,
         UNCHANGED <<dir, data, diskDir, diskData>>, Loose' = Loose,
         \A s \in Requests : s # r => req'[s] = req[s],
         \A s \in Requests : s # r /\ Full(s) =>
           (req[s].ino \in muddled' <=> req[s].ino \in muddled)
  PROVE  /\ Held' = Held /\ HeldOnDisk' = HeldOnDisk
         /\ PutOf(r)' = PutOf(r) => Putting' = Putting
         /\ \A s \in Requests : s # r => Getting'[s] = Getting[s]
         /\ GetOf(r)' = GetOf(r) => Getting' = Getting
<1>1. TypeOK /\ \A i \in Inodes : Same(i) /\ SameDisk(i)
  BY DEF FilerInv, Same, SameDisk
<1>2. Held' = Held /\ HeldOnDisk' = HeldOnDisk
  BY <1>1, SameHas, SameHasOnDisk, SameHeld, SameOnDisk
<1>3. PutOf(r)' = PutOf(r) => Putting' = Putting
  BY SamePut, SamePutting
<1>4. \A s \in Requests : Reading(s) => Same(req[s].ino)
  BY <1>1 DEF FilerInv, Requesting, Shape
<1>5. \A s \in Requests : s # r => GetOf(s)' = GetOf(s)
  BY <1>1, <1>4, SameGet
<1> QED
  BY <1>2, <1>3, <1>5, InAbstract, SameGetting

LEMMA MeasureIsUnseen ==
  ASSUME FilerInv, NEW r \in Requests, NEW p \in Paths, NEW off, NEW n, Measure(r, p, off, n)
  PROVE  [Promised!Next]_(Promised!vars)
<1> PICK size : size = Lesser(n, Len(data[dir[File(p)]]) - off)
  OBVIOUS
<1> PICK q : q = [Idle EXCEPT !.op = "get", !.path = p, !.start = off, !.at = "measured",
                              !.size = size]
  OBVIOUS
<1>1. /\ req' = [req EXCEPT ![r] = q] /\ req[r] = Idle
      /\ q.op = "get" /\ q.at = "measured"
      /\ UNCHANGED <<dir, data, diskDir, diskData, muddled, patched>>
  BY DEF Measure, Accept, Idle, watch, disk
<1>2. req'[r] = q /\ \A s \in Requests : s # r => req'[s] = req[s]
  BY <1>1 DEF FilerInv, TypeOK
<1>3. Loose' = Loose
  BY <1>1 DEF Loose
<1>4. PutOf(r)' = PutOf(r) /\ GetOf(r)' = GetOf(r)
  BY <1>1, <1>2 DEF PutOf, GetOf, Has, Idle
<1> QED
  BY <1>1, <1>2, <1>3, <1>4, OneRequest, Stutters

LEMMA OpenReadOpens ==
  ASSUME FilerInv, NEW r \in Requests, OpenRead(r)
  PROVE  [Promised!Next]_(Promised!vars)
<1>1. PICK p \in Paths : p = req[r].path
  BY DEF OpenRead, FilerInv, Requesting, Shape
<1>2. PICK i \in Inodes \cup {None} : i = dir[File(p)]
  BY NameFacts DEF FilerInv, TypeOK
<1>3. /\ req[r].op = "get" /\ req[r].at = "measured" /\ req[r].done = <<>>
      /\ req[r] \in Request /\ File(p) \in Files
      /\ req' = [req EXCEPT ![r] = IF i = None \/ req[r].size <= 0 THEN Idle
                                   ELSE [req[r] EXCEPT !.ino = i, !.at = "read"]]
      /\ UNCHANGED <<dir, data, diskDir, diskData, muddled, patched>>
  BY <1>1, <1>2, NameFacts DEF OpenRead, watch, disk, FilerInv, Requesting, Shape, TypeOK
<1>4. \A s \in Requests : s # r => req'[s] = req[s]
  BY <1>3 DEF FilerInv, TypeOK
<1>5. Loose' = Loose
  BY <1>3 DEF Loose
<1>6. GetOf(r) = Promised!NoGet /\ PutOf(r) = Promised!NoPut
  BY <1>3 DEF GetOf, PutOf, Has, Promised!NoGet, Promised!Missing, Promised!NoPut
<1>7. CASE i = None \/ req[r].size <= 0
  <2>1. req'[r] = Idle
    BY <1>3, <1>7 DEF FilerInv, TypeOK
  <2>2. GetOf(r)' = Promised!NoGet /\ PutOf(r)' = Promised!NoPut
    BY <2>1 DEF GetOf, PutOf, Has, Idle, Promised!NoGet, Promised!Missing, Promised!NoPut
  <2> QED
    BY <1>3, <1>4, <1>5, <1>6, <2>2, OneRequest, Stutters
<1>8. CASE ~(i = None \/ req[r].size <= 0)
  <2>1. /\ req'[r].op = "get" /\ req'[r].at = "read" /\ req'[r].ino = i
        /\ req'[r].start = req[r].start /\ req'[r].done = <<>>
    BY <1>3, <1>8 DEF FilerInv, TypeOK, Request
  <2>2. PutOf(r)' = Promised!NoPut
    BY <2>1 DEF PutOf, Promised!NoPut
  <2>3. GetOf(r)' = [of |-> Has(i, data), start |-> req[r].start, done |-> <<>>]
    BY <1>3, <1>5, <2>1 DEF GetOf, Has
  <2>4. /\ Held' = Held /\ HeldOnDisk' = HeldOnDisk /\ Putting' = Putting
        /\ \A s \in Requests : s # r => Getting'[s] = Getting[s]
    BY <1>3, <1>4, <1>5, <1>6, <2>2, OneRequest
  <2>5. Held[File(p)] = Has(i, data) /\ Held[File(p)] # Promised!Missing
    <3>1. Held[File(p)] = Has(i, data)
      BY <1>2, <1>3, InAbstract
    <3>2. Has(i, data).is # "missing"
      BY <1>8 DEF Has
    <3> QED
      BY <3>1, <3>2 DEF Promised!Missing
  <2>6. Getting[r] = Promised!NoGet /\ Getting'[r] = GetOf(r)'
    BY <1>6, InAbstract
  <2>7. Getting' = [Getting EXCEPT ![r] = Getting'[r]]
    <3>1. Getting = [s \in Requests |-> Getting[s]] /\ Getting' = [s \in Requests |-> Getting'[s]]
      BY DEF Getting
    <3> QED
      BY <2>4, <3>1
  <2>8. Getting'[r].of = Held[File(p)] /\ Getting'[r].done = <<>>
    BY <2>3, <2>5, <2>6
  <2>9. Promised!OpenGet(r, File(p))
    BY <2>4, <2>5, <2>6, <2>7, <2>8 DEF Promised!OpenGet
  <2>10. Getting'[r] # Getting[r]
    <3>1. Promised!NoGet.of = Promised!Missing
      BY DEF Promised!NoGet
    <3> QED
      BY <2>5, <2>6, <2>8, <3>1
  <2> QED
    BY <1>3, <2>9, <2>10, GetStep
<1> QED
  BY <1>7, <1>8

LEMMA FetchServes ==
  ASSUME FilerInv, NEW r \in Requests, Fetch(r)
  PROVE  [Promised!Next]_(Promised!vars)
<1>1. /\ Reading(r) /\ TypeOK /\ UNCHANGED <<dir, data, diskDir, diskData, muddled, patched>>
      /\ req[r] \in Request
  BY RequestFields DEF Fetch, Reading, FilerInv, watch, disk
<1>2. PICK i \in Inodes : i = req[r].ino
  BY <1>1 DEF FilerInv, Requesting, Shape
<1> DEFINE d == req[r].done
           off == req[r].start
           k == Len(d) + 1
<1>3. d \in Seq(Byte) /\ off \in Nat /\ data[i] \in Seq(Byte) /\ i # None
      /\ Len(d) \in Nat
  BY <1>1, RequestFields, InodeFields, Bounds
<1> HIDE DEF d, off
<1>4. req' = [req EXCEPT ![r] = IF Len(d) = req[r].size \/ off + k > Len(data[i]) THEN Idle
                                ELSE [req[r] EXCEPT !.done = Append(d, data[i][off + k])]]
  <2>1. off + Len(d) + 1 = off + k
    BY <1>3
  <2> QED
    BY <1>2, <2>1 DEF Fetch, d, off
<1>5. \A s \in Requests : s # r => req'[s] = req[s]
  BY <1>1, <1>4 DEF TypeOK
<1>6. Loose' = Loose
  BY <1>1 DEF Loose
<1>7. /\ Getting[r] = [of |-> Has(i, data), start |-> off, done |-> d]
      /\ PutOf(r) = Promised!NoPut
  <2>1. GetOf(r) = [of |-> Has(i, data), start |-> off, done |-> d]
    BY <1>1, <1>2 DEF GetOf, Reading, d, off
  <2>2. PutOf(r) = Promised!NoPut
    BY <1>1 DEF PutOf, Promised!NoPut, Reading
  <2> QED
    BY <2>1, <2>2, InAbstract
<1>8. Getting = [s \in Requests |-> Getting[s]] /\ Getting' = [s \in Requests |-> Getting'[s]]
  BY DEF Getting
<1>9. Getting[r] # Promised!NoGet
  <2>1. Has(i, data).is # "missing"
    BY <1>3 DEF Has
  <2>2. Promised!NoGet.of.is = "missing"
    BY DEF Promised!NoGet, Promised!Missing
  <2> QED
    BY <1>7, <2>1, <2>2
<1>10. CASE Len(d) = req[r].size \/ off + k > Len(data[i])
  <2>1. req'[r] = Idle
    BY <1>1, <1>4, <1>10 DEF TypeOK
  <2>2. GetOf(r)' = Promised!NoGet /\ PutOf(r)' = Promised!NoPut
    BY <2>1 DEF GetOf, PutOf, Has, Idle, Promised!NoGet, Promised!Missing, Promised!NoPut
  <2>3. /\ Held' = Held /\ HeldOnDisk' = HeldOnDisk /\ Putting' = Putting
        /\ \A s \in Requests : s # r => Getting'[s] = Getting[s]
    BY <1>1, <1>5, <1>6, <1>7, <2>2, OneRequest
  <2>4. Getting'[r] = Promised!NoGet
    BY <2>2, InAbstract
  <2>5. Getting' = [Getting EXCEPT ![r] = Promised!NoGet]
    BY <1>8, <2>3, <2>4
  <2>6. Promised!EndGet(r)
    BY <1>9, <2>3, <2>5 DEF Promised!EndGet
  <2>7. PICK f : f \in Files
    <3>1. req[r].path \in Paths
      BY <1>1 DEF FilerInv, Requesting, Shape, Reading
    <3> QED
      BY <3>1, NameFacts
  <2> QED
    BY <1>9, <2>4, <2>6, <2>7, GetStep
<1>11. CASE ~(Len(d) = req[r].size \/ off + k > Len(data[i]))
  <2> DEFINE e == Append(d, data[i][off + k])
  <2>1. /\ off + k <= Len(data[i]) /\ data[i][off + k] \in Byte
        /\ e \in Seq(Byte) /\ Len(e) = k /\ k \in Nat /\ k # Len(d)
        /\ e[k] = data[i][off + k]
    <3>1. off + k <= Len(data[i]) /\ off + k \in Nat /\ off + k >= 1
      BY <1>3, <1>11
    <3>2. data[i][off + k] \in Byte
      BY <1>3, <3>1
    <3> QED
      BY <1>3, <3>1, <3>2
  <2>2. req'[r] = [req[r] EXCEPT !.done = e]
    BY <1>1, <1>4, <1>11 DEF TypeOK
  <2> HIDE DEF e
  <2>3. /\ req'[r].op = "get" /\ req'[r].at = "read" /\ req'[r].ino = i
        /\ req'[r].start = off /\ req'[r].done = e
    BY <1>1, <1>2, <2>2 DEF Request, Reading, off
  <2>4. PutOf(r)' = Promised!NoPut
    BY <2>3 DEF PutOf, Promised!NoPut
  <2>5. GetOf(r)' = [of |-> Has(i, data), start |-> off, done |-> e]
    BY <1>1, <1>6, <2>3 DEF GetOf, Has
  <2>6. Getting'[r] = [of |-> Has(i, data), start |-> off, done |-> e]
    BY <2>5, InAbstract
  <2>7. /\ Held' = Held /\ HeldOnDisk' = HeldOnDisk /\ Putting' = Putting
        /\ \A s \in Requests : s # r => Getting'[s] = Getting[s]
    BY <1>1, <1>5, <1>6, <1>7, <2>4, OneRequest
  <2>8. Getting' = [Getting EXCEPT ![r].done = e]
    <3>1. [Getting[r] EXCEPT !.done = e] = Getting'[r]
      BY <1>7, <2>6
    <3> QED
      BY <1>8, <2>7, <3>1
  <2>9. Has(i, data) # Promised!Loose => Has(i, data).body = data[i]
    BY <1>3 DEF Has, Promised!Loose
  <2>10. Promised!Serve(r)
    <3>1. Getting'[r].done = e /\ Getting[r].done = d /\ Getting[r].start = off
          /\ Getting[r].of = Has(i, data)
      BY <1>7, <2>6
    <3>2. e = Append(d, e[k])
      BY <2>1 DEF e
    <3> QED
      BY <1>9, <2>1, <2>7, <2>8, <2>9, <3>1, <3>2 DEF Promised!Serve
  <2>11. Getting'[r] # Getting[r]
    BY <1>7, <2>1, <2>6
  <2>12. PICK f : f \in Files
    <3>1. req[r].path \in Paths
      BY <1>1 DEF FilerInv, Requesting, Shape, Reading
    <3> QED
      BY <3>1, NameFacts
  <2> QED
    BY <2>10, <2>11, <2>12, GetStep
<1> QED
  BY <1>10, <1>11

LEMMA RenameMoves ==
  ASSUME FilerInv, NEW p \in Paths, NEW f \in Files, Rename(p, f)
  PROVE  [Promised!Next]_(Promised!vars)
<1>1. /\ TypeOK /\ f # File(p) /\ dir[File(p)] # None
      /\ dir' = [dir EXCEPT ![File(p)] = None, ![f] = dir[File(p)]]
      /\ UNCHANGED <<data, diskDir, diskData, req, muddled, patched>>
      /\ File(p) \in Files
  BY NameFacts DEF FilerInv, Rename, disk, watch
<1>2. /\ dir'[File(p)] = None /\ dir'[f] = dir[File(p)]
      /\ \A g \in Files : g \notin {f, File(p)} => dir'[g] = dir[g]
  BY <1>1, NameFacts DEF TypeOK
<1>3. Loose' = Loose
  BY <1>1 DEF Loose
<1>4. HeldOnDisk' = HeldOnDisk /\ Putting' = Putting /\ Getting' = Getting
  <2>1. HeldOnDisk' = HeldOnDisk
    BY <1>1, <1>3 DEF HeldOnDisk, Has
  <2>2. \A s \in Requests : PutOf(s)' = PutOf(s) /\ GetOf(s)' = GetOf(s)
    BY <1>1, <1>3 DEF PutOf, GetOf, Has
  <2> QED
    BY <2>1, <2>2, SamePutting, SameGetting
<1>5. \A g \in Files : Has(dir[g], data)' = IF g = f THEN Has(dir[File(p)], data)
                                            ELSE IF g = File(p) THEN Promised!Missing
                                            ELSE Has(dir[g], data)
  <2>1. \A g \in Files : Has(dir[g], data)' = IF dir'[g] = None THEN Promised!Missing
                                              ELSE IF dir'[g] \in Loose THEN Promised!Loose
                                              ELSE Promised!Whole(data[dir'[g]])
    BY <1>1, <1>3 DEF Has, Promised!Missing, Promised!Loose, Promised!Whole
  <2>2. \A g \in Files : Has(dir[g], data) = IF dir[g] = None THEN Promised!Missing
                                             ELSE IF dir[g] \in Loose THEN Promised!Loose
                                             ELSE Promised!Whole(data[dir[g]])
    BY DEF Has, Promised!Missing, Promised!Loose, Promised!Whole
  <2>3. ASSUME NEW g \in Files, g = f
        PROVE  Has(dir[g], data)' = Has(dir[File(p)], data)
    <3>1. dir'[g] = dir[File(p)]
      BY <1>2, <2>3
    <3> QED
      BY <1>1, <2>1, <2>2, <3>1
  <2>4. ASSUME NEW g \in Files, g # f, g = File(p)
        PROVE  Has(dir[g], data)' = Promised!Missing
    <3>1. dir'[g] = None
      BY <1>2, <2>4
    <3> QED
      BY <2>1, <3>1
  <2>5. ASSUME NEW g \in Files, g # f, g # File(p)
        PROVE  Has(dir[g], data)' = Has(dir[g], data)
    <3>1. dir'[g] = dir[g]
      BY <1>2, <2>5
    <3> QED
      BY <2>1, <2>2, <3>1
  <2> QED
    BY <2>3, <2>4, <2>5
<1>6. \A g \in Files : Held'[g] = IF g = f THEN Held[File(p)]
                                  ELSE IF g = File(p) THEN Promised!Missing ELSE Held[g]
  <2>1. \A g \in Files : Held[g] = Has(dir[g], data) /\ Held'[g] = Has(dir[g], data)'
    BY InAbstract
  <2> QED
    BY <1>1, <1>5, <2>1
<1>7. Held = [g \in Files |-> Held[g]] /\ Held' = [g \in Files |-> Held'[g]]
  BY DEF Held
<1>8. Held' = [Held EXCEPT ![File(p)] = Promised!Missing, ![f] = Held[File(p)]]
  BY <1>1, <1>6, <1>7
<1>9. Held[File(p)] # Promised!Missing
  <2>1. Has(dir[File(p)], data).is # "missing"
    BY <1>1 DEF Has
  <2> QED
    BY <1>1, <2>1, InAbstract DEF Promised!Missing
<1>10. Promised!Move(File(p), f)
  BY <1>4, <1>8, <1>9 DEF Promised!Move
<1>11. Held'[File(p)] # Held[File(p)]
  BY <1>1, <1>6, <1>9
<1> QED
  BY <1>1, <1>10, <1>11, FileStep

LEMMA DeleteRemoves ==
  ASSUME FilerInv, NEW p \in Paths, Delete(p)
  PROVE  [Promised!Next]_(Promised!vars)
<1>1. /\ TypeOK /\ dir[File(p)] # None
      /\ dir' = [dir EXCEPT ![File(p)] = None]
      /\ UNCHANGED <<data, diskDir, diskData, req, muddled, patched>>
      /\ File(p) \in Files
  BY NameFacts DEF FilerInv, Delete, disk, watch
<1>2. dir'[File(p)] = None /\ \A g \in Files : g # File(p) => dir'[g] = dir[g]
  BY <1>1, NameFacts DEF TypeOK
<1>3. Loose' = Loose
  BY <1>1 DEF Loose
<1>4. HeldOnDisk' = HeldOnDisk /\ Putting' = Putting /\ Getting' = Getting
  <2>1. HeldOnDisk' = HeldOnDisk
    BY <1>1, <1>3 DEF HeldOnDisk, Has
  <2>2. \A s \in Requests : PutOf(s)' = PutOf(s) /\ GetOf(s)' = GetOf(s)
    BY <1>1, <1>3 DEF PutOf, GetOf, Has
  <2> QED
    BY <2>1, <2>2, SamePutting, SameGetting
<1>5. \A g \in Files : Has(dir[g], data)' = IF g = File(p) THEN Promised!Missing
                                            ELSE Has(dir[g], data)
  BY <1>1, <1>2, <1>3 DEF Has, Promised!Missing
<1>6. \A g \in Files : Held'[g] = IF g = File(p) THEN Promised!Missing ELSE Held[g]
  BY <1>5, InAbstract
<1>7. Held = [g \in Files |-> Held[g]] /\ Held' = [g \in Files |-> Held'[g]]
  BY DEF Held
<1>8. Held' = [Held EXCEPT ![File(p)] = Promised!Missing]
  BY <1>1, <1>6, <1>7
<1>9. Held[File(p)] # Promised!Missing
  <2>1. Has(dir[File(p)], data).is # "missing"
    BY <1>1 DEF Has
  <2> QED
    BY <1>1, <2>1, InAbstract DEF Promised!Missing
<1>10. Promised!Remove(File(p))
  BY <1>4, <1>8, <1>9 DEF Promised!Remove
<1>11. Held'[File(p)] # Held[File(p)]
  BY <1>1, <1>6, <1>9
<1> QED
  BY <1>1, <1>10, <1>11, FileStep

\* A request that ends early: nothing of its PUT is seen.
LEMMA AbortFails ==
  ASSUME FilerInv, NEW r \in Requests, Abort(r)
  PROVE  [Promised!Next]_(Promised!vars)
<1>1. /\ TypeOK /\ req[r] # Idle /\ req' = [req EXCEPT ![r] = Idle]
      /\ muddled' = muddled \cup Half({r}) /\ patched' = patched
      /\ UNCHANGED <<dir, data, diskDir, diskData>>
  BY DEF FilerInv, Abort, disk
<1>2. req'[r] = Idle /\ \A s \in Requests : s # r => req'[s] = req[s]
  BY <1>1 DEF TypeOK
<1>3. GetOf(r)' = Promised!NoGet /\ PutOf(r)' = Promised!NoPut
  BY <1>2 DEF GetOf, PutOf, Has, Idle, Promised!NoGet, Promised!Missing, Promised!NoPut
<1>4. \A k \in Inodes : k \in Half({r}) <=> r \in Writers(k)
  BY DEF Half, Writers
<1>5. /\ Putting = [s \in Requests |-> Putting[s]] /\ Putting' = [s \in Requests |-> Putting'[s]]
      /\ Getting = [s \in Requests |-> Getting[s]] /\ Getting' = [s \in Requests |-> Getting'[s]]
  BY DEF Putting, Getting
<1>6. CASE Full(r)
  <2>1. PICK i \in Inodes : i = req[r].ino /\ r \in Writers(i)
    BY <1>6, OtherWriters
  <2>2. /\ \A k \in Inodes : k # i => (k \in muddled' <=> k \in muddled) /\ (k \in Loose' <=> k \in Loose)
        /\ i \in muddled /\ i \in muddled' => (i \in Loose' <=> i \in Loose)
    <3>1. \A k \in Inodes : k # i => r \notin Writers(k)
      BY <2>1, WritersOf
    <3> QED
      BY <1>1, <1>4, <3>1 DEF Loose
  <2>3. \A k \in Inodes : k # i \/ i \in muddled => Same(k) /\ SameDisk(k)
    BY <1>1, <2>2 DEF Same, SameDisk
  <2>4. i \in muddled \/ (i \notin Published /\ \A s \in Requests : ~(Reading(s) /\ req[s].ino = i))
    BY <1>6, <2>1, FullIsHidden
  <2>5. \A k \in Inodes : k \in Published => Same(k) /\ SameDisk(k)
    BY <2>3, <2>4
  <2>6. Held' = Held /\ HeldOnDisk' = HeldOnDisk
    BY <1>1, <2>5, SameHas, SameHasOnDisk, SameHeld, SameOnDisk
  <2>7. \A s \in Requests : s # r => PutOf(s)' = PutOf(s)
    <3> SUFFICES ASSUME NEW s \in Requests, s # r, Full(s)
                 PROVE  req[s].ino \in muddled' <=> req[s].ino \in muddled
      BY <1>2, SamePut
    <3>1. req[s].ino \in Inodes /\ s \in Writers(req[s].ino)
      BY OtherWriters
    <3>2. req[s].ino = i => i \in muddled
      BY <1>6, <2>1, <3>1, OtherWriters
    <3> QED
      BY <1>1, <2>2, <3>1, <3>2
  <2>8. Getting' = Getting
    <3>1. \A s \in Requests : s # r => GetOf(s)' = GetOf(s)
      <4> SUFFICES ASSUME NEW s \in Requests, s # r, Reading(s)
                   PROVE  Same(req[s].ino)
        BY <1>1, <1>2, SameGet
      <4>1. req[s].ino \in Inodes
        BY DEF FilerInv, Requesting, Shape
      <4> QED
        BY <2>3, <2>4, <4>1
    <3>2. GetOf(r) = Promised!NoGet
      BY <1>6 DEF GetOf, Has, Full, Promised!NoGet, Promised!Missing
    <3> QED
      BY <1>3, <3>1, <3>2, SameGetting
  <2>9. Putting' = [Putting EXCEPT ![r] = Promised!NoPut] /\ Putting[r].at # "none"
    <3>1. Putting'[r] = Promised!NoPut /\ \A s \in Requests : s # r => Putting'[s] = Putting[s]
      BY <1>3, <2>7, InAbstract
    <3>2. Putting[r] = PutOf(r) /\ PutOf(r).at # "none"
      <4>1. PutOf(r).at # "none"
        BY <1>6 DEF PutOf, Full
      <4> QED
        BY <4>1, InAbstract
    <3> QED
      BY <1>5, <3>1, <3>2
  <2>10. Promised!FailPut(r)
    BY <2>6, <2>8, <2>9 DEF Promised!FailPut
  <2>11. PICK f : f \in Files
    <3>1. req[r].path \in Paths
      BY <1>6 DEF FilerInv, Requesting, Shape
    <3> QED
      BY <3>1, NameFacts
  <2> QED
    BY <2>10, <2>11, PutStep
<1>7. CASE ~Full(r)
  <2>1. Loose' = Loose
    <3>1. \A k \in Inodes : k \in Half({r}) => k \in patched
      <4> SUFFICES ASSUME NEW k \in Inodes, r \in Writers(k)
                   PROVE  k \in patched
        BY <1>4
      <4>1. Partial(r) /\ req[r].ino = k
        BY <1>7, WritersOf
      <4> QED
        BY <4>1 DEF FilerInv, Requesting, PartInv
    <3>2. Half({r}) \subseteq Inodes
      BY DEF Half
    <3> QED
      BY <1>1, <3>1, <3>2 DEF Loose
  <2>2. \A s \in Requests : s # r /\ Full(s) =>
          (req[s].ino \in muddled' <=> req[s].ino \in muddled)
    <3> SUFFICES ASSUME NEW s \in Requests, s # r, Full(s), req[s].ino \in Half({r})
                 PROVE  req[s].ino \in muddled
      BY <1>1
    <3>1. req[s].ino \in Inodes /\ r \in Writers(req[s].ino)
      BY <1>4, OtherWriters
    <3> QED
      BY <3>1, OtherWriters
  <2>3. /\ Held' = Held /\ HeldOnDisk' = HeldOnDisk /\ Putting' = Putting
        /\ \A s \in Requests : s # r => Getting'[s] = Getting[s]
    <3>1. PutOf(r) = Promised!NoPut
      BY <1>7 DEF PutOf, Full, Promised!NoPut
    <3> QED
      BY <1>1, <1>2, <1>3, <2>1, <2>2, <3>1, OneRequest
  <2>4. CASE Reading(r)
    <3>1. Getting'[r] = Promised!NoGet
      BY <1>3, InAbstract
    <3>2. Getting' = [Getting EXCEPT ![r] = Promised!NoGet]
      BY <1>5, <2>3, <3>1
    <3>3. Getting[r] # Promised!NoGet
      <4>1. GetOf(r).of.is # "missing"
        BY <2>4, Bounds DEF GetOf, Has, Reading, FilerInv, Requesting, Shape
      <4>2. Promised!NoGet.of.is = "missing"
        BY DEF Promised!NoGet, Promised!Missing
      <4> QED
        BY <4>1, <4>2, InAbstract
    <3>4. Promised!EndGet(r)
      BY <2>3, <3>2, <3>3 DEF Promised!EndGet
    <3>5. PICK f : f \in Files
      <4>1. req[r].path \in Paths
        BY <2>4 DEF FilerInv, Requesting, Shape, Reading
      <4> QED
        BY <4>1, NameFacts
    <3> QED
      BY <3>1, <3>3, <3>4, <3>5, GetStep
  <2>5. CASE ~Reading(r)
    <3>1. GetOf(r) = Promised!NoGet
      BY <2>5 DEF GetOf, Has, Reading, Promised!NoGet, Promised!Missing
    <3>2. \A s \in Requests : Getting'[s] = Getting[s]
      BY <1>3, <2>3, <3>1, InAbstract
    <3> QED
      BY <1>5, <2>3, <3>2, Stutters
  <2> QED
    BY <2>4, <2>5
<1> QED
  BY <1>6, <1>7

LEMMA PowerFailureFails ==
  ASSUME FilerInv, PowerFailure
  PROVE  [Promised!Next]_(Promised!vars)
<1>1. /\ TypeOK /\ req' = [r \in Requests |-> Idle]
      /\ muddled' = muddled \cup Half(Requests) /\ patched' = patched
      /\ dir' = diskDir /\ data' = diskData /\ diskDir' = diskDir /\ diskData' = diskData
  BY DEF FilerInv, PowerFailure, disk
<1>2. \A r \in Requests : GetOf(r)' = Promised!NoGet /\ PutOf(r)' = Promised!NoPut
  BY <1>1 DEF GetOf, PutOf, Has, Idle, Promised!NoGet, Promised!Missing, Promised!NoPut
<1>3. \A i \in Inodes : i \in Published => (i \in Loose' <=> i \in Loose)
  <2> SUFFICES ASSUME NEW i \in Inodes, i \in Published, i \in Half(Requests)
               PROVE  i \in Loose
    BY <1>1 DEF Loose
  <2>1. Writers(i) # {}
    BY DEF Half
  <2> QED
    BY <2>1, Settled
<1>4. \A f \in Files : /\ Has(diskDir[f], diskData)' = Has(diskDir[f], diskData)
                       /\ Has(dir[f], data)' = Has(diskDir[f], diskData)
  <2> SUFFICES ASSUME NEW f \in Files
               PROVE  /\ Has(diskDir[f], diskData)' = Has(diskDir[f], diskData)
                      /\ Has(dir[f], data)' = Has(diskDir[f], diskData)
    OBVIOUS
  <2>1. diskDir[f] = None \/ (diskDir[f] \in Inodes /\ diskDir[f] \in Published)
    BY <1>1, NameFacts DEF TypeOK, Published
  <2> QED
    BY <1>1, <1>3, <2>1 DEF Has
<1>5. HeldOnDisk' = HeldOnDisk /\ Held' = HeldOnDisk
  BY <1>4 DEF Held, HeldOnDisk
<1>6. Putting' = [c \in Requests |-> Promised!NoPut] /\ Getting' = [c \in Requests |-> Promised!NoGet]
  BY <1>2 DEF Putting, Getting
<1>7. Promised!PowerFailure
  BY <1>5, <1>6 DEF Promised!PowerFailure
<1> QED
  BY <1>7 DEF Promised!Next

LEMMA JournalCommits ==
  ASSUME FilerInv, Journal
  PROVE  [Promised!Next]_(Promised!vars)
<1>1. TypeOK /\ diskDir' = dir /\ UNCHANGED <<dir, data, diskData, req, muddled, patched>>
  BY DEF FilerInv, Journal, watch
<1>2. Loose' = Loose
  BY <1>1 DEF Loose
<1>3. \A s \in Requests : PutOf(s)' = PutOf(s) /\ GetOf(s)' = GetOf(s)
  BY <1>1, <1>2 DEF PutOf, GetOf, Has
<1>4. \A f \in Files : Has(diskDir[f], diskData)' = Has(dir[f], data)
  <2> SUFFICES ASSUME NEW f \in Files
               PROVE  Has(diskDir[f], diskData)' = Has(dir[f], data)
    OBVIOUS
  <2>1. dir[f] = None \/ (dir[f] \in Inodes /\ dir[f] \in Published)
    BY <1>1, NameFacts DEF TypeOK, Published
  <2>2. dir[f] \in Inodes /\ dir[f] \notin Loose => diskData[dir[f]] = data[dir[f]]
    BY <2>1, Settled, Bounds
  <2> QED
    BY <1>1, <1>2, <2>1, <2>2 DEF Has
<1>5. Held' = Held /\ HeldOnDisk' = Held
  <2>1. Held' = Held
    BY <1>1, <1>2 DEF Held, Has
  <2> QED
    BY <1>4, <2>1 DEF Held, HeldOnDisk
<1>6. Promised!Commit
  BY <1>3, <1>5, SamePutting, SameGetting DEF Promised!Commit
<1> QED
  BY <1>6 DEF Promised!Next

-----------------------------------------------------------------------------
LEMMA WholeInit == Init => Promised!Init
<1> SUFFICES ASSUME Init
             PROVE  Promised!Init
  OBVIOUS
<1>1. \A f \in Files : Has(dir[f], data) = Promised!Missing
                       /\ Has(diskDir[f], diskData) = Promised!Missing
  BY NameFacts DEF Init, Has, Promised!Missing
<1>2. \A r \in Requests : PutOf(r) = Promised!NoPut /\ GetOf(r) = Promised!NoGet
  BY DEF Init, PutOf, GetOf, Idle, Has, Promised!NoPut, Promised!NoGet, Promised!Missing
<1> QED
  BY <1>1, <1>2 DEF Promised!Init, Held, HeldOnDisk, Putting, Getting

LEMMA WholeNext ==
  ASSUME FilerInv, PutsInv, Next
  PROVE  [Promised!Next]_(Promised!vars)
BY OpenTmpBegins, OpenPartialPatches, MeasureIsUnseen, GoesOnWriting, PublishEnds,
   OpenReadOpens, FetchServes, AbortFails, RenameMoves, DeleteRemoves, WriteOutIsUnseen,
   PowerFailureFails, JournalCommits DEF Next

LEMMA WholeSame ==
  ASSUME UNCHANGED vars
  PROVE  UNCHANGED Promised!vars
<1>1. Loose' = Loose /\ UNCHANGED <<dir, data, diskDir, diskData, req, muddled>>
  BY DEF vars, disk, watch, Loose
<1> QED
  BY <1>1 DEF Promised!vars, Held, HeldOnDisk, Putting, Getting, Has, PutOf, GetOf

\* A PUT takes effect at its rename or not at all, a GET delivers what the file had when
\* it was opened, and a power failure takes all files back to one moment: for any number
\* of requests in flight, whatever is renamed, deleted, aborted or written to the disk
\* meanwhile.
THEOREM WholeFilesKept == Spec => WholeFilesImplemented
<1>1. Init => PutsInv
  BY DEF Init, PutsInv, PutInv, Full, Idle
<1>2. FilerInv /\ PutsInv /\ [Next]_vars => PutsInv'
  <2>1. PutsInv /\ UNCHANGED vars => PutsInv'
    BY DEF PutsInv, PutInv, Full, vars, watch
  <2> QED
    BY <2>1, PutsNext
<1>3. FilerInv /\ PutsInv /\ [Next]_vars => [Promised!Next]_(Promised!vars)
  BY WholeNext, WholeSame
<1> QED
  BY <1>1, <1>2, <1>3, WholeInit, FilerInductive, PTL
     DEF Spec, WholeFilesImplemented, Promised!Spec
=============================================================================
