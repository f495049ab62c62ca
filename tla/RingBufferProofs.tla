-------------------------- MODULE RingBufferProofs --------------------------
(***************************************************************************)
(* RingBuffer implements BoundedFifo for every size, every set of chunks   *)
(* and every interleaving of the two sides.                                *)
(*                                                                         *)
(* The index arithmetic of the code is modulo a size that is a parameter,  *)
(* so the first section turns each use of % into a case distinction.  The  *)
(* inductive invariant IInv then says that the copies stay apart and what  *)
(* has been copied so far, in and out; the last section shows that each    *)
(* step is a step of the FIFO or leaves it alone.                          *)
(***************************************************************************)
EXTENDS RingBuffer, TLAPS

-----------------------------------------------------------------------------
(* Arithmetic of the indices *)

\* The remainder and the quotient that define each other.
LEMMA ModBounds ==
  ASSUME NEW m \in Nat \ {0}, NEW x \in Nat
  PROVE  /\ x % m \in 0 .. m - 1
         /\ x \div m \in Int
         /\ x = (m * (x \div m)) + (x % m)
BY SMT

\* An index past the end by less than the size wraps round once.
LEMMA ModSmall ==
  ASSUME NEW m \in Nat \ {0}, NEW x \in Nat, x < 2 * m
  PROVE  x % m = IF x < m THEN x ELSE x - m
<1> DEFINE q == x \div m
<1>1. q \in Int /\ x % m \in 0 .. m - 1 /\ x = (m * q) + (x % m)
  BY ModBounds
<1> HIDE DEF q
<1>2. CASE q <= -1
  <2>1. m * q <= -m BY <1>2, <1>1, SMT
  <2> QED BY <2>1, <1>1, SMT
<1>3. CASE q = 0
  BY <1>3, <1>1, SMT
<1>4. CASE q = 1
  BY <1>4, <1>1, SMT
<1>5. CASE q >= 2
  <2>1. m * q >= 2 * m BY <1>5, <1>1, SMT
  <2> QED BY <2>1, <1>1, SMT
<1> QED BY <1>1, <1>2, <1>3, <1>4, <1>5

\* The buffer has one slot more than it holds bytes.
LEMMA NType == /\ N \in Nat \ {0} /\ N \in Int /\ N >= 2
               /\ Size \in Nat /\ N = Size + 1 /\ Size = N - 1
BY SizeAssumption DEF N

\* What data_size and free_size compute.
LEMMA UsedValue ==
  ASSUME NEW h \in 0 .. N - 1, NEW t \in 0 .. N - 1
  PROVE  /\ Used(h, t) = IF h >= t THEN h - t ELSE h + N - t
         /\ Used(h, t) \in 0 .. Size
         /\ Free(h, t) = Size - Used(h, t)
<1> DEFINE x == h + N - t
<1>1. x \in Nat /\ x < 2 * N
  BY NType
<1>2. Used(h, t) = x % N /\ Free(h, t) = N - (x % N) - 1
  BY DEF Used, Free
<1>3. x < N <=> h < t
  BY NType
<1> HIDE DEF x
<1>4. x % N = IF x < N THEN x ELSE x - N
  BY <1>1, NType, ModSmall
<1>5. x % N = IF h >= t THEN h - t ELSE h + N - t
  BY <1>3, <1>4, NType DEF x
<1>6. /\ Used(h, t) = IF h >= t THEN h - t ELSE h + N - t
      /\ Free(h, t) = N - Used(h, t) - 1
  BY <1>5 DEF Used, Free, x
<1> QED BY <1>6, NType

\* Where an index k slots further lies.
LEMMA SlotValue ==
  ASSUME NEW i \in 0 .. N - 1, NEW k \in 0 .. N - 1
  PROVE  /\ Slot(i, k) = IF i + k < N THEN i + k ELSE i + k - N
         /\ Slot(i, k) \in 0 .. N - 1
<1> DEFINE x == i + k
<1>1. x \in Nat /\ x < 2 * N
  BY NType
<1>2. Slot(i, k) = x % N
  BY DEF Slot
<1> HIDE DEF x
<1>3. x % N = IF x < N THEN x ELSE x - N
  BY <1>1, NType, ModSmall
<1>4. Slot(i, k) = IF x < N THEN x ELSE x - N
  BY <1>2, <1>3
<1> QED BY <1>4, NType DEF x

\* Two slots less than a round apart are different slots.
LEMMA SlotInjective ==
  ASSUME NEW i \in 0 .. N - 1, NEW j \in 0 .. N - 1, NEW k \in 0 .. N - 1, j # k
  PROVE  Slot(i, j) # Slot(i, k)
<1>1. Slot(i, j) = IF i + j < N THEN i + j ELSE i + j - N
  BY SlotValue
<1>2. Slot(i, k) = IF i + k < N THEN i + k ELSE i + k - N
  BY SlotValue
<1> QED BY <1>1, <1>2, NType

\* The k-th slot behind head is a slot further round from tail.
LEMMA SlotFromTail ==
  ASSUME NEW h \in 0 .. N - 1, NEW t \in 0 .. N - 1,
         NEW k \in 0 .. N - 1, Used(h, t) + k <= Size
  PROVE  /\ Used(h, t) + k \in 0 .. N - 1
         /\ Slot(h, k) = Slot(t, Used(h, t) + k)
<1> DEFINE u == Used(h, t)
<1>1. u \in 0 .. Size /\ u = IF h >= t THEN h - t ELSE h + N - t
  BY UsedValue
<1> HIDE DEF u
<1>2. u + k <= Size
  BY DEF u
<1>3. u + k \in 0 .. N - 1
  BY <1>1, <1>2, NType
<1>4. Slot(t, u + k) = IF t + (u + k) < N THEN t + (u + k) ELSE t + (u + k) - N
  BY <1>3, SlotValue
<1>5. Slot(h, k) = IF h + k < N THEN h + k ELSE h + k - N
  BY SlotValue
<1>6. Slot(h, k) = Slot(t, u + k)
  BY <1>1, <1>2, <1>4, <1>5, NType
<1> QED BY <1>3, <1>6 DEF u

\* Moving the head by n adds n bytes.
LEMMA UsedAfterWrite ==
  ASSUME NEW h \in 0 .. N - 1, NEW t \in 0 .. N - 1, NEW n \in 0 .. Size, n <= Free(h, t)
  PROVE  Slot(h, n) \in 0 .. N - 1 /\ Used(Slot(h, n), t) = Used(h, t) + n
<1> DEFINE s == Slot(h, n)
<1>1. n \in 0 .. N - 1
  BY NType
<1>2. s \in 0 .. N - 1 /\ s = IF h + n < N THEN h + n ELSE h + n - N
  BY <1>1, SlotValue
<1> HIDE DEF s
<1>3. Used(s, t) = IF s >= t THEN s - t ELSE s + N - t
  BY <1>2, UsedValue
<1>4. /\ Used(h, t) = IF h >= t THEN h - t ELSE h + N - t
      /\ Used(h, t) \in 0 .. Size
      /\ n <= Size - Used(h, t)
  BY UsedValue
<1>5. Used(s, t) = Used(h, t) + n
  BY <1>2, <1>3, <1>4, NType
<1> QED BY <1>2, <1>5 DEF s

\* Moving the tail by n takes n bytes away.
LEMMA UsedAfterRead ==
  ASSUME NEW h \in 0 .. N - 1, NEW t \in 0 .. N - 1, NEW n \in 0 .. Used(h, t)
  PROVE  Slot(t, n) \in 0 .. N - 1 /\ Used(h, Slot(t, n)) = Used(h, t) - n
<1> DEFINE s == Slot(t, n)
<1>1. /\ Used(h, t) = IF h >= t THEN h - t ELSE h + N - t
      /\ Used(h, t) \in 0 .. Size
  BY UsedValue
<1>2. n \in 0 .. N - 1 /\ n <= Used(h, t)
  BY <1>1, NType
<1>3. s \in 0 .. N - 1 /\ s = IF t + n < N THEN t + n ELSE t + n - N
  BY <1>2, SlotValue
<1> HIDE DEF s
<1>4. Used(h, s) = IF h >= s THEN h - s ELSE h + N - s
  BY <1>3, UsedValue
<1>5. Used(h, s) = Used(h, t) - n
  BY <1>1, <1>2, <1>3, <1>4, NType
<1> QED BY <1>3, <1>5 DEF s

\* Steps round the ring add up.
LEMMA SlotAfterRead ==
  ASSUME NEW t \in 0 .. N - 1, NEW n \in 0 .. N - 1, NEW k \in 0 .. N - 1, n + k <= N - 1
  PROVE  Slot(Slot(t, n), k) = Slot(t, n + k)
<1> DEFINE s == Slot(t, n)
<1>1. s \in 0 .. N - 1 /\ s = IF t + n < N THEN t + n ELSE t + n - N
  BY SlotValue
<1>2. n + k \in 0 .. N - 1
  BY NType
<1>3. Slot(t, n + k) = IF t + (n + k) < N THEN t + (n + k) ELSE t + (n + k) - N
  BY <1>2, SlotValue
<1> HIDE DEF s
<1>4. Slot(s, k) = IF s + k < N THEN s + k ELSE s + k - N
  BY <1>1, SlotValue
<1>5. Slot(s, k) = Slot(t, n + k)
  BY <1>1, <1>2, <1>3, <1>4, NType
<1> QED BY <1>5 DEF s

-----------------------------------------------------------------------------
(* The inductive invariant *)

CopiedBytes ==
  /\ \A k \in 1 .. copiedIn : buf[Slot(head, k - 1)] = src[k]
  /\ \A k \in 1 .. Len(dst) : dst[k] = buf[Slot(tail, k - 1)]

\* A side relies on no answer while it moves bytes.
NoPeekDuringCopy ==
  /\ src # <<>> => room = 0
  /\ want # 0 => avail = 0

IInv == TypeOK /\ CopiesStayApart /\ PeeksStayTrue /\ NoPeekDuringCopy /\ CopiedBytes

\* What a producer offers is a non-empty run of bytes.
LEMMA ChunkType ==
  ASSUME NEW c \in Chunks
  PROVE  c \in Seq(Bytes) /\ Len(c) \in Nat \ {0} /\ c # <<>>
<1>1. c \in Seq(Bytes) /\ c # <<>> BY ChunksAssumption
<1> QED BY <1>1

\* The write under way, if there is one.
LEMMA SrcType ==
  ASSUME TypeOK
  PROVE  /\ src \in Seq(Bytes) /\ Len(src) \in Nat
         /\ src # <<>> <=> Len(src) # 0
<1>1. CASE src = <<>> BY <1>1
<1>2. CASE src \in Chunks BY <1>2, ChunkType
<1> QED BY <1>1, <1>2 DEF TypeOK

\* The inductive invariant holds initially.
LEMMA InitIInv == Init => IInv
<1> SUFFICES ASSUME Init PROVE IInv
  OBVIOUS
<1>1. 0 \in 0 .. N - 1 /\ Used(0, 0) = 0 /\ Free(0, 0) = Size
  <2>1. 0 \in 0 .. N - 1 BY NType
  <2>2. Used(0, 0) = 0 /\ Free(0, 0) = Size - Used(0, 0)
    BY <2>1, NType, UsedValue
  <2> QED BY <2>1, <2>2, NType
<1>2. TypeOK
  BY <1>1, NType, ReadAssumption DEF Init, TypeOK
<1>3. CopiesStayApart /\ PeeksStayTrue
  BY <1>1, NType DEF Init, CopiesStayApart, PeeksStayTrue
<1>4. CopiedBytes /\ NoPeekDuringCopy
  BY DEF Init, CopiedBytes, NoPeekDuringCopy
<1> QED BY <1>2, <1>3, <1>4 DEF IInv

\* ... and is preserved by every step, action by action.
LEMMA StepIInv == IInv /\ [Next]_vars => IInv'
<1> SUFFICES ASSUME IInv, [Next]_vars PROVE IInv'
  OBVIOUS
<1> USE DEF producerVars, consumerVars
<1>0. /\ head \in 0 .. N - 1 /\ tail \in 0 .. N - 1 /\ N \in Nat /\ N = Size + 1 /\ Size \in Nat
      /\ Used(head, tail) \in 0 .. Size
      /\ Free(head, tail) = Size - Used(head, tail)
      /\ Free(head, tail) \in 0 .. Size
      /\ src \in Seq(Bytes) /\ Len(src) \in Nat /\ (src # <<>> <=> Len(src) # 0)
      /\ Len(dst) \in Nat /\ dst \in Seq(Bytes) /\ want \in Nat /\ Len(dst) <= want
  <2>1. /\ head \in 0 .. N - 1 /\ tail \in 0 .. N - 1
        /\ dst \in Seq(Bytes) /\ Len(dst) \in Nat /\ want \in Nat /\ Len(dst) <= want
    BY NType, ReadAssumption DEF IInv, TypeOK
  <2>2. Used(head, tail) \in 0 .. Size /\ Free(head, tail) = Size - Used(head, tail)
    BY <2>1, UsedValue
  <2>3. src \in Seq(Bytes) /\ Len(src) \in Nat /\ (src # <<>> <=> Len(src) # 0)
    BY SrcType DEF IInv
  <2> QED BY <2>1, <2>2, <2>3, NType
<1>1. CASE GetFreeSize
  <2>1. UNCHANGED <<buf, head, tail, src, copiedIn, written, want, dst, avail, read, delivered>>
    BY <1>1 DEF GetFreeSize
  <2>2. room' = Free(head, tail) /\ src = <<>>
    BY <1>1 DEF GetFreeSize
  <2>3. TypeOK' BY <2>1, <2>2, <1>0 DEF IInv, TypeOK
  <2>4. CopiesStayApart' /\ PeeksStayTrue'
    BY <2>1, <2>2, <1>0 DEF IInv, CopiesStayApart, PeeksStayTrue
  <2>5. NoPeekDuringCopy' /\ CopiedBytes'
    BY <2>1, <2>2 DEF IInv, NoPeekDuringCopy, CopiedBytes
  <2> QED BY <2>3, <2>4, <2>5 DEF IInv
<1>2. ASSUME NEW c \in Chunks, BeginWrite(c) PROVE IInv'
  <2>1. c \in Seq(Bytes) /\ Len(c) \in Nat \ {0}
    BY ChunkType
  <2>2. /\ copiedIn = 0 /\ room' = 0
        /\ UNCHANGED <<buf, head, tail, copiedIn, want, dst, avail, read, delivered>>
        /\ src' = src \/ (src' = c /\ Len(c) <= Free(head, tail))
        /\ written' \in {written, "refused"}
    BY <1>2, <1>0, <2>1 DEF BeginWrite, IInv, TypeOK
  <2>3. src' \in Chunks \cup {<<>>} /\ copiedIn' \in 0 .. Len(src')
    BY <2>1, <2>2, <1>0 DEF IInv, TypeOK
  <2>4. TypeOK'
    BY <2>2, <2>3, <1>0 DEF IInv, TypeOK
  <2>5. CopiesStayApart' /\ PeeksStayTrue'
    BY <2>2, <1>0, <2>1 DEF IInv, CopiesStayApart, PeeksStayTrue
  <2>6. CopiedBytes' /\ NoPeekDuringCopy'
    BY <2>2 DEF IInv, CopiedBytes, NoPeekDuringCopy
  <2> QED BY <2>4, <2>5, <2>6 DEF IInv
<1>3. CASE CopyIn
  <2> DEFINE s == Slot(head, copiedIn)
  <2>1. /\ copiedIn \in 0 .. N - 1 /\ copiedIn + 1 \in 1 .. Len(src) /\ src # <<>>
        /\ Used(head, tail) + copiedIn <= Size
        /\ Used(head, tail) + copiedIn < N
    BY <1>3, <1>0 DEF CopyIn, IInv, TypeOK, CopiesStayApart
  <2>2. /\ s \in 0 .. N - 1
        /\ s = Slot(tail, Used(head, tail) + copiedIn)
        /\ Used(head, tail) + copiedIn \in 0 .. N - 1
    BY <1>0, <2>1, SlotValue, SlotFromTail
  <2>3. src[copiedIn + 1] \in Bytes
    BY <1>0, <2>1
  <2> HIDE DEF s
  <2>4. /\ buf' = [buf EXCEPT ![s] = src[copiedIn + 1]]
        /\ copiedIn' = copiedIn + 1
        /\ UNCHANGED <<head, tail, src, dst, room, written, want, avail, read, delivered>>
    BY <1>3 DEF CopyIn, s
  <2>5. TypeOK'
    BY <1>0, <2>1, <2>2, <2>3, <2>4 DEF IInv, TypeOK
  <2>6. CopiesStayApart' /\ PeeksStayTrue' /\ NoPeekDuringCopy'
    BY <2>4 DEF IInv, CopiesStayApart, PeeksStayTrue, NoPeekDuringCopy
  <2>7. \A k \in 1 .. copiedIn' : buf'[Slot(head, k - 1)] = src[k]
    <3> SUFFICES ASSUME NEW k \in 1 .. copiedIn + 1
                 PROVE buf'[Slot(head, k - 1)] = src[k]
      BY <2>4
    <3>1. CASE k = copiedIn + 1
      <4>1. Slot(head, k - 1) = s BY <3>1, <2>1 DEF s
      <4> QED BY <4>1, <3>1, <2>2, <2>4 DEF IInv, TypeOK
    <3>2. CASE k # copiedIn + 1
      <4>1. k \in 1 .. copiedIn /\ k - 1 \in 0 .. N - 1 /\ k - 1 # copiedIn
        BY <3>2, <2>1, <1>0
      <4>2. Slot(head, k - 1) # Slot(head, copiedIn)
        BY <4>1, <2>1, <1>0, SlotInjective
      <4>3. Slot(head, k - 1) # s /\ Slot(head, k - 1) \in 0 .. N - 1
        BY <4>1, <4>2, <1>0, SlotValue DEF s
      <4> QED BY <4>1, <4>3, <2>4 DEF IInv, CopiedBytes, TypeOK
    <3> QED BY <3>1, <3>2
  <2>8. \A k \in 1 .. Len(dst) : dst[k] = buf'[Slot(tail, k - 1)]
    <3> SUFFICES ASSUME NEW k \in 1 .. Len(dst)
                 PROVE dst[k] = buf'[Slot(tail, k - 1)]
      OBVIOUS
    <3>1. k - 1 \in 0 .. N - 1 /\ k - 1 # Used(head, tail) + copiedIn
      <4>1. /\ Len(dst) \in Nat /\ want \in Nat /\ Len(dst) <= want
            /\ want <= Used(head, tail)
        BY DEF IInv, TypeOK, CopiesStayApart
      <4> QED BY <1>0, <2>1, <4>1
    <3>2. Slot(tail, k - 1) # Slot(tail, Used(head, tail) + copiedIn)
      BY <3>1, <2>2, <1>0, SlotInjective
    <3>3. Slot(tail, k - 1) # s /\ Slot(tail, k - 1) \in 0 .. N - 1
      BY <3>1, <3>2, <2>2, <1>0, SlotValue
    <3> QED BY <3>3, <2>4 DEF IInv, CopiedBytes, TypeOK
  <2> QED BY <2>4, <2>5, <2>6, <2>7, <2>8 DEF IInv, CopiedBytes
<1>4. CASE PublishHead
  <2>0. /\ src # <<>> /\ head' = Slot(head, Len(src)) /\ src' = <<>> /\ copiedIn' = 0
        /\ written' = "ok"
        /\ UNCHANGED <<buf, tail, room, want, dst, avail, read, delivered>>
    BY <1>4 DEF PublishHead
  <2>1. Len(src) \in 0 .. Size /\ Len(src) <= Free(head, tail)
    BY <1>0 DEF IInv, CopiesStayApart
  <2>2. head' \in 0 .. N - 1 /\ Used(head', tail) = Used(head, tail) + Len(src)
    BY <2>0, <1>0, <2>1, UsedAfterWrite
  <2>3. Free(head', tail) = Size - Used(head', tail)
    BY <2>2, <1>0, UsedValue
  <2>4. room = 0 BY <2>0 DEF IInv, NoPeekDuringCopy
  <2>5. TypeOK' BY <2>0, <2>2, <1>0 DEF IInv, TypeOK
  <2>6. CopiesStayApart'
    <3>1. Len(src') = 0 BY <2>0
    <3> QED BY <3>1, <2>0, <2>1, <2>2, <2>3, <1>0 DEF IInv, CopiesStayApart
  <2>7. PeeksStayTrue'
    <3>1. avail \in Nat /\ avail <= Used(head, tail) BY <1>0 DEF IInv, TypeOK, PeeksStayTrue
    <3>2. room' <= Free(head', tail')
      <4>1. 0 <= Size - Used(head', tail) BY <2>1, <2>2, <1>0
      <4> QED BY <4>1, <2>0, <2>3, <2>4
    <3>3. avail' <= Used(head', tail') BY <2>0, <2>1, <2>2, <3>1, <1>0
    <3> QED BY <3>2, <3>3 DEF PeeksStayTrue
  <2>8. NoPeekDuringCopy' /\ CopiedBytes'
    BY <2>0 DEF IInv, NoPeekDuringCopy, CopiedBytes
  <2> QED BY <2>5, <2>6, <2>7, <2>8 DEF IInv
<1>5. CASE GetDataSize
  <2>1. UNCHANGED <<buf, head, tail, src, copiedIn, written, room, want, dst, read, delivered>>
    BY <1>5 DEF GetDataSize
  <2>2. avail' = Used(head, tail) /\ want = 0
    BY <1>5 DEF GetDataSize
  <2>3. TypeOK' BY <2>1, <2>2, <1>0 DEF IInv, TypeOK
  <2>4. CopiesStayApart' /\ PeeksStayTrue'
    BY <2>1, <2>2, <1>0 DEF IInv, CopiesStayApart, PeeksStayTrue
  <2>5. NoPeekDuringCopy' /\ CopiedBytes'
    BY <2>1, <2>2 DEF IInv, NoPeekDuringCopy, CopiedBytes
  <2> QED BY <2>3, <2>4, <2>5 DEF IInv
<1>6. ASSUME NEW n \in 1 .. MaxRead, BeginRead(n) PROVE IInv'
  <2>1. /\ avail' = 0
        /\ UNCHANGED <<buf, head, tail, src, copiedIn, room, written, dst, delivered>>
        /\ want' = want \/ (want' = n /\ want = 0 /\ n <= Used(head, tail))
        /\ read' \in {read, "refused"}
    BY <1>6, <1>0, ReadAssumption DEF BeginRead
  <2>2. want' \in 0 .. MaxRead /\ Len(dst) <= want' /\ want' <= Used(head, tail)
    BY <2>1, <1>0, ReadAssumption DEF IInv, TypeOK, CopiesStayApart
  <2>3. TypeOK' BY <2>1, <2>2, <1>0 DEF IInv, TypeOK
  <2>4. CopiesStayApart' /\ PeeksStayTrue'
    BY <2>1, <2>2, <1>0 DEF IInv, CopiesStayApart, PeeksStayTrue
  <2>5. NoPeekDuringCopy' /\ CopiedBytes'
    BY <2>1 DEF IInv, NoPeekDuringCopy, CopiedBytes
  <2> QED BY <2>3, <2>4, <2>5 DEF IInv
<1>7. CASE CopyOut
  <2> DEFINE b == buf[Slot(tail, Len(dst))]
  <2>1. Len(dst) < want /\ want <= Used(head, tail) /\ Len(dst) \in 0 .. N - 1
    BY <1>7, <1>0 DEF CopyOut, IInv, CopiesStayApart
  <2>2. Slot(tail, Len(dst)) \in 0 .. N - 1
    BY <2>1, <1>0, SlotValue
  <2>3. b \in Bytes BY <2>2 DEF IInv, TypeOK
  <2>4. /\ dst' = Append(dst, b)
        /\ UNCHANGED <<buf, head, tail, src, copiedIn, room, written, want, avail, read, delivered>>
    BY <1>7 DEF CopyOut
  <2>5. b = buf[Slot(tail, Len(dst))] OBVIOUS
  <2> HIDE DEF b
  <2>6. /\ dst' \in Seq(Bytes) /\ Len(dst') = Len(dst) + 1
        /\ \A k \in 1 .. Len(dst) : dst'[k] = dst[k]
        /\ dst'[Len(dst) + 1] = b
    BY <2>3, <2>4, <1>0
  <2>7. TypeOK' BY <2>1, <2>4, <2>6, <1>0 DEF IInv, TypeOK
  <2>8. CopiesStayApart' /\ PeeksStayTrue' /\ NoPeekDuringCopy'
    BY <2>4 DEF IInv, CopiesStayApart, PeeksStayTrue, NoPeekDuringCopy
  <2>9. ASSUME NEW k \in 1 .. Len(dst) + 1 PROVE dst'[k] = buf[Slot(tail, k - 1)]
    <3>1. CASE k = Len(dst) + 1
      <4>1. k - 1 = Len(dst) BY <3>1, <1>0
      <4> QED BY <4>1, <3>1, <2>5, <2>6
    <3>2. CASE k # Len(dst) + 1
      <4>1. k \in 1 .. Len(dst) BY <3>2, <1>0
      <4> QED BY <4>1, <2>6 DEF IInv, CopiedBytes
    <3> QED BY <3>1, <3>2
  <2>10. CopiedBytes'
    BY <2>4, <2>6, <2>9 DEF IInv, CopiedBytes
  <2> QED BY <2>7, <2>8, <2>10 DEF IInv
<1>8. CASE PublishTail
  <2>0. /\ want # 0 /\ Len(dst) = want /\ tail' = Slot(tail, want)
        /\ delivered' = dst /\ want' = 0 /\ dst' = <<>> /\ read' = "ok"
        /\ UNCHANGED <<buf, head, src, copiedIn, room, written, avail>>
    BY <1>8 DEF PublishTail
  <2>1. want \in 0 .. Used(head, tail)
    BY <1>0 DEF IInv, CopiesStayApart
  <2>2. tail' \in 0 .. N - 1 /\ Used(head, tail') = Used(head, tail) - want
    BY <2>0, <1>0, <2>1, UsedAfterRead
  <2>3. Free(head, tail') = Size - Used(head, tail')
    BY <2>2, <1>0, UsedValue
  <2>4. avail = 0 BY <2>0 DEF IInv, NoPeekDuringCopy
  <2>5. Len(dst') = 0 /\ dst' \in Seq(Bytes) BY <2>0
  <2>6. TypeOK' BY <2>0, <2>2, <2>5, <1>0, ReadAssumption DEF IInv, TypeOK
  <2>7. Len(src) <= Free(head, tail) /\ room <= Free(head, tail) /\ room \in 0 .. Size
    BY DEF IInv, CopiesStayApart, PeeksStayTrue, TypeOK
  <2>8. Len(src) <= Free(head, tail') /\ room <= Free(head, tail') /\ 0 <= Used(head, tail')
    BY <2>1, <2>2, <2>3, <2>7, <1>0
  <2>9. CopiesStayApart' /\ PeeksStayTrue'
    BY <2>0, <2>4, <2>8 DEF CopiesStayApart, PeeksStayTrue
  <2>10. NoPeekDuringCopy' /\ CopiedBytes'
    BY <2>0, <2>5 DEF IInv, NoPeekDuringCopy, CopiedBytes
  <2> QED BY <2>6, <2>9, <2>10 DEF IInv
<1>9. CASE UNCHANGED vars
  BY <1>9 DEF vars, IInv, TypeOK, CopiesStayApart, PeeksStayTrue, NoPeekDuringCopy,
     CopiedBytes
<1> QED
  BY <1>1, <1>2, <1>3, <1>4, <1>5, <1>6, <1>7, <1>8, <1>9 DEF Next

\* The invariant of the proofs is reachable-state true.
LEMMA Inductive == Spec => []IInv
<1>1. Init => IInv BY InitIInv
<1>2. IInv /\ [Next]_vars => IInv' BY StepIInv
<1> QED BY <1>1, <1>2, PTL DEF Spec

\* Every reachable state is of the declared types.
THEOREM TypeCorrect == Spec => []TypeOK
<1>1. IInv => TypeOK BY DEF IInv
<1> QED BY <1>1, Inductive, PTL

\* The bytes being copied in and the bytes being copied out never overlap.
THEOREM CopiesApart == Spec => []CopiesStayApart
<1>1. IInv => CopiesStayApart BY DEF IInv
<1> QED BY <1>1, Inductive, PTL

\* The room or the data a side was told of is still there when it uses it.
THEOREM PeeksTrue == Spec => []PeeksStayTrue
<1>1. IInv => PeeksStayTrue BY DEF IInv
<1> QED BY <1>1, Inductive, PTL

-----------------------------------------------------------------------------
(* The refinement *)

ContentsAreSlots ==
  /\ Contents \in Seq(Bytes)
  /\ Len(Contents) = Used(head, tail)
  /\ \A k \in 1 .. Used(head, tail) : Contents[k] = buf[Slot(tail, k - 1)]

\* The contents are the bytes from the tail to the head.
LEMMA ContentsType == IInv => ContentsAreSlots
<1> SUFFICES ASSUME IInv PROVE ContentsAreSlots
  OBVIOUS
<1>1. /\ head \in 0 .. N - 1 /\ tail \in 0 .. N - 1 /\ Used(head, tail) \in 0 .. Size
      /\ buf \in [0 .. N - 1 -> Bytes]
  BY UsedValue DEF IInv, TypeOK
<1>2. ASSUME NEW k \in 1 .. Used(head, tail) PROVE buf[Slot(tail, k - 1)] \in Bytes
  <2>1. k - 1 \in 0 .. N - 1 BY <1>1, NType
  <2>2. Slot(tail, k - 1) \in 0 .. N - 1 BY <2>1, <1>1, SlotValue
  <2> QED BY <2>2, <1>1
<1> QED BY <1>1, <1>2, NType DEF Contents, ContentsAreSlots

\* Equal lengths and equal elements make equal sequences.
LEMMA SeqEqual ==
  ASSUME NEW a \in Seq(Bytes), NEW b \in Seq(Bytes), Len(a) = Len(b),
         \A k \in 1 .. Len(a) : a[k] = b[k]
  PROVE  a = b
BY SMT

\* The elements of a concatenation.
LEMMA ConcatElements ==
  ASSUME NEW a \in Seq(Bytes), NEW b \in Seq(Bytes)
  PROVE  /\ a \o b \in Seq(Bytes) /\ Len(a \o b) = Len(a) + Len(b)
         /\ \A k \in 1 .. Len(a) + Len(b) :
              (a \o b)[k] = IF k <= Len(a) THEN a[k] ELSE b[k - Len(a)]
BY SMT

\* The initial state maps to an empty queue.
LEMMA InitRefines == Init => Fifo!FifoInit
<1> SUFFICES ASSUME Init PROVE Fifo!FifoInit
  OBVIOUS
<1>1. Used(head, tail) = 0
  BY NType, UsedValue DEF Init
<1>2. Contents = <<>>
  BY <1>1, InitIInv, ContentsType DEF ContentsAreSlots
<1> QED BY <1>2 DEF Init, Fifo!FifoInit

\* Every step maps to a step of the queue or to a stutter.
LEMMA StepRefines == IInv /\ IInv' /\ [Next]_vars => [Fifo!FifoNext]_(Fifo!fifoVars)
<1> SUFFICES ASSUME IInv, IInv', [Next]_vars
             PROVE  Fifo!FifoNext \/ UNCHANGED Fifo!fifoVars
  OBVIOUS
<1> USE DEF producerVars, consumerVars
<1> DEFINE u == Used(head, tail)
<1>0. /\ head \in 0 .. N - 1 /\ tail \in 0 .. N - 1
      /\ u \in 0 .. Size /\ Free(head, tail) = Size - u
      /\ Contents \in Seq(Bytes) /\ Len(Contents) = u
      /\ \A k \in 1 .. u : Contents[k] = buf[Slot(tail, k - 1)]
      /\ Contents' \in Seq(Bytes) /\ Len(Contents') = Used(head', tail')
      /\ \A k \in 1 .. Used(head', tail') : Contents'[k] = buf'[Slot(tail', k - 1)]
  <2>1. head \in 0 .. N - 1 /\ tail \in 0 .. N - 1
    BY DEF IInv, TypeOK
  <2>2. u \in 0 .. Size /\ Free(head, tail) = Size - u
    BY <2>1, UsedValue
  <2>3. /\ Contents \in Seq(Bytes) /\ Len(Contents) = u
        /\ \A k \in 1 .. u : Contents[k] = buf[Slot(tail, k - 1)]
    BY ContentsType DEF ContentsAreSlots, u
  <2>4. /\ Contents' \in Seq(Bytes) /\ Len(Contents') = Used(head', tail')
        /\ \A k \in 1 .. Used(head', tail') : Contents'[k] = buf'[Slot(tail', k - 1)]
    <3>1. ContentsAreSlots' BY ContentsType, PTL
    <3> QED BY <3>1 DEF ContentsAreSlots
  <2> QED BY <2>1, <2>2, <2>3, <2>4
<1> HIDE DEF u
<1>q. UNCHANGED <<buf, head, tail>> => Contents' = Contents
  BY DEF Contents, Used, Slot
<1>1. CASE GetFreeSize
  BY <1>1, <1>q DEF GetFreeSize, Fifo!fifoVars
<1>2. ASSUME NEW c \in Chunks, BeginWrite(c) PROVE Fifo!FifoNext \/ UNCHANGED Fifo!fifoVars
  <2>1. Contents' = Contents BY <1>2, <1>q DEF BeginWrite
  <2>2. Len(c) \in Nat BY ChunkType
  <2>3. CASE Free(head, tail) < Len(c)
    <3>1. Len(Contents) + Len(c) > Size BY <2>3, <2>2, <1>0, NType
    <3>2. Fifo!RefuseWrite
      BY <3>1, <2>1, <2>3, <1>2 DEF BeginWrite, Fifo!RefuseWrite
    <3> QED BY <3>2 DEF Fifo!FifoNext
  <2>4. CASE ~(Free(head, tail) < Len(c))
    <3>1. Len(Contents) + Len(c) <= Size BY <2>4, <2>2, <1>0, NType
    <3>2. Fifo!Offer
      BY <3>1, <2>1, <2>4, <1>2 DEF BeginWrite, Fifo!Offer
    <3> QED BY <3>2 DEF Fifo!FifoNext
  <2> QED BY <2>3, <2>4
<1>3. CASE CopyIn
  <2>1. /\ copiedIn \in 0 .. N - 1 /\ u + copiedIn < N
        /\ UNCHANGED <<head, tail, src, delivered, written, read>>
        /\ buf' = [buf EXCEPT ![Slot(head, copiedIn)] = src[copiedIn + 1]]
    <3>1. /\ copiedIn < Len(src)
          /\ UNCHANGED <<head, tail, src, delivered, written, read>>
          /\ buf' = [buf EXCEPT ![Slot(head, copiedIn)] = src[copiedIn + 1]]
      BY <1>3 DEF CopyIn
    <3>2. copiedIn \in Nat /\ Len(src) \in Nat /\ Len(src) <= Free(head, tail)
      BY SrcType DEF IInv, TypeOK, CopiesStayApart
    <3>3. copiedIn \in 0 .. N - 1 /\ u + copiedIn < N
      BY <1>0, <3>1, <3>2, NType
    <3> QED BY <3>1, <3>3
  <2>2. u + copiedIn \in 0 .. N - 1 /\ Slot(head, copiedIn) = Slot(tail, u + copiedIn)
    <3>1. Used(head, tail) + copiedIn <= Size BY <2>1, <1>0, NType DEF u
    <3> QED BY <3>1, <2>1, <1>0, SlotFromTail DEF u
  <2>3. Used(head', tail') = u BY <2>1 DEF u, Used
  <2>4. ASSUME NEW k \in 1 .. u PROVE Contents'[k] = Contents[k]
    <3>1. k - 1 \in 0 .. N - 1 /\ k - 1 # u + copiedIn
      BY <2>1, <1>0, NType
    <3>2. Slot(tail, k - 1) # Slot(tail, u + copiedIn)
      BY <3>1, <2>2, <1>0, SlotInjective
    <3>3. Slot(tail, k - 1) \in 0 .. N - 1
      BY <3>1, <1>0, SlotValue
    <3>4. buf'[Slot(tail, k - 1)] = buf[Slot(tail, k - 1)]
      BY <3>2, <3>3, <2>1, <2>2 DEF IInv, TypeOK
    <3>5. Contents'[k] = buf'[Slot(tail, k - 1)]
      BY <1>0, <2>1, <2>3
    <3> QED BY <3>4, <3>5, <1>0
  <2>5. Contents' = Contents
    BY <2>3, <2>4, <1>0, SeqEqual
  <2> QED BY <2>1, <2>5 DEF Fifo!fifoVars
<1>4. CASE PublishHead
  <2>1. /\ src # <<>> /\ src \in Seq(Bytes) /\ Len(src) \in 0 .. Size /\ Len(src) <= Free(head, tail)
        /\ copiedIn = Len(src) /\ head' = Slot(head, Len(src))
        /\ src' = <<>> /\ written' = "ok"
        /\ UNCHANGED <<buf, tail, delivered, read>>
    BY <1>4, <1>0, SrcType, NType DEF PublishHead, IInv, CopiesStayApart
  <2>2. Used(head', tail') = u + Len(src)
    BY <2>1, <1>0, UsedAfterWrite DEF u
  <2>3. /\ Contents \o src \in Seq(Bytes)
        /\ Len(Contents \o src) = u + Len(src)
        /\ \A k \in 1 .. u + Len(src) :
             (Contents \o src)[k] = IF k <= u THEN Contents[k] ELSE src[k - u]
    BY <2>1, <1>0, ConcatElements
  <2>4. ASSUME NEW k \in 1 .. u + Len(src) PROVE Contents'[k] = (Contents \o src)[k]
    <3>1. Contents'[k] = buf[Slot(tail, k - 1)]
      BY <2>1, <2>2, <1>0
    <3>2. CASE k <= u
      <4>1. k \in 1 .. u BY <3>2, <1>0
      <4> QED BY <4>1, <3>1, <3>2, <2>3, <1>0
    <3>3. CASE k > u
      <4>1. /\ k - u \in 1 .. copiedIn /\ k - u - 1 \in 0 .. N - 1
            /\ u + (k - u - 1) = k - 1 /\ u + (k - u - 1) <= Size
        BY <3>3, <2>1, <1>0, NType
      <4>2. Slot(head, k - u - 1) = Slot(tail, k - 1)
        <5>1. Used(head, tail) + (k - u - 1) <= Size
          BY <4>1 DEF u
        <5>2. Slot(head, k - u - 1) = Slot(tail, Used(head, tail) + (k - u - 1))
          BY <4>1, <5>1, <1>0, SlotFromTail
        <5>3. Used(head, tail) + (k - u - 1) = k - 1
          BY <4>1 DEF u
        <5> QED BY <5>2, <5>3
      <4>3. buf[Slot(head, k - u - 1)] = src[k - u]
        BY <4>1 DEF IInv, CopiedBytes
      <4> QED BY <4>2, <4>3, <3>1, <3>3, <2>3, <1>0
    <3> QED BY <3>2, <3>3, <1>0, <2>1
  <2>5. Contents' = Contents \o src
    BY <2>2, <2>3, <2>4, <1>0, SeqEqual
  <2>6. Fifo!Enqueue
    BY <2>1, <2>5 DEF Fifo!Enqueue
  <2> QED BY <2>6 DEF Fifo!FifoNext
<1>5. CASE GetDataSize
  BY <1>5, <1>q DEF GetDataSize, Fifo!fifoVars
<1>6. ASSUME NEW n \in 1 .. MaxRead, BeginRead(n) PROVE Fifo!FifoNext \/ UNCHANGED Fifo!fifoVars
  <2>1. Contents' = Contents BY <1>6, <1>q DEF BeginRead
  <2>2. CASE u < n
    <3>1. Fifo!RefuseRead
      BY <2>1, <2>2, <1>0, <1>6 DEF BeginRead, Fifo!RefuseRead, u
    <3> QED BY <3>1 DEF Fifo!FifoNext
  <2>3. CASE ~(u < n)
    BY <2>1, <2>3, <1>6 DEF BeginRead, Fifo!fifoVars, u
  <2> QED BY <2>2, <2>3
<1>7. CASE CopyOut
  BY <1>7, <1>q DEF CopyOut, Fifo!fifoVars
<1>8. CASE PublishTail
  <2>1. /\ want \in 1 .. MaxRead /\ want \in 0 .. u /\ dst \in Seq(Bytes) /\ Len(dst) = want
        /\ tail' = Slot(tail, want) /\ delivered' = dst /\ read' = "ok"
        /\ UNCHANGED <<buf, head, src, written>>
    BY <1>8, <1>0, ReadAssumption DEF PublishTail, IInv, TypeOK, CopiesStayApart, u
  <2>2. Used(head', tail') = u - want
    BY <2>1, <1>0, UsedAfterRead DEF u
  <2> DEFINE old == SubSeq(Contents, 1, want)
             rest == SubSeq(Contents, want + 1, Len(Contents))
  <2>3. /\ old \in Seq(Bytes) /\ Len(old) = want
        /\ \A k \in 1 .. want : old[k] = Contents[k]
    BY <2>1, <1>0
  <2>4. /\ rest \in Seq(Bytes) /\ Len(rest) = u - want
        /\ \A k \in 1 .. u - want : rest[k] = Contents[want + k]
    BY <2>1, <1>0
  <2> HIDE DEF old, rest
  <2>5. ASSUME NEW k \in 1 .. want PROVE dst[k] = old[k]
    <3>1. k \in 1 .. u /\ k \in 1 .. Len(dst) BY <2>1, <1>0
    <3> QED BY <3>1, <2>3, <1>0 DEF IInv, CopiedBytes
  <2>6. dst = old
    BY <2>1, <2>3, <2>5, SeqEqual
  <2>7. ASSUME NEW k \in 1 .. u - want PROVE Contents'[k] = rest[k]
    <3>1. /\ k - 1 \in 0 .. N - 1 /\ want \in 0 .. N - 1 /\ want + (k - 1) <= N - 1
          /\ want + k \in 1 .. u /\ want + (k - 1) = (want + k) - 1
      BY <2>1, <1>0, NType
    <3>2. Slot(tail', k - 1) = Slot(tail, (want + k) - 1)
      BY <3>1, <2>1, <1>0, SlotAfterRead
    <3>3. Contents'[k] = buf[Slot(tail', k - 1)]
      BY <2>1, <2>2, <1>0
    <3>4. Contents[want + k] = buf[Slot(tail, (want + k) - 1)]
      BY <3>1, <1>0
    <3> QED BY <3>2, <3>3, <3>4, <2>4
  <2>8. Contents' = rest
    BY <2>2, <2>4, <2>7, <1>0, SeqEqual
  <2>9. Fifo!Dequeue
    BY <2>1, <2>6, <2>8, <1>0 DEF Fifo!Dequeue, old, rest
  <2> QED BY <2>9 DEF Fifo!FifoNext
<1>9. CASE UNCHANGED vars
  BY <1>9, <1>q DEF vars, Fifo!fifoVars
<1> QED
  BY <1>1, <1>2, <1>3, <1>4, <1>5, <1>6, <1>7, <1>8, <1>9 DEF Next

\* The byte ring is a bounded queue of whole writes: nothing is lost,
\* duplicated, reordered or torn between the two sides.
THEOREM RefinesFifo == Spec => ImplementsFifo
<1>1. Init => Fifo!FifoInit BY InitRefines
<1>2. IInv /\ IInv' /\ [Next]_vars => [Fifo!FifoNext]_(Fifo!fifoVars) BY StepRefines
<1> QED BY <1>1, <1>2, Inductive, PTL DEF Spec, ImplementsFifo, Fifo!FifoSpec

=============================================================================
