----------------------------- MODULE RingBuffer -----------------------------
(***************************************************************************)
(* The lock-free byte ring of src/src/support/mybot_ringbuf.c, between one *)
(* producer thread and one consumer thread.                                *)
(*                                                                         *)
(* A write reads both indices, decides whether the bytes fit, copies them  *)
(* one by one behind head and only then publishes head; a read does the    *)
(* same with tail.  The threads interleave at every access to a shared     *)
(* location: the other side's index, a slot, the own index.  The barriers  *)
(* around the copies order these accesses, so the model is sequentially    *)
(* consistent.  One slot is never filled (the guard byte), which is how a  *)
(* full ring differs from an empty one.                                    *)
(***************************************************************************)
EXTENDS Integers, Sequences

CONSTANTS
  Bytes,    \* what a slot may hold
  Size,     \* the size given to mybot_ringbuf_create
  Chunks,   \* the byte sequences the producer writes
  MaxRead   \* the most bytes the consumer asks for

ASSUME SizeAssumption == Size \in Nat \ {0}
ASSUME ChunksAssumption == Chunks \subseteq Seq(Bytes) \ {<<>>}
ASSUME ReadAssumption == MaxRead \in Nat \ {0}

VARIABLES
  buf,       \* the slots; memory from the allocator, never cleared
  head,      \* next slot to write, published by the producer
  tail,      \* next slot to read, published by the consumer
  src,       \* producer: the bytes being copied in, <<>> between writes
  copiedIn,  \* producer: how many of them are in the ring
  want,      \* consumer: how many bytes are being copied out, 0 between reads
  dst,       \* consumer: the bytes copied out so far
  room,      \* producer: answer of get_free_size it still relies on
  avail,     \* consumer: answer of get_data_size it still relies on
  delivered, \* consumer: what the last successful read returned
  written,   \* how the last write ended: "ok", "refused" or "none"
  read       \* how the last read ended, likewise

producerVars == <<src, copiedIn, room, written>>
consumerVars == <<want, dst, avail, read, delivered>>
vars == <<buf, head, tail, producerVars, consumerVars>>

-----------------------------------------------------------------------------
(* Indices *)

N == Size + 1                               \* rb->size: one guard byte more
Used(h, t) == (h + N - t) % N
Free(h, t) == N - Used(h, t) - 1
Slot(i, k) == (i + k) % N                   \* k slots further round the ring

Init ==
  /\ buf \in [0 .. N - 1 -> Bytes]
  /\ head = 0 /\ tail = 0
  /\ src = <<>> /\ copiedIn = 0 /\ room = 0 /\ written = "none"
  /\ want = 0 /\ dst = <<>> /\ avail = 0 /\ read = "none"
  /\ delivered = <<>>

-----------------------------------------------------------------------------
(* The producer *)

GetFreeSize ==
  /\ src = <<>>
  /\ room' = Free(head, tail)
  /\ UNCHANGED <<buf, head, tail, src, copiedIn, written, consumerVars>>

\* Mutant: a write that may fill the guard byte.
BeginWriteIntoGuard(c) ==
  /\ src = <<>>
  /\ room' = 0
  /\ IF N - Used(head, tail) < Len(c)
     THEN written' = "refused" /\ UNCHANGED src
     ELSE src' = c /\ UNCHANGED written
  /\ UNCHANGED <<buf, head, tail, copiedIn, consumerVars>>

\* Mutant: a full ring makes room by dropping its oldest bytes.
BeginWriteOverOldest(c) ==
  /\ src = <<>>
  /\ room' = 0
  /\ IF Len(c) > Size
     THEN written' = "refused" /\ UNCHANGED <<src, tail>>
     ELSE /\ src' = c /\ UNCHANGED written
          /\ tail' = IF Free(head, tail) < Len(c)
                     THEN Slot(head, N - (Size - Len(c))) ELSE tail
  /\ UNCHANGED <<buf, head, copiedIn, consumerVars>>

\* The indices are read, and the write is refused or its copy starts.
BeginWrite(c) ==
  /\ src = <<>>
  /\ room' = 0
  /\ IF Free(head, tail) < Len(c)
     THEN written' = "refused" /\ UNCHANGED src
     ELSE src' = c /\ UNCHANGED written
  /\ UNCHANGED <<buf, head, tail, copiedIn, consumerVars>>

\* One byte of the copy; the copy wraps at the end of the ring.
CopyIn ==
  /\ copiedIn < Len(src)
  /\ buf' = [buf EXCEPT ![Slot(head, copiedIn)] = src[copiedIn + 1]]
  /\ copiedIn' = copiedIn + 1
  /\ UNCHANGED <<head, tail, src, room, written, consumerVars>>

\* Mutant: head is published before the last byte is in place.
PublishHeadEarly ==
  /\ src # <<>> /\ copiedIn + 1 >= Len(src)
  /\ head' = Slot(head, Len(src))
  /\ src' = <<>> /\ copiedIn' = 0
  /\ written' = "ok"
  /\ UNCHANGED <<buf, tail, room, consumerVars>>

PublishHead ==
  /\ src # <<>> /\ copiedIn = Len(src)
  /\ head' = Slot(head, Len(src))
  /\ src' = <<>> /\ copiedIn' = 0
  /\ written' = "ok"
  /\ UNCHANGED <<buf, tail, room, consumerVars>>

-----------------------------------------------------------------------------
(* The consumer *)

GetDataSize ==
  /\ want = 0
  /\ avail' = Used(head, tail)
  /\ UNCHANGED <<buf, head, tail, producerVars, want, dst, read, delivered>>

BeginRead(n) ==
  /\ want = 0
  /\ avail' = 0
  /\ IF Used(head, tail) < n
     THEN read' = "refused" /\ UNCHANGED want
     ELSE want' = n /\ UNCHANGED read
  /\ UNCHANGED <<buf, head, tail, producerVars, dst, delivered>>

CopyOut ==
  /\ Len(dst) < want
  /\ dst' = Append(dst, buf[Slot(tail, Len(dst))])
  /\ UNCHANGED <<buf, head, tail, producerVars, want, avail, read, delivered>>

PublishTail ==
  /\ want # 0 /\ Len(dst) = want
  /\ tail' = Slot(tail, want)
  /\ delivered' = dst
  /\ want' = 0 /\ dst' = <<>>
  /\ read' = "ok"
  /\ UNCHANGED <<buf, head, producerVars, avail>>

-----------------------------------------------------------------------------
Next ==
  \/ GetFreeSize
  \/ \E c \in Chunks : BeginWrite(c)
  \/ CopyIn
  \/ PublishHead
  \/ GetDataSize
  \/ \E n \in 1 .. MaxRead : BeginRead(n)
  \/ CopyOut
  \/ PublishTail

Spec == Init /\ [][Next]_vars

-----------------------------------------------------------------------------
(* Properties *)

TypeOK ==
  /\ buf \in [0 .. N - 1 -> Bytes]
  /\ head \in 0 .. N - 1 /\ tail \in 0 .. N - 1
  /\ src \in Chunks \cup {<<>>} /\ copiedIn \in 0 .. Len(src)
  /\ want \in 0 .. MaxRead /\ dst \in Seq(Bytes) /\ Len(dst) <= want
  /\ room \in 0 .. Size /\ avail \in 0 .. Size
  /\ delivered \in Seq(Bytes)
  /\ written \in {"none", "ok", "refused"}
  /\ read \in {"none", "ok", "refused"}

\* The bytes between tail and head, oldest first.
Contents == [k \in 1 .. Used(head, tail) |-> buf[Slot(tail, k - 1)]]

\* A write in progress stays within the free slots and a read in progress
\* within the published ones, whatever the other side does meanwhile: the
\* guard byte and the order "copy, then publish" keep the two apart.
CopiesStayApart ==
  /\ Len(src) <= Free(head, tail)
  /\ want <= Used(head, tail)

\* An answer of get_free_size (or get_data_size) is a promise to the side
\* that asked: until that side moves its own index, the room (the data) it
\* was told of is still there.  drain_ringbuf, the playback timer and the
\* send timer size their next access with it.
PeeksStayTrue ==
  /\ room <= Free(head, tail)
  /\ avail <= Used(head, tail)

\* What the ring promises: a bounded FIFO of whole writes.
Fifo == INSTANCE BoundedFifo WITH queue <- Contents, offered <- src

ImplementsFifo == Fifo!FifoSpec

=============================================================================
