---------------------------- MODULE BoundedFifo ----------------------------
(***************************************************************************)
(* What the users of a ring buffer rely on: a queue of bytes between one   *)
(* producer and one consumer.  A write appends all the bytes it was handed *)
(* or none, a read takes the oldest bytes or nothing, and an operation is  *)
(* refused only when the bytes (or the room) it asks for are not there.    *)
(* RingBuffer implements this specification.                               *)
(***************************************************************************)
EXTENDS Integers, Sequences

CONSTANTS
  Chunks,    \* the byte sequences a producer may write
  MaxRead,   \* the most bytes a consumer asks for
  Size       \* how many bytes the queue accepts

VARIABLES
  queue,     \* the bytes written and not yet read, oldest first
  offered,   \* the bytes of the write in progress, <<>> if there is none
  delivered, \* the bytes the last successful read returned
  written,   \* how the last write ended: "ok", "refused" or "none"
  read       \* how the last read ended, likewise

fifoVars == <<queue, offered, delivered, written, read>>

FifoInit ==
  /\ queue = <<>> /\ offered = <<>> /\ delivered = <<>>
  /\ written = "none" /\ read = "none"

\* The producer hands over bytes for which there is room.
Offer ==
  /\ offered = <<>>
  /\ \E c \in Chunks : Len(queue) + Len(c) <= Size /\ offered' = c
  /\ UNCHANGED <<queue, delivered, written, read>>

\* The bytes handed over become readable, all of them at once.
Enqueue ==
  /\ offered # <<>>
  /\ queue' = queue \o offered
  /\ offered' = <<>>
  /\ written' = "ok"
  /\ UNCHANGED <<delivered, read>>

RefuseWrite ==
  /\ offered = <<>>
  /\ \E c \in Chunks : Len(queue) + Len(c) > Size
  /\ written' = "refused"
  /\ UNCHANGED <<queue, offered, delivered, read>>

Dequeue ==
  /\ \E n \in 1 .. MaxRead :
       /\ n <= Len(queue)
       /\ delivered' = SubSeq(queue, 1, n)
       /\ queue' = SubSeq(queue, n + 1, Len(queue))
  /\ read' = "ok"
  /\ UNCHANGED <<offered, written>>

RefuseRead ==
  /\ \E n \in 1 .. MaxRead : n > Len(queue)
  /\ read' = "refused"
  /\ UNCHANGED <<queue, offered, delivered, written>>

FifoNext == Offer \/ Enqueue \/ RefuseWrite \/ Dequeue \/ RefuseRead

FifoSpec == FifoInit /\ [][FifoNext]_fifoVars

=============================================================================
