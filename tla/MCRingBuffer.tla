--------------------------- MODULE MCRingBuffer ----------------------------
(***************************************************************************)
(* RingBuffer for TLC: three bytes and the guard byte, so that every write *)
(* longer than one byte wraps from some position, and chunks of one to     *)
(* four bytes, the longest of which never fits.                            *)
(***************************************************************************)
EXTENDS RingBuffer, SequencesExt

CONSTANT MaxWrite  \* length of the longest chunk

MCChunks == BoundedSeq(Bytes, MaxWrite) \ {<<>>}
=============================================================================
