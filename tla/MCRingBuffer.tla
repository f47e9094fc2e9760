---------------------------- MODULE MCRingBuffer -----------------------------
(* A ring buffer of three bytes, two byte values, and callers that write   *)
(* and read up to one byte more than it can hold.                          *)
EXTENDS RingBuffer

MCInput == UNION {[1 .. n -> Byte] : n \in 0 .. m_BuffSize + 1}
MCRequest == 0 .. m_BuffSize + 1
=============================================================================
