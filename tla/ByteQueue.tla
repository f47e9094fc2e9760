------------------------------ MODULE ByteQueue ------------------------------
(***************************************************************************)
(* What the ring buffer of gs_comm.c promises to its callers, stated with  *)
(* no memory layout at all: a first-in first-out queue of bytes of bounded *)
(* capacity.  A write that does not fit keeps the prefix that fits; a read *)
(* hands out at most what is stored.  RingBuffer is shown to implement it. *)
(***************************************************************************)
EXTENDS Integers, Sequences

CONSTANTS
  Byte,      \* the values a byte can take
  Capacity,  \* the number of bytes the queue can hold
  Input,     \* the byte strings a caller may write
  Request    \* the lengths a caller may ask to read

VARIABLES
  queue,     \* the bytes stored, oldest first
  ret        \* what the last call handed back: a length and, for a read, bytes

qvars == <<queue, ret>>

AtMost(a, b) == IF a < b THEN a ELSE b

Init ==
  /\ queue = <<>>
  /\ ret = [len |-> 0, bytes |-> <<>>]

Put(data) ==
  LET n == AtMost(Capacity - Len(queue), Len(data))
  IN  /\ queue' = queue \o SubSeq(data, 1, n)
      /\ ret' = [len |-> n, bytes |-> <<>>]

Get(max) ==
  LET n == AtMost(Len(queue), max)
  IN  /\ queue' = SubSeq(queue, n + 1, Len(queue))
      /\ ret' = [len |-> n, bytes |-> SubSeq(queue, 1, n)]

Next ==
  \/ \E data \in Input : Put(data)
  \/ \E max \in Request : Get(max)

Spec == Init /\ [][Next]_qvars
=============================================================================
