------------------------------ MODULE FrameQueue -----------------------------
(***************************************************************************)
(* What the frame buffer of the RTSP server promises to the camera and to  *)
(* the schedule thread, with no slots, indices or shared count: a bounded  *)
(* first-in first-out queue of whole frames, numbered as they are put.     *)
(* Once the two threads have overwritten each other's count it promises    *)
(* nothing any more.  RingFifo is shown to implement it.                   *)
(***************************************************************************)
EXTENDS Integers, Sequences

CONSTANTS
  Capacity,  \* how many frames the queue can hold
  Shape      \* type and size of a frame

VARIABLES
  frames,    \* the frames in the queue, oldest first
  last,      \* the number of the frame put last
  broken     \* an update of the count was lost

queue == <<frames, last, broken>>

Init == frames = <<>> /\ last = 0 /\ broken = FALSE

Put ==
  /\ ~ broken /\ Len(frames) < Capacity
  /\ last' = last + 1
  /\ \E shape \in Shape : frames' = Append(frames, [num |-> last', shape |-> shape])
  /\ UNCHANGED broken

Get ==
  /\ frames # <<>>
  /\ frames' = Tail(frames)
  /\ UNCHANGED <<last, broken>>

Break ==
  /\ broken' = TRUE
  /\ frames' = <<>> /\ last' = 0

Next == Put \/ Get \/ Break

Spec == Init /\ [][Next]_queue
=============================================================================
