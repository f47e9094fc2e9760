------------------------------ MODULE RingFifo ------------------------------
(***************************************************************************)
(* The frame buffer of the RTSP server (ringfifo.c): the camera thread     *)
(* puts encoded frames into NMAX slots, the schedule thread takes them out.*)
(* Each index belongs to one thread; the count n belongs to both, and its  *)
(* n++ and n-- are a load and a store.  ringget copies no frame: it lends  *)
(* the slot, which counts as free from then on.                            *)
(*                                                                         *)
(* A step is one access to what the threads share.  memcpy is two, its     *)
(* beginning and its end, between which the slot holds a torn frame; size  *)
(* and type are one access with the end.  A put that finds the ring full,  *)
(* or a get that finds it empty, is no step.                               *)
(***************************************************************************)
EXTENDS Integers, Sequences

CONSTANTS
  NMAX,   \* the number of slots
  Shape,  \* what ringput is told of a frame: its type and its size
  MaxPut  \* bound: how many frames are put

ASSUME NMAXAssumption == NMAX \in Nat \ {0}
ASSUME ShapeAssumption == Shape \subseteq [type : {"I", "P"}, size : Nat \ {0}]
ASSUME MaxPutAssumption == MaxPut \in Nat

Torn == 0
Number == 1 .. MaxPut                      \* the frames, in the order of the puts
NoShape == [type |-> "none", size |-> 0]
NoFrame == [num |-> Torn, shape |-> NoShape]
Frame == [num : Number \union {Torn}, shape : Shape \union {NoShape}]
Slot == 0 .. NMAX - 1

VARIABLES
  iput, iget, n, \* the indices and the count
  slot,          \* what each slot holds: the frame its bytes are of, and its header
  cpc, cframe,   \* camera thread: where it is in ringput, and with which frame
  cn,            \* camera thread: n as it loaded it
  gpc, pos,      \* schedule thread: where it is in ringget, and the slot it was lent last
  gn,            \* schedule thread: n as it loaded it
  info,          \* schedule thread: the header in its ringinfo
  puts, gets,    \* history: the puts and gets that have counted
  lost           \* history: a store to n has overwritten another

camera == <<iput, cpc, cframe, cn, puts>>
taker == <<iget, gpc, pos, gn, info, gets>>
ring == <<camera, taker, n, slot, lost>>

RingInit ==
  /\ iput = 0 /\ iget = 0 /\ n = 0
  /\ slot = [s \in Slot |-> [data |-> Torn, head |-> NoFrame]]
  /\ cpc = "idle" /\ cframe = NoFrame /\ cn = 0
  /\ gpc = "idle" /\ pos = 0 /\ gn = 0 /\ info = NoFrame
  /\ puts = 0 /\ gets = 0 /\ lost = FALSE

addringEndless(i) == i + 1
addringShort(i) == IF i + 2 >= NMAX THEN 0 ELSE i + 1
addring(i) == IF i + 1 = NMAX THEN 0 ELSE i + 1
-----------------------------------------------------------------------------
(* ringput *)

HasRoomForOneMore == n <= NMAX
HasRoom == n < NMAX

PutTest(shape) ==
  /\ cpc = "idle" /\ puts < MaxPut
  /\ HasRoom
  /\ cframe' = [num |-> puts + 1, shape |-> shape]
  /\ cpc' = "copy"
  /\ UNCHANGED <<iput, cn, puts, taker, n, slot, lost>>

PutCopy ==
  /\ cpc = "copy"
  /\ slot' = [slot EXCEPT ![iput].data = Torn]
  /\ cpc' = "copied"
  /\ UNCHANGED <<iput, cframe, cn, puts, taker, n, lost>>

PutCopied ==
  /\ cpc = "copied"
  /\ slot' = [slot EXCEPT ![iput] = [data |-> cframe.num, head |-> cframe]]
  /\ iput' = addring(iput)
  /\ cpc' = "load"
  /\ UNCHANGED <<cframe, cn, puts, taker, n, lost>>

PutLoad ==
  /\ cpc = "load"
  /\ cn' = n
  /\ cpc' = "store"
  /\ UNCHANGED <<iput, cframe, puts, taker, n, slot, lost>>

PutStore ==
  /\ cpc = "store"
  /\ n' = cn + 1
  /\ lost' = (lost \/ n # cn)
  /\ puts' = puts + 1
  /\ cpc' = "idle" /\ cn' = 0 /\ cframe' = NoFrame
  /\ UNCHANGED <<iput, taker, slot>>
-----------------------------------------------------------------------------
(* ringget *)

HasMoreThanOne == n > 1
HasFrame == n > 0

GetTest ==
  /\ gpc = "idle"
  /\ HasFrame
  /\ pos' = iget
  /\ iget' = addring(iget)
  /\ gpc' = "load"
  /\ UNCHANGED <<gn, info, gets, camera, n, slot, lost>>

GetLoad ==
  /\ gpc = "load"
  /\ gn' = n
  /\ gpc' = "store"
  /\ UNCHANGED <<iget, pos, info, gets, camera, n, slot, lost>>

GetStore ==
  /\ gpc = "store"
  /\ n' = gn - 1
  /\ lost' = (lost \/ n # gn)
  /\ gets' = gets + 1
  /\ gpc' = "info" /\ gn' = 0
  /\ UNCHANGED <<iget, pos, info, camera, slot>>

\* the address of the slot, and its header; the frame itself stays where it is.  A slot
\* never filled has the size 0, which schedule_do takes for an empty ring.
GetInfo ==
  /\ gpc = "info"
  /\ info' = slot[pos].head
  /\ gpc' = (IF info'.shape.size = 0 THEN "idle" ELSE "held")
  /\ UNCHANGED <<iget, pos, gn, gets, camera, n, slot, lost>>

\* the schedule thread is done with its pass
Release ==
  /\ gpc = "held"
  /\ gpc' = "idle"
  /\ UNCHANGED <<iget, pos, gn, info, gets, camera, n, slot, lost>>

\* a pass without ringget works with what ringinfo holds from the last one
Reuse ==
  /\ gpc = "idle" /\ info # NoFrame
  /\ gpc' = "held"
  /\ UNCHANGED <<iget, pos, gn, info, gets, camera, n, slot, lost>>
-----------------------------------------------------------------------------
PutSteps == PutCopy \/ PutCopied \/ PutLoad \/ PutStore
GetSteps == GetLoad \/ GetStore \/ GetInfo

RingNext ==
  \/ \E shape \in Shape : PutTest(shape)
  \/ PutSteps
  \/ GetTest \/ GetSteps \/ Release \/ Reuse

RingSpec == RingInit /\ [][RingNext]_ring
-----------------------------------------------------------------------------
RingTypeOK ==
  /\ iput \in Slot /\ iget \in Slot /\ n \in Int
  /\ slot \in [Slot -> [data : Number \union {Torn}, head : Frame]]
  /\ cpc \in {"idle", "copy", "copied", "load", "store"}
  /\ cframe \in Frame /\ cn \in Int
  /\ gpc \in {"idle", "load", "store", "info", "held"}
  /\ pos \in Slot /\ gn \in Int /\ info \in Frame
  /\ puts \in 0 .. MaxPut /\ gets \in Nat /\ lost \in BOOLEAN

(* The count never leaves 0 .. NMAX, not even when updates are lost: the thread that
   stores a stale value had read one that its own test allowed it to move. *)
CountInRange == n \in 0 .. NMAX

(* As long as no update was lost, the frame lent to the sender is the next one in the
   order of the puts, whole, until the camera has put so many frames after it that the
   ring holds no free slot but the lent one.  NMAX - 1 frames are the time the sender
   has, though ringget declares the slot free at once. *)
LentIntact ==
  ~ lost /\ gpc = "held" =>
    \/ info.num = gets /\ slot[pos].data = gets
    \/ puts >= gets + NMAX - 1

\* the frames that iget has passed
Taken == gets + (IF gpc \in {"load", "store"} THEN 1 ELSE 0)

\* the slot of the i-th frame from iget on, and what it holds
Place(i) == IF iget + i <= NMAX THEN iget + i - 1 ELSE iget + i - 1 - NMAX
Held(i) == [num |-> slot[Place(i)].data, shape |-> slot[Place(i)].head.shape]
Waiting == [i \in 1 .. puts - Taken |-> Held(i)]

(* As long as no update was lost, the slots from iget on are a bounded queue of whole
   frames: a frame enters with the camera's store to n, and leaves when iget passes it.
   No put fills the slot of a frame that waits, whatever the two threads do in between. *)
Frames == INSTANCE FrameQueue WITH
  Capacity <- NMAX, broken <- lost,
  frames <- IF lost THEN <<>> ELSE Waiting, last <- IF lost THEN 0 ELSE puts
ImplementsFrameQueue == Frames!Spec
=============================================================================
