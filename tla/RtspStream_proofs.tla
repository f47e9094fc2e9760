-------------------------- MODULE RtspStream_proofs --------------------------
(***************************************************************************)
(* What holds of the way of a frame for every ring, every set of frame     *)
(* shapes, every range of sequence numbers.  Every step is a step of the   *)
(* frame buffer or leaves it alone, so its invariant is one here too.      *)
(***************************************************************************)
EXTENDS RtspStream, RingFifo_proofs

USE NMAXAssumption, SeqAssumption, MaxViewsAssumption

\* The number of the next packet is that of the last one sent, plus those missed.
NumbersAgree ==
  net # NoPacket =>
    /\ net.seq < SEQ_LIMIT
    /\ missed < SEQ_LIMIT =>
         LET next == net.seq + 1 + missed
         IN  u16SeqNum = IF next < SEQ_LIMIT THEN next ELSE next - SEQ_LIMIT

\* Between two packets with nothing missed, the sender is in the frame of the first, or
\* before the first packet of another.
PlaceAgrees ==
  net # NoPacket /\ missed = 0 =>
    IF net.marker THEN part \in {0, 1}
                  ELSE /\ gpc = "held" /\ part = net.part + 1 /\ net.part >= 1
                       /\ net.num = gets \/ Overtaken

\* The inductive invariant.
StreamInv ==
  /\ RingInv /\ TypeOK
  /\ part > 0 => gpc = "held"
  /\ NumbersAgree /\ PlaceAgrees
-----------------------------------------------------------------------------
\* u16SeqNum ++ comes round at SEQ_LIMIT.
LEMMA NextNumber ==
  ASSUME NEW q \in 0 .. SEQ_LIMIT - 1
  PROVE  (q + 1) % SEQ_LIMIT = IF q + 1 = SEQ_LIMIT THEN 0 ELSE q + 1
OBVIOUS

LEMMA NoPacketType == NoPacket \in PacketSet
BY DEF NoPacket, PacketSet

LEMMA StepIsRingStep == [Next]_vars => [RingNext]_ring
<1> SUFFICES ASSUME [Next]_vars PROVE [RingNext]_ring
  OBVIOUS
<1>1. CASE UNCHANGED vars
  BY <1>1 DEF vars
<1>2. CASE Watch
  BY <1>2 DEF Watch
<1>3. CASE Leave
  BY <1>3 DEF Leave
<1>4. CASE Camera
  BY <1>4 DEF Camera, RingNext
<1>5. CASE Take
  BY <1>5 DEF Take, RingNext
<1>6. CASE Visit
  BY <1>6 DEF Visit
<1>7. CASE Skip
  BY <1>7 DEF Skip, RingNext
<1>8. CASE SendPart
  BY <1>8 DEF SendPart, RingNext
<1>9. CASE SendFails
  BY <1>9 DEF SendFails, RingNext
<1> QED
  BY <1>1, <1>2, <1>3, <1>4, <1>5, <1>6, <1>7, <1>8, <1>9 DEF Next, Scheduler

LEMMA StreamInitInv == Init => StreamInv
<1> SUFFICES ASSUME Init PROVE StreamInv
  OBVIOUS
<1>1. RingInv
  BY RingInitInv DEF Init
<1>2. net = NoPacket /\ part = 0 /\ u16SeqNum = 0 /\ missed = 0 /\ views = 0
      /\ watching = FALSE /\ BeginFrame = FALSE
  BY DEF Init
<1>3. TypeOK
  <2>1. net \in PacketSet
    BY <1>2, NoPacketType
  <2>2. views \in 0 .. MaxViews /\ u16SeqNum \in 0 .. SEQ_LIMIT - 1 /\ part \in Nat /\ missed \in Nat
    BY <1>2
  <2>3. watching \in BOOLEAN /\ BeginFrame \in BOOLEAN
    BY <1>2
  <2> QED
    BY <1>1, <2>1, <2>2, <2>3 DEF TypeOK, RingInv
<1> QED
  BY <1>1, <1>2, <1>3 DEF StreamInv, NumbersAgree, PlaceAgrees

\* A step of the frame buffer that leaves the sender in its frame.
LEMMA StreamKept ==
  ASSUME StreamInv, [RingNext]_ring, UNCHANGED viewer, part = 0 \/ UNCHANGED taker
  PROVE  StreamInv'
<1>1. RingInv'
  BY RingInvStep DEF StreamInv
<1>2. TypeOK'
  BY <1>1 DEF StreamInv, TypeOK, RingInv, viewer
<1>3. NumbersAgree'
  BY DEF StreamInv, NumbersAgree, viewer
<1>4. CASE part = 0
  <2>1. PlaceAgrees'
    BY <1>4 DEF StreamInv, PlaceAgrees, viewer, TypeOK, PacketSet
  <2> QED
    BY <1>1, <1>2, <1>3, <1>4, <2>1 DEF StreamInv, viewer
<1>5. CASE UNCHANGED taker
  <2>1. lost => lost'
    BY DEF RingNext, PutSteps, GetSteps, PutTest, PutCopy, PutCopied, PutLoad, PutStore,
       GetTest, GetLoad, GetStore, GetInfo, Release, Reuse, ring
  <2>2. puts' \in {puts, puts + 1} /\ puts \in Nat /\ gets \in Nat
    BY Numbers DEF RingNext, PutSteps, GetSteps, PutTest, PutCopy, PutCopied, PutLoad,
       PutStore, GetTest, GetLoad, GetStore, GetInfo, Release, Reuse, ring, camera,
       StreamInv, RingInv
  <2>3. Overtaken => Overtaken'
    BY <1>5, <2>1, <2>2 DEF Overtaken, taker
  <2>4. PlaceAgrees'
    BY <1>5, <2>3 DEF StreamInv, PlaceAgrees, viewer, taker
  <2> QED
    BY <1>1, <1>2, <1>3, <1>5, <2>4 DEF StreamInv, viewer, taker
<1> QED
  BY <1>4, <1>5

LEMMA StreamCamera ==
  ASSUME StreamInv, Camera
  PROVE  StreamInv'
<1>1. UNCHANGED viewer /\ [RingNext]_ring
  BY StepIsRingStep DEF Camera, RingNext
<1>2. UNCHANGED taker
  BY DEF Camera, PutSteps, PutTest, PutCopy, PutCopied, PutLoad, PutStore
<1> QED
  BY <1>1, <1>2, StreamKept

LEMMA StreamTake ==
  ASSUME StreamInv, Take
  PROVE  StreamInv'
<1>1. UNCHANGED viewer /\ [RingNext]_ring
  BY DEF Take, RingNext
<1>2. gpc # "held"
  BY DEF Take, GetTest, Reuse, GetSteps, GetLoad, GetStore, GetInfo
<1>3. part = 0
  BY <1>2 DEF StreamInv, TypeOK
<1> QED
  BY <1>1, <1>3, StreamKept

LEMMA StreamSkip ==
  ASSUME StreamInv, Skip
  PROVE  StreamInv'
BY StreamKept DEF Skip, RingNext

\* The viewer comes or goes, or his entry is looked at: no packet is sent.
LEMMA StreamViewer ==
  ASSUME StreamInv, Watch \/ Leave \/ Visit
  PROVE  StreamInv'
<1>1. UNCHANGED ring
  BY DEF Watch, Leave, Visit
<1>2. RingInv'
  BY <1>1, RingInvStep DEF StreamInv
<1>3. CASE Watch
  <2>1. net' = NoPacket /\ missed' = 0 /\ part' = part /\ gpc' = gpc
        /\ watching' = TRUE /\ views' = views + 1 /\ views < MaxViews
        /\ BeginFrame' = FALSE /\ u16SeqNum' = 0
    BY <1>1, <1>3 DEF Watch, ring, taker
  <2>2. TypeOK'
    <3>1. net' \in PacketSet
      BY <2>1, NoPacketType
    <3>2. views' \in 0 .. MaxViews /\ part' \in Nat
      BY <2>1 DEF StreamInv, TypeOK
    <3>3. u16SeqNum' \in 0 .. SEQ_LIMIT - 1 /\ missed' \in Nat
      BY <2>1
    <3>4. watching' \in BOOLEAN /\ BeginFrame' \in BOOLEAN
      BY <2>1
    <3> QED
      BY <1>2, <3>1, <3>2, <3>3, <3>4 DEF TypeOK, RingInv
  <2> QED
    BY <1>2, <2>1, <2>2 DEF StreamInv, NumbersAgree, PlaceAgrees
<1>4. CASE Leave
  <2>1. part = 0 /\ watching' = FALSE
        /\ UNCHANGED <<views, BeginFrame, part, u16SeqNum, net, missed, gpc, gets, puts, lost>>
    BY <1>1, <1>4 DEF Leave, ring, taker, camera
  <2>2. TypeOK'
    BY <1>2, <2>1 DEF StreamInv, TypeOK, RingInv
  <2> QED
    BY <1>2, <2>1, <2>2 DEF StreamInv, NumbersAgree, PlaceAgrees, Overtaken
<1>5. CASE Visit
  <2>1. part = 0 /\ part' = 1 /\ gpc = "held" /\ gpc' = gpc /\ BeginFrame' = TRUE
        /\ UNCHANGED <<watching, views, u16SeqNum, net, missed>>
    BY <1>1, <1>5 DEF Visit, ring, taker
  <2>2. TypeOK'
    BY <1>2, <2>1 DEF StreamInv, TypeOK, RingInv
  <2>3. PlaceAgrees'
    BY <2>1 DEF StreamInv, PlaceAgrees, TypeOK, PacketSet
  <2> QED
    BY <1>2, <2>1, <2>2, <2>3 DEF StreamInv, NumbersAgree
<1> QED
  BY <1>3, <1>4, <1>5

LEMMA StreamSendPart ==
  ASSUME StreamInv, SendPart
  PROVE  StreamInv'
<1>1. RingInv'
  BY RingInvStep DEF StreamInv, SendPart, RingNext
<1>2. /\ gpc = "held" /\ part > 0 /\ net' = Packet /\ missed' = 0
      /\ u16SeqNum' = (u16SeqNum + 1) % SEQ_LIMIT
      /\ UNCHANGED <<watching, views, BeginFrame, gets, puts, lost>>
      /\ IF Packet.marker THEN part' = 0 ELSE part' = part + 1 /\ gpc' = "held"
  BY DEF SendPart, Numbered, Release, Packet, ring, camera, taker
<1>3. u16SeqNum \in 0 .. SEQ_LIMIT - 1 /\ part \in Nat
  BY DEF StreamInv, TypeOK, PacketSet
<1>4. u16SeqNum' = IF u16SeqNum + 1 = SEQ_LIMIT THEN 0 ELSE u16SeqNum + 1
  BY <1>2, <1>3, NextNumber
<1>5. slot[pos].data \in Number \union {Torn}
  BY DEF StreamInv, RingInv, RingTypeOK
<1>6. net'.seq = u16SeqNum /\ net'.part = part /\ net'.num = slot[pos].data
  BY <1>2 DEF Packet
<1>7. TypeOK'
  <2>1. RingTypeOK'
    BY <1>1 DEF RingInv
  <2>2. net' \in PacketSet
    BY <1>2, <1>3, <1>5 DEF Packet, PacketSet
  <2>3. part' \in Nat
    BY <1>2, <1>3
  <2> QED
    BY <1>2, <1>3, <1>4, <2>1, <2>2, <2>3 DEF TypeOK, StreamInv
<1>8. NumbersAgree'
  BY <1>2, <1>3, <1>4, <1>6 DEF NumbersAgree
<1>9. slot[pos].data = gets \/ Overtaken
  BY <1>2, RingInvLentIntact DEF StreamInv, LentIntact, Overtaken
<1>10. Overtaken' = Overtaken /\ gets' = gets
  BY <1>2 DEF Overtaken
<1>11. PlaceAgrees'
  BY <1>2, <1>3, <1>6, <1>9, <1>10 DEF PlaceAgrees
<1>12. part' > 0 => gpc' = "held"
  BY <1>2, <1>3
<1> QED
  BY <1>1, <1>7, <1>8, <1>11, <1>12 DEF StreamInv

LEMMA StreamSendFails ==
  ASSUME StreamInv, SendFails
  PROVE  StreamInv'
<1>1. RingInv'
  BY RingInvStep DEF StreamInv, SendFails, RingNext
<1>2. /\ missed' = missed + 1 /\ part' = 0
      /\ u16SeqNum' = (u16SeqNum + 1) % SEQ_LIMIT
      /\ UNCHANGED <<watching, views, BeginFrame, net>>
  BY DEF SendFails, Numbered
<1>3. /\ u16SeqNum \in 0 .. SEQ_LIMIT - 1 /\ missed \in Nat
      /\ net # NoPacket => net.seq \in 0 .. SEQ_LIMIT
  BY DEF StreamInv, TypeOK, PacketSet
<1>4. u16SeqNum' = IF u16SeqNum + 1 = SEQ_LIMIT THEN 0 ELSE u16SeqNum + 1
  BY <1>2, <1>3, NextNumber
<1>5. TypeOK'
  BY <1>1, <1>2, <1>3, <1>4 DEF StreamInv, TypeOK, RingInv
<1>6. NumbersAgree'
  BY <1>2, <1>3, <1>4 DEF StreamInv, NumbersAgree
<1>7. PlaceAgrees'
  BY <1>2, <1>3 DEF PlaceAgrees
<1> QED
  BY <1>1, <1>2, <1>5, <1>6, <1>7 DEF StreamInv

LEMMA StreamInvStep ==
  ASSUME StreamInv, [Next]_vars
  PROVE  StreamInv'
<1>1. CASE UNCHANGED vars
  <2>1. UNCHANGED viewer /\ UNCHANGED ring
    BY <1>1 DEF vars
  <2>2. UNCHANGED taker
    BY <2>1 DEF ring
  <2> QED
    BY <2>1, <2>2, StreamKept
<1>2. CASE Next
  BY <1>2, StreamCamera, StreamTake, StreamSkip, StreamViewer, StreamSendPart, StreamSendFails
  DEF Next, Scheduler
<1> QED
  BY <1>1, <1>2

\* The next packet that is sent follows the last one, if the numbers say so.
LEMMA StreamFollows ==
  ASSUME StreamInv, [Next]_vars, net' # net, net # NoPacket, net' # NoPacket,
         missed < SEQ_LIMIT, net'.seq = (net.seq + 1) % SEQ_LIMIT
  PROVE  Follows(net, net')
<1>1. SendPart
  BY DEF Next, Scheduler, Watch, Leave, Camera, Take, Visit, Skip, SendFails, vars, viewer
<1>2. net' = Packet /\ part > 0 /\ gpc = "held"
  BY <1>1 DEF SendPart
<1>3. /\ net'.seq = u16SeqNum /\ net'.part = part /\ net'.num = slot[pos].data
      /\ net'.first <=> part = 1
  BY <1>2 DEF Packet
<1>4. u16SeqNum \in 0 .. SEQ_LIMIT - 1 /\ missed \in Nat /\ net.seq \in 0 .. SEQ_LIMIT
      /\ part \in Nat /\ net.part \in Nat /\ net.marker \in BOOLEAN
  BY DEF StreamInv, TypeOK, PacketSet
<1>5. u16SeqNum = LET next == net.seq + 1 + missed
                  IN  IF next < SEQ_LIMIT THEN next ELSE next - SEQ_LIMIT
  BY DEF StreamInv, NumbersAgree
<1>6. net.seq \in 0 .. SEQ_LIMIT - 1
  BY <1>4 DEF StreamInv, NumbersAgree
<1>7. (net.seq + 1) % SEQ_LIMIT = IF net.seq + 1 = SEQ_LIMIT THEN 0 ELSE net.seq + 1
  BY <1>6, NextNumber
<1>8. missed = 0
  BY <1>3, <1>4, <1>5, <1>6, <1>7
<1>9. IF net.marker THEN part \in {0, 1}
                    ELSE part = net.part + 1 /\ net.part >= 1 /\ (net.num = gets \/ Overtaken)
  BY <1>8 DEF StreamInv, PlaceAgrees
<1>10. slot[pos].data = gets \/ Overtaken
  BY <1>2, RingInvLentIntact DEF StreamInv, LentIntact, Overtaken
<1> QED
  BY <1>2, <1>3, <1>4, <1>9, <1>10 DEF Follows
-----------------------------------------------------------------------------
(* Every variable of the stream keeps its type: for every ring, every set of frame shapes
   and every range of sequence numbers, indices stay in the ring and numbers in range. *)
THEOREM RtspStreamTypeOK == Spec => []TypeOK
<1>1. StreamInv => TypeOK
  BY DEF StreamInv
<1> QED
  BY <1>1, StreamInitInv, StreamInvStep, PTL DEF Spec

(* The count of the ring stays between 0 and NMAX, whatever updates are lost. *)
THEOREM RtspStreamCountInRange == Spec => []CountInRange
<1>1. StreamInv => CountInRange
  BY DEF StreamInv, RingInv, CountInv
<1> QED
  BY <1>1, StreamInitInv, StreamInvStep, PTL DEF Spec

(* What is being sent is the frame that was lent, whole, until NMAX - 1 frames have been
   put after it. *)
THEOREM RtspStreamLentIntact == Spec => []LentIntact
<1>1. StreamInv => LentIntact
  BY RingInvLentIntact DEF StreamInv
<1> QED
  BY <1>1, StreamInitInv, StreamInvStep, PTL DEF Spec

(* Whatever is not sent leaves a gap in the packets' numbers. *)
THEOREM RtspStreamGapsAreVisible == Spec => GapsAreVisible
<1>1. StreamInv /\ [Next]_vars =>
        [net' # net /\ net # NoPacket /\ net' # NoPacket /\ missed < SEQ_LIMIT
           /\ net'.seq = (net.seq + 1) % SEQ_LIMIT => Follows(net, net')]_vars
  BY StreamFollows
<1> QED
  BY <1>1, StreamInitInv, StreamInvStep, PTL DEF Spec, GapsAreVisible

(* With the server around it the ring is still a queue of whole frames, until an update of
   the unlocked count is lost: no visit of the schedule thread takes a frame out of order,
   and no put fills the slot of one that waits. *)
THEOREM RtspStreamImplementsFrameQueue == Spec => ImplementsFrameQueue
<1>1. Init => StreamInv /\ ShapesInv /\ Frames!Init
  BY StreamInitInv, QueueStarts DEF Init
<1>2. StreamInv /\ ShapesInv /\ [Next]_vars => StreamInv' /\ ShapesInv' /\ [Frames!Next]_(Frames!queue)
  BY StepIsRingStep, StreamInvStep, ShapesStep, StepUsesQueue DEF StreamInv, RingInv
<1> QED
  BY <1>1, <1>2, PTL DEF Spec, ImplementsFrameQueue, Frames!Spec
=============================================================================
