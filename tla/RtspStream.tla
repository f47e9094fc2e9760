----------------------------- MODULE RtspStream -----------------------------
(***************************************************************************)
(* The way of a frame through the RTSP server (ashwing-rtspserver): the    *)
(* camera thread encodes frames and puts them into the ring buffer while   *)
(* someone plays; the schedule thread takes them out one by one and sends  *)
(* each to the viewer as RTP packets (SendNalu264), which read the lent    *)
(* slot packet by packet.  sendto may fail, which ends the frame.          *)
(*                                                                         *)
(* One viewer comes and goes.  What main does to the schedule list for him *)
(* is one step here, and he does not go while a frame is being sent to him *)
(* (RtspServer has those steps).  A frame's size is the number of packets. *)
(***************************************************************************)
EXTENDS RingFifo

CONSTANTS
  SEQ_LIMIT,   \* the values u16SeqNum has (2^16)
  MaxViews     \* bound: how often the viewer comes

ASSUME SeqAssumption == SEQ_LIMIT \in Nat \ {0, 1}
ASSUME MaxViewsAssumption == MaxViews \in Nat

VARIABLES
  watching,  \* the viewer plays: his session is not paused, g_s32DoPlay is positive
  views,     \* how often he has come
  BeginFrame,\* of his entry: an I frame has come
  part,      \* the packet of the frame that is next; 0 before the entry was looked at
  u16SeqNum, \* of his handle: the number of the next packet
  net,       \* the last packet that was sent
  missed     \* history: how many were not, since then

viewer == <<watching, views, BeginFrame, part, u16SeqNum, net, missed>>
vars == <<ring, viewer>>

NoPacket == [seq |-> SEQ_LIMIT, num |-> Torn, part |-> 0, first |-> FALSE, marker |-> FALSE]

Init ==
  /\ RingInit
  /\ watching = FALSE /\ views = 0 /\ BeginFrame = FALSE
  /\ part = 0 /\ u16SeqNum = 0 /\ net = NoPacket /\ missed = 0

\* PLAY of a new session, whose handle and entry are fresh
Watch ==
  /\ ~ watching /\ views < MaxViews
  /\ watching' = TRUE /\ views' = views + 1
  /\ BeginFrame' = FALSE /\ u16SeqNum' = 0 /\ net' = NoPacket /\ missed' = 0
  /\ UNCHANGED <<ring, part>>

\* TEARDOWN or the end of the connection; ringreset; empties nothing
Leave ==
  /\ watching /\ part = 0
  /\ watching' = FALSE
  /\ UNCHANGED <<ring, views, BeginFrame, part, u16SeqNum, net, missed>>

\* cam_thread
Camera ==
  \/ /\ watching
     /\ \E shape \in Shape : PutTest(shape)
     /\ UNCHANGED viewer
  \/ PutSteps /\ UNCHANGED viewer

\* a pass of schedule_do begins, with ringget when someone plays
Take ==
  /\ (watching /\ GetTest) \/ (~ watching /\ Reuse) \/ GetSteps
  /\ UNCHANGED viewer

Starts == BeginFrame \/ info.shape.type = "I"

\* the viewer's entry: nothing is sent to him before an I frame
Visit ==
  /\ gpc = "held" /\ part = 0
  /\ watching /\ Starts
  /\ BeginFrame' = TRUE /\ part' = 1
  /\ UNCHANGED <<ring, watching, views, u16SeqNum, net, missed>>

Skip ==
  /\ gpc = "held" /\ part = 0
  /\ ~ watching \/ ~ Starts
  /\ Release
  /\ UNCHANGED viewer

\* what the packet carries is read from the slot now; its size was read before
Packet ==
  [seq |-> u16SeqNum, num |-> slot[pos].data, part |-> part,
   first |-> part = 1, marker |-> part = info.shape.size]

NumberedWhenSent(sent) ==
  u16SeqNum' = IF sent THEN (u16SeqNum + 1) % SEQ_LIMIT ELSE u16SeqNum

\* the number is used up before sendto
Numbered(sent) == u16SeqNum' = (u16SeqNum + 1) % SEQ_LIMIT

SendPart ==
  /\ gpc = "held" /\ part > 0
  /\ Numbered(TRUE)
  /\ net' = Packet /\ missed' = 0
  /\ IF part = info.shape.size THEN part' = 0 /\ Release
                         ELSE part' = part + 1 /\ UNCHANGED ring
  /\ UNCHANGED <<watching, views, BeginFrame>>

\* sendto fails: the rest of the frame is not sent
SendFails ==
  /\ gpc = "held" /\ part > 0
  /\ Numbered(FALSE)
  /\ missed' = missed + 1
  /\ part' = 0 /\ Release
  /\ UNCHANGED <<watching, views, BeginFrame, net>>

Scheduler == Take \/ Visit \/ Skip \/ SendPart \/ SendFails

Next == Watch \/ Leave \/ Camera \/ Scheduler

(* The schedule thread polls without blocking: nanosleep, a UDP socket.  Nothing is
   assumed of the camera or of the viewer. *)
Spec == Init /\ [][Next]_vars /\ WF_vars(Scheduler)
-----------------------------------------------------------------------------
PacketSet ==
  [seq : 0 .. SEQ_LIMIT, num : Number \union {Torn}, part : Nat,
   first : BOOLEAN, marker : BOOLEAN]

TypeOK ==
  /\ RingTypeOK
  /\ watching \in BOOLEAN /\ views \in 0 .. MaxViews /\ BeginFrame \in BOOLEAN
  /\ part \in Nat /\ u16SeqNum \in 0 .. SEQ_LIMIT - 1
  /\ net \in PacketSet
  /\ missed \in Nat

\* the slot that is being sent may be overwritten
Overtaken == lost \/ puts >= gets + NMAX - 1

Follows(p, q) ==
  IF p.marker THEN q.first
              ELSE ~ q.first /\ q.part = p.part + 1 /\ (q.num = p.num \/ Overtaken)

(* Two packets with consecutive numbers are consecutive in the stream: the next packet of
   the same frame, or the end of one frame and the beginning of another.  Whatever was
   not sent leaves a gap in the numbers that the viewer can see, unless so much was not
   sent that the numbers have come round. *)
GapsAreVisible ==
  [][net' # net /\ net # NoPacket /\ net' # NoPacket /\ missed < SEQ_LIMIT
       /\ net'.seq = (net.seq + 1) % SEQ_LIMIT
     => Follows(net, net')]_vars

(* A frame put into the ring is taken out again, unless the viewer goes or the count has
   lost an update. *)
FrameTaken ==
  \A k \in Number : puts >= k ~> gets >= k \/ lost \/ ~ watching
=============================================================================
