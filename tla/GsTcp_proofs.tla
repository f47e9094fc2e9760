----------------------------- MODULE GsTcp_proofs ----------------------------
(***************************************************************************)
(* Proofs about GsTcp, for every set of addresses, kinds of packet and     *)
(* messages and for every bound: the type invariant, that the connection   *)
(* flag never promises a socket that is not connected, and that commands   *)
(* and responses stay in order.                                            *)
(***************************************************************************)
EXTENDS GsTcp, SequenceTheorems, TLAPS

USE MaxQueueSizeAssumption, AddrAssumption, MaxSleepAssumption, BoundAssumption

\* The receive thread deals with a packet only while its chunk holds one.
ChunkInHand == rcv.pc \in {"respond", "deliver"} => rcv.chunk # <<>>

\* The monitor publishes only a socket connect() reported connected.
PublishesConnected == mon.pc = "publish" => sock.stat \in {"up", "lost"}

\* A monitor in the middle of dialling has not ended, but with the process.
DialerIsAlive == (mon.pc # "check" /\ handle # "exited") => "mon" \in alive

\* The inductive invariant.
TcpInv ==
  /\ TcpTypeOK
  /\ ChunkInHand
  /\ UpMeansConnected /\ DialOnlyWhileDown
  /\ PublishesConnected /\ DialerIsAlive

\* What one step of the engine, its callers or the network is, when the
\* process may end as well.
TcpStep == TcpNext \/ ProcessExits

-----------------------------------------------------------------------------
\* A message queue that is sent to holds messages and does not outgrow its limit.
LEMMA SendKeepsQueue ==
  ASSUME NEW S, NEW q \in Seq(S), NEW m \in S, Len(q) <= MaxQueueSize
  PROVE  /\ MsgQueueSend(q, m) \in Seq(S)
         /\ Len(MsgQueueSend(q, m)) <= MaxQueueSize
  BY DEF MsgQueueSend, MsgQueueHasRoom

\* A part of a sequence is a sequence of the same elements.
LEMMA PartOfSeq ==
  ASSUME NEW S, NEW q \in Seq(S), NEW m \in 1 .. Len(q) + 1, NEW n \in m - 1 .. Len(q)
  PROVE  SubSeq(q, m, n) \in Seq(S) /\ Len(SubSeq(q, m, n)) = n - m + 1
  BY SubSeqProperties

\* A queue a message is taken from holds one message less.
LEMMA TakeKeepsQueue ==
  ASSUME NEW S, NEW q \in Seq(S), NEW i \in 1 .. Len(q)
  PROVE  MsgQueueWithout(q, i) \in Seq(S) /\ Len(MsgQueueWithout(q, i)) = Len(q) - 1
<1> DEFINE before == SubSeq(q, 1, i - 1)
           after == SubSeq(q, i + 1, Len(q))
<1>1. before \in Seq(S) /\ Len(before) = i - 1
  BY PartOfSeq
<1>2. after \in Seq(S) /\ Len(after) = Len(q) - i
  BY PartOfSeq
<1>3. MsgQueueWithout(q, i) = before \o after
  BY DEF MsgQueueWithout
<1> HIDE DEF before, after
<1>4. before \o after \in Seq(S) /\ Len(before \o after) = Len(before) + Len(after)
  BY <1>1, <1>2, ConcatProperties
<1> QED
  BY <1>1, <1>2, <1>3, <1>4

\* The first packet of a chunk has a session number.
LEMMA HeadHasSession ==
  ASSUME NEW chunk \in Seq(Packet), chunk # <<>>
  PROVE  /\ Head(chunk) \in Packet /\ Head(chunk).session \in 0 .. MaxRequest
         /\ Tail(chunk) \in Seq(Packet)
         /\ Len(chunk) # 1 => Tail(chunk) # <<>>
<1>1. Head(chunk) \in Packet /\ Tail(chunk) \in Seq(Packet) /\ Len(Tail(chunk)) = Len(chunk) - 1
  BY HeadTailProperties
<1>2. Head(chunk).session \in 0 .. MaxRequest
  BY <1>1 DEF Packet
<1>3. Len(chunk) # 1 => Tail(chunk) # <<>>
  BY <1>1
<1> QED
  BY <1>1, <1>2, <1>3

-----------------------------------------------------------------------------
\* The type invariant, one part for each tuple of variables that actions leave
\* unchanged together.
LifeType == handle \in {"none", "live", "cancel", "exited"} /\ alive \subseteq Threads

LinkType ==
  /\ m_IsTcpConnectOk \in BOOLEAN /\ m_ServAddr \in NetAddr
  /\ writing \in [half : {"none", "ip", "port"}, addr : NetAddr]
  /\ sock \in [stat : {"none", "new", "up", "lost"}, peer : NetAddr]

MonType ==
  mon \in [pc : {"check", "port", "ip", "connect", "publish"}, addr : NetAddr,
           pause : 1 .. MAXSLEEP]

RcvType ==
  rcv \in [pc : {"check", "read", "respond", "deliver", "clear"}, chunk : Seq(Packet)]

SndType ==
  snd \in [pc : {"check", "recv", "send", "clear"}, msg : SendMsg \union {NoMsg}]

QueuesType ==
  /\ m_TcpSndMsgQ \in Seq(SendMsg) /\ Len(m_TcpSndMsgQ) <= MaxQueueSize
  /\ m_TcpRecvMsgQ \in Seq(RecvMsg) /\ Len(m_TcpRecvMsgQ) <= MaxQueueSize

ServerType ==
  /\ wire \in Seq(Packet) /\ Len(wire) <= MaxWire
  /\ request \in 0 .. MaxRequest

\* The parts make up the type invariant.
LEMMA TypeParts ==
  TcpTypeOK <=> /\ LifeType /\ LinkType /\ MonType /\ RcvType /\ SndType
                /\ QueuesType /\ ServerType
  BY DEF TcpTypeOK, LifeType, LinkType, MonType, RcvType, SndType, QueuesType, ServerType

\* The same of the next state.
LEMMA TypePartsNext ==
  TcpTypeOK' <=> /\ LifeType' /\ LinkType' /\ MonType' /\ RcvType' /\ SndType'
                 /\ QueuesType' /\ ServerType'
  BY TypeParts, PTL

\* The parts that a step leaves alone keep their type.
LEMMA UnchangedParts ==
  ASSUME TcpTypeOK
  PROVE  /\ UNCHANGED life => LifeType'
         /\ UNCHANGED link => LinkType'
         /\ UNCHANGED mon => MonType'
         /\ UNCHANGED rcv => RcvType'
         /\ UNCHANGED snd => SndType'
         /\ UNCHANGED queues => QueuesType'
         /\ UNCHANGED server => ServerType'
<1>1. LifeType /\ LinkType /\ MonType /\ RcvType /\ SndType /\ QueuesType /\ ServerType
  BY TypeParts
<1> QED
  BY <1>1 DEF LifeType, LinkType, MonType, RcvType, SndType, QueuesType, ServerType,
              life, link, queues, server

\* What the flag says of the socket and of the monitor.
LinkInv == UpMeansConnected /\ DialOnlyWhileDown /\ PublishesConnected /\ DialerIsAlive

\* A step that leaves the handle, the link and the monitor alone keeps LinkInv.
LEMMA UnchangedLinkInv ==
  ASSUME LinkInv, UNCHANGED <<life, link, mon>>
  PROVE  LinkInv'
  BY DEF LinkInv, UpMeansConnected, DialOnlyWhileDown, PublishesConnected, DialerIsAlive,
         life, link

-----------------------------------------------------------------------------
\* The address of a thread that has none is an address all the same.
LEMMA NoAddrTyped == NoAddr \in NetAddr
  BY DEF NoAddr, NetAddr

\* A monitor step keeps the types.
LEMMA MonitorKeepsTypes ==
  ASSUME TcpTypeOK, Monitor
  PROVE  TcpTypeOK'
<1>0. LinkType /\ MonType /\ ServerType
  BY TypeParts
<1>1. CASE MonRenew
  <2>1. UNCHANGED life /\ UNCHANGED rcv /\ UNCHANGED snd /\ UNCHANGED queues
    BY <1>1 DEF MonRenew
  <2>2. LinkType'
    BY <1>0, <1>1, NoAddrTyped DEF MonRenew, LinkType
  <2>3. MonType'
    BY <1>0, <1>1 DEF MonRenew, MonType
  <2>4. ServerType'
    BY <1>0, <1>1 DEF MonRenew, ServerType
  <2> QED
    BY <2>1, <2>2, <2>3, <2>4, TypePartsNext, UnchangedParts
<1>2. CASE MonPort
  <2>1. m_ServAddr.port \in Nat /\ mon.addr \in NetAddr
    BY <1>0 DEF LinkType, MonType, NetAddr
  <2>2. [mon.addr EXCEPT !.port = m_ServAddr.port] \in NetAddr
    BY <2>1 DEF NetAddr
  <2>3. mon' = [mon EXCEPT !.pc = "ip", !.addr = [mon.addr EXCEPT !.port = m_ServAddr.port]]
    BY <1>0, <1>2 DEF MonPort, MonType
  <2>4. MonType'
    BY <1>0, <2>2, <2>3 DEF MonType
  <2> QED
    BY <1>2, <2>4, TypePartsNext, UnchangedParts DEF MonPort
<1>3. CASE MonIp
  <2>1. m_ServAddr.ip \in Nat /\ mon.addr \in NetAddr
    BY <1>0 DEF LinkType, MonType, NetAddr
  <2> DEFINE dialled == [mon.addr EXCEPT !.ip = m_ServAddr.ip]
  <2>2. dialled \in NetAddr
    BY <2>1 DEF NetAddr
  <2>3. mon' = [mon EXCEPT !.pc = "connect", !.addr = dialled, !.pause = 1]
    BY <1>0, <1>3 DEF MonIp, MonType
  <2> HIDE DEF dialled
  <2>4. 1 \in 1 .. MAXSLEEP
    BY MaxSleepAssumption
  <2>5. MonType'
    BY <1>0, <2>2, <2>3, <2>4 DEF MonType
  <2> QED
    BY <1>3, <2>5, TypePartsNext, UnchangedParts DEF MonIp
<1>4. CASE MonConnectOk
  <2>1. LinkType'
    BY <1>0, <1>4 DEF MonConnectOk, MonType, LinkType
  <2>2. MonType'
    BY <1>0, <1>4 DEF MonConnectOk, MonType
  <2> QED
    BY <1>4, <2>1, <2>2, TypePartsNext, UnchangedParts DEF MonConnectOk
<1>5. CASE MonConnectFail
  <2>1. MonType'
    BY <1>0, <1>5, NoAddrTyped, MaxSleepAssumption DEF MonConnectFail, MonType, MonStart
  <2> QED
    BY <1>5, <2>1, TypePartsNext, UnchangedParts DEF MonConnectFail
<1>6. CASE MonPublish
  <2>1. LinkType'
    BY <1>0, <1>6 DEF MonPublish, LinkType
  <2>2. MonType'
    BY <1>6, NoAddrTyped, MaxSleepAssumption DEF MonPublish, MonType, MonStart
  <2> QED
    BY <1>6, <2>1, <2>2, TypePartsNext, UnchangedParts DEF MonPublish
<1> QED
  BY <1>1, <1>2, <1>3, <1>4, <1>5, <1>6 DEF Monitor

\* A monitor step keeps what the flag says.
LEMMA MonitorKeepsLinkInv ==
  ASSUME TcpTypeOK, LinkInv, Monitor
  PROVE  LinkInv'
<1> USE DEF LinkInv, UpMeansConnected, DialOnlyWhileDown, PublishesConnected, DialerIsAlive,
            life, link, Runs
<1>0. mon \in [pc : {"check", "port", "ip", "connect", "publish"}, addr : NetAddr,
               pause : 1 .. MAXSLEEP]
  BY TypeParts DEF MonType
<1>1. CASE MonRenew
  BY <1>0, <1>1 DEF MonRenew
<1>2. CASE MonPort
  BY <1>0, <1>2 DEF MonPort
<1>3. CASE MonIp
  BY <1>0, <1>3 DEF MonIp
<1>4. CASE MonConnectOk
  BY <1>0, <1>4 DEF MonConnectOk
<1>5. CASE MonConnectFail
  BY <1>0, <1>5 DEF MonConnectFail, MonStart
<1>6. CASE MonPublish
  BY <1>0, <1>6 DEF MonPublish, MonStart
<1> QED
  BY <1>1, <1>2, <1>3, <1>4, <1>5, <1>6 DEF Monitor

-----------------------------------------------------------------------------
\* Dealing with the packet at hand keeps the receive thread's types.
LEMMA NextPacketTypes ==
  ASSUME RcvType, rcv.chunk # <<>>, NextPacket
  PROVE  RcvType' /\ ChunkInHand'
<1>1. rcv.chunk \in Seq(Packet)
  BY DEF RcvType
<1>2. Tail(rcv.chunk) \in Seq(Packet) /\ (Len(rcv.chunk) # 1 => Tail(rcv.chunk) # <<>>)
  BY <1>1, HeadHasSession
<1> QED
  BY <1>2 DEF NextPacket, RcvType, ChunkInHand

\* A response to the packet at hand is a message, and its queue keeps its limit.
LEMMA RespondTypes ==
  ASSUME RcvType, QueuesType, rcv.chunk # <<>>,
         NEW result \in {"SUCCESS", "ERR"}, Respond(result)
  PROVE  m_TcpSndMsgQ' \in Seq(SendMsg) /\ Len(m_TcpSndMsgQ') <= MaxQueueSize
<1>1. rcv.chunk \in Seq(Packet)
  BY DEF RcvType
<1>2. Head(rcv.chunk).session \in 0 .. MaxRequest
  BY <1>1, HeadHasSession
<1>3. Response(Head(rcv.chunk).session, result) \in SendMsg
  BY <1>2 DEF SendMsg
<1> QED
  BY <1>3, SendKeepsQueue DEF Respond, QueuesType

\* What the receive thread passes on is a message, and its queue keeps its limit.
LEMMA DeliverTypes ==
  ASSUME QueuesType, NEW m \in RecvMsg, m_TcpRecvMsgQ' = MsgQueueSend(m_TcpRecvMsgQ, m)
  PROVE  m_TcpRecvMsgQ' \in Seq(RecvMsg) /\ Len(m_TcpRecvMsgQ') <= MaxQueueSize
  BY SendKeepsQueue DEF QueuesType

\* A step of the receive thread keeps the types and the packet in its hand.
LEMMA ReceiverKeepsTypes ==
  ASSUME TcpTypeOK, ChunkInHand, Receiver
  PROVE  TcpTypeOK' /\ ChunkInHand'
<1>0. LifeType /\ LinkType /\ RcvType /\ QueuesType /\ ServerType
  BY TypeParts
<1>1. CASE RcvCheck
  <2>1. RcvType' /\ ChunkInHand'
    BY <1>0, <1>1 DEF RcvCheck, RcvType, ChunkInHand
  <2> QED
    BY <1>1, <2>1, TypePartsNext, UnchangedParts DEF RcvCheck
<1>2. CASE RcvTimeout
  <2>1. RcvType' /\ ChunkInHand'
    BY <1>0, <1>2 DEF RcvTimeout, RcvType, ChunkInHand
  <2> QED
    BY <1>2, <2>1, TypePartsNext, UnchangedParts DEF RcvTimeout
<1>3. CASE RcvRead
  <2>1. PICK n \in 1 .. Len(wire) :
          /\ rcv' = [pc |-> "respond", chunk |-> SubSeq(wire, 1, n)]
          /\ wire' = SubSeq(wire, n + 1, Len(wire))
    BY <1>3 DEF RcvRead
  <2>2. SubSeq(wire, 1, n) \in Seq(Packet) /\ Len(SubSeq(wire, 1, n)) = n
    BY <1>0, PartOfSeq DEF ServerType
  <2>3. wire' \in Seq(Packet) /\ Len(wire') = Len(wire) - n
    BY <1>0, <2>1, PartOfSeq DEF ServerType
  <2>4. RcvType' /\ ChunkInHand'
    BY <2>1, <2>2, SMTT(30) DEF RcvType, ChunkInHand
  <2>5. ServerType'
    BY <1>0, <1>3, <2>3, BoundAssumption DEF ServerType, RcvRead
  <2> QED
    BY <1>3, <2>4, <2>5, TypePartsNext, UnchangedParts DEF RcvRead
<1>4. CASE RcvFail
  <2>1. RcvType' /\ ChunkInHand'
    BY <1>0, <1>4 DEF RcvFail, RcvType, ChunkInHand
  <2> QED
    BY <1>4, <2>1, TypePartsNext, UnchangedParts DEF RcvFail
<1>5. CASE RcvClear
  <2>1. RcvType' /\ ChunkInHand'
    BY <1>0, <1>5 DEF RcvClear, RcvType, ChunkInHand
  <2>2. LinkType'
    BY <1>0, <1>5 DEF RcvClear, LinkType
  <2> QED
    BY <1>5, <2>1, <2>2, TypePartsNext, UnchangedParts DEF RcvClear
<1>6. CASE RcvRefuse
  <2>1. rcv.chunk # <<>>
    BY <1>6 DEF RcvRefuse, ChunkInHand
  <2>2. RcvType' /\ ChunkInHand'
    BY <1>0, <1>6, <2>1, NextPacketTypes DEF RcvRefuse
  <2>3. Respond("ERR")
    BY <1>6 DEF RcvRefuse
  <2>4. m_TcpSndMsgQ' \in Seq(SendMsg) /\ Len(m_TcpSndMsgQ') <= MaxQueueSize
    BY <1>0, <2>1, <2>3, RespondTypes
  <2>5. QueuesType'
    BY <1>0, <1>6, <2>4 DEF RcvRefuse, QueuesType
  <2> QED
    BY <1>6, <2>2, <2>5, TypePartsNext, UnchangedParts DEF RcvRefuse
<1>7. CASE RcvQuit
  <2>1. LifeType'
    BY <1>7 DEF RcvQuit, ProcessExits, LifeType
  <2>2. ChunkInHand'
    BY <1>7 DEF RcvQuit, ProcessExits, ChunkInHand
  <2> QED
    BY <1>7, <2>1, <2>2, TypePartsNext, UnchangedParts DEF RcvQuit, ProcessExits
<1>8. CASE RcvRespond
  <2>1. rcv.chunk # <<>>
    BY <1>8 DEF RcvRespond, ChunkInHand
  <2>2. RcvType' /\ ChunkInHand'
    BY <1>0, <1>8, <2>1 DEF RcvRespond, RcvType, ChunkInHand
  <2>3. m_TcpSndMsgQ' \in Seq(SendMsg) /\ Len(m_TcpSndMsgQ') <= MaxQueueSize
    BY <1>0, <1>8, <2>1, RespondTypes DEF RcvRespond
  <2>4. QueuesType'
    BY <1>0, <1>8, <2>3 DEF RcvRespond, QueuesType
  <2> QED
    BY <1>8, <2>2, <2>4, TypePartsNext, UnchangedParts DEF RcvRespond
<1>9. CASE RcvDeliver
  <2>1. rcv.chunk # <<>>
    BY <1>9 DEF RcvDeliver, ChunkInHand
  <2>2. RcvType' /\ ChunkInHand'
    BY <1>0, <1>9, <2>1, NextPacketTypes DEF RcvDeliver
  <2>3. DevData(Head(rcv.chunk).session) \in RecvMsg
    BY <1>0, <2>1, HeadHasSession DEF RcvType, RecvMsg
  <2>4. QueuesType'
    BY <1>0, <1>9, <2>3, DeliverTypes DEF RcvDeliver, QueuesType
  <2> QED
    BY <1>9, <2>2, <2>4, TypePartsNext, UnchangedParts DEF RcvDeliver
<1>10. CASE RcvReply
  <2>1. rcv.chunk # <<>>
    BY <1>10 DEF RcvReply, ChunkInHand
  <2>2. RcvType' /\ ChunkInHand'
    BY <1>0, <1>10, <2>1, NextPacketTypes DEF RcvReply
  <2>3. HeartbeatResponse \in RecvMsg
    BY DEF RecvMsg
  <2>4. QueuesType'
    BY <1>0, <1>10, <2>3, DeliverTypes DEF RcvReply, QueuesType
  <2> QED
    BY <1>10, <2>2, <2>4, TypePartsNext, UnchangedParts DEF RcvReply
<1> QED
  BY <1>1, <1>2, <1>3, <1>4, <1>5, <1>6, <1>7, <1>8, <1>9, <1>10 DEF Receiver

-----------------------------------------------------------------------------
\* A step of the send thread keeps the types.
LEMMA SenderKeepsTypes ==
  ASSUME TcpTypeOK, Sender
  PROVE  TcpTypeOK'
<1>0. LinkType /\ SndType /\ QueuesType
  BY TypeParts
<1>1. SndStart \in [pc : {"check", "recv", "send", "clear"}, msg : SendMsg \union {NoMsg}]
  BY DEF SndStart
<1>2. CASE SndCheck
  <2>1. SndType'
    BY <1>0, <1>2 DEF SndCheck, SndType
  <2> QED
    BY <1>2, <2>1, TypePartsNext, UnchangedParts DEF SndCheck
<1>3. CASE SndTake
  <2>1. /\ Head(m_TcpSndMsgQ) \in SendMsg /\ Tail(m_TcpSndMsgQ) \in Seq(SendMsg)
        /\ Len(Tail(m_TcpSndMsgQ)) = Len(m_TcpSndMsgQ) - 1
    BY <1>0, <1>3, HeadTailProperties DEF SndTake, QueuesType
  <2>2. SndType'
    BY <1>3, <2>1 DEF SndTake, SndType
  <2>3. QueuesType'
    BY <1>0, <1>3, <2>1, MaxQueueSizeAssumption DEF SndTake, QueuesType
  <2> QED
    BY <1>3, <2>2, <2>3, TypePartsNext, UnchangedParts DEF SndTake
<1>4. CASE SndDeliver \/ SndLose
  <2>1. SndType'
    BY <1>1, <1>4 DEF SndDeliver, SndLose, SndType
  <2> QED
    BY <1>4, <2>1, TypePartsNext, UnchangedParts DEF SndDeliver, SndLose
<1>5. CASE SndFail
  <2>1. SndType'
    BY <1>0, <1>5 DEF SndFail, SndType
  <2> QED
    BY <1>5, <2>1, TypePartsNext, UnchangedParts DEF SndFail
<1>6. CASE SndClear
  <2>1. SndType'
    BY <1>1, <1>6 DEF SndClear, SndType
  <2>2. LinkType'
    BY <1>0, <1>6 DEF SndClear, LinkType
  <2> QED
    BY <1>6, <2>1, <2>2, TypePartsNext, UnchangedParts DEF SndClear
<1> QED
  BY <1>2, <1>3, <1>4, <1>5, <1>6 DEF Sender

\* A step of the receive or send thread leaves the monitor and the socket alone:
\* it keeps what the flag says, which it can only mark down.
LEMMA WorkersKeepLinkInv ==
  ASSUME LinkInv, Receiver \/ Sender
  PROVE  LinkInv'
<1>1. \/ UNCHANGED <<life, link, mon>>
      \/ UNCHANGED <<life, sock, mon>> /\ m_IsTcpConnectOk' = FALSE
      \/ UNCHANGED <<link, mon>> /\ handle' = "exited"
  BY DEF Receiver, RcvCheck, RcvTimeout, RcvRead, RcvFail, RcvClear, RcvRefuse, RcvQuit,
         ProcessExits, RcvRespond, RcvDeliver, RcvReply,
         Sender, SndCheck, SndTake, SndDeliver, SndLose, SndFail, SndClear, life, link
<1> QED
  BY <1>1, UnchangedLinkInv
     DEF LinkInv, UpMeansConnected, DialOnlyWhileDown, PublishesConnected, DialerIsAlive,
         life, link

\* Starting and stopping the engine keeps the invariant.
LEMMA LifeStepsKeepInv ==
  ASSUME TcpInv,
         (\E a \in Addr : TcpCreate(a)) \/ TcpCancel \/ (\E t \in Threads : ThreadEnds(t))
           \/ TcpFree \/ ProcessExits
  PROVE  TcpInv'
<1>0. /\ TcpTypeOK /\ ChunkInHand /\ LinkInv
      /\ LifeType /\ LinkType /\ MonType /\ RcvType /\ SndType /\ QueuesType /\ ServerType
  BY TypeParts DEF TcpInv, LinkInv
<1>1. mon' = MonStart => MonType'
  BY NoAddrTyped, MaxSleepAssumption DEF MonStart, MonType
<1>2. rcv' = RcvStart => RcvType' /\ ChunkInHand'
  <2>1. <<>> \in Seq(Packet)
    BY EmptySeq
  <2>2. RcvStart \in [pc : {"check", "read", "respond", "deliver", "clear"}, chunk : Seq(Packet)]
    BY <2>1 DEF RcvStart
  <2> QED
    BY <2>2 DEF RcvStart, RcvType, ChunkInHand
<1>3. snd' = SndStart => SndType'
  BY DEF SndStart, SndType
<1>4. (m_TcpSndMsgQ' = <<>> /\ m_TcpRecvMsgQ' = <<>>) => QueuesType'
  <2>1. <<>> \in Seq(SendMsg) /\ <<>> \in Seq(RecvMsg) /\ Len(<<>>) <= MaxQueueSize
    BY EmptySeq, MaxQueueSizeAssumption
  <2> QED
    BY <2>1 DEF QueuesType
<1>5. CASE \E a \in Addr : TcpCreate(a)
  <2>1. PICK a \in Addr : TcpCreate(a)
    BY <1>5
  <2>2. LifeType' /\ LinkType'
    BY <1>0, <2>1, AddrAssumption DEF TcpCreate, LifeType, LinkType, NetAddr
  <2>3. TcpTypeOK' /\ ChunkInHand'
    BY <1>0, <1>1, <1>2, <1>3, <1>4, <2>1, <2>2, TypePartsNext, UnchangedParts DEF TcpCreate
  <2>4. LinkInv'
    BY <2>1 DEF TcpCreate, MonStart, LinkInv, UpMeansConnected, DialOnlyWhileDown,
                PublishesConnected, DialerIsAlive
  <2> QED
    BY <2>3, <2>4 DEF TcpInv, LinkInv
<1>6. CASE TcpCancel
  <2>1. LifeType'
    BY <1>0, <1>6 DEF TcpCancel, LifeType
  <2>2. TcpTypeOK' /\ ChunkInHand'
    BY <1>0, <1>6, <2>1, TypePartsNext, UnchangedParts DEF TcpCancel, ChunkInHand
  <2>3. LinkInv'
    BY <1>0, <1>6 DEF TcpCancel, link, LinkInv, UpMeansConnected, DialOnlyWhileDown,
                      PublishesConnected, DialerIsAlive
  <2> QED
    BY <2>2, <2>3 DEF TcpInv, LinkInv
<1>7. CASE \E t \in Threads : ThreadEnds(t)
  <2>1. PICK t \in Threads : ThreadEnds(t)
    BY <1>7
  <2>2. LifeType'
    BY <1>0, <2>1 DEF ThreadEnds, LifeType
  <2>3. MonType'
    BY <1>0, <1>1, <2>1, UnchangedParts DEF ThreadEnds
  <2>4. RcvType' /\ ChunkInHand'
    BY <1>0, <1>2, <2>1, UnchangedParts DEF ThreadEnds, ChunkInHand
  <2>5. SndType'
    BY <1>0, <1>3, <2>1, UnchangedParts DEF ThreadEnds
  <2>6. TcpTypeOK' /\ ChunkInHand'
    BY <1>0, <2>1, <2>2, <2>3, <2>4, <2>5, TypePartsNext, UnchangedParts DEF ThreadEnds
  <2>7. LinkInv'
    BY <1>0, <2>1 DEF ThreadEnds, MonStart, Threads, link, LinkInv, UpMeansConnected,
                      DialOnlyWhileDown, PublishesConnected, DialerIsAlive
  <2> QED
    BY <2>6, <2>7 DEF TcpInv, LinkInv
<1>8. CASE TcpFree
  <2>1. LifeType' /\ LinkType'
    BY <1>0, <1>8, NoAddrTyped DEF TcpFree, LifeType, LinkType, Idle, NoSock
  <2>2. ServerType'
    BY <1>0, <1>8, BoundAssumption DEF TcpFree, ServerType
  <2>3. TcpTypeOK' /\ ChunkInHand'
    BY <1>0, <1>4, <1>8, <2>1, <2>2, TypePartsNext, UnchangedParts DEF TcpFree, ChunkInHand
  <2>4. LinkInv'
    BY <1>0, <1>8 DEF TcpFree, NoSock, LinkInv, UpMeansConnected, DialOnlyWhileDown,
                      PublishesConnected, DialerIsAlive
  <2> QED
    BY <2>3, <2>4 DEF TcpInv, LinkInv
<1>9. CASE ProcessExits
  <2>1. LifeType'
    BY <1>0, <1>9 DEF ProcessExits, LifeType
  <2>2. TcpTypeOK' /\ ChunkInHand'
    BY <1>0, <1>9, <2>1, TypePartsNext, UnchangedParts DEF ProcessExits, ChunkInHand
  <2>3. LinkInv'
    BY <1>0, <1>9 DEF ProcessExits, link, LinkInv, UpMeansConnected, DialOnlyWhileDown,
                      PublishesConnected, DialerIsAlive
  <2> QED
    BY <2>2, <2>3 DEF TcpInv, LinkInv
<1> QED
  BY <1>5, <1>6, <1>7, <1>8, <1>9

\* A call of the module's interface, other than those, keeps the types.
LEMMA CallersKeepTypes ==
  ASSUME TcpTypeOK,
         \/ \E a \in Addr : ReconfigBegin(a)
         \/ SetConnStatFalse \/ ReconfigEnd
         \/ \E m \in ClientMsg : PutMessage(m)
         \/ \E type \in {"DEV_DATA", "HEARTBEAT_RESPONSE"}, i \in 1 .. MaxQueueSize :
              TakeMessage(type, i)
  PROVE  TcpTypeOK'
<1>0. LinkType /\ QueuesType
  BY TypeParts
<1>1. CASE \E a \in Addr : ReconfigBegin(a)
  <2>1. PICK a \in Addr, half \in {"ip", "port"} :
          /\ m_ServAddr' = [m_ServAddr EXCEPT ![half] = a[half]]
          /\ writing' = [half |-> IF half = "ip" THEN "port" ELSE "ip", addr |-> a]
          /\ ReconfigBegin(a)
    BY <1>1 DEF ReconfigBegin
  <2>2. a \in NetAddr /\ a[half] \in Nat
    BY AddrAssumption DEF NetAddr
  <2>3. m_ServAddr' \in NetAddr
    BY <1>0, <2>1, <2>2 DEF LinkType, NetAddr
  <2>4. LinkType'
    BY <1>0, <2>1, <2>2, <2>3 DEF LinkType, ReconfigBegin
  <2> QED
    BY <2>1, <2>4, TypePartsNext, UnchangedParts DEF ReconfigBegin
<1>2. CASE SetConnStatFalse
  <2>1. LinkType'
    BY <1>0, <1>2 DEF SetConnStatFalse, LinkType
  <2> QED
    BY <1>2, <2>1, TypePartsNext, UnchangedParts DEF SetConnStatFalse
<1>3. CASE ReconfigEnd
  <2>1. LinkType'
    BY <1>0, <1>3, NoAddrTyped DEF ReconfigEnd, LinkType, Idle
  <2> QED
    BY <1>3, <2>1, TypePartsNext, UnchangedParts DEF ReconfigEnd
<1>4. CASE \E m \in ClientMsg : PutMessage(m)
  <2>1. PICK m \in ClientMsg : PutMessage(m)
    BY <1>4
  <2>2. m \in SendMsg
    BY DEF SendMsg
  <2>3. QueuesType'
    BY <1>0, <2>1, <2>2, SendKeepsQueue DEF PutMessage, QueuesType
  <2> QED
    BY <2>1, <2>3, TypePartsNext, UnchangedParts DEF PutMessage
<1>5. CASE \E type \in {"DEV_DATA", "HEARTBEAT_RESPONSE"}, i \in 1 .. MaxQueueSize :
             TakeMessage(type, i)
  <2>1. PICK type \in {"DEV_DATA", "HEARTBEAT_RESPONSE"}, i \in 1 .. MaxQueueSize :
          TakeMessage(type, i)
    BY <1>5
  <2>2. i \in 1 .. Len(m_TcpRecvMsgQ)
    BY <1>0, <2>1, LenProperties DEF TakeMessage, IsOldest, QueuesType
  <2>3. /\ MsgQueueWithout(m_TcpRecvMsgQ, i) \in Seq(RecvMsg)
        /\ Len(MsgQueueWithout(m_TcpRecvMsgQ, i)) = Len(m_TcpRecvMsgQ) - 1
    BY <1>0, <2>2, TakeKeepsQueue DEF QueuesType
  <2>4. QueuesType'
    BY <1>0, <2>1, <2>3, MaxQueueSizeAssumption DEF TakeMessage, QueuesType
  <2> QED
    BY <2>1, <2>4, TypePartsNext, UnchangedParts DEF TakeMessage
<1> QED
  BY <1>1, <1>2, <1>3, <1>4, <1>5

\* A step of the server or the network keeps the types.
LEMMA NetworkKeepsTypes ==
  ASSUME TcpTypeOK, Network
  PROVE  TcpTypeOK'
<1>0. LinkType /\ ServerType
  BY TypeParts
<1>1. CASE PeerCloses
  <2>1. LinkType'
    BY <1>0, <1>1 DEF PeerCloses, LinkType
  <2>2. PICK n \in 0 .. Len(wire) : wire' = SubSeq(wire, 1, n)
    BY <1>1 DEF PeerCloses
  <2>3. wire' \in Seq(Packet) /\ Len(wire') = n
    BY <1>0, <2>2, PartOfSeq DEF ServerType
  <2>4. ServerType'
    BY <1>0, <1>1, <2>3, BoundAssumption DEF ServerType, PeerCloses
  <2> QED
    BY <1>1, <2>1, <2>4, TypePartsNext, UnchangedParts DEF PeerCloses
<1>2. CASE \E kind \in Kind : ServerSends(kind)
  <2>1. PICK kind \in Kind : ServerSends(kind)
    BY <1>2
  <2>2. request' \in 0 .. MaxRequest
    BY <1>0, <2>1, BoundAssumption DEF ServerSends, ServerType
  <2>3. PICK n \in 0 .. MaxRequest : wire' = Append(wire, [kind |-> kind, session |-> n])
    BY <2>1, <2>2, BoundAssumption DEF ServerSends
  <2>4. [kind |-> kind, session |-> n] \in Packet
    BY DEF Packet
  <2>5. wire' \in Seq(Packet) /\ Len(wire') = Len(wire) + 1
    BY <1>0, <2>3, <2>4, AppendProperties DEF ServerType
  <2>6. ServerType'
    BY <1>0, <2>1, <2>2, <2>5, BoundAssumption DEF ServerType, ServerSends
  <2> QED
    BY <2>1, <2>6, TypePartsNext, UnchangedParts DEF ServerSends
<1> QED
  BY <1>1, <1>2 DEF Network

\* Neither touches the receive thread or the monitor, and only the server's close
\* touches the socket: what the flag says is kept.
LEMMA OthersKeepLinkInv ==
  ASSUME TcpTypeOK, LinkInv, ChunkInHand,
         \/ \E a \in Addr : ReconfigBegin(a)
         \/ SetConnStatFalse \/ ReconfigEnd
         \/ \E m \in ClientMsg : PutMessage(m)
         \/ \E type \in {"DEV_DATA", "HEARTBEAT_RESPONSE"}, i \in 1 .. MaxQueueSize :
              TakeMessage(type, i)
         \/ Network
  PROVE  LinkInv' /\ ChunkInHand'
<1>1. UNCHANGED <<life, mon, rcv>>
  BY DEF ReconfigBegin, SetConnStatFalse, ReconfigEnd, PutMessage, TakeMessage, Network,
         PeerCloses, ServerSends
<1>2. m_IsTcpConnectOk' = m_IsTcpConnectOk \/ m_IsTcpConnectOk' = FALSE
  BY DEF ReconfigBegin, SetConnStatFalse, ReconfigEnd, PutMessage, TakeMessage, Network,
         PeerCloses, ServerSends, link
<1>3. UNCHANGED sock \/ sock' = [sock EXCEPT !.stat = "lost"]
  BY DEF ReconfigBegin, SetConnStatFalse, ReconfigEnd, PutMessage, TakeMessage, Network,
         PeerCloses, ServerSends, link
<1>4. sock.stat \in {"up", "lost"} => sock'.stat \in {"up", "lost"}
  BY <1>3, TypeParts DEF LinkType
<1> QED
  BY <1>1, <1>2, <1>4
     DEF LinkInv, UpMeansConnected, DialOnlyWhileDown, PublishesConnected, DialerIsAlive,
         ChunkInHand, life

-----------------------------------------------------------------------------
\* Every step of the engine and its users, and the end of the process, keeps the
\* inductive invariant.
LEMMA StepKeepsInv ==
  ASSUME TcpInv, [TcpStep]_tcpVars
  PROVE  TcpInv'
<1>0. TcpTypeOK /\ ChunkInHand /\ LinkInv
  BY DEF TcpInv, LinkInv
<1>1. CASE UNCHANGED tcpVars
  <2>1. TcpTypeOK'
    BY <1>0, <1>1, TypePartsNext, UnchangedParts DEF tcpVars
  <2>2. LinkInv'
    BY <1>0, <1>1, UnchangedLinkInv DEF tcpVars
  <2>3. ChunkInHand'
    BY <1>0, <1>1 DEF ChunkInHand, tcpVars
  <2> QED
    BY <2>1, <2>2, <2>3 DEF TcpInv, LinkInv
<1>2. CASE Monitor
  <2>1. rcv' = rcv
    BY <1>2 DEF Monitor, MonRenew, MonPort, MonIp, MonConnectOk, MonConnectFail, MonPublish
  <2>2. ChunkInHand'
    BY <1>0, <2>1 DEF ChunkInHand
  <2> QED
    BY <1>0, <1>2, <2>2, MonitorKeepsTypes, MonitorKeepsLinkInv DEF TcpInv, LinkInv
<1>3. CASE Receiver
  BY <1>0, <1>3, ReceiverKeepsTypes, WorkersKeepLinkInv DEF TcpInv, LinkInv
<1>4. CASE Sender
  <2>1. rcv' = rcv
    BY <1>4 DEF Sender, SndCheck, SndTake, SndDeliver, SndLose, SndFail, SndClear
  <2>2. ChunkInHand'
    BY <1>0, <2>1 DEF ChunkInHand
  <2> QED
    BY <1>0, <1>4, <2>2, SenderKeepsTypes, WorkersKeepLinkInv DEF TcpInv, LinkInv
<1>5. CASE (\E a \in Addr : TcpCreate(a)) \/ TcpCancel \/ (\E t \in Threads : ThreadEnds(t))
             \/ TcpFree \/ ProcessExits
  BY <1>5, LifeStepsKeepInv
<1>6. CASE \/ \E a \in Addr : ReconfigBegin(a)
           \/ SetConnStatFalse \/ ReconfigEnd
           \/ \E m \in ClientMsg : PutMessage(m)
           \/ \E type \in {"DEV_DATA", "HEARTBEAT_RESPONSE"}, i \in 1 .. MaxQueueSize :
                TakeMessage(type, i)
  BY <1>0, <1>6, CallersKeepTypes, OthersKeepLinkInv DEF TcpInv, LinkInv
<1>7. CASE Network
  BY <1>0, <1>7, NetworkKeepsTypes, OthersKeepLinkInv DEF TcpInv, LinkInv
<1> QED
  BY <1>1, <1>2, <1>3, <1>4, <1>5, <1>6, <1>7 DEF TcpStep, TcpNext, Engine, Callers

\* The engine starts in the inductive invariant.
LEMMA StartsInInv == TcpInit => TcpInv
<1> SUFFICES ASSUME TcpInit
             PROVE  TcpInv
  OBVIOUS
<1>1. LifeType /\ LinkType
  BY NoAddrTyped DEF TcpInit, LifeType, LinkType, Idle, NoSock
<1>2. MonType
  BY NoAddrTyped, MaxSleepAssumption DEF TcpInit, MonStart, MonType
<1>3. <<>> \in Seq(Packet) /\ <<>> \in Seq(SendMsg) /\ <<>> \in Seq(RecvMsg) /\ Len(<<>>) = 0
  BY EmptySeq
<1>4. RcvType /\ SndType
  BY <1>3 DEF TcpInit, RcvStart, RcvType, SndStart, SndType
<1>5. QueuesType /\ ServerType
  BY <1>3, MaxQueueSizeAssumption, BoundAssumption DEF TcpInit, QueuesType, ServerType
<1>6. ChunkInHand /\ LinkInv
  BY DEF TcpInit, RcvStart, MonStart, ChunkInHand, LinkInv, UpMeansConnected,
         DialOnlyWhileDown, PublishesConnected, DialerIsAlive
<1> QED
  BY <1>1, <1>2, <1>4, <1>5, <1>6, TypeParts DEF TcpInv, LinkInv

\* However the engine is used, the inductive invariant holds for ever.
LEMMA TcpInvariant == TcpInit /\ [][TcpStep]_tcpVars => []TcpInv
  BY StartsInInv, StepKeepsInv, PTL

\* For every configuration, queue limit and interleaving of the three threads,
\* their callers and the server, the handle and the threads keep their types and
\* the queues their limits (gs_tcp.c).
THEOREM GsTcpTypeOK == TcpSpec => []TcpTypeOK
<1>1. [TcpNext]_tcpVars => [TcpStep]_tcpVars
  BY DEF TcpStep
<1>2. TcpInv => TcpTypeOK
  BY DEF TcpInv
<1> QED
  BY <1>1, <1>2, TcpInvariant, PTL DEF TcpSpec

\* For every configuration, the connection flag promises a socket that connect()
\* reported connected, although no lock orders its writers (gs_tcp.c:66-104, 287, 367).
THEOREM GsTcpUpMeansConnected == TcpSpec => []UpMeansConnected
<1>1. [TcpNext]_tcpVars => [TcpStep]_tcpVars
  BY DEF TcpStep
<1>2. TcpInv => UpMeansConnected
  BY DEF TcpInv
<1> QED
  BY <1>1, <1>2, TcpInvariant, PTL DEF TcpSpec

\* For every configuration, the monitor replaces and dials the socket only while
\* the connection is marked down (gs_tcp.c:66-104).
THEOREM GsTcpDialOnlyWhileDown == TcpSpec => []DialOnlyWhileDown
<1>1. [TcpNext]_tcpVars => [TcpStep]_tcpVars
  BY DEF TcpStep
<1>2. TcpInv => DialOnlyWhileDown
  BY DEF TcpInv
<1> QED
  BY <1>1, <1>2, TcpInvariant, PTL DEF TcpSpec

-----------------------------------------------------------------------------
\* The numbers of a sequence's elements, 0 left out.
Nos(f, s) == {f[s[i]] : i \in DOMAIN s} \ {0}

\* They increase along the sequence.
Ordered(f, s) ==
  \A i, j \in DOMAIN s : i < j /\ f[s[i]] # 0 /\ f[s[j]] # 0 => f[s[i]] < f[s[j]]

\* Every number of A is below every number of B.
Below(A, B) == \A a \in A, b \in B : a < b

\* They are natural numbers.
LEMMA NaturalNos ==
  ASSUME NEW S, NEW f \in [S -> Nat], NEW s \in Seq(S)
  PROVE  Nos(f, s) \subseteq Nat
<1>1. s \in [1 .. Len(s) -> S]
  BY LenProperties
<1> QED
  BY <1>1 DEF Nos

\* The numbers of a part are among those of the whole, and in the same order.
LEMMA PartOrdered ==
  ASSUME NEW S, NEW f \in [S -> Nat], NEW s \in Seq(S),
         NEW m \in 1 .. Len(s) + 1, NEW n \in m - 1 .. Len(s)
  PROVE  /\ Nos(f, SubSeq(s, m, n)) \subseteq Nos(f, s)
         /\ Ordered(f, s) => Ordered(f, SubSeq(s, m, n))
<1> DEFINE t == SubSeq(s, m, n)
<1>1. /\ t \in Seq(S) /\ Len(t) = n - m + 1
      /\ \A i \in 1 .. n - m + 1 : t[i] = s[m + i - 1]
  BY SubSeqProperties
<1> HIDE DEF t
<1>2. /\ DOMAIN t = 1 .. n - m + 1 /\ DOMAIN s = 1 .. Len(s)
      /\ Len(s) \in Nat /\ m \in Int /\ n \in Int
  BY <1>1, LenProperties
<1>3. \A i \in DOMAIN t : t[i] = s[m + i - 1] /\ m + i - 1 \in DOMAIN s
  <2>1. \A i \in 1 .. n - m + 1 : m + i - 1 \in 1 .. Len(s)
    BY <1>2
  <2> QED
    BY <1>1, <1>2, <2>1
<1>4. Nos(f, t) \subseteq Nos(f, s)
  BY <1>3 DEF Nos
<1>5. ASSUME Ordered(f, s), NEW i \in DOMAIN t, NEW j \in DOMAIN t, i < j,
             f[t[i]] # 0, f[t[j]] # 0
      PROVE  f[t[i]] < f[t[j]]
  <2>1. m + i - 1 < m + j - 1
    BY <1>2, <1>5
  <2> QED
    BY <1>3, <1>5, <2>1 DEF Ordered
<1>6. Ordered(f, s) => Ordered(f, t)
  BY <1>5 DEF Ordered
<1> QED
  BY <1>4, <1>6 DEF t

\* Where an ordered sequence is cut, the first part is below the second.
LEMMA CutOrdered ==
  ASSUME NEW S, NEW f \in [S -> Nat], NEW s \in Seq(S), Ordered(f, s), NEW n \in 0 .. Len(s)
  PROVE  Below(Nos(f, SubSeq(s, 1, n)), Nos(f, SubSeq(s, n + 1, Len(s))))
<1> DEFINE t == SubSeq(s, 1, n)
           u == SubSeq(s, n + 1, Len(s))
<1>1. /\ t \in Seq(S) /\ Len(t) = n /\ \A i \in 1 .. n : t[i] = s[i]
  BY SubSeqProperties
<1>2. /\ u \in Seq(S) /\ Len(u) = Len(s) - n
      /\ \A i \in 1 .. Len(s) - n : u[i] = s[n + i]
  BY SubSeqProperties
<1> HIDE DEF t, u
<1>3. /\ DOMAIN t = 1 .. n /\ DOMAIN u = 1 .. Len(s) - n /\ DOMAIN s = 1 .. Len(s)
      /\ Len(s) \in Nat /\ n \in Int
  BY <1>1, <1>2, LenProperties
<1>4. ASSUME NEW i \in DOMAIN t, NEW j \in DOMAIN u, f[t[i]] # 0, f[u[j]] # 0
      PROVE  f[t[i]] < f[u[j]]
  <2>1. t[i] = s[i] /\ u[j] = s[n + j] /\ i \in DOMAIN s /\ n + j \in DOMAIN s /\ i < n + j
    <3>1. n + j \in 1 .. Len(s) /\ i < n + j /\ i \in 1 .. Len(s)
      BY <1>3
    <3> QED
      BY <1>1, <1>2, <1>3, <3>1
  <2> QED
    BY <1>4, <2>1 DEF Ordered
<1> QED
  BY <1>4 DEF Below, Nos, t, u

\* The first element and the rest.
LEMMA HeadOrdered ==
  ASSUME NEW S, NEW f \in [S -> Nat], NEW s \in Seq(S), s # <<>>
  PROVE  /\ Nos(f, Tail(s)) \subseteq Nos(f, s)
         /\ {f[Head(s)]} \ {0} \subseteq Nos(f, s)
         /\ Ordered(f, s) => /\ Ordered(f, Tail(s))
                             /\ Below({f[Head(s)]} \ {0}, Nos(f, Tail(s)))
<1>1. Len(s) \in Nat \ {0}
  BY EmptySeq, LenProperties
<1>2. Tail(s) = SubSeq(s, 2, Len(s)) /\ Head(s) = s[1]
  BY <1>1, TailIsSubSeq
<1>3. DOMAIN s = 1 .. Len(s) /\ DOMAIN SubSeq(s, 1, 1) = {1} /\ SubSeq(s, 1, 1)[1] = s[1]
  <2>1. Len(SubSeq(s, 1, 1)) = 1 /\ SubSeq(s, 1, 1) \in Seq(S) /\ SubSeq(s, 1, 1)[1] = s[1]
    BY <1>1, SubSeqProperties
  <2> QED
    BY <2>1, LenProperties
<1>4. Nos(f, SubSeq(s, 1, 1)) = {f[Head(s)]} \ {0}
  BY <1>2, <1>3 DEF Nos
<1>5. {f[Head(s)]} \ {0} \subseteq Nos(f, s)
  BY <1>1, <1>2, <1>3 DEF Nos
<1>6. Nos(f, Tail(s)) \subseteq Nos(f, s) /\ (Ordered(f, s) => Ordered(f, Tail(s)))
  <2>1. 2 \in 1 .. Len(s) + 1 /\ Len(s) \in 2 - 1 .. Len(s)
    BY <1>1
  <2>2. /\ Nos(f, SubSeq(s, 2, Len(s))) \subseteq Nos(f, s)
        /\ Ordered(f, s) => Ordered(f, SubSeq(s, 2, Len(s)))
    BY <2>1, PartOrdered
  <2> QED
    BY <1>2, <2>2
<1>7. Ordered(f, s) => Below({f[Head(s)]} \ {0}, Nos(f, Tail(s)))
  <2> SUFFICES ASSUME Ordered(f, s)
               PROVE  Below({f[Head(s)]} \ {0}, Nos(f, Tail(s)))
    OBVIOUS
  <2>1. 1 \in 0 .. Len(s) /\ 1 + 1 = 2
    BY <1>1
  <2>2. Below(Nos(f, SubSeq(s, 1, 1)), Nos(f, SubSeq(s, 1 + 1, Len(s))))
    BY <2>1, CutOrdered
  <2> QED
    BY <1>2, <1>4, <2>1, <2>2
<1> QED
  BY <1>5, <1>6, <1>7

\* An element at the end whose number is above all others, or none, keeps the order.
LEMMA AppendOrdered ==
  ASSUME NEW S, NEW f \in [S -> Nat], NEW s \in Seq(S), NEW e \in S
  PROVE  /\ Nos(f, Append(s, e)) \subseteq Nos(f, s) \union ({f[e]} \ {0})
         /\ Ordered(f, s) /\ Below(Nos(f, s), {f[e]} \ {0}) => Ordered(f, Append(s, e))
<1> DEFINE t == Append(s, e)
<1>1. t \in Seq(S) /\ Len(t) = Len(s) + 1 /\ t[Len(s) + 1] = e
      /\ \A i \in 1 .. Len(s) : t[i] = s[i]
  BY AppendProperties
<1> HIDE DEF t
<1>2. DOMAIN t = 1 .. Len(s) + 1 /\ DOMAIN s = 1 .. Len(s) /\ Len(s) \in Nat
  BY <1>1, LenProperties
<1>3. \A i \in DOMAIN t : (i \in DOMAIN s /\ t[i] = s[i]) \/ (i = Len(s) + 1 /\ t[i] = e)
  BY <1>1, <1>2
<1>4. Nos(f, t) \subseteq Nos(f, s) \union ({f[e]} \ {0})
  BY <1>3 DEF Nos
<1>5. ASSUME Ordered(f, s), Below(Nos(f, s), {f[e]} \ {0}),
             NEW i \in DOMAIN t, NEW j \in DOMAIN t, i < j, f[t[i]] # 0, f[t[j]] # 0
      PROVE  f[t[i]] < f[t[j]]
  <2>1. i \in DOMAIN s /\ t[i] = s[i]
    BY <1>2, <1>3, <1>5
  <2>2. CASE j \in DOMAIN s /\ t[j] = s[j]
    BY <1>5, <2>1, <2>2 DEF Ordered
  <2>3. CASE t[j] = e
    <3>1. f[t[i]] \in Nos(f, s) /\ f[t[j]] \in {f[e]} \ {0}
      BY <1>5, <2>1, <2>3 DEF Nos
    <3> QED
      BY <1>5, <3>1 DEF Below
  <2> QED
    BY <1>3, <2>2, <2>3
<1>6. Ordered(f, s) /\ Below(Nos(f, s), {f[e]} \ {0}) => Ordered(f, t)
  BY <1>5 DEF Ordered
<1> QED
  BY <1>4, <1>6 DEF t

\* The same of a message sent to a queue, which may not take it.
LEMMA SendOrdered ==
  ASSUME NEW S, NEW f \in [S -> Nat], NEW q \in Seq(S), NEW m \in S
  PROVE  /\ Nos(f, MsgQueueSend(q, m)) \subseteq Nos(f, q) \union ({f[m]} \ {0})
         /\ Ordered(f, q) /\ Below(Nos(f, q), {f[m]} \ {0}) => Ordered(f, MsgQueueSend(q, m))
  BY AppendOrdered DEF MsgQueueSend

\* What a queue holds after a message was taken.
LEMMA WithoutElements ==
  ASSUME NEW S, NEW q \in Seq(S), NEW i \in 1 .. Len(q)
  PROVE  /\ DOMAIN MsgQueueWithout(q, i) = 1 .. Len(q) - 1
         /\ \A k \in 1 .. Len(q) - 1 : MsgQueueWithout(q, i)[k] = IF k < i THEN q[k] ELSE q[k + 1]
<1> DEFINE before == SubSeq(q, 1, i - 1)
           after == SubSeq(q, i + 1, Len(q))
           t == before \o after
<1>0. Len(q) \in Nat /\ i \in Int
  BY LenProperties
<1>1. /\ before \in Seq(S) /\ Len(before) = i - 1
      /\ \A k \in 1 .. i - 1 : before[k] = q[1 + k - 1]
  BY SubSeqProperties
<1>2. /\ after \in Seq(S) /\ Len(after) = Len(q) - i
      /\ \A k \in 1 .. Len(q) - (i + 1) + 1 : after[k] = q[i + 1 + k - 1]
  BY SubSeqProperties
<1> HIDE DEF before, after
<1>3. /\ Len(t) = Len(before) + Len(after) /\ t \in Seq(S)
      /\ \A k \in 1 .. Len(before) + Len(after) :
           t[k] = IF k <= Len(before) THEN before[k] ELSE after[k - Len(before)]
  BY <1>1, <1>2, ConcatProperties
<1> HIDE DEF t
<1>4. DOMAIN t = 1 .. Len(q) - 1
  BY <1>0, <1>1, <1>2, <1>3, LenProperties
<1>5. ASSUME NEW k \in 1 .. Len(q) - 1
      PROVE  t[k] = IF k < i THEN q[k] ELSE q[k + 1]
  <2>1. t[k] = IF k <= i - 1 THEN before[k] ELSE after[k - (i - 1)]
    BY <1>0, <1>1, <1>2, <1>3
  <2>2. CASE k < i
    <3>1. k \in 1 .. i - 1 /\ k <= i - 1 /\ 1 + k - 1 = k
      BY <1>0, <2>2
    <3> QED
      BY <1>1, <2>1, <2>2, <3>1
  <2>3. CASE ~(k < i)
    <3> DEFINE d == k - (i - 1)
    <3>1. d \in 1 .. Len(q) - (i + 1) + 1 /\ ~(k <= i - 1) /\ i + 1 + d - 1 = k + 1
      BY <1>0, <2>3
    <3> HIDE DEF d
    <3>2. after[d] = q[k + 1]
      BY <1>2, <3>1
    <3> QED
      BY <2>1, <2>3, <3>1, <3>2 DEF d
  <2> QED
    BY <2>2, <2>3
<1> QED
  BY <1>4, <1>5 DEF t, MsgQueueWithout, before, after

\* A message taken from anywhere leaves the others in order.
LEMMA WithoutOrdered ==
  ASSUME NEW S, NEW f \in [S -> Nat], NEW q \in Seq(S), NEW i \in 1 .. Len(q)
  PROVE  /\ Nos(f, MsgQueueWithout(q, i)) \subseteq Nos(f, q)
         /\ Ordered(f, q) => Ordered(f, MsgQueueWithout(q, i))
<1> DEFINE t == MsgQueueWithout(q, i)
           was(k) == IF k < i THEN k ELSE k + 1
<1>1. /\ DOMAIN t = 1 .. Len(q) - 1 /\ DOMAIN q = 1 .. Len(q) /\ Len(q) \in Nat /\ i \in Int
      /\ \A k \in 1 .. Len(q) - 1 : t[k] = q[was(k)]
  BY WithoutElements, LenProperties
<1> HIDE DEF t
<1>2. \A k \in 1 .. Len(q) - 1 : was(k) \in 1 .. Len(q)
  BY <1>1
<1>3. \A j, k \in 1 .. Len(q) - 1 : j < k => was(j) < was(k)
  BY <1>1
<1> HIDE DEF was
<1>4. Nos(f, t) \subseteq Nos(f, q)
  BY <1>1, <1>2 DEF Nos
<1>5. ASSUME Ordered(f, q), NEW j \in 1 .. Len(q) - 1, NEW k \in 1 .. Len(q) - 1, j < k,
             f[t[j]] # 0, f[t[k]] # 0
      PROVE  f[t[j]] < f[t[k]]
  <2>1. t[j] = q[was(j)] /\ t[k] = q[was(k)] /\ was(j) < was(k)
    BY <1>1, <1>3, <1>5
  <2>2. was(j) \in DOMAIN q /\ was(k) \in DOMAIN q
    BY <1>1, <1>2
  <2> QED
    BY <1>5, <2>1, <2>2 DEF Ordered
<1>6. Ordered(f, q) => Ordered(f, t)
  BY <1>1, <1>5 DEF Ordered
<1> QED
  BY <1>4, <1>6 DEF t

\* The oldest message that has a number is below the others.
LEMMA OldestIsBelow ==
  ASSUME NEW S, NEW f \in [S -> Nat], NEW q \in Seq(S), NEW i \in 1 .. Len(q), Ordered(f, q),
         \A j \in 1 .. i - 1 : f[q[j]] = 0
  PROVE  Below({f[q[i]]} \ {0}, Nos(f, MsgQueueWithout(q, i)))
<1> DEFINE t == MsgQueueWithout(q, i)
<1>1. /\ DOMAIN t = 1 .. Len(q) - 1 /\ DOMAIN q = 1 .. Len(q) /\ Len(q) \in Nat /\ i \in Int
      /\ \A k \in 1 .. Len(q) - 1 : t[k] = IF k < i THEN q[k] ELSE q[k + 1]
  <2>1. DOMAIN q = 1 .. Len(q) /\ Len(q) \in Nat /\ i \in Int
    BY LenProperties
  <2> QED
    BY <2>1, WithoutElements, Zenon
<1> HIDE DEF t
<1>2. ASSUME NEW k \in DOMAIN t, f[t[k]] # 0, f[q[i]] # 0
      PROVE  f[q[i]] < f[t[k]]
  <2>1. ~(k < i)
    <3> SUFFICES ASSUME k < i
                 PROVE  FALSE
      OBVIOUS
    <3>1. k \in 1 .. i - 1 /\ t[k] = q[k]
      BY <1>1, <1>2
    <3> QED
      BY <1>2, <3>1
  <2>2. t[k] = q[k + 1] /\ k + 1 \in 1 .. Len(q) /\ i < k + 1
    BY <1>1, <1>2, <2>1
  <2> QED
    BY <1>1, <1>2, <2>2 DEF Ordered
<1> QED
  BY <1>2 DEF Nos, Below, t

\* The numbers in a sequence of numbers.
NosIn(n) == {n[i] : i \in DOMAIN n} \ {0}

\* Two sequences of numbers in order, the first below the second, make one in order.
LEMMA JoinInOrder ==
  ASSUME NEW n \in Seq(Nat), NEW m \in Seq(Nat), InOrder(n), InOrder(m),
         Below(NosIn(n), NosIn(m))
  PROVE  /\ n \o m \in Seq(Nat) /\ InOrder(n \o m)
         /\ NosIn(n \o m) \subseteq NosIn(n) \union NosIn(m)
<1> DEFINE t == n \o m
<1>1. /\ Len(t) = Len(n) + Len(m) /\ t \in Seq(Nat)
      /\ \A k \in 1 .. Len(n) + Len(m) : t[k] = IF k <= Len(n) THEN n[k] ELSE m[k - Len(n)]
  BY ConcatProperties
<1> HIDE DEF t
<1>2. /\ DOMAIN t = 1 .. Len(n) + Len(m) /\ DOMAIN n = 1 .. Len(n) /\ DOMAIN m = 1 .. Len(m)
      /\ Len(n) \in Nat /\ Len(m) \in Nat
  BY <1>1, LenProperties
<1>3. ASSUME NEW k \in DOMAIN t
      PROVE  \/ k <= Len(n) /\ k \in DOMAIN n /\ t[k] = n[k]
             \/ ~(k <= Len(n)) /\ k - Len(n) \in DOMAIN m /\ t[k] = m[k - Len(n)]
  <2>1. k <= Len(n) => k \in 1 .. Len(n)
    BY <1>2
  <2>2. ~(k <= Len(n)) => k - Len(n) \in 1 .. Len(m)
    BY <1>2
  <2> QED
    BY <1>1, <1>2, <2>1, <2>2
<1>4. ASSUME NEW i \in DOMAIN t, NEW j \in DOMAIN t, i < j, t[i] # 0, t[j] # 0
      PROVE  t[i] < t[j]
  <2>1. CASE j <= Len(n)
    <3>1. i <= Len(n)
      BY <1>2, <1>4, <2>1
    <3> QED
      BY <1>3, <1>4, <2>1, <3>1 DEF InOrder
  <2>2. CASE i <= Len(n) /\ ~(j <= Len(n))
    <3>1. i \in DOMAIN n /\ t[i] = n[i] /\ j - Len(n) \in DOMAIN m /\ t[j] = m[j - Len(n)]
      BY <1>3, <2>2
    <3>2. t[i] \in NosIn(n) /\ t[j] \in NosIn(m)
      BY <1>4, <3>1 DEF NosIn
    <3> QED
      BY <3>2 DEF Below
  <2>3. CASE ~(i <= Len(n))
    <3>1. ~(j <= Len(n)) /\ i - Len(n) < j - Len(n)
      BY <1>2, <1>4, <2>3
    <3>2. /\ i - Len(n) \in DOMAIN m /\ t[i] = m[i - Len(n)]
          /\ j - Len(n) \in DOMAIN m /\ t[j] = m[j - Len(n)]
      BY <1>3, <2>3, <3>1
    <3> QED
      BY <1>4, <3>1, <3>2 DEF InOrder
  <2> QED
    BY <2>1, <2>2, <2>3
<1>5. NosIn(t) \subseteq NosIn(n) \union NosIn(m)
  BY <1>3 DEF NosIn
<1> QED
  BY <1>1, <1>4, <1>5 DEF InOrder, t

\* The numbers of a sequence, as a sequence.
LEMMA NumbersInOrder ==
  ASSUME NEW S, NEW f \in [S -> Nat], NEW s \in Seq(S)
  PROVE  /\ Numbers(f, s) \in Seq(Nat)
         /\ NosIn(Numbers(f, s)) = Nos(f, s)
         /\ Ordered(f, s) => InOrder(Numbers(f, s))
<1>1. DOMAIN s = 1 .. Len(s) /\ Len(s) \in Nat /\ s \in [1 .. Len(s) -> S]
  BY LenProperties
<1>2. Numbers(f, s) \in [1 .. Len(s) -> Nat]
  BY <1>1 DEF Numbers
<1>3. Numbers(f, s) \in Seq(Nat)
  BY <1>1, <1>2
<1> QED
  BY <1>1, <1>2, <1>3 DEF Numbers, Nos, NosIn, Ordered, InOrder

-----------------------------------------------------------------------------
\* The numbers of the commands queued, of the packets in the chunk, of those on the
\* wire, of those without a response, of the responses queued and of the one being sent.
CommandNos == Nos(CommandNo, m_TcpRecvMsgQ)
ChunkNos == Nos(RequestNo, rcv.chunk)
WireNos == Nos(RequestNo, wire)
UnansweredNos == Nos(RequestNo, Unanswered)
AnswerNos == Nos(SuccessNo, m_TcpSndMsgQ)
LeavingNos == {SuccessNo[snd.msg]} \ {0}

\* What is nearer to the device, or to the server, has the lower number, and no
\* number is above the one the server gave last.
NosInOrder ==
  /\ Below(CommandNos, ChunkNos) /\ Below(CommandNos, WireNos) /\ Below(ChunkNos, WireNos)
  /\ Below(LeavingNos, AnswerNos) /\ Below(LeavingNos, UnansweredNos)
  /\ Below(LeavingNos, WireNos)
  /\ Below(AnswerNos, UnansweredNos) /\ Below(AnswerNos, WireNos)
  /\ UnansweredNos \subseteq ChunkNos
  /\ \A n \in CommandNos \union ChunkNos \union WireNos \union AnswerNos \union LeavingNos :
       n <= request

\* Within each of them the numbers increase.
PartsOrdered ==
  /\ Ordered(CommandNo, m_TcpRecvMsgQ) /\ Ordered(SuccessNo, m_TcpSndMsgQ)
  /\ Ordered(RequestNo, rcv.chunk) /\ Ordered(RequestNo, wire)

\* The receive thread reads only when its chunk is used up, and delivers only requests.
ChunkInv ==
  /\ rcv.pc \in {"check", "read", "clear"} => rcv.chunk = <<>>
  /\ rcv.pc = "deliver" => Head(rcv.chunk).kind = "request"

OrderInv == NosInOrder /\ PartsOrdered /\ ChunkInv

\* The numbers on their way to the device.
Ahead == CommandNos \union ChunkNos \union WireNos

\* A step brings no number on its way that was not there, but one above the last given.
OnlyNewNos ==
  /\ request' = request \/ request' = request + 1
  /\ \A n \in Ahead' : n \in Ahead \/ (n \in Nat /\ request < n)

\* What has a number has a natural number.
LEMMA NumbersAreNat ==
  /\ RequestNo \in [Packet -> Nat] /\ CommandNo \in [RecvMsg -> Nat]
  /\ SuccessNo \in [SendMsg \union {NoMsg} -> Nat]
<1>1. RequestNo \in [Packet -> Nat]
  BY DEF RequestNo, Packet
<1>2. CommandNo \in [RecvMsg -> Nat]
  BY DEF CommandNo, RecvMsg, HeartbeatResponse, DevData
<1>3. ASSUME NEW m \in SendMsg \union {NoMsg}, m.m_MsgTag = "response"
      PROVE  m.session \in Nat
  BY <1>3, ClientMsgTagAssumption DEF SendMsg, NoMsg, Response
<1>4. SuccessNo \in [SendMsg \union {NoMsg} -> Nat]
  BY <1>3 DEF SuccessNo
<1> QED
  BY <1>1, <1>2, <1>4

\* So the places have natural numbers.
LEMMA NosAreNat ==
  ASSUME TcpTypeOK
  PROVE  /\ CommandNos \subseteq Nat /\ AnswerNos \subseteq Nat /\ ChunkNos \subseteq Nat
         /\ WireNos \subseteq Nat /\ LeavingNos \subseteq Nat
<1>1. /\ m_TcpRecvMsgQ \in Seq(RecvMsg) /\ m_TcpSndMsgQ \in Seq(SendMsg \union {NoMsg})
      /\ rcv.chunk \in Seq(Packet) /\ wire \in Seq(Packet)
      /\ snd.msg \in SendMsg \union {NoMsg}
  BY TypeParts DEF QueuesType, RcvType, SndType, ServerType
<1>2. /\ CommandNos \subseteq Nat /\ AnswerNos \subseteq Nat /\ ChunkNos \subseteq Nat
      /\ WireNos \subseteq Nat
  BY <1>1, NumbersAreNat, NaturalNos DEF CommandNos, AnswerNos, ChunkNos, WireNos
<1>3. LeavingNos \subseteq Nat
  BY <1>1, NumbersAreNat DEF LeavingNos
<1> QED
  BY <1>2, <1>3

\* What has none.
LEMMA WithoutNumber ==
  /\ SuccessNo[NoMsg] = 0 /\ CommandNo[HeartbeatResponse] = 0
  /\ \A m \in ClientMsg : SuccessNo[m] = 0
  /\ \A n \in 0 .. MaxRequest : SuccessNo[Response(n, "ERR")] = 0
<1>1. SuccessNo[NoMsg] = 0
  BY DEF SuccessNo, NoMsg
<1>2. CommandNo[HeartbeatResponse] = 0
  BY DEF CommandNo, RecvMsg, HeartbeatResponse
<1>3. \A m \in ClientMsg : SuccessNo[m] = 0
  BY ClientMsgTagAssumption DEF SuccessNo, SendMsg
<1>4. ASSUME NEW n \in 0 .. MaxRequest
      PROVE  SuccessNo[Response(n, "ERR")] = 0
  <2>1. Response(n, "ERR") \in SendMsg
    BY DEF SendMsg
  <2> QED
    BY <2>1 DEF SuccessNo, Response
<1> QED
  BY <1>1, <1>2, <1>3, <1>4

\* The command and the response that a request leads to have its number.
LEMMA SameNumber ==
  ASSUME NEW p \in Packet
  PROVE  /\ SuccessNo[Response(p.session, "SUCCESS")] = p.session
         /\ CommandNo[DevData(p.session)] = p.session
         /\ RequestNo[p] = IF p.kind = "request" THEN p.session ELSE 0
<1>1. p.session \in 0 .. MaxRequest
  BY DEF Packet
<1>2. Response(p.session, "SUCCESS") \in SendMsg /\ DevData(p.session) \in RecvMsg
  BY <1>1 DEF SendMsg, RecvMsg
<1>3. RequestNo[p] = IF p.kind = "request" THEN p.session ELSE 0
  BY DEF RequestNo
<1>4. CommandNo[DevData(p.session)] = p.session
  BY <1>2 DEF CommandNo, DevData
<1>5. SuccessNo[Response(p.session, "SUCCESS")] = p.session
  BY <1>2 DEF SuccessNo, Response
<1> QED
  BY <1>3, <1>4, <1>5

\* An empty sequence has no numbers.
LEMMA EmptyOrdered ==
  ASSUME NEW f
  PROVE  Nos(f, <<>>) = {} /\ Ordered(f, <<>>)
  BY DEF Nos, Ordered

\* A step after which no place has a number it did not have keeps the numbers in order.
LEMMA FewerNos ==
  ASSUME NosInOrder, request' = request,
         CommandNos' \subseteq CommandNos, ChunkNos' \subseteq ChunkNos,
         WireNos' \subseteq WireNos, UnansweredNos' \subseteq UnansweredNos,
         UnansweredNos' \subseteq ChunkNos',
         AnswerNos' \subseteq AnswerNos, LeavingNos' \subseteq LeavingNos
  PROVE  NosInOrder'
<1> USE DEF NosInOrder, Below
<1>1. Below(CommandNos, ChunkNos)' /\ Below(CommandNos, WireNos)' /\ Below(ChunkNos, WireNos)'
  OBVIOUS
<1>2. Below(LeavingNos, AnswerNos)' /\ Below(LeavingNos, UnansweredNos)'
  OBVIOUS
<1>3. Below(LeavingNos, WireNos)' /\ Below(AnswerNos, UnansweredNos)' /\ Below(AnswerNos, WireNos)'
  OBVIOUS
<1> QED
  BY <1>1, <1>2, <1>3

\* A step that only drops some of the places' contents keeps the order.
LEMMA DroppingKeepsOrder ==
  ASSUME OrderInv, request' = request,
         m_TcpRecvMsgQ' = m_TcpRecvMsgQ \/ m_TcpRecvMsgQ' = <<>>,
         m_TcpSndMsgQ' = m_TcpSndMsgQ \/ m_TcpSndMsgQ' = <<>>,
         wire' = wire \/ wire' = <<>>,
         snd'.msg = snd.msg \/ snd'.msg = NoMsg,
         rcv' = rcv \/ (rcv'.chunk = <<>> /\ rcv'.pc # "deliver")
  PROVE  OrderInv' /\ OnlyNewNos
<1> USE DEF OrderInv
<1>1. CommandNos' \subseteq CommandNos /\ Ordered(CommandNo, m_TcpRecvMsgQ)'
  BY EmptyOrdered DEF CommandNos, PartsOrdered
<1>2. AnswerNos' \subseteq AnswerNos /\ Ordered(SuccessNo, m_TcpSndMsgQ)'
  BY EmptyOrdered DEF AnswerNos, PartsOrdered
<1>3. WireNos' \subseteq WireNos /\ Ordered(RequestNo, wire)'
  BY EmptyOrdered DEF WireNos, PartsOrdered
<1>4. LeavingNos' \subseteq LeavingNos
  BY WithoutNumber DEF LeavingNos
<1>5. /\ ChunkNos' \subseteq ChunkNos /\ Ordered(RequestNo, rcv.chunk)' /\ ChunkInv'
      /\ UnansweredNos' \subseteq UnansweredNos /\ UnansweredNos' \subseteq ChunkNos'
  <2>1. CASE rcv' = rcv
    BY <2>1 DEF ChunkNos, PartsOrdered, ChunkInv, UnansweredNos, Unanswered, NosInOrder
  <2>2. CASE rcv'.chunk = <<>> /\ rcv'.pc # "deliver"
    BY <2>2, EmptyOrdered DEF ChunkNos, PartsOrdered, ChunkInv, UnansweredNos, Unanswered
  <2> QED
    BY <2>1, <2>2
<1>6. NosInOrder'
  BY <1>1, <1>2, <1>3, <1>4, <1>5, FewerNos
<1>7. OnlyNewNos
  BY <1>1, <1>3, <1>5 DEF OnlyNewNos, Ahead
<1> QED
  BY <1>1, <1>2, <1>3, <1>5, <1>6, <1>7 DEF PartsOrdered

\* Losing the end of what is on the wire keeps the order of the rest.
LEMMA ClosingKeepsOrder ==
  ASSUME TcpTypeOK, OrderInv, PeerCloses
  PROVE  OrderInv' /\ OnlyNewNos
<1>0. wire \in Seq(Packet) /\ Len(wire) \in Nat
  BY TypeParts, LenProperties DEF ServerType
<1>1. PICK n \in 0 .. Len(wire) : wire' = SubSeq(wire, 1, n)
  BY DEF PeerCloses
<1>2. UNCHANGED <<m_TcpRecvMsgQ, m_TcpSndMsgQ, rcv, snd, request>>
  BY DEF PeerCloses, queues
<1>3. NosInOrder /\ PartsOrdered /\ ChunkInv
  BY DEF OrderInv
<1>4. WireNos' \subseteq WireNos /\ Ordered(RequestNo, wire)'
  <2>1. 1 \in 1 .. Len(wire) + 1 /\ n \in 1 - 1 .. Len(wire)
    BY <1>0
  <2> QED
    BY <1>0, <1>1, <1>3, <2>1, NumbersAreNat, PartOrdered DEF WireNos, PartsOrdered
<1>5. /\ CommandNos' = CommandNos /\ AnswerNos' = AnswerNos /\ ChunkNos' = ChunkNos
      /\ UnansweredNos' = UnansweredNos /\ LeavingNos' = LeavingNos
  BY <1>2 DEF CommandNos, AnswerNos, ChunkNos, UnansweredNos, Unanswered, LeavingNos
<1>6. NosInOrder'
  BY <1>2, <1>3, <1>4, <1>5, FewerNos DEF NosInOrder
<1>7. PartsOrdered' /\ ChunkInv'
  BY <1>2, <1>3, <1>4 DEF PartsOrdered, ChunkInv
<1>8. OnlyNewNos
  BY <1>2, <1>4, <1>5 DEF OnlyNewNos, Ahead
<1> QED
  BY <1>6, <1>7, <1>8 DEF OrderInv

-----------------------------------------------------------------------------
\* read() takes the first part of what is on the wire.
LEMMA ReadKeepsOrder ==
  ASSUME TcpTypeOK, OrderInv, RcvRead
  PROVE  OrderInv' /\ OnlyNewNos
<1>0. wire \in Seq(Packet) /\ Len(wire) \in Nat
  BY TypeParts, LenProperties DEF ServerType
<1>1. PICK n \in 1 .. Len(wire) :
        /\ rcv' = [pc |-> "respond", chunk |-> SubSeq(wire, 1, n)]
        /\ wire' = SubSeq(wire, n + 1, Len(wire))
  BY DEF RcvRead
<1>2. UNCHANGED <<m_TcpRecvMsgQ, m_TcpSndMsgQ, snd, request>>
  BY DEF RcvRead, queues
<1>3. NosInOrder /\ PartsOrdered
  BY DEF OrderInv
<1>4. /\ Nos(RequestNo, SubSeq(wire, 1, n)) \subseteq WireNos
      /\ Ordered(RequestNo, SubSeq(wire, 1, n))
  <2>1. 1 \in 1 .. Len(wire) + 1 /\ n \in 1 - 1 .. Len(wire)
    BY <1>0
  <2> QED
    BY <1>0, <1>3, <2>1, NumbersAreNat, PartOrdered DEF WireNos, PartsOrdered
<1>5. /\ Nos(RequestNo, SubSeq(wire, n + 1, Len(wire))) \subseteq WireNos
      /\ Ordered(RequestNo, SubSeq(wire, n + 1, Len(wire)))
  <2>1. n + 1 \in 1 .. Len(wire) + 1 /\ Len(wire) \in (n + 1) - 1 .. Len(wire)
    BY <1>0
  <2> QED
    BY <1>0, <1>3, <2>1, NumbersAreNat, PartOrdered DEF WireNos, PartsOrdered
<1>6. Below(Nos(RequestNo, SubSeq(wire, 1, n)), Nos(RequestNo, SubSeq(wire, n + 1, Len(wire))))
  <2>1. n \in 0 .. Len(wire)
    BY <1>0
  <2> QED
    BY <1>0, <1>3, <2>1, NumbersAreNat, CutOrdered DEF PartsOrdered
<1>7. /\ ChunkNos' \subseteq WireNos /\ WireNos' \subseteq WireNos /\ Below(ChunkNos, WireNos)'
      /\ UnansweredNos' = ChunkNos'
  BY <1>1, <1>4, <1>5, <1>6 DEF ChunkNos, WireNos, UnansweredNos, Unanswered
<1>8. CommandNos' = CommandNos /\ AnswerNos' = AnswerNos /\ LeavingNos' = LeavingNos
  BY <1>2 DEF CommandNos, AnswerNos, LeavingNos
<1>9. NosInOrder'
  <2> USE <1>2, <1>3, <1>7, <1>8 DEF NosInOrder, Below
  <2>1. Below(CommandNos, ChunkNos)' /\ Below(CommandNos, WireNos)'
    OBVIOUS
  <2>2. /\ Below(LeavingNos, AnswerNos)' /\ Below(LeavingNos, UnansweredNos)'
        /\ Below(LeavingNos, WireNos)'
    OBVIOUS
  <2>3. Below(AnswerNos, UnansweredNos)' /\ Below(AnswerNos, WireNos)'
    OBVIOUS
  <2> QED
    BY <2>1, <2>2, <2>3
<1>10. PartsOrdered'
  BY <1>1, <1>2, <1>3, <1>4, <1>5 DEF PartsOrdered
<1>11. ChunkInv'
  BY <1>1 DEF ChunkInv
<1>12. OnlyNewNos
  BY <1>2, <1>7, <1>8 DEF OnlyNewNos, Ahead
<1> QED
  BY <1>12, <1>9, <1>10, <1>11 DEF OrderInv

\* What the receive thread knows of the packet at hand.
LEMMA PacketAtHand ==
  ASSUME TcpTypeOK, OrderInv, ChunkInHand, rcv.pc \in {"respond", "deliver"}
  PROVE  /\ rcv.chunk \in Seq(Packet) /\ rcv.chunk # <<>> /\ Head(rcv.chunk) \in Packet
         /\ Head(rcv.chunk).session \in 0 .. MaxRequest
         /\ Nos(RequestNo, Tail(rcv.chunk)) \subseteq ChunkNos
         /\ {RequestNo[Head(rcv.chunk)]} \ {0} \subseteq ChunkNos
         /\ Ordered(RequestNo, Tail(rcv.chunk))
         /\ Below({RequestNo[Head(rcv.chunk)]} \ {0}, Nos(RequestNo, Tail(rcv.chunk)))
<1>1. rcv.chunk \in Seq(Packet) /\ rcv.chunk # <<>>
  BY TypeParts DEF RcvType, ChunkInHand
<1>2. Head(rcv.chunk) \in Packet /\ Head(rcv.chunk).session \in 0 .. MaxRequest
  BY <1>1, HeadHasSession
<1>3. Ordered(RequestNo, rcv.chunk)
  BY DEF OrderInv, PartsOrdered
<1>4. RequestNo \in [Packet -> Nat]
  BY NumbersAreNat
<1> QED
  BY <1>1, <1>2, <1>3, <1>4, HeadOrdered DEF ChunkNos

\* The packet at hand is dealt with: it is gone from the chunk, and from what has no response.
LEMMA NextPacketNos ==
  ASSUME TcpTypeOK, OrderInv, ChunkInHand, rcv.pc \in {"respond", "deliver"}, NextPacket
  PROVE  /\ rcv'.chunk = Tail(rcv.chunk) /\ ChunkInv' /\ Ordered(RequestNo, rcv.chunk)'
         /\ ChunkNos' \subseteq ChunkNos /\ ChunkNos' = Nos(RequestNo, Tail(rcv.chunk))
         /\ UnansweredNos' = ChunkNos' /\ UnansweredNos' \subseteq UnansweredNos
<1>1. /\ rcv'.chunk = Tail(rcv.chunk) /\ rcv'.pc \in {"check", "respond"}
      /\ rcv'.pc = "check" => Len(rcv.chunk) = 1
  BY DEF NextPacket
<1>2. Len(rcv.chunk) = 1 => Tail(rcv.chunk) = <<>>
  <2>1. rcv.chunk \in Seq(Packet) /\ rcv.chunk # <<>>
    BY PacketAtHand
  <2>2. Len(Tail(rcv.chunk)) = Len(rcv.chunk) - 1 /\ Tail(rcv.chunk) \in Seq(Packet)
    BY <2>1, HeadTailProperties
  <2>3. Len(rcv.chunk) = 1 => Len(Tail(rcv.chunk)) = 0
    BY <2>2
  <2> QED
    BY <2>2, <2>3, EmptySeq
<1>3. ChunkInv'
  BY <1>1, <1>2 DEF ChunkInv
<1>4. /\ Ordered(RequestNo, rcv.chunk)' /\ ChunkNos' = Nos(RequestNo, Tail(rcv.chunk))
      /\ ChunkNos' \subseteq ChunkNos
  BY <1>1, PacketAtHand DEF ChunkNos
<1>5. UnansweredNos' = ChunkNos'
  BY <1>1 DEF UnansweredNos, Unanswered, ChunkNos
<1>6. UnansweredNos' \subseteq UnansweredNos
  <2>1. CASE rcv.pc = "deliver"
    BY <1>4, <1>5, <2>1 DEF UnansweredNos, Unanswered
  <2>2. CASE rcv.pc = "respond"
    BY <1>4, <1>5, <2>2 DEF UnansweredNos, Unanswered, ChunkNos
  <2> QED
    BY <2>1, <2>2
<1> QED
  BY <1>1, <1>3, <1>4, <1>5, <1>6

\* An error response has no number.
LEMMA RefuseKeepsOrder ==
  ASSUME TcpTypeOK, ChunkInHand, OrderInv, RcvRefuse
  PROVE  OrderInv' /\ OnlyNewNos
<1>1. /\ rcv.pc = "respond" /\ NextPacket /\ UNCHANGED <<snd, m_TcpRecvMsgQ, wire, request>>
      /\ m_TcpSndMsgQ' = MsgQueueSend(m_TcpSndMsgQ, Response(Head(rcv.chunk).session, "ERR"))
  BY DEF RcvRefuse, Respond, server
<1>2. NosInOrder /\ PartsOrdered
  BY DEF OrderInv
<1> DEFINE m == Response(Head(rcv.chunk).session, "ERR")
<1>3. m \in SendMsg /\ SuccessNo[m] = 0
  <2>1. Head(rcv.chunk).session \in 0 .. MaxRequest
    BY <1>1, PacketAtHand
  <2> QED
    BY <2>1, WithoutNumber DEF SendMsg
<1> HIDE DEF m
<1>4. AnswerNos' \subseteq AnswerNos /\ Ordered(SuccessNo, m_TcpSndMsgQ)'
  <2>1. m_TcpSndMsgQ \in Seq(SendMsg \union {NoMsg}) /\ m \in SendMsg \union {NoMsg}
    BY <1>3, TypeParts DEF QueuesType
  <2>2. Below(AnswerNos, {SuccessNo[m]} \ {0}) /\ {SuccessNo[m]} \ {0} = {}
    BY <1>3 DEF Below
  <2>3. m_TcpSndMsgQ' = MsgQueueSend(m_TcpSndMsgQ, m)
    BY <1>1 DEF m
  <2> QED
    BY <1>2, <2>1, <2>2, <2>3, NumbersAreNat, SendOrdered DEF AnswerNos, PartsOrdered
<1>5. /\ ChunkInv' /\ Ordered(RequestNo, rcv.chunk)' /\ ChunkNos' \subseteq ChunkNos
      /\ UnansweredNos' = ChunkNos' /\ UnansweredNos' \subseteq UnansweredNos
  BY <1>1, NextPacketNos
<1>6. CommandNos' = CommandNos /\ WireNos' = WireNos /\ LeavingNos' = LeavingNos
  BY <1>1 DEF CommandNos, WireNos, LeavingNos
<1>7. NosInOrder'
  BY <1>1, <1>2, <1>4, <1>5, <1>6, FewerNos
<1>8. PartsOrdered'
  BY <1>1, <1>2, <1>4, <1>5 DEF PartsOrdered
<1>9. OnlyNewNos
  BY <1>1, <1>5, <1>6 DEF OnlyNewNos, Ahead
<1> QED
  BY <1>9, <1>5, <1>7, <1>8 DEF OrderInv

\* The response takes the place of the request among what has no response.
LEMMA RespondKeepsOrder ==
  ASSUME TcpTypeOK, ChunkInHand, OrderInv, RcvRespond
  PROVE  OrderInv' /\ OnlyNewNos
<1>1. /\ rcv.pc = "respond" /\ Head(rcv.chunk).kind = "request"
      /\ rcv' = [rcv EXCEPT !.pc = "deliver"]
      /\ UNCHANGED <<snd, m_TcpRecvMsgQ, wire, request>>
      /\ m_TcpSndMsgQ' = MsgQueueSend(m_TcpSndMsgQ, Response(Head(rcv.chunk).session, "SUCCESS"))
  BY DEF RcvRespond, Respond, server
<1>2. NosInOrder /\ PartsOrdered /\ ChunkInv
  BY DEF OrderInv
<1> DEFINE m == Response(Head(rcv.chunk).session, "SUCCESS")
           own == {RequestNo[Head(rcv.chunk)]} \ {0}
<1>3. m \in SendMsg /\ {SuccessNo[m]} \ {0} = own
  <2>1. Head(rcv.chunk) \in Packet /\ Head(rcv.chunk).session \in 0 .. MaxRequest
    BY <1>1, PacketAtHand
  <2> QED
    BY <1>1, <2>1, SameNumber DEF SendMsg
<1>4. m_TcpSndMsgQ' = MsgQueueSend(m_TcpSndMsgQ, m)
  BY <1>1
<1>5. rcv'.chunk = rcv.chunk /\ rcv'.pc = "deliver"
  BY <1>1, TypeParts DEF RcvType
<1>6. /\ UnansweredNos = ChunkNos /\ ChunkNos' = ChunkNos
      /\ UnansweredNos' = Nos(RequestNo, Tail(rcv.chunk))
  BY <1>1, <1>5 DEF UnansweredNos, Unanswered, ChunkNos
<1>7. own \subseteq ChunkNos /\ UnansweredNos' \subseteq ChunkNos /\ Below(own, UnansweredNos')
  BY <1>1, <1>6, PacketAtHand
<1> HIDE DEF m, own
<1>8. AnswerNos' \subseteq AnswerNos \union own /\ Ordered(SuccessNo, m_TcpSndMsgQ)'
  <2>1. m_TcpSndMsgQ \in Seq(SendMsg \union {NoMsg}) /\ m \in SendMsg \union {NoMsg}
    BY <1>3, TypeParts DEF QueuesType
  <2>2. Below(AnswerNos, own)
    BY <1>2, <1>6, <1>7 DEF NosInOrder, Below
  <2> QED
    BY <1>2, <1>3, <1>4, <2>1, <2>2, NumbersAreNat, SendOrdered DEF AnswerNos, PartsOrdered
<1>9. CommandNos' = CommandNos /\ WireNos' = WireNos /\ LeavingNos' = LeavingNos
  BY <1>1 DEF CommandNos, WireNos, LeavingNos
<1>10. NosInOrder'
  <2> USE <1>1, <1>2, <1>6, <1>7, <1>8, <1>9 DEF NosInOrder, Below
  <2>1. Below(CommandNos, ChunkNos)' /\ Below(CommandNos, WireNos)' /\ Below(ChunkNos, WireNos)'
    OBVIOUS
  <2>2. /\ Below(LeavingNos, AnswerNos)' /\ Below(LeavingNos, UnansweredNos)'
        /\ Below(LeavingNos, WireNos)'
    OBVIOUS
  <2>3. Below(AnswerNos, UnansweredNos)' /\ Below(AnswerNos, WireNos)'
    OBVIOUS
  <2> QED
    BY <2>1, <2>2, <2>3
<1>11. PartsOrdered' /\ ChunkInv'
  BY <1>1, <1>2, <1>5, <1>8 DEF PartsOrdered, ChunkInv
<1>12. OnlyNewNos
  BY <1>1, <1>6, <1>9 DEF OnlyNewNos, Ahead
<1> QED
  BY <1>12, <1>10, <1>11 DEF OrderInv

\* The command takes the place of the request in the chunk.
LEMMA DeliverKeepsOrder ==
  ASSUME TcpTypeOK, ChunkInHand, OrderInv, RcvDeliver
  PROVE  OrderInv' /\ OnlyNewNos
<1>1. /\ rcv.pc = "deliver" /\ NextPacket /\ UNCHANGED <<snd, m_TcpSndMsgQ, wire, request>>
      /\ m_TcpRecvMsgQ' = MsgQueueSend(m_TcpRecvMsgQ, DevData(Head(rcv.chunk).session))
  BY DEF RcvDeliver, server
<1>2. NosInOrder /\ PartsOrdered /\ Head(rcv.chunk).kind = "request"
  BY <1>1 DEF OrderInv, ChunkInv
<1> DEFINE m == DevData(Head(rcv.chunk).session)
           own == {RequestNo[Head(rcv.chunk)]} \ {0}
<1>3. m \in RecvMsg /\ {CommandNo[m]} \ {0} = own
  <2>1. Head(rcv.chunk) \in Packet /\ Head(rcv.chunk).session \in 0 .. MaxRequest
    BY <1>1, PacketAtHand
  <2> QED
    BY <1>2, <2>1, SameNumber DEF RecvMsg
<1>4. m_TcpRecvMsgQ' = MsgQueueSend(m_TcpRecvMsgQ, m)
  BY <1>1
<1>5. /\ ChunkInv' /\ Ordered(RequestNo, rcv.chunk)'
      /\ ChunkNos' \subseteq ChunkNos /\ ChunkNos' = Nos(RequestNo, Tail(rcv.chunk))
      /\ UnansweredNos' = ChunkNos' /\ UnansweredNos' \subseteq UnansweredNos
  BY <1>1, NextPacketNos
<1>6. own \subseteq ChunkNos /\ Below(own, ChunkNos')
  BY <1>1, <1>5, PacketAtHand
<1> HIDE DEF m, own
<1>7. CommandNos' \subseteq CommandNos \union own /\ Ordered(CommandNo, m_TcpRecvMsgQ)'
  <2>1. m_TcpRecvMsgQ \in Seq(RecvMsg)
    BY TypeParts DEF QueuesType
  <2>2. Below(CommandNos, own)
    BY <1>2, <1>6 DEF NosInOrder, Below
  <2> QED
    BY <1>2, <1>3, <1>4, <2>1, <2>2, NumbersAreNat, SendOrdered DEF CommandNos, PartsOrdered
<1>8. AnswerNos' = AnswerNos /\ WireNos' = WireNos /\ LeavingNos' = LeavingNos
  BY <1>1 DEF AnswerNos, WireNos, LeavingNos
<1>9. NosInOrder'
  <2> USE <1>1, <1>2, <1>5, <1>6, <1>7, <1>8 DEF NosInOrder, Below
  <2>1. Below(CommandNos, ChunkNos)' /\ Below(CommandNos, WireNos)' /\ Below(ChunkNos, WireNos)'
    OBVIOUS
  <2>2. /\ Below(LeavingNos, AnswerNos)' /\ Below(LeavingNos, UnansweredNos)'
        /\ Below(LeavingNos, WireNos)'
    OBVIOUS
  <2>3. Below(AnswerNos, UnansweredNos)' /\ Below(AnswerNos, WireNos)'
    OBVIOUS
  <2> QED
    BY <2>1, <2>2, <2>3
<1>10. PartsOrdered'
  BY <1>1, <1>2, <1>5, <1>7 DEF PartsOrdered
<1>11. OnlyNewNos
  BY <1>1, <1>5, <1>6, <1>7, <1>8 DEF OnlyNewNos, Ahead
<1> QED
  BY <1>11, <1>5, <1>9, <1>10 DEF OrderInv

\* The answer to a heartbeat has no number.
LEMMA ReplyKeepsOrder ==
  ASSUME TcpTypeOK, ChunkInHand, OrderInv, RcvReply
  PROVE  OrderInv' /\ OnlyNewNos
<1>1. /\ rcv.pc = "respond" /\ NextPacket /\ UNCHANGED <<snd, m_TcpSndMsgQ, wire, request>>
      /\ m_TcpRecvMsgQ' = MsgQueueSend(m_TcpRecvMsgQ, HeartbeatResponse)
  BY DEF RcvReply, server
<1>2. NosInOrder /\ PartsOrdered
  BY DEF OrderInv
<1>3. CommandNos' \subseteq CommandNos /\ Ordered(CommandNo, m_TcpRecvMsgQ)'
  <2>1. m_TcpRecvMsgQ \in Seq(RecvMsg) /\ HeartbeatResponse \in RecvMsg
    BY TypeParts DEF QueuesType, RecvMsg
  <2>2. {CommandNo[HeartbeatResponse]} \ {0} = {}
    BY WithoutNumber
  <2>3. Below(CommandNos, {CommandNo[HeartbeatResponse]} \ {0})
    BY <2>2 DEF Below
  <2> QED
    BY <1>1, <1>2, <2>1, <2>2, <2>3, NumbersAreNat, SendOrdered DEF CommandNos, PartsOrdered
<1>4. /\ ChunkInv' /\ Ordered(RequestNo, rcv.chunk)' /\ ChunkNos' \subseteq ChunkNos
      /\ UnansweredNos' = ChunkNos' /\ UnansweredNos' \subseteq UnansweredNos
  BY <1>1, NextPacketNos
<1>5. AnswerNos' = AnswerNos /\ WireNos' = WireNos /\ LeavingNos' = LeavingNos
  BY <1>1 DEF AnswerNos, WireNos, LeavingNos
<1>6. NosInOrder'
  BY <1>1, <1>2, <1>3, <1>4, <1>5, FewerNos
<1>7. PartsOrdered'
  BY <1>1, <1>2, <1>3, <1>4 DEF PartsOrdered
<1>8. OnlyNewNos
  BY <1>1, <1>3, <1>4, <1>5 DEF OnlyNewNos, Ahead
<1> QED
  BY <1>8, <1>4, <1>6, <1>7 DEF OrderInv

-----------------------------------------------------------------------------
\* The steps of the receive thread.
LEMMA ReceiverKeepsOrder ==
  ASSUME TcpTypeOK, ChunkInHand, OrderInv, Receiver
  PROVE  OrderInv' /\ OnlyNewNos
<1>0. RcvType /\ ChunkInv
  BY TypeParts DEF OrderInv
<1>1. CASE RcvCheck \/ RcvTimeout \/ RcvFail \/ RcvClear
  <2>1. /\ rcv.pc \in {"check", "read", "clear"} /\ rcv'.chunk = rcv.chunk /\ rcv'.pc # "deliver"
        /\ UNCHANGED <<snd, queues, wire, request>>
    BY <1>0, <1>1 DEF RcvCheck, RcvTimeout, RcvFail, RcvClear, RcvType, server
  <2>2. rcv'.chunk = <<>> /\ rcv'.pc # "deliver"
    BY <1>0, <2>1 DEF ChunkInv
  <2> QED
    BY <2>1, <2>2, DroppingKeepsOrder DEF queues
<1>2. CASE RcvQuit
  BY <1>2, DroppingKeepsOrder DEF RcvQuit, ProcessExits, queues, server
<1> QED
  BY <1>1, <1>2, ReadKeepsOrder, RefuseKeepsOrder, RespondKeepsOrder, DeliverKeepsOrder,
     ReplyKeepsOrder DEF Receiver

\* The send thread takes the response that was queued first.
LEMMA TakeKeepsOrder ==
  ASSUME TcpTypeOK, OrderInv, SndTake
  PROVE  OrderInv' /\ OnlyNewNos
<1>1. /\ m_TcpSndMsgQ # <<>> /\ UNCHANGED <<rcv, m_TcpRecvMsgQ, wire, request>>
      /\ snd'.msg = Head(m_TcpSndMsgQ) /\ m_TcpSndMsgQ' = Tail(m_TcpSndMsgQ)
  BY DEF SndTake, server
<1>2. NosInOrder /\ PartsOrdered
  BY DEF OrderInv
<1>3. /\ LeavingNos' \subseteq AnswerNos /\ AnswerNos' \subseteq AnswerNos
      /\ Ordered(SuccessNo, m_TcpSndMsgQ)' /\ Below(LeavingNos, AnswerNos)'
  <2>1. m_TcpSndMsgQ \in Seq(SendMsg \union {NoMsg})
    BY TypeParts DEF QueuesType
  <2> QED
    BY <1>1, <1>2, <2>1, NumbersAreNat, HeadOrdered DEF LeavingNos, AnswerNos, PartsOrdered
<1>4. /\ CommandNos' = CommandNos /\ ChunkNos' = ChunkNos /\ WireNos' = WireNos
      /\ UnansweredNos' = UnansweredNos
  BY <1>1 DEF CommandNos, ChunkNos, WireNos, UnansweredNos, Unanswered
<1>5. NosInOrder'
  <2> USE <1>1, <1>2, <1>3, <1>4 DEF NosInOrder, Below
  <2>1. Below(CommandNos, ChunkNos)' /\ Below(CommandNos, WireNos)' /\ Below(ChunkNos, WireNos)'
    OBVIOUS
  <2>2. Below(LeavingNos, UnansweredNos)' /\ Below(LeavingNos, WireNos)'
    OBVIOUS
  <2>3. Below(AnswerNos, UnansweredNos)' /\ Below(AnswerNos, WireNos)'
    OBVIOUS
  <2> QED
    BY <2>1, <2>2, <2>3
<1>6. PartsOrdered' /\ ChunkInv'
  BY <1>1, <1>2, <1>3 DEF PartsOrdered, ChunkInv, OrderInv
<1>7. OnlyNewNos
  BY <1>1, <1>4 DEF OnlyNewNos, Ahead
<1> QED
  BY <1>7, <1>5, <1>6 DEF OrderInv

\* The steps of the send thread.
LEMMA SenderKeepsOrder ==
  ASSUME TcpTypeOK, OrderInv, Sender
  PROVE  OrderInv' /\ OnlyNewNos
<1>1. CASE SndCheck \/ SndDeliver \/ SndLose \/ SndFail \/ SndClear
  <2>1. /\ UNCHANGED <<rcv, queues, wire, request>>
        /\ snd'.msg = snd.msg \/ snd'.msg = NoMsg
    BY <1>1, TypeParts
       DEF SndCheck, SndDeliver, SndLose, SndFail, SndClear, SndStart, SndType, server
  <2> QED
    BY <2>1, DroppingKeepsOrder DEF queues
<1> QED
  BY <1>1, TakeKeepsOrder DEF Sender

\* A message of another thread has no number.
LEMMA PutKeepsOrder ==
  ASSUME TcpTypeOK, OrderInv, NEW m \in ClientMsg, PutMessage(m)
  PROVE  OrderInv' /\ OnlyNewNos
<1>1. /\ UNCHANGED <<rcv, snd, m_TcpRecvMsgQ, wire, request>>
      /\ m_TcpSndMsgQ' = MsgQueueSend(m_TcpSndMsgQ, m)
  BY DEF PutMessage, server
<1>2. NosInOrder /\ PartsOrdered
  BY DEF OrderInv
<1>3. AnswerNos' \subseteq AnswerNos /\ Ordered(SuccessNo, m_TcpSndMsgQ)'
  <2>1. m_TcpSndMsgQ \in Seq(SendMsg \union {NoMsg}) /\ m \in SendMsg \union {NoMsg}
    BY TypeParts DEF QueuesType, SendMsg
  <2>2. {SuccessNo[m]} \ {0} = {}
    BY WithoutNumber
  <2>3. Below(AnswerNos, {SuccessNo[m]} \ {0})
    BY <2>2 DEF Below
  <2> QED
    BY <1>1, <1>2, <2>1, <2>2, <2>3, NumbersAreNat, SendOrdered DEF AnswerNos, PartsOrdered
<1>4. /\ CommandNos' = CommandNos /\ ChunkNos' = ChunkNos /\ WireNos' = WireNos
      /\ UnansweredNos' = UnansweredNos /\ LeavingNos' = LeavingNos
  BY <1>1 DEF CommandNos, ChunkNos, WireNos, UnansweredNos, Unanswered, LeavingNos
<1>5. NosInOrder'
  BY <1>1, <1>2, <1>3, <1>4, FewerNos DEF NosInOrder
<1>6. PartsOrdered' /\ ChunkInv'
  BY <1>1, <1>2, <1>3 DEF PartsOrdered, ChunkInv, OrderInv
<1>7. OnlyNewNos
  BY <1>1, <1>4 DEF OnlyNewNos, Ahead
<1> QED
  BY <1>7, <1>5, <1>6 DEF OrderInv

\* A message taken from the queue leaves the others in order.
LEMMA TakeMessageKeepsOrder ==
  ASSUME TcpTypeOK, OrderInv, NEW type, NEW i \in 1 .. MaxQueueSize, TakeMessage(type, i)
  PROVE  OrderInv' /\ OnlyNewNos
<1>1. /\ UNCHANGED <<rcv, snd, m_TcpSndMsgQ, wire, request>>
      /\ m_TcpRecvMsgQ' = MsgQueueWithout(m_TcpRecvMsgQ, i)
  BY DEF TakeMessage, server
<1>2. NosInOrder /\ PartsOrdered
  BY DEF OrderInv
<1>3. CommandNos' \subseteq CommandNos /\ Ordered(CommandNo, m_TcpRecvMsgQ)'
  <2>1. m_TcpRecvMsgQ \in Seq(RecvMsg)
    BY TypeParts DEF QueuesType
  <2>2. i \in 1 .. Len(m_TcpRecvMsgQ)
    BY <2>1, LenProperties DEF TakeMessage, IsOldest
  <2> QED
    BY <1>1, <1>2, <2>1, <2>2, NumbersAreNat, WithoutOrdered DEF CommandNos, PartsOrdered
<1>4. /\ AnswerNos' = AnswerNos /\ ChunkNos' = ChunkNos /\ WireNos' = WireNos
      /\ UnansweredNos' = UnansweredNos /\ LeavingNos' = LeavingNos
  BY <1>1 DEF AnswerNos, ChunkNos, WireNos, UnansweredNos, Unanswered, LeavingNos
<1>5. NosInOrder'
  BY <1>1, <1>2, <1>3, <1>4, FewerNos DEF NosInOrder
<1>6. PartsOrdered' /\ ChunkInv'
  BY <1>1, <1>2, <1>3 DEF PartsOrdered, ChunkInv, OrderInv
<1>7. OnlyNewNos
  BY <1>1, <1>3, <1>4 DEF OnlyNewNos, Ahead
<1> QED
  BY <1>7, <1>5, <1>6 DEF OrderInv

\* A request of the server has a number of its own, above all others.
LEMMA SendingKeepsOrder ==
  ASSUME TcpTypeOK, OrderInv, NEW kind \in Kind, ServerSends(kind)
  PROVE  OrderInv' /\ OnlyNewNos
<1>1. UNCHANGED <<rcv, snd, m_TcpSndMsgQ, m_TcpRecvMsgQ>>
  BY DEF ServerSends, queues
<1>2. NosInOrder /\ PartsOrdered
  BY DEF OrderInv
<1>3. wire \in Seq(Packet) /\ request \in 0 .. MaxRequest
  BY TypeParts DEF ServerType
<1>4. PICK n \in 0 .. MaxRequest :
        /\ wire' = Append(wire, [kind |-> kind, session |-> n])
        /\ IF kind = "request" THEN n = request + 1 /\ request' = n
                               ELSE n = 0 /\ request' = request
  BY <1>3, BoundAssumption DEF ServerSends
<1> DEFINE p == [kind |-> kind, session |-> n]
           own == {RequestNo[p]} \ {0}
<1>5. p \in Packet
  BY DEF Packet
<1>6. wire' = Append(wire, p)
  BY <1>4
<1>7. request' \in Nat /\ request <= request' /\ \A k \in own : request < k /\ k <= request'
  BY <1>3, <1>4, <1>5, SameNumber
<1> HIDE DEF p, own
<1>8. /\ CommandNos' = CommandNos /\ AnswerNos' = AnswerNos /\ ChunkNos' = ChunkNos
      /\ UnansweredNos' = UnansweredNos /\ LeavingNos' = LeavingNos
  BY <1>1 DEF CommandNos, AnswerNos, ChunkNos, UnansweredNos, Unanswered, LeavingNos
<1>9. own \subseteq Nat
  <2>1. RequestNo[p] \in Nat
    BY <1>5, NumbersAreNat
  <2> QED
    BY <2>1 DEF own
<1>10. /\ CommandNos \subseteq Nat /\ AnswerNos \subseteq Nat /\ ChunkNos \subseteq Nat
       /\ WireNos \subseteq Nat /\ LeavingNos \subseteq Nat
  BY <1>3, NosAreNat DEF WireNos
<1>11. ASSUME NEW k \in Ahead \union AnswerNos \union LeavingNos, NEW l \in own
       PROVE  k < l
  BY <1>2, <1>3, <1>7, <1>9, <1>10 DEF NosInOrder, Ahead
<1>12. WireNos' \subseteq WireNos \union own /\ Ordered(RequestNo, wire)'
  <2>1. Below(WireNos, own)
    BY <1>11 DEF Below, Ahead
  <2> QED
    BY <1>2, <1>3, <1>5, <1>6, <2>1, NumbersAreNat, AppendOrdered DEF WireNos, PartsOrdered, own
<1>13. NosInOrder'
  <2> USE <1>2, <1>8, <1>11, <1>12 DEF NosInOrder, Below, Ahead
  <2>1. Below(CommandNos, ChunkNos)' /\ Below(CommandNos, WireNos)' /\ Below(ChunkNos, WireNos)'
    OBVIOUS
  <2>2. /\ Below(LeavingNos, AnswerNos)' /\ Below(LeavingNos, UnansweredNos)'
        /\ Below(LeavingNos, WireNos)'
    OBVIOUS
  <2>3. Below(AnswerNos, UnansweredNos)' /\ Below(AnswerNos, WireNos)'
    OBVIOUS
  <2>4. \A k \in (CommandNos \union ChunkNos \union WireNos \union AnswerNos \union LeavingNos)' :
          k <= request'
    BY <1>3, <1>7, <1>9, <1>10
  <2> QED
    BY <2>1, <2>2, <2>3, <2>4
<1>14. PartsOrdered' /\ ChunkInv'
  BY <1>1, <1>2, <1>12 DEF PartsOrdered, ChunkInv, OrderInv
<1>15. OnlyNewNos
  BY <1>4, <1>7, <1>8, <1>9, <1>12 DEF OnlyNewNos, Ahead
<1> QED
  BY <1>15, <1>13, <1>14 DEF OrderInv

-----------------------------------------------------------------------------
\* Every step keeps the order.
LEMMA StepKeepsOrder ==
  ASSUME TcpInv, OrderInv, [TcpStep]_tcpVars
  PROVE  OrderInv' /\ OnlyNewNos
<1>0. TcpTypeOK /\ ChunkInHand
  BY DEF TcpInv
<1>1. CASE \/ UNCHANGED tcpVars \/ TcpCancel \/ ProcessExits \/ SetConnStatFalse \/ ReconfigEnd
           \/ \E a \in Addr : ReconfigBegin(a)
  <2>1. UNCHANGED <<rcv, snd, queues, server>>
    BY <1>1 DEF tcpVars, TcpCancel, ProcessExits, SetConnStatFalse, ReconfigEnd, ReconfigBegin
  <2> QED
    BY <2>1, DroppingKeepsOrder DEF queues, server
<1>2. CASE Monitor
  <2>1. UNCHANGED <<rcv, snd, queues, request>> /\ (wire' = wire \/ wire' = <<>>)
    BY <1>2 DEF Monitor, MonRenew, MonPort, MonIp, MonConnectOk, MonConnectFail, MonPublish, server
  <2> QED
    BY <2>1, DroppingKeepsOrder DEF queues
<1>3. CASE PeerCloses
  BY <1>0, <1>3, ClosingKeepsOrder
<1>4. CASE \E a \in Addr : TcpCreate(a)
  <2>1. rcv'.chunk = <<>> /\ rcv'.pc # "deliver" /\ snd'.msg = NoMsg
    BY <1>4 DEF TcpCreate, RcvStart, SndStart
  <2>2. m_TcpSndMsgQ' = <<>> /\ m_TcpRecvMsgQ' = <<>> /\ UNCHANGED <<wire, request>>
    BY <1>4 DEF TcpCreate, server
  <2> QED
    BY <2>1, <2>2, DroppingKeepsOrder
<1>5. CASE \E t \in Threads : ThreadEnds(t)
  <2>1. rcv' = rcv \/ (rcv'.chunk = <<>> /\ rcv'.pc # "deliver")
    BY <1>5 DEF ThreadEnds, RcvStart
  <2>2. snd'.msg = snd.msg \/ snd'.msg = NoMsg
    BY <1>5 DEF ThreadEnds, SndStart
  <2>3. UNCHANGED <<queues, server>>
    BY <1>5 DEF ThreadEnds
  <2> QED
    BY <2>1, <2>2, <2>3, DroppingKeepsOrder DEF queues, server
<1>6. CASE TcpFree
  BY <1>6, DroppingKeepsOrder DEF TcpFree
<1>7. CASE Receiver
  BY <1>0, <1>7, ReceiverKeepsOrder
<1>8. CASE Sender
  BY <1>0, <1>8, SenderKeepsOrder
<1>9. CASE \E m \in ClientMsg : PutMessage(m)
  BY <1>0, <1>9, PutKeepsOrder
<1>10. CASE \E type \in {"DEV_DATA", "HEARTBEAT_RESPONSE"}, i \in 1 .. MaxQueueSize :
              TakeMessage(type, i)
  BY <1>0, <1>10, TakeMessageKeepsOrder
<1>11. CASE \E kind \in Kind : ServerSends(kind)
  BY <1>0, <1>11, SendingKeepsOrder
<1> QED
  BY <1>1, <1>2, <1>3, <1>4, <1>5, <1>6, <1>7, <1>8, <1>9, <1>10, <1>11
     DEF TcpStep, TcpNext, Engine, Callers, Network

\* The engine starts in order.
LEMMA StartsInOrder == TcpInit => OrderInv
<1> SUFFICES ASSUME TcpInit
             PROVE  OrderInv
  OBVIOUS
<1>1. /\ m_TcpRecvMsgQ = <<>> /\ m_TcpSndMsgQ = <<>> /\ wire = <<>>
      /\ rcv.chunk = <<>> /\ rcv.pc = "check" /\ snd.msg = NoMsg
  BY DEF TcpInit, RcvStart, SndStart
<1>2. PartsOrdered /\ ChunkInv
  BY <1>1, EmptyOrdered DEF PartsOrdered, ChunkInv
<1>3. /\ CommandNos = {} /\ ChunkNos = {} /\ WireNos = {} /\ UnansweredNos = {}
      /\ AnswerNos = {} /\ LeavingNos = {}
  BY <1>1, EmptyOrdered, WithoutNumber
     DEF CommandNos, ChunkNos, WireNos, UnansweredNos, Unanswered, AnswerNos, LeavingNos
<1>4. NosInOrder
  BY <1>3 DEF NosInOrder, Below
<1> QED
  BY <1>2, <1>4 DEF OrderInv

\* However the engine is used, the order is kept for ever.
LEMMA OrderInvariant == TcpInit /\ [][TcpStep]_tcpVars => [](TcpInv /\ OrderInv)
  BY StartsInInv, StartsInOrder, StepKeepsInv, StepKeepsOrder, PTL

\* The sequences that the properties put one behind the other.
LEMMA PlacesAreSequences ==
  ASSUME TcpInv, OrderInv
  PROVE  /\ m_TcpRecvMsgQ \in Seq(RecvMsg) /\ m_TcpSndMsgQ \in Seq(SendMsg \union {NoMsg})
         /\ rcv.chunk \in Seq(Packet) /\ wire \in Seq(Packet)
         /\ Unanswered \in Seq(Packet) /\ Ordered(RequestNo, Unanswered)
<1>1. /\ m_TcpRecvMsgQ \in Seq(RecvMsg) /\ m_TcpSndMsgQ \in Seq(SendMsg \union {NoMsg})
      /\ rcv.chunk \in Seq(Packet) /\ wire \in Seq(Packet)
  BY TypeParts DEF TcpInv, QueuesType, RcvType, ServerType
<1>2. Ordered(RequestNo, rcv.chunk) /\ (rcv.pc = "deliver" => rcv.chunk # <<>>)
  BY DEF TcpInv, ChunkInHand, OrderInv, PartsOrdered
<1>3. /\ rcv.pc = "deliver" => Tail(rcv.chunk) \in Seq(Packet)
      /\ rcv.pc = "deliver" => Ordered(RequestNo, Tail(rcv.chunk))
  BY <1>1, <1>2, HeadTailProperties, HeadOrdered, NumbersAreNat
<1> QED
  BY <1>1, <1>2, <1>3 DEF Unanswered

\* The places in the order in which a command passes them are in the order of their numbers.
LEMMA CommandLineInOrder ==
  ASSUME TcpInv, OrderInv
  PROVE  /\ CommandLine \in Seq(Nat) /\ InOrder(CommandLine)
         /\ NosIn(CommandLine) \subseteq CommandNos \union ChunkNos \union WireNos
<1> DEFINE q == Numbers(CommandNo, m_TcpRecvMsgQ)
           c == Numbers(RequestNo, rcv.chunk)
           w == Numbers(RequestNo, wire)
<1>1. /\ q \in Seq(Nat) /\ InOrder(q) /\ NosIn(q) = CommandNos
      /\ c \in Seq(Nat) /\ InOrder(c) /\ NosIn(c) = ChunkNos
      /\ w \in Seq(Nat) /\ InOrder(w) /\ NosIn(w) = WireNos
  BY PlacesAreSequences, NumbersAreNat, NumbersInOrder
     DEF OrderInv, PartsOrdered, CommandNos, ChunkNos, WireNos
<1>2. CommandLine = (q \o c) \o w
  BY DEF CommandLine
<1>3. /\ Below(CommandNos, ChunkNos)
      /\ \A s \in SUBSET (CommandNos \union ChunkNos) : Below(s, WireNos)
  BY DEF OrderInv, NosInOrder, Below
<1> HIDE DEF q, c, w
<1>4. q \o c \in Seq(Nat) /\ InOrder(q \o c) /\ NosIn(q \o c) \subseteq CommandNos \union ChunkNos
  BY <1>1, <1>3, JoinInOrder
<1>5. Below(NosIn(q \o c), NosIn(w))
  BY <1>1, <1>3, <1>4
<1>6. /\ (q \o c) \o w \in Seq(Nat) /\ InOrder((q \o c) \o w)
      /\ NosIn((q \o c) \o w) \subseteq NosIn(q \o c) \union NosIn(w)
  BY <1>1, <1>4, <1>5, JoinInOrder
<1> QED
  BY <1>1, <1>2, <1>4, <1>6

\* So are those of a response.
LEMMA OrderGivesResponses ==
  ASSUME TcpInv, OrderInv
  PROVE  ResponsesInOrder
<1> DEFINE m == <<SuccessNo[snd.msg]>>
           a == Numbers(SuccessNo, m_TcpSndMsgQ)
           u == Numbers(RequestNo, Unanswered)
           w == Numbers(RequestNo, wire)
<1>1. /\ a \in Seq(Nat) /\ InOrder(a) /\ NosIn(a) = AnswerNos
      /\ u \in Seq(Nat) /\ InOrder(u) /\ NosIn(u) = UnansweredNos
      /\ w \in Seq(Nat) /\ InOrder(w) /\ NosIn(w) = WireNos
  BY PlacesAreSequences, NumbersAreNat, NumbersInOrder
     DEF OrderInv, PartsOrdered, AnswerNos, UnansweredNos, WireNos
<1>2. m \in Seq(Nat) /\ InOrder(m) /\ NosIn(m) = LeavingNos
  <2>1. SuccessNo[snd.msg] \in Nat
    BY NumbersAreNat, TypeParts DEF TcpInv, SndType
  <2> QED
    BY <2>1 DEF InOrder, NosIn, LeavingNos
<1>3. ResponsesInOrder <=> InOrder(((m \o a) \o u) \o w)
  BY DEF ResponsesInOrder
<1>4. /\ Below(LeavingNos, AnswerNos)
      /\ \A s \in SUBSET (LeavingNos \union AnswerNos) : Below(s, UnansweredNos)
      /\ \A s \in SUBSET (LeavingNos \union AnswerNos \union UnansweredNos) : Below(s, WireNos)
  BY DEF OrderInv, NosInOrder, Below
<1> HIDE DEF m, a, u, w
<1>5. m \o a \in Seq(Nat) /\ InOrder(m \o a) /\ NosIn(m \o a) \subseteq LeavingNos \union AnswerNos
  BY <1>1, <1>2, <1>4, JoinInOrder
<1> DEFINE b == m \o a
<1>6. b \in Seq(Nat) /\ InOrder(b) /\ NosIn(b) \subseteq LeavingNos \union AnswerNos
  BY <1>5
<1> HIDE DEF b
<1>7. /\ b \o u \in Seq(Nat) /\ InOrder(b \o u)
      /\ NosIn(b \o u) \subseteq LeavingNos \union AnswerNos \union UnansweredNos
  BY <1>1, <1>4, <1>6, JoinInOrder
<1>8. Below(NosIn(b \o u), NosIn(w))
  BY <1>1, <1>4, <1>7
<1>9. InOrder((b \o u) \o w)
  BY <1>1, <1>7, <1>8, JoinInOrder
<1> QED
  BY <1>3, <1>9 DEF b

\* For every configuration, queue limit and interleaving, commands stay in the order in
\* which the server sent them and none is there twice, whatever read() returns, however
\* often the connection is renewed and the engine restarted (gs_tcp.c:215-353).
THEOREM GsTcpCommandsInOrder == TcpSpec => []CommandsInOrder
<1>1. [TcpNext]_tcpVars => [TcpStep]_tcpVars
  BY DEF TcpStep
<1>2. TcpInv /\ OrderInv => CommandsInOrder
  BY CommandLineInOrder DEF CommandsInOrder
<1> QED
  BY <1>1, <1>2, OrderInvariant, PTL DEF TcpSpec

\* For every configuration, the SUCCESS responses keep that order too, from the requests
\* that wait for them to the message the send thread holds (gs_tcp.c:154-241).
THEOREM GsTcpResponsesInOrder == TcpSpec => []ResponsesInOrder
<1>1. [TcpNext]_tcpVars => [TcpStep]_tcpVars
  BY DEF TcpStep
<1>2. TcpInv /\ OrderInv => ResponsesInOrder
  BY OrderGivesResponses
<1> QED
  BY <1>1, <1>2, OrderInvariant, PTL DEF TcpSpec

-----------------------------------------------------------------------------
\* A request of the server carries a number, and so does the command it leads to: the
\* numbers begin at 1.
NumberedPacket == {p \in Packet : p.kind = "request" => p.session # 0}
NumberedMsg == RecvMsg \ {DevData(0)}

Numbered ==
  /\ m_TcpRecvMsgQ \in Seq(NumberedMsg)
  /\ rcv.chunk \in Seq(NumberedPacket) /\ wire \in Seq(NumberedPacket)

\* The receive thread drops the head of its chunk.
LEMMA NextPacketNumbered ==
  ASSUME rcv.chunk \in Seq(NumberedPacket), rcv.chunk # <<>>, NextPacket
  PROVE  rcv'.chunk \in Seq(NumberedPacket)
<1>1. Tail(rcv.chunk) \in Seq(NumberedPacket)
  BY HeadTailProperties
<1> QED
  BY <1>1 DEF NextPacket

\* What the receive thread reads, passes on and keeps carries numbers.
LEMMA ReceiverKeepsNumbered ==
  ASSUME TcpInv, OrderInv, Numbered, Receiver
  PROVE  Numbered'
<1>0. /\ m_TcpRecvMsgQ \in Seq(NumberedMsg) /\ Len(m_TcpRecvMsgQ) <= MaxQueueSize
      /\ rcv.chunk \in Seq(NumberedPacket) /\ wire \in Seq(NumberedPacket)
      /\ rcv \in [pc : {"check", "read", "respond", "deliver", "clear"}, chunk : Seq(Packet)]
  BY DEF Numbered, TcpInv, TcpTypeOK
<1>1. rcv.pc \in {"respond", "deliver"} => rcv.chunk # <<>>
  BY DEF TcpInv, ChunkInHand
<1>2. CASE RcvCheck \/ RcvTimeout \/ RcvFail \/ RcvClear \/ RcvQuit \/ RcvRespond
  <2>1. rcv'.chunk = rcv.chunk /\ wire' = wire /\ m_TcpRecvMsgQ' = m_TcpRecvMsgQ
    BY <1>0, <1>2 DEF RcvCheck, RcvTimeout, RcvFail, RcvClear, RcvQuit, RcvRespond, ProcessExits,
                      queues, server
  <2> QED
    BY <1>0, <2>1 DEF Numbered
<1>3. CASE RcvRead
  <2>1. PICK n \in 1 .. Len(wire) :
          /\ rcv' = [pc |-> "respond", chunk |-> SubSeq(wire, 1, n)]
          /\ wire' = SubSeq(wire, n + 1, Len(wire))
    BY <1>3 DEF RcvRead
  <2>2. SubSeq(wire, 1, n) \in Seq(NumberedPacket)
    BY <1>0, PartOfSeq
  <2>3. SubSeq(wire, n + 1, Len(wire)) \in Seq(NumberedPacket)
    BY <1>0, PartOfSeq
  <2> QED
    BY <1>0, <1>3, <2>1, <2>2, <2>3 DEF Numbered, RcvRead, queues
<1>4. CASE RcvRefuse
  BY <1>0, <1>1, <1>4, NextPacketNumbered DEF RcvRefuse, Numbered, server
<1>5. CASE RcvDeliver
  <2>1. Head(rcv.chunk) \in NumberedPacket /\ Head(rcv.chunk).kind = "request"
    BY <1>0, <1>1, <1>5, HeadTailProperties DEF RcvDeliver, OrderInv, ChunkInv
  <2>2. DevData(Head(rcv.chunk).session) \in NumberedMsg
    BY <2>1 DEF NumberedPacket, Packet, NumberedMsg, RecvMsg, DevData
  <2>3. m_TcpRecvMsgQ' \in Seq(NumberedMsg)
    BY <1>0, <1>5, <2>2, SendKeepsQueue DEF RcvDeliver
  <2> QED
    BY <1>0, <1>1, <1>5, <2>3, NextPacketNumbered DEF RcvDeliver, Numbered, server
<1>6. CASE RcvReply
  <2>1. HeartbeatResponse \in NumberedMsg
    BY DEF NumberedMsg, RecvMsg, HeartbeatResponse, DevData
  <2>2. m_TcpRecvMsgQ' \in Seq(NumberedMsg)
    BY <1>0, <1>6, <2>1, SendKeepsQueue DEF RcvReply
  <2> QED
    BY <1>0, <1>1, <1>6, <2>2, NextPacketNumbered DEF RcvReply, Numbered, server
<1> QED
  BY <1>2, <1>3, <1>4, <1>5, <1>6 DEF Receiver

\* The server gives its requests numbers from 1 on; the network adds nothing.
LEMMA NetworkKeepsNumbered ==
  ASSUME TcpInv, Numbered, Network
  PROVE  Numbered'
<1>0. wire \in Seq(NumberedPacket) /\ request \in 0 .. MaxRequest
  BY DEF Numbered, TcpInv, TcpTypeOK
<1>1. UNCHANGED <<rcv, m_TcpRecvMsgQ>>
  BY DEF Network, PeerCloses, ServerSends, queues
<1>2. CASE PeerCloses
  <2>1. PICK n \in 0 .. Len(wire) : wire' = SubSeq(wire, 1, n)
    BY <1>2 DEF PeerCloses
  <2>2. wire' \in Seq(NumberedPacket)
    BY <1>0, <2>1, PartOfSeq
  <2> QED
    BY <1>1, <2>2 DEF Numbered
<1>3. CASE \E kind \in Kind : ServerSends(kind)
  <2>1. PICK kind \in Kind : ServerSends(kind)
    BY <1>3
  <2>2. PICK n \in 0 .. MaxRequest :
          wire' = Append(wire, [kind |-> kind, session |-> n]) /\ (kind = "request" => n # 0)
    BY <1>0, <2>1, BoundAssumption DEF ServerSends
  <2>3. [kind |-> kind, session |-> n] \in NumberedPacket
    BY <2>2 DEF NumberedPacket, Packet
  <2>4. wire' \in Seq(NumberedPacket)
    BY <1>0, <2>2, <2>3, AppendProperties
  <2> QED
    BY <1>1, <2>4 DEF Numbered
<1> QED
  BY <1>2, <1>3 DEF Network

\* A step that leaves the places alone, or empties them, keeps it.
LEMMA DroppingKeepsNumbered ==
  ASSUME Numbered,
         m_TcpRecvMsgQ' = m_TcpRecvMsgQ \/ m_TcpRecvMsgQ' = <<>>,
         rcv' = rcv \/ rcv' = RcvStart,
         wire' = wire \/ wire' = <<>>
  PROVE  Numbered'
<1>1. <<>> \in Seq(NumberedMsg) /\ <<>> \in Seq(NumberedPacket)
  OBVIOUS
<1>2. /\ m_TcpRecvMsgQ \in Seq(NumberedMsg)
      /\ rcv.chunk \in Seq(NumberedPacket) /\ wire \in Seq(NumberedPacket)
  BY DEF Numbered
<1>3. m_TcpRecvMsgQ' \in Seq(NumberedMsg)
  BY <1>1, <1>2, Zenon
<1>4. wire' \in Seq(NumberedPacket)
  BY <1>1, <1>2, Zenon
<1>5. rcv'.chunk \in Seq(NumberedPacket)
  <2>1. RcvStart.chunk = <<>>
    BY DEF RcvStart
  <2> QED
    BY <1>1, <1>2, <2>1, Zenon
<1> QED
  BY <1>3, <1>4, <1>5, Zenon DEF Numbered

\* So every step keeps it.
LEMMA StepKeepsNumbered ==
  ASSUME TcpInv, OrderInv, Numbered, [TcpStep]_tcpVars
  PROVE  Numbered'
<1>1. CASE UNCHANGED tcpVars \/ Monitor \/ Sender
  <2>1. UNCHANGED <<m_TcpRecvMsgQ, rcv>> /\ (wire' = wire \/ wire' = <<>>)
    BY <1>1 DEF tcpVars, Monitor, MonRenew, MonPort, MonIp, MonConnectOk, MonConnectFail,
      MonPublish, Sender, SndCheck, SndTake, SndDeliver, SndLose, SndFail, SndClear, queues, server
  <2> QED
    BY <2>1, DroppingKeepsNumbered
<1>3. CASE TcpFree \/ TcpCancel \/ ProcessExits \/ SetConnStatFalse \/ ReconfigEnd
             \/ (\E t \in Threads : ThreadEnds(t))
  <2>1. /\ m_TcpRecvMsgQ' = m_TcpRecvMsgQ \/ m_TcpRecvMsgQ' = <<>>
        /\ rcv' = rcv \/ rcv' = RcvStart
        /\ wire' = wire \/ wire' = <<>>
    BY <1>3 DEF TcpFree, TcpCancel, ProcessExits, SetConnStatFalse, ReconfigEnd, ThreadEnds,
      queues, server
  <2> QED
    BY <2>1, DroppingKeepsNumbered
<1>4. CASE (\E a \in Addr : TcpCreate(a) \/ ReconfigBegin(a)) \/ (\E m \in ClientMsg : PutMessage(m))
  <2>1. /\ m_TcpRecvMsgQ' = m_TcpRecvMsgQ \/ m_TcpRecvMsgQ' = <<>>
        /\ rcv' = rcv \/ rcv' = RcvStart
        /\ wire' = wire
    BY <1>4 DEF TcpCreate, ReconfigBegin, PutMessage, queues, server
  <2> QED
    BY <2>1, DroppingKeepsNumbered
<1>2. CASE \E type \in {"DEV_DATA", "HEARTBEAT_RESPONSE"}, i \in 1 .. MaxQueueSize :
             TakeMessage(type, i)
  <2>1. PICK i \in DOMAIN m_TcpRecvMsgQ : m_TcpRecvMsgQ' = MsgQueueWithout(m_TcpRecvMsgQ, i)
    BY <1>2 DEF TakeMessage, IsOldest
  <2>2. m_TcpRecvMsgQ' \in Seq(NumberedMsg)
    BY <2>1, TakeKeepsQueue, LenProperties DEF Numbered
  <2>3. UNCHANGED <<rcv, wire>>
    BY <1>2 DEF TakeMessage, server
  <2> QED
    BY <2>2, <2>3 DEF Numbered
<1> QED
  BY <1>1, <1>2, <1>3, <1>4, ReceiverKeepsNumbered, NetworkKeepsNumbered
     DEF TcpStep, TcpNext, Engine, Callers

\* The engine starts with nothing to number.
LEMMA StartsNumbered == TcpInit => Numbered
<1>1. <<>> \in Seq(NumberedMsg) /\ <<>> \in Seq(NumberedPacket)
  OBVIOUS
<1> QED
  BY <1>1 DEF TcpInit, RcvStart, Numbered

-----------------------------------------------------------------------------
\* A sequence behind another has the numbers of both.
LEMMA JoinNos ==
  ASSUME NEW n \in Seq(Nat), NEW m \in Seq(Nat)
  PROVE  n \o m \in Seq(Nat) /\ NosIn(n \o m) = NosIn(n) \union NosIn(m)
<1> DEFINE t == n \o m
<1>1. /\ Len(t) = Len(n) + Len(m) /\ t \in Seq(Nat)
      /\ \A k \in 1 .. Len(n) + Len(m) : t[k] = IF k <= Len(n) THEN n[k] ELSE m[k - Len(n)]
  BY ConcatProperties
<1> HIDE DEF t
<1>2. /\ DOMAIN t = 1 .. Len(n) + Len(m) /\ DOMAIN n = 1 .. Len(n) /\ DOMAIN m = 1 .. Len(m)
      /\ Len(n) \in Nat /\ Len(m) \in Nat
  BY <1>1, LenProperties
<1>3. ASSUME NEW k \in DOMAIN t
      PROVE  (k \in DOMAIN n /\ t[k] = n[k]) \/ (k - Len(n) \in DOMAIN m /\ t[k] = m[k - Len(n)])
  <2>1. k <= Len(n) => k \in 1 .. Len(n)
    BY <1>2
  <2>2. ~(k <= Len(n)) => k - Len(n) \in 1 .. Len(m)
    BY <1>2
  <2> QED
    BY <1>1, <1>2, <2>1, <2>2
<1>4. ASSUME NEW k \in DOMAIN n
      PROVE  k \in DOMAIN t /\ t[k] = n[k]
  BY <1>1, <1>2
<1>5. ASSUME NEW k \in DOMAIN m
      PROVE  k + Len(n) \in DOMAIN t /\ t[k + Len(n)] = m[k]
  <2>1. k + Len(n) \in 1 .. Len(n) + Len(m) /\ ~(k + Len(n) <= Len(n))
    BY <1>2
  <2>2. (k + Len(n)) - Len(n) = k
    BY <1>2
  <2> QED
    BY <1>1, <1>2, <2>1, <2>2
<1>6. NosIn(t) = NosIn(n) \union NosIn(m)
  BY <1>3, <1>4, <1>5 DEF NosIn
<1> QED
  BY <1>1, <1>6 DEF t

\* The numbers of the places a command passes, one behind the other.
LEMMA CommandLineNos ==
  ASSUME TcpInv, OrderInv
  PROVE  CommandLine \in Seq(Nat) /\ NosIn(CommandLine) = Ahead
<1> DEFINE q == Numbers(CommandNo, m_TcpRecvMsgQ)
           c == Numbers(RequestNo, rcv.chunk)
           w == Numbers(RequestNo, wire)
<1>1. /\ q \in Seq(Nat) /\ NosIn(q) = CommandNos
      /\ c \in Seq(Nat) /\ NosIn(c) = ChunkNos
      /\ w \in Seq(Nat) /\ NosIn(w) = WireNos
  BY PlacesAreSequences, NumbersAreNat, NumbersInOrder DEF CommandNos, ChunkNos, WireNos
<1>2. CommandLine = (q \o c) \o w
  BY DEF CommandLine
<1> HIDE DEF q, c, w
<1>3. q \o c \in Seq(Nat) /\ NosIn(q \o c) = CommandNos \union ChunkNos
  BY <1>1, JoinNos
<1>4. (q \o c) \o w \in Seq(Nat) /\ NosIn((q \o c) \o w) = (CommandNos \union ChunkNos) \union WireNos
  BY <1>1, <1>3, JoinNos
<1> QED
  BY <1>2, <1>4 DEF Ahead

\* A request of the server is on its way as soon as it is sent.
LEMMA RequestIsAhead ==
  ASSUME TcpInv, OrderInv, ServerSends("request")
  PROVE  request' = request + 1 /\ Ahead' = Ahead \union {request'}
<1>1. wire \in Seq(Packet) /\ request \in 0 .. MaxRequest
  BY DEF TcpInv, TcpTypeOK
<1> DEFINE p == [kind |-> "request", session |-> request + 1]
<1>2. /\ wire' = Append(wire, p) /\ request' = request + 1
      /\ UNCHANGED <<rcv, m_TcpRecvMsgQ>> /\ request + 1 \in 1 .. MaxRequest
  BY <1>1, BoundAssumption DEF ServerSends, queues
<1>3. p \in Packet /\ RequestNo[p] = request + 1
  BY <1>2 DEF Packet, ServerSends, RequestNo
<1> HIDE DEF p
<1>4. /\ DOMAIN wire' = DOMAIN wire \union {Len(wire) + 1}
      /\ wire'[Len(wire) + 1] = p /\ \A i \in DOMAIN wire : wire'[i] = wire[i]
  BY <1>1, <1>2, <1>3, AppendProperties, LenProperties
<1>5. WireNos' = WireNos \union {request + 1}
  BY <1>1, <1>3, <1>4 DEF WireNos, Nos
<1>6. CommandNos' = CommandNos /\ ChunkNos' = ChunkNos
  BY <1>2 DEF CommandNos, ChunkNos
<1> QED
  BY <1>2, <1>5, <1>6 DEF Ahead
=============================================================================
