---------------------------- MODULE PacketFramer ----------------------------
(***************************************************************************)
(* How the receive thread of gs_tcp.c makes packets out of the bytes that  *)
(* read() returns: each chunk goes through the ring buffer, which is read  *)
(* back byte by byte into a parser for tag, header and content.  The       *)
(* parser is reset when the thread sees the connection marked down, which  *)
(* it also is while the monitor dials and, for a moment, when the new      *)
(* connection is up already.                                               *)
(*                                                                         *)
(* The ring buffer is used as the byte queue that RingBuffer implements.   *)
(* A header is HEADER bytes here, its last one the length of the packet;   *)
(* in the code 12 bytes, the last two the length.  GsTcp models the rest   *)
(* of the thread, and what happens to a packet.                            *)
(***************************************************************************)
EXTENDS Integers, Sequences, SequencesExt

CONSTANTS
  Byte,           \* the values of a byte, lengths and tag bytes among them
  TAG1, TAG2,     \* the two bytes of GS_EM_IP_PROT_TAG
  HEADER,         \* the length of a header
  MAX_LEN,        \* the size of the buffer read() fills (GS_EM_IP_PROT_MAX_LEN)
  Packets,        \* the packets the server sends
  MaxSent,        \* bound: packets sent on a connection
  MaxConnections  \* bound: connections made

\* a header is two tag bytes, then something with the length last; the buffer holds more
ASSUME HeaderAssumption ==
  HEADER \in Nat /\ HEADER > 2 /\ MAX_LEN \in Nat /\ HEADER < MAX_LEN /\ 0 \in Byte

ASSUME BoundAssumption == MaxSent \in Nat /\ MaxConnections \in Nat

ASSUME PacketAssumption ==
  \A p \in Packets : /\ p \in Seq(Byte) /\ Len(p) > HEADER /\ Len(p) <= MAX_LEN
                     /\ p[1] = TAG1 /\ p[2] = TAG2 /\ p[HEADER] = Len(p)

VARIABLES
  m_IsTcpConnectOk,  \* the connection flag
  pc,                \* the receive thread: check, read, bytes, clear
  ring, ret,         \* the ring buffer and what its last call handed back
  parser,            \* lIsReadContent, lIsReadHeaderRemData, lIsReadHeaderTag2,
                     \* lValidPackLen and the lCount bytes in plValidData
  mon,               \* the monitor thread: check, connect, publish
  open,              \* connected, and the server has not closed this connection
  wire,              \* bytes under way
  sent,              \* packets the server sent on this connection
  delivered,         \* packets handed to GS_TCP_ValidPacketProc since it was made
  stream, handed,    \* history: the bytes of the packets in sent, and in delivered
  ends,              \* history: the places in stream where the packets in sent end
  connections,       \* how many connections were made
  mixed              \* history: this one was made while the thread still held a part of a
                     \* packet, or bytes, of the last one; or a part of its own first
                     \* packets was thrown away before the flag was raised

link == <<m_IsTcpConnectOk, mon, open, wire, sent, stream, ends, connections, mixed>>
output == <<delivered, handed>>
vars == <<link, pc, ring, ret, parser, output>>

Ring == INSTANCE ByteQueue WITH
          queue <- ring, Capacity <- 2 * MAX_LEN, Input <- {}, Request <- {}

ParserReset ==
  [lIsReadContent |-> FALSE, lIsReadHeaderRemData |-> FALSE, lIsReadHeaderTag2 |-> FALSE,
   lValidPackLen |-> 0, data |-> <<>>]

Init ==
  /\ m_IsTcpConnectOk = FALSE /\ mon = "check" /\ open = FALSE
  /\ pc = "check"
  /\ Ring!Init
  /\ parser = ParserReset
  /\ wire = <<>> /\ sent = <<>> /\ delivered = <<>>
  /\ stream = <<>> /\ handed = <<>> /\ ends = <<>>
  /\ connections = 0 /\ mixed = FALSE

-----------------------------------------------------------------------------
(* One byte of the parser.  Each operator gives the parser afterwards. *)

\* GS_TCP_FullPacket: one more byte in plValidData
Filled(ch) == [parser EXCEPT !.data = Append(@, ch)]

Tag1Unstored(ch) ==
  IF ch = TAG1 THEN [parser EXCEPT !.data = <<>>, !.lIsReadHeaderTag2 = TRUE] ELSE parser

Tag1(ch) ==
  IF ch = TAG1 THEN [parser EXCEPT !.data = <<ch>>, !.lIsReadHeaderTag2 = TRUE] ELSE parser

Tag2(ch) ==
  IF ch = TAG2 THEN [Filled(ch) EXCEPT !.lIsReadHeaderRemData = TRUE]
               ELSE [parser EXCEPT !.lIsReadHeaderTag2 = FALSE]

RemDataShort(ch) ==
  IF Len(parser.data) + 1 = HEADER - 1
  THEN [Filled(ch) EXCEPT !.lValidPackLen = ch, !.lIsReadContent = TRUE]
  ELSE Filled(ch)

\* the length is the last byte of the header
RemData(ch) ==
  IF Len(parser.data) + 1 = HEADER
  THEN [Filled(ch) EXCEPT !.lValidPackLen = ch, !.lIsReadContent = TRUE]
  ELSE Filled(ch)

IsCompleteLate(ch) == parser.lIsReadContent /\ Len(parser.data) = parser.lValidPackLen

IsComplete(ch) == parser.lIsReadContent /\ Len(parser.data) + 1 = parser.lValidPackLen

Parsed(ch) ==
  IF IsComplete(ch) THEN ParserReset
  ELSE IF parser.lIsReadContent THEN Filled(ch)
  ELSE IF parser.lIsReadHeaderRemData THEN RemData(ch)
  ELSE IF parser.lIsReadHeaderTag2 THEN Tag2(ch)
  ELSE Tag1(ch)

-----------------------------------------------------------------------------
(* GS_TCP_RecvThread *)

RcvSeesUp ==
  /\ pc = "check" /\ m_IsTcpConnectOk
  /\ pc' = "read"
  /\ UNCHANGED <<link, ring, ret, parser, output>>

RcvSeesDownOnly ==
  /\ pc = "check" /\ ~m_IsTcpConnectOk
  /\ pc' = "down"
  /\ UNCHANGED <<link, ring, ret, parser, output>>

\* the flag is down: reset the parser, sleep.  A thread that was at read() when the monitor
\* replaced the socket may hold the front of a packet of the new connection by now.
RcvSeesDown ==
  /\ pc = "check" /\ ~m_IsTcpConnectOk
  /\ pc' = "down"
  /\ parser' = ParserReset
  /\ mixed' = (mixed \/ (mon = "publish" /\ parser.data # <<>>))
  /\ UNCHANGED <<m_IsTcpConnectOk, mon, open, wire, sent, stream, ends, connections>>
  /\ UNCHANGED <<ring, ret, output>>

RcvWakes ==
  /\ pc = "down"
  /\ pc' = "check"
  /\ UNCHANGED <<link, ring, ret, parser, output>>

\* read() returns some of the bytes, all of which go to the ring buffer
RcvRead ==
  /\ pc = "read"
  /\ \E n \in 1 .. Len(wire) :
       /\ n <= MAX_LEN
       /\ Ring!Put(SubSeq(wire, 1, n))
       /\ wire' = SubSeq(wire, n + 1, Len(wire))
  /\ pc' = "bytes"
  /\ UNCHANGED <<m_IsTcpConnectOk, mon, open, sent, stream, ends, connections, mixed, parser, output>>

\* select() waits in vain, on a connection or on a socket that is being dialled
RcvTimeout ==
  /\ pc = "read" /\ wire = <<>> /\ (open \/ mon = "connect")
  /\ pc' = "check"
  /\ UNCHANGED <<link, ring, ret, parser, output>>

\* the server closed the connection, or the socket is not connected
RcvFail ==
  /\ pc = "read" /\ wire = <<>> /\ ~open
  /\ pc' = "clear"
  /\ UNCHANGED <<link, ring, ret, parser, output>>

RcvClear ==
  /\ pc = "clear"
  /\ pc' = "check"
  /\ m_IsTcpConnectOk' = FALSE
  /\ UNCHANGED <<mon, open, wire, sent, stream, ends, connections, mixed>>
  /\ UNCHANGED <<ring, ret, parser, output>>

\* one byte from the ring buffer through the parser
RcvByte ==
  /\ pc = "bytes" /\ ring # <<>>
  /\ Ring!Get(1)
  /\ LET lCh == ret'.bytes[1]
     IN  /\ parser' = Parsed(lCh)
         /\ IF IsComplete(lCh)
            THEN LET packet == Append(parser.data, lCh)
                 IN  delivered' = Append(delivered, packet) /\ handed' = handed \o packet
            ELSE UNCHANGED output
  /\ UNCHANGED <<link, pc>>

\* nothing left in the ring buffer
RcvDone ==
  /\ pc = "bytes" /\ ring = <<>>
  /\ Ring!Get(1)
  /\ pc' = "check"
  /\ UNCHANGED <<link, parser, output>>

RecvThread ==
  \/ RcvSeesUp \/ RcvSeesDown \/ RcvWakes \/ RcvRead \/ RcvTimeout \/ RcvFail
  \/ RcvClear \/ RcvByte \/ RcvDone

-----------------------------------------------------------------------------
(* The other threads, and the server *)

\* a heartbeat timeout, a failed send or a reconfiguration marks the connection down
MarkedDown ==
  /\ m_IsTcpConnectOk
  /\ m_IsTcpConnectOk' = FALSE
  /\ UNCHANGED <<mon, open, wire, sent, stream, ends, connections, mixed>>
  /\ UNCHANGED <<pc, ring, ret, parser, output>>

\* the monitor replaces the socket, wherever the receive thread is; what was under way on
\* the old one is gone
MonRenew ==
  /\ mon = "check" /\ ~m_IsTcpConnectOk
  /\ mon' = "connect"
  /\ open' = FALSE /\ wire' = <<>>
  /\ UNCHANGED <<m_IsTcpConnectOk, sent, stream, ends, connections, mixed>>
  /\ UNCHANGED <<pc, ring, ret, parser, output>>

\* the last connect() fails as well
MonConnectFail ==
  /\ mon = "connect"
  /\ mon' = "check"
  /\ UNCHANGED <<m_IsTcpConnectOk, open, wire, sent, stream, ends, connections, mixed>>
  /\ UNCHANGED <<pc, ring, ret, parser, output>>

\* a connection is made, and carries bytes, while GS_TCP_ConnectRetry sleeps
MonConnectOk ==
  /\ mon = "connect"
  /\ connections < MaxConnections
  /\ connections' = connections + 1
  /\ mon' = "publish"
  /\ open' = TRUE
  /\ wire' = <<>> /\ sent' = <<>> /\ delivered' = <<>>
  /\ stream' = <<>> /\ handed' = <<>> /\ ends' = <<>>
  /\ mixed' = (pc # "down" /\ (parser.data # <<>> \/ ring # <<>>))
  /\ UNCHANGED <<m_IsTcpConnectOk, pc, ring, ret, parser>>

MonPublish ==
  /\ mon = "publish"
  /\ mon' = "check"
  /\ m_IsTcpConnectOk' = TRUE
  /\ UNCHANGED <<open, wire, sent, stream, ends, connections, mixed>>
  /\ UNCHANGED <<pc, ring, ret, parser, output>>

Monitor == MonRenew \/ MonConnectFail \/ MonConnectOk \/ MonPublish

ServerSends(p) ==
  /\ open
  /\ Len(sent) < MaxSent
  /\ sent' = Append(sent, p)
  /\ stream' = stream \o p /\ wire' = wire \o p
  /\ ends' = Append(ends, Len(stream'))
  /\ UNCHANGED <<m_IsTcpConnectOk, mon, open, connections, mixed, pc, ring, ret, parser, output>>

\* the end of what was sent may be lost
ServerCloses ==
  /\ open
  /\ open' = FALSE
  /\ \E n \in 0 .. Len(wire) : wire' = SubSeq(wire, 1, n)
  /\ UNCHANGED <<m_IsTcpConnectOk, mon, sent, stream, ends, connections, mixed>>
  /\ UNCHANGED <<pc, ring, ret, parser, output>>

Next ==
  \/ RecvThread
  \/ Monitor
  \/ MarkedDown \/ ServerCloses
  \/ \E p \in Packets : ServerSends(p)

Spec == Init /\ [][Next]_vars

\* the operating system schedules the receive thread
FairSpec == Spec /\ WF_vars(RecvThread)

-----------------------------------------------------------------------------
(* Properties *)

\* Every variable keeps its type, and a packet never outgrows plValidData unless what the
\* parser took for its length may have been another byte.
TypeOK ==
  /\ m_IsTcpConnectOk \in BOOLEAN /\ open \in BOOLEAN
  /\ mon \in {"check", "connect", "publish"}
  /\ pc \in {"check", "read", "bytes", "clear", "down"}
  /\ ring \in Seq(Byte) /\ wire \in Seq(Byte)
  /\ parser \in [lIsReadContent : BOOLEAN, lIsReadHeaderRemData : BOOLEAN,
                 lIsReadHeaderTag2 : BOOLEAN, lValidPackLen : Byte, data : Seq(Byte)]
  /\ ~ mixed => Len(parser.data) < MAX_LEN
  /\ Len(sent) <= MaxSent
  /\ mixed \in BOOLEAN

\* "Solves the sticky and split packets" (Changelog.txt:37): however read() cuts the
\* stream, what is handed on are the packets of this connection, whole and in order; all
\* but those of a connection that was made before the thread was done with the last one,
\* or whose first bytes it read and threw away before the flag was raised.
PacketsAreThoseSent == ~ mixed => IsPrefix(delivered, sent)

\* the flag is up, or will be: the monitor does not replace the connection
Current == m_IsTcpConnectOk \/ mon = "publish"

\* the thread reads this connection, or may come to
Reading == Current \/ pc \in {"read", "bytes"}

\* No byte of an open connection is lost on the way through the ring buffer and
\* the parser, from the moment it is made: delivered packets, the packet being read, the
\* ring and the wire together are what the server sent.
NoByteLost ==
  Current /\ open /\ ~ mixed => handed \o parser.data \o ring \o wire = stream

\* the number of packets that end at or before this place in the stream
Within(place) ==
  CHOOSE n \in 0 .. Len(ends) : \A i \in 1 .. Len(ends) : i <= n <=> ends[i] <= place

\* of the packets sent: how many the thread has read whole, and how many are left whole
ReadWhole == Within(Len(handed) + Len(parser.data) + Len(ring))
LeftWhole == Within(Len(handed) + Len(parser.data) + Len(ring) + Len(wire))

\* what nobody will read is not under way
WholeOnWire == IF mixed \/ ~ Reading THEN <<>> ELSE SubSeq(sent, ReadWhole + 1, LeftWhole)
WholeInHand == IF mixed THEN <<>> ELSE SubSeq(sent, Len(delivered) + 1, ReadWhole)

\* The bytes on the wire, in the ring buffer and in the parser are what GsTcp takes them
\* for: whole packets under way, and a chunk of whole packets handed on one by one,
\* wherever read() cuts the stream and wherever a connection breaks off.
Arrivals == INSTANCE PacketArrivals WITH
  Packet <- Packets, wire <- WholeOnWire, chunk <- WholeInHand, blurred <- mixed
ImplementsArrivals == Arrivals!Spec

\* A packet the server has sent is handed on, unless the connection goes down first.
SentIsDelivered ==
  \A n \in 1 .. MaxSent :
    (m_IsTcpConnectOk /\ open /\ Len(sent) >= n)
      ~> (Len(delivered) >= n \/ ~m_IsTcpConnectOk \/ ~open \/ mixed)
=============================================================================
