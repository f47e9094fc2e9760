------------------------- MODULE PacketFramer_proofs -------------------------
(***************************************************************************)
(* What holds of the receive thread's parser for every set of bytes and    *)
(* packets, every length of header and buffer, and every number of packets *)
(* and connections: however read() cuts the stream, the packets handed on  *)
(* are those sent and no byte is lost.  The argument follows the place in  *)
(* the stream: what was handed on, what the parser, the ring buffer and    *)
(* the wire hold are together how the stream begins, and what the parser   *)
(* knows is what it must know at its place in the packet.                  *)
(***************************************************************************)
EXTENDS PacketFramer, SequenceTheorems, WellFoundedInduction, TLAPS

USE HeaderAssumption, BoundAssumption

\* The types of the connection's variables, and of the thread's.
LinkType ==
  /\ m_IsTcpConnectOk \in BOOLEAN /\ open \in BOOLEAN /\ mixed \in BOOLEAN
  /\ mon \in {"check", "connect", "publish"}
  /\ wire \in Seq(Byte) /\ stream \in Seq(Byte)
  /\ sent \in Seq(Packets) /\ Len(sent) <= MaxSent

ParserType ==
  parser \in [lIsReadContent : BOOLEAN, lIsReadHeaderRemData : BOOLEAN,
              lIsReadHeaderTag2 : BOOLEAN, lValidPackLen : Byte, data : Seq(Byte)]

ThreadType ==
  /\ pc \in {"check", "read", "bytes", "clear", "down"}
  /\ ring \in Seq(Byte) /\ ParserType
  /\ handed \in Seq(Byte) /\ delivered \in Seq(Seq(Byte))

\* The ring buffer is empty between chunks, and a parser that holds nothing is reset.
ThreadInv ==
  /\ ring # <<>> => pc = "bytes"
  /\ parser.data = <<>> => parser = ParserReset
  /\ pc = "down" => parser = ParserReset

\* The stream is the packets sent, packet i the bytes after place c[i] up to c[i + 1].
Cuts(c) ==
  /\ Len(c) = Len(sent) + 1 /\ c[1] = 0 /\ c[Len(sent) + 1] = Len(stream)
  /\ \A i \in 1 .. Len(sent) :
       /\ c[i + 1] = c[i] + Len(sent[i]) /\ c[i + 1] <= Len(stream)
       /\ \A j \in 1 .. Len(sent[i]) : stream[c[i] + j] = sent[i][j]

\* What was handed on is the first packets, as packets and as bytes.
HandedOn ==
  /\ Len(delivered) <= Len(sent)
  /\ \A i \in 1 .. Len(delivered) : delivered[i] = sent[i]
  /\ \E c \in Seq(Nat) : Cuts(c) /\ Len(handed) = c[Len(delivered) + 1]

\* What the parser knows when it has read a part of this packet.
PlaceIn(state, packet) ==
  LET d == Len(state.data)
  IN  /\ d < Len(packet)
      /\ d = 1 => ~ state.lIsReadContent /\ ~ state.lIsReadHeaderRemData /\ state.lIsReadHeaderTag2
      /\ 1 < d /\ d < HEADER => ~ state.lIsReadContent /\ state.lIsReadHeaderRemData
      /\ d >= HEADER => state.lIsReadContent /\ state.lValidPackLen = Len(packet)

\* The parser is reading the first packet not handed on, if any.
InPlace ==
  parser.data # <<>> =>
    Len(delivered) < Len(sent) /\ PlaceIn(parser, sent[Len(delivered) + 1])

\* The bytes that have not been lost.
Got == handed \o parser.data \o ring \o wire

\* s is how t begins.
Begins(s, t) == Len(s) <= Len(t) /\ \A j \in 1 .. Len(s) : s[j] = t[j]

\* As long as anybody reads them, the bytes not lost are how the stream begins.
Follows == Reading => Begins(Got, stream) /\ (open => Len(Got) = Len(stream))

OrderInv == ~ mixed => HandedOn /\ InPlace /\ Follows

\* The inductive invariant.
FramerInv == LinkType /\ ThreadType /\ ThreadInv /\ OrderInv

-----------------------------------------------------------------------------
\* One byte of a packet through the parser: the last one completes the packet, any
\* other one leaves the parser where it must be.
LEMMA ParserReads ==
  ASSUME ParserType, parser.data = <<>> => parser = ParserReset,
         NEW packet \in Packets, Len(parser.data) < Len(packet),
         parser.data # <<>> => PlaceIn(parser, packet),
         NEW ch \in Byte, ch = packet[Len(parser.data) + 1]
  PROVE  /\ IsComplete(ch) => Len(parser.data) + 1 = Len(packet)
         /\ ~ IsComplete(ch) => /\ Parsed(ch).data = Append(parser.data, ch)
                                /\ PlaceIn(Parsed(ch), packet)
<1> DEFINE d == Len(parser.data)
           more == Append(parser.data, ch)
<1>1. /\ packet \in Seq(Byte) /\ Len(packet) > HEADER
      /\ packet[1] = TAG1 /\ packet[2] = TAG2 /\ packet[HEADER] = Len(packet)
  BY PacketAssumption
<1>2. /\ parser.data \in Seq(Byte) /\ d \in Nat /\ Len(packet) \in Nat
      /\ parser.data = <<>> <=> d = 0
  BY <1>1, LenProperties, EmptySeq DEF ParserType
<1>3. Len(more) = d + 1 /\ more \in Seq(Byte)
  BY <1>2, AppendProperties
<1>4. /\ Filled(ch).data = more
      /\ Filled(ch).lIsReadContent = parser.lIsReadContent
      /\ Filled(ch).lIsReadHeaderRemData = parser.lIsReadHeaderRemData
      /\ Filled(ch).lIsReadHeaderTag2 = parser.lIsReadHeaderTag2
      /\ Filled(ch).lValidPackLen = parser.lValidPackLen
  BY DEF Filled, ParserType
<1>5. CASE d = 0
  <2>1. parser = ParserReset /\ ch = TAG1
    BY <1>1, <1>2, <1>5
  <2>2. ~ IsComplete(ch) /\ Parsed(ch) = Tag1(ch)
    BY <2>1 DEF IsComplete, Parsed, ParserReset
  <2>3. /\ Tag1(ch).data = <<ch>> /\ Tag1(ch).lIsReadHeaderTag2
        /\ ~ Tag1(ch).lIsReadContent /\ ~ Tag1(ch).lIsReadHeaderRemData
    BY <2>1 DEF Tag1, ParserReset
  <2>4. <<ch>> = more /\ Len(<<ch>>) = 1
    BY <2>1 DEF ParserReset
  <2> QED
    BY <1>1, <1>2, <2>2, <2>3, <2>4 DEF PlaceIn
<1>6. CASE d = 1
  <2>1. ~ parser.lIsReadContent /\ ~ parser.lIsReadHeaderRemData /\ parser.lIsReadHeaderTag2
    BY <1>2, <1>6 DEF PlaceIn
  <2>2. ch = TAG2
    BY <1>1, <1>6
  <2>3. ~ IsComplete(ch) /\ Parsed(ch) = Tag2(ch)
    BY <2>1 DEF IsComplete, Parsed
  <2>4. /\ Tag2(ch).data = more /\ Tag2(ch).lIsReadHeaderRemData
        /\ ~ Tag2(ch).lIsReadContent
    BY <1>4, <2>1, <2>2 DEF Tag2, Filled, ParserType
  <2> QED
    BY <1>1, <1>2, <1>3, <1>6, <2>3, <2>4 DEF PlaceIn
<1>7. CASE 1 < d /\ d < HEADER
  <2>1. ~ parser.lIsReadContent /\ parser.lIsReadHeaderRemData
    BY <1>2, <1>7 DEF PlaceIn
  <2>2. ~ IsComplete(ch) /\ Parsed(ch) = RemData(ch)
    BY <2>1 DEF IsComplete, Parsed
  <2>3. CASE d + 1 = HEADER
    <3>1. ch = Len(packet)
      BY <1>1, <2>3
    <3>2. /\ RemData(ch).data = more /\ RemData(ch).lIsReadContent
          /\ RemData(ch).lValidPackLen = Len(packet)
      BY <1>4, <2>3, <3>1 DEF RemData, Filled, ParserType
    <3> QED
      BY <1>1, <1>2, <1>3, <1>7, <2>2, <2>3, <3>2 DEF PlaceIn
  <2>4. CASE d + 1 # HEADER
    <3>1. /\ RemData(ch).data = more /\ RemData(ch).lIsReadHeaderRemData
          /\ ~ RemData(ch).lIsReadContent
      BY <1>4, <2>1, <2>4 DEF RemData
    <3> QED
      BY <1>1, <1>2, <1>3, <1>7, <2>2, <2>4, <3>1 DEF PlaceIn
  <2> QED
    BY <2>3, <2>4
<1>8. CASE d >= HEADER
  <2>1. parser.lIsReadContent /\ parser.lValidPackLen = Len(packet)
    BY <1>2, <1>8 DEF PlaceIn
  <2>2. IsComplete(ch) <=> d + 1 = Len(packet)
    BY <2>1 DEF IsComplete
  <2>3. ~ IsComplete(ch) => Parsed(ch) = Filled(ch) /\ d + 1 < Len(packet)
    BY <1>2, <2>1, <2>2 DEF Parsed
  <2>4. d + 1 < Len(packet) => PlaceIn(Filled(ch), packet)
    BY <1>2, <1>3, <1>4, <1>8, <2>1 DEF PlaceIn
  <2> QED
    BY <1>4, <2>2, <2>3, <2>4
<1>9. d \in Nat
  BY <1>2
<1> HIDE DEF d
<1>10. d = 0 \/ d = 1 \/ (1 < d /\ d < HEADER) \/ d >= HEADER
  BY <1>9
<1> QED
  BY <1>5, <1>6, <1>7, <1>8, <1>10, Zenon

-----------------------------------------------------------------------------
\* Whatever the byte and whatever the parser holds, it keeps its type, and holds
\* nothing only when it is reset.
LEMMA ParserKeepsType ==
  ASSUME ParserType, parser.data = <<>> => parser = ParserReset, NEW ch \in Byte
  PROVE  /\ Parsed(ch) \in [lIsReadContent : BOOLEAN, lIsReadHeaderRemData : BOOLEAN,
                            lIsReadHeaderTag2 : BOOLEAN, lValidPackLen : Byte, data : Seq(Byte)]
         /\ Parsed(ch).data = <<>> => Parsed(ch) = ParserReset
<1> DEFINE State == [lIsReadContent : BOOLEAN, lIsReadHeaderRemData : BOOLEAN,
                     lIsReadHeaderTag2 : BOOLEAN, lValidPackLen : Byte, data : Seq(Byte)]
           Good(state) == state \in State /\ (state.data = <<>> => state = ParserReset)
           more == Append(parser.data, ch)
<1>1. parser \in State /\ parser.data \in Seq(Byte) /\ Good(parser)
  BY DEF ParserType
<1>2. more \in Seq(Byte) /\ more # <<>> /\ <<ch>> \in Seq(Byte) /\ <<ch>> # <<>>
  BY <1>1, AppendProperties
<1>3. ParserReset \in State /\ Good(ParserReset)
  BY DEF ParserReset
<1>4. Filled(ch) \in State /\ Filled(ch).data # <<>>
  BY <1>1, <1>2 DEF Filled
<1>5. Good(Tag1(ch))
  <2>1. CASE ch = TAG1
    BY <1>1, <1>2, <2>1 DEF Tag1
  <2>2. CASE ch # TAG1
    BY <1>1, <2>2 DEF Tag1
  <2> QED
    BY <2>1, <2>2
<1>6. parser.data # <<>> => Good(Tag2(ch))
  <2>1. CASE ch = TAG2
    BY <1>4, <2>1 DEF Tag2
  <2>2. CASE ch # TAG2
    BY <1>1, <2>2 DEF Tag2
  <2> QED
    BY <2>1, <2>2
<1>7. Good(RemData(ch))
  <2>1. CASE Len(parser.data) + 1 = HEADER
    BY <1>4, <2>1 DEF RemData
  <2>2. CASE Len(parser.data) + 1 # HEADER
    BY <1>4, <2>2 DEF RemData
  <2> QED
    BY <2>1, <2>2
<1>8. parser.data = <<>> => ~ parser.lIsReadHeaderTag2
  BY DEF ParserReset
<1> HIDE DEF Good
<1>9. Good(Parsed(ch))
  <2>1. CASE IsComplete(ch)
    BY <1>3, <2>1 DEF Parsed
  <2>2. CASE ~ IsComplete(ch) /\ parser.lIsReadContent
    <3>1. Good(Filled(ch))
      BY <1>4 DEF Good
    <3> QED
      BY <2>2, <3>1 DEF Parsed
  <2>3. CASE ~ IsComplete(ch) /\ ~ parser.lIsReadContent
    BY <1>5, <1>6, <1>7, <1>8, <2>3 DEF Parsed
  <2> QED
    BY <2>1, <2>2, <2>3
<1> QED
  BY <1>9 DEF Good

\* One byte taken from the ring buffer is the oldest one.
LEMMA GetsByte ==
  ASSUME ring \in Seq(Byte), ring # <<>>, Ring!Get(1)
  PROVE  /\ ret'.bytes[1] = ring[1] /\ ring[1] \in Byte
         /\ ring' \in Seq(Byte) /\ <<ring[1]>> \o ring' = ring
<1>1. Len(ring) \in Nat \ {0}
  BY EmptySeq
<1>2. ring[1] \in Byte /\ 1 \in 1 .. Len(ring)
  BY <1>1, ElementOfSeq
<1>3. ring' = SubSeq(ring, 1 + 1, Len(ring)) /\ ret'.bytes = SubSeq(ring, 1, 1)
  <2>1. Ring!AtMost(Len(ring), 1) = 1
    BY <1>1 DEF Ring!AtMost
  <2>2. ret' = [len |-> 1, bytes |-> SubSeq(ring, 1, 1)]
    BY <2>1 DEF Ring!Get
  <2>3. ring' = SubSeq(ring, Ring!AtMost(Len(ring), 1) + 1, Len(ring))
    BY DEF Ring!Get
  <2>4. ret'.bytes = SubSeq(ring, 1, 1)
    BY <2>2
  <2> QED
    BY <2>1, <2>3, <2>4
<1>4. Len(SubSeq(ring, 1, 1)) = 1 /\ SubSeq(ring, 1, 1)[1] = ring[1]
  BY <1>1, <1>2, SubSeqProperties
<1>5. ring' \in Seq(Byte)
  <2>1. \A i \in 2 .. Len(ring) : ring[i] \in Byte
    BY <1>1, ElementOfSeq
  <2> QED
    BY <1>1, <1>3, <2>1, SubSeqProperties
<1>6. SubSeq(ring, 1, Len(ring)) = <<ring[1]>> \o SubSeq(ring, 1 + 1, Len(ring))
  BY <1>1, <1>2, SubSeqRecursiveFirst
<1>7. SubSeq(ring, 1, Len(ring)) = ring
  BY SubSeqFull
<1>8. ret'.bytes[1] = ring[1]
  BY <1>3, <1>4, Zenon
<1>9. <<ring[1]>> \o ring' = ring
  <2> DEFINE rest == SubSeq(ring, 1 + 1, Len(ring))
             all == SubSeq(ring, 1, Len(ring))
  <2>1. ring' = rest
    BY <1>3, Zenon
  <2>2. all = <<ring[1]>> \o rest
    BY <1>6, Zenon
  <2>3. all = ring
    BY <1>7, Zenon
  <2> HIDE DEF rest, all
  <2> QED
    BY <2>1, <2>2, <2>3
<1> QED
  BY <1>2, <1>5, <1>8, <1>9, Zenon

\* A chunk moves from the wire to the ring buffer, whole.
LEMMA PutsChunk ==
  ASSUME ring = <<>>, wire \in Seq(Byte), NEW n \in 1 .. Len(wire), n <= MAX_LEN,
         Ring!Put(SubSeq(wire, 1, n)), wire' = SubSeq(wire, n + 1, Len(wire))
  PROVE  ring' \in Seq(Byte) /\ wire' \in Seq(Byte) /\ ring' \o wire' = wire
<1> DEFINE chunk == SubSeq(wire, 1, n)
<1>1. Len(wire) \in Nat /\ n \in Nat /\ \A i \in 1 .. Len(wire) : wire[i] \in Byte
  BY ElementOfSeq
<1>2. chunk \in Seq(Byte) /\ Len(chunk) = n
  BY <1>1, SubSeqProperties
<1>3. wire' \in Seq(Byte)
  BY <1>1, SubSeqProperties
<1>4. SubSeq(chunk, 1, n) = chunk
  BY <1>2, SubSeqFull
<1>5. Ring!AtMost(2 * MAX_LEN - Len(ring), Len(chunk)) = n
  BY <1>1, <1>2 DEF Ring!AtMost
<1>6. ring' = ring \o SubSeq(chunk, 1, n)
  BY <1>5 DEF Ring!Put
<1>7. ring' = chunk
  BY <1>2, <1>4, <1>6, ConcatEmptySeq
<1>8. chunk \o SubSeq(wire, n + 1, Len(wire)) = SubSeq(wire, 1, Len(wire))
  BY <1>1, ConcatAdjacentSubSeq
<1>9. SubSeq(wire, 1, Len(wire)) = wire
  BY SubSeqFull
<1> QED
  BY <1>2, <1>3, <1>7, <1>8, <1>9, Zenon

-----------------------------------------------------------------------------
\* The parts of the invariant in steps that leave their variables alone.
LEMMA UnchangedTypes ==
  ASSUME LinkType, ThreadType
  PROVE  /\ UNCHANGED link => LinkType'
         /\ UNCHANGED <<ring, parser, output>> =>
              (ThreadType' <=> pc' \in {"check", "read", "bytes", "clear", "down"})
<1>1. UNCHANGED link => LinkType'
  BY DEF link, LinkType
<1>2. UNCHANGED <<ring, parser, output>> =>
        (ThreadType' <=> pc' \in {"check", "read", "bytes", "clear", "down"})
  BY DEF output, ThreadType, ParserType
<1> QED
  BY <1>1, <1>2

\* The thread's steps, one by one, keep the types, and the ring buffer empty between
\* chunks.
LEMMA ThreadKeepsTypes ==
  ASSUME LinkType, ThreadType, ThreadInv, RecvThread
  PROVE  LinkType' /\ ThreadType' /\ ThreadInv'
<1>1. CASE RcvSeesUp \/ RcvTimeout \/ RcvFail
  BY <1>1, UnchangedTypes DEF RcvSeesUp, RcvTimeout, RcvFail, ThreadInv, output
<1>2. CASE RcvWakes
  BY <1>2, UnchangedTypes DEF RcvWakes, ThreadInv, output
<1>3. CASE RcvSeesDown
  <2>1. ParserReset \in [lIsReadContent : BOOLEAN, lIsReadHeaderRemData : BOOLEAN,
                         lIsReadHeaderTag2 : BOOLEAN, lValidPackLen : Byte, data : Seq(Byte)]
    BY DEF ParserReset
  <2>2. ThreadType'
    BY <1>3, <2>1 DEF RcvSeesDown, ThreadType, ParserType, output
  <2>3. ThreadInv'
    BY <1>3 DEF RcvSeesDown, ThreadInv
  <2>4. mixed' \in BOOLEAN
    BY <1>3 DEF RcvSeesDown, LinkType
  <2> QED
    BY <1>3, <2>2, <2>3, <2>4 DEF RcvSeesDown, LinkType
<1>4. CASE RcvRead
  <2>1. ring = <<>>
    BY <1>4 DEF RcvRead, ThreadInv
  <2>2. ring' \in Seq(Byte) /\ wire' \in Seq(Byte)
    BY <1>4, <2>1, PutsChunk DEF RcvRead, LinkType
  <2> QED
    BY <1>4, <2>2 DEF RcvRead, LinkType, ThreadType, ParserType, ThreadInv, output
<1>5. CASE RcvClear
  BY <1>5, UnchangedTypes DEF RcvClear, LinkType, ThreadInv, output
<1>6. CASE RcvByte
  <2>1. /\ ret'.bytes[1] = ring[1] /\ ring[1] \in Byte
        /\ ring' \in Seq(Byte) /\ <<ring[1]>> \o ring' = ring
    BY <1>6, GetsByte DEF RcvByte, ThreadType
  <2>2. parser' = Parsed(ring[1])
    BY <1>6, <2>1 DEF RcvByte
  <2>3. ParserType' /\ (parser'.data = <<>> => parser' = ParserReset)
    BY <2>1, <2>2, ParserKeepsType DEF ThreadType, ThreadInv, ParserType
  <2>4. delivered' \in Seq(Seq(Byte)) /\ handed' \in Seq(Byte)
    <3> DEFINE packet == Append(parser.data, ring[1])
    <3>1. packet \in Seq(Byte)
      BY <2>1, AppendProperties DEF ThreadType, ParserType
    <3>2. \/ UNCHANGED output
          \/ delivered' = Append(delivered, packet) /\ handed' = handed \o packet
      BY <1>6, <2>1 DEF RcvByte
    <3> HIDE DEF packet
    <3>3. Append(delivered, packet) \in Seq(Seq(Byte)) /\ handed \o packet \in Seq(Byte)
      BY <3>1, AppendProperties, ConcatProperties DEF ThreadType
    <3> QED
      BY <3>2, <3>3 DEF output, ThreadType
  <2>5. UNCHANGED <<link, pc>> /\ pc = "bytes"
    BY <1>6 DEF RcvByte
  <2>6. ThreadType'
    BY <2>1, <2>3, <2>4, <2>5 DEF ThreadType
  <2>7. ThreadInv'
    BY <2>3, <2>5 DEF ThreadInv
  <2> QED
    BY <2>5, <2>6, <2>7, UnchangedTypes
<1>7. CASE RcvDone
  <2>1. UNCHANGED <<link, parser, output>> /\ pc' = "check" /\ ring' = <<>>
    <3>1. ring = <<>> /\ Len(ring) = 0
      BY <1>7, EmptySeq DEF RcvDone
    <3>2. ring' = SubSeq(ring, Ring!AtMost(Len(ring), 1) + 1, Len(ring))
      BY <1>7 DEF RcvDone, Ring!Get
    <3>3. Ring!AtMost(Len(ring), 1) + 1 = 1
      BY <3>1 DEF Ring!AtMost
    <3>4. SubSeq(ring, 1, 0) = <<>>
      BY SubSeqEmpty
    <3> QED
      BY <1>7, <3>1, <3>2, <3>3, <3>4 DEF RcvDone
  <2> QED
    BY <2>1, UnchangedTypes DEF ThreadType, ThreadInv, ParserType, output
<1> QED
  BY <1>1, <1>2, <1>3, <1>4, <1>5, <1>6, <1>7 DEF RecvThread

\* So do the other threads and the server.
LEMMA OthersKeepTypes ==
  ASSUME LinkType, ThreadType, ThreadInv,
         \/ Monitor \/ MarkedDown \/ ServerCloses \/ \E p \in Packets : ServerSends(p)
  PROVE  LinkType' /\ ThreadType' /\ ThreadInv'
<1>1. CASE MarkedDown
  BY <1>1 DEF MarkedDown, LinkType, ThreadType, ParserType, ThreadInv, output
<1>2. CASE Monitor
  <2>1. <<>> \in Seq(Byte) /\ <<>> \in Seq(Packets) /\ <<>> \in Seq(Seq(Byte)) /\ Len(<<>>) = 0
    BY EmptySeq
  <2>2. CASE MonRenew
    BY <2>1, <2>2 DEF MonRenew, LinkType, ThreadType, ParserType, ThreadInv, output
  <2>3. CASE MonConnectFail \/ MonPublish
    BY <2>3 DEF MonConnectFail, MonPublish, LinkType, ThreadType, ParserType, ThreadInv, output
  <2>4. CASE MonConnectOk
    <3>1. /\ wire' = <<>> /\ sent' = <<>> /\ stream' = <<>> /\ open' = TRUE /\ mon' = "publish"
          /\ delivered' = <<>> /\ handed' = <<>>
          /\ UNCHANGED <<m_IsTcpConnectOk, pc, ring, ret, parser>>
      BY <2>4 DEF MonConnectOk
    <3>2. mixed' \in BOOLEAN
      BY <2>4, Zenon DEF MonConnectOk
    <3>3. LinkType'
      BY <2>1, <3>1, <3>2 DEF LinkType
    <3>4. ThreadType' /\ ThreadInv'
      BY <2>1, <3>1 DEF ThreadType, ParserType, ThreadInv
    <3> QED
      BY <3>3, <3>4
  <2> QED
    BY <1>2, <2>2, <2>3, <2>4 DEF Monitor
<1>3. CASE ServerCloses
  <2>1. wire' \in Seq(Byte)
    <3>1. PICK n \in 0 .. Len(wire) : wire' = SubSeq(wire, 1, n)
      BY <1>3 DEF ServerCloses
    <3>2. Len(wire) \in Nat /\ \A i \in 1 .. Len(wire) : wire[i] \in Byte
      BY ElementOfSeq DEF LinkType
    <3> QED
      BY <3>1, <3>2, SubSeqProperties
  <2> QED
    BY <1>3, <2>1 DEF ServerCloses, LinkType, ThreadType, ParserType, ThreadInv, output
<1>4. CASE \E p \in Packets : ServerSends(p)
  <2>1. PICK p \in Packets : ServerSends(p)
    BY <1>4
  <2>2. p \in Seq(Byte)
    BY PacketAssumption
  <2>3. stream \o p \in Seq(Byte) /\ wire \o p \in Seq(Byte)
    BY <2>2, ConcatProperties DEF LinkType
  <2>4. Append(sent, p) \in Seq(Packets) /\ Len(Append(sent, p)) = Len(sent) + 1
    BY AppendProperties DEF LinkType
  <2>5. Len(sent) \in Nat
    BY LenProperties DEF LinkType
  <2>6. LinkType'
    BY <2>1, <2>3, <2>4, <2>5 DEF ServerSends, LinkType
  <2> QED
    BY <2>1, <2>6 DEF ServerSends, ThreadType, ParserType, ThreadInv, output
<1> QED
  BY <1>1, <1>2, <1>3, <1>4

-----------------------------------------------------------------------------
\* Strings of bytes may be joined in any order of the joins.
LEMMA BytesAssociative ==
  ASSUME NEW s \in Seq(Byte), NEW t \in Seq(Byte), NEW u \in Seq(Byte)
  PROVE  (s \o t) \o u = s \o (t \o u)
  BY ConcatAssociative, SMTT(30)

\* Four strings of bytes joined, from the left or from the right.
LEMMA JoinedFour ==
  ASSUME NEW a \in Seq(Byte), NEW b \in Seq(Byte), NEW c \in Seq(Byte), NEW d \in Seq(Byte)
  PROVE  /\ a \o b \o c \o d \in Seq(Byte)
         /\ Len(a \o b \o c \o d) = Len(a) + Len(b) + Len(c) + Len(d)
         /\ a \o b \o c \o d = a \o b \o (c \o d)
         /\ a \o b \o c \o d = a \o (b \o (c \o d))
<1>1. /\ a \o b \in Seq(Byte) /\ Len(a \o b) = Len(a) + Len(b)
      /\ c \o d \in Seq(Byte) /\ Len(c \o d) = Len(c) + Len(d)
  BY ConcatProperties
<1>2. a \o b \o c \in Seq(Byte) /\ Len(a \o b \o c) = Len(a \o b) + Len(c)
  BY <1>1, ConcatProperties
<1>3. a \o b \o c \o d \in Seq(Byte) /\ Len(a \o b \o c \o d) = Len(a \o b \o c) + Len(d)
  BY <1>2, ConcatProperties
<1>4. (a \o b \o c) \o d = (a \o b) \o (c \o d)
  <2> DEFINE ab == a \o b
  <2>1. ab \in Seq(Byte)
    BY <1>1
  <2> HIDE DEF ab
  <2>2. (ab \o c) \o d = ab \o (c \o d)
    BY <2>1, BytesAssociative
  <2> QED
    BY <2>2, Zenon DEF ab
<1>5. (a \o b) \o (c \o d) = a \o (b \o (c \o d))
  <2> DEFINE cd == c \o d
  <2>1. cd \in Seq(Byte)
    BY <1>1
  <2> HIDE DEF cd
  <2>2. (a \o b) \o cd = a \o (b \o cd)
    BY <2>1, BytesAssociative, SMTT(30)
  <2> QED
    BY <2>2, Zenon DEF cd
<1>6. Len(a \o b \o c \o d) = Len(a) + Len(b) + Len(c) + Len(d)
  BY <1>1, <1>2, <1>3, Zenon
<1> QED
  BY <1>3, <1>4, <1>5, <1>6, Zenon

\* Where the second and the third of them lie.
LEMMA JoinedPlaces ==
  ASSUME NEW a \in Seq(Byte), NEW b \in Seq(Byte), NEW c \in Seq(Byte), NEW d \in Seq(Byte)
  PROVE  /\ \A j \in 1 .. Len(b) : (a \o b \o c \o d)[Len(a) + j] = b[j]
         /\ c # <<>> => (a \o b \o c \o d)[Len(a) + Len(b) + 1] = c[1]
<1> DEFINE ab == a \o b
           cd == c \o d
<1>1. /\ ab \in Seq(Byte) /\ Len(ab) = Len(a) + Len(b)
      /\ \A i \in 1 .. Len(a) + Len(b) : ab[i] = IF i <= Len(a) THEN a[i] ELSE b[i - Len(a)]
  BY ConcatProperties
<1>2. /\ cd \in Seq(Byte) /\ Len(cd) = Len(c) + Len(d)
      /\ \A i \in 1 .. Len(c) + Len(d) : cd[i] = IF i <= Len(c) THEN c[i] ELSE d[i - Len(c)]
  BY ConcatProperties
<1>3. ab \o c \o d = ab \o (c \o d)
  <2>1. ab \in Seq(Byte)
    BY <1>1
  <2> HIDE DEF ab
  <2> QED
    BY <2>1, BytesAssociative
<1>4. /\ Len(a) \in Nat /\ Len(b) \in Nat /\ Len(c) \in Nat /\ Len(d) \in Nat
      /\ c # <<>> => Len(c) > 0
  BY LenProperties, EmptySeq
<1> HIDE DEF ab, cd
<1>5. \A i \in 1 .. Len(ab) + Len(cd) :
        (ab \o cd)[i] = IF i <= Len(ab) THEN ab[i] ELSE cd[i - Len(ab)]
  <2>1. ab \in Seq(Byte) /\ cd \in Seq(Byte)
    BY <1>1, <1>2
  <2> QED
    BY <2>1, ConcatProperties
<1> DEFINE g == ab \o cd
<1> HIDE DEF g
<1>6. ASSUME NEW j \in 1 .. Len(b)
      PROVE  g[Len(a) + j] = b[j]
  <2>1. ab[Len(a) + j] = b[j]
    <3>1. /\ Len(a) + j \in 1 .. Len(a) + Len(b) /\ ~ (Len(a) + j <= Len(a))
          /\ (Len(a) + j) - Len(a) = j
      BY <1>4
    <3> QED
      BY <1>1, <3>1
  <2>2. g[Len(a) + j] = ab[Len(a) + j]
    BY <1>1, <1>2, <1>4, <1>5 DEF g
  <2> QED
    BY <2>1, <2>2
<1>7. ASSUME c # <<>>
      PROVE  g[Len(a) + Len(b) + 1] = c[1]
  <2>1. cd[1] = c[1] /\ Len(cd) >= 1
    BY <1>2, <1>4, <1>7
  <2>2. g[Len(ab) + 1] = cd[1]
    BY <1>1, <1>2, <1>4, <1>5, <2>1 DEF g
  <2> QED
    BY <1>1, <2>1, <2>2
<1> QED
  BY <1>3, <1>6, <1>7 DEF g

\* What begins with two strings begins with the first.
LEMMA BeginsWithFirst ==
  ASSUME NEW s \in Seq(Byte), NEW t \in Seq(Byte), NEW u \in Seq(Byte), Begins(s \o t, u)
  PROVE  Begins(s, u)
<1>1. /\ Len(s) \in Nat /\ Len(t) \in Nat /\ Len(u) \in Nat
      /\ Len(s \o t) = Len(s) + Len(t)
      /\ \A i \in 1 .. Len(s) + Len(t) :
           (s \o t)[i] = IF i <= Len(s) THEN s[i] ELSE t[i - Len(s)]
  BY ConcatProperties, LenProperties
<1> QED
  BY <1>1 DEF Begins

\* The whole of a string is how it begins when both are continued alike.
LEMMA BeginsLonger ==
  ASSUME NEW s \in Seq(Byte), NEW u \in Seq(Byte), NEW t \in Seq(Byte),
         Begins(s, u), Len(s) = Len(u)
  PROVE  Begins(s \o t, u \o t) /\ Len(s \o t) = Len(u \o t)
<1>1. s = u
  BY SeqEqual DEF Begins
<1>2. s \o t \in Seq(Byte)
  BY ConcatProperties
<1>3. Len(s \o t) \in Nat
  BY <1>2, LenProperties
<1> QED
  BY <1>1, <1>3 DEF Begins

\* The types of what the thread follows.
LEMMA GotType ==
  ASSUME LinkType, ThreadType
  PROVE  /\ handed \in Seq(Byte) /\ parser.data \in Seq(Byte)
         /\ ring \in Seq(Byte) /\ wire \in Seq(Byte) /\ stream \in Seq(Byte)
         /\ Got \in Seq(Byte)
         /\ Len(Got) = Len(handed) + Len(parser.data) + Len(ring) + Len(wire)
         /\ Len(handed) \in Nat /\ Len(parser.data) \in Nat /\ Len(ring) \in Nat
         /\ Len(wire) \in Nat /\ Len(stream) \in Nat
         /\ Len(sent) \in Nat /\ Len(delivered) \in Nat
<1>1. /\ handed \in Seq(Byte) /\ parser.data \in Seq(Byte)
      /\ ring \in Seq(Byte) /\ wire \in Seq(Byte) /\ stream \in Seq(Byte)
      /\ sent \in Seq(Packets) /\ delivered \in Seq(Seq(Byte))
  BY DEF LinkType, ThreadType, ParserType
<1> QED
  BY <1>1, JoinedFour, LenProperties DEF Got

\* Where the parser's and the ring buffer's bytes lie among them.
LEMMA GotPlaces ==
  ASSUME LinkType, ThreadType
  PROVE  /\ \A j \in 1 .. Len(parser.data) : Got[Len(handed) + j] = parser.data[j]
         /\ ring # <<>> => Got[Len(handed) + Len(parser.data) + 1] = ring[1]
<1> DEFINE data == parser.data
<1>1. handed \in Seq(Byte) /\ data \in Seq(Byte) /\ ring \in Seq(Byte) /\ wire \in Seq(Byte)
  BY GotType
<1>2. Got = handed \o data \o ring \o wire
  BY DEF Got
<1> HIDE DEF data
<1>3. /\ \A j \in 1 .. Len(data) : (handed \o data \o ring \o wire)[Len(handed) + j] = data[j]
      /\ ring # <<>> => (handed \o data \o ring \o wire)[Len(handed) + Len(data) + 1] = ring[1]
  BY <1>1, JoinedPlaces
<1>4. /\ \A j \in 1 .. Len(data) : Got[Len(handed) + j] = data[j]
      /\ ring # <<>> => Got[Len(handed) + Len(data) + 1] = ring[1]
  BY <1>2, <1>3
<1> QED
  BY <1>4 DEF data

\* A step that moves no byte and makes no connection keeps the order.
LEMMA QuietStep ==
  ASSUME OrderInv, UNCHANGED <<handed, delivered, sent, stream, parser, ring, wire, mixed>>,
         Reading' => Reading, open' => open
  PROVE  OrderInv'
<1>1. HandedOn' <=> HandedOn
  BY DEF HandedOn, Cuts
<1>2. InPlace' <=> InPlace
  BY DEF InPlace, PlaceIn
<1>3. Got' = Got
  BY DEF Got
<1>4. Follows => Follows'
  BY <1>3 DEF Follows, Begins
<1> QED
  BY <1>1, <1>2, <1>4 DEF OrderInv

\* The byte at the head of the ring buffer is the next one of the packet being read.
LEMMA NextByte ==
  ASSUME LinkType, ThreadType, HandedOn, InPlace, Begins(Got, stream), ring # <<>>
  PROVE  /\ Len(delivered) < Len(sent)
         /\ sent[Len(delivered) + 1] \in Packets
         /\ Len(parser.data) < Len(sent[Len(delivered) + 1])
         /\ ring[1] = sent[Len(delivered) + 1][Len(parser.data) + 1]
         /\ \A j \in 1 .. Len(parser.data) : parser.data[j] = sent[Len(delivered) + 1][j]
<1> DEFINE k == Len(delivered)
           packet == sent[k + 1]
           h == Len(handed)
           d == Len(parser.data)
<1>1. PICK c \in Seq(Nat) : Cuts(c) /\ h = c[k + 1]
  BY DEF HandedOn
<1>2. Len(ring) \in Nat \ {0}
  BY GotType, EmptySeq
<1>3. h + d + 1 <= Len(Got) /\ h \in Nat /\ d \in Nat
  BY <1>2, GotType
<1>4. h + d + 1 <= Len(stream) /\ \A i \in 1 .. h + d + 1 : Got[i] = stream[i]
  BY <1>3, GotType DEF Begins
<1>5. k < Len(sent)
  <2>1. k <= Len(sent) /\ k \in Nat /\ Len(sent) \in Nat
    BY GotType DEF HandedOn
  <2>2. k # Len(sent)
    BY <1>1, <1>3, <1>4 DEF Cuts
  <2> QED
    BY <2>1, <2>2
<1>6. k + 1 \in 1 .. Len(sent)
  BY <1>5, GotType
<1>7. packet \in Packets
  BY <1>6, ElementOfSeq DEF LinkType
<1>8. Len(packet) \in Nat /\ Len(packet) > HEADER
  BY <1>7, PacketAssumption, LenProperties
<1>9. d < Len(packet)
  <2>1. CASE parser.data = <<>>
    BY <1>8, <2>1, GotType, EmptySeq
  <2>2. CASE parser.data # <<>>
    BY <2>2 DEF InPlace, PlaceIn
  <2> QED
    BY <2>1, <2>2
<1>10. \A j \in 1 .. Len(packet) : stream[h + j] = packet[j]
  BY <1>1, <1>6 DEF Cuts
<1>11. Got[h + d + 1] = ring[1] /\ \A j \in 1 .. d : Got[h + j] = parser.data[j]
  BY GotPlaces
<1> HIDE DEF packet, k, h, d
<1>12. ring[1] = stream[h + (d + 1)] /\ \A j \in 1 .. d : parser.data[j] = stream[h + j]
  BY <1>3, <1>4, <1>11
<1>13. ring[1] = packet[d + 1] /\ \A j \in 1 .. d : parser.data[j] = packet[j]
  BY <1>3, <1>8, <1>9, <1>10, <1>12
<1> QED
  BY <1>5, <1>7, <1>9, <1>13 DEF packet, k, h, d

\* A byte that completes a packet completes the one that was to come next.
LEMMA PacketCompleted ==
  ASSUME LinkType, ThreadType, HandedOn, Len(delivered) < Len(sent),
         NEW packet \in Seq(Byte), packet = sent[Len(delivered) + 1],
         delivered' = Append(delivered, packet), handed' = handed \o packet,
         UNCHANGED <<sent, stream>>
  PROVE  HandedOn'
<1>1. PICK c \in Seq(Nat) : Cuts(c) /\ Len(handed) = c[Len(delivered) + 1]
  BY DEF HandedOn
<1>2. Cuts(c)'
  BY <1>1 DEF Cuts
<1>3. /\ Len(delivered') = Len(delivered) + 1 /\ delivered'[Len(delivered) + 1] = packet
      /\ \A i \in 1 .. Len(delivered) : delivered'[i] = delivered[i]
  BY AppendProperties DEF ThreadType
<1>4. Len(delivered) \in Nat /\ Len(sent) \in Nat /\ Len(delivered) + 1 \in 1 .. Len(sent)
  BY GotType
<1>5. Len(handed') = Len(handed) + Len(packet)
  BY GotType, ConcatProperties
<1>6. c[Len(delivered) + 1 + 1] = c[Len(delivered) + 1] + Len(packet)
  BY <1>1, <1>4 DEF Cuts
<1>7. Len(handed') = c[Len(delivered') + 1]
  BY <1>1, <1>3, <1>5, <1>6
<1>8. Len(delivered') <= Len(sent') /\ \A i \in 1 .. Len(delivered') : delivered'[i] = sent'[i]
  <2>1. ASSUME NEW i \in 1 .. Len(delivered) + 1
        PROVE  delivered'[i] = sent[i]
    <3>1. CASE i = Len(delivered) + 1
      BY <1>3, <3>1
    <3>2. CASE i # Len(delivered) + 1
      <4>1. i \in 1 .. Len(delivered)
        BY <1>4, <3>2
      <4> QED
        BY <1>3, <4>1 DEF HandedOn
    <3> QED
      BY <3>1, <3>2
  <2> QED
    BY <1>3, <1>4, <2>1
<1> QED
  BY <1>2, <1>7, <1>8 DEF HandedOn

\* One byte through the parser keeps the order.
LEMMA ByteKeepsOrder ==
  ASSUME LinkType, ThreadType, ThreadInv, OrderInv, RcvByte
  PROVE  OrderInv'
<1> SUFFICES ASSUME ~ mixed'
             PROVE  HandedOn' /\ InPlace' /\ Follows'
  BY DEF OrderInv
<1> DEFINE k == Len(delivered)
           packet == sent[k + 1]
           ch == ring[1]
           more == Append(parser.data, ch)
<1>1. /\ ret'.bytes[1] = ch /\ ch \in Byte
      /\ ring' \in Seq(Byte) /\ <<ch>> \o ring' = ring
  BY GetsByte DEF RcvByte, ThreadType
<1>2. /\ UNCHANGED <<m_IsTcpConnectOk, mon, open, wire, sent, stream, connections, mixed, pc>>
      /\ pc = "bytes" /\ ring # <<>>
  BY DEF RcvByte, link
<1>3. /\ HandedOn /\ InPlace /\ Follows /\ Reading /\ Begins(Got, stream)
  BY <1>2 DEF OrderInv, Reading, Follows
<1>4. /\ k < Len(sent) /\ packet \in Packets
      /\ Len(parser.data) < Len(packet) /\ ch = packet[Len(parser.data) + 1]
      /\ \A j \in 1 .. Len(parser.data) : parser.data[j] = packet[j]
  BY <1>2, <1>3, NextByte
<1>5. /\ IsComplete(ch) => Len(parser.data) + 1 = Len(packet)
      /\ ~ IsComplete(ch) => Parsed(ch).data = more /\ PlaceIn(Parsed(ch), packet)
  <2>1. ParserType /\ (parser.data = <<>> => parser = ParserReset)
    BY DEF ThreadType, ThreadInv
  <2>2. parser.data # <<>> => PlaceIn(parser, packet)
    BY <1>3 DEF InPlace
  <2> HIDE DEF packet
  <2> QED
    BY <1>1, <1>4, <2>1, <2>2, ParserReads
<1>6. parser' = Parsed(ch)
  BY <1>1 DEF RcvByte
<1>7. /\ more \in Seq(Byte) /\ Len(more) = Len(parser.data) + 1
      /\ more[Len(parser.data) + 1] = ch
      /\ \A j \in 1 .. Len(parser.data) : more[j] = parser.data[j]
  <2>1. parser.data \in Seq(Byte)
    BY GotType
  <2> QED
    BY <1>1, <2>1, AppendProperties
<1>8. handed \o more \o ring' \o wire = Got
  <2> DEFINE data == parser.data
             rest == ring'
  <2>1. /\ handed \in Seq(Byte) /\ data \in Seq(Byte) /\ rest \in Seq(Byte)
        /\ wire \in Seq(Byte) /\ ch \in Byte
    BY <1>1, GotType
  <2>2. Got = handed \o data \o (<<ch>> \o rest) \o wire
    BY <1>1 DEF Got
  <2> HIDE DEF data, rest, ch
  <2>3. handed \o Append(data, ch) \o rest \o wire = handed \o data \o (<<ch>> \o rest) \o wire
    <3> DEFINE byte == <<ch>>
               front == handed \o data
    <3>1. Append(data, ch) = data \o byte
      BY <2>1, AppendIsConcat
    <3>2. byte \in Seq(Byte)
      BY <2>1
    <3>3. handed \in Seq(Byte) /\ data \in Seq(Byte)
      BY <2>1
    <3>4. front \in Seq(Byte) /\ rest \in Seq(Byte)
      BY <2>1, ConcatProperties
    <3> HIDE DEF byte
    <3>5. (handed \o data) \o byte = handed \o (data \o byte)
      BY <3>2, <3>3, BytesAssociative
    <3>6. front \o byte = handed \o (data \o byte)
      BY <3>5, Zenon
    <3> HIDE DEF front
    <3>7. (front \o byte) \o rest = front \o (byte \o rest)
      BY <3>2, <3>4, BytesAssociative
    <3>8. handed \o Append(data, ch) \o rest = front \o (byte \o rest)
      BY <3>1, <3>6, <3>7, Zenon
    <3> QED
      BY <3>8, Zenon DEF front, byte
  <2> QED
    BY <2>2, <2>3 DEF data, rest
<1>9. CASE IsComplete(ch)
  <2>1. parser' = ParserReset /\ parser'.data = <<>>
    BY <1>6, <1>9 DEF Parsed, ParserReset
  <2>2. delivered' = Append(delivered, more) /\ handed' = handed \o more
    BY <1>1, <1>9 DEF RcvByte
  <2>3. more = packet
    <3>1. packet \in Seq(Byte) /\ Len(more) = Len(packet)
      BY <1>4, <1>5, <1>7, <1>9, PacketAssumption
    <3>2. ASSUME NEW j \in 1 .. Len(more)
          PROVE  more[j] = packet[j]
      <4>1. j = Len(parser.data) + 1 \/ j \in 1 .. Len(parser.data)
        <5>1. Len(more) = Len(parser.data) + 1 /\ Len(parser.data) \in Nat
          BY <1>7, GotType
        <5> QED
          BY <5>1
      <4> QED
        BY <1>4, <1>7, <4>1
    <3> HIDE DEF more, packet
    <3> QED
      BY <1>7, <3>1, <3>2, SeqEqual
  <2>4. HandedOn'
    BY <1>2, <1>3, <1>4, <1>7, <2>2, <2>3, PacketCompleted
  <2>5. Got' = Got
    <3>1. handed' \o parser'.data = handed \o more
      <4>1. handed \o more \in Seq(Byte)
        BY <1>7, GotType, ConcatProperties
      <4> QED
        BY <2>1, <2>2, <4>1, ConcatEmptySeq
    <3> QED
      BY <1>2, <1>8, <3>1 DEF Got
  <2>6. Follows'
    BY <1>2, <1>3, <2>5 DEF Follows, Begins
  <2>7. InPlace'
    BY <2>1 DEF InPlace
  <2> QED
    BY <2>4, <2>6, <2>7
<1>10. CASE ~ IsComplete(ch)
  <2>1. UNCHANGED output
    BY <1>1, <1>10 DEF RcvByte
  <2>2. parser'.data = more
    BY <1>5, <1>6, <1>10
  <2>3. Got' = Got
    BY <1>2, <1>8, <2>1, <2>2 DEF Got, output
  <2>4. HandedOn'
    BY <1>2, <1>3, <2>1 DEF HandedOn, Cuts, output
  <2>5. Follows'
    BY <1>2, <1>3, <2>3 DEF Follows, Begins
  <2>6. InPlace'
    <3>1. PlaceIn(parser', packet)
      BY <1>5, <1>6, <1>10
    <3>2. Len(delivered') < Len(sent') /\ sent'[Len(delivered') + 1] = packet
      BY <1>2, <1>4, <2>1 DEF output
    <3> HIDE DEF packet
    <3> QED
      BY <3>1, <3>2 DEF InPlace, PlaceIn
  <2> QED
    BY <2>4, <2>5, <2>6
<1> QED
  BY <1>9, <1>10

\* So do the thread's other steps.
LEMMA ThreadKeepsOrder ==
  ASSUME LinkType, ThreadType, ThreadInv, OrderInv, RecvThread
  PROVE  OrderInv'
<1>1. CASE RcvSeesUp \/ RcvWakes \/ RcvTimeout \/ RcvFail
  BY <1>1, QuietStep
  DEF RcvSeesUp, RcvWakes, RcvTimeout, RcvFail, Reading, Current, link, output
<1>2. CASE RcvSeesDown
  <2>1. /\ UNCHANGED <<sent, stream, delivered, handed, wire, ring, m_IsTcpConnectOk, mon, open>>
        /\ parser' = ParserReset /\ parser'.data = <<>> /\ pc' = "down" /\ ~ m_IsTcpConnectOk
    BY <1>2 DEF RcvSeesDown, ParserReset, output
  <2>2. HandedOn => HandedOn'
    BY <2>1 DEF HandedOn, Cuts
  <2>3. mixed' = (mixed \/ (mon = "publish" /\ parser.data # <<>>))
    BY <1>2 DEF RcvSeesDown
  <2>4. CASE mon = "publish" /\ parser.data # <<>>
    BY <2>3, <2>4 DEF OrderInv
  <2>5. CASE mon = "publish" /\ parser.data = <<>>
    <3>1. parser' = parser /\ mixed' = mixed
      BY <2>1, <2>3, <2>5 DEF ThreadInv, LinkType
    <3> QED
      BY <2>1, <2>5, <3>1, QuietStep DEF Reading, Current
  <2>6. CASE mon # "publish"
    <3>1. ~ Reading' /\ (~ mixed' => ~ mixed)
      BY <2>1, <2>3, <2>6 DEF Reading, Current
    <3> QED
      BY <2>1, <2>2, <3>1 DEF OrderInv, InPlace, Follows
  <2> QED
    BY <2>4, <2>5, <2>6
<1>3. CASE RcvRead
  <2>1. /\ UNCHANGED <<sent, stream, delivered, handed, parser, mixed, m_IsTcpConnectOk, mon, open>>
        /\ Reading /\ ring = <<>>
    BY <1>3 DEF RcvRead, Reading, output, ThreadInv
  <2>2. ring' \in Seq(Byte) /\ wire' \in Seq(Byte) /\ ring' \o wire' = wire
    BY <1>3, <2>1, PutsChunk DEF RcvRead, LinkType
  <2>3. Got' = Got
    <3> DEFINE data == parser.data
    <3>1. handed \in Seq(Byte) /\ data \in Seq(Byte) /\ wire \in Seq(Byte) /\ <<>> \in Seq(Byte)
      BY GotType, EmptySeq
    <3>2. Got = handed \o data \o <<>> \o wire /\ Got' = handed \o data \o ring' \o wire'
      BY <2>1 DEF Got
    <3> HIDE DEF data
    <3>3. handed \o data \o <<>> \o wire = handed \o data \o (<<>> \o wire)
      BY <3>1, JoinedFour
    <3>4. handed \o data \o ring' \o wire' = handed \o data \o (ring' \o wire')
      <4> DEFINE chunk == ring'
                 others == wire'
                 front == handed \o data
      <4>1. chunk \in Seq(Byte) /\ others \in Seq(Byte) /\ front \in Seq(Byte)
        BY <2>2, <3>1, ConcatProperties
      <4> HIDE DEF chunk, others, front
      <4>2. (front \o chunk) \o others = front \o (chunk \o others)
        BY <4>1, BytesAssociative
      <4> QED
        BY <4>2 DEF chunk, others, front
    <3>5. <<>> \o wire = wire
      BY <3>1, ConcatEmptySeq
    <3> QED
      BY <2>2, <3>2, <3>3, <3>4, <3>5
  <2>4. HandedOn => HandedOn'
    BY <2>1 DEF HandedOn, Cuts
  <2>5. InPlace => InPlace'
    BY <2>1 DEF InPlace, PlaceIn
  <2>6. Follows => Follows'
    BY <2>1, <2>3 DEF Follows, Begins
  <2> QED
    BY <2>1, <2>4, <2>5, <2>6 DEF OrderInv
<1>4. CASE RcvClear
  BY <1>4, QuietStep DEF RcvClear, Reading, Current, output
<1>5. CASE RcvByte
  BY <1>5, ByteKeepsOrder
<1>6. CASE RcvDone
  <2>1. ring' = ring
    <3>1. ring = <<>> /\ Len(ring) = 0
      BY <1>6, EmptySeq DEF RcvDone
    <3>2. ring' = SubSeq(ring, Ring!AtMost(Len(ring), 1) + 1, Len(ring))
      BY <1>6 DEF RcvDone, Ring!Get
    <3>3. Ring!AtMost(Len(ring), 1) + 1 = 1
      BY <3>1 DEF Ring!AtMost
    <3>4. SubSeq(ring, 1, 0) = <<>>
      BY SubSeqEmpty
    <3> QED
      BY <3>1, <3>2, <3>3, <3>4
  <2> QED
    BY <1>6, <2>1, QuietStep DEF RcvDone, Reading, Current, link, output
<1> QED
  BY <1>1, <1>2, <1>3, <1>4, <1>5, <1>6 DEF RecvThread

-----------------------------------------------------------------------------
\* Nothing sent and nothing read: a stream of no packets.
LEMMA NothingInOrder ==
  ASSUME sent = <<>>, stream = <<>>, delivered = <<>>, handed = <<>>,
         parser.data = <<>>, ring = <<>>, wire = <<>>
  PROVE  OrderInv
<1>1. /\ <<>> \in Seq(Byte) /\ Len(<<>>) = 0
      /\ <<0>> \in Seq(Nat) /\ Len(<<0>>) = 1 /\ <<0>>[1] = 0
  BY EmptySeq
<1>2. PICK c \in Seq(Nat) : c = <<0>>
  BY <1>1
<1>3. HandedOn
  <2>1. Cuts(c)
    BY <1>1, <1>2 DEF Cuts
  <2>2. Len(delivered) = 0 /\ Len(handed) = 0 /\ Len(sent) = 0 /\ c[0 + 1] = 0
    BY <1>1, <1>2
  <2>3. Len(handed) = c[Len(delivered) + 1] /\ Len(delivered) <= Len(sent)
    BY <2>2
  <2>4. \A i \in 1 .. Len(delivered) : delivered[i] = sent[i]
    BY <2>2
  <2> QED
    BY <2>1, <2>3, <2>4 DEF HandedOn
<1>4. Got = <<>>
  <2>1. <<>> \o <<>> = <<>>
    BY <1>1, ConcatEmptySeq
  <2> QED
    BY <2>1 DEF Got
<1>5. Follows
  BY <1>1, <1>4 DEF Follows, Begins
<1> QED
  BY <1>3, <1>5 DEF OrderInv, InPlace

\* A connection that is made with nothing left over of the last one starts afresh.
LEMMA ConnectKeepsOrder ==
  ASSUME LinkType, ThreadType, ThreadInv, MonConnectOk
  PROVE  OrderInv'
<1>1. CASE mixed'
  BY <1>1 DEF OrderInv
<1>2. CASE ~ mixed'
  <2>1. parser.data = <<>> /\ ring = <<>>
    <3>1. pc = "down" \/ (parser.data = <<>> /\ ring = <<>>)
      BY <1>2, Zenon DEF MonConnectOk
    <3>2. ParserReset.data = <<>>
      BY DEF ParserReset
    <3> QED
      BY <3>1, <3>2 DEF ThreadInv
  <2>2. /\ sent' = <<>> /\ stream' = <<>> /\ delivered' = <<>> /\ handed' = <<>>
        /\ parser'.data = <<>> /\ ring' = <<>> /\ wire' = <<>>
    BY <2>1 DEF MonConnectOk
  <2>3. /\ <<>> \in Seq(Byte) /\ Len(<<>>) = 0
        /\ <<0>> \in Seq(Nat) /\ Len(<<0>>) = 1 /\ <<0>>[1] = 0
    BY EmptySeq
  <2>4. PICK c \in Seq(Nat) : c = <<0>>
    BY <2>3
  <2>5. HandedOn'
    <3>1. Cuts(c)'
      BY <2>2, <2>3, <2>4 DEF Cuts
    <3>2. Len(delivered') = 0 /\ Len(handed') = 0 /\ Len(sent') = 0 /\ c[0 + 1] = 0
      BY <2>2, <2>3, <2>4
    <3>3. Len(handed') = c[Len(delivered') + 1] /\ Len(delivered') <= Len(sent')
      BY <3>2
    <3>4. \A i \in 1 .. Len(delivered') : delivered'[i] = sent'[i]
      BY <3>2
    <3> QED
      BY <3>1, <3>3, <3>4 DEF HandedOn
  <2>6. Got' = <<>>
    <3>1. <<>> \o <<>> = <<>>
      BY <2>3, ConcatEmptySeq
    <3> QED
      BY <2>2, <3>1 DEF Got
  <2>7. Follows'
    BY <2>2, <2>3, <2>6 DEF Follows, Begins
  <2> QED
    BY <2>2, <2>5, <2>7 DEF OrderInv, InPlace
<1> QED
  BY <1>1, <1>2

\* A packet more at the end of the stream, and of the wire.
LEMMA SendKeepsOrder ==
  ASSUME LinkType, ThreadType, OrderInv, NEW p \in Packets, ServerSends(p)
  PROVE  OrderInv'
<1> SUFFICES ASSUME ~ mixed'
             PROVE  HandedOn' /\ InPlace' /\ Follows'
  BY DEF OrderInv
<1>1. /\ UNCHANGED <<m_IsTcpConnectOk, mon, open, mixed, pc, ring, parser, delivered, handed>>
      /\ open
      /\ sent' = Append(sent, p) /\ stream' = stream \o p /\ wire' = wire \o p
  BY DEF ServerSends, output
<1>2. HandedOn /\ InPlace /\ (Reading => Begins(Got, stream) /\ Len(Got) = Len(stream))
  BY <1>1 DEF OrderInv, Follows
<1>3. p \in Seq(Byte) /\ Len(p) \in Nat
  BY PacketAssumption, LenProperties
<1>4. /\ sent' \in Seq(Packets) /\ Len(sent') = Len(sent) + 1 /\ sent'[Len(sent) + 1] = p
      /\ \A i \in 1 .. Len(sent) : sent'[i] = sent[i]
  BY <1>1, AppendProperties DEF LinkType
<1>5. /\ stream' \in Seq(Byte) /\ Len(stream') = Len(stream) + Len(p)
      /\ \A i \in 1 .. Len(stream) + Len(p) :
           stream'[i] = IF i <= Len(stream) THEN stream[i] ELSE p[i - Len(stream)]
  BY <1>1, <1>3, GotType, ConcatProperties
<1>6. Len(sent) \in Nat /\ Len(stream) \in Nat /\ Len(delivered) \in Nat
  BY GotType
<1>7. HandedOn'
  <2>1. PICK c \in Seq(Nat) : Cuts(c) /\ Len(handed) = c[Len(delivered) + 1]
    BY <1>2 DEF HandedOn
  <2>2. Len(stream) + Len(p) \in Nat
    BY <1>3, <1>6
  <2>3. PICK e \in Seq(Nat) :
          /\ Len(e) = Len(c) + 1 /\ e[Len(c) + 1] = Len(stream) + Len(p)
          /\ \A i \in 1 .. Len(c) : e[i] = c[i]
    <3> DEFINE total == Len(stream) + Len(p)
               a == Append(c, total)
    <3>1. total \in Nat
      BY <2>2
    <3> HIDE DEF total
    <3>2. /\ a \in Seq(Nat) /\ Len(a) = Len(c) + 1 /\ a[Len(c) + 1] = total
          /\ \A i \in 1 .. Len(c) : a[i] = c[i]
      BY <3>1, AppendProperties
    <3> HIDE DEF a
    <3> QED
      BY <3>2 DEF total
  <2>4. Len(c) = Len(sent) + 1 /\ c[1] = 0 /\ c[Len(sent) + 1] = Len(stream)
    BY <2>1 DEF Cuts
  <2>5. /\ Len(e) = Len(sent') + 1 /\ e[1] = 0 /\ e[Len(sent') + 1] = Len(stream')
        /\ e[Len(sent) + 1] = Len(stream)
    <3>1. 1 \in 1 .. Len(c) /\ Len(sent) + 1 \in 1 .. Len(c)
      BY <1>6, <2>4
    <3>2. e[1] = 0 /\ e[Len(sent) + 1] = Len(stream)
      BY <2>3, <2>4, <3>1
    <3>3. Len(sent') = Len(sent) + 1 /\ Len(stream') = Len(stream) + Len(p)
      BY <1>4, <1>5
    <3> QED
      BY <2>3, <2>4, <3>2, <3>3
  <2>6. ASSUME NEW i \in 1 .. Len(sent')
        PROVE  /\ e[i + 1] = e[i] + Len(sent'[i]) /\ e[i + 1] <= Len(stream')
               /\ \A j \in 1 .. Len(sent'[i]) : stream'[e[i] + j] = sent'[i][j]
    <3>1. CASE i \in 1 .. Len(sent)
      <4>1. i \in 1 .. Len(c) /\ i + 1 \in 1 .. Len(c)
        BY <1>6, <2>4, <3>1
      <4>2. e[i] = c[i] /\ e[i + 1] = c[i + 1] /\ sent'[i] = sent[i]
        BY <1>4, <2>3, <3>1, <4>1
      <4>3. /\ c[i + 1] = c[i] + Len(sent[i]) /\ c[i + 1] <= Len(stream)
            /\ \A j \in 1 .. Len(sent[i]) : stream[c[i] + j] = sent[i][j]
        BY <2>1, <3>1 DEF Cuts
      <4>4. c[i] \in Nat /\ c[i + 1] \in Nat /\ Len(sent[i]) \in Nat
        <5>1. sent[i] \in Seq(Byte)
          BY <3>1, ElementOfSeq, PacketAssumption DEF LinkType
        <5>2. c[i] \in Nat /\ c[i + 1] \in Nat
          BY <4>1, ElementOfSeq
        <5> QED
          BY <5>1, <5>2, LenProperties
      <4>5. ASSUME NEW j \in 1 .. Len(sent[i])
            PROVE  stream'[c[i] + j] = sent[i][j]
        <5>1. c[i] + j \in 1 .. Len(stream)
          <6> DEFINE start == c[i]
                     stop == c[i + 1]
                     size == Len(sent[i])
                     whole == Len(stream)
          <6>1. stop = start + size /\ stop <= whole /\ j \in 1 .. size
            BY <4>3
          <6>2. start \in Nat /\ stop \in Nat /\ size \in Nat /\ whole \in Nat
            BY <1>6, <4>4
          <6> HIDE DEF start, stop, size, whole
          <6>3. start + j \in 1 .. whole
            BY <6>1, <6>2
          <6> QED
            BY <6>3 DEF start, whole
        <5>2. c[i] + j \in 1 .. Len(stream) + Len(p) /\ c[i] + j <= Len(stream)
          BY <1>3, <1>6, <5>1
        <5> QED
          BY <1>5, <4>3, <5>2
      <4>6. c[i + 1] <= Len(stream')
        BY <1>3, <1>5, <1>6, <4>3, <4>4
      <4> QED
        BY <4>2, <4>3, <4>5, <4>6
    <3>2. CASE i = Len(sent) + 1
      <4>1. sent'[i] = p /\ e[i] = Len(stream) /\ e[i + 1] = Len(stream) + Len(p)
        BY <1>4, <1>5, <2>5, <3>2
      <4>2. ASSUME NEW j \in 1 .. Len(p)
            PROVE  stream'[Len(stream) + j] = p[j]
        <5>1. /\ Len(stream) + j \in 1 .. Len(stream) + Len(p)
              /\ ~ (Len(stream) + j <= Len(stream)) /\ (Len(stream) + j) - Len(stream) = j
          BY <1>3, <1>6
        <5> QED
          BY <1>5, <5>1
      <4>3. Len(stream') = Len(stream) + Len(p)
        BY <1>5
      <4> QED
        BY <1>3, <1>6, <4>1, <4>2, <4>3
    <3> QED
      BY <1>4, <1>6, <3>1, <3>2
  <2>7. Cuts(e)'
    BY <2>5, <2>6 DEF Cuts
  <2>8. Len(handed') = e[Len(delivered') + 1]
    <3>1. Len(delivered) + 1 \in 1 .. Len(c)
      BY <1>2, <1>6, <2>4 DEF HandedOn
    <3>2. e[Len(delivered) + 1] = c[Len(delivered) + 1]
      BY <2>3, <3>1
    <3>3. handed' = handed /\ delivered' = delivered
      BY <1>1
    <3> QED
      BY <2>1, <3>2, <3>3, Zenon
  <2>9. Len(delivered') <= Len(sent') /\ \A i \in 1 .. Len(delivered') : delivered'[i] = sent'[i]
    BY <1>1, <1>2, <1>4, <1>6, SMTT(30) DEF HandedOn
  <2> QED
    BY <2>3, <2>7, <2>8, <2>9 DEF HandedOn
<1>8. InPlace'
  <2>1. ASSUME parser.data # <<>>
        PROVE  Len(delivered) < Len(sent') /\ PlaceIn(parser, sent'[Len(delivered) + 1])
    <3>1. Len(delivered) < Len(sent) /\ PlaceIn(parser, sent[Len(delivered) + 1])
      BY <1>2, <2>1 DEF InPlace
    <3>2. Len(delivered) + 1 \in 1 .. Len(sent)
      BY <1>6, <3>1
    <3> QED
      BY <1>4, <1>6, <3>1, <3>2
  <2> QED
    BY <1>1, <2>1 DEF InPlace, PlaceIn
<1>9. Got' = Got \o p
  <2> DEFINE front == handed \o parser.data \o ring
  <2>1. front \in Seq(Byte)
    <3>1. handed \o parser.data \in Seq(Byte)
      BY GotType, ConcatProperties
    <3> QED
      BY <3>1, GotType, ConcatProperties
  <2>2. Got = front \o wire /\ Got' = front \o (wire \o p)
    BY <1>1 DEF Got
  <2>3. wire \in Seq(Byte)
    BY GotType
  <2> HIDE DEF front
  <2>4. (front \o wire) \o p = front \o (wire \o p)
    BY <1>3, <2>1, <2>3, BytesAssociative
  <2> QED
    BY <2>2, <2>4
<1>10. ASSUME Reading
       PROVE  Begins(Got \o p, stream \o p) /\ Len(Got \o p) = Len(stream \o p)
  BY <1>2, <1>3, <1>10, BeginsLonger, GotType
<1>11. Reading' => Reading
  BY <1>1 DEF Reading, Current
<1>12. Follows'
  BY <1>1, <1>9, <1>10, <1>11 DEF Follows, Begins
<1> QED
  BY <1>7, <1>8, <1>12

\* What is left on the wire by a close, or by the monitor, is its front, or nothing.
LEMMA WireCut ==
  ASSUME LinkType, ServerCloses \/ MonRenew
  PROVE  \E n \in 0 .. Len(wire) : wire' = SubSeq(wire, 1, n)
<1>1. CASE ServerCloses
  BY <1>1 DEF ServerCloses
<1>2. CASE MonRenew
  <2>1. wire' = SubSeq(wire, 1, 0)
    BY <1>2, SubSeqEmpty DEF MonRenew
  <2>2. 0 \in 0 .. Len(wire)
    BY LenProperties DEF LinkType
  <2> QED
    BY <2>1, <2>2
<1> QED
  BY <1>1, <1>2

\* The end of what was on the wire may be lost when the server closes the connection, and
\* all of it when the monitor replaces the socket.
LEMMA CloseKeepsOrder ==
  ASSUME LinkType, ThreadType, OrderInv, ServerCloses \/ MonRenew
  PROVE  OrderInv'
<1> SUFFICES ASSUME ~ mixed'
             PROVE  HandedOn' /\ InPlace' /\ Follows'
  BY DEF OrderInv
<1>1. /\ UNCHANGED <<m_IsTcpConnectOk, sent, stream, mixed, pc, ring, parser, delivered, handed>>
      /\ ~ open' /\ (Reading' => Reading)
  BY DEF ServerCloses, MonRenew, Reading, Current, output
<1>2. HandedOn /\ InPlace /\ Follows
  BY <1>1 DEF OrderInv
<1>3. HandedOn'
  BY <1>1, <1>2 DEF HandedOn, Cuts
<1>4. InPlace'
  BY <1>1, <1>2 DEF InPlace, PlaceIn
<1>5. PICK n \in 0 .. Len(wire) : wire' = SubSeq(wire, 1, n)
  BY WireCut
<1> DEFINE front == handed \o parser.data \o ring
           first == SubSeq(wire, 1, n)
           last == SubSeq(wire, n + 1, Len(wire))
<1>6. wire \in Seq(Byte) /\ Len(wire) \in Nat /\ \A i \in 1 .. Len(wire) : wire[i] \in Byte
  BY GotType, ElementOfSeq
<1>7. first \in Seq(Byte) /\ last \in Seq(Byte)
  BY <1>6, SubSeqProperties
<1>8. first \o last = wire
  <2>1. first \o last = SubSeq(wire, 1, Len(wire))
    <3>1. 1 \in 1 .. Len(wire) + 1 /\ n \in 1 - 1 .. Len(wire) /\ Len(wire) \in n .. Len(wire)
      BY <1>6
    <3> QED
      BY <1>6, <3>1, ConcatAdjacentSubSeq
  <2> QED
    BY <1>6, <2>1, SubSeqFull
<1>9. front \in Seq(Byte)
  <2>1. handed \o parser.data \in Seq(Byte)
    BY GotType, ConcatProperties
  <2> QED
    BY <2>1, GotType, ConcatProperties
<1>10. Got = front \o wire /\ Got' = front \o first
  BY <1>1, <1>5 DEF Got
<1> HIDE DEF front, first, last
<1>11. (front \o first) \o last = front \o (first \o last)
  BY <1>7, <1>9, BytesAssociative
<1>12. front \o first \in Seq(Byte)
  BY <1>7, <1>9, ConcatProperties
<1>13. Begins(Got, stream) => Begins(front \o first, stream)
  <2>1. Got = (front \o first) \o last
    BY <1>8, <1>10, <1>11
  <2>2. stream \in Seq(Byte)
    BY GotType
  <2> DEFINE kept == front \o first
  <2>3. kept \in Seq(Byte) /\ Got = kept \o last
    BY <1>12, <2>1
  <2> HIDE DEF kept
  <2>4. Begins(kept \o last, stream) => Begins(kept, stream)
    BY <1>7, <2>2, <2>3, BeginsWithFirst
  <2> QED
    BY <2>3, <2>4 DEF kept
<1>14. Follows'
  BY <1>1, <1>2, <1>10, <1>13 DEF Follows, Begins
<1> QED
  BY <1>3, <1>4, <1>14

-----------------------------------------------------------------------------
\* The invariant holds at first, and every step keeps it.
LEMMA FramerStarts == Init => FramerInv
<1> SUFFICES ASSUME Init
             PROVE  FramerInv
  OBVIOUS
<1>1. /\ <<>> \in Seq(Byte) /\ <<>> \in Seq(Packets) /\ <<>> \in Seq(Seq(Byte))
      /\ Len(<<>>) = 0
  BY EmptySeq
<1>2. ring = <<>> /\ parser.data = <<>>
  BY DEF Init, Ring!Init, ParserReset
<1>3. LinkType
  <2>1. Len(sent) <= MaxSent
    BY <1>1 DEF Init
  <2> QED
    BY <1>1, <2>1 DEF Init, LinkType
<1>4. ThreadType
  BY <1>1, <1>2 DEF Init, ThreadType, ParserType, ParserReset
<1>5. ThreadInv
  BY <1>2 DEF Init, ThreadInv
<1>6. OrderInv
  BY <1>2, NothingInOrder DEF Init
<1> QED
  BY <1>3, <1>4, <1>5, <1>6 DEF FramerInv

LEMMA FramerSteps == FramerInv /\ [Next]_vars => FramerInv'
<1> SUFFICES ASSUME FramerInv, [Next]_vars
             PROVE  FramerInv'
  OBVIOUS
<1>1. LinkType /\ ThreadType /\ ThreadInv /\ OrderInv
  BY DEF FramerInv
<1>2. CASE RecvThread
  BY <1>1, <1>2, ThreadKeepsTypes, ThreadKeepsOrder DEF FramerInv
<1>3. CASE MarkedDown \/ MonConnectFail \/ MonPublish
  <2>1. OrderInv'
    BY <1>1, <1>3, QuietStep DEF MarkedDown, MonConnectFail, MonPublish, Reading, Current, output
  <2> QED
    BY <1>1, <1>3, <2>1, OthersKeepTypes DEF FramerInv, Monitor
<1>4. CASE MonConnectOk
  BY <1>1, <1>4, OthersKeepTypes, ConnectKeepsOrder DEF FramerInv, Monitor
<1>5. CASE ServerCloses \/ MonRenew
  BY <1>1, <1>5, OthersKeepTypes, CloseKeepsOrder DEF FramerInv, Monitor
<1>6. CASE \E p \in Packets : ServerSends(p)
  <2>1. OrderInv'
    BY <1>1, <1>6, SendKeepsOrder
  <2> QED
    BY <1>1, <1>6, <2>1, OthersKeepTypes DEF FramerInv
<1>7. CASE UNCHANGED vars
  <2>1. UNCHANGED <<m_IsTcpConnectOk, mon, open, wire, sent, stream, connections, mixed, pc, ring,
                    parser, delivered, handed>>
    BY <1>7 DEF vars, link, output
  <2>2. OrderInv'
    BY <1>1, <2>1, QuietStep DEF Reading, Current
  <2>3. LinkType' /\ ThreadType' /\ ThreadInv'
    BY <1>1, <2>1 DEF LinkType, ThreadType, ParserType, ThreadInv
  <2> QED
    BY <2>2, <2>3 DEF FramerInv
<1> QED
  BY <1>2, <1>3, <1>4, <1>5, <1>6, <1>7 DEF Next, Monitor

LEMMA FramerInvariant == Spec => []FramerInv
  BY FramerStarts, FramerSteps, PTL DEF Spec

\* For every set of packets and every way read() cuts the stream, the parser keeps its
\* type, and a packet never outgrows plValidData unless its length may have been read from
\* the bytes of two connections, or out of place because the parser was reset when the new
\* connection already carried bytes (gs_tcp.c:57-108, 288-352).
THEOREM PacketFramerTypeOK == Spec => []TypeOK
<1>1. FramerInv => TypeOK
  <2> SUFFICES ASSUME FramerInv
               PROVE  TypeOK
    OBVIOUS
  <2>1. LinkType /\ ThreadType /\ ThreadInv /\ OrderInv
    BY DEF FramerInv
  <2>2. ASSUME ~ mixed
        PROVE  Len(parser.data) < MAX_LEN
    <3>1. CASE parser.data = <<>>
      BY <3>1, EmptySeq
    <3>2. CASE parser.data # <<>>
      <4> DEFINE packet == sent[Len(delivered) + 1]
      <4>1. Len(delivered) < Len(sent) /\ Len(parser.data) < Len(packet)
        BY <2>1, <2>2, <3>2 DEF OrderInv, InPlace, PlaceIn
      <4>2. Len(delivered) + 1 \in 1 .. Len(sent) /\ Len(parser.data) \in Nat
        BY <2>1, <4>1, GotType
      <4>3. packet \in Packets
        BY <2>1, <4>2, ElementOfSeq DEF LinkType
      <4>4. Len(packet) \in Nat /\ Len(packet) <= MAX_LEN
        BY <4>3, PacketAssumption, LenProperties
      <4> HIDE DEF packet
      <4> QED
        BY <4>1, <4>2, <4>4
    <3> QED
      BY <3>1, <3>2
  <2> QED
    BY <2>1, <2>2 DEF TypeOK, LinkType, ThreadType, ParserType
<1> QED
  BY <1>1, FramerInvariant, PTL

\* For every set of packets and every way read() cuts the stream, the packets handed on
\* are those of the connection, whole and in order ("sticky and split packets",
\* Changelog.txt:37), unless it came up before the thread was done with the last one, or
\* the thread was reset with a part of its first packets, read before the flag was raised.
THEOREM PacketFramerPacketsAreThoseSent == Spec => []PacketsAreThoseSent
<1>1. FramerInv => PacketsAreThoseSent
  <2> SUFFICES ASSUME FramerInv, ~ mixed
               PROVE  IsPrefix(delivered, sent)
    BY DEF PacketsAreThoseSent
  <2>1. LinkType /\ ThreadType /\ HandedOn
    BY DEF FramerInv, OrderInv
  <2> DEFINE k == Len(delivered)
  <2>2. k \in Nat /\ Len(sent) \in Nat /\ k <= Len(sent)
    BY <2>1, GotType DEF HandedOn
  <2>3. SubSeq(delivered, 1, k) = delivered
    BY <2>1, SubSeqFull DEF ThreadType
  <2>4. \A i \in 1 .. k : sent[i] = delivered[i]
    BY <2>1 DEF HandedOn
  <2>5. \A i \in 1 .. k : delivered[i] \in Seq(Byte)
    BY <2>1, ElementOfSeq DEF ThreadType
  <2> DEFINE t == SubSeq(sent, 1, k)
  <2>6. t \in Seq(Seq(Byte)) /\ Len(t) = k /\ \A i \in 1 .. k : t[i] = sent[i]
    <3>1. \A i \in 1 .. k : sent[i] \in Seq(Byte)
      BY <2>4, <2>5
    <3> QED
      BY <2>2, <3>1, SubSeqProperties
  <2> HIDE DEF t
  <2>7. t = delivered
    BY <2>1, <2>4, <2>6, SeqEqual DEF ThreadType
  <2> QED
    BY <2>2, <2>3, <2>7 DEF IsPrefix, t
<1> QED
  BY <1>1, FramerInvariant, PTL

\* For every set of packets and every way read() cuts the stream, what was handed on, what
\* the parser and the ring buffer hold and what is under way are together the bytes the
\* server sent, as long as the connection is open and the flag up or still to be raised for
\* it (gs_tcp.c:57-108, 248-352, gs_comm.c:126-228); with the exception just named.
THEOREM PacketFramerNoByteLost == Spec => []NoByteLost
<1>1. FramerInv => NoByteLost
  <2> SUFFICES ASSUME FramerInv, Current, open, ~ mixed
               PROVE  Got = stream
    BY DEF NoByteLost, Got
  <2>1. LinkType /\ ThreadType /\ Begins(Got, stream) /\ Len(Got) = Len(stream)
    BY DEF FramerInv, OrderInv, Follows, Reading
  <2>2. Got \in Seq(Byte) /\ stream \in Seq(Byte) /\ \A i \in 1 .. Len(Got) : Got[i] = stream[i]
    BY <2>1, GotType DEF Begins
  <2> QED
    BY <2>1, <2>2, SeqEqual
<1> QED
  BY <1>1, FramerInvariant, PTL
-----------------------------------------------------------------------------
(* The packets on their way: how many are read whole, and how many are left. *)

\* The place in the stream where packet n ends; the first begins at 0.
End(n) == IF n = 0 THEN 0 ELSE ends[n]

\* The packets sent lie one behind the other in the stream, and ends says where.
EndsInv ==
  /\ ends \in Seq(Nat) /\ Len(ends) = Len(sent)
  /\ \A i \in 1 .. Len(ends) : ends[i] = End(i - 1) + Len(sent[i]) /\ ends[i] <= Len(stream)
  /\ \A i, j \in 1 .. Len(ends) : i < j => ends[i] < ends[j]
  /\ Len(stream) = End(Len(ends))

\* What was handed on ends where its last packet does.
HandedInv == ~ mixed => Len(handed) = End(Len(delivered))

\* What the theorem about arrivals rests on.
PlacesInv == FramerInv /\ EndsInv /\ HandedInv

\* A set of numbers has a least one.
LEMMA LeastNumber ==
  ASSUME NEW T \in SUBSET Nat, T # {}
  PROVE  \E n \in T : \A m \in T : n <= m
<1> DEFINE Less == OpToRel(<, Nat)
<1>1. IsWellFoundedOn(Less, Nat)
  BY NatLessThanWellFounded
<1>2. \A x, y \in Nat : x < y => <<x, y>> \in Less
  BY DEF OpToRel
<1> HIDE DEF Less
<1>3. PICK n \in T : \A m \in T : ~ (<<m, n>> \in Less)
  BY <1>1, WFMin
<1>4. ASSUME NEW m \in T
      PROVE  n <= m
  <2>1. m \in Nat /\ n \in Nat /\ ~ (m < n)
    BY <1>2, <1>3
  <2> QED
    BY <2>1
<1> QED
  BY <1>4

\* Within counts: exactly the first packets end at or before the place.
LEMMA WithinCounts ==
  ASSUME EndsInv, NEW place \in Nat
  PROVE  /\ Within(place) \in 0 .. Len(ends)
         /\ \A i \in 1 .. Len(ends) : i <= Within(place) <=> ends[i] <= place
<1> DEFINE N == Len(ends)
           T == {n \in 0 .. N : \A i \in 1 .. N : n < i => place < ends[i]}
           Counts(n) == \A i \in 1 .. N : i <= n <=> ends[i] <= place
<1>1. N \in Nat /\ \A i \in 1 .. N : ends[i] \in Nat
  BY LenProperties, ElementOfSeq DEF EndsInv
<1>2. \A i, j \in 1 .. N : i < j => ends[i] < ends[j]
  BY DEF EndsInv
<1> HIDE DEF N
<1>3. N \in T /\ T \in SUBSET Nat
  BY <1>1
<1>4. PICK n \in T : \A m \in T : n <= m
  <2> HIDE DEF T
  <2> QED
    BY <1>3, LeastNumber
<1>5. n \in 0 .. N /\ \A i \in 1 .. N : n < i => place < ends[i]
  BY <1>4
<1>6. ASSUME n # 0
      PROVE  ends[n] <= place
  <2>1. n - 1 \in 0 .. N /\ n \in 1 .. N /\ n - 1 \notin T
    BY <1>1, <1>4, <1>5, <1>6
  <2>2. PICK i \in 1 .. N : n - 1 < i /\ ~ (place < ends[i])
    BY <2>1
  <2>3. i = n
    BY <1>1, <1>5, <2>1, <2>2
  <2> QED
    BY <1>1, <2>1, <2>2, <2>3
<1>7. ASSUME NEW i \in 1 .. N
      PROVE  i <= n <=> ends[i] <= place
  <2>1. CASE i < n
    <3>1. n \in 1 .. N /\ ends[i] < ends[n] /\ ends[n] <= place
      BY <1>1, <1>2, <1>5, <1>6, <2>1
    <3> QED
      BY <1>1, <2>1, <3>1
  <2>2. CASE i = n
    BY <1>1, <1>6, <2>2
  <2>3. CASE n < i
    BY <1>1, <1>5, <2>3
  <2> QED
    BY <1>1, <1>5, <2>1, <2>2, <2>3
<1>8. \E m \in 0 .. N : Counts(m)
  BY <1>5, <1>7
<1>9. Within(place) = CHOOSE m \in 0 .. N : Counts(m)
  BY DEF Within, N
<1> HIDE DEF Counts
<1>10. Within(place) \in 0 .. N /\ Counts(Within(place))
  BY <1>8, <1>9
<1> QED
  BY <1>10 DEF Counts, N

\* Two numbers that count alike are the same.
LEMMA SameCount ==
  ASSUME NEW N \in Nat, NEW a \in 0 .. N, NEW b \in 0 .. N,
         \A i \in 1 .. N : i <= a <=> i <= b
  PROVE  a = b
  OBVIOUS

\* What is counted: packets read whole, and packets left whole.
WholeCounted ==
  /\ Len(delivered) \in 0 .. Len(sent)
  /\ ReadWhole \in Len(delivered) .. Len(sent) /\ LeftWhole \in ReadWhole .. Len(sent)
  /\ \A i \in 1 .. Len(sent) :
       /\ i <= ReadWhole <=> ends[i] <= Len(handed) + Len(parser.data) + Len(ring)
       /\ i <= LeftWhole <=> ends[i] <= Len(handed) + Len(parser.data) + Len(ring) + Len(wire)
  /\ ring = <<>> => ReadWhole = Len(delivered)

LEMMA WholeIsCounted == PlacesInv /\ ~ mixed => WholeCounted
<1> SUFFICES ASSUME PlacesInv, ~ mixed
             PROVE  WholeCounted
  OBVIOUS
<1>1. LinkType /\ ThreadType /\ HandedOn /\ InPlace /\ EndsInv /\ HandedInv
  BY DEF PlacesInv, FramerInv, OrderInv
<1> DEFINE k == Len(delivered)
           N == Len(sent)
           p == Len(handed) + Len(parser.data) + Len(ring)
           q == Len(handed) + Len(parser.data) + Len(ring) + Len(wire)
<1>2. k \in 0 .. N /\ N \in Nat /\ p \in Nat /\ q \in Nat /\ p <= q
  <2>1. k <= N
    BY <1>1 DEF HandedOn
  <2> QED
    BY <1>1, <2>1, GotType
<1>3. Len(ends) = N /\ \A i \in 1 .. N : ends[i] \in Nat
  BY <1>1, ElementOfSeq DEF EndsInv
<1>4. /\ ReadWhole \in 0 .. N /\ LeftWhole \in 0 .. N
      /\ \A i \in 1 .. N : i <= ReadWhole <=> ends[i] <= p
      /\ \A i \in 1 .. N : i <= LeftWhole <=> ends[i] <= q
  <2> HIDE DEF N, p, q
  <2>1. ReadWhole = Within(p) /\ LeftWhole = Within(q)
    BY DEF ReadWhole, LeftWhole, p, q
  <2>2. /\ Within(p) \in 0 .. N /\ \A i \in 1 .. N : i <= Within(p) <=> ends[i] <= p
        /\ Within(q) \in 0 .. N /\ \A i \in 1 .. N : i <= Within(q) <=> ends[i] <= q
    BY <1>1, <1>2, <1>3, WithinCounts
  <2> QED
    BY <2>1, <2>2
<1>5. k <= ReadWhole
  <2>1. CASE k = 0
    BY <1>2, <1>4, <2>1
  <2>2. CASE k # 0
    <3>1. k \in 1 .. N /\ ends[k] = Len(handed)
      BY <1>1, <1>2, <2>2 DEF HandedInv, End
    <3>2. Len(handed) <= p
      BY <1>1, GotType
    <3> HIDE DEF p, k
    <3> QED
      BY <1>3, <1>4, <3>1, <3>2
  <2> QED
    BY <2>1, <2>2
<1>6. ReadWhole <= LeftWhole
  <2>1. CASE ReadWhole = 0
    BY <1>2, <1>4, <2>1
  <2>2. CASE ReadWhole # 0
    <3>1. ReadWhole \in 1 .. N
      BY <1>2, <1>4, <2>2
    <3> HIDE DEF p, q
    <3>2. ends[ReadWhole] <= p
      BY <1>2, <1>4, <3>1
    <3>3. ends[ReadWhole] <= q
      BY <1>2, <1>3, <3>1, <3>2
    <3> QED
      BY <1>4, <3>1, <3>3
  <2> QED
    BY <2>1, <2>2
<1>7. ASSUME ring = <<>>
      PROVE  ReadWhole = k
  <2>1. CASE k = N
    BY <1>2, <1>4, <1>5, <2>1
  <2>2. CASE k # N
    <3>1. k + 1 \in 1 .. N /\ sent[k + 1] \in Packets
      BY <1>1, <1>2, <2>2, ElementOfSeq DEF LinkType
    <3>2. Len(sent[k + 1]) \in Nat /\ Len(sent[k + 1]) > HEADER
      BY <3>1, PacketAssumption, LenProperties
    <3>3. Len(parser.data) < Len(sent[k + 1])
      <4>1. parser.data = <<>> => Len(parser.data) = 0
        BY EmptySeq
      <4> QED
        BY <1>1, <3>2, <4>1 DEF InPlace, PlaceIn
    <3>4. ends[k + 1] = Len(handed) + Len(sent[k + 1])
      <4>1. ends[k + 1] = End((k + 1) - 1) + Len(sent[k + 1])
        BY <1>1, <1>3, <3>1 DEF EndsInv
      <4>2. (k + 1) - 1 = k
        BY <1>2
      <4> QED
        BY <1>1, <4>1, <4>2 DEF HandedInv
    <3>5. p < ends[k + 1]
      <4>1. Len(ring) = 0
        BY <1>7, EmptySeq
      <4> QED
        BY <1>1, <3>2, <3>3, <3>4, <4>1, GotType
    <3> HIDE DEF p, k
    <3>6. ~ (k + 1 <= ReadWhole)
      BY <1>2, <1>3, <1>4, <3>1, <3>5
    <3> QED
      BY <1>2, <1>4, <1>5, <3>6
  <2> QED
    BY <2>1, <2>2
<1> QED
  BY <1>2, <1>4, <1>5, <1>6, <1>7 DEF WholeCounted
\* The steps that leave the packets sent alone.
LEMMA SentUnchanged ==
  ASSUME [Next]_vars, ~ MonConnectOk, ~ \E p \in Packets : ServerSends(p)
  PROVE  UNCHANGED <<sent, stream, ends>> /\ (mixed => mixed')
<1>1. CASE RcvSeesDown
  BY <1>1 DEF RcvSeesDown
<1>2. CASE RecvThread /\ ~ RcvSeesDown
  BY <1>2 DEF RecvThread, RcvSeesUp, RcvWakes, RcvRead, RcvTimeout, RcvFail,
              RcvClear, RcvByte, RcvDone, link
<1>3. CASE MonRenew \/ MonConnectFail \/ MonPublish
  BY <1>3 DEF MonRenew, MonConnectFail, MonPublish
<1>4. CASE MarkedDown \/ ServerCloses \/ UNCHANGED vars
  BY <1>4 DEF MarkedDown, ServerCloses, vars, link
<1> QED
  BY <1>1, <1>2, <1>3, <1>4 DEF Next, Monitor

\* A packet more in the stream, with its end.
LEMMA SendingExtends ==
  ASSUME LinkType, EndsInv, NEW p \in Packets, ServerSends(p)
  PROVE  /\ Len(sent) \in Nat /\ Len(ends) = Len(sent) /\ Len(stream) \in Nat
         /\ Len(p) \in Nat \ {0} /\ Len(stream') = Len(stream) + Len(p)
         /\ ends' \in Seq(Nat) /\ Len(ends') = Len(sent) + 1
         /\ ends'[Len(sent) + 1] = Len(stream) + Len(p)
         /\ \A i \in 1 .. Len(sent) : ends'[i] = ends[i] /\ ends[i] \in Nat
         /\ sent' \in Seq(Packets) /\ Len(sent') = Len(sent) + 1 /\ sent'[Len(sent) + 1] = p
         /\ \A i \in 1 .. Len(sent) : sent'[i] = sent[i]
<1>1. /\ sent \in Seq(Packets) /\ stream \in Seq(Byte) /\ p \in Seq(Byte)
      /\ Len(p) \in Nat \ {0} /\ Len(stream) \in Nat /\ Len(sent) \in Nat
  BY PacketAssumption, LenProperties DEF LinkType
<1>2. sent' = Append(sent, p) /\ stream' = stream \o p /\ ends' = Append(ends, Len(stream'))
  BY DEF ServerSends
<1>3. Len(stream') = Len(stream) + Len(p)
  BY <1>1, <1>2, ConcatProperties
<1>4. Len(stream') \in Nat
  BY <1>1, <1>3
<1>5. /\ ends' \in Seq(Nat) /\ Len(ends') = Len(ends) + 1 /\ ends'[Len(ends) + 1] = Len(stream')
      /\ \A i \in 1 .. Len(ends) : ends'[i] = ends[i] /\ ends[i] \in Nat
  <2> DEFINE total == Len(stream')
  <2>1. total \in Nat /\ ends \in Seq(Nat)
    BY <1>4 DEF EndsInv
  <2> HIDE DEF total
  <2>2. /\ Append(ends, total) \in Seq(Nat) /\ Len(Append(ends, total)) = Len(ends) + 1
        /\ Append(ends, total)[Len(ends) + 1] = total
        /\ \A i \in 1 .. Len(ends) : Append(ends, total)[i] = ends[i] /\ ends[i] \in Nat
    BY <2>1, AppendProperties, ElementOfSeq
  <2>3. ends' = Append(ends, total)
    BY <1>2 DEF total
  <2> QED
    BY <2>2, <2>3 DEF total
<1>6. /\ sent' \in Seq(Packets) /\ Len(sent') = Len(sent) + 1 /\ sent'[Len(sent) + 1] = p
      /\ \A i \in 1 .. Len(sent) : sent'[i] = sent[i]
  BY <1>1, <1>2, AppendProperties
<1>7. Len(ends) = Len(sent)
  BY DEF EndsInv
<1> QED
  BY <1>1, <1>3, <1>5, <1>6, <1>7

\* Every step keeps the ends of the packets.
LEMMA EndsKept ==
  ASSUME LinkType, EndsInv, [Next]_vars
  PROVE  EndsInv'
<1>1. CASE MonConnectOk
  <2>1. sent' = <<>> /\ stream' = <<>> /\ ends' = <<>>
    BY <1>1 DEF MonConnectOk
  <2>2. <<>> \in Seq(Nat) /\ Len(<<>>) = 0
    BY EmptySeq
  <2> QED
    BY <2>1, <2>2 DEF EndsInv, End
<1>2. CASE \E p \in Packets : ServerSends(p)
  <2>1. PICK p \in Packets : ServerSends(p)
    BY <1>2
  <2> DEFINE N == Len(sent)
             total == Len(stream)
             size == Len(p)
  <2>2. /\ N \in Nat /\ Len(ends) = N /\ total \in Nat /\ size \in Nat \ {0}
        /\ Len(stream') = total + size
        /\ ends' \in Seq(Nat) /\ Len(ends') = N + 1 /\ ends'[N + 1] = total + size
        /\ \A i \in 1 .. N : ends'[i] = ends[i] /\ ends[i] \in Nat
        /\ Len(sent') = N + 1 /\ sent'[N + 1] = p /\ \A i \in 1 .. N : sent'[i] = sent[i]
    BY <2>1, SendingExtends
  <2>3. /\ \A i \in 1 .. N : ends[i] = End(i - 1) + Len(sent[i]) /\ ends[i] <= total
        /\ \A i, j \in 1 .. N : i < j => ends[i] < ends[j]
        /\ total = End(N)
    BY <2>2 DEF EndsInv
  <2>4. \A i \in 0 .. N : End(i)' = End(i)
    BY <2>2 DEF End
  <2> HIDE DEF N, total
  <2>5. ASSUME NEW i \in 1 .. N + 1
        PROVE  ends'[i] = End(i - 1)' + Len(sent'[i]) /\ ends'[i] <= total + size
    <3>1. CASE i = N + 1
      <4>1. i - 1 = N
        BY <2>2, <3>1
      <4>2. End(i - 1)' = total /\ sent'[i] = p /\ ends'[i] = total + size
        BY <2>2, <2>3, <2>4, <3>1, <4>1
      <4> QED
        BY <2>2, <4>2
    <3>2. CASE i # N + 1
      <4>1. i \in 1 .. N /\ i - 1 \in 0 .. N
        BY <2>2, <3>2
      <4>2. ends'[i] = ends[i] /\ End(i - 1)' = End(i - 1) /\ sent'[i] = sent[i]
        BY <2>2, <2>4, <4>1
      <4>3. ends[i] = End(i - 1) + Len(sent[i]) /\ ends[i] <= total /\ ends[i] \in Nat
        BY <2>2, <2>3, <4>1
      <4> HIDE DEF size
      <4>4. ends[i] <= total + size
        BY <2>2, <4>3
      <4> QED
        BY <4>2, <4>3, <4>4
    <3> QED
      BY <3>1, <3>2
  <2>6. ASSUME NEW i \in 1 .. N + 1, NEW j \in 1 .. N + 1, i < j
        PROVE  ends'[i] < ends'[j]
    <3>1. i \in 1 .. N /\ ends'[i] = ends[i] /\ ends[i] <= total /\ ends[i] \in Nat
      BY <2>2, <2>3, <2>6
    <3>2. CASE j = N + 1
      <4> HIDE DEF size
      <4> QED
        BY <2>2, <3>1, <3>2
    <3>3. CASE j # N + 1
      <4>1. j \in 1 .. N
        BY <2>2, <3>3
      <4> QED
        BY <2>2, <2>3, <2>6, <3>1, <4>1
    <3> QED
      BY <3>2, <3>3
  <2>7. Len(stream') = End(Len(ends))'
    <3>1. Len(ends') # 0 /\ ends'[Len(ends')] = total + size
      BY <2>2
    <3> QED
      BY <2>2, <3>1 DEF End
  <2>8. Len(ends') = Len(sent')
    BY <2>2
  <2>9. \A i \in 1 .. Len(ends') :
          ends'[i] = End(i - 1)' + Len(sent'[i]) /\ ends'[i] <= Len(stream')
    BY <2>2, <2>5
  <2>10. \A i, j \in 1 .. Len(ends') : i < j => ends'[i] < ends'[j]
    BY <2>2, <2>6
  <2> QED
    BY <2>2, <2>7, <2>8, <2>9, <2>10 DEF EndsInv
<1>3. CASE ~ MonConnectOk /\ ~ \E p \in Packets : ServerSends(p)
  <2>1. UNCHANGED <<sent, stream, ends>>
    BY <1>3, SentUnchanged
  <2> QED
    BY <2>1 DEF EndsInv, End
<1> QED
  BY <1>1, <1>2, <1>3
\* A byte through the parser hands on the next packet, or nothing.
LEMMA BytePasses ==
  ASSUME FramerInv, ~ mixed, RcvByte
  PROVE  /\ UNCHANGED <<sent, stream, ends, wire, mixed>> /\ ring # <<>>
         /\ Len(ring') = Len(ring) - 1 /\ Len(delivered) < Len(sent)
         /\ \/ /\ Len(delivered') = Len(delivered) + 1
               /\ Len(handed') = Len(handed) + Len(sent[Len(delivered) + 1])
               /\ Len(parser.data) + 1 = Len(sent[Len(delivered) + 1])
               /\ Len(parser'.data) = 0
            \/ /\ UNCHANGED <<delivered, handed>>
               /\ Len(parser'.data) = Len(parser.data) + 1
<1> DEFINE packet == sent[Len(delivered) + 1]
           ch == ring[1]
           more == Append(parser.data, ch)
<1>1. LinkType /\ ThreadType /\ ThreadInv /\ HandedOn /\ InPlace /\ Follows
  BY DEF FramerInv, OrderInv
<1>2. UNCHANGED <<sent, stream, ends, wire, mixed>> /\ ring # <<>> /\ pc = "bytes"
  BY DEF RcvByte, link
<1>3. ret'.bytes[1] = ch /\ ch \in Byte /\ ring' \in Seq(Byte) /\ <<ch>> \o ring' = ring
  BY <1>1, GetsByte DEF RcvByte, ThreadType
<1>4. Len(ring') = Len(ring) - 1
  <2>1. <<ch>> \in Seq(Byte) /\ Len(<<ch>>) = 1
    BY <1>3
  <2>2. Len(<<ch>> \o ring') = 1 + Len(ring') /\ Len(ring') \in Nat
    BY <1>3, <2>1, ConcatProperties, LenProperties
  <2> QED
    BY <1>3, <2>2
<1>5. Begins(Got, stream)
  BY <1>1, <1>2 DEF Follows, Reading
<1>6. /\ Len(delivered) < Len(sent) /\ packet \in Packets
      /\ Len(parser.data) < Len(packet) /\ ch = packet[Len(parser.data) + 1]
  BY <1>1, <1>2, <1>5, NextByte
<1>7. /\ IsComplete(ch) => Len(parser.data) + 1 = Len(packet)
      /\ ~ IsComplete(ch) => Parsed(ch).data = more
  <2>1. ParserType /\ (parser.data = <<>> => parser = ParserReset)
    BY <1>1 DEF ThreadType, ThreadInv
  <2>2. parser.data # <<>> => PlaceIn(parser, packet)
    BY <1>1 DEF InPlace
  <2> HIDE DEF packet
  <2> QED
    BY <1>3, <1>6, <2>1, <2>2, ParserReads
<1>8. more \in Seq(Byte) /\ Len(more) = Len(parser.data) + 1
  BY <1>1, <1>3, GotType, AppendProperties
<1>9. CASE IsComplete(ch)
  <2>1. parser' = ParserReset /\ delivered' = Append(delivered, more) /\ handed' = handed \o more
    BY <1>3, <1>9 DEF RcvByte, Parsed
  <2>2. Len(parser'.data) = 0
    BY <2>1, EmptySeq DEF ParserReset
  <2>3. Len(handed') = Len(handed) + Len(more)
    BY <1>1, <1>8, <2>1, GotType, ConcatProperties
  <2>4. Len(delivered') = Len(delivered) + 1
    BY <1>1, <1>8, <2>1, AppendProperties DEF ThreadType
  <2> HIDE DEF more, packet
  <2> QED
    BY <1>2, <1>4, <1>6, <1>7, <1>8, <1>9, <2>2, <2>3, <2>4 DEF packet
<1>10. CASE ~ IsComplete(ch)
  <2>1. parser' = Parsed(ch) /\ UNCHANGED output
    BY <1>3, <1>10 DEF RcvByte
  <2>2. Len(parser'.data) = Len(parser.data) + 1
    BY <1>7, <1>8, <1>10, <2>1
  <2> QED
    BY <1>2, <1>4, <1>6, <2>1, <2>2 DEF output
<1> QED
  BY <1>9, <1>10

\* What was handed on goes on ending where its last packet does.
LEMMA HandedKept ==
  ASSUME PlacesInv, [Next]_vars
  PROVE  HandedInv'
<1>1. FramerInv /\ LinkType /\ ThreadType /\ EndsInv /\ HandedInv
  BY DEF PlacesInv, FramerInv
<1>2. CASE MonConnectOk
  BY <1>2, EmptySeq DEF MonConnectOk, HandedInv, End
<1>3. CASE \E p \in Packets : ServerSends(p)
  <2>1. PICK p \in Packets : ServerSends(p)
    BY <1>3
  <2>2. UNCHANGED <<handed, delivered, mixed>>
    BY <2>1 DEF ServerSends, output
  <2>3. \A i \in 1 .. Len(sent) : ends'[i] = ends[i]
    BY <1>1, <2>1, SendingExtends
  <2>4. ~ mixed => Len(delivered) \in 0 .. Len(sent)
    BY <1>1, GotType DEF FramerInv, OrderInv, HandedOn
  <2> QED
    BY <1>1, <2>2, <2>3, <2>4 DEF HandedInv, End
<1>4. CASE RcvByte
  <2>1. SUFFICES ASSUME ~ mixed'
                 PROVE  Len(handed') = End(Len(delivered))'
    BY DEF HandedInv
  <2>2. ~ mixed
    BY <1>4, <2>1 DEF RcvByte, link
  <2> DEFINE k == Len(delivered)
  <2>3. /\ ends' = ends /\ k < Len(sent) /\ Len(handed) = End(k)
        /\ \/ Len(delivered') = k + 1 /\ Len(handed') = Len(handed) + Len(sent[k + 1])
           \/ UNCHANGED <<delivered, handed>>
    BY <1>1, <1>4, <2>2, BytePasses DEF HandedInv
  <2>4. k \in Nat /\ Len(sent) \in Nat
    BY <1>1, GotType
  <2>5. ends[k + 1] = End(k) + Len(sent[k + 1])
    <3>1. k + 1 \in 1 .. Len(ends) /\ (k + 1) - 1 = k
      BY <1>1, <2>3, <2>4 DEF EndsInv
    <3>2. ends[k + 1] = End((k + 1) - 1) + Len(sent[k + 1])
      BY <1>1, <3>1 DEF EndsInv
    <3> QED
      BY <3>1, <3>2
  <2>6. CASE Len(delivered') = k + 1 /\ Len(handed') = Len(handed) + Len(sent[k + 1])
    <3>1. End(Len(delivered))' = ends[k + 1]
      BY <2>3, <2>4, <2>6 DEF End
    <3> QED
      BY <2>3, <2>5, <2>6, <3>1
  <2>7. CASE UNCHANGED <<delivered, handed>>
    BY <2>3, <2>7 DEF End
  <2> QED
    BY <2>3, <2>6, <2>7
<1>5. CASE RecvThread /\ ~ RcvByte
  <2>1. UNCHANGED <<handed, delivered, ends>>
    BY <1>5 DEF RecvThread, RcvSeesUp, RcvSeesDown, RcvWakes, RcvRead, RcvTimeout, RcvFail,
                RcvClear, RcvDone, link, output
  <2>2. mixed => mixed'
    <3>1. CASE RcvSeesDown
      BY <3>1 DEF RcvSeesDown
    <3>2. CASE ~ RcvSeesDown
      BY <1>5, <3>2 DEF RecvThread, RcvSeesUp, RcvWakes, RcvRead, RcvTimeout, RcvFail,
                        RcvClear, RcvDone, link
    <3> QED
      BY <3>1, <3>2
  <2> QED
    BY <1>1, <2>1, <2>2 DEF HandedInv, End
<1>6. CASE MonRenew \/ MonConnectFail \/ MonPublish
  <2>1. UNCHANGED <<handed, delivered, mixed, ends>>
    BY <1>6 DEF MonRenew, MonConnectFail, MonPublish, output
  <2> QED
    BY <1>1, <2>1 DEF HandedInv, End
<1>7. CASE MarkedDown \/ ServerCloses \/ UNCHANGED vars
  <2>1. UNCHANGED <<handed, delivered, mixed, ends>>
    BY <1>7 DEF MarkedDown, ServerCloses, vars, link, output
  <2> QED
    BY <1>1, <2>1 DEF HandedInv, End
<1> QED
  BY <1>2, <1>3, <1>4, <1>5, <1>6, <1>7 DEF Next, Monitor

LEMMA PlacesStart == Init => PlacesInv
<1> SUFFICES ASSUME Init
             PROVE  PlacesInv
  OBVIOUS
<1>1. <<>> \in Seq(Nat) /\ Len(<<>>) = 0
  BY EmptySeq
<1>2. EndsInv /\ HandedInv
  BY <1>1 DEF Init, EndsInv, HandedInv, End
<1> QED
  BY <1>2, FramerStarts DEF PlacesInv

LEMMA PlacesInvariant == Spec => []PlacesInv
<1>1. PlacesInv /\ [Next]_vars => PlacesInv'
  <2> SUFFICES ASSUME PlacesInv, [Next]_vars
               PROVE  PlacesInv'
    OBVIOUS
  <2>1. EndsInv' /\ HandedInv' /\ FramerInv'
    BY EndsKept, HandedKept, FramerSteps DEF PlacesInv, FramerInv
  <2> QED
    BY <2>1 DEF PlacesInv
<1> QED
  BY <1>1, PlacesStart, PTL DEF Spec
-----------------------------------------------------------------------------
\* Parts of a sequence: a part of a part, from its beginning and up to its end.
LEMMA PartOfPart ==
  ASSUME NEW S, NEW s \in Seq(S), NEW a \in 0 .. Len(s), NEW b \in a .. Len(s), NEW n \in 0 .. b - a
  PROVE  /\ SubSeq(s, a + 1, b) \in Seq(S) /\ Len(SubSeq(s, a + 1, b)) = b - a
         /\ SubSeq(SubSeq(s, a + 1, b), 1, n) = SubSeq(s, a + 1, a + n)
         /\ SubSeq(SubSeq(s, a + 1, b), n + 1, b - a) = SubSeq(s, a + n + 1, b)
<1> DEFINE part == SubSeq(s, a + 1, b)
           first == SubSeq(s, a + 1, a + n)
           last == SubSeq(s, a + n + 1, b)
           front == SubSeq(part, 1, n)
           back == SubSeq(part, n + 1, b - a)
<1>1. Len(s) \in Nat /\ \A i \in 1 .. Len(s) : s[i] \in S
  BY LenProperties, ElementOfSeq
<1>2. a \in Nat /\ b \in Nat /\ n \in Nat /\ a <= b /\ b <= Len(s) /\ n <= b - a
  BY <1>1
<1>3. \A i \in a + 1 .. b : s[i] \in S
  BY <1>1, <1>2
<1>4. /\ part \in Seq(S) /\ Len(part) = b - a
      /\ \A i \in 1 .. b - a : part[i] = s[a + i]
  <2>1. /\ part \in Seq(S)
        /\ Len(part) = IF a + 1 <= b THEN b - (a + 1) + 1 ELSE 0
        /\ \A i \in 1 .. b - (a + 1) + 1 : part[i] = s[(a + 1) + i - 1]
    BY <1>2, <1>3, SubSeqProperties
  <2> HIDE DEF part
  <2> QED
    BY <1>2, <2>1
<1>5. /\ first \in Seq(S) /\ Len(first) = n
      /\ \A i \in 1 .. n : first[i] = s[a + i]
  <2>1. \A i \in a + 1 .. a + n : s[i] \in S
    BY <1>2, <1>3
  <2>2. /\ first \in Seq(S)
        /\ Len(first) = IF a + 1 <= a + n THEN (a + n) - (a + 1) + 1 ELSE 0
        /\ \A i \in 1 .. (a + n) - (a + 1) + 1 : first[i] = s[(a + 1) + i - 1]
    BY <1>2, <2>1, SubSeqProperties
  <2> HIDE DEF first
  <2> QED
    BY <1>2, <2>2
<1>6. /\ last \in Seq(S) /\ Len(last) = b - a - n
      /\ \A i \in 1 .. b - a - n : last[i] = s[a + n + i]
  <2>1. \A i \in a + n + 1 .. b : s[i] \in S
    BY <1>2, <1>3
  <2>2. /\ last \in Seq(S)
        /\ Len(last) = IF a + n + 1 <= b THEN b - (a + n + 1) + 1 ELSE 0
        /\ \A i \in 1 .. b - (a + n + 1) + 1 : last[i] = s[(a + n + 1) + i - 1]
    BY <1>2, <2>1, SubSeqProperties
  <2> HIDE DEF last
  <2> QED
    BY <1>2, <2>2
<1> HIDE DEF part, first, last
<1>7. \A i \in 1 .. b - a : part[i] \in S
  BY <1>2, <1>3, <1>4
<1>8. front = first
  <2>1. /\ front \in Seq(S) /\ Len(front) = n
        /\ \A i \in 1 .. n : front[i] = part[i]
    <3>1. \A i \in 1 .. n : part[i] \in S
      BY <1>2, <1>7
    <3>2. /\ front \in Seq(S) /\ Len(front) = IF 1 <= n THEN n - 1 + 1 ELSE 0
          /\ \A i \in 1 .. n - 1 + 1 : front[i] = part[1 + i - 1]
      BY <1>2, <3>1, SubSeqProperties
    <3> HIDE DEF front
    <3> QED
      BY <1>2, <3>2
  <2> HIDE DEF front
  <2>2. ASSUME NEW i \in 1 .. n
        PROVE  front[i] = first[i]
    <3>1. i \in 1 .. b - a
      BY <1>2
    <3> QED
      BY <1>4, <1>5, <2>1, <3>1
  <2> QED
    BY <1>5, <2>1, <2>2, SeqEqual
<1>9. back = last
  <2>1. /\ back \in Seq(S) /\ Len(back) = b - a - n
        /\ \A i \in 1 .. b - a - n : back[i] = part[n + i]
    <3>1. \A i \in n + 1 .. b - a : part[i] \in S
      BY <1>2, <1>7
    <3>2. /\ back \in Seq(S) /\ Len(back) = IF n + 1 <= b - a THEN (b - a) - (n + 1) + 1 ELSE 0
          /\ \A i \in 1 .. (b - a) - (n + 1) + 1 : back[i] = part[(n + 1) + i - 1]
      BY <1>2, <3>1, SubSeqProperties
    <3> HIDE DEF back
    <3> QED
      BY <1>2, <3>2
  <2> HIDE DEF back
  <2>2. ASSUME NEW i \in 1 .. b - a - n
        PROVE  back[i] = last[i]
    <3>1. n + i \in 1 .. b - a /\ a + (n + i) = a + n + i
      BY <1>2
    <3> QED
      BY <1>4, <1>6, <2>1, <3>1
  <2> QED
    BY <1>6, <2>1, <2>2, SeqEqual
<1> QED
  BY <1>4, <1>8, <1>9 DEF part, first, last

\* A part of a sequence and of the one with an element more.
LEMMA PartOfLonger ==
  ASSUME NEW S, NEW s \in Seq(S), NEW e \in S, NEW a \in 0 .. Len(s), NEW b \in a .. Len(s)
  PROVE  /\ SubSeq(Append(s, e), a + 1, b) = SubSeq(s, a + 1, b)
         /\ SubSeq(Append(s, e), a + 1, Len(s) + 1) = Append(SubSeq(s, a + 1, Len(s)), e)
<1> DEFINE more == Append(s, e)
           N == Len(s)
           rest == SubSeq(s, a + 1, N)
           longer == SubSeq(more, a + 1, N + 1)
<1>1. /\ N \in Nat /\ a \in Nat /\ b \in Nat /\ a <= b /\ b <= N
      /\ \A i \in 1 .. N : s[i] \in S
  BY LenProperties, ElementOfSeq
<1>2. /\ more \in Seq(S) /\ Len(more) = N + 1 /\ more[N + 1] = e
      /\ \A i \in 1 .. N : more[i] = s[i]
  BY AppendProperties
<1> HIDE DEF more, N
<1>3. \A i \in a + 1 .. N : s[i] \in S /\ more[i] \in S
  BY <1>1, <1>2
<1>4. SubSeq(more, a + 1, b) = SubSeq(s, a + 1, b)
  <2> DEFINE here == SubSeq(s, a + 1, b)
             there == SubSeq(more, a + 1, b)
             size == IF a + 1 <= b THEN b - (a + 1) + 1 ELSE 0
  <2>1. \A i \in a + 1 .. b : s[i] \in S /\ more[i] \in S /\ more[i] = s[i]
    BY <1>1, <1>2, <1>3
  <2>2. /\ here \in Seq(S) /\ Len(here) = size
        /\ \A i \in 1 .. b - (a + 1) + 1 : here[i] = s[(a + 1) + i - 1]
    BY <1>1, <2>1, SubSeqProperties
  <2>3. /\ there \in Seq(S) /\ Len(there) = size
        /\ \A i \in 1 .. b - (a + 1) + 1 : there[i] = more[(a + 1) + i - 1]
    BY <1>1, <2>1, SubSeqProperties
  <2> HIDE DEF here, there
  <2>4. ASSUME NEW i \in 1 .. Len(here)
        PROVE  here[i] = there[i]
    <3>1. i \in 1 .. b - (a + 1) + 1 /\ (a + 1) + i - 1 \in a + 1 .. b
      BY <1>1, <2>2
    <3> QED
      BY <2>1, <2>2, <2>3, <3>1
  <2>5. here = there
    BY <2>2, <2>3, <2>4, SeqEqual
  <2> QED
    BY <2>5 DEF here, there
<1>5. longer = Append(rest, e)
  <2>1. \A i \in a + 1 .. N + 1 : more[i] \in S
    BY <1>1, <1>2, <1>3
  <2>2. /\ rest \in Seq(S) /\ Len(rest) = N - a
        /\ \A i \in 1 .. N - a : rest[i] = s[a + i]
    <3>1. /\ rest \in Seq(S) /\ Len(rest) = IF a + 1 <= N THEN N - (a + 1) + 1 ELSE 0
          /\ \A i \in 1 .. N - (a + 1) + 1 : rest[i] = s[(a + 1) + i - 1]
      BY <1>1, <1>3, SubSeqProperties
    <3> HIDE DEF rest
    <3> QED
      BY <1>1, <3>1
  <2>3. /\ longer \in Seq(S) /\ Len(longer) = N - a + 1
        /\ \A i \in 1 .. N - a + 1 : longer[i] = more[a + i]
    <3>1. /\ longer \in Seq(S)
          /\ Len(longer) = IF a + 1 <= N + 1 THEN (N + 1) - (a + 1) + 1 ELSE 0
          /\ \A i \in 1 .. (N + 1) - (a + 1) + 1 : longer[i] = more[(a + 1) + i - 1]
      BY <1>1, <2>1, SubSeqProperties
    <3> HIDE DEF longer
    <3> QED
      BY <1>1, <3>1
  <2> HIDE DEF rest, longer
  <2>4. /\ Append(rest, e) \in Seq(S) /\ Len(Append(rest, e)) = N - a + 1
        /\ Append(rest, e)[N - a + 1] = e
        /\ \A i \in 1 .. N - a : Append(rest, e)[i] = rest[i]
    BY <2>2, AppendProperties
  <2>5. ASSUME NEW i \in 1 .. N - a + 1
        PROVE  longer[i] = Append(rest, e)[i]
    <3>1. CASE i = N - a + 1
      BY <1>1, <1>2, <2>3, <2>4, <3>1
    <3>2. CASE i # N - a + 1
      <4>1. i \in 1 .. N - a /\ a + i \in 1 .. N
        BY <1>1, <3>2
      <4> QED
        BY <1>2, <2>2, <2>3, <2>4, <4>1
    <3> QED
      BY <3>1, <3>2
  <2> QED
    BY <2>3, <2>4, <2>5, SeqEqual
<1> QED
  BY <1>4, <1>5 DEF more, N
-----------------------------------------------------------------------------
\* What PacketArrivals sees of the packets, when no part of one was left over.
LEMMA Seen ==
  ~ mixed => /\ Reading => WholeOnWire = SubSeq(sent, ReadWhole + 1, LeftWhole)
             /\ ~ Reading => WholeOnWire = <<>>
             /\ WholeInHand = SubSeq(sent, Len(delivered) + 1, ReadWhole)
  BY DEF WholeOnWire, WholeInHand

LEMMA SeenNext ==
  ~ mixed' => /\ Reading' => WholeOnWire' = SubSeq(sent', ReadWhole' + 1, LeftWhole')
              /\ ~ Reading' => WholeOnWire' = <<>>
              /\ WholeInHand' = SubSeq(sent', Len(delivered') + 1, ReadWhole')
  BY DEF WholeOnWire, WholeInHand

\* What is on the wire for PacketArrivals is a sequence.
LEMMA WireType ==
  ASSUME LinkType, WholeCounted, ~ mixed
  PROVE  Len(WholeOnWire) \in Nat
<1>1. CASE Reading
  <2>1. sent \in Seq(Packets) /\ Len(sent) \in Nat
    BY LenProperties DEF LinkType
  <2>2. ReadWhole \in 0 .. Len(sent) /\ LeftWhole \in ReadWhole .. Len(sent)
    BY <2>1 DEF WholeCounted
  <2> DEFINE a == ReadWhole
             z == LeftWhole
  <2>3. WholeOnWire = SubSeq(sent, a + 1, z)
    BY <1>1, Seen
  <2>4. a \in 0 .. Len(sent) /\ z \in a .. Len(sent)
    BY <2>2
  <2> HIDE DEF a, z
  <2>5. 0 \in 0 .. z - a
    BY <2>1, <2>4
  <2>6. Len(SubSeq(sent, a + 1, z)) = z - a
    BY <2>1, <2>4, <2>5, PartOfPart
  <2> QED
    BY <2>1, <2>3, <2>4, <2>6
<1>2. CASE ~ Reading
  BY <1>2, Seen, EmptySeq
<1> QED
  BY <1>1, <1>2

\* Everything on the wire may be lost at once.
LEMMA LosesAll ==
  ASSUME Len(WholeOnWire) \in Nat, WholeOnWire' = <<>>, WholeInHand' = WholeInHand, mixed' = mixed
  PROVE  Arrivals!Lose
<1>1. SubSeq(WholeOnWire, 1, 0) = <<>>
  BY SubSeqEmpty
<1>2. 0 \in 0 .. Len(WholeOnWire)
  OBVIOUS
<1> QED
  BY <1>1, <1>2 DEF Arrivals!Lose

\* Packets lost from the end of the wire, if any, and nothing else.
LEMMA Loses ==
  ASSUME LinkType, WholeCounted, ~ mixed, mixed' = mixed, UNCHANGED <<sent, delivered>>,
         Reading' => Reading,
         ReadWhole' = ReadWhole, LeftWhole' \in ReadWhole .. LeftWhole
  PROVE  Arrivals!Lose
<1> DEFINE a == ReadWhole
           z == LeftWhole
           y == LeftWhole'
           n == y - a
<1>1. /\ Len(sent) \in Nat /\ a \in 0 .. Len(sent) /\ z \in a .. Len(sent)
      /\ Len(delivered) \in Nat
  BY LenProperties DEF WholeCounted, LinkType
<1>2. sent \in Seq(Packets) /\ y \in a .. z
  BY DEF LinkType
<1>3. Reading' => WholeOnWire = SubSeq(sent, a + 1, z) /\ WholeOnWire' = SubSeq(sent, a + 1, y)
  BY Seen, SeenNext
<1>4. WholeInHand' = WholeInHand
  BY Seen, SeenNext
<1> HIDE DEF a, z, y
<1>5. n \in 0 .. z - a /\ a + n = y
  BY <1>1, <1>2
<1>6. /\ Len(SubSeq(sent, a + 1, z)) = z - a
      /\ SubSeq(SubSeq(sent, a + 1, z), 1, n) = SubSeq(sent, a + 1, a + n)
  BY <1>1, <1>2, <1>5, PartOfPart
<1>7. CASE Reading'
  <2>1. n \in 0 .. Len(WholeOnWire) /\ WholeOnWire' = SubSeq(WholeOnWire, 1, n)
    BY <1>3, <1>5, <1>6, <1>7
  <2> QED
    BY <1>4, <2>1 DEF Arrivals!Lose
<1>8. CASE ~ Reading'
  <2>1. WholeOnWire' = <<>>
    BY <1>8, SeenNext
  <2>2. Len(WholeOnWire) \in Nat
    BY <1>1, WireType DEF LinkType
  <2> QED
    BY <1>4, <2>1, <2>2, LosesAll
<1> QED
  BY <1>7, <1>8

\* The first packets of the wire become the chunk.
LEMMA Reads ==
  ASSUME LinkType, WholeCounted, ~ mixed, mixed' = mixed, UNCHANGED <<sent, delivered>>,
         Reading, Reading', ReadWhole = Len(delivered),
         ReadWhole' \in ReadWhole .. LeftWhole, LeftWhole' = LeftWhole
  PROVE  Arrivals!Read
<1> DEFINE a == ReadWhole
           b == ReadWhole'
           z == LeftWhole
           n == b - a
<1>1. Len(sent) \in Nat /\ a \in 0 .. Len(sent) /\ z \in a .. Len(sent) /\ b \in a .. z
  BY LenProperties DEF WholeCounted, LinkType
<1>2. sent \in Seq(Packets)
  BY DEF LinkType
<1>3. /\ WholeOnWire = SubSeq(sent, a + 1, z) /\ WholeOnWire' = SubSeq(sent, b + 1, z)
      /\ WholeInHand = SubSeq(sent, a + 1, a) /\ WholeInHand' = SubSeq(sent, a + 1, b)
  BY Seen, SeenNext
<1> HIDE DEF a, b, z
<1>4. n \in 0 .. z - a /\ a + n = b /\ a + n + 1 = b + 1
  BY <1>1
<1>5. /\ Len(SubSeq(sent, a + 1, z)) = z - a
      /\ SubSeq(SubSeq(sent, a + 1, z), 1, n) = SubSeq(sent, a + 1, a + n)
      /\ SubSeq(SubSeq(sent, a + 1, z), n + 1, z - a) = SubSeq(sent, a + n + 1, z)
  BY <1>1, <1>2, <1>4, PartOfPart
<1>6. WholeInHand = <<>>
  BY <1>1, <1>3, SubSeqEmpty
<1>7. /\ n \in 0 .. Len(WholeOnWire) /\ WholeInHand' = SubSeq(WholeOnWire, 1, n)
      /\ WholeOnWire' = SubSeq(WholeOnWire, n + 1, Len(WholeOnWire))
  BY <1>3, <1>4, <1>5
<1> QED
  BY <1>6, <1>7 DEF Arrivals!Read

\* The first packet of the chunk is handed on.
LEMMA HandsOn ==
  ASSUME LinkType, WholeCounted, ~ mixed, mixed' = mixed, UNCHANGED sent, Reading, Reading',
         Len(delivered') = Len(delivered) + 1, ReadWhole' = ReadWhole, LeftWhole' = LeftWhole,
         Len(delivered) < ReadWhole
  PROVE  Arrivals!HandOn
<1> DEFINE a == ReadWhole
           k == Len(delivered)
<1>1. Len(sent) \in Nat /\ a \in 0 .. Len(sent) /\ k \in Nat /\ k < a
  BY LenProperties DEF WholeCounted, LinkType
<1>2. sent \in Seq(Packets)
  BY DEF LinkType
<1>3. /\ WholeOnWire' = WholeOnWire
      /\ WholeInHand = SubSeq(sent, k + 1, a) /\ WholeInHand' = SubSeq(sent, (k + 1) + 1, a)
  BY Seen, SeenNext
<1> HIDE DEF a, k
<1>4. k + 1 \in 1 .. Len(sent) /\ a \in k + 1 .. Len(sent) /\ k \in 0 .. Len(sent)
      /\ 0 \in 0 .. a - k /\ a \in k .. Len(sent)
  BY <1>1
<1>5. Tail(SubSeq(sent, k + 1, a)) = SubSeq(sent, (k + 1) + 1, a)
  BY <1>2, <1>4, HeadTailOfSubSeq
<1>6. Len(SubSeq(sent, k + 1, a)) = a - k
  BY <1>1, <1>2, <1>4, PartOfPart
<1>7. WholeInHand # <<>>
  BY <1>1, <1>3, <1>6, EmptySeq
<1> QED
  BY <1>3, <1>5, <1>7 DEF Arrivals!HandOn

\* A packet more on the wire.
LEMMA Sends ==
  ASSUME LinkType, WholeCounted, ~ mixed, mixed' = mixed, UNCHANGED delivered, Reading, Reading',
         NEW p \in Packets, sent' = Append(sent, p), ReadWhole' = ReadWhole,
         LeftWhole = Len(sent), LeftWhole' = Len(sent) + 1
  PROVE  Arrivals!Send
<1> DEFINE a == ReadWhole
           k == Len(delivered)
           N == Len(sent)
<1>1. N \in Nat /\ a \in 0 .. N /\ k \in 0 .. N /\ a \in k .. N /\ N \in a .. N
  BY LenProperties DEF WholeCounted, LinkType
<1>2. sent \in Seq(Packets)
  BY DEF LinkType
<1>3. /\ WholeOnWire = SubSeq(sent, a + 1, N)
      /\ WholeOnWire' = SubSeq(Append(sent, p), a + 1, N + 1)
      /\ WholeInHand = SubSeq(sent, k + 1, a)
      /\ WholeInHand' = SubSeq(Append(sent, p), k + 1, a)
  BY Seen, SeenNext
<1> HIDE DEF a, k
<1>4. SubSeq(Append(sent, p), a + 1, N + 1) = Append(SubSeq(sent, a + 1, N), p)
  BY <1>1, <1>2, PartOfLonger
<1>5. SubSeq(Append(sent, p), k + 1, a) = SubSeq(sent, k + 1, a)
  BY <1>1, <1>2, PartOfLonger
<1>6. WholeOnWire' = Append(WholeOnWire, p) /\ WholeInHand' = WholeInHand
  BY <1>3, <1>4, <1>5
<1> QED
  BY <1>6 DEF Arrivals!Send
-----------------------------------------------------------------------------
\* The places up to which the thread has read, and up to which nothing is lost.
ReadPlace == Len(handed) + Len(parser.data) + Len(ring)
LeftPlace == Len(handed) + Len(parser.data) + Len(ring) + Len(wire)

LEMMA WholeIsCountedNext == (PlacesInv /\ ~ mixed => WholeCounted)'
  BY WholeIsCounted, PTL

LEMMA PlacesType ==
  PlacesInv => /\ ReadPlace \in Nat /\ LeftPlace \in Nat /\ LeftPlace = ReadPlace + Len(wire)
               /\ LinkType /\ ThreadType /\ ThreadInv /\ EndsInv
               /\ Len(sent) \in Nat /\ Len(ends) = Len(sent) /\ Len(delivered) \in Nat
               /\ \A i \in 1 .. Len(sent) : ends[i] \in Nat
<1> SUFFICES ASSUME PlacesInv
             PROVE  /\ ReadPlace \in Nat /\ LeftPlace \in Nat /\ LeftPlace = ReadPlace + Len(wire)
                    /\ LinkType /\ ThreadType /\ ThreadInv /\ EndsInv
                    /\ Len(sent) \in Nat /\ Len(ends) = Len(sent) /\ Len(delivered) \in Nat
                    /\ \A i \in 1 .. Len(sent) : ends[i] \in Nat
  OBVIOUS
<1>1. LinkType /\ ThreadType /\ ThreadInv /\ EndsInv
  BY DEF PlacesInv, FramerInv
<1>2. Len(ends) = Len(sent) /\ \A i \in 1 .. Len(ends) : ends[i] \in Nat
  BY <1>1, ElementOfSeq DEF EndsInv
<1> QED
  BY <1>1, <1>2, GotType DEF ReadPlace, LeftPlace

LEMMA PlacesTypeNext ==
  (PlacesInv => /\ ReadPlace \in Nat /\ LeftPlace \in Nat /\ LeftPlace = ReadPlace + Len(wire)
                /\ LinkType /\ ThreadType /\ ThreadInv /\ EndsInv
                /\ Len(sent) \in Nat /\ Len(ends) = Len(sent) /\ Len(delivered) \in Nat
                /\ \A i \in 1 .. Len(sent) : ends[i] \in Nat)'
  BY PlacesType, PTL

\* As many packets end before one place as before another, or more, if it is not behind.
LEMMA FurtherCountsMore ==
  ASSUME NEW N \in Nat, NEW a \in 0 .. N, NEW b \in 0 .. N, NEW p \in Nat, NEW q \in Nat,
         NEW e, \A i \in 1 .. N : e[i] \in Nat,
         \A i \in 1 .. N : i <= a <=> e[i] <= p,
         \A i \in 1 .. N : i <= b <=> e[i] <= q, p <= q
  PROVE  a <= b
<1> SUFFICES ASSUME b < a
             PROVE  FALSE
  OBVIOUS
<1>1. a \in 1 .. N
  OBVIOUS
<1>2. e[a] \in Nat /\ e[a] <= p
  BY <1>1
<1>3. e[a] <= q
  BY <1>2
<1> QED
  BY <1>1, <1>3

\* In a step that sends nothing, the counts go with the places.
LEMMA CountsFollowPlaces ==
  ASSUME PlacesInv, PlacesInv', ~ mixed, ~ mixed', UNCHANGED <<sent, ends>>
  PROVE  /\ WholeCounted /\ WholeCounted'
         /\ ReadPlace' = ReadPlace => ReadWhole' = ReadWhole
         /\ LeftPlace' <= LeftPlace => LeftWhole' <= LeftWhole
         /\ LeftPlace' = LeftPlace => LeftWhole' = LeftWhole
<1> DEFINE N == Len(sent)
           a == ReadWhole
           b == LeftWhole
           c == ReadWhole'
           d == LeftWhole'
           p == ReadPlace
           q == LeftPlace
           r == ReadPlace'
           s == LeftPlace'
<1>1. WholeCounted /\ WholeCounted'
  BY WholeIsCounted, WholeIsCountedNext
<1>2. /\ p \in Nat /\ q \in Nat /\ r \in Nat /\ s \in Nat
      /\ N \in Nat /\ \A i \in 1 .. N : ends[i] \in Nat
  BY PlacesType, PlacesTypeNext
<1>3. Len(delivered) \in 0 .. N /\ Len(delivered') \in 0 .. N
  BY <1>1 DEF WholeCounted
<1>4. a \in 0 .. N /\ b \in 0 .. N
  BY <1>1, <1>2, <1>3 DEF WholeCounted
<1>5. c \in 0 .. N /\ d \in 0 .. N
  BY <1>1, <1>2, <1>3 DEF WholeCounted
<1>6. \A i \in 1 .. N : (i <= a <=> ends[i] <= p) /\ (i <= b <=> ends[i] <= q)
  BY <1>1 DEF WholeCounted, ReadPlace, LeftPlace
<1>7. \A i \in 1 .. N : (i <= c <=> ends[i] <= r) /\ (i <= d <=> ends[i] <= s)
  BY <1>1 DEF WholeCounted, ReadPlace, LeftPlace
<1> HIDE DEF N, a, b, c, d, p, q, r, s
<1>8. r = p => c = a
  <2>1. p <= r => a <= c
    BY <1>2, <1>4, <1>5, <1>6, <1>7, FurtherCountsMore
  <2>2. r <= p => c <= a
    BY <1>2, <1>4, <1>5, <1>6, <1>7, FurtherCountsMore
  <2> QED
    BY <1>2, <1>4, <1>5, <2>1, <2>2
<1>9. s <= q => d <= b
  BY <1>2, <1>4, <1>5, <1>6, <1>7, FurtherCountsMore
<1>10. s = q => d = b
  <2>1. q <= s => b <= d
    BY <1>2, <1>4, <1>5, <1>6, <1>7, FurtherCountsMore
  <2> QED
    BY <1>2, <1>4, <1>5, <1>9, <2>1
<1> QED
  BY <1>1, <1>8, <1>9, <1>10 DEF a, b, c, d, p, q, r, s
\* A step that neither sends nor hands on, and reads nothing, at most loses.
LEMMA StandingLoses ==
  ASSUME PlacesInv, PlacesInv', ~ mixed, mixed' = mixed, UNCHANGED <<sent, ends, delivered>>,
         Reading' => Reading, ReadPlace' = ReadPlace \/ (ring = <<>> /\ ring' = <<>>), LeftPlace' <= LeftPlace
  PROVE  Arrivals!Lose
<1>1. /\ WholeCounted /\ WholeCounted' /\ LinkType /\ Len(sent) \in Nat
      /\ ReadPlace' = ReadPlace => ReadWhole' = ReadWhole
      /\ LeftWhole' <= LeftWhole
  BY CountsFollowPlaces, PlacesType
<1>2. ReadWhole' = ReadWhole
  <2>1. CASE ReadPlace' = ReadPlace
    BY <1>1, <2>1
  <2>2. CASE ring = <<>> /\ ring' = <<>>
    BY <1>1, <2>2 DEF WholeCounted
  <2> QED
    BY <2>1, <2>2
<1>3. /\ ReadWhole \in 0 .. Len(sent) /\ LeftWhole \in 0 .. Len(sent)
      /\ LeftWhole' \in ReadWhole' .. Len(sent)
  BY <1>1 DEF WholeCounted
<1>4. LeftWhole' \in ReadWhole .. LeftWhole
  BY <1>1, <1>2, <1>3
<1> QED
  BY <1>1, <1>2, <1>4, Loses

\* read() fills a chunk.
LEMMA ReadArrives ==
  ASSUME PlacesInv, PlacesInv', ~ mixed, RcvRead
  PROVE  Arrivals!Read
<1>1. /\ pc = "read" /\ UNCHANGED <<sent, ends, delivered, handed, parser, mixed>>
      /\ Reading /\ Reading'
  BY DEF RcvRead, Reading, output
<1>2. LinkType /\ ThreadType /\ ThreadInv /\ Len(sent) \in Nat
  BY PlacesType
<1>3. ring = <<>>
  BY <1>1, <1>2 DEF ThreadInv
<1>4. ring' \in Seq(Byte) /\ wire' \in Seq(Byte) /\ ring' \o wire' = wire
  <2>1. PICK n \in 1 .. Len(wire) :
          n <= MAX_LEN /\ Ring!Put(SubSeq(wire, 1, n)) /\ wire' = SubSeq(wire, n + 1, Len(wire))
    BY DEF RcvRead
  <2>2. wire \in Seq(Byte)
    BY <1>2 DEF LinkType
  <2> QED
    BY <1>3, <2>1, <2>2, PutsChunk
<1>5. Len(wire) = Len(ring') + Len(wire') /\ Len(ring') \in Nat /\ Len(wire') \in Nat
  BY <1>4, ConcatProperties, LenProperties
<1>6. LeftPlace' = LeftPlace
  <2>1. Len(handed) \in Nat /\ Len(parser.data) \in Nat /\ Len(ring) = 0
    BY <1>2, <1>3, GotType, EmptySeq
  <2>2. Len(handed') = Len(handed) /\ Len(parser'.data) = Len(parser.data)
    BY <1>1
  <2> DEFINE h == Len(handed)
             d == Len(parser.data)
  <2>3. LeftPlace = h + d + Len(ring) + Len(wire)
    BY DEF LeftPlace
  <2>4. LeftPlace' = h + d + Len(ring') + Len(wire')
    BY <2>2 DEF LeftPlace
  <2> HIDE DEF h, d
  <2>5. h \in Nat /\ d \in Nat
    BY <2>1 DEF h, d
  <2> QED
    BY <1>5, <2>1, <2>3, <2>4, <2>5
<1>7. /\ WholeCounted /\ WholeCounted' /\ LeftWhole' = LeftWhole
  BY <1>1, <1>6, CountsFollowPlaces
<1>8. ReadWhole = Len(delivered) /\ Len(delivered) \in 0 .. Len(sent)
  BY <1>3, <1>7 DEF WholeCounted
<1>9. ReadWhole' \in Len(delivered) .. Len(sent) /\ LeftWhole' \in ReadWhole' .. Len(sent)
  BY <1>1, <1>7 DEF WholeCounted
<1>10. ReadWhole' \in ReadWhole .. LeftWhole
  BY <1>2, <1>7, <1>8, <1>9
<1> QED
  BY <1>1, <1>2, <1>7, <1>8, <1>10, Reads

\* A byte that completes a packet hands it on; any other changes nothing here.
LEMMA ByteArrives ==
  ASSUME PlacesInv, PlacesInv', ~ mixed, RcvByte
  PROVE  Arrivals!HandOn \/ Arrivals!Lose
<1> DEFINE k == Len(delivered)
           size == Len(sent[k + 1])
           h == Len(handed)
           d == Len(parser.data)
           g == Len(ring)
<1>1. /\ LinkType /\ ThreadType /\ FramerInv /\ EndsInv /\ HandedInv
      /\ Len(sent) \in Nat /\ k \in Nat /\ Len(ends) = Len(sent)
  BY PlacesType DEF PlacesInv
<1>0. Reading /\ Reading'
  BY DEF RcvByte, Reading
<1>2. /\ UNCHANGED <<sent, stream, ends, wire, mixed>> /\ ring # <<>>
      /\ Len(ring') = g - 1 /\ k < Len(sent)
      /\ \/ /\ Len(delivered') = k + 1 /\ Len(handed') = h + size
            /\ d + 1 = size /\ Len(parser'.data) = 0
         \/ UNCHANGED <<delivered, handed>> /\ Len(parser'.data) = d + 1
  BY <1>1, BytePasses
<1>3. h \in Nat /\ d \in Nat /\ g \in Nat \ {0} /\ Len(wire) \in Nat
  BY <1>1, <1>2, GotType, EmptySeq
<1>4. ReadPlace' = ReadPlace
  <2>1. ReadPlace' = Len(handed') + Len(parser'.data) + Len(ring') /\ ReadPlace = h + d + g
    BY DEF ReadPlace
  <2> HIDE DEF h, d, g, size, k
  <2>2. \/ Len(handed') = h + (d + 1) /\ Len(parser'.data) = 0
        \/ Len(handed') = h /\ Len(parser'.data) = d + 1
    BY <1>2 DEF h
  <2>3. Len(ring') = g - 1
    BY <1>2
  <2> QED
    BY <1>3, <2>1, <2>2, <2>3
<1>5. LeftPlace' = LeftPlace
  BY <1>2, <1>4, PlacesType, PlacesTypeNext
<1>6. /\ WholeCounted /\ WholeCounted' /\ ReadWhole' = ReadWhole /\ LeftWhole' = LeftWhole
  BY <1>2, <1>4, <1>5, CountsFollowPlaces
<1>7. CASE Len(delivered') = k + 1 /\ d + 1 = size
  <2>1. h = End(k)
    BY <1>1 DEF HandedInv
  <2>2. k + 1 \in 1 .. Len(sent) /\ (k + 1) - 1 = k
    BY <1>1, <1>2
  <2>3. ends[k + 1] = End((k + 1) - 1) + size
    BY <1>1, <2>2 DEF EndsInv
  <2>4. ends[k + 1] = h + (d + 1)
    BY <1>7, <2>1, <2>2, <2>3
  <2> HIDE DEF h, d, g, size, k
  <2>5. ends[k + 1] <= h + d + g
    BY <1>3, <2>4
  <2>6. k + 1 <= ReadWhole
    BY <1>6, <2>2, <2>5 DEF WholeCounted, h, d, g
  <2>7. ReadWhole \in Nat
    <3>1. ReadWhole \in Len(delivered) .. Len(sent)
      BY <1>6 DEF WholeCounted
    <3> QED
      BY <1>1, <3>1 DEF k
  <2>8. k < ReadWhole
    BY <1>1, <2>6, <2>7
  <2> QED
    BY <1>0, <1>1, <1>2, <1>6, <1>7, <2>8, HandsOn DEF k
<1>8. CASE UNCHANGED <<delivered, handed>>
  <2>1. LeftPlace' <= LeftPlace
    BY <1>5, PlacesType
  <2> QED
    BY <1>0, <1>2, <1>4, <1>8, <2>1, StandingLoses
<1> QED
  BY <1>2, <1>7, <1>8

\* What the server sends is under way if anybody reads it.
LEMMA SendArrives ==
  ASSUME PlacesInv, PlacesInv', ~ mixed, Reading, NEW p \in Packets, ServerSends(p)
  PROVE  Arrivals!Send
<1> DEFINE N == Len(sent)
           total == Len(stream)
           size == Len(p)
<1>1. /\ LinkType /\ ThreadType /\ EndsInv /\ N \in Nat
      /\ ReadPlace \in Nat /\ LeftPlace = ReadPlace + Len(wire) /\ Len(wire) \in Nat
  BY PlacesType, GotType
<1>2. /\ open /\ sent' = Append(sent, p) /\ wire' = wire \o p
      /\ UNCHANGED <<mixed, delivered, handed, parser, ring>> /\ Reading'
  BY DEF ServerSends, Reading, Current, output
<1>3. /\ Len(ends) = N /\ total \in Nat /\ size \in Nat \ {0}
      /\ Len(sent') = N + 1 /\ Len(ends') = N + 1 /\ ends'[N + 1] = total + size
      /\ \A i \in 1 .. N : ends'[i] = ends[i] /\ ends[i] \in Nat
  BY <1>1, SendingExtends
<1>4. LeftPlace = total
  <2>1. Follows
    BY <1>2 DEF PlacesInv, FramerInv, OrderInv
  <2>2. Len(Got) = total
    BY <1>2, <2>1 DEF Follows
  <2> QED
    BY <1>1, <2>2, GotType DEF LeftPlace
<1>5. ReadPlace' = ReadPlace /\ LeftPlace' = total + size
  <2>1. ReadPlace' = ReadPlace
    BY <1>2 DEF ReadPlace
  <2>2. Len(wire') = Len(wire) + size
    BY <1>1, <1>2, PacketAssumption, ConcatProperties DEF LinkType
  <2>3. LeftPlace' = ReadPlace' + Len(wire')
    BY PlacesTypeNext
  <2> QED
    BY <1>1, <1>3, <1>4, <2>1, <2>2, <2>3, SMTT(30)
<1>6. WholeCounted /\ WholeCounted'
  BY <1>2, WholeIsCounted, WholeIsCountedNext
<1>7. \A i \in 1 .. N : (i <= ReadWhole <=> ends[i] <= ReadPlace) /\ (i <= LeftWhole <=> ends[i] <= LeftPlace)
  BY <1>6 DEF WholeCounted, ReadPlace, LeftPlace
<1>8. \A i \in 1 .. N + 1 :
        (i <= ReadWhole' <=> ends'[i] <= ReadPlace') /\ (i <= LeftWhole' <=> ends'[i] <= LeftPlace')
  BY <1>3, <1>6 DEF WholeCounted, ReadPlace, LeftPlace
<1>9. ReadWhole \in 0 .. N /\ LeftWhole \in 0 .. N /\ N \in Nat
  <2>1. Len(delivered) \in 0 .. N
    BY <1>6 DEF WholeCounted
  <2> QED
    BY <1>1, <1>6, <2>1 DEF WholeCounted
<1>10. ReadWhole' \in 0 .. N + 1 /\ LeftWhole' \in 0 .. N + 1
  <2>1. Len(delivered') \in 0 .. N + 1
    BY <1>3, <1>6 DEF WholeCounted
  <2> QED
    BY <1>1, <1>3, <1>6, <2>1, SMTT(30) DEF WholeCounted
<1>11. \A i \in 1 .. N : ends[i] <= total
  BY <1>1, <1>3 DEF EndsInv
<1> HIDE DEF N, total, size
<1>12. LeftWhole = N
  <2>1. CASE N = 0
    BY <1>9, <2>1
  <2>2. CASE N # 0
    <3>1. N \in 1 .. N
      BY <1>9, <2>2
    <3>2. N <= LeftWhole
      BY <1>4, <1>7, <1>11, <3>1
    <3> QED
      BY <1>9, <3>2
  <2> QED
    BY <2>1, <2>2
<1>13. LeftWhole' = N + 1
  <2>1. N + 1 \in 1 .. N + 1 /\ ends'[N + 1] <= LeftPlace'
    BY <1>3, <1>5, <1>9
  <2>2. N + 1 <= LeftWhole'
    BY <1>8, <2>1
  <2> QED
    BY <1>9, <1>10, <2>2
<1>14. ReadWhole' = ReadWhole
  <2>1. ~ (ends'[N + 1] <= ReadPlace')
    BY <1>1, <1>3, <1>4, <1>5
  <2>2. N + 1 \in 1 .. N + 1
    BY <1>9
  <2>3. ~ (N + 1 <= ReadWhole')
    BY <1>8, <2>1, <2>2
  <2>4. ReadWhole' \in 0 .. N
    BY <1>9, <1>10, <2>3
  <2>5. ASSUME NEW i \in 1 .. N
        PROVE  i <= ReadWhole <=> i <= ReadWhole'
    <3>1. i \in 1 .. N + 1 /\ ends'[i] = ends[i]
      BY <1>3, <1>9
    <3> QED
      BY <1>5, <1>7, <1>8, <3>1
  <2> QED
    BY <1>9, <2>4, <2>5, SameCount
<1> QED
  BY <1>1, <1>2, <1>6, <1>12, <1>13, <1>14, Sends DEF N
\* A connection comes up on an empty thread: what was left of the last one is gone.
LEMMA NothingAfter ==
  ASSUME PlacesInv, PlacesInv', MonConnectOk, ~ mixed'
  PROVE  WholeOnWire' = <<>> /\ WholeInHand' = <<>>
<1>1. WholeCounted'
  BY WholeIsCountedNext
<1>2. Len(sent') = 0 /\ Len(delivered') = 0 /\ sent' = <<>>
  BY EmptySeq DEF MonConnectOk
<1>3. ReadWhole' \in 0 .. 0 /\ LeftWhole' \in ReadWhole' .. 0
  BY <1>1, <1>2 DEF WholeCounted
<1>4. ReadWhole' = 0 /\ LeftWhole' = 0
  BY <1>3
<1>5. SubSeq(<<>>, 0 + 1, 0) = <<>>
  BY SubSeqEmpty
<1> QED
  BY <1>2, <1>4, <1>5, SeenNext

\* Nothing is in hand when the ring buffer is empty.
LEMMA NothingInHand == PlacesInv /\ ~ mixed /\ ring = <<>> => WholeInHand = <<>>
<1> SUFFICES ASSUME PlacesInv, ~ mixed, ring = <<>>
             PROVE  WholeInHand = <<>>
  OBVIOUS
<1>1. WholeCounted /\ Len(delivered) \in Nat
  BY WholeIsCounted, PlacesType
<1>2. WholeInHand = SubSeq(sent, Len(delivered) + 1, Len(delivered))
  BY <1>1, Seen DEF WholeCounted
<1> QED
  BY <1>1, <1>2, SubSeqEmpty

LEMMA NothingInHandNext == (PlacesInv /\ ~ mixed /\ ring = <<>> => WholeInHand = <<>>)'
  BY NothingInHand, PTL

\* What is under way when the last connection goes, or nobody reads it, is lost.
LEMMA NobodyReads ==
  ASSUME PlacesInv, PlacesInv', ~ mixed, mixed' = mixed, ring = <<>>, ring' = <<>>,
         WholeOnWire' = <<>>
  PROVE  Arrivals!Lose
<1>1. WholeInHand' = <<>> /\ WholeInHand = <<>>
  BY NothingInHand, NothingInHandNext
<1>2. Len(WholeOnWire) \in Nat
  BY WireType, WholeIsCounted, PlacesType
<1> QED
  BY <1>1, <1>2, LosesAll

LEMMA ConnectArrives ==
  ASSUME PlacesInv, PlacesInv', ~ mixed, ~ mixed', mixed' = mixed, MonConnectOk
  PROVE  Arrivals!Lose
<1>1. ring = <<>>
  <2>1. pc = "down" \/ (parser.data = <<>> /\ ring = <<>>)
    BY Zenon DEF MonConnectOk
  <2> QED
    BY <2>1, PlacesType DEF ThreadInv
<1>2. ring' = <<>>
  BY <1>1 DEF MonConnectOk
<1> QED
  BY <1>1, <1>2, NothingAfter, NobodyReads

\* What the server sends when nobody reads is never under way.
LEMMA SendsToNobody ==
  ASSUME PlacesInv, PlacesInv', ~ mixed, ~ Reading, NEW p \in Packets, ServerSends(p)
  PROVE  Arrivals!Lose
<1>1. UNCHANGED <<mixed, ring>> /\ ~ Reading'
  BY DEF ServerSends, Reading, Current
<1>2. ring = <<>>
  BY PlacesType DEF ThreadInv, Reading
<1>3. WholeOnWire' = <<>>
  BY <1>1, SeenNext
<1> QED
  BY <1>1, <1>2, <1>3, NobodyReads

\* A closing server may lose the end of the wire, the monitor loses all of it.
LEMMA CloseArrives ==
  ASSUME PlacesInv, PlacesInv', ~ mixed, ServerCloses \/ MonRenew
  PROVE  Arrivals!Lose
<1>1. /\ UNCHANGED <<sent, ends, delivered, handed, parser, ring, mixed>>
      /\ Reading' => Reading
  BY DEF ServerCloses, MonRenew, Reading, Current, output
<1>2. ReadPlace' = ReadPlace
  BY <1>1 DEF ReadPlace
<1>3. Len(wire') <= Len(wire) /\ Len(wire) \in Nat /\ Len(wire') \in Nat
  <2>1. PICK n \in 0 .. Len(wire) : wire' = SubSeq(wire, 1, n)
    BY WireCut, PlacesType
  <2>2. wire \in Seq(Byte) /\ Len(wire) \in Nat
    BY PlacesType, LenProperties DEF LinkType
  <2>3. \A i \in 1 .. n : wire[i] \in Byte
    BY <2>2, ElementOfSeq
  <2>4. Len(SubSeq(wire, 1, n)) = IF 1 <= n THEN n - 1 + 1 ELSE 0
    BY <2>2, <2>3, SubSeqProperties
  <2> QED
    BY <2>1, <2>2, <2>4
<1>4. LeftPlace' <= LeftPlace
  <2>1. LeftPlace' = ReadPlace' + Len(wire') /\ LeftPlace = ReadPlace + Len(wire) /\ ReadPlace \in Nat
    BY PlacesType, PlacesTypeNext
  <2> QED
    BY <1>2, <1>3, <2>1
<1> QED
  BY <1>1, <1>2, <1>4, StandingLoses

\* A parser that is reset forgets a part of a packet, which nobody has seen.
LEMMA DownArrives ==
  ASSUME PlacesInv, PlacesInv', ~ mixed, mixed' = mixed, RcvSeesDown
  PROVE  Arrivals!Lose
<1>1. /\ UNCHANGED <<sent, ends, delivered, handed, ring, wire>> /\ (Reading' => Reading)
      /\ pc = "check" /\ parser' = ParserReset
  BY DEF RcvSeesDown, Reading, Current, output
<1>2. ring = <<>> /\ ring' = <<>>
  BY <1>1, PlacesType DEF ThreadInv
<1>3. LeftPlace' <= LeftPlace
  <2> DEFINE h == Len(handed)
             d == Len(parser.data)
             g == Len(ring)
             w == Len(wire)
  <2>1. h \in Nat /\ d \in Nat /\ g \in Nat /\ w \in Nat /\ Len(parser'.data) = 0
    BY <1>1, PlacesType, GotType, EmptySeq DEF ParserReset
  <2>2. LeftPlace' = h + 0 + g + w /\ LeftPlace = h + d + g + w
    BY <1>1, <2>1 DEF LeftPlace
  <2> HIDE DEF h, d, g, w
  <2> QED
    BY <2>1, <2>2
<1> QED
  BY <1>1, <1>2, <1>3, StandingLoses

\* The other steps move nothing; after some of them nobody reads any more.
LEMMA QuietArrives ==
  ASSUME PlacesInv, PlacesInv', ~ mixed, Reading' => Reading,
         UNCHANGED <<sent, ends, delivered, handed, parser, ring, wire, mixed>>
  PROVE  Arrivals!Lose
<1>1. ReadPlace' = ReadPlace /\ LeftPlace' = LeftPlace
  BY DEF ReadPlace, LeftPlace
<1>2. LeftPlace' <= LeftPlace
  BY <1>1, PlacesType
<1> QED
  BY <1>1, <1>2, StandingLoses

\* A connection that came up on a part of a packet, or one after it.
LEMMA BlurredArrives ==
  ASSUME PlacesInv, PlacesInv', [Next]_vars, mixed \/ mixed'
  PROVE  Arrivals!Renew
<1>1. mixed \in BOOLEAN /\ mixed' \in BOOLEAN
  BY PlacesType, PlacesTypeNext DEF LinkType
<1>2. CASE mixed'
  <2>1. WholeOnWire' = <<>> /\ WholeInHand' = <<>>
    BY <1>2 DEF WholeOnWire, WholeInHand
  <2> QED
    BY <1>1, <1>2, <2>1, Zenon DEF Arrivals!Renew
<1>3. CASE mixed /\ ~ mixed'
  <2>1. MonConnectOk
    <3>1. CASE MonConnectOk
      BY <3>1
    <3>2. CASE \E p \in Packets : ServerSends(p)
      BY <1>3, <3>2 DEF ServerSends
    <3>3. CASE ~ MonConnectOk /\ ~ \E p \in Packets : ServerSends(p)
      BY <1>3, <3>3, SentUnchanged
    <3> QED
      BY <3>1, <3>2, <3>3
  <2>2. WholeOnWire' = <<>> /\ WholeInHand' = <<>>
    BY <1>3, <2>1, NothingAfter
  <2> QED
    BY <1>1, <1>3, <2>2, Zenon DEF Arrivals!Renew
<1> QED
  BY <1>2, <1>3

LEMMA StepArrives ==
  ASSUME PlacesInv, PlacesInv', [Next]_vars
  PROVE  [Arrivals!Next]_(Arrivals!arrivals)
<1>1. CASE mixed \/ mixed'
  BY <1>1, BlurredArrives DEF Arrivals!Next
<1>2. CASE ~ mixed /\ ~ mixed'
  <2>1. mixed' = mixed
    <3>1. mixed \in BOOLEAN /\ mixed' \in BOOLEAN
      BY PlacesType, PlacesTypeNext DEF LinkType
    <3> QED
      BY <1>2, <3>1, Zenon
  <2>2. CASE RcvRead
    BY <1>2, <2>2, ReadArrives DEF Arrivals!Next
  <2>3. CASE RcvByte
    BY <1>2, <2>3, ByteArrives DEF Arrivals!Next
  <2>4. CASE RcvSeesDown
    BY <1>2, <2>1, <2>4, DownArrives DEF Arrivals!Next
  <2>5. CASE RcvSeesUp \/ RcvWakes \/ RcvTimeout \/ RcvFail \/ RcvClear
    BY <1>2, <2>5, QuietArrives
    DEF RcvSeesUp, RcvWakes, RcvTimeout, RcvFail, RcvClear, Reading, Current, link, output, Arrivals!Next
  <2>6. CASE RcvDone
    <3>1. ring' = ring
      <4>1. ring = <<>> /\ Ring!Get(1)
        BY <2>6 DEF RcvDone
      <4>2. Ring!AtMost(0, 1) = 0
        BY DEF Ring!AtMost
      <4>3. ring' = SubSeq(<<>>, 0 + 1, 0)
        BY <4>1, <4>2, EmptySeq DEF Ring!Get
      <4> QED
        BY <4>1, <4>3, SubSeqEmpty
    <3> QED
      BY <1>2, <2>6, <3>1, QuietArrives DEF RcvDone, Reading, Current, link, output, Arrivals!Next
  <2>7. CASE MarkedDown \/ MonConnectFail \/ MonPublish \/ UNCHANGED vars
    BY <1>2, <2>7, QuietArrives
    DEF MarkedDown, MonConnectFail, MonPublish, Reading, Current, vars, link, output, Arrivals!Next
  <2>8. CASE MonConnectOk
    BY <1>2, <2>1, <2>8, ConnectArrives DEF Arrivals!Next
  <2>9. CASE ServerCloses \/ MonRenew
    BY <1>2, <2>9, CloseArrives DEF Arrivals!Next
  <2>10. CASE \E p \in Packets : ServerSends(p)
    BY <1>2, <2>10, SendArrives, SendsToNobody DEF Arrivals!Next
  <2> QED
    BY <2>2, <2>3, <2>4, <2>5, <2>6, <2>7, <2>8, <2>9, <2>10 DEF Next, RecvThread, Monitor
<1> QED
  BY <1>1, <1>2

LEMMA ArrivalsStart == Init => Arrivals!Init
<1> SUFFICES ASSUME Init
             PROVE  Arrivals!Init
  OBVIOUS
<1>1. mixed = FALSE /\ sent = <<>> /\ Len(sent) = 0
  BY EmptySeq DEF Init
<1>2. WholeCounted
  BY <1>1, PlacesStart, WholeIsCounted
<1>3. ReadWhole \in 0 .. 0 /\ LeftWhole \in ReadWhole .. 0 /\ Len(delivered) = 0
  BY <1>1, <1>2, EmptySeq DEF WholeCounted, Init
<1>4. ReadWhole = 0 /\ LeftWhole = 0
  BY <1>3
<1>5. SubSeq(<<>>, 0 + 1, 0) = <<>>
  BY SubSeqEmpty
<1> QED
  BY <1>1, <1>3, <1>4, <1>5, Seen DEF Arrivals!Init

\* "Solves the sticky and split packets" (Changelog.txt:37), as GsTcp relies on it: the bytes
\* of the wire, the ring buffer and the parser are whole packets under way and a chunk of
\* whole packets, whatever part of the stream each read() returns, and wherever the server
\* closes or the monitor puts another connection in place; nothing is said of a connection
\* that came up on a part of a packet, or lost one before the flag was raised
\* (GS_TCP_RecvThread, GS_TCP_MonitorThread).
THEOREM PacketFramerImplementsArrivals == Spec => ImplementsArrivals
<1>1. PlacesInv /\ PlacesInv' /\ [Next]_vars => [Arrivals!Next]_(Arrivals!arrivals)
  BY StepArrives
<1> QED
  BY <1>1, ArrivalsStart, PlacesInvariant, PTL DEF Spec, ImplementsArrivals, Arrivals!Spec
=============================================================================
