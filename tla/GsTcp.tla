-------------------------------- MODULE GsTcp --------------------------------
(***************************************************************************)
(* The TCP engine of the emergency-broadcast terminal (prot_proc/gs_tcp.c).*)
(* Three threads share one handle without a lock: the monitor thread opens *)
(* the socket and dials the server while the connection is marked down,    *)
(* the receive thread reads packets and answers them, the send thread      *)
(* sends what the message queue holds.  Any of them, and the heartbeat     *)
(* thread of gs_dev_if.c through GS_TCP_SetConnStat, may mark the          *)
(* connection down; only the monitor marks it up.                          *)
(*                                                                         *)
(* A thread's program counter names the point before a read or a write of  *)
(* shared state.  Sleeps and timeouts are steps that may take any time.    *)
(* The descriptor number is reused by the next socket() call, so a thread  *)
(* that saw the flag before the socket was replaced acts on the new one.   *)
(* Packets arrive whole and in place here: PacketFramer models how bytes   *)
(* become packets, and when a new connection's first ones are lost because *)
(* the parser held, or threw away, a part of one; that is left out here.   *)
(***************************************************************************)
EXTENDS MsgQueue

CONSTANTS
  Addr,       \* server addresses an operator may configure: records of ip and port
  MAXSLEEP,   \* the longest pause between two connect() calls, in seconds
  ClientMsg,  \* the messages other threads put in the send queue
  Kind,       \* the kinds of packet the server sends in this instance
  MaxWire,    \* bound: packets under way from the server
  MaxRequest  \* bound: session numbers of the server's requests

\* addresses in numbers only: a domain name would be resolved where MonIp copies the ip
ASSUME AddrAssumption == Addr \subseteq [ip : Nat, port : Nat]
ASSUME MaxSleepAssumption == MAXSLEEP \in Nat \ {0}
ASSUME BoundAssumption == MaxWire \in Nat /\ MaxRequest \in Nat
\* only the receive thread answers a packet of the server
ASSUME ClientMsgTagAssumption == \A m \in ClientMsg : m.m_MsgTag # "response"

VARIABLES
  handle,            \* none, live, cancel (GS_TCP_Destroy under way), exited (the process)
  alive,             \* the threads of the handle that have not ended
  m_IsTcpConnectOk,  \* the shared connection flag
  m_ServAddr,        \* m_InitParam.m_ServAddr, copied in without a lock
  writing,           \* the copy under way: its address and the half left to write
  sock,              \* the socket behind m_SockFd: its state and the address it was dialled to
  mon,               \* the monitor thread: pc, its copy of the address, its pause
  rcv,               \* the receive thread: pc and the packets of its chunk still to process
  snd,               \* the send thread: pc and the message it took
  m_TcpSndMsgQ,      \* messages to send
  m_TcpRecvMsgQ,     \* messages received
  wire,              \* packets the server sent and the terminal has not read
  request            \* the session number of the server's last request

life == <<handle, alive>>
link == <<m_IsTcpConnectOk, m_ServAddr, writing, sock>>
queues == <<m_TcpSndMsgQ, m_TcpRecvMsgQ>>
server == <<wire, request>>
tcpVars == <<life, link, mon, rcv, snd, queues, server>>

Threads == {"mon", "rcv", "snd"}

NetAddr == [ip : Nat, port : Nat]
NoAddr == [ip |-> 0, port |-> 0]
NoMsg == [m_MsgTag |-> "none"]
Idle == [half |-> "none", addr |-> NoAddr]

Packet == [kind : Kind, session : 0 .. MaxRequest]

Response(session, result) ==
  [m_MsgTag |-> "response", session |-> session, result |-> result]

DevData(session) == [m_MsgType |-> "DEV_DATA", session |-> session]
HeartbeatResponse == [m_MsgType |-> "HEARTBEAT_RESPONSE", session |-> 0]

SendMsg ==
  ClientMsg \union
  {Response(n, result) : n \in 0 .. MaxRequest, result \in {"SUCCESS", "ERR"}}
RecvMsg == {HeartbeatResponse} \union {DevData(n) : n \in 0 .. MaxRequest}

MonStart == [pc |-> "check", addr |-> NoAddr, pause |-> 1]
RcvStart == [pc |-> "check", chunk |-> <<>>]
SndStart == [pc |-> "check", msg |-> NoMsg]
NoSock == [stat |-> "none", peer |-> NoAddr]

-----------------------------------------------------------------------------
(* GS_TCP_Create and GS_TCP_Destroy *)

TcpInit ==
  /\ handle = "none" /\ alive = {}
  /\ m_IsTcpConnectOk = FALSE
  /\ m_ServAddr = NoAddr /\ writing = Idle
  /\ sock = NoSock
  /\ mon = MonStart /\ rcv = RcvStart /\ snd = SndStart
  /\ m_TcpSndMsgQ = <<>> /\ m_TcpRecvMsgQ = <<>>
  /\ wire = <<>> /\ request = 0

\* the caller made the two queues anew; the handle is zeroed, the threads start
TcpCreate(addr) ==
  /\ handle = "none"
  /\ handle' = "live" /\ alive' = Threads
  /\ m_IsTcpConnectOk' = FALSE
  /\ m_ServAddr' = addr
  /\ mon' = MonStart /\ rcv' = RcvStart /\ snd' = SndStart
  /\ m_TcpSndMsgQ' = <<>> /\ m_TcpRecvMsgQ' = <<>>
  /\ UNCHANGED <<writing, sock, server>>

\* pthread_cancel of the three threads
TcpCancel ==
  /\ handle = "live"
  /\ handle' = "cancel"
  /\ UNCHANGED <<alive, link, mon, rcv, snd, queues, server>>

\* a cancelled thread ends at the blocking call it is in or comes to next; its
\* local variables end with it
ThreadEnds(t) ==
  /\ handle = "cancel"
  /\ t \in alive
  /\ alive' = alive \ {t}
  /\ mon' = IF t = "mon" THEN MonStart ELSE mon
  /\ rcv' = IF t = "rcv" THEN RcvStart ELSE rcv
  /\ snd' = IF t = "snd" THEN SndStart ELSE snd
  /\ UNCHANGED <<handle, link, queues, server>>

\* every thread is joined: close the socket, free the handle
TcpFree ==
  /\ handle = "cancel"
  /\ alive = {}
  /\ handle' = "none"
  /\ m_IsTcpConnectOk' = FALSE
  /\ m_ServAddr' = NoAddr /\ writing' = Idle
  /\ sock' = NoSock
  /\ m_TcpSndMsgQ' = <<>> /\ m_TcpRecvMsgQ' = <<>>
  /\ wire' = <<>>
  /\ UNCHANGED <<alive, mon, rcv, snd, request>>

\* GS_COMM_ErrQuit and its kin end the process, and with it every thread
ProcessExits ==
  /\ handle' = "exited" /\ alive' = {}
  /\ UNCHANGED <<link, mon, rcv, snd, queues, server>>

Runs(t) == handle \in {"live", "cancel"} /\ t \in alive

-----------------------------------------------------------------------------
(* GS_TCP_MonitorThread *)

MonRenewAlways ==
  /\ Runs("mon") /\ mon.pc = "check"
  /\ mon' = [mon EXCEPT !.pc = "port"]
  /\ sock' = [stat |-> "new", peer |-> NoAddr]
  /\ wire' = <<>>
  /\ UNCHANGED <<life, m_IsTcpConnectOk, m_ServAddr, writing, rcv, snd, queues, request>>

\* the connection is marked down: shut and close the old socket, open a new one
MonRenew ==
  /\ Runs("mon") /\ mon.pc = "check"
  /\ ~m_IsTcpConnectOk
  /\ mon' = [mon EXCEPT !.pc = "port"]
  /\ sock' = [stat |-> "new", peer |-> NoAddr]
  /\ wire' = <<>>
  /\ UNCHANGED <<life, m_IsTcpConnectOk, m_ServAddr, writing, rcv, snd, queues, request>>

\* the port is copied before the address
MonPort ==
  /\ Runs("mon") /\ mon.pc = "port"
  /\ mon' = [mon EXCEPT !.pc = "ip", !.addr.port = m_ServAddr.port]
  /\ UNCHANGED <<life, link, rcv, snd, queues, server>>

MonIpWithoutAddress ==
  /\ Runs("mon") /\ mon.pc = "ip"
  /\ mon' = [mon EXCEPT !.pc = "connect", !.pause = 1]
  /\ UNCHANGED <<life, link, rcv, snd, queues, server>>

\* then the ip; the branch for a domain name (lines 94-96) is left out
MonIp ==
  /\ Runs("mon") /\ mon.pc = "ip"
  /\ mon' = [mon EXCEPT !.pc = "connect", !.addr.ip = m_ServAddr.ip, !.pause = 1]
  /\ UNCHANGED <<life, link, rcv, snd, queues, server>>

\* GS_TCP_ConnectRetry: connect() reports success
MonConnectOk ==
  /\ Runs("mon") /\ mon.pc = "connect"
  /\ sock' = [stat |-> "up", peer |-> mon.addr]
  /\ mon' = [mon EXCEPT !.pc = "publish"]
  /\ UNCHANGED <<life, m_IsTcpConnectOk, m_ServAddr, writing, rcv, snd, queues, server>>

MonConnectFailForGood ==
  /\ Runs("mon") /\ mon.pc = "connect"
  /\ mon' = IF 2 * mon.pause <= MAXSLEEP
            THEN [mon EXCEPT !.pause = 2 * mon.pause]
            ELSE [mon EXCEPT !.pc = "given up", !.addr = NoAddr, !.pause = 1]
  /\ UNCHANGED <<life, link, rcv, snd, queues, server>>

MonConnectFailPublishes ==
  /\ Runs("mon") /\ mon.pc = "connect"
  /\ mon' = IF 2 * mon.pause <= MAXSLEEP
            THEN [mon EXCEPT !.pause = 2 * mon.pause]
            ELSE [mon EXCEPT !.pc = "publish"]
  /\ UNCHANGED <<life, link, rcv, snd, queues, server>>

\* connect() fails: call it again after a doubled pause, or start over with a new socket
MonConnectFail ==
  /\ Runs("mon") /\ mon.pc = "connect"
  /\ mon' = IF 2 * mon.pause <= MAXSLEEP
            THEN [mon EXCEPT !.pause = 2 * mon.pause]
            ELSE MonStart
  /\ UNCHANGED <<life, link, rcv, snd, queues, server>>

MonPublish ==
  /\ Runs("mon") /\ mon.pc = "publish"
  /\ m_IsTcpConnectOk' = TRUE
  /\ mon' = MonStart
  /\ UNCHANGED <<life, m_ServAddr, writing, sock, rcv, snd, queues, server>>

Monitor ==
  MonRenew \/ MonPort \/ MonIp \/ MonConnectOk \/ MonConnectFail \/ MonPublish

-----------------------------------------------------------------------------
(* GS_TCP_RecvThread and GS_TCP_ValidPacketProc *)

RcvCheck ==
  /\ Runs("rcv") /\ rcv.pc = "check"
  /\ m_IsTcpConnectOk
  /\ rcv' = [rcv EXCEPT !.pc = "read"]
  /\ UNCHANGED <<life, link, mon, snd, queues, server>>

\* select() waits two seconds in vain
RcvTimeout ==
  /\ Runs("rcv") /\ rcv.pc = "read"
  /\ sock.stat \in {"new", "up"} /\ wire = <<>>
  /\ rcv' = [rcv EXCEPT !.pc = "check"]
  /\ UNCHANGED <<life, link, mon, snd, queues, server>>

\* read() returns what has arrived so far
RcvRead ==
  /\ Runs("rcv") /\ rcv.pc = "read"
  /\ \E n \in 1 .. Len(wire) :
       /\ rcv' = [pc |-> "respond", chunk |-> SubSeq(wire, 1, n)]
       /\ wire' = SubSeq(wire, n + 1, Len(wire))
  /\ UNCHANGED <<life, link, mon, snd, queues, request>>

RcvFailUnnoticed ==
  /\ Runs("rcv") /\ rcv.pc = "read"
  /\ sock.stat \in {"new", "lost"} /\ wire = <<>>
  /\ rcv' = [rcv EXCEPT !.pc = "check"]
  /\ UNCHANGED <<life, link, mon, snd, queues, server>>

\* the server closed the connection, or the descriptor is not connected
RcvFail ==
  /\ Runs("rcv") /\ rcv.pc = "read"
  /\ sock.stat \in {"new", "lost"} /\ wire = <<>>
  /\ rcv' = [rcv EXCEPT !.pc = "clear"]
  /\ UNCHANGED <<life, link, mon, snd, queues, server>>

RcvClear ==
  /\ Runs("rcv") /\ rcv.pc = "clear"
  /\ m_IsTcpConnectOk' = FALSE
  /\ rcv' = [rcv EXCEPT !.pc = "check"]
  /\ UNCHANGED <<life, m_ServAddr, writing, sock, mon, snd, queues, server>>

NextPacketAgain == rcv' = [rcv EXCEPT !.pc = "respond"]

\* the packet at hand is dealt with
NextPacket ==
  rcv' = [pc |-> IF Len(rcv.chunk) = 1 THEN "check" ELSE "respond", chunk |-> Tail(rcv.chunk)]

Respond(result) ==
  m_TcpSndMsgQ' = MsgQueueSend(m_TcpSndMsgQ, Response(Head(rcv.chunk).session, result))

\* a packet that fails its checksum, or does not fit the parse buffer, gets an error response
RcvRefuse ==
  /\ Runs("rcv") /\ rcv.pc = "respond"
  /\ Head(rcv.chunk).kind = "refused"
  /\ Respond("ERR")
  /\ NextPacket
  /\ UNCHANGED <<life, link, mon, snd, m_TcpRecvMsgQ, server>>

\* GS_EM_IP_PROT_Parse calls GS_COMM_ErrQuit on a command it does not support
RcvQuit ==
  /\ Runs("rcv") /\ rcv.pc = "respond"
  /\ Head(rcv.chunk).kind = "unsupported"
  /\ ProcessExits

\* a request: first the response to the server, whether or not it fits the queue
RcvRespond ==
  /\ Runs("rcv") /\ rcv.pc = "respond"
  /\ Head(rcv.chunk).kind = "request"
  /\ Respond("SUCCESS")
  /\ rcv' = [rcv EXCEPT !.pc = "deliver"]
  /\ UNCHANGED <<life, link, mon, snd, m_TcpRecvMsgQ, server>>

\* then the command to the device, whether or not it fits the queue
RcvDeliver ==
  /\ Runs("rcv") /\ rcv.pc = "deliver"
  /\ m_TcpRecvMsgQ' = MsgQueueSend(m_TcpRecvMsgQ, DevData(Head(rcv.chunk).session))
  /\ NextPacket
  /\ UNCHANGED <<life, link, mon, snd, m_TcpSndMsgQ, server>>

\* the server's answer to a heartbeat
RcvReply ==
  /\ Runs("rcv") /\ rcv.pc = "respond"
  /\ Head(rcv.chunk).kind = "reply"
  /\ m_TcpRecvMsgQ' = MsgQueueSend(m_TcpRecvMsgQ, HeartbeatResponse)
  /\ NextPacket
  /\ UNCHANGED <<life, link, mon, snd, m_TcpSndMsgQ, server>>

Receiver ==
  \/ RcvCheck \/ RcvTimeout \/ RcvRead \/ RcvFail \/ RcvClear
  \/ RcvRefuse \/ RcvQuit \/ RcvRespond \/ RcvDeliver \/ RcvReply

-----------------------------------------------------------------------------
(* GS_TCP_SendThread *)

SndCheck ==
  /\ Runs("snd") /\ snd.pc = "check"
  /\ m_IsTcpConnectOk
  /\ snd' = [snd EXCEPT !.pc = "recv"]
  /\ UNCHANGED <<life, link, mon, rcv, queues, server>>

SndTakeNewest ==
  /\ Runs("snd") /\ snd.pc = "recv"
  /\ m_TcpSndMsgQ # <<>>
  /\ snd' = [pc |-> "send", msg |-> m_TcpSndMsgQ[Len(m_TcpSndMsgQ)]]
  /\ m_TcpSndMsgQ' = SubSeq(m_TcpSndMsgQ, 1, Len(m_TcpSndMsgQ) - 1)
  /\ UNCHANGED <<life, link, mon, rcv, m_TcpRecvMsgQ, server>>

\* GS_COMM_MsgQueueRecv blocks until there is a message
SndTake ==
  /\ Runs("snd") /\ snd.pc = "recv"
  /\ m_TcpSndMsgQ # <<>>
  /\ snd' = [pc |-> "send", msg |-> Head(m_TcpSndMsgQ)]
  /\ m_TcpSndMsgQ' = Tail(m_TcpSndMsgQ)
  /\ UNCHANGED <<life, link, mon, rcv, m_TcpRecvMsgQ, server>>

\* the whole message reaches the server
SndDeliver ==
  /\ Runs("snd") /\ snd.pc = "send"
  /\ sock.stat = "up"
  /\ snd' = SndStart
  /\ UNCHANGED <<life, link, mon, rcv, queues, server>>

\* send() takes the message, or part of it, and the server never sees all of it
SndLose ==
  /\ Runs("snd") /\ snd.pc = "send"
  /\ sock.stat \in {"up", "lost"}
  /\ snd' = SndStart
  /\ UNCHANGED <<life, link, mon, rcv, queues, server>>

SndFail ==
  /\ Runs("snd") /\ snd.pc = "send"
  /\ sock.stat \in {"new", "lost"}
  /\ snd' = [snd EXCEPT !.pc = "clear"]
  /\ UNCHANGED <<life, link, mon, rcv, queues, server>>

\* mark the connection down and drop the message
SndClear ==
  /\ Runs("snd") /\ snd.pc = "clear"
  /\ m_IsTcpConnectOk' = FALSE
  /\ snd' = SndStart
  /\ UNCHANGED <<life, m_ServAddr, writing, sock, mon, rcv, queues, server>>

Sender == SndCheck \/ SndTake \/ SndDeliver \/ SndLose \/ SndFail \/ SndClear

-----------------------------------------------------------------------------
(* The callers of the module, and the users of its queues *)

\* GS_TCP_SetConnStat(Handle, GS_FALSE)
SetConnStatFalse ==
  /\ handle = "live"
  /\ m_IsTcpConnectOk' = FALSE
  /\ UNCHANGED <<life, m_ServAddr, writing, sock, mon, rcv, snd, queues, server>>

\* GS_TCP_ReconfigServerAddr: memcpy may have written either half when it is observed
ReconfigBegin(addr) ==
  /\ handle = "live"
  /\ writing = Idle
  /\ \E half \in {"ip", "port"} :
       /\ m_ServAddr' = [m_ServAddr EXCEPT ![half] = addr[half]]
       /\ writing' = [half |-> IF half = "ip" THEN "port" ELSE "ip", addr |-> addr]
  /\ UNCHANGED <<life, m_IsTcpConnectOk, sock, mon, rcv, snd, queues, server>>

ReconfigEnd ==
  /\ handle = "live"
  /\ writing # Idle
  /\ m_ServAddr' = writing.addr
  /\ writing' = Idle
  /\ UNCHANGED <<life, m_IsTcpConnectOk, sock, mon, rcv, snd, queues, server>>

\* another thread asks for a message to be sent
PutMessage(m) ==
  /\ handle = "live"
  /\ m_TcpSndMsgQ' = MsgQueueSend(m_TcpSndMsgQ, m)
  /\ UNCHANGED <<life, link, mon, rcv, snd, m_TcpRecvMsgQ, server>>

\* another thread takes the oldest received message of this type
TakeMessage(type, i) ==
  /\ handle = "live"
  /\ IsOldest(m_TcpRecvMsgQ, type, i)
  /\ m_TcpRecvMsgQ' = MsgQueueWithout(m_TcpRecvMsgQ, i)
  /\ UNCHANGED <<life, link, mon, rcv, snd, m_TcpSndMsgQ, server>>

-----------------------------------------------------------------------------
(* The server and the network *)

ServerSends(kind) ==
  /\ kind \in Kind
  /\ sock.stat = "up"
  /\ Len(wire) < MaxWire
  /\ IF kind = "request"
     THEN /\ request < MaxRequest
          /\ request' = request + 1
          /\ wire' = Append(wire, [kind |-> kind, session |-> request'])
     ELSE /\ wire' = Append(wire, [kind |-> kind, session |-> 0])
          /\ UNCHANGED request
  /\ UNCHANGED <<life, link, mon, rcv, snd, queues>>

\* an orderly close leaves what was sent to be read, a reset may discard it or its end
PeerCloses ==
  /\ sock.stat = "up"
  /\ sock' = [sock EXCEPT !.stat = "lost"]
  /\ \E n \in 0 .. Len(wire) : wire' = SubSeq(wire, 1, n)
  /\ UNCHANGED <<life, m_IsTcpConnectOk, m_ServAddr, writing, mon, rcv, snd, queues, request>>

-----------------------------------------------------------------------------
Engine == Monitor \/ Receiver \/ Sender \/ TcpFree \/ (\E t \in Threads : ThreadEnds(t))

Callers ==
  \/ \E a \in Addr : TcpCreate(a) \/ ReconfigBegin(a)
  \/ TcpCancel \/ SetConnStatFalse \/ ReconfigEnd
  \/ \E m \in ClientMsg : PutMessage(m)
  \/ \E type \in {"DEV_DATA", "HEARTBEAT_RESPONSE"}, i \in 1 .. MaxQueueSize :
       TakeMessage(type, i)

Network == PeerCloses \/ (\E kind \in Kind : ServerSends(kind))

TcpNext == Engine \/ Callers \/ Network

TcpSpec == TcpInit /\ [][TcpNext]_tcpVars

\* The operating system schedules every thread, a cancelled thread comes to its
\* blocking call, and a server that is dialled for ever answers some day.  The
\* send thread has no fairness: select() without a timeout may block it for ever.
TcpFairness ==
  /\ WF_tcpVars(Monitor) /\ SF_tcpVars(MonConnectOk)
  /\ WF_tcpVars(Receiver)
  /\ \A t \in Threads : WF_tcpVars(ThreadEnds(t))
  /\ WF_tcpVars(TcpFree)

TcpFairSpec == TcpSpec /\ TcpFairness

-----------------------------------------------------------------------------
(* Properties *)

\* Every variable keeps its type (the thread and handle records of gs_tcp.c).
TcpTypeOK ==
  /\ handle \in {"none", "live", "cancel", "exited"}
  /\ alive \subseteq Threads
  /\ m_IsTcpConnectOk \in BOOLEAN
  /\ m_ServAddr \in NetAddr
  /\ writing \in [half : {"none", "ip", "port"}, addr : NetAddr]
  /\ sock \in [stat : {"none", "new", "up", "lost"}, peer : NetAddr]
  /\ mon \in [pc : {"check", "port", "ip", "connect", "publish"}, addr : NetAddr,
             pause : 1 .. MAXSLEEP]
  /\ rcv \in [pc : {"check", "read", "respond", "deliver", "clear"}, chunk : Seq(Packet)]
  /\ snd \in [pc : {"check", "recv", "send", "clear"}, msg : SendMsg \union {NoMsg}]
  /\ m_TcpSndMsgQ \in Seq(SendMsg) /\ Len(m_TcpSndMsgQ) <= MaxQueueSize
  /\ m_TcpRecvMsgQ \in Seq(RecvMsg) /\ Len(m_TcpRecvMsgQ) <= MaxQueueSize
  /\ wire \in Seq(Packet) /\ Len(wire) <= MaxWire
  /\ request \in 0 .. MaxRequest

\* The flag promises a socket that connect() reported connected: the receive and
\* send threads act on m_SockFd whenever they see the flag, without a lock.
UpMeansConnected == m_IsTcpConnectOk => sock.stat \in {"up", "lost"}

\* The monitor renews and dials the socket only while the connection is marked
\* down, and stays the only one to mark it up: no thread's write undoes that.
DialOnlyWhileDown == mon.pc # "check" => ~m_IsTcpConnectOk

\* the session number of a request of the server, of the command and of the SUCCESS
\* response it leads to; 0 for every other packet or message: numbers begin at 1
RequestNo == [p \in Packet |-> IF p.kind = "request" THEN p.session ELSE 0]
CommandNo == [m \in RecvMsg |-> IF m.m_MsgType = "DEV_DATA" THEN m.session ELSE 0]
SuccessNo ==
  [m \in SendMsg \union {NoMsg} |->
     IF m.m_MsgTag = "response" /\ m.result = "SUCCESS" THEN m.session ELSE 0]

Numbers(no, s) == [i \in DOMAIN s |-> no[s[i]]]

\* the numbers that are not 0 increase
InOrder(n) == \A i, j \in DOMAIN n : i < j /\ n[i] # 0 /\ n[j] # 0 => n[i] < n[j]

\* the requests of the server, from those queued as commands to those on the wire
CommandLine ==
  Numbers(CommandNo, m_TcpRecvMsgQ) \o Numbers(RequestNo, rcv.chunk) \o Numbers(RequestNo, wire)

\* Commands reach the device in the order the server sent them and none reaches
\* it twice, whatever chunks read() returns and however often the connection is
\* renewed (m_TcpRecvMsgQ, the chunk of the receive thread, the socket).
CommandsInOrder == InOrder(CommandLine)

\* packets of the chunk that have no response yet
Unanswered == IF rcv.pc = "deliver" THEN Tail(rcv.chunk) ELSE rcv.chunk

\* SUCCESS responses leave in the order of the requests and none is given twice:
\* the one the send thread holds, those queued, the requests not yet answered.
ResponsesInOrder ==
  InOrder(<<SuccessNo[snd.msg]>> \o Numbers(SuccessNo, m_TcpSndMsgQ)
          \o Numbers(RequestNo, Unanswered) \o Numbers(RequestNo, wire))

\* A connection marked down comes up again: whatever marked it down, the monitor
\* dials until the server answers (lines 66-104), unless the handle is destroyed.
ComesBack == (handle = "live" /\ ~m_IsTcpConnectOk) ~> (m_IsTcpConnectOk \/ handle # "live")

\* A monitor that finds the connection marked down connects it to the address
\* configured at that moment, unless the address is changed meanwhile: then the
\* address it dials may be the old one, or half of each (lines 85 and 88).
ConnectsWhereConfigured ==
  \A a \in Addr :
    (handle = "live" /\ mon.pc = "check" /\ ~m_IsTcpConnectOk /\ m_ServAddr = a /\ writing = Idle)
      ~> ((m_IsTcpConnectOk /\ sock.peer = a) \/ m_ServAddr # a \/ writing # Idle
          \/ handle # "live")

\* A connection the server closed is marked down: the receive thread reads what
\* is left, then sees the end of the stream (lines 331-341).
LossNoticed ==
  (handle = "live" /\ m_IsTcpConnectOk /\ sock.stat = "lost")
    ~> (~m_IsTcpConnectOk \/ handle # "live")
=============================================================================
