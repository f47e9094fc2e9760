----------------------------- MODULE DevIf_proofs ----------------------------
(***************************************************************************)
(* Proofs about DevIf, for every configuration and interleaving.  The task *)
(* is written with the actions of GsTcp, so that what is proved of GsTcp's *)
(* steps holds of the whole program; then the types of the task; that no   *)
(* thread outlives what it uses; that commands are applied in order.       *)
(***************************************************************************)
EXTENDS DevIf, GsTcp_proofs

\* The device's server address is one that may be configured.
ServerAddrConfigured == serverAddr \in Addr

-----------------------------------------------------------------------------
\* A message of the task is one the engine's callers may send.
LEMMA ClientMayPut ==
  ASSUME NEW m \in DevClientMsg, PutMessage(m)
  PROVE  TcpStep
<1>1. m \in ClientMsg
  BY ClientMsgAssumption
<1> QED
  BY <1>1 DEF TcpStep, TcpNext, Callers

\* A message the task takes is in a place the engine's callers may take it from.
LEMMA ClientMayTake ==
  ASSUME TcpInv, NEW type \in {"DEV_DATA", "HEARTBEAT_RESPONSE"},
         NEW i \in DOMAIN m_TcpRecvMsgQ, TakeMessage(type, i)
  PROVE  TcpStep
<1>1. i \in 1 .. Len(m_TcpRecvMsgQ) /\ Len(m_TcpRecvMsgQ) <= MaxQueueSize
  BY LenProperties DEF TcpInv, TcpTypeOK
<1>2. i \in 1 .. MaxQueueSize
  BY <1>1, MaxQueueSizeAssumption, LenProperties DEF TcpInv, TcpTypeOK
<1> QED
  BY <1>2 DEF TcpStep, TcpNext, Callers

\* A step of the protocol thread is a step of the engine's callers, or the end
\* of the process, or none of the engine's business.
LEMMA ProtProcThreadUsesTcp ==
  ASSUME TcpInv, ServerAddrConfigured, ProtProcThread
  PROVE  [TcpStep]_tcpVars /\ ServerAddrConfigured'
<1>1. CASE DevStart
  BY <1>1 DEF DevStart, ServerAddrConfigured, deviceVars, TcpStep, TcpNext, Callers
<1>2. CASE DevBeat
  <2>1. Heartbeat(IsFirstRegister(serverAddr)) \in DevClientMsg
    BY DEF DevClientMsg, IsFirstRegister
  <2> QED
    BY <1>2, <2>1, ClientMayPut DEF DevBeat, ServerAddrConfigured, deviceVars
<1>3. CASE DevPollFinds
  BY <1>3, ClientMayTake DEF DevPollFinds, ServerAddrConfigured
<1>4. CASE DevTimesOut
  BY <1>4 DEF DevTimesOut, ServerAddrConfigured, deviceVars, TcpStep, TcpNext, Callers
<1>5. CASE DevCancelFails
  BY <1>5 DEF DevCancelFails, devVars, ServerAddrConfigured, deviceVars, TcpStep
<1>6. CASE DevDestroy
  BY <1>6 DEF DevDestroy, ServerAddrConfigured, deviceVars, TcpStep, TcpNext, Callers
<1>7. CASE DevFree
  BY <1>7 DEF DevFree, ServerAddrConfigured, deviceVars, TcpStep, TcpNext, Engine
<1>8. CASE DevStatGetFails \/ DevSeesUp \/ DevPollFails \/ DevRests \/ DevStops
  BY <1>8 DEF DevStatGetFails, DevSeesUp, DevPollFails, DevRests, DevStops,
              ServerAddrConfigured, deviceVars
<1> QED
  BY <1>1, <1>2, <1>3, <1>4, <1>5, <1>6, <1>7, <1>8 DEF ProtProcThread

\* So is a step of the command thread, GS_EM_RemoteReConnect included.
LEMMA ApplyParamThreadUsesTcp ==
  ASSUME TcpInv, ServerAddrConfigured, ApplyParamThread
  PROVE  [TcpStep]_tcpVars /\ ServerAddrConfigured'
<1>1. CASE ApplyTake
  BY <1>1, ClientMayTake DEF ApplyTake, ServerAddrConfigured, deviceVars
<1>2. CASE ReConnectBegins
  BY <1>2 DEF ReConnectBegins, ServerAddrConfigured, deviceVars, TcpStep, TcpNext, Callers
<1>3. CASE ReConnectCopied
  BY <1>3 DEF ReConnectCopied, ServerAddrConfigured, deviceVars, TcpStep, TcpNext, Callers
<1>4. CASE ReConnectTriggers
  BY <1>4 DEF ReConnectTriggers, ServerAddrConfigured, deviceVars, TcpStep, TcpNext, Callers
<1>5. CASE ApplySet \/ ApplyEnds \/ (\E a \in Addr : ApplyServerAddr(a))
  BY <1>5 DEF ApplySet, ApplyEnds, ApplyServerAddr, ServerAddrConfigured, deviceVars
<1> QED
  BY <1>1, <1>2, <1>3, <1>4, <1>5 DEF ApplyParamThread

\* So is a step of the post-back thread.
LEMMA PostBackThreadUsesTcp ==
  ASSUME TcpInv, ServerAddrConfigured, PostBackThread
  PROVE  [TcpStep]_tcpVars /\ ServerAddrConfigured'
<1>1. CASE PostSends
  <2>1. PostBack \in DevClientMsg
    BY DEF DevClientMsg
  <2> QED
    BY <1>1, <2>1, ClientMayPut DEF PostSends, ServerAddrConfigured, deviceVars
<1>2. CASE PostSeesUp \/ PostReturns \/ PostEnds
  BY <1>2 DEF PostSeesUp, PostReturns, PostEnds, ServerAddrConfigured, deviceVars
<1> QED
  BY <1>1, <1>2 DEF PostBackThread

\* The engine's own steps are the engine's steps.
LEMMA EngineStepsAreTcp ==
  ASSUME ServerAddrConfigured, MonitorStep \/ ReceiverStep \/ SenderStep \/ EngineEnds
  PROVE  [TcpStep]_tcpVars /\ ServerAddrConfigured'
<1>1. ServerAddrConfigured'
  BY DEF MonitorStep, ReceiverStep, SenderStep, EngineEnds, devVars, deviceVars,
         ServerAddrConfigured
<1>2. Monitor \/ Receiver \/ Sender \/ (\E t \in Threads : ThreadEnds(t))
  BY DEF MonitorStep, ReceiverStep, SenderStep, EngineEnds, Sender
<1> QED
  BY <1>1, <1>2 DEF TcpStep, TcpNext, Engine

\* The server's are the network's.
LEMMA ServerStepsAreTcp ==
  ASSUME ServerAddrConfigured,
         "reply" \in Kind \/ ~ServerAnswers, "request" \in Kind \/ ~ServerRequests,
         ServerAnswers \/ ServerRequests \/ ServerCloses \/ ServerFallsSilent
  PROVE  [TcpStep]_tcpVars /\ ServerAddrConfigured'
  BY DEF ServerAnswers, ServerRequests, ServerCloses, ServerFallsSilent, devVars, deviceVars,
         ServerAddrConfigured, TcpStep, TcpNext, Network

\* Every step of the program is a step of GsTcp, the end of the process, or
\* leaves the engine alone.
LEMMA StepUsesTcp ==
  ASSUME TcpInv, ServerAddrConfigured, [Next]_vars
  PROVE  [TcpStep]_tcpVars /\ ServerAddrConfigured'
<1>1. CASE UNCHANGED vars
  BY <1>1 DEF vars, devVars, deviceVars, ServerAddrConfigured
<1>2. CASE TaskCreate \/ TaskDestroy \/ TaskJoined
  BY <1>2 DEF TaskCreate, TaskDestroy, TaskJoined, deviceVars, ServerAddrConfigured
<1>3. CASE ServerAnswers \/ ServerRequests \/ ServerCloses \/ ServerFallsSilent
  <2>1. ("reply" \in Kind \/ ~ServerAnswers) /\ ("request" \in Kind \/ ~ServerRequests)
    BY DEF ServerAnswers, ServerRequests, ServerSends
  <2> QED
    BY <1>3, <2>1, ServerStepsAreTcp
<1> QED
  BY <1>1, <1>2, <1>3, ProtProcThreadUsesTcp, ApplyParamThreadUsesTcp,
     PostBackThreadUsesTcp, EngineStepsAreTcp DEF Next

\* The invariant that carries the refinement: the engine's own, and the address.
UsesTcp == TcpInv /\ ServerAddrConfigured

\* It holds at the start and every step keeps it.
LEMMA UsesTcpInvariant == Spec => []UsesTcp
<1>1. Init => UsesTcp
  BY StartsInInv DEF Init, UsesTcp, ServerAddrConfigured
<1>2. UsesTcp /\ [Next]_vars => UsesTcp'
  BY StepUsesTcp, StepKeepsInv DEF UsesTcp
<1> QED
  BY <1>1, <1>2, PTL DEF Spec

\* What is proved of the engine holds of the program: while the connection flag
\* is up the socket is one connect() reported connected.
THEOREM DevIfUpMeansConnected == Spec => []UpMeansConnected
<1>1. UsesTcp => UpMeansConnected
  BY DEF UsesTcp, TcpInv
<1> QED
  BY <1>1, UsesTcpInvariant, PTL

-----------------------------------------------------------------------------
\* The type of the protocol thread.
DevType ==
  dev \in [pc : {"off", "start", "loop", "beat", "poll", "decide", "join", "free", "ended"},
           lTimeOut : -1 .. DEV_HEARTBEAT_TIMEOUT, addr : NetAddr, got : BOOLEAN]

\* What the protocol thread has made and not yet taken down.
ThreadOwnsHandle ==
  /\ dev.pc \in {"off", "start", "ended"} => handle \in {"none", "exited"}
  /\ task = "out" => dev.pc = "off"

LifeInv == NoThreadOutlivesItsHandle /\ ThreadOwnsHandle

\* A step that changes neither the handle nor who uses it keeps LifeInv.
LEMMA UnchangedLifeInv ==
  ASSUME LifeInv, UNCHANGED <<handle, alive, task, apply, post, dev>>
  PROVE  LifeInv'
  BY DEF LifeInv, NoThreadOutlivesItsHandle, ThreadOwnsHandle

\* A step of the task's creator keeps LifeInv.
LEMMA TaskKeepsLifeInv ==
  ASSUME LifeInv, TaskCreate \/ TaskDestroy \/ TaskJoined
  PROVE  LifeInv'
<1> USE DEF LifeInv, NoThreadOutlivesItsHandle, ThreadOwnsHandle, tcpVars, life
<1>1. CASE TaskCreate
  BY <1>1 DEF TaskCreate, DevOff
<1>2. CASE TaskDestroy
  BY <1>2 DEF TaskDestroy, threadVars
<1>3. CASE TaskJoined
  BY <1>3 DEF TaskJoined, DevOff
<1> QED
  BY <1>1, <1>2, <1>3

\* A step of the protocol thread keeps LifeInv.
LEMMA ProtProcThreadKeepsLifeInv ==
  ASSUME LifeInv, DevType, ProtProcThread
  PROVE  LifeInv'
<1> USE DEF LifeInv, NoThreadOutlivesItsHandle, ThreadOwnsHandle, tcpVars, life
<1>0. dev.pc # "off" => task # "out"
  OBVIOUS
<1>1. CASE DevStart
  BY <1>1 DEF DevStart, TcpCreate, taskVars, DevType
<1>2. CASE DevStatGetFails
  BY <1>2 DEF DevStatGetFails, taskVars, DevType
<1>3. CASE DevSeesUp
  BY <1>3 DEF DevSeesUp, taskVars, DevType
<1>4. CASE DevBeat
  BY <1>4 DEF DevBeat, PutMessage, taskVars, DevType
<1>5. CASE DevPollFinds
  BY <1>5 DEF DevPollFinds, TakeMessage, taskVars, DevType
<1>6. CASE DevPollFails
  BY <1>6 DEF DevPollFails, taskVars, DevType
<1>7. CASE DevTimesOut
  BY <1>7 DEF DevTimesOut, SetConnStatFalse, taskVars, DevOff
<1>8. CASE DevRests
  BY <1>8 DEF DevRests, taskVars, DevOff
<1>9. CASE DevStops
  BY <1>9 DEF DevStops, taskVars, DevOff
<1>10. CASE DevCancelFails
  BY <1>10 DEF DevCancelFails, ProcessExits, devVars, taskVars, threadVars
<1>11. CASE DevDestroy
  BY <1>11 DEF DevDestroy, TcpCancel, taskVars, DevType
<1>12. CASE DevFree
  BY <1>12 DEF DevFree, TcpFree, taskVars, DevType
<1> QED
  BY <1>1, <1>2, <1>3, <1>4, <1>5, <1>6, <1>7, <1>8, <1>9, <1>10, <1>11, <1>12
     DEF ProtProcThread

\* A step of a worker thread keeps LifeInv: it needs a live handle.
LEMMA WorkersKeepLifeInv ==
  ASSUME LifeInv, ApplyParamThread \/ PostBackThread
  PROVE  LifeInv'
<1>1. handle = "live" /\ UNCHANGED <<handle, alive, task, dev>>
  BY DEF ApplyParamThread, ApplyTake, TakeMessage, ApplySet, ApplyServerAddr,
         ReConnectBegins, ReconfigBegin, ReConnectCopied, ReconfigEnd, ReConnectTriggers,
         SetConnStatFalse, ApplyEnds, PostBackThread, PostSeesUp, PostSends, PutMessage,
         PostReturns, PostEnds, taskVars, tcpVars, life
<1> QED
  BY <1>1 DEF LifeInv, NoThreadOutlivesItsHandle, ThreadOwnsHandle

\* A step of the engine's threads leaves the task alone and keeps LifeInv.
LEMMA EngineKeepsLifeInv ==
  ASSUME LifeInv, MonitorStep \/ ReceiverStep \/ SenderStep \/ EngineEnds
  PROVE  LifeInv'
<1>1. UNCHANGED <<task, apply, post, dev>>
  BY DEF MonitorStep, ReceiverStep, SenderStep, EngineEnds, devVars, taskVars, threadVars
<1>2. CASE MonitorStep
  <2>1. UNCHANGED life
    BY <1>2 DEF MonitorStep, Monitor, MonRenew, MonPort, MonIp, MonConnectOk, MonConnectFail,
                MonPublish
  <2> QED
    BY <1>1, <2>1, UnchangedLifeInv DEF life
<1>3. CASE ReceiverStep
  <2>1. UNCHANGED life \/ handle' = "exited"
    BY <1>3 DEF ReceiverStep, Receiver, RcvCheck, RcvTimeout, RcvRead, RcvFail, RcvClear,
                RcvRefuse, RcvQuit, ProcessExits, RcvRespond, RcvDeliver, RcvReply
  <2>2. CASE UNCHANGED life
    BY <1>1, <2>2, UnchangedLifeInv DEF life
  <2>3. CASE handle' = "exited"
    BY <1>1, <2>3 DEF LifeInv, NoThreadOutlivesItsHandle, ThreadOwnsHandle
  <2> QED
    BY <2>1, <2>2, <2>3
<1>4. CASE SenderStep
  <2>1. UNCHANGED life
    BY <1>4 DEF SenderStep, SndCheck, SndTake, SndDeliver, SndLose, SndFail, SndClear
  <2> QED
    BY <1>1, <2>1, UnchangedLifeInv DEF life
<1>5. CASE EngineEnds
  <2>1. UNCHANGED handle /\ alive' \subseteq alive
    BY <1>5 DEF EngineEnds, ThreadEnds
  <2> QED
    BY <1>1, <2>1 DEF LifeInv, NoThreadOutlivesItsHandle, ThreadOwnsHandle
<1> QED
  BY <1>2, <1>3, <1>4, <1>5

\* A step of the server touches no thread.
LEMMA ServerKeepsLifeInv ==
  ASSUME LifeInv, ServerAnswers \/ ServerRequests \/ ServerCloses \/ ServerFallsSilent
  PROVE  LifeInv'
<1>1. UNCHANGED <<handle, alive, task, apply, post, dev>>
  BY DEF ServerAnswers, ServerRequests, ServerCloses, ServerFallsSilent, ServerSends,
         PeerCloses, devVars, taskVars, threadVars, tcpVars, life
<1> QED
  BY <1>1, UnchangedLifeInv

-----------------------------------------------------------------------------
\* While an answer is looked for the count is not yet below zero, and the address
\* the heartbeat was made for is one that was configured.
PollCount == dev.pc = "poll" => dev.lTimeOut >= 0 /\ dev.addr \in Addr

\* The inductive invariant of the program.
DevInv == UsesTcp /\ TypeOK /\ PollCount /\ LifeInv

\* A step of the protocol thread keeps its type and its count.
LEMMA ProtProcThreadKeepsType ==
  ASSUME DevType, PollCount, ServerAddrConfigured, ProtProcThread
  PROVE  DevType' /\ PollCount'
<1>0. DevOff \in [pc : {"off", "start", "loop", "beat", "poll", "decide", "join", "free", "ended"},
                  lTimeOut : -1 .. DEV_HEARTBEAT_TIMEOUT, addr : NetAddr, got : BOOLEAN]
  BY NoAddrTyped, TimeoutAssumption DEF DevOff
<1>1. serverAddr \in NetAddr
  BY AddrAssumption DEF ServerAddrConfigured, NetAddr
<1>2. CASE DevStart \/ DevStatGetFails \/ DevSeesUp \/ DevDestroy \/ DevFree
  BY <1>2 DEF DevStart, DevStatGetFails, DevSeesUp, DevDestroy, DevFree, DevType, PollCount
<1>3. CASE DevTimesOut \/ DevRests \/ DevStops
  BY <1>0, <1>3 DEF DevTimesOut, DevRests, DevStops, DevType, PollCount, DevOff
<1>4. CASE DevCancelFails
  BY <1>4 DEF DevCancelFails, devVars, threadVars, DevType, PollCount
<1>5. CASE DevBeat
  <2>1. CASE dev' = [dev EXCEPT !.pc = "loop"]
    BY <2>1 DEF DevType, PollCount
  <2>2. CASE dev' = [pc |-> "poll", lTimeOut |-> DEV_HEARTBEAT_TIMEOUT, addr |-> serverAddr,
                     got |-> FALSE]
    BY <1>1, <2>2, TimeoutAssumption DEF DevType, PollCount, ServerAddrConfigured
  <2> QED
    BY <1>5, <2>1, <2>2 DEF DevBeat
<1> DEFINE left == dev.lTimeOut - 1
<1>6. dev.pc = "poll" => /\ left \in -1 .. DEV_HEARTBEAT_TIMEOUT
                         /\ dev.lTimeOut # 0 => left >= 0
  BY TimeoutAssumption DEF DevType, PollCount
<1> HIDE DEF left
<1>7. CASE DevPollFinds
  <2>1. dev.pc = "poll" /\ dev' = [dev EXCEPT !.pc = "decide", !.lTimeOut = left, !.got = TRUE]
    BY <1>7 DEF DevPollFinds, left, DevType
  <2> QED
    BY <1>6, <2>1 DEF DevType, PollCount
<1>8. CASE DevPollFails
  <2>1. /\ dev.pc = "poll"
        /\ dev' = [dev EXCEPT !.pc = IF dev.lTimeOut = 0 THEN "decide" ELSE "poll",
                              !.lTimeOut = left]
    BY <1>8 DEF DevPollFails, left, DevType
  <2>2. CASE dev.lTimeOut = 0
    BY <1>6, <2>1, <2>2 DEF DevType, PollCount
  <2>3. CASE dev.lTimeOut # 0
    <3>1. dev' = [dev EXCEPT !.pc = "poll", !.lTimeOut = left] /\ left >= 0
      BY <1>6, <2>1, <2>3
    <3> QED
      BY <1>6, <2>1, <3>1 DEF DevType, PollCount
  <2> QED
    BY <2>2, <2>3
<1> QED
  BY <1>2, <1>3, <1>4, <1>5, <1>7, <1>8 DEF ProtProcThread

\* A step of another thread or of the server leaves the protocol thread alone.
LEMMA OthersKeepDev ==
  ASSUME ApplyParamThread \/ PostBackThread \/ MonitorStep \/ ReceiverStep \/ SenderStep
           \/ EngineEnds \/ ServerAnswers \/ ServerRequests \/ ServerCloses
           \/ ServerFallsSilent \/ TaskDestroy
  PROVE  UNCHANGED dev
  BY DEF ApplyParamThread, ApplyTake, ApplySet, ApplyServerAddr, ReConnectBegins,
         ReConnectCopied, ReConnectTriggers, ApplyEnds, PostBackThread, PostSeesUp, PostSends,
         PostReturns, PostEnds, MonitorStep, ReceiverStep, SenderStep, EngineEnds,
         ServerAnswers, ServerRequests, ServerCloses, ServerFallsSilent, TaskDestroy,
         devVars, threadVars

\* Every step keeps the protocol thread's type and its count.
LEMMA StepKeepsDevType ==
  ASSUME DevType, PollCount, ServerAddrConfigured, [Next]_vars
  PROVE  DevType' /\ PollCount'
<1>1. CASE ProtProcThread
  BY <1>1, ProtProcThreadKeepsType
<1>2. CASE TaskCreate \/ TaskJoined
  <2>1. dev' = DevOff \/ dev' = [DevOff EXCEPT !.pc = "start"]
    BY <1>2 DEF TaskCreate, TaskJoined
  <2>2. 0 \in -1 .. DEV_HEARTBEAT_TIMEOUT
    BY TimeoutAssumption
  <2>3. CASE dev' = DevOff
    BY <2>2, <2>3, NoAddrTyped DEF DevOff, DevType, PollCount
  <2>4. CASE dev' = [DevOff EXCEPT !.pc = "start"]
    BY <2>2, <2>4, NoAddrTyped DEF DevOff, DevType, PollCount
  <2> QED
    BY <2>1, <2>3, <2>4
<1>3. CASE UNCHANGED dev
  BY <1>3 DEF DevType, PollCount
<1>4. CASE UNCHANGED vars
  BY <1>3, <1>4 DEF vars, devVars, threadVars
<1> QED
  BY <1>1, <1>2, <1>3, <1>4, OthersKeepDev DEF Next

\* The other variables of the task, part by part.
RestType ==
  /\ task \in {"out", "in", "joining"} /\ m_IsRun \in BOOLEAN
  /\ apply \in [pc : {"off", "recv", "set", "reconfig", "copy", "flag"}, session : 0 .. MaxRequest]
  /\ post \in {"off", "wait", "send", "ended"}
  /\ serverAddr \in Addr /\ registered \in Addr \union {NoAddr}
  /\ applied \in 0 .. MaxRequest /\ owed \in 0 .. MaxOwed
  /\ mute \in BOOLEAN

\* The type invariant of the task is that of its protocol thread and of the rest.
LEMMA TypeOfParts == TypeOK <=> DevType /\ RestType
  BY DEF TypeOK, DevType, RestType

\* A step of a thread of the task keeps the type of the other variables.
LEMMA TaskKeepsRestType ==
  ASSUME UsesTcp, RestType, PollCount,
         TaskCreate \/ TaskDestroy \/ TaskJoined \/ ProtProcThread \/ PostBackThread
  PROVE  RestType'
<1> USE DEF RestType, taskVars, threadVars, deviceVars, peerVars
<1>1. CASE TaskCreate \/ TaskDestroy \/ TaskJoined
  BY <1>1 DEF TaskCreate, TaskDestroy, TaskJoined
<1>2. CASE DevStart
  <2>1. apply' \in [pc : {"off", "recv", "set", "reconfig", "copy", "flag"},
                    session : 0 .. MaxRequest]
    BY <1>2, BoundAssumption DEF DevStart, ApplyOff
  <2> QED
    BY <1>2, <2>1, OwedAssumption DEF DevStart
<1>3. CASE DevStatGetFails \/ DevSeesUp \/ DevBeat \/ DevPollFails \/ DevTimesOut \/ DevRests
             \/ DevStops
  BY <1>3 DEF DevStatGetFails, DevSeesUp, DevBeat, DevPollFails, DevTimesOut, DevRests, DevStops
<1>4. CASE DevPollFinds
  <2>1. registered' \in Addr \union {NoAddr}
    BY <1>4 DEF DevPollFinds, PollCount
  <2> QED
    BY <1>4, <2>1 DEF DevPollFinds
<1>5. CASE DevCancelFails
  BY <1>5 DEF DevCancelFails, devVars
<1>6. CASE DevDestroy \/ DevFree
  BY <1>6, OwedAssumption DEF DevDestroy, DevFree
<1>7. CASE PostBackThread
  BY <1>7 DEF PostBackThread, PostSeesUp, PostSends, PostReturns, PostEnds
<1> QED
  BY <1>1, <1>2, <1>3, <1>4, <1>5, <1>6, <1>7 DEF ProtProcThread

\* So does a step of the command thread.
LEMMA ApplyKeepsRestType ==
  ASSUME UsesTcp, RestType, ApplyParamThread
  PROVE  RestType'
<1>1. \/ UNCHANGED <<serverAddr, applied>>
      \/ serverAddr' \in Addr \union {serverAddr} /\ applied' = apply.session
  BY DEF ApplyParamThread, ApplyTake, ApplySet, ApplyServerAddr, ReConnectBegins,
         ReConnectCopied, ReConnectTriggers, ApplyEnds, deviceVars
<1>2. UNCHANGED <<taskVars, post, registered, peerVars>>
  BY DEF ApplyParamThread, ApplyTake, ApplySet, ApplyServerAddr, ReConnectBegins,
         ReConnectCopied, ReConnectTriggers, ApplyEnds, deviceVars
<1>3. apply' \in [pc : {"off", "recv", "set", "reconfig", "copy", "flag"},
                  session : 0 .. MaxRequest]
  <2>1. CASE ApplyTake
    <3>1. PICK i \in DOMAIN m_TcpRecvMsgQ :
            /\ m_TcpRecvMsgQ[i].m_MsgType = "DEV_DATA"
            /\ apply' = [pc |-> "set", session |-> m_TcpRecvMsgQ[i].session]
      BY <2>1 DEF ApplyTake, TakeMessage, IsOldest
    <3>2. m_TcpRecvMsgQ[i] \in RecvMsg
      BY LenProperties DEF UsesTcp, TcpInv, TcpTypeOK
    <3>3. m_TcpRecvMsgQ[i].session \in 0 .. MaxRequest
      BY <3>2, BoundAssumption DEF RecvMsg, HeartbeatResponse, DevData
    <3> QED
      BY <3>1, <3>3
  <2>2. CASE ApplySet \/ ReConnectTriggers \/ ApplyEnds
    BY <2>2, BoundAssumption DEF ApplySet, ReConnectTriggers, ApplyEnds, ApplyOff
  <2>3. CASE (\E a \in Addr : ApplyServerAddr(a)) \/ ReConnectBegins \/ ReConnectCopied
    BY <2>3 DEF ApplyServerAddr, ReConnectBegins, ReConnectCopied, RestType
  <2> QED
    BY <2>1, <2>2, <2>3 DEF ApplyParamThread
<1> QED
  BY <1>1, <1>2, <1>3 DEF RestType, taskVars, peerVars

\* So does a step of the engine's threads or of the server.
LEMMA PeersKeepRestType ==
  ASSUME UsesTcp, RestType,
         MonitorStep \/ ReceiverStep \/ SenderStep \/ EngineEnds
           \/ ServerAnswers \/ ServerRequests \/ ServerCloses \/ ServerFallsSilent
  PROVE  RestType'
<1> USE DEF RestType, taskVars, threadVars, deviceVars, peerVars, devVars
<1>1. CASE MonitorStep
  BY <1>1, OwedAssumption DEF MonitorStep
<1>2. CASE SenderStep
  <2>1. UNCHANGED <<taskVars, threadVars, deviceVars, mute>>
    BY <1>2 DEF SenderStep
  <2>2. owed' = owed \/ (owed < MaxOwed /\ owed' = owed + 1)
    BY <1>2 DEF SenderStep
  <2>3. owed' \in 0 .. MaxOwed
    BY <2>2, OwedAssumption
  <2> QED
    BY <2>1, <2>3
<1>3. CASE ServerAnswers
  <2>1. UNCHANGED <<taskVars, threadVars, deviceVars, mute>>
    BY <1>3 DEF ServerAnswers
  <2>2. owed' \in 0 .. MaxOwed
    BY <1>3, OwedAssumption DEF ServerAnswers
  <2> QED
    BY <2>1, <2>2
<1>4. CASE ReceiverStep \/ EngineEnds \/ ServerRequests \/ ServerCloses \/ ServerFallsSilent
  BY <1>4 DEF ReceiverStep, EngineEnds, ServerRequests, ServerCloses, ServerFallsSilent
<1> QED
  BY <1>1, <1>2, <1>3, <1>4

-----------------------------------------------------------------------------
\* The program starts in the inductive invariant.
LEMMA ProgramStarts == Init => DevInv
<1> SUFFICES ASSUME Init
             PROVE  DevInv
  OBVIOUS
<1>1. UsesTcp
  BY StartsInInv DEF Init, UsesTcp, ServerAddrConfigured
<1>2. DevType /\ PollCount
  BY NoAddrTyped, TimeoutAssumption DEF Init, DevOff, DevType, PollCount
<1>3. RestType
  <2>1. 0 \in 0 .. MaxRequest /\ 0 \in 0 .. MaxOwed
    BY BoundAssumption, OwedAssumption
  <2>2. apply \in [pc : {"off", "recv", "set", "reconfig", "copy", "flag"},
                   session : 0 .. MaxRequest]
    BY <2>1 DEF Init, ApplyOff
  <2> QED
    BY <2>1, <2>2 DEF Init, RestType
<1>4. LifeInv
  BY DEF Init, TcpInit, DevOff, ApplyOff, LifeInv, NoThreadOutlivesItsHandle, ThreadOwnsHandle
<1> QED
  BY <1>1, <1>2, <1>3, <1>4, TypeOfParts DEF DevInv

\* Every step of the program keeps it.
LEMMA ProgramKeepsInv ==
  ASSUME DevInv, [Next]_vars
  PROVE  DevInv'
<1>0. UsesTcp /\ DevType /\ RestType /\ PollCount /\ LifeInv /\ ServerAddrConfigured
  BY TypeOfParts DEF DevInv, UsesTcp
<1>1. UsesTcp'
  BY <1>0, StepUsesTcp, StepKeepsInv DEF UsesTcp
<1>2. DevType' /\ PollCount'
  BY <1>0, StepKeepsDevType
<1>3. UNCHANGED vars => RestType' /\ LifeInv'
  <2> SUFFICES ASSUME UNCHANGED vars
               PROVE  RestType' /\ LifeInv'
    OBVIOUS
  <2>1. RestType'
    BY <1>0 DEF RestType, vars, devVars, taskVars, threadVars, deviceVars, peerVars
  <2>2. LifeInv'
    BY <1>0, UnchangedLifeInv DEF vars, devVars, taskVars, threadVars, tcpVars, life
  <2> QED
    BY <2>1, <2>2
<1>4. RestType' \/ UNCHANGED vars
  BY <1>0, TaskKeepsRestType, ApplyKeepsRestType, PeersKeepRestType DEF Next
<1>5. LifeInv' \/ UNCHANGED vars
  BY <1>0, TaskKeepsLifeInv, ProtProcThreadKeepsLifeInv, WorkersKeepLifeInv,
     EngineKeepsLifeInv, ServerKeepsLifeInv DEF Next
<1>6. TypeOK'
  <2>1. RestType'
    BY <1>3, <1>4
  <2>2. TypeOK' <=> DevType' /\ RestType'
    BY TypeOfParts, PTL
  <2> QED
    BY <1>2, <2>1, <2>2
<1> QED
  BY <1>1, <1>2, <1>3, <1>5, <1>6 DEF DevInv

\* For every configuration the task's variables keep their types: the heartbeat
\* count never falls below -1, and only configured addresses are registered.
THEOREM DevIfTypeOK == Spec => []TypeOK
<1>1. DevInv => TypeOK
  BY DEF DevInv
<1> QED
  BY <1>1, ProgramStarts, ProgramKeepsInv, PTL DEF Spec

\* For every configuration and interleaving, no thread outlives what it uses: the
\* worker threads end before GS_TCP_Destroy, the engine's before the handle and
\* the queues are freed, all of them before GS_EM_ProtProcTaskDestroy returns.
THEOREM DevIfNoThreadOutlivesItsHandle == Spec => []NoThreadOutlivesItsHandle
<1>1. DevInv => NoThreadOutlivesItsHandle
  BY DEF DevInv, LifeInv
<1> QED
  BY <1>1, ProgramStarts, ProgramKeepsInv, PTL DEF Spec

-----------------------------------------------------------------------------
\* The command applied last is below the one in hand, both are below all that are on
\* their way to the device, and none is above the number the server gave last.
AppliedOrder ==
  /\ applied # 0 /\ InHand # 0 => applied < InHand
  /\ Below({applied} \ {0}, Ahead) /\ Below({InHand} \ {0}, Ahead)
  /\ applied <= request /\ InHand <= request

\* The numbers are natural numbers.
LEMMA AppliedAreNat ==
  ASSUME DevInv
  PROVE  applied \in Nat /\ InHand \in Nat /\ request \in Nat
  BY BoundAssumption DEF DevInv, TypeOK, InHand, UsesTcp, TcpInv, TcpTypeOK

\* A step after which the command thread has applied the same and has no other command
\* in hand keeps the order: what is new on its way is above all others.
LEMMA NoNewCommand ==
  ASSUME DevInv, AppliedOrder, OnlyNewNos, applied' = applied, InHand' \in {InHand, 0}
  PROVE  AppliedOrder'
<1>0. applied \in Nat /\ InHand \in Nat /\ request \in Nat
  BY AppliedAreNat
<1>1. ASSUME NEW a \in Nat, Below({a} \ {0}, Ahead), a <= request
      PROVE  \A n \in Ahead' : a # 0 => a < n
  <2> SUFFICES ASSUME NEW n \in Ahead', a # 0
               PROVE  a < n
    OBVIOUS
  <2>1. CASE n \in Ahead
    BY <1>1, <2>1 DEF Below
  <2>2. CASE n \in Nat /\ request < n
    BY <1>0, <1>1, <2>2
  <2> QED
    BY <2>1, <2>2 DEF OnlyNewNos
<1> QED
  BY <1>0, <1>1 DEF AppliedOrder, OnlyNewNos, Below

\* The command thread takes the oldest command: it is below those left, and above the
\* one applied last.
LEMMA TakingKeepsApplied ==
  ASSUME DevInv, OrderInv, AppliedOrder, ApplyTake
  PROVE  AppliedOrder'
<1>0. /\ applied \in Nat /\ request \in Nat /\ TcpTypeOK
      /\ m_TcpRecvMsgQ \in Seq(RecvMsg) /\ apply \in [pc : {"off", "recv", "set", "reconfig",
           "copy", "flag"}, session : 0 .. MaxRequest]
  BY AppliedAreNat DEF DevInv, UsesTcp, TcpInv, TcpTypeOK, TypeOK
<1>1. PICK i \in DOMAIN m_TcpRecvMsgQ :
        /\ TakeMessage("DEV_DATA", i)
        /\ apply' = [pc |-> "set", session |-> m_TcpRecvMsgQ[i].session]
  BY DEF ApplyTake
<1>2. UNCHANGED <<rcv, wire, request, applied>>
  BY <1>1 DEF TakeMessage, server, ApplyTake, deviceVars
<1> DEFINE own == {CommandNo[m_TcpRecvMsgQ[i]]} \ {0}
<1>3. i \in 1 .. Len(m_TcpRecvMsgQ) /\ m_TcpRecvMsgQ \in [1 .. Len(m_TcpRecvMsgQ) -> RecvMsg]
  BY <1>0, LenProperties
<1>4. InHand' = CommandNo[m_TcpRecvMsgQ[i]] /\ InHand' \in Nat
  <2>1. m_TcpRecvMsgQ[i] \in RecvMsg /\ m_TcpRecvMsgQ[i].m_MsgType = "DEV_DATA"
    BY <1>1, <1>3 DEF TakeMessage, IsOldest
  <2>2. CommandNo[m_TcpRecvMsgQ[i]] = m_TcpRecvMsgQ[i].session
    BY <2>1 DEF CommandNo
  <2>3. CommandNo[m_TcpRecvMsgQ[i]] \in Nat
    BY <2>1, NumbersAreNat
  <2> QED
    BY <1>1, <2>2, <2>3 DEF InHand
<1>5. own \subseteq CommandNos
  BY <1>0, <1>1 DEF CommandNos, Nos
<1>6. CommandNos' \subseteq CommandNos /\ Below(own, CommandNos')
  <2>1. Ordered(CommandNo, m_TcpRecvMsgQ) /\ CommandNo \in [RecvMsg -> Nat]
    BY NumbersAreNat DEF OrderInv, PartsOrdered
  <2>2. ASSUME NEW j \in 1 .. i - 1
        PROVE  CommandNo[m_TcpRecvMsgQ[j]] = 0
    <3>1. m_TcpRecvMsgQ[j] \in RecvMsg
      BY <1>0, <1>3, LenProperties
    <3>2. m_TcpRecvMsgQ[j].m_MsgType # "DEV_DATA"
      BY <1>1 DEF TakeMessage, IsOldest
    <3> QED
      BY <3>1, <3>2 DEF CommandNo
  <2>3. m_TcpRecvMsgQ' = MsgQueueWithout(m_TcpRecvMsgQ, i)
    BY <1>1 DEF TakeMessage
  <2>4. Below(own, Nos(CommandNo, MsgQueueWithout(m_TcpRecvMsgQ, i)))
    BY <1>0, <1>3, <2>1, <2>2, OldestIsBelow
  <2>5. Nos(CommandNo, MsgQueueWithout(m_TcpRecvMsgQ, i)) \subseteq Nos(CommandNo, m_TcpRecvMsgQ)
    BY <1>0, <1>3, <2>1, WithoutOrdered
  <2> QED
    BY <2>3, <2>4, <2>5 DEF CommandNos
<1>7. ChunkNos' = ChunkNos /\ WireNos' = WireNos
  BY <1>2 DEF ChunkNos, WireNos
<1>8. own = {InHand'} \ {0}
  BY <1>4
<1> HIDE DEF own
<1>9. Below(own, Ahead')
  BY <1>5, <1>6, <1>7 DEF Ahead, Below, OrderInv, NosInOrder
<1>10. \A n \in own : applied # 0 => applied < n
  BY <1>5 DEF AppliedOrder, Below, Ahead
<1>11. \A n \in own : n <= request
  BY <1>5 DEF OrderInv, NosInOrder
<1>12. Below({applied} \ {0}, Ahead')
  BY <1>6, <1>7 DEF AppliedOrder, Below, Ahead
<1>13. InHand' <= request'
  BY <1>0, <1>2, <1>4, <1>8, <1>11
<1> QED
  BY <1>2, <1>8, <1>9, <1>10, <1>12, <1>13 DEF AppliedOrder

\* The command in hand becomes the one applied last.
LEMMA SettingKeepsApplied ==
  ASSUME DevInv, AppliedOrder, OnlyNewNos, applied' = InHand, InHand' = 0
  PROVE  AppliedOrder'
<1>0. applied \in Nat /\ InHand \in Nat /\ request \in Nat
  BY AppliedAreNat
<1>1. ASSUME NEW n \in Ahead', InHand # 0
      PROVE  InHand < n
  <2>1. CASE n \in Ahead
    BY <1>1, <2>1 DEF AppliedOrder, Below
  <2>2. CASE n \in Nat /\ request < n
    BY <1>0, <2>2 DEF AppliedOrder
  <2> QED
    BY <2>1, <2>2 DEF OnlyNewNos
<1> QED
  BY <1>0, <1>1 DEF AppliedOrder, OnlyNewNos, Below

\* Every step of the program keeps the order.
LEMMA ProgramKeepsOrder ==
  ASSUME DevInv, OrderInv, AppliedOrder, [Next]_vars
  PROVE  OrderInv' /\ AppliedOrder'
<1>1. TcpInv /\ ServerAddrConfigured
  BY DEF DevInv, UsesTcp
<1>2. OrderInv' /\ OnlyNewNos
  BY <1>1, StepUsesTcp, StepKeepsOrder
<1>3. CASE ApplyTake
  BY <1>2, <1>3, TakingKeepsApplied
<1>4. CASE ApplySet \/ (\E a \in Addr : ApplyServerAddr(a))
  <2>1. applied' = InHand /\ apply'.pc # "set"
    BY <1>4 DEF ApplySet, ApplyServerAddr, ApplyOff, InHand, DevInv, TypeOK
  <2> QED
    BY <1>2, <2>1, SettingKeepsApplied DEF InHand
<1>5. CASE applied' = applied /\ (apply' = apply \/ apply'.pc # "set")
  <2>1. InHand' \in {InHand, 0}
    BY <1>5 DEF InHand
  <2> QED
    BY <1>2, <1>5, <2>1, NoNewCommand
<1>6. CASE UNCHANGED vars \/ TaskCreate \/ TaskDestroy \/ TaskJoined \/ ProtProcThread
  BY <1>5, <1>6 DEF vars, devVars, threadVars, deviceVars, TaskCreate, TaskDestroy, TaskJoined,
    ProtProcThread, DevStart, DevStatGetFails, DevSeesUp, DevBeat, DevPollFinds, DevPollFails,
    DevTimesOut, DevRests, DevStops, DevCancelFails, DevDestroy, DevFree, ApplyOff
<1>7. CASE ReConnectBegins \/ ReConnectCopied \/ ReConnectTriggers \/ ApplyEnds
  <2>1. apply'.pc # "set" /\ applied' = applied
    BY <1>7 DEF ReConnectBegins, ReConnectCopied, ReConnectTriggers, ApplyEnds, ApplyOff,
                deviceVars, DevInv, TypeOK
  <2> QED
    BY <1>5, <2>1
<1>8. CASE PostBackThread \/ MonitorStep \/ ReceiverStep \/ SenderStep \/ EngineEnds
             \/ ServerAnswers \/ ServerRequests \/ ServerCloses \/ ServerFallsSilent
  BY <1>5, <1>8 DEF devVars, threadVars, deviceVars, PostBackThread, PostSeesUp, PostSends,
    PostReturns, PostEnds, MonitorStep, ReceiverStep, SenderStep, EngineEnds, ServerAnswers,
    ServerRequests, ServerCloses, ServerFallsSilent
<1> QED
  BY <1>2, <1>3, <1>4, <1>6, <1>7, <1>8 DEF Next, ApplyParamThread

\* The places of a command, the device included, are in the order of their numbers.
LEMMA OrderGivesApplied ==
  ASSUME DevInv, OrderInv, AppliedOrder
  PROVE  CommandsAppliedInOrder
<1> DEFINE d == <<applied, InHand>>
<1>1. CommandsAppliedInOrder <=> InOrder(d \o CommandLine)
  BY DEF CommandsAppliedInOrder, InHand
<1>2. /\ CommandLine \in Seq(Nat) /\ InOrder(CommandLine)
      /\ NosIn(CommandLine) \subseteq Ahead
  BY CommandLineInOrder DEF DevInv, UsesTcp, Ahead
<1>3. d \in Seq(Nat) /\ InOrder(d)
  BY AppliedAreNat DEF AppliedOrder, InOrder
<1>4. Below(NosIn(d), NosIn(CommandLine))
  BY <1>2 DEF AppliedOrder, NosIn, Below
<1> HIDE DEF d
<1>5. InOrder(d \o CommandLine)
  BY <1>2, <1>3, <1>4, JoinInOrder
<1> QED
  BY <1>1, <1>5

\* For every configuration and interleaving, a command is applied at most once and never
\* after a later one, over reconfiguration, reconnection and restart (gs_dev_if.c:209-441).
THEOREM DevIfCommandsAppliedInOrder == Spec => []CommandsAppliedInOrder
<1> DEFINE Inv == DevInv /\ OrderInv /\ AppliedOrder
<1>1. Init => Inv
  <2> SUFFICES ASSUME Init
               PROVE  Inv
    OBVIOUS
  <2>1. DevInv /\ OrderInv
    BY ProgramStarts, StartsInOrder DEF Init
  <2>2. applied = 0 /\ InHand = 0 /\ request = 0
    BY DEF Init, TcpInit, ApplyOff, InHand
  <2> QED
    BY <2>1, <2>2 DEF AppliedOrder, Below
<1>2. Inv /\ [Next]_vars => Inv'
  BY ProgramKeepsInv, ProgramKeepsOrder
<1>3. Inv => CommandsAppliedInOrder
  BY OrderGivesApplied
<1> HIDE DEF Inv
<1> QED
  BY <1>1, <1>2, <1>3, PTL DEF Spec

-----------------------------------------------------------------------------
\* A command in hand has a number.
HandNumbered == apply.pc = "set" => apply.session # 0

ChannelInv == DevInv /\ OrderInv /\ AppliedOrder /\ Numbered /\ HandNumbered

\* Under way are the command in hand and those ahead of it.
LEMMA UnderwayNos ==
  ASSUME DevInv, OrderInv
  PROVE  Underway = ({InHand} \ {0}) \union Ahead
<1> DEFINE h == <<InHand>>
<1>1. CommandLine \in Seq(Nat) /\ NosIn(CommandLine) = Ahead
  BY CommandLineNos DEF DevInv, UsesTcp
<1>2. h \in Seq(Nat) /\ NosIn(h) = {InHand} \ {0}
  BY AppliedAreNat DEF NosIn
<1>3. Underway = NosIn(h \o CommandLine)
  BY DEF Underway, NosIn
<1> HIDE DEF h
<1> QED
  BY <1>1, <1>2, <1>3, JoinNos

\* The command thread takes only what has a number; no other step gives it a command.
LEMMA StepKeepsHand ==
  ASSUME ChannelInv, [Next]_vars
  PROVE  HandNumbered' /\ (InHand' \in {InHand, 0} \/ ApplyTake)
<1>0. TypeOK /\ HandNumbered /\ m_TcpRecvMsgQ \in Seq(NumberedMsg)
  BY DEF ChannelInv, DevInv, Numbered
<1>1. CASE ApplyTake
  <2>1. PICK i \in DOMAIN m_TcpRecvMsgQ :
          /\ m_TcpRecvMsgQ[i].m_MsgType = "DEV_DATA"
          /\ apply' = [pc |-> "set", session |-> m_TcpRecvMsgQ[i].session]
    BY <1>1 DEF ApplyTake, TakeMessage, IsOldest
  <2>2. m_TcpRecvMsgQ[i] \in NumberedMsg
    BY <1>0, LenProperties
  <2>3. m_TcpRecvMsgQ[i].session # 0
    BY <2>1, <2>2 DEF NumberedMsg, RecvMsg, HeartbeatResponse, DevData
  <2> QED
    BY <1>1, <2>1, <2>3 DEF HandNumbered
<1>2. CASE apply' = apply \/ apply'.pc # "set"
  BY <1>0, <1>2 DEF HandNumbered, InHand
<1>3. CASE UNCHANGED vars \/ TaskCreate \/ TaskDestroy \/ TaskJoined \/ ProtProcThread
  BY <1>2, <1>3 DEF vars, devVars, threadVars, TaskCreate, TaskDestroy, TaskJoined,
    ProtProcThread, DevStart, DevStatGetFails, DevSeesUp, DevBeat, DevPollFinds, DevPollFails,
    DevTimesOut, DevRests, DevStops, DevCancelFails, DevDestroy, DevFree, ApplyOff
<1>4. CASE ApplyParamThread /\ ~ ApplyTake
  <2>1. apply'.pc # "set"
    BY <1>0, <1>4 DEF ApplyParamThread, ApplySet, ApplyServerAddr, ReConnectBegins,
      ReConnectCopied, ReConnectTriggers, ApplyEnds, ApplyOff, TypeOK
  <2> QED
    BY <1>2, <2>1
<1>5. CASE PostBackThread \/ MonitorStep \/ ReceiverStep \/ SenderStep \/ EngineEnds
             \/ ServerAnswers \/ ServerRequests \/ ServerCloses \/ ServerFallsSilent
  BY <1>2, <1>5 DEF devVars, threadVars, PostBackThread, PostSeesUp, PostSends,
    PostReturns, PostEnds, MonitorStep, ReceiverStep, SenderStep, EngineEnds, ServerAnswers,
    ServerRequests, ServerCloses, ServerFallsSilent
<1> QED
  BY <1>1, <1>3, <1>4, <1>5 DEF Next

\* The command the command thread takes was ahead of it.
LEMMA TakenWasAhead ==
  ASSUME TcpInv, ApplyTake, InHand' # 0
  PROVE  InHand' \in Ahead
<1>0. m_TcpRecvMsgQ \in Seq(RecvMsg)
  BY DEF TcpInv, TcpTypeOK
<1>1. PICK i \in DOMAIN m_TcpRecvMsgQ :
        /\ m_TcpRecvMsgQ[i].m_MsgType = "DEV_DATA"
        /\ apply' = [pc |-> "set", session |-> m_TcpRecvMsgQ[i].session]
  BY DEF ApplyTake, TakeMessage, IsOldest
<1>2. m_TcpRecvMsgQ[i] \in RecvMsg
  BY <1>0, LenProperties
<1>3. InHand' = CommandNo[m_TcpRecvMsgQ[i]]
  BY <1>1, <1>2 DEF InHand, CommandNo
<1> QED
  BY <1>3 DEF Ahead, CommandNos, Nos

\* Only a request of the server gives a command.
LEMMA OthersGiveNone ==
  ASSUME [Next]_vars, ~ ServerRequests
  PROVE  request' = request
<1> USE DEF server, queues, tcpVars
<1>1. CASE UNCHANGED vars \/ TaskCreate \/ TaskDestroy \/ TaskJoined
  BY <1>1 DEF vars, TaskCreate, TaskDestroy, TaskJoined
<1>2. CASE ProtProcThread
  BY <1>2 DEF ProtProcThread, DevStart, DevStatGetFails, DevSeesUp, DevBeat, DevPollFinds,
    DevPollFails, DevTimesOut, DevRests, DevStops, DevCancelFails, DevDestroy, DevFree,
    TcpCreate, PutMessage, TakeMessage, SetConnStatFalse, ProcessExits, TcpCancel, TcpFree
<1>3. CASE ApplyParamThread \/ PostBackThread
  BY <1>3 DEF ApplyParamThread, ApplyTake, ApplySet, ApplyServerAddr, ReConnectBegins,
    ReConnectCopied, ReConnectTriggers, ApplyEnds, TakeMessage, ReconfigBegin, ReconfigEnd,
    SetConnStatFalse, PostBackThread, PostSeesUp, PostSends, PostReturns, PostEnds, PutMessage
<1>4. CASE MonitorStep \/ EngineEnds
  BY <1>4 DEF MonitorStep, Monitor, MonRenew, MonPort, MonIp, MonConnectOk, MonConnectFail,
    MonPublish, EngineEnds, ThreadEnds
<1>5. CASE ReceiverStep
  BY <1>5 DEF ReceiverStep, Receiver, RcvCheck, RcvTimeout, RcvRead, RcvFail, RcvClear,
    RcvRefuse, RcvQuit, RcvRespond, RcvDeliver, RcvReply, ProcessExits
<1>6. CASE SenderStep
  BY <1>6 DEF SenderStep, SndCheck, SndTake, SndDeliver, SndLose, SndFail, SndClear
<1>7. CASE ServerAnswers \/ ServerCloses \/ ServerFallsSilent
  BY <1>7 DEF ServerAnswers, ServerSends, ServerCloses, PeerCloses, ServerFallsSilent
<1> QED
  BY <1>1, <1>2, <1>3, <1>4, <1>5, <1>6, <1>7 DEF Next

\* Only the command thread applies one, and it is the one in hand.
LEMMA ApplyingStep ==
  ASSUME TypeOK, [Next]_vars, applied' # applied
  PROVE  apply.pc = "set" /\ applied' = InHand /\ InHand' = 0 /\ UNCHANGED tcpVars
<1>1. ApplySet \/ (\E a \in Addr : ApplyServerAddr(a))
  BY DEF vars, devVars, deviceVars, Next, TaskCreate, TaskDestroy, TaskJoined,
    ProtProcThread, DevStart, DevStatGetFails, DevSeesUp, DevBeat, DevPollFinds, DevPollFails,
    DevTimesOut, DevRests, DevStops, DevCancelFails, DevDestroy, DevFree,
    ApplyParamThread, ApplyTake, ReConnectBegins, ReConnectCopied, ReConnectTriggers, ApplyEnds,
    PostBackThread, PostSeesUp, PostSends, PostReturns, PostEnds, MonitorStep, ReceiverStep,
    SenderStep, EngineEnds, ServerAnswers, ServerRequests, ServerCloses, ServerFallsSilent
<1> QED
  BY <1>1 DEF ApplySet, ApplyServerAddr, ApplyOff, InHand, TypeOK

\* Every step gives a command, applies the first of those under way, loses some, or is
\* nothing to the channel.
LEMMA StepUsesChannel ==
  ASSUME ChannelInv, ChannelInv', [Next]_vars
  PROVE  [Commands!Next]_(Commands!channel)
<1>0. /\ TcpInv /\ DevInv /\ OrderInv /\ AppliedOrder /\ HandNumbered /\ TypeOK
      /\ DevInv' /\ OrderInv'
      /\ applied \in Nat /\ InHand \in Nat /\ request \in Nat
  BY AppliedAreNat DEF ChannelInv, DevInv, UsesTcp
<1>1. Underway = ({InHand} \ {0}) \union Ahead
  BY <1>0, UnderwayNos
<1>2. (DevInv /\ OrderInv => Underway = ({InHand} \ {0}) \union Ahead)'
  BY UnderwayNos, PTL
<1>3. Underway' = ({InHand'} \ {0}) \union Ahead'
  BY <1>0, <1>2
<1>4. OnlyNewNos /\ \A n \in Ahead' : n <= request'
  BY <1>0, StepUsesTcp, StepKeepsOrder DEF DevInv, UsesTcp, OrderInv, NosInOrder, Ahead
<1>5. CASE ServerRequests
  <2>1. request' = request + 1 /\ Ahead' = Ahead \union {request'} /\ request < MaxRequest
    BY <1>0, <1>5, RequestIsAhead DEF ServerRequests, ServerSends
  <2>2. InHand' = InHand /\ applied' = applied
    BY <1>5 DEF ServerRequests, devVars, threadVars, deviceVars, InHand
  <2>3. Commands!Give
    BY <1>1, <1>3, <2>1, <2>2 DEF Commands!Give
  <2> QED
    BY <2>3 DEF Commands!Next
<1>6. CASE applied' # applied
  <2>1. apply.pc = "set" /\ applied' = InHand /\ InHand' = 0 /\ UNCHANGED tcpVars
    BY <1>0, <1>6, ApplyingStep
  <2>2. Ahead' = Ahead /\ request' = request
    BY <2>1 DEF tcpVars, queues, server, Ahead, CommandNos, ChunkNos, WireNos
  <2>3. InHand # 0
    BY <1>0, <2>1 DEF HandNumbered, InHand
  <2>4. \A n \in Ahead : InHand < n
    BY <2>3, <1>0 DEF AppliedOrder, Below
  <2>5. InHand > applied
    BY <1>0, <2>3 DEF AppliedOrder
  <2>6. Ahead \subseteq Nat
    BY <1>0, NosAreNat DEF TcpInv, Ahead
  <2>7. Underway' = Underway \ {InHand}
    BY <1>0, <1>1, <1>3, <2>1, <2>2, <2>3, <2>4, <2>6
  <2>8. InHand \in Underway /\ \A n \in Underway : InHand <= n
    BY <1>0, <1>1, <2>3, <2>4, <2>6
  <2>9. Commands!Apply
    BY <2>1, <2>2, <2>5, <2>7, <2>8 DEF Commands!Apply
  <2> QED
    BY <2>9 DEF Commands!Next
<1>7. CASE ~ ServerRequests /\ applied' = applied
  <2>1. request' = request
    BY <1>7, OthersGiveNone
  <2>2. Ahead' \subseteq Ahead
    BY <1>0, <1>4, <2>1 DEF OnlyNewNos
  <2>3. ({InHand'} \ {0}) \subseteq ({InHand} \ {0}) \union Ahead
    <3>1. CASE InHand' \in {InHand, 0}
      BY <3>1
    <3>2. CASE ApplyTake
      BY <1>0, <3>2, TakenWasAhead
    <3> QED
      BY <3>1, <3>2, StepKeepsHand
  <2>4. Underway' \subseteq Underway
    BY <1>1, <1>3, <2>2, <2>3
  <2>5. Commands!Lose
    BY <1>7, <2>1, <2>4 DEF Commands!Lose
  <2> QED
    BY <2>5 DEF Commands!Next
<1> QED
  BY <1>5, <1>6, <1>7

\* For every configuration and interleaving the terminal applies the server's commands as
\* CommandChannel promises: in order, at most once, none that was lost and none that was
\* not given, over reconnection and restart (gs_tcp.c:215-353, gs_dev_if.c:209-441).
THEOREM DevIfImplementsCommandChannel == Spec => ImplementsCommandChannel
<1>1. Init => ChannelInv
  <2> SUFFICES ASSUME Init
               PROVE  ChannelInv
    OBVIOUS
  <2>1. DevInv /\ OrderInv /\ Numbered
    BY ProgramStarts, StartsInOrder, StartsNumbered DEF Init
  <2>2. applied = 0 /\ InHand = 0 /\ request = 0 /\ HandNumbered
    BY DEF Init, TcpInit, ApplyOff, InHand, HandNumbered
  <2> QED
    BY <2>1, <2>2 DEF AppliedOrder, Below, ChannelInv
<1>2. ChannelInv /\ [Next]_vars => ChannelInv'
  <2>1. ASSUME ChannelInv, [Next]_vars
        PROVE  Numbered'
    BY <2>1, StepUsesTcp, StepKeepsNumbered DEF ChannelInv, DevInv, UsesTcp
  <2> QED
    BY <2>1, ProgramKeepsInv, ProgramKeepsOrder, StepKeepsHand DEF ChannelInv
<1>3. Init => Commands!Init
  <2> SUFFICES ASSUME Init
               PROVE  Commands!Init
    OBVIOUS
  <2>1. DevInv /\ OrderInv
    BY ProgramStarts, StartsInOrder DEF Init
  <2>2. applied = 0 /\ InHand = 0 /\ request = 0
    BY DEF Init, TcpInit, ApplyOff, InHand
  <2>3. Ahead = {}
    BY EmptyOrdered DEF Init, TcpInit, RcvStart, Ahead, CommandNos, ChunkNos, WireNos
  <2> QED
    BY <2>1, <2>2, <2>3, UnderwayNos DEF Commands!Init
<1>4. ChannelInv /\ ChannelInv' /\ [Next]_vars => [Commands!Next]_(Commands!channel)
  BY StepUsesChannel
<1> QED
  BY <1>1, <1>2, <1>3, <1>4, PTL DEF Spec, ImplementsCommandChannel, Commands!Spec
-----------------------------------------------------------------------------
(* What is proved of the engine's steps holds of the program, which takes no others. *)

LEMMA ProgramUsesEngine == Spec => [](TcpInv /\ OrderInv) /\ [][TcpStep]_tcpVars
<1>1. Init => UsesTcp /\ OrderInv
  BY StartsInInv, StartsInOrder DEF Init, UsesTcp, ServerAddrConfigured
<1>2. UsesTcp /\ OrderInv /\ [Next]_vars => UsesTcp' /\ OrderInv' /\ [TcpStep]_tcpVars
  BY StepUsesTcp, StepKeepsInv, StepKeepsOrder DEF UsesTcp
<1>3. UsesTcp => TcpInv
  BY DEF UsesTcp
<1> QED
  BY <1>1, <1>2, <1>3, PTL DEF Spec

\* In the composed program too the socket is replaced and dialled only while the flag is
\* down, restarts of the task included (gs_tcp.c:36-108).
THEOREM DevIfDialOnlyWhileDown == Spec => []DialOnlyWhileDown
<1>1. TcpInv => DialOnlyWhileDown
  BY DEF TcpInv
<1> QED
  BY <1>1, ProgramUsesEngine, PTL

\* For every configuration and interleaving of the task and its engine, SUCCESS responses
\* keep the order of the server's requests and none is doubled (gs_tcp.c:215-270).
THEOREM DevIfResponsesInOrder == Spec => []ResponsesInOrder
<1>1. TcpInv /\ OrderInv => ResponsesInOrder
  BY OrderGivesResponses
<1> QED
  BY <1>1, ProgramUsesEngine, PTL
=============================================================================
