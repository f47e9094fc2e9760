-------------------------------- MODULE DevIf --------------------------------
(***************************************************************************)
(* The protocol task of the emergency-broadcast terminal                   *)
(* (prot_proc/gs_dev_if.c) over the TCP engine of GsTcp.  The protocol     *)
(* thread starts the engine, sends heartbeats while the connection is up   *)
(* and marks it down when one is not answered in time; one thread applies  *)
(* the server's commands, one sends the device's requests.  A command may  *)
(* give the device another server, which then calls GS_EM_RemoteReConnect. *)
(* GS_EM_ProtProcTaskDestroy stops everything in order.                    *)
(*                                                                         *)
(* The session number of a heartbeat is left out: no code compares it.     *)
(***************************************************************************)
EXTENDS GsTcp

CONSTANTS
  DEV_HEARTBEAT_TIMEOUT,  \* how many times, a second apart, an answer is looked for
  MaxOwed,                \* bound: heartbeats the server remembers to answer
  DeviceAsks,             \* whether the device ever has a request for the server
  MayFallSilent           \* whether the server may stop answering

ASSUME TimeoutAssumption == DEV_HEARTBEAT_TIMEOUT \in Nat \ {0}
ASSUME OwedAssumption == MaxOwed \in Nat

VARIABLES
  task,        \* the caller of the module: out, in (created), joining
  m_IsRun,     \* the protocol thread is to go on
  dev,         \* the protocol thread: pc, lTimeOut, the server address it read, its answer
  apply,       \* the command thread: pc and the session of the command it took
  post,        \* pc of the post-back thread
  serverAddr,  \* the server address the device holds (GS_EM_DevStatGet)
  registered,  \* the address in register_info.cfg
  applied,     \* the session of the last command applied
  owed,        \* heartbeats that reached the server on this connection, unanswered
  mute         \* the server has stopped answering for ever

taskVars == <<task, m_IsRun>>
threadVars == <<dev, apply, post>>
deviceVars == <<serverAddr, registered, applied>>
peerVars == <<owed, mute>>
devVars == <<taskVars, threadVars, deviceVars, peerVars>>
vars == <<tcpVars, devVars>>

Heartbeat(first) == [m_MsgTag |-> "heartbeat", m_FirstRegister |-> first]
PostBack == [m_MsgTag |-> "postback"]
DevClientMsg == {Heartbeat(TRUE), Heartbeat(FALSE), PostBack}
ASSUME ClientMsgAssumption == DevClientMsg \subseteq ClientMsg

DevOff == [pc |-> "off", lTimeOut |-> 0, addr |-> NoAddr, got |-> FALSE]
ApplyOff == [pc |-> "off", session |-> 0]

Init ==
  /\ TcpInit
  /\ task = "out" /\ m_IsRun = FALSE
  /\ dev = DevOff /\ apply = ApplyOff /\ post = "off"
  /\ serverAddr \in Addr
  /\ registered = NoAddr
  /\ applied = 0 /\ owed = 0 /\ mute = FALSE

-----------------------------------------------------------------------------
(* GS_EM_ProtProcTaskCreate and GS_EM_ProtProcTaskDestroy *)

TaskCreate ==
  /\ handle # "exited"
  /\ task = "out"
  /\ task' = "in" /\ m_IsRun' = TRUE
  /\ dev' = [DevOff EXCEPT !.pc = "start"]
  /\ UNCHANGED <<tcpVars, apply, post, deviceVars, peerVars>>

TaskDestroy ==
  /\ handle # "exited"
  /\ task = "in"
  /\ task' = "joining" /\ m_IsRun' = FALSE
  /\ UNCHANGED <<tcpVars, threadVars, deviceVars, peerVars>>

\* the protocol thread is joined, the handle freed
TaskJoined ==
  /\ task = "joining" /\ dev.pc = "ended"
  /\ task' = "out" /\ dev' = DevOff
  /\ UNCHANGED <<tcpVars, m_IsRun, apply, post, deviceVars, peerVars>>

-----------------------------------------------------------------------------
(* GS_ProtProcThread *)

\* make the queues, the TCP handle and the two worker threads
DevStart ==
  /\ dev.pc = "start"
  /\ TcpCreate(serverAddr)
  /\ dev' = [dev EXCEPT !.pc = "loop"]
  /\ apply' = [ApplyOff EXCEPT !.pc = "recv"]
  /\ post' = "wait"
  /\ owed' = 0
  /\ UNCHANGED <<taskVars, deviceVars, mute>>

\* GS_EM_DevStatGet fails: the thread is over before it began
DevStatGetFails ==
  /\ dev.pc = "start" /\ handle # "exited"
  /\ dev' = [dev EXCEPT !.pc = "ended"]
  /\ UNCHANGED <<tcpVars, taskVars, apply, post, deviceVars, peerVars>>

DevSeesUpAnyway ==
  /\ dev.pc = "loop" /\ handle = "live"
  /\ m_IsTcpConnectOk
  /\ dev' = [dev EXCEPT !.pc = "beat"]
  /\ UNCHANGED <<tcpVars, taskVars, apply, post, deviceVars, peerVars>>

\* while (m_IsRun): the connection is up, a heartbeat is due
DevSeesUp ==
  /\ dev.pc = "loop" /\ handle = "live"
  /\ m_IsRun /\ m_IsTcpConnectOk
  /\ dev' = [dev EXCEPT !.pc = "beat"]
  /\ UNCHANGED <<tcpVars, taskVars, apply, post, deviceVars, peerVars>>

IsFirstRegister(addr) == registered # addr

\* queue a heartbeat; when the queue is full sleep and start over
DevBeat ==
  /\ dev.pc = "beat"
  /\ PutMessage(Heartbeat(IsFirstRegister(serverAddr)))
  /\ dev' = IF MsgQueueHasRoom(m_TcpSndMsgQ)
            THEN [pc |-> "poll", lTimeOut |-> DEV_HEARTBEAT_TIMEOUT, addr |-> serverAddr,
                  got |-> FALSE]
            ELSE [dev EXCEPT !.pc = "loop"]
  /\ UNCHANGED <<taskVars, apply, post, deviceVars, peerVars>>

\* while (lTimeOut --): an answer is there; note that the server is registered
DevPollFinds ==
  /\ dev.pc = "poll" /\ dev.lTimeOut # 0
  /\ \E i \in DOMAIN m_TcpRecvMsgQ : TakeMessage("HEARTBEAT_RESPONSE", i)
  /\ registered' = IF IsFirstRegister(dev.addr) THEN dev.addr ELSE registered
  /\ dev' = [dev EXCEPT !.pc = "decide", !.lTimeOut = @ - 1, !.got = TRUE]
  /\ UNCHANGED <<taskVars, apply, post, serverAddr, applied, peerVars>>

DevPollForEver ==
  /\ dev.pc = "poll" /\ handle = "live"
  /\ dev.lTimeOut # 0 /\ ~MsgQueueHas(m_TcpRecvMsgQ, "HEARTBEAT_RESPONSE")
  /\ dev' = dev
  /\ UNCHANGED <<tcpVars, taskVars, apply, post, deviceVars, peerVars>>

DevPollCountsOn ==
  /\ dev.pc = "poll" /\ handle = "live"
  /\ ~MsgQueueHas(m_TcpRecvMsgQ, "HEARTBEAT_RESPONSE")
  /\ dev' = [dev EXCEPT !.lTimeOut = @ - 1]
  /\ UNCHANGED <<tcpVars, taskVars, apply, post, deviceVars, peerVars>>

\* no answer yet: sleep a second, or leave the loop when the count is used up
DevPollFails ==
  /\ dev.pc = "poll" /\ handle = "live"
  /\ dev.lTimeOut # 0 => ~MsgQueueHas(m_TcpRecvMsgQ, "HEARTBEAT_RESPONSE")
  /\ dev' = [dev EXCEPT !.pc = IF dev.lTimeOut = 0 THEN "decide" ELSE "poll",
                        !.lTimeOut = @ - 1]
  /\ UNCHANGED <<tcpVars, taskVars, apply, post, deviceVars, peerVars>>

DevTimesOut ==
  /\ dev.pc = "decide" /\ dev.lTimeOut <= 0
  /\ SetConnStatFalse
  /\ dev' = [DevOff EXCEPT !.pc = "loop"]
  /\ UNCHANGED <<taskVars, apply, post, deviceVars, peerVars>>

DevRests ==
  /\ dev.pc = "decide" /\ dev.lTimeOut > 0 /\ handle = "live"
  /\ dev' = [DevOff EXCEPT !.pc = "loop"]
  /\ UNCHANGED <<tcpVars, taskVars, apply, post, deviceVars, peerVars>>

\* told to stop: cancel the two worker threads
DevStops ==
  /\ dev.pc = "loop" /\ handle = "live"
  /\ ~m_IsRun
  /\ dev' = [DevOff EXCEPT !.pc = "join"]
  /\ UNCHANGED <<tcpVars, taskVars, apply, post, deviceVars, peerVars>>

\* pthread_cancel of a thread that has returned: ESRCH where the C library says so
DevCancelFails ==
  /\ dev.pc = "loop" /\ handle = "live"
  /\ ~m_IsRun /\ post = "ended"
  /\ ProcessExits
  /\ UNCHANGED devVars

DevDestroyWithoutJoin ==
  /\ dev.pc = "join"
  /\ TcpCancel
  /\ dev' = [dev EXCEPT !.pc = "free"]
  /\ UNCHANGED <<taskVars, apply, post, deviceVars, peerVars>>

\* both are joined: GS_TCP_Destroy cancels the threads of the engine
DevDestroy ==
  /\ dev.pc = "join"
  /\ apply.pc = "off" /\ post \in {"off", "ended"}
  /\ TcpCancel
  /\ dev' = [dev EXCEPT !.pc = "free"]
  /\ post' = "off"
  /\ UNCHANGED <<taskVars, apply, deviceVars, peerVars>>

\* GS_TCP_Destroy frees the handle, then the queues are destroyed
DevFree ==
  /\ dev.pc = "free"
  /\ TcpFree
  /\ dev' = [dev EXCEPT !.pc = "ended"]
  /\ owed' = 0
  /\ UNCHANGED <<taskVars, apply, post, deviceVars, mute>>

ProtProcThread ==
  \/ DevStart \/ DevStatGetFails \/ DevSeesUp \/ DevBeat \/ DevPollFinds \/ DevPollFails
  \/ DevTimesOut \/ DevRests \/ DevStops \/ DevCancelFails \/ DevDestroy \/ DevFree

-----------------------------------------------------------------------------
(* GS_ApplyParamThread and GS_EM_RemoteReConnect *)

ApplyTakeKept ==
  /\ apply.pc = "recv" /\ handle = "live"
  /\ \E i \in DOMAIN m_TcpRecvMsgQ :
       /\ IsOldest(m_TcpRecvMsgQ, "DEV_DATA", i)
       /\ apply' = [pc |-> "set", session |-> m_TcpRecvMsgQ[i].session]
  /\ UNCHANGED <<tcpVars, taskVars, dev, post, deviceVars, peerVars>>

\* the oldest command is taken
ApplyTake ==
  /\ apply.pc = "recv"
  /\ \E i \in DOMAIN m_TcpRecvMsgQ :
       /\ TakeMessage("DEV_DATA", i)
       /\ apply' = [pc |-> "set", session |-> m_TcpRecvMsgQ[i].session]
  /\ UNCHANGED <<taskVars, dev, post, deviceVars, peerVars>>

\* m_GS_EM_DevParamSet and the other calls of a command that leaves the server address alone
ApplySet ==
  /\ apply.pc = "set" /\ handle = "live"
  /\ applied' = apply.session
  /\ apply' = [ApplyOff EXCEPT !.pc = "recv"]
  /\ UNCHANGED <<tcpVars, taskVars, dev, post, serverAddr, registered, peerVars>>

\* a command that gives the device another server: it calls GS_EM_RemoteReConnect
ApplyServerAddr(addr) ==
  /\ apply.pc = "set" /\ handle = "live"
  /\ addr # serverAddr
  /\ serverAddr' = addr
  /\ applied' = apply.session
  /\ apply' = [apply EXCEPT !.pc = "reconfig"]
  /\ UNCHANGED <<tcpVars, taskVars, dev, post, registered, peerVars>>

ReConnectBegins ==
  /\ apply.pc = "reconfig"
  /\ ReconfigBegin(serverAddr)
  /\ apply' = [apply EXCEPT !.pc = "copy"]
  /\ UNCHANGED <<taskVars, dev, post, deviceVars, peerVars>>

ReConnectCopied ==
  /\ apply.pc = "copy"
  /\ ReconfigEnd
  /\ apply' = [apply EXCEPT !.pc = "flag"]
  /\ UNCHANGED <<taskVars, dev, post, deviceVars, peerVars>>

\* GS_TCP_SetConnStat(GS_FALSE) is to trigger the reconnection
ReConnectTriggers ==
  /\ apply.pc = "flag"
  /\ SetConnStatFalse
  /\ apply' = [ApplyOff EXCEPT !.pc = "recv"]
  /\ UNCHANGED <<taskVars, dev, post, deviceVars, peerVars>>

\* cancelled at GS_COMM_MsgQueueRecv or pthread_testcancel
ApplyEnds ==
  /\ dev.pc = "join" /\ apply.pc = "recv" /\ handle = "live"
  /\ apply' = ApplyOff
  /\ UNCHANGED <<tcpVars, taskVars, dev, post, deviceVars, peerVars>>

ApplyParamThread ==
  \/ ApplyTake \/ ApplySet \/ (\E a \in Addr : ApplyServerAddr(a))
  \/ ReConnectBegins \/ ReConnectCopied \/ ReConnectTriggers \/ ApplyEnds

-----------------------------------------------------------------------------
(* GS_PostBackThread *)

\* the device has a request for the server and the connection is up
PostSeesUp ==
  /\ DeviceAsks
  /\ post = "wait" /\ handle = "live"
  /\ m_IsTcpConnectOk
  /\ post' = "send"
  /\ UNCHANGED <<tcpVars, taskVars, dev, apply, deviceVars, peerVars>>

PostSends ==
  /\ post = "send"
  /\ PutMessage(PostBack)
  /\ post' = "wait"
  /\ UNCHANGED <<taskVars, dev, apply, deviceVars, peerVars>>

\* GS_EM_DevStatGet fails: the thread returns
PostReturns ==
  /\ post = "send" /\ handle = "live"
  /\ post' = "ended"
  /\ UNCHANGED <<tcpVars, taskVars, dev, apply, deviceVars, peerVars>>

PostEnds ==
  /\ dev.pc = "join" /\ post \in {"wait", "send"} /\ handle = "live"
  /\ post' = "off"
  /\ UNCHANGED <<tcpVars, taskVars, dev, apply, deviceVars, peerVars>>

PostBackThread == PostSeesUp \/ PostSends \/ PostReturns \/ PostEnds

-----------------------------------------------------------------------------
(* The threads of the TCP engine, and the server *)

MonitorStep ==
  /\ Monitor
  /\ owed' = IF sock'.stat = "new" THEN 0 ELSE owed
  /\ UNCHANGED <<taskVars, threadVars, deviceVars, mute>>

ReceiverStep == Receiver /\ UNCHANGED devVars

\* a heartbeat that reaches the server is remembered until it is answered
SenderStep ==
  /\ \/ /\ SndDeliver
        /\ snd.msg.m_MsgTag = "heartbeat" /\ owed < MaxOwed
        /\ owed' = owed + 1
     \/ /\ SndDeliver
        /\ snd.msg.m_MsgTag = "heartbeat" => owed = MaxOwed
        /\ UNCHANGED owed
     \/ /\ SndCheck \/ SndTake \/ SndLose \/ SndFail \/ SndClear
        /\ UNCHANGED owed
  /\ UNCHANGED <<taskVars, threadVars, deviceVars, mute>>

EngineEnds == (\E t \in Threads : ThreadEnds(t)) /\ UNCHANGED devVars

ServerAnswers ==
  /\ owed > 0 /\ ~mute
  /\ ServerSends("reply")
  /\ owed' = owed - 1
  /\ UNCHANGED <<taskVars, threadVars, deviceVars, mute>>

ServerRequests == ServerSends("request") /\ UNCHANGED devVars

ServerCloses == PeerCloses /\ UNCHANGED devVars

ServerFallsSilent ==
  /\ MayFallSilent
  /\ mute' = TRUE
  /\ UNCHANGED <<tcpVars, taskVars, threadVars, deviceVars, owed>>

-----------------------------------------------------------------------------
Next ==
  \/ TaskCreate \/ TaskDestroy \/ TaskJoined
  \/ ProtProcThread \/ ApplyParamThread \/ PostBackThread
  \/ MonitorStep \/ ReceiverStep \/ SenderStep \/ EngineEnds
  \/ ServerAnswers \/ ServerRequests \/ ServerCloses \/ ServerFallsSilent

Spec == Init /\ [][Next]_vars

\* The operating system schedules every thread; a cancelled thread comes to a
\* blocking call; the device's callbacks return; a server dialled for ever
\* accepts some day.  The device need not ask for anything and the server need
\* neither answer nor close.
Fairness ==
  /\ WF_vars(TaskJoined)
  /\ WF_vars(ProtProcThread) /\ WF_vars(ApplyParamThread)
  /\ WF_vars(PostEnds) /\ WF_vars(EngineEnds)
  /\ WF_vars(MonitorStep) /\ SF_vars(MonConnectOk /\ MonitorStep)
  /\ WF_vars(ReceiverStep)

FairSpec == Spec /\ Fairness

\* what the server reads lets select() in the send thread return
ReadingServerSpec == FairSpec /\ WF_vars(SenderStep)

-----------------------------------------------------------------------------
(* Properties *)

\* the command in the hand of the command thread, not yet applied
InHand == IF apply.pc = "set" THEN apply.session ELSE 0

\* the numbers of the commands between the server and the device
Underway ==
  LET line == <<InHand>> \o CommandLine IN {line[i] : i \in DOMAIN line} \ {0}

\* Every variable of the task keeps its type (GS_EM_DEV_IF_S and its threads).
TypeOK ==
  /\ task \in {"out", "in", "joining"} /\ m_IsRun \in BOOLEAN
  /\ dev \in [pc : {"off", "start", "loop", "beat", "poll", "decide", "join", "free", "ended"},
              lTimeOut : -1 .. DEV_HEARTBEAT_TIMEOUT, addr : NetAddr, got : BOOLEAN]
  /\ apply \in [pc : {"off", "recv", "set", "reconfig", "copy", "flag"}, session : 0 .. MaxRequest]
  /\ post \in {"off", "wait", "send", "ended"}
  /\ serverAddr \in Addr /\ registered \in Addr \union {NoAddr}
  /\ applied \in 0 .. MaxRequest /\ owed \in 0 .. MaxOwed
  /\ mute \in BOOLEAN

\* A command is applied at most once and never after a later one: the one applied
\* last, the one in hand, those queued, those in the receive thread, those on the
\* wire carry increasing session numbers.
CommandsAppliedInOrder == InOrder(<<applied, InHand>> \o CommandLine)

\* What is promised of commands: whatever becomes of the connection, the engine and
\* the task, each command is applied at most once, in order, as the server gave it,
\* and one that was lost on the way never comes back.
Commands == INSTANCE CommandChannel WITH given <- request, underway <- Underway
ImplementsCommandChannel == Commands!Spec

\* No thread outlives what it uses: the worker threads use the TCP handle and the
\* queues, the engine's threads the handle, all of them the task's handle.
NoThreadOutlivesItsHandle ==
  handle # "exited" =>
    /\ apply.pc # "off" \/ post \in {"wait", "send"} => handle = "live"
    /\ alive # {} => handle # "none"
    /\ handle # "none" => task # "out"

\* GS_EM_ProtProcTaskDestroy returns, whatever its threads were doing.
TaskDestroyReturns == task = "joining" ~> (task = "out" \/ handle = "exited")

\* A server that falls silent without closing is noticed by the heartbeat: the
\* connection is marked down, even if answers of earlier heartbeats are still queued.
SilentServerNoticed ==
  (mute /\ handle = "live" /\ m_IsTcpConnectOk) ~> (~m_IsTcpConnectOk \/ handle # "live")

\* The comment of line 542 calls what follows a heartbeat timeout: a heartbeat
\* whose answer was taken does not cost the connection.
AnsweredHeartbeatKeepsConnection ==
  [][dev.pc = "decide" /\ dev.got /\ dev'.pc = "loop" /\ m_IsTcpConnectOk
       => m_IsTcpConnectOk']_vars
=============================================================================
