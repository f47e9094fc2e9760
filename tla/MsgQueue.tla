------------------------------- MODULE MsgQueue ------------------------------
(***************************************************************************)
(* The System V message queues of gs_comm.c (GS_COMM_MsgQueue...): typed   *)
(* messages in order of arrival, with a limit on what the queue holds.     *)
(* The senders never block: a message that does not fit is refused.  A     *)
(* receiver asks for the oldest message of one type, or of any type.       *)
(***************************************************************************)
EXTENDS Integers, Sequences

CONSTANT
  MaxQueueSize  \* how many messages fit (msg_qbytes)

ASSUME MaxQueueSizeAssumption == MaxQueueSize \in Nat \ {0}

\* msgsnd with IPC_NOWAIT fails when the queue is full
MsgQueueHasRoom(q) == Len(q) < MaxQueueSize

MsgQueueSendUnlimited(q, m) == Append(q, m)

\* GS_COMM_MsgQueueSend(q, m, GS_FALSE): the queue afterwards
MsgQueueSend(q, m) == IF MsgQueueHasRoom(q) THEN Append(q, m) ELSE q

\* GS_COMM_MsgQueueRecv(q, type) takes the message in place i
IsOldest(q, type, i) ==
  /\ i \in DOMAIN q
  /\ q[i].m_MsgType = type
  /\ \A j \in 1 .. i - 1 : q[j].m_MsgType # type

\* GS_COMM_MsgQueueRecv would find a message of this type
MsgQueueHas(q, type) == \E i \in DOMAIN q : q[i].m_MsgType = type

\* the queue after the message in place i was taken
MsgQueueWithout(q, i) == SubSeq(q, 1, i - 1) \o SubSeq(q, i + 1, Len(q))
=============================================================================
