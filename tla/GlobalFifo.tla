----------------------------- MODULE GlobalFifo -----------------------------
(***************************************************************************)
(* The character device globalfifo: processes read, write, poll and clear  *)
(* one bounded byte queue.  A process that cannot go on puts itself on a   *)
(* wait queue, drops the mutex and sleeps; an operation that changes the   *)
(* queue wakes everyone on the wait queue of the other side.               *)
(*                                                                         *)
(* What happens under the mutex is one step.  The task state is set before *)
(* the mutex is dropped, so a process counts as asleep from that moment: a *)
(* wake-up between mutex_unlock and schedule is not lost.  Wake-ups are    *)
(* not exclusive.  The kernel's primitives are modelled from their use, *)
(* and its memcpy copies forward, so that a read shifts the rest of mem.   *)
(***************************************************************************)
EXTENDS Integers, Sequences

CONSTANTS
  Process,          \* the processes that use the device
  Byte,             \* the values of a byte
  GLOBALFIFO_SIZE,  \* the size of mem
  Input,            \* the byte strings processes write
  Request           \* the lengths processes ask to read

ASSUME SizeAssumption == GLOBALFIFO_SIZE \in Nat \ {0}
ASSUME InputAssumption == Input \subseteq Seq(Byte) \ {<<>>}
ASSUME RequestAssumption == Request \subseteq Nat \ {0}

VARIABLES
  mem,       \* the current_len bytes stored
  call,      \* the call each process is in: what it does and with which argument
  asleep,    \* the processes in TASK_INTERRUPTIBLE
  r_wait,    \* the processes on the readers' wait queue
  w_wait,    \* the processes on the writers' wait queue
  signalled, \* the processes with a signal pending
  ret,       \* what the last completed transfer handed back
  cleared    \* FIFO_CLEAR made room since the writers were last woken

vars == <<mem, call, asleep, r_wait, w_wait, signalled, ret, cleared>>

Idle == [op |-> "none"]
Read(n) == [op |-> "read", count |-> n]
Write(data) == [op |-> "write", data |-> data]
Poll(side) == [op |-> "poll", side |-> side]

Calls == {Read(n) : n \in Request} \union {Write(data) : data \in Input}
         \union {Poll(side) : side \in {"in", "out"}}

Init ==
  /\ mem = <<>>
  /\ call = [p \in Process |-> Idle]
  /\ asleep = {} /\ r_wait = {} /\ w_wait = {} /\ signalled = {}
  /\ ret = [len |-> 0, bytes |-> <<>>]
  /\ cleared = FALSE

AtMost(a, b) == IF a < b THEN a ELSE b
Room == GLOBALFIFO_SIZE - Len(mem)

Enter(p, c) ==
  /\ call[p] = Idle
  /\ call' = [call EXCEPT ![p] = c]
  /\ UNCHANGED <<mem, asleep, r_wait, w_wait, signalled, ret, cleared>>

\* the process can take the mutex: it is not asleep and has no signal to return for
Ready(p, op) == call[p].op = op /\ p \notin asleep \union signalled

\* the call returns: off both wait queues
Leave(p) ==
  /\ call' = [call EXCEPT ![p] = Idle]
  /\ r_wait' = r_wait \ {p}
  /\ w_wait' = w_wait \ {p}

-----------------------------------------------------------------------------
(* globalfifo_read *)

\* nothing stored: sleep
ReadSleeps(p) ==
  /\ Ready(p, "read")
  /\ mem = <<>>
  /\ asleep' = asleep \union {p}
  /\ r_wait' = r_wait \union {p}
  /\ UNCHANGED <<mem, call, w_wait, signalled, ret, cleared>>

ReadTakesWakingReaders(p) ==
  LET count == AtMost(call[p].count, Len(mem))
  IN  /\ Ready(p, "read")
      /\ mem # <<>>
      /\ mem' = SubSeq(mem, count + 1, Len(mem))
      /\ ret' = [len |-> count, bytes |-> SubSeq(mem, 1, count)]
      /\ asleep' = asleep \ r_wait
      /\ cleared' = FALSE
      /\ Leave(p)
      /\ UNCHANGED signalled

ReadTakesAndDropsRest(p) ==
  LET count == AtMost(call[p].count, Len(mem))
  IN  /\ Ready(p, "read")
      /\ mem # <<>>
      /\ mem' = <<>>
      /\ ret' = [len |-> count, bytes |-> SubSeq(mem, 1, count)]
      /\ asleep' = asleep \ w_wait
      /\ cleared' = FALSE
      /\ Leave(p)
      /\ UNCHANGED signalled

\* hand out the oldest bytes, wake the writers
ReadTakes(p) ==
  LET count == AtMost(call[p].count, Len(mem))
  IN  /\ Ready(p, "read")
      /\ mem # <<>>
      /\ mem' = SubSeq(mem, count + 1, Len(mem))
      /\ ret' = [len |-> count, bytes |-> SubSeq(mem, 1, count)]
      /\ asleep' = asleep \ w_wait
      /\ cleared' = FALSE
      /\ Leave(p)
      /\ UNCHANGED signalled

-----------------------------------------------------------------------------
(* globalfifo_write *)

WriteSleeps(p) ==
  /\ Ready(p, "write")
  /\ Room = 0
  /\ asleep' = asleep \union {p}
  /\ w_wait' = w_wait \union {p}
  /\ UNCHANGED <<mem, call, r_wait, signalled, ret, cleared>>

WritePutsWakingWriters(p) ==
  LET count == AtMost(Len(call[p].data), Room)
  IN  /\ Ready(p, "write")
      /\ Room # 0
      /\ mem' = mem \o SubSeq(call[p].data, 1, count)
      /\ ret' = [len |-> count, bytes |-> <<>>]
      /\ asleep' = asleep \ w_wait
      /\ Leave(p)
      /\ UNCHANGED <<signalled, cleared>>

WritePutsUnbounded(p) ==
  LET count == Len(call[p].data)
  IN  /\ Ready(p, "write")
      /\ Room # 0
      /\ mem' = mem \o SubSeq(call[p].data, 1, count)
      /\ ret' = [len |-> count, bytes |-> <<>>]
      /\ asleep' = asleep \ r_wait
      /\ Leave(p)
      /\ UNCHANGED <<signalled, cleared>>

\* store the prefix that fits, wake the readers
WritePuts(p) ==
  LET count == AtMost(Len(call[p].data), Room)
  IN  /\ Ready(p, "write")
      /\ Room # 0
      /\ mem' = mem \o SubSeq(call[p].data, 1, count)
      /\ ret' = [len |-> count, bytes |-> <<>>]
      /\ asleep' = asleep \ r_wait
      /\ Leave(p)
      /\ UNCHANGED <<signalled, cleared>>

\* O_NONBLOCK: -EAGAIN instead of sleeping; or the copy to or from the user fails: -EFAULT
Refused(p) ==
  /\ Ready(p, "read") \/ Ready(p, "write")
  /\ Leave(p)
  /\ UNCHANGED <<mem, asleep, signalled, ret, cleared>>

\* woken by a signal: -ERESTARTSYS, without the mutex
Interrupted(p) ==
  /\ call[p] # Idle
  /\ p \in signalled \ asleep
  /\ signalled' = signalled \ {p}
  /\ Leave(p)
  /\ UNCHANGED <<mem, asleep, ret, cleared>>

-----------------------------------------------------------------------------
(* globalfifo_poll, and the sleep of select() around it *)

Pollable(side) == IF side = "in" THEN mem # <<>> ELSE Room # 0

PollReturns(p) ==
  /\ Ready(p, "poll")
  /\ Pollable(call[p].side)
  /\ Leave(p)
  /\ UNCHANGED <<mem, asleep, signalled, ret, cleared>>

\* poll_wait puts the process on both wait queues
PollSleeps(p) ==
  /\ Ready(p, "poll")
  /\ ~Pollable(call[p].side)
  /\ asleep' = asleep \union {p}
  /\ r_wait' = r_wait \union {p}
  /\ w_wait' = w_wait \union {p}
  /\ UNCHANGED <<mem, call, signalled, ret, cleared>>

-----------------------------------------------------------------------------
(* globalfifo_ioctl(FIFO_CLEAR) drops everything and wakes nobody *)
Clear(p) ==
  /\ call[p] = Idle
  /\ mem' = <<>>
  /\ cleared' = TRUE
  /\ UNCHANGED <<call, asleep, r_wait, w_wait, signalled, ret>>

\* a signal for a process that sleeps in the driver, or was woken and has not gone on
Signal(p) ==
  /\ p \in (r_wait \union w_wait) \ signalled
  /\ asleep' = asleep \ {p}
  /\ signalled' = signalled \union {p}
  /\ UNCHANGED <<mem, call, r_wait, w_wait, ret, cleared>>

-----------------------------------------------------------------------------
Proceed(p) ==
  \/ ReadSleeps(p) \/ ReadTakes(p) \/ WriteSleeps(p) \/ WritePuts(p) \/ Refused(p)
  \/ Interrupted(p) \/ PollReturns(p) \/ PollSleeps(p)

Next ==
  \E p \in Process :
    \/ \E c \in Calls : Enter(p, c)
    \/ Proceed(p) \/ Clear(p) \/ Signal(p)

Spec == Init /\ [][Next]_vars

-----------------------------------------------------------------------------
(* Properties *)

\* Every variable keeps its type, and mem is never overrun.
TypeOK ==
  /\ mem \in Seq(Byte) /\ Len(mem) <= GLOBALFIFO_SIZE
  /\ call \in [Process -> Calls \union {Idle}]
  /\ asleep \subseteq Process /\ signalled \subseteq Process
  /\ r_wait \subseteq Process /\ w_wait \subseteq Process
  /\ ret.len \in 0 .. GLOBALFIFO_SIZE
  /\ cleared \in BOOLEAN

\* No reader, and no process that polls for input, sleeps while there is
\* something to read, whoever stored it and whenever.
NoReaderMissesData ==
  \A p \in asleep : (call[p].op = "read" \/ call[p] = Poll("in")) => mem = <<>>

\* No writer, and no process that polls for room, sleeps while there is room,
\* but for one case: FIFO_CLEAR made the room, and nobody has read since.
NoWriterMissesRoom ==
  \A p \in asleep :
    (call[p].op = "write" \/ call[p] = Poll("out")) => (Room = 0 \/ cleared)

Abstract == INSTANCE ByteQueue WITH queue <- mem, Capacity <- GLOBALFIFO_SIZE

\* Whatever its processes sleep through, the device is a bounded first-in
\* first-out queue: the bytes change by a write of the prefix that fits, by a read
\* of the oldest bytes or by a clear, and in no other way.
IsAQueue == [][Abstract!Next \/ (mem' = <<>> /\ ret' = ret)]_<<mem, ret>>
=============================================================================
