-------------------------- MODULE GlobalFifo_proofs --------------------------
(***************************************************************************)
(* Proofs about GlobalFifo, for every set of processes, every size and     *)
(* every input: memory is never overrun, no wake-up is lost, and the       *)
(* device is a first-in first-out queue.                                   *)
(***************************************************************************)
EXTENDS GlobalFifo, SequenceTheorems, TLAPS

USE SizeAssumption, InputAssumption, RequestAssumption

\* A process that sleeps is in a call, and on the wait queue that call's
\* condition is signalled on.
OnItsWaitQueue ==
  \A p \in asleep :
    \/ call[p].op = "read" /\ p \in r_wait
    \/ call[p].op = "write" /\ p \in w_wait
    \/ call[p].op = "poll" /\ p \in r_wait /\ p \in w_wait

\* The inductive invariant.
FifoInv == TypeOK /\ OnItsWaitQueue /\ NoReaderMissesData /\ NoWriterMissesRoom

-----------------------------------------------------------------------------
\* A call is one of the three operations, with its argument.
LEMMA CallsByOp ==
  ASSUME NEW c \in Calls \union {Idle}
  PROVE  /\ c.op \in {"none", "read", "write", "poll"}
         /\ c.op = "none" => c = Idle
         /\ c.op = "read" => c.count \in Request
         /\ c.op = "write" => c.data \in Input
         /\ c.op = "poll" => c = Poll("in") \/ c = Poll("out")
  BY DEF Calls, Idle, Read, Write, Poll

\* What a process is told it may read or write: at least a byte, and no more
\* than it asked for or than there is.
LEMMA AtMostBounds ==
  ASSUME NEW a \in Nat \ {0}, NEW b \in Nat \ {0}
  PROVE  /\ AtMost(a, b) \in Nat \ {0} /\ AtMost(a, b) <= a /\ AtMost(a, b) <= b
         /\ AtMost(a, b) = AtMost(b, a)
  BY DEF AtMost

\* A read takes the oldest bytes, as the abstract queue does.
LEMMA ReadIsGet ==
  ASSUME FifoInv, NEW p \in Process, ReadTakes(p)
  PROVE  /\ mem' \in Seq(Byte) /\ Len(mem') <= GLOBALFIFO_SIZE
         /\ ret'.len \in 0 .. GLOBALFIFO_SIZE
         /\ Abstract!Next
<1> DEFINE max == call[p].count
           count == AtMost(max, Len(mem))
<1>1. max \in Request /\ max \in Nat \ {0}
  BY CallsByOp DEF FifoInv, TypeOK, ReadTakes, Ready
<1>2. mem \in Seq(Byte) /\ Len(mem) \in Nat \ {0} /\ Len(mem) <= GLOBALFIFO_SIZE
  BY EmptySeq DEF FifoInv, TypeOK, ReadTakes
<1>3. count \in Nat \ {0} /\ count <= Len(mem) /\ count = Abstract!AtMost(Len(mem), max)
  BY <1>1, <1>2 DEF AtMost, Abstract!AtMost
<1>4. mem' = SubSeq(mem, count + 1, Len(mem)) /\ ret' = [len |-> count, bytes |-> SubSeq(mem, 1, count)]
  BY DEF ReadTakes
<1> HIDE DEF count, max
<1>5. mem' \in Seq(Byte) /\ Len(mem') = Len(mem) - count
  BY <1>2, <1>3, <1>4, SubSeqProperties
<1>6. Abstract!Get(max)
  BY <1>3, <1>4 DEF Abstract!Get
<1> QED
  BY <1>1, <1>2, <1>3, <1>4, <1>5, <1>6 DEF Abstract!Next

\* A write keeps the prefix that fits, as the abstract queue does.
LEMMA WriteIsPut ==
  ASSUME FifoInv, NEW p \in Process, WritePuts(p)
  PROVE  /\ mem' \in Seq(Byte) /\ Len(mem') <= GLOBALFIFO_SIZE /\ mem' # <<>>
         /\ ret'.len \in 0 .. GLOBALFIFO_SIZE
         /\ Abstract!Next
<1> DEFINE data == call[p].data
           count == AtMost(Len(data), Room)
           stored == SubSeq(data, 1, count)
<1>1. data \in Input /\ data \in Seq(Byte) /\ data # <<>>
  BY CallsByOp DEF FifoInv, TypeOK, WritePuts, Ready
<1>2. mem \in Seq(Byte) /\ Len(mem) <= GLOBALFIFO_SIZE /\ Room # 0
  BY DEF FifoInv, TypeOK, WritePuts
<1>3. Len(data) \in Nat \ {0} /\ Room \in Nat \ {0}
  BY <1>1, <1>2, EmptySeq DEF Room
<1>4. count \in Nat \ {0} /\ count <= Len(data) /\ count <= Room
      /\ count = Abstract!AtMost(GLOBALFIFO_SIZE - Len(mem), Len(data))
  BY <1>3 DEF AtMost, Abstract!AtMost, Room
<1>5. mem' = mem \o stored /\ ret' = [len |-> count, bytes |-> <<>>]
  BY DEF WritePuts
<1> HIDE DEF count, data
<1>6. stored \in Seq(Byte) /\ Len(stored) = count
  BY <1>1, <1>4, SubSeqProperties
<1>7. Abstract!Put(data)
  BY <1>4, <1>5 DEF Abstract!Put
<1> HIDE DEF stored
<1>8. mem' \in Seq(Byte) /\ Len(mem') = Len(mem) + count
  BY <1>2, <1>5, <1>6, ConcatProperties
<1>9. Len(mem') <= GLOBALFIFO_SIZE /\ mem' # <<>> /\ count \in 0 .. GLOBALFIFO_SIZE
  BY <1>2, <1>4, <1>8, EmptySeq DEF Room
<1> QED
  BY <1>1, <1>5, <1>7, <1>8, <1>9 DEF Abstract!Next

-----------------------------------------------------------------------------
\* The processes and their calls: the types that have nothing to do with mem.
ProcessType ==
  /\ call \in [Process -> Calls \union {Idle}]
  /\ asleep \subseteq Process /\ signalled \subseteq Process
  /\ r_wait \subseteq Process /\ w_wait \subseteq Process
  /\ cleared \in BOOLEAN

\* Every step keeps them.
LEMMA StepKeepsProcesses ==
  ASSUME ProcessType, [Next]_vars
  PROVE  ProcessType'
<1>1. CASE UNCHANGED vars
  BY <1>1 DEF ProcessType, vars
<1>2. ASSUME NEW p \in Process, NEW c \in Calls, Enter(p, c)
      PROVE  ProcessType'
  BY <1>2 DEF ProcessType, Enter
<1>3. ASSUME NEW p \in Process, ReadSleeps(p) \/ WriteSleeps(p) \/ PollSleeps(p)
                                \/ Clear(p) \/ Signal(p)
      PROVE  ProcessType'
  BY <1>3 DEF ProcessType, ReadSleeps, WriteSleeps, PollSleeps, Clear, Signal
<1>4. ASSUME NEW p \in Process,
             ReadTakes(p) \/ WritePuts(p) \/ Refused(p) \/ Interrupted(p) \/ PollReturns(p)
      PROVE  ProcessType'
  <2>1. Leave(p)
    BY <1>4 DEF ReadTakes, WritePuts, Refused, Interrupted, PollReturns
  <2>2. asleep' \subseteq asleep /\ signalled' \subseteq signalled /\ cleared' \in {cleared, FALSE}
    BY <1>4 DEF ReadTakes, WritePuts, Refused, Interrupted, PollReturns
  <2> QED
    BY <2>1, <2>2 DEF ProcessType, Leave
<1> QED
  BY <1>1, <1>2, <1>3, <1>4 DEF Next, Proceed

\* Every step keeps the types of the memory and of the last result, and changes
\* them as the abstract queue does or clears the memory.
LEMMA StepIsAQueue ==
  ASSUME FifoInv, [Next]_vars
  PROVE  /\ mem' \in Seq(Byte) /\ Len(mem') <= GLOBALFIFO_SIZE
         /\ ret'.len \in 0 .. GLOBALFIFO_SIZE
         /\ [Abstract!Next \/ (mem' = <<>> /\ ret' = ret)]_<<mem, ret>>
<1>1. CASE \E p \in Process : ReadTakes(p)
  BY <1>1, ReadIsGet
<1>2. CASE \E p \in Process : WritePuts(p)
  BY <1>2, WriteIsPut
<1>3. CASE \E p \in Process : Clear(p)
  BY <1>3, EmptySeq DEF Clear, FifoInv, TypeOK
<1>4. CASE UNCHANGED <<mem, ret>>
  BY <1>4 DEF FifoInv, TypeOK
<1> QED
  BY <1>1, <1>2, <1>3, <1>4 DEF Next, Proceed, Enter, ReadSleeps, WriteSleeps, Refused,
     Interrupted, PollReturns, PollSleeps, Signal, vars

\* Every step keeps the sleepers on their wait queues, and wakes those that have
\* something to do.
LEMMA StepWakes ==
  ASSUME FifoInv, [Next]_vars
  PROVE  OnItsWaitQueue' /\ NoReaderMissesData' /\ NoWriterMissesRoom'
<1>0. /\ call \in [Process -> Calls \union {Idle}] /\ asleep \subseteq Process
      /\ OnItsWaitQueue /\ NoReaderMissesData /\ NoWriterMissesRoom
  BY DEF FifoInv, TypeOK
<1> USE DEF OnItsWaitQueue, NoReaderMissesData, NoWriterMissesRoom, Room
<1>1. CASE UNCHANGED vars
  BY <1>0, <1>1 DEF vars
<1>2. ASSUME NEW p \in Process, NEW c \in Calls, Enter(p, c)
      PROVE  OnItsWaitQueue' /\ NoReaderMissesData' /\ NoWriterMissesRoom'
  <2>1. p \notin asleep
    BY <1>0, <1>2 DEF Enter, Idle
  <2> QED
    BY <1>0, <1>2, <2>1 DEF Enter
<1>3. ASSUME NEW p \in Process, ReadSleeps(p)
      PROVE  OnItsWaitQueue' /\ NoReaderMissesData' /\ NoWriterMissesRoom'
  BY <1>0, <1>3 DEF ReadSleeps, Ready, Poll
<1>4. ASSUME NEW p \in Process, WriteSleeps(p)
      PROVE  OnItsWaitQueue' /\ NoReaderMissesData' /\ NoWriterMissesRoom'
  BY <1>0, <1>4 DEF WriteSleeps, Ready, Poll
<1>5. ASSUME NEW p \in Process, PollSleeps(p)
      PROVE  OnItsWaitQueue' /\ NoReaderMissesData' /\ NoWriterMissesRoom'
  BY <1>0, <1>5 DEF PollSleeps, Pollable, Ready, Poll
<1>6. ASSUME NEW p \in Process, ReadTakes(p)
      PROVE  OnItsWaitQueue' /\ NoReaderMissesData' /\ NoWriterMissesRoom'
  BY <1>0, <1>6 DEF ReadTakes, Leave, Ready, Poll
<1>7. ASSUME NEW p \in Process, WritePuts(p)
      PROVE  OnItsWaitQueue' /\ NoReaderMissesData' /\ NoWriterMissesRoom'
  BY <1>0, <1>7, SMTT(30) DEF WritePuts, Leave, Ready, Poll
<1>8. ASSUME NEW p \in Process, Refused(p) \/ Interrupted(p) \/ PollReturns(p)
      PROVE  OnItsWaitQueue' /\ NoReaderMissesData' /\ NoWriterMissesRoom'
  BY <1>0, <1>8 DEF Refused, Interrupted, PollReturns, Leave, Ready
<1>9. ASSUME NEW p \in Process, Clear(p) \/ Signal(p)
      PROVE  OnItsWaitQueue' /\ NoReaderMissesData' /\ NoWriterMissesRoom'
  BY <1>0, <1>9 DEF Clear, Signal
<1> QED
  BY <1>1, <1>2, <1>3, <1>4, <1>5, <1>6, <1>7, <1>8, <1>9 DEF Next, Proceed

-----------------------------------------------------------------------------
\* The device starts in the inductive invariant.
LEMMA FifoStarts == Init => FifoInv
<1> SUFFICES ASSUME Init
             PROVE  FifoInv
  OBVIOUS
<1>1. mem \in Seq(Byte) /\ Len(mem) <= GLOBALFIFO_SIZE
  <2>1. mem = <<>> /\ <<>> \in Seq(Byte) /\ Len(<<>>) = 0
    BY EmptySeq DEF Init
  <2> QED
    BY <2>1
<1>2. ret.len \in 0 .. GLOBALFIFO_SIZE
  BY DEF Init
<1>3. call \in [Process -> Calls \union {Idle}]
  BY DEF Init
<1>4. TypeOK
  BY <1>1, <1>2, <1>3 DEF Init, TypeOK
<1>5. OnItsWaitQueue /\ NoReaderMissesData /\ NoWriterMissesRoom
  BY DEF Init, OnItsWaitQueue, NoReaderMissesData, NoWriterMissesRoom
<1> QED
  BY <1>4, <1>5 DEF FifoInv

\* Every step keeps it.
LEMMA FifoKeepsInv ==
  ASSUME FifoInv, [Next]_vars
  PROVE  FifoInv'
<1>1. ProcessType
  BY DEF FifoInv, TypeOK, ProcessType
<1>2. ProcessType'
  BY <1>1, StepKeepsProcesses
<1>3. TypeOK'
  BY <1>2, StepIsAQueue DEF ProcessType, TypeOK
<1> QED
  BY <1>3, StepWakes DEF FifoInv

\* For every size, input and set of processes, memory is never overrun
\* (globalfifo_write).
THEOREM GlobalFifoTypeOK == Spec => []TypeOK
<1>1. FifoInv => TypeOK
  BY DEF FifoInv
<1> QED
  BY <1>1, FifoStarts, FifoKeepsInv, PTL DEF Spec

\* For every size, input and set of processes, no reader sleeps while there is
\* something to read (globalfifo_read, globalfifo_poll).
THEOREM GlobalFifoNoReaderMissesData == Spec => []NoReaderMissesData
<1>1. FifoInv => NoReaderMissesData
  BY DEF FifoInv
<1> QED
  BY <1>1, FifoStarts, FifoKeepsInv, PTL DEF Spec

\* For every size, input and set of processes, no writer sleeps while there is
\* room, unless a FIFO_CLEAR made it (globalfifo_write, globalfifo_poll).
THEOREM GlobalFifoNoWriterMissesRoom == Spec => []NoWriterMissesRoom
<1>1. FifoInv => NoWriterMissesRoom
  BY DEF FifoInv
<1> QED
  BY <1>1, FifoStarts, FifoKeepsInv, PTL DEF Spec

\* For every size, input and set of processes, the device is a bounded
\* first-in first-out queue of bytes that can be cleared.
THEOREM GlobalFifoIsAQueue == Spec => IsAQueue
<1>1. FifoInv /\ [Next]_vars
        => [Abstract!Next \/ (mem' = <<>> /\ ret' = ret)]_<<mem, ret>>
  BY StepIsAQueue
<1> QED
  BY <1>1, FifoStarts, FifoKeepsInv, PTL DEF Spec, IsAQueue
=============================================================================
