------------------------------ MODULE RingBuffer -----------------------------
(***************************************************************************)
(* The ring buffer of comm/gs_comm.c (GS_COMM_RingBuffer...): an array, a  *)
(* reader index, a writer index and a flag that tells a full buffer from   *)
(* an empty one when the indices meet.  The TCP receive thread is its only *)
(* user, so every call is one step.  The two memcpy calls of a wrapped     *)
(* copy are kept apart, with the length expression of the code.            *)
(***************************************************************************)
EXTENDS Integers, Sequences

CONSTANTS
  Byte,        \* the values a byte can take
  m_BuffSize,  \* the size the buffer is created with
  Input,       \* the byte strings callers write
  Request      \* the lengths callers ask to read

ASSUME BuffSizeAssumption == m_BuffSize \in Nat \ {0}
ASSUME InputAssumption == Input \subseteq Seq(Byte)
ASSUME RequestAssumption == Request \subseteq Nat

VARIABLES
  m_pBuffer,   \* the memory behind the buffer
  m_Writer,    \* where the next byte is written
  m_Reader,    \* where the next byte is read
  m_IsFull,    \* the indices meet because the buffer is full
  ret          \* what the last call handed back: a length and, for a read, bytes

vars == <<m_pBuffer, m_Writer, m_Reader, m_IsFull, ret>>

Index == 0 .. m_BuffSize - 1

GS_MIN(a, b) == IF a < b THEN a ELSE b

UsedSizeWithoutFlag == (m_Writer + m_BuffSize - m_Reader) % m_BuffSize

GetUsedSize ==
  IF m_IsFull THEN m_BuffSize
              ELSE (m_Writer + m_BuffSize - m_Reader) % m_BuffSize

AdvanceUnwrapped(pos, len) == pos + len

\* an index after len bytes, around the end of the array
Advance(pos, len) == (pos + len) % m_BuffSize

FullBeforeReader(writer) == (writer + 1) % m_BuffSize = m_Reader

\* the full flag after a write that left the writer index at writer
FullAfterWrite(writer) == writer = m_Reader \/ m_IsFull

\* lRemLen: how much of a copy of len bytes at pos comes before the end of the array.
FirstPart(pos, len) ==
  LET beforeEnd == len - ((pos + len) % m_BuffSize)
  IN  IF beforeEnd > 0 THEN beforeEnd ELSE len

\* memcpy of the byte string s into the memory mem, at index at
CopyIn(mem, at, s) ==
  [i \in Index |-> IF i \in at .. at + Len(s) - 1 THEN s[i - at + 1] ELSE mem[i]]

\* memcpy of n bytes of the memory, from index at
CopyOut(at, n) == [i \in 1 .. n |-> m_pBuffer[at + i - 1]]

-----------------------------------------------------------------------------
(* Create: malloc leaves the memory with arbitrary contents. *)
RingBufferCreate ==
  /\ m_pBuffer \in [Index -> Byte]
  /\ m_Reader = 0
  /\ m_Writer = 0
  /\ m_IsFull = FALSE

Init ==
  /\ RingBufferCreate
  /\ ret = [len |-> 0, bytes |-> <<>>]

RingBufferWrite(pBuff) ==
  LET lLen    == GS_MIN(m_BuffSize - GetUsedSize, Len(pBuff))
      lRemLen == FirstPart(m_Writer, lLen)
  IN  /\ ret' = [len |-> lLen, bytes |-> <<>>]
      /\ \/ /\ lLen = 0
            /\ UNCHANGED <<m_pBuffer, m_Writer, m_IsFull>>
         \/ /\ lLen # 0
            /\ m_pBuffer' = CopyIn(CopyIn(m_pBuffer, m_Writer, SubSeq(pBuff, 1, lRemLen)),
                                   0, SubSeq(pBuff, lRemLen + 1, lLen))
            /\ m_Writer' = Advance(m_Writer, lLen)
            /\ m_IsFull' = FullAfterWrite(Advance(m_Writer, lLen))
      /\ UNCHANGED m_Reader

RingBufferRead(size) ==
  LET lLen    == GS_MIN(GetUsedSize, size)
      lRemLen == FirstPart(m_Reader, lLen)
  IN  /\ \/ /\ lLen = 0
            /\ ret' = [len |-> 0, bytes |-> <<>>]
            /\ UNCHANGED <<m_Reader, m_IsFull>>
         \/ /\ lLen # 0
            /\ ret' = [len |-> lLen,
                       bytes |-> CopyOut(m_Reader, lRemLen) \o CopyOut(0, lLen - lRemLen)]
            /\ m_IsFull' = FALSE
            /\ m_Reader' = Advance(m_Reader, lLen)
      /\ UNCHANGED <<m_pBuffer, m_Writer>>

Next ==
  \/ \E pBuff \in Input : RingBufferWrite(pBuff)
  \/ \E size \in Request : RingBufferRead(size)

Spec == Init /\ [][Next]_vars

-----------------------------------------------------------------------------
(* The abstract queue: the GetUsedSize bytes from the reader index on,     *)
(* around the end of the array.                                            *)
Contents == [i \in 1 .. GetUsedSize |-> m_pBuffer[(m_Reader + i - 1) % m_BuffSize]]

Abstract == INSTANCE ByteQueue
              WITH queue <- Contents, Capacity <- m_BuffSize

\* Type invariant: both indices stay inside the array and the last result is
\* a length with at most that many bytes (GS_COMM_RingBufferWrite / Read).
TypeOK ==
  /\ m_pBuffer \in [Index -> Byte]
  /\ m_Writer \in Index
  /\ m_Reader \in Index
  /\ m_IsFull \in BOOLEAN
  /\ ret \in [len : 0 .. m_BuffSize, bytes : Seq(Byte)]

\* The full flag is never left over: it is set only while the two indices
\* meet, so GetUsedSize never calls a partly drained buffer full.
FullMeansIndicesMeet == m_IsFull => m_Writer = m_Reader

\* The ring buffer implements the bounded byte queue its design comment
\* describes: what is read is what was written, in order, once, and a write
\* keeps exactly the prefix that fits.
ImplementsQueue == Abstract!Spec
=============================================================================
