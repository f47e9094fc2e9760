-------------------------- MODULE RingBuffer_proofs --------------------------
(***************************************************************************)
(* Proofs about the ring buffer for every buffer size, every set of byte   *)
(* values and every input: its type invariant, the meaning of its full     *)
(* flag, and that it implements the bounded byte queue.                    *)
(***************************************************************************)
EXTENDS RingBuffer, SequenceTheorems, TLAPS

USE BuffSizeAssumption

\* The indices wrap at most once: % m_BuffSize is one conditional subtraction.
LEMMA ModOnce ==
  ASSUME NEW x \in Int, 0 <= x, x < 2 * m_BuffSize
  PROVE  x % m_BuffSize = IF x < m_BuffSize THEN x ELSE x - m_BuffSize
  BY SMT

\* Two positions one turn apart are the same slot.
LEMMA SameSlot ==
  ASSUME NEW x \in Int, NEW y \in Int, 0 <= x, y < 2 * m_BuffSize,
         y = x \/ y = x + m_BuffSize
  PROVE  y % m_BuffSize = x % m_BuffSize
<1>1. CASE y = x
  BY <1>1
<1>2. CASE y = x + m_BuffSize
  <2>1. 0 <= y /\ x < m_BuffSize /\ x < 2 * m_BuffSize
    BY <1>2
  <2>2. y % m_BuffSize = y - m_BuffSize
    BY <1>2, <2>1, ModOnce
  <2>3. x % m_BuffSize = x
    BY <2>1, ModOnce
  <2> QED
    BY <1>2, <2>2, <2>3
<1> QED
  BY <1>1, <1>2

\* lRemLen is the length up to the end of the array, or all of it.
LEMMA FirstPartIsUpToTheEnd ==
  ASSUME NEW pos \in Index, NEW len \in 0 .. m_BuffSize
  PROVE  FirstPart(pos, len) = GS_MIN(len, m_BuffSize - pos)
<1>1. pos + len \in Int /\ 0 <= pos + len /\ pos + len < 2 * m_BuffSize
  BY DEF Index
<1>2. (pos + len) % m_BuffSize
        = IF pos + len < m_BuffSize THEN pos + len ELSE pos + len - m_BuffSize
  BY <1>1, ModOnce DEF Index
<1> QED
  BY <1>2 DEF FirstPart, GS_MIN, Index

\* The number of stored bytes, without the remainder.
UsedSizeByCases ==
  /\ GetUsedSize \in 0 .. m_BuffSize
  /\ ~m_IsFull => GetUsedSize = IF m_Writer >= m_Reader
                                THEN m_Writer - m_Reader
                                ELSE m_Writer + m_BuffSize - m_Reader
  /\ m_IsFull => GetUsedSize = m_BuffSize

\* In every state of the right type that is the number of stored bytes.
LEMMA UsedSize == TypeOK => UsedSizeByCases
<1> DEFINE x == m_Writer + m_BuffSize - m_Reader
<1> SUFFICES ASSUME TypeOK PROVE UsedSizeByCases
  OBVIOUS
<1>1. /\ m_Writer \in 0 .. m_BuffSize - 1
      /\ m_Reader \in 0 .. m_BuffSize - 1
  BY DEF TypeOK, Index
<1>2. x \in Int /\ 0 <= x /\ x < 2 * m_BuffSize
  BY <1>1
<1> HIDE DEF x
<1>3. x % m_BuffSize = IF x < m_BuffSize THEN x ELSE x - m_BuffSize
  BY <1>2, ModOnce
<1> USE DEF x
<1>4. x % m_BuffSize = IF m_Writer >= m_Reader THEN m_Writer - m_Reader ELSE x
  BY <1>1, <1>3
<1> QED
  BY <1>1, <1>4 DEF GetUsedSize, TypeOK, UsedSizeByCases

\* The same of the next state.
LEMMA UsedSizeNext == TypeOK' => UsedSizeByCases'
  BY UsedSize, PTL

\* One memcpy into the array keeps its type and writes exactly its bytes.
LEMMA CopyInWrites ==
  ASSUME NEW mem \in [Index -> Byte], NEW at \in Nat, NEW s \in Seq(Byte)
  PROVE  /\ CopyIn(mem, at, s) \in [Index -> Byte]
         /\ \A i \in Index : CopyIn(mem, at, s)[i] =
              IF at <= i /\ i < at + Len(s) THEN s[i - at + 1] ELSE mem[i]
<1>1. Len(s) \in Nat
  BY LenProperties
<1>2. ASSUME NEW i \in Index
      PROVE  /\ i \in at .. at + Len(s) - 1 <=> at <= i /\ i < at + Len(s)
             /\ at <= i /\ i < at + Len(s) => s[i - at + 1] \in Byte
  <2>1. at <= i /\ i < at + Len(s) => i - at + 1 \in 1 .. Len(s)
    BY <1>1 DEF Index
  <2> QED
    BY <1>1, <2>1, ElementOfSeq DEF Index
<1> QED
  BY <1>2 DEF CopyIn

\* One memcpy out of the array, inside its bounds, reads exactly its bytes.
LEMMA CopyOutReads ==
  ASSUME m_pBuffer \in [Index -> Byte], NEW at \in Nat, NEW n \in Nat,
         at + n <= m_BuffSize
  PROVE  /\ CopyOut(at, n) \in Seq(Byte)
         /\ Len(CopyOut(at, n)) = n
         /\ \A i \in 1 .. n : CopyOut(at, n)[i] = m_pBuffer[at + i - 1]
<1>1. ASSUME NEW i \in 1 .. n
      PROVE  m_pBuffer[at + i - 1] \in Byte
  <2>1. at + i - 1 \in Index
    BY DEF Index
  <2> QED
    BY <2>1
<1> QED
  BY <1>1 DEF CopyOut

\* The memory after the two memcpy calls of a write of n bytes.
Written(pBuff, n) ==
  CopyIn(CopyIn(m_pBuffer, m_Writer, SubSeq(pBuff, 1, FirstPart(m_Writer, n))),
         0, SubSeq(pBuff, FirstPart(m_Writer, n) + 1, n))

\* The effect of the two memcpy calls of a write of n bytes that fit: the
\* bytes land behind the writer index, around the end of the array, and the
\* bytes already stored are untouched.
LEMMA WriteMemory ==
  ASSUME TypeOK, NEW pBuff \in Seq(Byte), NEW n \in 1 .. m_BuffSize - GetUsedSize,
         n <= Len(pBuff)
  PROVE  /\ Written(pBuff, n) \in [Index -> Byte]
         /\ \A k \in 0 .. n - 1 :
              Written(pBuff, n)[(m_Writer + k) % m_BuffSize] = pBuff[k + 1]
         /\ \A k \in 0 .. GetUsedSize - 1 :
              Written(pBuff, n)[(m_Reader + k) % m_BuffSize]
                = m_pBuffer[(m_Reader + k) % m_BuffSize]
<1> DEFINE mem == Written(pBuff, n)
           rem == FirstPart(m_Writer, n)
           s1  == SubSeq(pBuff, 1, rem)
           s2  == SubSeq(pBuff, rem + 1, n)
           m1  == CopyIn(m_pBuffer, m_Writer, s1)
<1>1. /\ m_Writer \in 0 .. m_BuffSize - 1
      /\ m_Reader \in 0 .. m_BuffSize - 1
      /\ m_pBuffer \in [Index -> Byte]
      /\ GetUsedSize \in 0 .. m_BuffSize
      /\ Len(pBuff) \in Nat
      /\ n \in Nat
  BY UsedSize, LenProperties DEF TypeOK, Index, UsedSizeByCases
<1>2. rem = IF n < m_BuffSize - m_Writer THEN n ELSE m_BuffSize - m_Writer
  BY <1>1, FirstPartIsUpToTheEnd DEF GS_MIN, Index
<1>3. rem \in 1 .. n
  BY <1>1, <1>2
<1> HIDE DEF rem
<1>4. \A i \in 1 .. Len(pBuff) : pBuff[i] \in Byte
  BY ElementOfSeq
<1>5. /\ s1 \in Seq(Byte)
      /\ Len(s1) = rem
      /\ \A i \in 1 .. rem : s1[i] = pBuff[i]
  BY <1>1, <1>3, <1>4, SubSeqProperties
<1>6. /\ s2 \in Seq(Byte)
      /\ Len(s2) = n - rem
      /\ \A i \in 1 .. n - rem : s2[i] = pBuff[rem + i]
  <2>1. \A i \in rem + 1 .. n : pBuff[i] \in Byte
    BY <1>1, <1>3, <1>4
  <2>2. /\ s2 \in Seq(Byte)
        /\ Len(s2) = IF rem + 1 <= n THEN n - (rem + 1) + 1 ELSE 0
        /\ \A i \in 1 .. n - (rem + 1) + 1 : s2[i] = pBuff[rem + 1 + i - 1]
    BY <1>1, <1>3, <2>1, SubSeqProperties
  <2> QED
    BY <1>1, <1>3, <2>2
<1> HIDE DEF s1, s2
<1>7. /\ m1 \in [Index -> Byte]
      /\ \A i \in Index : m1[i] = IF m_Writer <= i /\ i < m_Writer + rem
                                  THEN s1[i - m_Writer + 1] ELSE m_pBuffer[i]
  <2>1. m_Writer \in Nat
    BY <1>1
  <2>2. /\ m1 \in [Index -> Byte]
        /\ \A i \in Index : m1[i] = IF m_Writer <= i /\ i < m_Writer + Len(s1)
                                    THEN s1[i - m_Writer + 1] ELSE m_pBuffer[i]
    BY <1>1, <1>5, <2>1, CopyInWrites
  <2> QED
    BY <1>5, <2>2
<1> HIDE DEF m1
<1>8. /\ mem \in [Index -> Byte]
      /\ \A i \in Index : mem[i] = IF i < n - rem THEN s2[i + 1] ELSE m1[i]
  <2>1. mem = CopyIn(m1, 0, s2)
    BY DEF m1, s1, s2, rem, Written
  <2>2. /\ mem \in [Index -> Byte]
        /\ \A i \in Index : mem[i] = IF 0 <= i /\ i < 0 + Len(s2)
                                     THEN s2[i - 0 + 1] ELSE m1[i]
    BY <1>6, <1>7, <2>1, CopyInWrites
  <2> QED
    BY <1>1, <1>3, <1>6, <2>2 DEF Index
<1> HIDE DEF mem
<1>9. ASSUME NEW k \in 0 .. n - 1
      PROVE  mem[(m_Writer + k) % m_BuffSize] = pBuff[k + 1]
  <2> DEFINE w == m_Writer + k
  <2>1. w \in Int /\ 0 <= w /\ w < 2 * m_BuffSize
    BY <1>1
  <2> HIDE DEF w
  <2>2. w % m_BuffSize = IF w < m_BuffSize THEN w ELSE w - m_BuffSize
    BY <2>1, ModOnce
  <2> USE DEF w
  <2>3. CASE m_Writer + k < m_BuffSize
    <3>1. m_Writer + k \in Index /\ ~(m_Writer + k < n - rem) /\ k < rem
      BY <1>1, <1>2, <2>3 DEF Index
    <3>2. mem[m_Writer + k] = s1[k + 1]
      <4>1. m_Writer <= m_Writer + k /\ m_Writer + k < m_Writer + rem
        BY <1>1, <1>3, <3>1
      <4>2. w - m_Writer + 1 = k + 1
        BY <1>1
      <4>3. mem[w] = m1[w]
        BY <1>8, <3>1
      <4>4. m1[w] = s1[w - m_Writer + 1]
        BY <1>7, <3>1, <4>1
      <4> QED
        BY <4>2, <4>3, <4>4
    <3>3. s1[k + 1] = pBuff[k + 1]
      BY <1>1, <1>3, <1>5, <3>1
    <3>4. (m_Writer + k) % m_BuffSize = m_Writer + k
      BY <2>2, <2>3
    <3> QED
      BY <3>2, <3>3, <3>4
  <2>4. CASE ~(m_Writer + k < m_BuffSize)
    <3>1. /\ m_Writer + k - m_BuffSize \in Index
          /\ rem = m_BuffSize - m_Writer
          /\ m_Writer + k - m_BuffSize = k - rem
          /\ k - rem < n - rem
          /\ k - rem + 1 \in 1 .. n - rem
      BY <1>1, <1>2, <2>4 DEF Index
    <3>2. mem[k - rem] = s2[k - rem + 1]
      BY <1>8, <3>1
    <3>3. s2[k - rem + 1] = pBuff[k + 1]
      <4>1. rem + (k - rem + 1) = k + 1
        BY <1>1, <1>3
      <4> QED
        BY <1>6, <3>1, <4>1
    <3>4. (m_Writer + k) % m_BuffSize = k - rem
      BY <1>1, <2>2, <2>4, <3>1
    <3> QED
      BY <3>2, <3>3, <3>4
  <2> QED
    BY <2>3, <2>4
<1>10. ASSUME NEW k \in 0 .. GetUsedSize - 1
       PROVE  mem[(m_Reader + k) % m_BuffSize] = m_pBuffer[(m_Reader + k) % m_BuffSize]
  <2> DEFINE r == m_Reader + k
             i == r % m_BuffSize
  <2>1. ~m_IsFull
    BY <1>1, UsedSize DEF UsedSizeByCases
  <2>2. GetUsedSize = IF m_Writer >= m_Reader THEN m_Writer - m_Reader
                                              ELSE m_Writer + m_BuffSize - m_Reader
    BY <2>1, UsedSize DEF UsedSizeByCases
  <2>3. r \in Int /\ 0 <= r /\ r < 2 * m_BuffSize
    BY <1>1
  <2> HIDE DEF r
  <2>4. i = IF r < m_BuffSize THEN r ELSE r - m_BuffSize
    BY <2>3, ModOnce
  <2> USE DEF r
  <2>5. /\ i \in Index
        /\ ~(i < n - rem)
        /\ ~(m_Writer <= i /\ i < m_Writer + rem)
    BY <1>1, <1>2, <2>2, <2>4 DEF Index
  <2> QED
    BY <1>7, <1>8, <2>5
<1> QED
  BY <1>8, <1>9, <1>10 DEF mem

\* The abstract queue is a sequence of bytes, as long as the used size says.
ContentsBytes ==
  /\ Contents \in Seq(Byte)
  /\ Len(Contents) = GetUsedSize

\* The abstract queue of every state of the right type is one.
LEMMA ContentsType == TypeOK => ContentsBytes
<1> SUFFICES ASSUME TypeOK PROVE ContentsBytes
  OBVIOUS
<1>1. /\ GetUsedSize \in Nat
      /\ m_Reader \in 0 .. m_BuffSize - 1
      /\ GetUsedSize <= m_BuffSize
  BY UsedSize DEF TypeOK, Index, UsedSizeByCases
<1>2. ASSUME NEW i \in 1 .. GetUsedSize
      PROVE  m_pBuffer[(m_Reader + i - 1) % m_BuffSize] \in Byte
  <2>1. (m_Reader + i - 1) % m_BuffSize \in 0 .. m_BuffSize - 1
    BY <1>1
  <2> QED
    BY <2>1 DEF TypeOK, Index
<1> QED
  BY <1>1, <1>2 DEF Contents, ContentsBytes

\* The same of the next state.
LEMMA ContentsTypeNext ==
  TypeOK' => ContentsBytes'
  BY ContentsType, PTL

\* A write keeps the types and the meaning of the full flag, and appends to
\* the abstract queue the prefix of its input that fits.
LEMMA WriteStep ==
  ASSUME TypeOK, FullMeansIndicesMeet, NEW pBuff \in Input, RingBufferWrite(pBuff)
  PROVE  TypeOK' /\ FullMeansIndicesMeet' /\ Abstract!Put(pBuff)
<1> DEFINE n      == GS_MIN(m_BuffSize - GetUsedSize, Len(pBuff))
           writer == (m_Writer + n) % m_BuffSize
<1>1. /\ m_Writer \in 0 .. m_BuffSize - 1
      /\ m_Reader \in 0 .. m_BuffSize - 1
      /\ m_pBuffer \in [Index -> Byte]
      /\ GetUsedSize \in 0 .. m_BuffSize
      /\ m_IsFull \in BOOLEAN
  BY UsedSize DEF TypeOK, Index, UsedSizeByCases
<1>2. pBuff \in Seq(Byte) /\ Len(pBuff) \in Nat
  BY InputAssumption, LenProperties
<1>3. n \in 0 .. m_BuffSize - GetUsedSize /\ n <= Len(pBuff)
  BY <1>1, <1>2 DEF GS_MIN
<1>4. /\ ret' = [len |-> n, bytes |-> <<>>]
      /\ m_Reader' = m_Reader
  BY DEF RingBufferWrite
<1>5. Len(Contents) = GetUsedSize
  BY <1>1 DEF Contents
<1>6. Abstract!AtMost(m_BuffSize - Len(Contents), Len(pBuff)) = n
  BY <1>5 DEF Abstract!AtMost, GS_MIN
<1>7. Contents \in Seq(Byte) /\ \A i \in 1 .. GetUsedSize : Contents[i] \in Byte
  BY ContentsType, <1>1, <1>5, ElementOfSeq DEF ContentsBytes
<1>8. CASE n = 0
  <2>1. UNCHANGED <<m_pBuffer, m_Writer, m_Reader, m_IsFull>>
    BY <1>8 DEF RingBufferWrite
  <2>2. Contents' = Contents
    BY <2>1 DEF Contents, GetUsedSize
  <2>3. Contents \o SubSeq(pBuff, 1, n) = Contents
    BY <1>7, <1>8, SubSeqEmpty, ConcatEmptySeq
  <2>4. Abstract!Put(pBuff)
    BY <1>4, <1>6, <2>2, <2>3 DEF Abstract!Put
  <2>5. ret' \in [len : 0 .. m_BuffSize, bytes : Seq(Byte)]
    BY <1>4, <1>8, EmptySeq
  <2> QED
    BY <2>1, <2>4, <2>5 DEF TypeOK, FullMeansIndicesMeet
<1>9. CASE n # 0
  <2>1. /\ m_pBuffer' = CopyIn(CopyIn(m_pBuffer, m_Writer,
                                      SubSeq(pBuff, 1, FirstPart(m_Writer, n))),
                               0, SubSeq(pBuff, FirstPart(m_Writer, n) + 1, n))
        /\ m_Writer' = writer
        /\ m_IsFull' = (writer = m_Reader \/ m_IsFull)
    BY <1>9 DEF RingBufferWrite, Advance, FullAfterWrite
  <2> HIDE DEF n
  <2>2. n \in 1 .. m_BuffSize - GetUsedSize
    BY <1>1, <1>3, <1>9
  <2>3. /\ m_pBuffer' \in [Index -> Byte]
        /\ \A k \in 0 .. n - 1 : m_pBuffer'[(m_Writer + k) % m_BuffSize] = pBuff[k + 1]
        /\ \A k \in 0 .. GetUsedSize - 1 :
             m_pBuffer'[(m_Reader + k) % m_BuffSize] = m_pBuffer[(m_Reader + k) % m_BuffSize]
    <3>1. m_pBuffer' = Written(pBuff, n)
      BY <2>1 DEF Written
    <3> HIDE DEF writer
    <3> QED
      BY <1>2, <1>3, <2>2, <3>1, WriteMemory
  <2>4. ~m_IsFull
    BY <1>1, <2>2, UsedSize DEF UsedSizeByCases
  <2>5. GetUsedSize = IF m_Writer >= m_Reader THEN m_Writer - m_Reader
                                              ELSE m_Writer + m_BuffSize - m_Reader
    BY <2>4, UsedSize DEF UsedSizeByCases
  <2> DEFINE w == m_Writer + n
  <2>6. w \in Int /\ 0 <= w /\ w < 2 * m_BuffSize
    BY <1>1, <2>2
  <2> HIDE DEF w
  <2>7. w % m_BuffSize = IF w < m_BuffSize THEN w ELSE w - m_BuffSize
    BY <2>6, ModOnce
  <2>8. writer = IF m_Writer + n < m_BuffSize THEN m_Writer + n ELSE m_Writer + n - m_BuffSize
    BY <1>1, <2>2, <2>7 DEF w
  <2> HIDE DEF writer
  <2>9. writer \in 0 .. m_BuffSize - 1
    BY <1>1, <2>2, <2>8
  <2>10. TypeOK'
    <3>1. ret' \in [len : 0 .. m_BuffSize, bytes : Seq(Byte)]
      BY <1>1, <1>4, <2>2, EmptySeq
    <3> QED
      BY <1>1, <1>4, <2>1, <2>3, <2>9, <3>1 DEF TypeOK, Index
  <2>11. FullMeansIndicesMeet'
    BY <1>4, <2>1, <2>4 DEF FullMeansIndicesMeet
  <2>12. GetUsedSize' = GetUsedSize + n
    <3>1. /\ ~m_IsFull' => GetUsedSize' = IF m_Writer' >= m_Reader'
                                          THEN m_Writer' - m_Reader'
                                          ELSE m_Writer' + m_BuffSize - m_Reader'
          /\ m_IsFull' => GetUsedSize' = m_BuffSize
      BY <2>10, UsedSizeNext DEF UsedSizeByCases
    <3>2. /\ m_Writer' = writer
          /\ m_Reader' = m_Reader
          /\ m_IsFull' <=> writer = m_Reader
      BY <1>4, <2>1, <2>4
    <3>3. CASE writer = m_Reader
      <4>1. GetUsedSize' = m_BuffSize
        BY <3>1, <3>2, <3>3
      <4> QED
        BY <1>1, <2>2, <2>5, <2>8, <3>3, <4>1
    <3>4. CASE writer # m_Reader
      <4>1. GetUsedSize' = IF writer >= m_Reader THEN writer - m_Reader
                                                 ELSE writer + m_BuffSize - m_Reader
        BY <3>1, <3>2, <3>4
      <4> QED
        BY <1>1, <2>2, <2>5, <2>8, <3>4, <4>1
    <3> QED
      BY <3>3, <3>4
  <2>13. Contents' = Contents \o SubSeq(pBuff, 1, n)
    <3> DEFINE new == SubSeq(pBuff, 1, n)
    <3>1. /\ new \in Seq(Byte)
          /\ Len(new) = n
          /\ \A i \in 1 .. n : new[i] = pBuff[i]
      <4>1. \A i \in 1 .. n : pBuff[i] \in Byte
        BY <1>1, <1>2, <1>3, <2>2, ElementOfSeq
      <4> QED
        BY <1>1, <2>2, <4>1, SubSeqProperties
    <3>2. /\ Contents \o new \in Seq(Byte)
          /\ Len(Contents \o new) = GetUsedSize + n
          /\ \A i \in 1 .. GetUsedSize + n : (Contents \o new)[i] =
               IF i <= GetUsedSize THEN Contents[i] ELSE new[i - GetUsedSize]
      BY <1>5, <1>7, <3>1, ConcatProperties, SMTT(30)
    <3>3. Contents' \in Seq(Byte) /\ Len(Contents') = GetUsedSize + n
      BY <2>10, <2>12, ContentsTypeNext DEF ContentsBytes
    <3>4. ASSUME NEW i \in 1 .. GetUsedSize + n
          PROVE  Contents'[i] = (Contents \o new)[i]
      <4>1. Contents'[i] = m_pBuffer'[(m_Reader + (i - 1)) % m_BuffSize]
        BY <1>1, <1>4, <2>2, <2>12 DEF Contents
      <4>2. CASE i <= GetUsedSize
        <5>1. i - 1 \in 0 .. GetUsedSize - 1 /\ i \in 1 .. GetUsedSize
          BY <1>1, <4>2
        <5>2. Contents[i] = m_pBuffer[(m_Reader + (i - 1)) % m_BuffSize]
          BY <1>1, <5>1 DEF Contents
        <5> QED
          BY <2>3, <3>2, <4>1, <4>2, <5>1, <5>2
      <4>3. CASE ~(i <= GetUsedSize)
        <5> DEFINE k == i - 1 - GetUsedSize
        <5>1. k \in 0 .. n - 1 /\ k + 1 = i - GetUsedSize /\ k + 1 \in 1 .. n
          BY <1>1, <2>2, <4>3
        <5>2. (Contents \o new)[i] = pBuff[k + 1]
          BY <3>1, <3>2, <4>3, <5>1
        <5>3. (m_Reader + (i - 1)) % m_BuffSize = (m_Writer + k) % m_BuffSize
          <6> DEFINE x == m_Writer + k
                     y == m_Reader + (i - 1)
          <6>1. /\ x \in Int /\ 0 <= x
                /\ y \in Int /\ y < 2 * m_BuffSize
                /\ y = x \/ y = x + m_BuffSize
            BY <1>1, <2>2, <2>5, <5>1
          <6> HIDE DEF x, y
          <6>2. y % m_BuffSize = x % m_BuffSize
            BY <6>1, SameSlot
          <6> QED
            BY <6>2 DEF x, y
        <5> QED
          BY <2>3, <4>1, <5>1, <5>2, <5>3
      <4> QED
        BY <4>2, <4>3
    <3> QED
      BY <3>2, <3>3, <3>4, SeqEqual
  <2> QED
    BY <1>4, <1>6, <2>10, <2>11, <2>13 DEF Abstract!Put
<1> QED
  BY <1>8, <1>9

\* A read keeps the types and the meaning of the full flag, and takes from
\* the front of the abstract queue what it hands back.
LEMMA ReadStep ==
  ASSUME TypeOK, FullMeansIndicesMeet, NEW size \in Request, RingBufferRead(size)
  PROVE  TypeOK' /\ FullMeansIndicesMeet' /\ Abstract!Get(size)
<1> DEFINE n == GS_MIN(GetUsedSize, size)
           reader == (m_Reader + n) % m_BuffSize
           rem == FirstPart(m_Reader, n)
           out == CopyOut(m_Reader, rem) \o CopyOut(0, n - rem)
<1>1. /\ m_Writer \in 0 .. m_BuffSize - 1
      /\ m_Reader \in 0 .. m_BuffSize - 1
      /\ m_pBuffer \in [Index -> Byte]
      /\ GetUsedSize \in 0 .. m_BuffSize
      /\ m_IsFull \in BOOLEAN
  BY UsedSize DEF TypeOK, Index, UsedSizeByCases
<1>2. n \in 0 .. GetUsedSize
  BY <1>1, RequestAssumption DEF GS_MIN
<1>3. /\ Contents \in Seq(Byte)
      /\ Len(Contents) = GetUsedSize
      /\ \A i \in 1 .. GetUsedSize : Contents[i] \in Byte
  BY <1>1, ContentsType, ElementOfSeq DEF ContentsBytes
<1>4. Abstract!AtMost(Len(Contents), size) = n
  BY <1>3 DEF Abstract!AtMost, GS_MIN
<1>5. m_pBuffer' = m_pBuffer /\ m_Writer' = m_Writer
  BY DEF RingBufferRead
<1>6. CASE n = 0
  <2>1. UNCHANGED <<m_pBuffer, m_Writer, m_Reader, m_IsFull>> /\ ret' = [len |-> 0, bytes |-> <<>>]
    BY <1>6 DEF RingBufferRead
  <2>2. Contents' = Contents
    BY <2>1 DEF Contents, GetUsedSize
  <2>3. /\ SubSeq(Contents, 1, n) = <<>>
        /\ SubSeq(Contents, n + 1, Len(Contents)) = Contents
    BY <1>3, <1>6, SubSeqEmpty, SubSeqFull
  <2>4. Abstract!Get(size)
    BY <1>4, <1>6, <2>1, <2>2, <2>3 DEF Abstract!Get
  <2>5. ret' \in [len : 0 .. m_BuffSize, bytes : Seq(Byte)]
    BY <2>1, EmptySeq
  <2> QED
    BY <2>1, <2>4, <2>5 DEF TypeOK, FullMeansIndicesMeet
<1>7. CASE n # 0
  <2>1. /\ ret' = [len |-> n, bytes |-> out]
        /\ m_IsFull' = FALSE
        /\ m_Reader' = reader
    BY <1>7 DEF RingBufferRead, Advance
  <2> HIDE DEF n
  <2>2. n \in 1 .. GetUsedSize
    BY <1>1, <1>2, <1>7
  <2>3. rem = IF n < m_BuffSize - m_Reader THEN n ELSE m_BuffSize - m_Reader
    BY <1>1, <2>2, FirstPartIsUpToTheEnd DEF GS_MIN, Index
  <2>4. rem \in 1 .. n
    BY <1>1, <2>2, <2>3
  <2> HIDE DEF rem
  <2>5. ASSUME NEW i \in 0 .. GetUsedSize - 1
        PROVE  (m_Reader + i) % m_BuffSize = IF m_Reader + i < m_BuffSize
                                             THEN m_Reader + i ELSE m_Reader + i - m_BuffSize
    <3> DEFINE x == m_Reader + i
    <3>1. x \in Int /\ 0 <= x /\ x < 2 * m_BuffSize
      BY <1>1
    <3> HIDE DEF x
    <3>2. x % m_BuffSize = IF x < m_BuffSize THEN x ELSE x - m_BuffSize
      BY <3>1, ModOnce
    <3> QED
      BY <1>1, <3>2 DEF x
  <2>6. out = SubSeq(Contents, 1, n)
    <3>1. /\ SubSeq(Contents, 1, n) \in Seq(Byte)
          /\ Len(SubSeq(Contents, 1, n)) = n
          /\ \A i \in 1 .. n : SubSeq(Contents, 1, n)[i] = Contents[i]
      BY <1>1, <1>3, <2>2, SubSeqProperties
    <3>2. /\ CopyOut(m_Reader, rem) \in Seq(Byte)
          /\ Len(CopyOut(m_Reader, rem)) = rem
          /\ \A i \in 1 .. rem : CopyOut(m_Reader, rem)[i] = m_pBuffer[m_Reader + i - 1]
      BY <1>1, <2>2, <2>3, <2>4, CopyOutReads
    <3>3. /\ CopyOut(0, n - rem) \in Seq(Byte)
          /\ Len(CopyOut(0, n - rem)) = n - rem
          /\ \A i \in 1 .. n - rem : CopyOut(0, n - rem)[i] = m_pBuffer[0 + i - 1]
      <4> DEFINE len == n - rem
      <4>1. len \in Nat /\ 0 + len <= m_BuffSize /\ 0 \in Nat
        BY <1>1, <2>2, <2>4
      <4> HIDE DEF len
      <4>2. /\ CopyOut(0, len) \in Seq(Byte)
            /\ Len(CopyOut(0, len)) = len
            /\ \A i \in 1 .. len : CopyOut(0, len)[i] = m_pBuffer[0 + i - 1]
        BY <1>1, <4>1, CopyOutReads
      <4> QED
        BY <4>2 DEF len
    <3>4. /\ out \in Seq(Byte)
          /\ Len(out) = n
          /\ \A i \in 1 .. n : out[i] = IF i <= rem THEN CopyOut(m_Reader, rem)[i]
                                                     ELSE CopyOut(0, n - rem)[i - rem]
      <4> DEFINE s1 == CopyOut(m_Reader, rem)
                 s2 == CopyOut(0, n - rem)
      <4>1. /\ s1 \in Seq(Byte) /\ s2 \in Seq(Byte)
            /\ Len(s1) = rem /\ Len(s2) = n - rem
        BY <3>2, <3>3
      <4> HIDE DEF s1, s2
      <4>2. /\ s1 \o s2 \in Seq(Byte)
            /\ Len(s1 \o s2) = Len(s1) + Len(s2)
            /\ \A i \in 1 .. Len(s1) + Len(s2) : (s1 \o s2)[i] =
                 IF i <= Len(s1) THEN s1[i] ELSE s2[i - Len(s1)]
        BY <4>1, ConcatProperties
      <4>3. Len(s1) + Len(s2) = n
        BY <1>1, <2>2, <2>4, <4>1
      <4>4. /\ s1 \o s2 \in Seq(Byte)
            /\ Len(s1 \o s2) = n
            /\ \A i \in 1 .. n : (s1 \o s2)[i] = IF i <= rem THEN s1[i] ELSE s2[i - rem]
        BY <4>1, <4>2, <4>3
      <4> QED
        BY <4>4 DEF s1, s2
    <3> HIDE DEF out
    <3>5. ASSUME NEW i \in 1 .. n
          PROVE  out[i] = SubSeq(Contents, 1, n)[i]
      <4>1. /\ i - 1 \in 0 .. GetUsedSize - 1
            /\ i \in 1 .. GetUsedSize
        BY <1>1, <2>2
      <4>2. Contents[i] = m_pBuffer[(m_Reader + (i - 1)) % m_BuffSize]
        BY <1>1, <4>1 DEF Contents
      <4>3. CASE i <= rem
        <5>1. i \in 1 .. rem /\ m_Reader + (i - 1) < m_BuffSize
          BY <1>1, <2>2, <2>3, <2>4, <4>3
        <5>2. (m_Reader + (i - 1)) % m_BuffSize = m_Reader + i - 1
          BY <1>1, <2>5, <4>1, <5>1
        <5> QED
          BY <3>1, <3>2, <3>4, <4>2, <4>3, <5>1, <5>2
      <4>4. CASE ~(i <= rem)
        <5>1. i - rem \in 1 .. n - rem /\ ~(m_Reader + (i - 1) < m_BuffSize)
              /\ m_Reader + (i - 1) - m_BuffSize = 0 + (i - rem) - 1
          BY <1>1, <2>2, <2>3, <2>4, <4>4
        <5>2. (m_Reader + (i - 1)) % m_BuffSize = 0 + (i - rem) - 1
          BY <1>1, <2>5, <4>1, <5>1
        <5> QED
          BY <3>1, <3>3, <3>4, <4>2, <4>4, <5>1, <5>2
      <4> QED
        BY <4>3, <4>4
    <3> QED
      BY <3>1, <3>4, <3>5, SeqEqual
  <2>7. reader = IF m_Reader + n < m_BuffSize THEN m_Reader + n ELSE m_Reader + n - m_BuffSize
    <3> DEFINE x == m_Reader + n
    <3>1. x \in Int /\ 0 <= x /\ x < 2 * m_BuffSize
      BY <1>1, <2>2
    <3> HIDE DEF x
    <3>2. x % m_BuffSize = IF x < m_BuffSize THEN x ELSE x - m_BuffSize
      BY <3>1, ModOnce
    <3> QED
      BY <1>1, <2>2, <3>2 DEF x
  <2> HIDE DEF reader
  <2>8. reader \in 0 .. m_BuffSize - 1
    BY <1>1, <2>2, <2>7
  <2>9. TypeOK'
    <3>1. ret' \in [len : 0 .. m_BuffSize, bytes : Seq(Byte)]
      <4>1. SubSeq(Contents, 1, n) \in Seq(Byte)
        <5>1. \A i \in 1 .. n : Contents[i] \in Byte
          BY <1>1, <1>3, <2>2
        <5> QED
          BY <1>1, <2>2, <5>1, SubSeqProperties
      <4>2. ret' = [len |-> n, bytes |-> SubSeq(Contents, 1, n)]
        BY <2>1, <2>6
      <4> QED
        BY <1>1, <2>2, <4>1, <4>2
    <3> QED
      BY <1>1, <1>5, <2>1, <2>8, <3>1 DEF TypeOK, Index
  <2>10. FullMeansIndicesMeet'
    BY <2>1 DEF FullMeansIndicesMeet
  <2>11. GetUsedSize' = GetUsedSize - n
    <3>1. GetUsedSize' = IF m_Writer >= reader THEN m_Writer - reader
                                               ELSE m_Writer + m_BuffSize - reader
      BY <1>5, <2>1, <2>9, UsedSizeNext DEF UsedSizeByCases
    <3>2. CASE m_IsFull
      <4>1. GetUsedSize = m_BuffSize /\ m_Writer = m_Reader
        BY <3>2, UsedSize DEF UsedSizeByCases, FullMeansIndicesMeet
      <4> QED
        BY <1>1, <2>2, <2>7, <3>1, <4>1
    <3>3. CASE ~m_IsFull
      <4>1. GetUsedSize = IF m_Writer >= m_Reader THEN m_Writer - m_Reader
                                                  ELSE m_Writer + m_BuffSize - m_Reader
        BY <3>3, UsedSize DEF UsedSizeByCases
      <4> QED
        BY <1>1, <2>2, <2>7, <3>1, <4>1
    <3> QED
      BY <3>2, <3>3
  <2>12. Contents' = SubSeq(Contents, n + 1, GetUsedSize)
    <3> DEFINE rest == SubSeq(Contents, n + 1, GetUsedSize)
    <3>1. /\ rest \in Seq(Byte)
          /\ Len(rest) = GetUsedSize - n
          /\ \A i \in 1 .. GetUsedSize - n : rest[i] = Contents[n + i]
      <4>1. \A i \in n + 1 .. GetUsedSize : Contents[i] \in Byte
        BY <1>1, <1>3, <2>2
      <4>2. /\ rest \in Seq(Byte)
            /\ Len(rest) = IF n + 1 <= GetUsedSize THEN GetUsedSize - (n + 1) + 1 ELSE 0
            /\ \A i \in 1 .. GetUsedSize - (n + 1) + 1 : rest[i] = Contents[(n + 1) + i - 1]
        BY <1>1, <2>2, <4>1, SubSeqProperties
      <4> QED
        BY <1>1, <2>2, <4>2
    <3>2. Contents' \in Seq(Byte) /\ Len(Contents') = GetUsedSize - n
      BY <2>9, <2>11, ContentsTypeNext DEF ContentsBytes
    <3>3. ASSUME NEW i \in 1 .. GetUsedSize - n
          PROVE  Contents'[i] = rest[i]
      <4> DEFINE x == reader + (i - 1)
                 y == m_Reader + (n + i - 1)
      <4>1. /\ i \in 1 .. GetUsedSize'
            /\ n + i \in 1 .. GetUsedSize
        BY <1>1, <2>2, <2>11
      <4>2. Contents'[i] = m_pBuffer[(reader + (i - 1)) % m_BuffSize]
        BY <1>1, <1>5, <2>1, <2>2, <2>8, <2>11, <4>1 DEF Contents
      <4>3. Contents[n + i] = m_pBuffer[(m_Reader + (n + i - 1)) % m_BuffSize]
        BY <1>1, <2>2, <4>1 DEF Contents
      <4>4. /\ x \in Int /\ 0 <= x
            /\ y \in Int /\ y < 2 * m_BuffSize
            /\ y = x \/ y = x + m_BuffSize
        BY <1>1, <2>2, <2>7, <2>8, <4>1
      <4> HIDE DEF x, y
      <4>5. y % m_BuffSize = x % m_BuffSize
        BY <4>4, SameSlot
      <4> USE DEF x, y
      <4> QED
        BY <3>1, <4>2, <4>3, <4>5
    <3> QED
      BY <3>1, <3>2, <3>3, SeqEqual
  <2>13. Abstract!Get(size)
    BY <1>3, <1>4, <2>1, <2>6, <2>12 DEF Abstract!Get
  <2> QED
    BY <2>9, <2>10, <2>13
<1> QED
  BY <1>6, <1>7

-----------------------------------------------------------------------------
Safe == TypeOK /\ FullMeansIndicesMeet

\* Every step is a write or a read of the abstract queue, or changes nothing.
LEMMA Step ==
  ASSUME Safe, [Next]_vars
  PROVE  Safe' /\ [Abstract!Next]_(Abstract!qvars)
<1>1. ASSUME NEW pBuff \in Input, RingBufferWrite(pBuff)
      PROVE  Safe' /\ Abstract!Next
  BY <1>1, WriteStep DEF Safe, Abstract!Next
<1>2. ASSUME NEW size \in Request, RingBufferRead(size)
      PROVE  Safe' /\ Abstract!Next
  BY <1>2, ReadStep DEF Safe, Abstract!Next
<1>3. CASE UNCHANGED vars
  <2>1. UNCHANGED <<Contents, ret>>
    BY <1>3 DEF vars, Contents, GetUsedSize
  <2> QED
    BY <1>3, <2>1 DEF vars, Safe, TypeOK, FullMeansIndicesMeet, Abstract!qvars
<1> QED
  BY <1>1, <1>2, <1>3 DEF Next

\* The initial ring buffer is the empty queue.
LEMMA Start == Init => Safe /\ Abstract!Init
<1> SUFFICES ASSUME Init PROVE Safe /\ Abstract!Init
  OBVIOUS
<1>1. TypeOK
  BY EmptySeq DEF Init, RingBufferCreate, TypeOK, Index
<1>2. GetUsedSize = 0
  BY <1>1, UsedSize DEF Init, RingBufferCreate, UsedSizeByCases
<1>3. Contents = <<>>
  BY <1>1, <1>2, ContentsType, EmptySeq DEF ContentsBytes
<1> QED
  BY <1>1, <1>3 DEF Init, RingBufferCreate, Safe, FullMeansIndicesMeet, Abstract!Init

\* For every buffer size and input, both indices stay inside the array and
\* what a call hands back fits it (GS_COMM_RingBufferWrite and Read).
THEOREM RingBufferTypeOK == Spec => []TypeOK
<1>1. Init => Safe
  BY Start
<1>2. Safe /\ [Next]_vars => Safe'
  BY Step
<1>3. Safe => TypeOK
  BY DEF Safe
<1> QED
  BY <1>1, <1>2, <1>3, PTL DEF Spec

\* For every buffer size and input, the full flag is set only while the
\* indices meet (m_IsFull, GS_COMM_RingBufferGetUsedSize).
THEOREM RingBufferFullFlag == Spec => []FullMeansIndicesMeet
<1>1. Init => Safe
  BY Start
<1>2. Safe /\ [Next]_vars => Safe'
  BY Step
<1>3. Safe => FullMeansIndicesMeet
  BY DEF Safe
<1> QED
  BY <1>1, <1>2, <1>3, PTL DEF Spec

\* For every buffer size and input, the ring buffer implements the bounded
\* first-in first-out byte queue: nothing is lost, repeated or reordered
\* between GS_COMM_RingBufferWrite and GS_COMM_RingBufferRead.
THEOREM RingBufferImplementsQueue == Spec => ImplementsQueue
<1>1. Init => Safe /\ Abstract!Init
  BY Start
<1>2. Safe /\ [Next]_vars => Safe' /\ [Abstract!Next]_(Abstract!qvars)
  BY Step
<1> QED
  BY <1>1, <1>2, PTL DEF Spec, ImplementsQueue, Abstract!Spec
=============================================================================
