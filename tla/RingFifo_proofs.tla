--------------------------- MODULE RingFifo_proofs ---------------------------
(***************************************************************************)
(* What holds of the frame buffer for every number of slots, every set of  *)
(* frame shapes and every number of puts.  The range of the count rests on *)
(* what each thread had read before its store; the order of the lent       *)
(* frames on where the frames lie in the ring, as long as no update of the *)
(* count is lost.  Positions are compared by differences, not by remainders*)
(* modulo NMAX, so that the arithmetic stays linear.                       *)
(***************************************************************************)
EXTENDS RingFifo, SequenceTheorems, TLAPS

USE NMAXAssumption, MaxPutAssumption

\* A camera that is busy has a frame in hand, the next one.
FrameInHand ==
  cpc # "idle" => puts < MaxPut /\ cframe.num = puts + 1

\* What each thread knows of the count between its test and its store.
CountInv ==
  /\ CountInRange
  /\ cpc \in {"copy", "copied", "load"} => n < NMAX
  /\ cpc = "store" => cn \in 0 .. NMAX - 1
  /\ gpc = "load" => n > 0
  /\ gpc = "store" => gn \in 1 .. NMAX

\* The frames in the ring so far.
Placed == puts + (IF cpc \in {"load", "store"} THEN 1 ELSE 0)

\* The number of the frame that lies in slot s; below 1 if none does.
NumberIn(s) == Placed - iput + 1 + s - (IF s < iput THEN 0 ELSE NMAX)

\* The count is exact, and no more frames are under way than there are slots.
CountExact ==
  /\ n = puts - gets
  /\ Taken <= puts
  /\ Placed - gets <= NMAX
  /\ cpc \in {"copy", "copied"} => puts + 1 - gets <= NMAX

\* iget is as far behind iput as the frames taken are behind those placed.
IndicesAgree ==
  \/ Taken - iget = Placed - iput
  \/ Taken - iget = Placed - iput - NMAX

SlotsHold ==
  \A s \in Slot :
    NumberIn(s) >= 1 => /\ slot[s].head.num = NumberIn(s)
                        /\ slot[s].data = NumberIn(s) \/ (cpc = "copied" /\ s = iput)

\* The slot lent last is the one of frame Taken, until it is filled again.
LentPlace ==
  /\ Taken >= 1 /\ Placed < Taken + NMAX => NumberIn(pos) = Taken
  /\ gets = 0 => info = NoFrame /\ gpc \notin {"info", "held"}
  /\ gets >= 1 /\ gpc \in {"idle", "held"} =>
       info.num = gets \/ puts >= gets + NMAX - 1

OrderInv == ~ lost => CountExact /\ IndicesAgree /\ SlotsHold /\ LentPlace

\* The inductive invariant.
RingInv == RingTypeOK /\ FrameInHand /\ CountInv /\ OrderInv
-----------------------------------------------------------------------------
(* The initial state *)

LEMMA RingInitInv == RingInit => RingInv
<1> SUFFICES ASSUME RingInit PROVE RingInv
  OBVIOUS
<1>1. RingTypeOK
  <2>1. NoFrame \in Frame
    BY DEF NoFrame, Frame, Torn
  <2>2. slot \in [Slot -> [data : Number \union {Torn}, head : Frame]]
    BY <2>1 DEF RingInit
  <2>3. 0 \in Slot
    BY DEF Slot
  <2>4. iput \in Slot /\ iget \in Slot /\ pos \in Slot /\ cframe \in Frame /\ info \in Frame
    BY <2>1, <2>3 DEF RingInit
  <2>5. n \in Int /\ cn \in Int /\ gn \in Int /\ puts \in 0 .. MaxPut /\ gets \in Nat
    BY DEF RingInit
  <2>6. cpc = "idle" /\ gpc = "idle" /\ lost = FALSE
    BY DEF RingInit
  <2> QED
    BY <2>2, <2>4, <2>5, <2>6 DEF RingTypeOK
<1>2. FrameInHand /\ CountInv
  BY DEF RingInit, FrameInHand, CountInv, CountInRange
<1>3. CountExact /\ IndicesAgree /\ LentPlace
  BY DEF RingInit, CountExact, IndicesAgree, LentPlace, Placed, Taken
<1>4. SlotsHold
  BY DEF RingInit, SlotsHold, NumberIn, Placed, Slot
<1> QED
  BY <1>1, <1>2, <1>3, <1>4 DEF RingInv, OrderInv
-----------------------------------------------------------------------------
(* Types and the range of the count *)

LEMMA RingTypeStep ==
  ASSUME RingTypeOK, FrameInHand, [RingNext]_ring
  PROVE  RingTypeOK' /\ FrameInHand'
<1> USE DEF RingTypeOK, FrameInHand, Frame, Number
<1>1. ASSUME NEW shape \in Shape, PutTest(shape) PROVE RingTypeOK' /\ FrameInHand'
  BY <1>1 DEF PutTest, taker
<1>2. CASE PutCopy
  BY <1>2 DEF PutCopy, taker
<1>3. CASE PutCopied
  <2>1. iput' \in Slot
    BY <1>3 DEF PutCopied, addring, Slot
  <2>2. slot' \in [Slot -> [data : Number \union {Torn}, head : Frame]]
    BY <1>3 DEF PutCopied
  <2> QED
    BY <1>3, <2>1, <2>2 DEF PutCopied, taker
<1>4. CASE PutLoad
  BY <1>4 DEF PutLoad, taker
<1>5. CASE PutStore
  BY <1>5 DEF PutStore, taker, NoFrame
<1>6. CASE GetTest
  BY <1>6 DEF GetTest, addring, Slot, camera
<1>7. CASE GetLoad
  BY <1>7 DEF GetLoad, camera
<1>8. CASE GetStore
  BY <1>8 DEF GetStore, camera
<1>9. CASE GetInfo
  BY <1>9 DEF GetInfo, camera
<1>10. CASE Release
  BY <1>10 DEF Release, camera
<1>11. CASE Reuse
  BY <1>11 DEF Reuse, camera
<1>12. CASE UNCHANGED ring
  BY <1>12 DEF ring, camera, taker
<1> QED
  BY <1>1, <1>2, <1>3, <1>4, <1>5, <1>6, <1>7, <1>8, <1>9, <1>10, <1>11, <1>12
  DEF RingNext, PutSteps, GetSteps

\* A step of the camera leaves what the schedule thread knows, and the other way round:
\* n + 1 is at least 1, and n - 1 is at most NMAX - 1.
LEMMA CountStep ==
  ASSUME RingTypeOK, CountInv, [RingNext]_ring
  PROVE  CountInv'
<1> USE DEF RingTypeOK, CountInv, CountInRange
<1>1. ASSUME NEW shape \in Shape, PutTest(shape) PROVE CountInv'
  BY <1>1 DEF PutTest, HasRoom, taker
<1>2. CASE PutCopy
  BY <1>2 DEF PutCopy, taker
<1>3. CASE PutCopied
  BY <1>3 DEF PutCopied, taker
<1>4. CASE PutLoad
  BY <1>4 DEF PutLoad, taker
<1>5. CASE PutStore
  BY <1>5 DEF PutStore, taker
<1>6. CASE GetTest
  BY <1>6 DEF GetTest, HasFrame, camera
<1>7. CASE GetLoad
  BY <1>7 DEF GetLoad, camera
<1>8. CASE GetStore
  BY <1>8 DEF GetStore, camera
<1>9. CASE GetInfo
  BY <1>9 DEF GetInfo, camera
<1>10. CASE Release
  BY <1>10 DEF Release, camera
<1>11. CASE Reuse
  BY <1>11 DEF Reuse, camera
<1>12. CASE UNCHANGED ring
  BY <1>12 DEF ring, camera, taker
<1> QED
  BY <1>1, <1>2, <1>3, <1>4, <1>5, <1>6, <1>7, <1>8, <1>9, <1>10, <1>11, <1>12
  DEF RingNext, PutSteps, GetSteps
-----------------------------------------------------------------------------
(* The order of the frames *)

Exact == CountExact /\ IndicesAgree /\ SlotsHold /\ LentPlace

LEMMA Numbers ==
  ASSUME RingTypeOK
  PROVE  /\ iput \in 0 .. NMAX - 1 /\ iget \in 0 .. NMAX - 1 /\ pos \in 0 .. NMAX - 1
         /\ puts \in Nat /\ gets \in Nat /\ n \in Int /\ cn \in Int /\ gn \in Int
BY DEF RingTypeOK, Slot

\* A step that moves neither the indices nor the frames keeps what lies in the slots.
LEMMA SlotsKept ==
  ASSUME RingTypeOK, SlotsHold, Placed' = Placed, UNCHANGED <<iput, slot>>, cpc # "copied"
  PROVE  SlotsHold'
BY DEF SlotsHold, NumberIn

\* The camera ends its copy: the frame lies in slot iput, the others where they were.
LEMMA OrderPutCopied ==
  ASSUME RingTypeOK, FrameInHand, Exact, PutCopied
  PROVE  Exact'
<1>1. /\ cpc = "copied" /\ cpc' = "load" /\ iput' = addring(iput)
      /\ slot' = [slot EXCEPT ![iput] = [data |-> cframe.num, head |-> cframe]]
      /\ UNCHANGED <<iget, gpc, pos, gn, info, gets, puts, n>>
  BY DEF PutCopied, taker
<1>2. cframe.num = puts + 1
  BY <1>1 DEF FrameInHand
<1>3. Placed = puts /\ Placed' = puts + 1 /\ Taken' = Taken /\ Taken \in {gets, gets + 1}
  BY <1>1, Numbers DEF Placed, Taken
<1>4. puts + 1 - gets <= NMAX /\ n = puts - gets /\ Taken <= puts
  BY <1>1 DEF Exact, CountExact
<1>5. CountExact'
  BY <1>1, <1>3, <1>4, Numbers DEF CountExact
<1>6. IndicesAgree'
  BY <1>1, <1>3, <1>4, Numbers DEF Exact, IndicesAgree, addring
<1>7. ASSUME NEW s \in Slot, s # iput
      PROVE  NumberIn(s)' = NumberIn(s)
  BY <1>1, <1>3, <1>7, Numbers DEF NumberIn, addring, Slot
<1>8. NumberIn(iput) = puts + 1 - NMAX
  BY <1>3, Numbers DEF NumberIn
<1>9. ASSUME NEW s \in Slot, s = iput
      PROVE  NumberIn(s)' = puts + 1
  BY <1>1, <1>3, <1>9, Numbers DEF NumberIn, addring
<1>10. SlotsHold'
  <2>1. SUFFICES ASSUME NEW s \in Slot, NumberIn(s)' >= 1
                 PROVE  slot'[s].head.num = NumberIn(s)' /\ slot'[s].data = NumberIn(s)'
    BY DEF SlotsHold
  <2>2. CASE s = iput
    BY <1>1, <1>2, <1>9, <2>2 DEF RingTypeOK
  <2>3. CASE s # iput
    <3>1. slot'[s] = slot[s] /\ NumberIn(s)' = NumberIn(s)
      BY <1>1, <1>7, <2>3 DEF RingTypeOK
    <3> QED
      BY <2>1, <2>3, <3>1 DEF Exact, SlotsHold
  <2> QED
    BY <2>2, <2>3
<1>11. LentPlace'
  <2>1. ASSUME Taken' >= 1, Placed' < Taken' + NMAX
        PROVE  NumberIn(pos)' = Taken'
    <3>1. NumberIn(pos) = Taken
      BY <1>3, <2>1, Numbers DEF Exact, LentPlace
    <3>2. pos # iput
      BY <1>3, <1>8, <2>1, <3>1, Numbers
    <3>3. pos \in Slot
      BY DEF RingTypeOK
    <3> QED
      BY <1>1, <1>3, <1>7, <3>1, <3>2, <3>3
  <2> QED
    BY <1>1, <2>1 DEF Exact, LentPlace
<1> QED
  BY <1>5, <1>6, <1>10, <1>11 DEF Exact

\* The rest of ringput.
LEMMA OrderPut ==
  ASSUME RingTypeOK, FrameInHand, Exact, ~ lost',
         (\E shape \in Shape : PutTest(shape)) \/ PutCopy \/ PutLoad \/ PutStore
  PROVE  Exact'
<1> USE DEF RingTypeOK
<1>1. ASSUME NEW shape \in Shape, PutTest(shape)
      PROVE  Exact'
  <2>1. /\ cpc = "idle" /\ cpc' = "copy" /\ n < NMAX
        /\ UNCHANGED <<iput, iget, gpc, pos, gn, info, gets, puts, n, slot>>
    BY <1>1 DEF PutTest, HasRoom, taker
  <2>2. Placed' = Placed /\ Taken' = Taken /\ Placed = puts
    BY <2>1 DEF Placed, Taken
  <2>3. CountExact'
    BY <2>1, <2>2, Numbers DEF Exact, CountExact
  <2>4. SlotsHold'
    BY <2>1, <2>2, SlotsKept DEF Exact
  <2>5. NumberIn(pos)' = NumberIn(pos)
    BY <2>1, <2>2 DEF NumberIn
  <2> QED
    BY <2>1, <2>2, <2>3, <2>4, <2>5 DEF Exact, IndicesAgree, LentPlace
<1>2. CASE PutCopy
  <2>1. /\ cpc = "copy" /\ cpc' = "copied" /\ slot' = [slot EXCEPT ![iput].data = Torn]
        /\ UNCHANGED <<iput, iget, gpc, pos, gn, info, gets, puts, n>>
    BY <1>2 DEF PutCopy, taker
  <2>2. Placed' = Placed /\ Taken' = Taken /\ Placed = puts
    BY <2>1 DEF Placed, Taken
  <2>3. \A s \in Slot : NumberIn(s)' = NumberIn(s)
    BY <2>1, <2>2 DEF NumberIn
  <2>4. \A s \in Slot : slot'[s].head = slot[s].head /\ (s # iput => slot'[s] = slot[s])
    BY <2>1
  <2>5. SlotsHold'
    BY <2>1, <2>3, <2>4 DEF Exact, SlotsHold
  <2> QED
    BY <2>1, <2>2, <2>3, <2>5 DEF Exact, CountExact, IndicesAgree, LentPlace
<1>3. CASE PutLoad
  <2>1. /\ cpc = "load" /\ cpc' = "store"
        /\ UNCHANGED <<iput, iget, gpc, pos, gn, info, gets, puts, n, slot>>
    BY <1>3 DEF PutLoad, taker
  <2>2. Placed' = Placed /\ Taken' = Taken
    BY <2>1 DEF Placed, Taken
  <2>3. SlotsHold'
    BY <2>1, <2>2, SlotsKept DEF Exact
  <2>4. NumberIn(pos)' = NumberIn(pos)
    BY <2>1, <2>2 DEF NumberIn
  <2> QED
    BY <2>1, <2>2, <2>3, <2>4 DEF Exact, CountExact, IndicesAgree, LentPlace
<1>4. CASE PutStore
  <2>1. /\ cpc = "store" /\ cpc' = "idle" /\ n' = n + 1 /\ puts' = puts + 1
        /\ UNCHANGED <<iput, iget, gpc, pos, gn, info, gets, slot>>
    BY <1>4 DEF PutStore, taker
  <2>2. Placed' = Placed /\ Taken' = Taken
    BY <2>1, Numbers DEF Placed, Taken
  <2>3. CountExact'
    BY <2>1, <2>2, Numbers DEF Exact, CountExact, Taken
  <2>4. SlotsHold'
    BY <2>1, <2>2, SlotsKept DEF Exact
  <2>5. NumberIn(pos)' = NumberIn(pos)
    BY <2>1, <2>2 DEF NumberIn
  <2>6. LentPlace'
    BY <2>1, <2>2, <2>5, Numbers DEF Exact, LentPlace
  <2> QED
    BY <2>1, <2>2, <2>3, <2>4, <2>6 DEF Exact, IndicesAgree
<1> QED
  BY <1>1, <1>2, <1>3, <1>4

\* ringget takes the slot of the next frame.
LEMMA OrderGetTest ==
  ASSUME RingTypeOK, Exact, GetTest
  PROVE  Exact'
<1>1. /\ gpc = "idle" /\ gpc' = "load" /\ n > 0 /\ pos' = iget /\ iget' = addring(iget)
      /\ UNCHANGED <<iput, cpc, puts, gn, info, gets, n, slot>>
  BY DEF GetTest, HasFrame, camera
<1>2. Placed' = Placed /\ Taken = gets /\ Taken' = gets + 1 /\ Placed \in {puts, puts + 1}
  BY <1>1, Numbers DEF Placed, Taken
<1>3. n = puts - gets /\ Placed - gets <= NMAX
  BY DEF Exact, CountExact
<1>4. CountExact'
  BY <1>1, <1>2, <1>3, Numbers DEF Exact, CountExact
<1>5. IndicesAgree'
  BY <1>1, <1>2, <1>3, Numbers DEF Exact, IndicesAgree, addring
<1>6. \A s \in Slot : NumberIn(s)' = NumberIn(s)
  BY <1>1, <1>2 DEF NumberIn
<1>7. SlotsHold'
  BY <1>1, <1>6 DEF Exact, SlotsHold
<1>8. NumberIn(iget) = gets + 1
  BY <1>1, <1>2, <1>3, Numbers DEF Exact, IndicesAgree, NumberIn
<1>9. iget \in Slot
  BY DEF RingTypeOK
<1>10. NumberIn(pos)' = NumberIn(iget)
  BY <1>1, <1>2 DEF NumberIn
<1>11. LentPlace'
  BY <1>1, <1>2, <1>8, <1>10, Numbers DEF Exact, LentPlace
<1> QED
  BY <1>4, <1>5, <1>7, <1>11 DEF Exact

\* The rest of ringget, and what comes after it.
LEMMA OrderGet ==
  ASSUME RingTypeOK, FrameInHand, Exact, ~ lost', GetSteps \/ Release \/ Reuse
  PROVE  Exact'
<1>1. CASE GetLoad
  <2>1. /\ gpc = "load" /\ gpc' = "store"
        /\ UNCHANGED <<iput, cpc, puts, iget, pos, info, gets, n, slot>>
    BY <1>1 DEF GetLoad, camera
  <2> QED
    BY <2>1 DEF Exact, CountExact, IndicesAgree, SlotsHold, LentPlace, NumberIn, Placed, Taken
<1>2. CASE GetStore
  <2>1. /\ gpc = "store" /\ gpc' = "info" /\ n' = n - 1 /\ gets' = gets + 1
        /\ UNCHANGED <<iput, cpc, puts, iget, pos, info, slot>>
    BY <1>2 DEF GetStore, camera
  <2>2. Placed' = Placed /\ Taken' = Taken /\ Taken = gets + 1
    BY <2>1, Numbers DEF Placed, Taken
  <2>3. CountExact'
    BY <2>1, <2>2, Numbers DEF Exact, CountExact, Placed
  <2>4. \A s \in Slot : NumberIn(s)' = NumberIn(s)
    BY <2>1, <2>2 DEF NumberIn
  <2>5. SlotsHold'
    BY <2>1, <2>4 DEF Exact, SlotsHold
  <2>6. NumberIn(pos)' = NumberIn(pos)
    BY <2>1, <2>2 DEF NumberIn
  <2>7. LentPlace'
    BY <2>1, <2>2, <2>6, Numbers DEF Exact, LentPlace
  <2> QED
    BY <2>1, <2>2, <2>3, <2>5, <2>7 DEF Exact, IndicesAgree
<1>3. CASE GetInfo
  <2>1. /\ gpc = "info" /\ gpc' \in {"idle", "held"} /\ info' = slot[pos].head
        /\ UNCHANGED <<iput, cpc, puts, iget, pos, gets, n, slot>>
    BY <1>3 DEF GetInfo, camera
  <2>2. Placed' = Placed /\ Taken' = Taken /\ Taken = gets /\ Placed \in {puts, puts + 1}
    BY <2>1, Numbers DEF Placed, Taken
  <2>3. CountExact' /\ IndicesAgree'
    BY <2>1, <2>2 DEF Exact, CountExact, IndicesAgree
  <2>4. \A s \in Slot : NumberIn(s)' = NumberIn(s)
    BY <2>1, <2>2 DEF NumberIn
  <2>5. SlotsHold'
    BY <2>1, <2>4 DEF Exact, SlotsHold
  <2>6. NumberIn(pos)' = NumberIn(pos) /\ pos \in Slot
    BY <2>1, <2>2 DEF NumberIn, RingTypeOK
  <2>7. gets >= 1 /\ (Placed < gets + NMAX => NumberIn(pos) = gets)
    BY <2>1, <2>2, Numbers DEF Exact, LentPlace
  <2>8. info'.num = gets \/ puts >= gets + NMAX - 1
    BY <2>1, <2>2, <2>6, <2>7, Numbers DEF Exact, SlotsHold
  <2>9. LentPlace'
    BY <2>1, <2>2, <2>6, <2>7, <2>8 DEF LentPlace
  <2> QED
    BY <2>3, <2>5, <2>9 DEF Exact
<1>4. CASE Release
  <2>1. /\ gpc = "held" /\ gpc' = "idle"
        /\ UNCHANGED <<iput, cpc, puts, iget, pos, info, gets, n, slot>>
    BY <1>4 DEF Release, camera
  <2> QED
    BY <2>1 DEF Exact, CountExact, IndicesAgree, SlotsHold, LentPlace, NumberIn, Placed, Taken
<1>5. CASE Reuse
  <2>1. /\ gpc = "idle" /\ gpc' = "held" /\ info # NoFrame
        /\ UNCHANGED <<iput, cpc, puts, iget, pos, info, gets, n, slot>>
    BY <1>5 DEF Reuse, camera
  <2> QED
    BY <2>1 DEF Exact, CountExact, IndicesAgree, SlotsHold, LentPlace, NumberIn, Placed, Taken
<1> QED
  BY <1>1, <1>2, <1>3, <1>4, <1>5 DEF GetSteps

LEMMA OrderStep ==
  ASSUME RingTypeOK, FrameInHand, OrderInv, [RingNext]_ring
  PROVE  OrderInv'
<1>1. SUFFICES ASSUME ~ lost' PROVE Exact'
  BY DEF OrderInv, Exact
<1>2. ~ lost
  BY <1>1 DEF RingNext, PutSteps, GetSteps, PutTest, PutCopy, PutCopied, PutLoad, PutStore,
     GetTest, GetLoad, GetStore, GetInfo, Release, Reuse, ring
<1>3. Exact
  BY <1>2 DEF OrderInv, Exact
<1>4. CASE UNCHANGED ring
  BY <1>3, <1>4 DEF ring, camera, taker, Exact, CountExact, IndicesAgree, SlotsHold, LentPlace,
     NumberIn, Placed, Taken
<1>5. CASE RingNext
  BY <1>1, <1>3, <1>5, OrderPutCopied, OrderPut, OrderGetTest, OrderGet
  DEF RingNext, PutSteps
<1> QED
  BY <1>4, <1>5
-----------------------------------------------------------------------------
(* The conclusions *)

LEMMA RingInvStep ==
  ASSUME RingInv, [RingNext]_ring
  PROVE  RingInv'
BY RingTypeStep, CountStep, OrderStep DEF RingInv

\* LentIntact: the slot lent last holds frame gets, and the camera is not copying into it.
LEMMA RingInvLentIntact == RingInv => LentIntact
<1> SUFFICES ASSUME RingInv, ~ lost, gpc = "held", ~ (puts >= gets + NMAX - 1)
             PROVE  info.num = gets /\ slot[pos].data = gets
  BY DEF LentIntact
<1>1. CountExact /\ SlotsHold /\ LentPlace
  BY DEF RingInv, OrderInv
<1>2. RingTypeOK /\ pos \in Slot
  BY DEF RingInv, RingTypeOK
<1>3. Taken = gets /\ Placed \in {puts, puts + 1} /\ (cpc = "copied" => Placed = puts)
  BY <1>2, Numbers DEF Taken, Placed
<1>4. gets >= 1
  BY <1>1, <1>2, Numbers DEF LentPlace
<1>5. info.num = gets
  BY <1>1, <1>4 DEF LentPlace
<1>6. NumberIn(pos) = gets
  BY <1>1, <1>2, <1>3, <1>4, Numbers DEF LentPlace
<1>7. ~ (cpc = "copied" /\ pos = iput)
  BY <1>2, <1>3, <1>6, Numbers DEF NumberIn
<1> QED
  BY <1>1, <1>2, <1>4, <1>5, <1>6, <1>7 DEF SlotsHold

(* For every ring, however its threads interleave: indices stay in the ring, the unlocked
   count in 0 .. NMAX, and a lent frame is whole until NMAX - 1 more have been put. *)
THEOREM RingSafety == RingSpec => [](RingTypeOK /\ CountInRange /\ LentIntact)
<1>1. RingInit => RingInv
  BY RingInitInv
<1>2. RingInv /\ [RingNext]_ring => RingInv'
  BY RingInvStep
<1>3. RingInv => RingTypeOK /\ CountInRange /\ LentIntact
  BY RingInvLentIntact DEF RingInv, CountInv
<1> QED
  BY <1>1, <1>2, <1>3, PTL DEF RingSpec
-----------------------------------------------------------------------------
(* The ring as a queue of frames *)

\* Every frame in hand or in a slot has a shape that ringput was told.
ShapesInv ==
  /\ cpc # "idle" => cframe.shape \in Shape
  /\ \A s \in Slot : slot[s].head.num # Torn => slot[s].head.shape \in Shape

LEMMA ShapesStep ==
  ASSUME RingTypeOK, ShapesInv, [RingNext]_ring
  PROVE  ShapesInv'
<1> USE DEF ShapesInv, RingTypeOK
<1>1. ASSUME NEW shape \in Shape, PutTest(shape) PROVE ShapesInv'
  BY <1>1 DEF PutTest
<1>2. CASE PutCopy
  BY <1>2 DEF PutCopy
<1>3. CASE PutCopied
  BY <1>3 DEF PutCopied
<1>4. CASE PutLoad \/ PutStore
  BY <1>4 DEF PutLoad, PutStore
<1>5. CASE GetTest \/ GetSteps \/ Release \/ Reuse \/ UNCHANGED ring
  <2>1. UNCHANGED <<cpc, cframe, slot>>
    BY <1>5 DEF GetTest, GetSteps, GetLoad, GetStore, GetInfo, Release, Reuse, ring, camera
  <2> QED
    BY <2>1
<1> QED
  BY <1>1, <1>2, <1>3, <1>4, <1>5 DEF RingNext, PutSteps

\* A frame between iget and iput lies where its number says.
LEMMA FramePlaces ==
  ASSUME RingTypeOK, Exact, NEW i \in 1 .. Placed - Taken
  PROVE  Place(i) \in Slot /\ NumberIn(Place(i)) = Taken + i
<1>1. Placed \in Nat /\ Taken \in Nat /\ Placed - Taken <= NMAX /\ i \in Nat /\ i >= 1
  BY Numbers DEF Exact, CountExact, Placed, Taken
<1>2. CASE Taken - iget = Placed - iput
  <2>1. iget + i <= iput /\ Place(i) = iget + i - 1
    BY <1>1, <1>2, Numbers DEF Place
  <2> QED
    BY <1>1, <1>2, <2>1, Numbers DEF NumberIn, Slot
<1>3. CASE Taken - iget = Placed - iput - NMAX /\ iget + i <= NMAX
  <2>1. iput <= iget /\ Place(i) = iget + i - 1
    BY <1>1, <1>3, Numbers DEF Place
  <2> QED
    BY <1>1, <1>3, <2>1, Numbers DEF NumberIn, Slot
<1>4. CASE Taken - iget = Placed - iput - NMAX /\ ~ (iget + i <= NMAX)
  <2>1. iget + i - 1 - NMAX < iput /\ Place(i) = iget + i - 1 - NMAX
    BY <1>1, <1>4, Numbers DEF Place
  <2> QED
    BY <1>1, <1>4, <2>1, Numbers DEF NumberIn, Slot
<1> QED
  BY <1>2, <1>3, <1>4 DEF Exact, IndicesAgree

\* It lies there whole; and the camera copies into none of these slots.
LEMMA FrameHeld ==
  ASSUME RingTypeOK, Exact, ShapesInv, NEW i \in 1 .. Placed - Taken
  PROVE  /\ Held(i) = [num |-> Taken + i, shape |-> slot[Place(i)].head.shape]
         /\ slot[Place(i)].head.shape \in Shape
         /\ cpc \in {"copy", "copied"} => Place(i) # iput
<1>1. /\ Place(i) \in Slot /\ NumberIn(Place(i)) = Taken + i
      /\ Taken \in Nat /\ i \in Nat /\ i >= 1 /\ gets <= Taken /\ gets \in Nat
  BY FramePlaces, Numbers DEF Taken
<1>2. cpc \in {"copy", "copied"} => Place(i) # iput
  <2> SUFFICES ASSUME cpc \in {"copy", "copied"}, Place(i) = iput
               PROVE  FALSE
    OBVIOUS
  <2>1. Placed = puts /\ puts + 1 - gets <= NMAX
    BY Numbers DEF Placed, Exact, CountExact
  <2>2. NumberIn(iput) = Placed + 1 - NMAX
    BY <2>1, Numbers DEF NumberIn
  <2> QED
    BY <1>1, <2>1, <2>2, Numbers
<1>3. slot[Place(i)].head.num = Taken + i /\ slot[Place(i)].data = Taken + i
  BY <1>1, <1>2 DEF Exact, SlotsHold
<1>4. slot[Place(i)].head.shape \in Shape
  BY <1>1, <1>3 DEF ShapesInv, Torn
<1> QED
  BY <1>2, <1>3, <1>4 DEF Held

\* The frames that wait are a sequence of whole frames, no more than there are slots.
LEMMA WaitingType ==
  ASSUME RingTypeOK, Exact, ShapesInv
  PROVE  /\ Taken \in Nat /\ gets <= Taken /\ puts - Taken \in 0 .. NMAX
         /\ Placed - Taken \in {puts - Taken, puts - Taken + 1}
         /\ Waiting \in Seq([num : Nat, shape : Shape]) /\ Len(Waiting) = puts - Taken
<1>1. /\ Taken \in Nat /\ gets <= Taken /\ puts - Taken \in 0 .. NMAX
      /\ Placed - Taken \in {puts - Taken, puts - Taken + 1}
  BY Numbers DEF Taken, Placed, Exact, CountExact
<1>2. ASSUME NEW i \in 1 .. puts - Taken
      PROVE  Held(i) \in [num : Nat, shape : Shape]
  <2>1. i \in 1 .. Placed - Taken /\ Taken + i \in Nat
    BY <1>1
  <2> QED
    BY <2>1, FrameHeld
<1> DEFINE k == puts - Taken
<1>3. Waiting = [i \in 1 .. k |-> Held(i)] /\ \A i \in 1 .. k : Held(i) \in [num : Nat, shape : Shape]
  BY <1>2 DEF Waiting
<1>4. k \in Nat
  BY <1>1
<1> HIDE DEF k
<1>5. Waiting \in Seq([num : Nat, shape : Shape]) /\ Len(Waiting) = k
  BY <1>3, <1>4
<1> QED
  BY <1>1, <1>5 DEF k

\* A step that moves none of them leaves the queue as it is.
LEMMA FramesStand ==
  ASSUME ~ lost, lost' = lost, puts' = puts, Taken' = Taken,
         \A i \in 1 .. puts - Taken : Held(i)' = Held(i)
  PROVE  UNCHANGED Frames!queue
<1>1. Waiting' = Waiting
  BY DEF Waiting
<1> QED
  BY <1>1 DEF Frames!queue

\* The camera fills a slot that none of the waiting frames lies in.
LEMMA CopyingStands ==
  ASSUME RingTypeOK, Exact, ShapesInv, ~ lost, PutCopy \/ PutCopied
  PROVE  UNCHANGED Frames!queue
<1>1. /\ UNCHANGED <<iget, gets, gpc, puts, lost>> /\ cpc \in {"copy", "copied"}
      /\ \A s \in Slot : s # iput => slot'[s] = slot[s]
  BY DEF PutCopy, PutCopied, taker, RingTypeOK
<1>2. Taken' = Taken
  BY <1>1 DEF Taken
<1>3. ASSUME NEW i \in 1 .. puts - Taken
      PROVE  Held(i)' = Held(i)
  <2>1. i \in 1 .. Placed - Taken
    BY WaitingType
  <2>2. Place(i) \in Slot /\ Place(i) # iput
    BY <1>1, <2>1, FramePlaces, FrameHeld
  <2>3. Place(i)' = Place(i)
    BY <1>1 DEF Place
  <2>4. slot'[Place(i)] = slot[Place(i)]
    BY <1>1, <2>2
  <2> QED
    BY <2>3, <2>4 DEF Held
<1> QED
  BY <1>1, <1>2, <1>3, FramesStand

\* The camera's store to n puts the frame it has copied behind the others.
LEMMA StoringPuts ==
  ASSUME RingTypeOK, Exact, ShapesInv, ~ lost, lost' = lost, PutStore
  PROVE  Frames!Put
<1> DEFINE k == puts - Taken
           e == Held(k + 1)
<1>1. /\ UNCHANGED <<iget, gets, gpc, slot>> /\ puts' = puts + 1 /\ cpc = "store"
  BY DEF PutStore, taker
<1>2. /\ Taken \in Nat /\ k \in 0 .. NMAX /\ Placed = puts + 1 /\ Placed - gets <= NMAX
      /\ gets <= Taken /\ gets \in Nat /\ puts \in Nat
      /\ Waiting \in Seq([num : Nat, shape : Shape]) /\ Len(Waiting) = k
  BY <1>1, WaitingType, Numbers DEF Placed, Exact, CountExact
<1>3. k < NMAX /\ k + 1 \in 1 .. Placed - Taken /\ Taken + (k + 1) = puts + 1
  BY <1>2
<1>4. /\ e = [num |-> puts + 1, shape |-> slot[Place(k + 1)].head.shape]
      /\ slot[Place(k + 1)].head.shape \in Shape
  BY <1>3, FrameHeld
<1>5. Taken' = Taken /\ \A i \in 1 .. k + 1 : Held(i)' = Held(i)
  BY <1>1 DEF Taken, Held, Place
<1>6. Waiting' = [i \in 1 .. k + 1 |-> Held(i)]
  <2>1. puts' - Taken' = k + 1
    BY <1>1, <1>2, <1>5
  <2> QED
    BY <1>5, <2>1 DEF Waiting
<1>7. Waiting = [i \in 1 .. k |-> Held(i)]
  BY DEF Waiting
<1>8. e \in [num : Nat, shape : Shape]
  BY <1>2, <1>4
<1> HIDE DEF k
<1>9. Waiting' = Append(Waiting, e)
  <2>1. /\ Append(Waiting, e) \in Seq([num : Nat, shape : Shape])
        /\ Len(Append(Waiting, e)) = k + 1 /\ Append(Waiting, e)[k + 1] = e
        /\ \A i \in 1 .. k : Append(Waiting, e)[i] = Waiting[i]
    BY <1>2, <1>8, AppendProperties
  <2>2. DOMAIN Append(Waiting, e) = 1 .. k + 1
    BY <2>1
  <2>3. ASSUME NEW i \in 1 .. k + 1
        PROVE  Append(Waiting, e)[i] = Held(i)
    <3>1. CASE i = k + 1
      BY <2>1, <3>1
    <3>2. CASE i # k + 1
      <4>1. i \in 1 .. k
        BY <1>2, <3>2
      <4> QED
        BY <1>7, <2>1, <4>1
    <3> QED
      BY <3>1, <3>2
  <2>4. Append(Waiting, e) = [i \in DOMAIN Append(Waiting, e) |-> Append(Waiting, e)[i]]
    BY <2>1
  <2> QED
    BY <1>6, <2>2, <2>3, <2>4
<1> QED
  BY <1>1, <1>2, <1>3, <1>4, <1>9 DEF Frames!Put

\* ringget passes the oldest frame.
LEMMA TestingGets ==
  ASSUME RingTypeOK, Exact, ShapesInv, ~ lost, GetTest
  PROVE  Frames!Get
<1> DEFINE k == puts - Taken
<1>1. /\ UNCHANGED <<gets, puts, slot, lost>> /\ iget' = addring(iget)
      /\ gpc = "idle" /\ gpc' = "load" /\ n > 0
  BY DEF GetTest, HasFrame, camera
<1>2. /\ Taken = gets /\ Taken' = gets + 1 /\ gets \in Nat /\ k = n
  BY <1>1, Numbers DEF Taken, Exact, CountExact
<1>3. /\ k \in 1 .. NMAX /\ puts' - Taken' = k - 1
      /\ Waiting \in Seq([num : Nat, shape : Shape]) /\ Len(Waiting) = k
  BY <1>1, <1>2, WaitingType, Numbers
<1>4. ASSUME NEW i \in 1 .. k - 1
      PROVE  Held(i)' = Held(i + 1)
  <2>1. i \in Nat /\ i >= 1 /\ i + 1 <= NMAX
    BY <1>3
  <2>2. Place(i)' = Place(i + 1)
    BY <1>1, <2>1, Numbers DEF Place, addring
  <2> QED
    BY <1>1, <2>2 DEF Held
<1>5. Waiting = [i \in 1 .. k |-> Held(i)] /\ Waiting' = [i \in 1 .. k - 1 |-> Held(i + 1)]
  BY <1>3, <1>4 DEF Waiting
<1> HIDE DEF k
<1>6. Waiting # <<>>
  BY <1>3, EmptySeq
<1> DEFINE t == Tail(Waiting)
<1>7. t \in Seq([num : Nat, shape : Shape]) /\ Len(t) = k - 1 /\ \A i \in 1 .. k - 1 : t[i] = Waiting[i + 1]
  BY <1>3, <1>6, HeadTailProperties
<1>8. Waiting' = t
  <2>1. ASSUME NEW i \in 1 .. k - 1
        PROVE  t[i] = Held(i + 1)
    <3>1. i + 1 \in 1 .. k
      BY <1>3
    <3> QED
      BY <1>5, <1>7, <3>1
  <2> HIDE DEF t
  <2>2. t = [i \in 1 .. k - 1 |-> t[i]]
    BY <1>3, <1>7
  <2> QED
    BY <1>5, <2>1, <2>2
<1> QED
  BY <1>1, <1>6, <1>8 DEF Frames!Get

LEMMA StepUsesQueue ==
  ASSUME RingInv, ShapesInv, [RingNext]_ring
  PROVE  [Frames!Next]_(Frames!queue)
<1>1. RingTypeOK /\ (~ lost => Exact) /\ lost' \in BOOLEAN
  BY RingInvStep DEF RingInv, OrderInv, Exact, RingTypeOK
<1>2. CASE lost'
  BY <1>1, <1>2, Zenon DEF Frames!Next, Frames!Break
<1>3. CASE ~ lost'
  <2>1. ~ lost
    BY <1>3 DEF RingNext, PutSteps, GetSteps, PutTest, PutCopy, PutCopied, PutLoad, PutStore,
       GetTest, GetLoad, GetStore, GetInfo, Release, Reuse, ring
  <2>2. lost' = lost
    BY <1>1, <1>3, <2>1, Zenon DEF RingTypeOK
  <2>3. Exact
    BY <1>1, <2>1
  <2>4. CASE PutCopy \/ PutCopied
    BY <1>1, <2>1, <2>3, <2>4, CopyingStands
  <2>5. CASE PutStore
    BY <1>1, <2>1, <2>2, <2>3, <2>5, StoringPuts DEF Frames!Next
  <2>6. CASE GetTest
    BY <1>1, <2>1, <2>3, <2>6, TestingGets DEF Frames!Next
  <2>7. CASE \/ \E shape \in Shape : PutTest(shape)
             \/ PutLoad \/ GetSteps \/ Release \/ Reuse \/ UNCHANGED ring
    <3>1. UNCHANGED <<iget, puts, slot>>
      BY <2>7 DEF PutTest, PutLoad, GetSteps, GetLoad, GetStore, GetInfo, Release, Reuse,
                  ring, camera, taker
    <3>2. Taken' = Taken
      BY <2>7, Numbers, <1>1 DEF PutTest, PutLoad, GetSteps, GetLoad, GetStore, GetInfo, Release,
                  Reuse, ring, camera, taker, Taken
    <3>3. \A i \in 1 .. puts - Taken : Held(i)' = Held(i)
      BY <3>1 DEF Held, Place
    <3> QED
      BY <2>1, <2>2, <3>1, <3>2, <3>3, FramesStand
  <2> QED
    BY <2>4, <2>5, <2>6, <2>7 DEF RingNext, PutSteps
<1> QED
  BY <1>2, <1>3

LEMMA QueueStarts == RingInit => Frames!Init /\ ShapesInv
<1> SUFFICES ASSUME RingInit
             PROVE  Frames!Init /\ ShapesInv
  OBVIOUS
<1>1. ShapesInv
  BY DEF RingInit, ShapesInv, NoFrame
<1>2. puts = 0 /\ Taken = 0 /\ lost = FALSE
  BY DEF RingInit, Taken
<1>3. Waiting = <<>>
  BY <1>2 DEF Waiting
<1> QED
  BY <1>1, <1>2, <1>3 DEF Frames!Init

(* For every number of slots and every interleaving of ringput and ringget, the ring is a
   queue of whole frames until an update of the unlocked count is lost (ringfifo.c:63-100). *)
THEOREM RingFifoImplementsFrameQueue == RingSpec => ImplementsFrameQueue
<1>1. RingInit => RingInv /\ ShapesInv /\ Frames!Init
  BY RingInitInv, QueueStarts
<1>2. RingInv /\ ShapesInv /\ [RingNext]_ring => RingInv' /\ ShapesInv' /\ [Frames!Next]_(Frames!queue)
  BY RingInvStep, ShapesStep, StepUsesQueue DEF RingInv
<1> QED
  BY <1>1, <1>2, PTL DEF RingSpec, ImplementsFrameQueue, Frames!Spec
=============================================================================
