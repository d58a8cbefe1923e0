----------------------------- MODULE UartProofs -----------------------------
(***************************************************************************)
(* Whatever the size of the rings and however the interrupts fall: an      *)
(* index assembled from two bytes stays within its ring, the transmit      *)
(* interrupt is never left switched off while there is something to send,  *)
(* and the rings are the queues of module Queues.                          *)
(***************************************************************************)
EXTENDS Uart, SequenceTheorems, TLAPS

LEMMA SuccIsIndex ==
  ASSUME NEW i \in Index
  PROVE  Succ(i) \in Index
BY LowAssumption DEF LowAssumption, Succ, Index

(* Half an index after another, from two of the same ring. *)
LEMMA HalfAnIndex ==
  ASSUME NEW i \in Index, NEW j \in Index
  PROVE  /\ [i EXCEPT !.hi = j.hi] \in Index
         /\ [i EXCEPT !.lo = j.lo] \in Index
         /\ i.lo \in 0 .. Low - 1
BY DEF Index

LEMMA ZeroIsIndex == Zero \in Index /\ 0 \in 0 .. Low - 1
BY LowAssumption DEF LowAssumption, Zero, Index

Inv == TypeOK /\ WillTransmit

LEMMA InitInv == Init => Inv
<1> SUFFICES ASSUME Init PROVE Inv
  OBVIOUS
<1>1. RxBuf \in [Index -> Nat] /\ TxBuf \in [Index -> Nat]
  BY DEF Init
<1>2. << udrie, served, whole >> \in BOOLEAN \X BOOLEAN \X BOOLEAN
  BY DEF Init
<1>3. << arriving, taken, next, sent >> \in Nat \X Nat \X Nat \X Nat
  BY DEF Init
<1>4. TypeOK
  BY <1>1, <1>2, <1>3, ZeroIsIndex DEF Init, TypeOK
<1> QED
  BY <1>4 DEF Init, Inv, WillTransmit

LEMMA Flags == TypeOK => udrie \in BOOLEAN /\ served \in BOOLEAN /\ whole \in BOOLEAN
BY DEF TypeOK

(* An interrupt touches its own end of one ring. *)
LEMMA ReceiveInv == Inv /\ Receive => Inv'
<1> SUFFICES ASSUME Inv, Receive PROVE Inv'
  OBVIOUS
<1>1. TypeOK
  BY DEF Inv
<1>2. Succ(RxHead) \in Index
  BY <1>1, SuccIsIndex DEF TypeOK
<1>3. RxHead' \in Index /\ RxBuf' \in [Index -> Nat]
  BY <1>1, <1>2 DEF Receive, TypeOK
<1>4. served' \in BOOLEAN /\ whole' \in BOOLEAN
  <2>1. served' = (mpc \in Halves)
    BY DEF Receive, Interrupt
  <2>2. whole' = (whole /\ mpc # "flushLo")
    BY DEF Receive
  <2>3. served' \in BOOLEAN
    BY <2>1
  <2>4. whole' \in BOOLEAN
    BY <1>1, <2>2, Flags
  <2> QED
    BY <2>3, <2>4
<1>5. arriving' \in Nat
  BY <1>1 DEF Receive, TypeOK
<1>6. UNCHANGED << RxTail, TxBuf, TxHead, TxTail, udrie, calls, mpc, tmp, seen, taken,
                   next, sent >>
  BY DEF Receive, Interrupt
<1>7. TypeOK'
  BY <1>1, <1>3, <1>4, <1>5, <1>6 DEF TypeOK
<1> QED
  BY <1>6, <1>7 DEF Inv, WillTransmit

LEMMA TransmitInv == Inv /\ Transmit => Inv'
<1> SUFFICES ASSUME Inv, Transmit PROVE Inv'
  OBVIOUS
<1>1. TypeOK
  BY DEF Inv
<1>2. Succ(TxTail) \in Index
  BY <1>1, SuccIsIndex DEF TypeOK
<1>3. TxTail' \in Index /\ sent' \in Nat
  BY <1>1, <1>2 DEF Transmit, TypeOK
<1>4. served' \in BOOLEAN /\ udrie' \in BOOLEAN
  <2>1. served' = (mpc \in Halves)
    BY DEF Transmit, Interrupt
  <2>2. udrie' = udrie \/ udrie' = FALSE
    BY DEF Transmit
  <2>3. served' \in BOOLEAN
    BY <2>1
  <2>4. udrie' \in BOOLEAN
    BY <1>1, <2>2, Flags
  <2> QED
    BY <2>3, <2>4
<1>5. UNCHANGED << RxBuf, RxHead, RxTail, TxBuf, TxHead, calls, mpc, tmp, seen, arriving,
                   taken, next, whole >>
  BY DEF Transmit, Interrupt
<1>6. TypeOK'
  BY <1>1, <1>3, <1>4, <1>5 DEF TypeOK
<1>7. WillTransmit'
  BY <1>5, Zenon DEF Transmit, WillTransmit
<1> QED
  BY <1>6, <1>7 DEF Inv

(* The program, one access at a time. *)
LEMMA ProgramInv == Inv /\ (Start \/ Program) => Inv'
<1> SUFFICES ASSUME Inv, Start \/ Program PROVE Inv'
  OBVIOUS
<1>1. /\ TypeOK
      /\ RxHead \in Index /\ RxTail \in Index /\ TxHead \in Index /\ TxTail \in Index
      /\ tmp \in Index /\ next \in Nat
      /\ RxBuf \in [Index -> Nat] /\ TxBuf \in [Index -> Nat]
  BY DEF Inv, TypeOK
<1>2. ASSUME Step(mpc, mpc'),
             RxHead' \in Index, RxTail' \in Index, TxHead' \in Index,
             tmp' \in Index, seen' \in 0 .. Low - 1, taken' \in Nat, next' \in Nat,
             TxBuf' \in [Index -> Nat], udrie' \in BOOLEAN,
             UNCHANGED << RxBuf, TxTail >>,
             mpc' \in {"idle", "availableLo", "headLo", "tailHi", "fetch",
                       "fullLo", "store", "putHi", "enable", "flushHi"} \cup Halves
      PROVE  TypeOK'
  BY <1>1, <1>2 DEF Step, TypeOK
<1>3. CASE Start
  <2>1. Succ(TxHead) \in Index
    BY <1>1, SuccIsIndex
  <2>2. TypeOK'
    BY <1>1, <1>2, <1>3, <2>1 DEF Start, Step, reading, writing, TypeOK
  <2>3. WillTransmit'
    BY <1>3 DEF Start, Step, writing, Inv, WillTransmit
  <2> QED
    BY <2>2, <2>3 DEF Inv
<1>4. CASE AvailableLo \/ HeadLo \/ AvailableHi
  <2>1. TypeOK'
    BY <1>1, <1>4, HalfAnIndex, ZeroIsIndex
       DEF AvailableLo, HeadLo, LoadHead, AvailableHi, Step, reading, writing, TypeOK, Halves
  <2>2. WillTransmit'
    BY <1>4 DEF AvailableLo, HeadLo, LoadHead, AvailableHi, Step, writing, Inv, WillTransmit
  <2> QED
    BY <2>1, <2>2 DEF Inv
<1>5. CASE HeadHi
  <2>1. Succ(RxTail) \in Index
    BY <1>1, SuccIsIndex
  <2>2. TypeOK'
    <3>1. tmp' \in Index /\ seen' \in 0 .. Low - 1 /\ taken' \in Nat
      BY <1>1, <1>5, <2>1, ZeroIsIndex DEF HeadHi, TypeOK
    <3>2. mpc' \in {"idle", "tailHi"}
      BY <1>5 DEF HeadHi, Step
    <3> QED
      BY <1>1, <1>5, <3>1, <3>2 DEF HeadHi, Step, writing, TypeOK
  <2>3. WillTransmit'
    BY <1>5 DEF HeadHi, Step, writing, Inv, WillTransmit
  <2> QED
    BY <2>2, <2>3 DEF Inv
<1>6. CASE TailHi \/ TailLo \/ FlushHi \/ FlushLo
  <2>1. RxHead' \in Index /\ RxTail' \in Index
    BY <1>1, <1>6, HalfAnIndex DEF TailHi, TailLo, FlushHi, FlushLo
  <2>2. TypeOK'
    BY <1>1, <1>6, <2>1 DEF TailHi, TailLo, FlushHi, FlushLo, Step, writing, TypeOK, Halves
  <2>3. WillTransmit'
    BY <1>6 DEF TailHi, TailLo, FlushHi, FlushLo, Step, writing, Inv, WillTransmit
  <2> QED
    BY <2>2, <2>3 DEF Inv
<1>7. CASE Fetch
  <2>1. TypeOK'
    BY <1>1, <1>7, ZeroIsIndex DEF Fetch, Step, writing, TypeOK
  <2>2. WillTransmit'
    BY <1>7 DEF Fetch, Step, writing, Inv, WillTransmit
  <2> QED
    BY <2>1, <2>2 DEF Inv
<1>8. CASE FullLo \/ FullHi
  <2>1. TypeOK'
    BY <1>1, <1>8, HalfAnIndex, ZeroIsIndex
       DEF FullLo, FullHi, Step, reading, writing, TypeOK, Halves
  <2>2. WillTransmit'
    BY <1>8 DEF FullLo, FullHi, Step, writing, Inv, WillTransmit
  <2> QED
    BY <2>1, <2>2 DEF Inv
<1>9. CASE Store
  <2>1. TypeOK'
    BY <1>1, <1>9 DEF Store, Step, reading, TypeOK
  <2>2. WillTransmit'
    BY <1>9 DEF Store, Step, Inv, WillTransmit
  <2> QED
    BY <2>1, <2>2 DEF Inv
<1>10. CASE PutHi \/ PutLo
  <2>1. TxHead' \in Index /\ next' \in Nat
    <3>1. TxHead' \in Index
      BY <1>1, <1>10, HalfAnIndex DEF PutHi, PutLo
    <3>2. next' \in Nat
      BY <1>1, <1>10 DEF PutHi, PutLo
    <3> QED
      BY <3>1, <3>2
  <2>2. TypeOK'
    BY <1>1, <1>10, <2>1 DEF PutHi, PutLo, Step, reading, TypeOK, Halves
  <2>3. WillTransmit'
    BY <1>10 DEF PutHi, PutLo, Step, WillTransmit
  <2> QED
    BY <2>2, <2>3 DEF Inv
<1>11. CASE Enable
  <2>1. TypeOK'
    BY <1>1, <1>11, ZeroIsIndex DEF Enable, Step, reading, TypeOK
  <2>2. WillTransmit'
    BY <1>11 DEF Enable, WillTransmit
  <2> QED
    BY <2>1, <2>2 DEF Inv
<1> QED
  BY <1>3, <1>4, <1>5, <1>6, <1>7, <1>8, <1>9, <1>10, <1>11 DEF Program

LEMMA StepInv == Inv /\ [Next]_vars => Inv'
<1>1. Inv /\ UNCHANGED vars => Inv'
  BY DEF vars, rings, Inv, TypeOK, WillTransmit
<1> QED
  BY <1>1, ReceiveInv, TransmitInv, ProgramInv DEF Next

LEMMA Invariance == Spec => []Inv
  BY InitInv, StepInv, PTL DEF Spec

(* No interleaving of the two halves of an index with the interrupts takes *)
(* it out of its ring.                                                     *)
THEOREM IndicesStayInRings == Spec => []TypeOK
<1>1. Inv => TypeOK
  BY DEF Inv
<1> QED
  BY <1>1, Invariance, PTL

(* uart0_putc never leaves bytes in the ring with the interrupt that is to *)
(* send them switched off, for every size of the ring.                     *)
THEOREM TransmitsAlways == Spec => []WillTransmit
<1>1. Inv => WillTransmit
  BY DEF Inv
<1> QED
  BY <1>1, Invariance, PTL

-----------------------------------------------------------------------------
(* The two queues.  Positions count the slots of a ring; a queue reaches   *)
(* from the slot after its tail to its head.                               *)
LEMMA ModOnce ==
  ASSUME NEW d \in Nat \ {0}, NEW n \in 0 .. 2 * d - 1
  PROVE  n % d = IF n < d THEN n ELSE n - d
OBVIOUS

LEMMA DivMod ==
  ASSUME NEW d \in Nat \ {0}, NEW r \in 0 .. d - 1, NEW q \in {0, 1, 2, 3},
         NEW n \in Nat, n = q * d + r
  PROVE  n \div d = q /\ n % d = r
<1>1. CASE q = 0
  BY <1>1
<1>2. CASE q = 1
  BY <1>2
<1>3. CASE q = 2
  BY <1>3
<1>4. CASE q = 3
  BY <1>4
<1> QED
  BY <1>1, <1>2, <1>3, <1>4

LEMMA Sizes == RingSize \in Nat \ {0} /\ Low \in Nat \ {0} /\ RingSize = 2 * Low
BY LowAssumption DEF LowAssumption, RingSize

LEMMA Positions ==
  ASSUME NEW i \in Index
  PROVE  /\ i = [hi |-> i.hi, lo |-> i.lo]
         /\ i.hi \in {0, 1} /\ i.lo \in Nat /\ i.lo < Low
         /\ Position(i) = IF i.hi = 0 THEN i.lo ELSE Low + i.lo
         /\ Position(i) \in 0 .. RingSize - 1
<1>1. i.hi \in {0, 1} /\ i.lo \in Nat /\ i.lo < Low /\ i = [hi |-> i.hi, lo |-> i.lo]
  BY Sizes DEF Index
<1>2. CASE i.hi = 0
  BY <1>1, <1>2, Sizes DEF Position
<1>3. CASE i.hi = 1
  BY <1>1, <1>3, Sizes DEF Position
<1> QED
  BY <1>1, <1>2, <1>3

(* Each position is that of one index, ... *)
LEMMA PositionsDiffer ==
  ASSUME NEW i \in Index, NEW j \in Index, Position(i) = Position(j)
  PROVE  i = j
<1>1. i.hi = j.hi /\ i.lo = j.lo
  BY Positions, Sizes
<1> QED
  BY <1>1, Positions

(* ... and At is round the ring twice. *)
LEMMA AtPositions ==
  ASSUME NEW n \in 0 .. 2 * RingSize - 1
  PROVE  /\ At(n) \in Index
         /\ Position(At(n)) = IF n < RingSize THEN n ELSE n - RingSize
<1>1. PICK q \in {0, 1, 2, 3}, r \in 0 .. Low - 1 : n = q * Low + r
  <2>1. CASE n < Low
    <3>1. n = 0 * Low + n
      BY Sizes
    <3> QED
      BY <2>1, <3>1, Sizes
  <2>2. CASE Low <= n /\ n < 2 * Low
    <3>1. n = 1 * Low + (n - Low) /\ n - Low \in 0 .. Low - 1
      BY <2>2, Sizes
    <3> QED
      BY <3>1
  <2>3. CASE 2 * Low <= n /\ n < 3 * Low
    <3>1. n = 2 * Low + (n - 2 * Low) /\ n - 2 * Low \in 0 .. Low - 1
      BY <2>3, Sizes
    <3> QED
      BY <3>1
  <2>4. CASE 3 * Low <= n
    <3>1. n = 3 * Low + (n - 3 * Low) /\ n - 3 * Low \in 0 .. Low - 1
      BY <2>4, Sizes
    <3> QED
      BY <3>1
  <2> QED
    BY <2>1, <2>2, <2>3, <2>4, Sizes
<1>2. n \div Low = q /\ n % Low = r
  BY <1>1, DivMod, Sizes
<1>3. At(n) = [hi |-> q % 2, lo |-> r]
  BY <1>2 DEF At
<1>4. q % 2 = IF q \in {0, 2} THEN 0 ELSE 1
  OBVIOUS
<1>5. At(n) \in Index /\ At(n).hi = q % 2 /\ At(n).lo = r
  BY <1>3, <1>4 DEF Index
<1>6. Position(At(n)) = IF q \in {0, 2} THEN r ELSE Low + r
  BY <1>4, <1>5, Positions
<1>7. CASE q = 0
  BY <1>1, <1>5, <1>6, <1>7, Sizes
<1>8. CASE q = 1
  BY <1>1, <1>5, <1>6, <1>8, Sizes
<1>9. CASE q = 2
  BY <1>1, <1>5, <1>6, <1>9, Sizes
<1>10. CASE q = 3
  BY <1>1, <1>5, <1>6, <1>10, Sizes
<1> QED
  BY <1>7, <1>8, <1>9, <1>10

LEMMA SuccPosition ==
  ASSUME NEW i \in Index
  PROVE  /\ Succ(i) \in Index
         /\ Position(Succ(i)) = IF Position(i) = RingSize - 1 THEN 0 ELSE Position(i) + 1
<1>1. Succ(i) \in Index
  BY SuccIsIndex
<1>2. /\ i.hi \in {0, 1} /\ i.lo \in Nat /\ i.lo < Low
      /\ Position(i) = IF i.hi = 0 THEN i.lo ELSE Low + i.lo
      /\ Position(Succ(i)) = IF Succ(i).hi = 0 THEN Succ(i).lo ELSE Low + Succ(i).lo
  BY <1>1, Positions
<1>3. CASE i.lo = Low - 1
  <2>1. Succ(i).hi = 1 - i.hi /\ Succ(i).lo = 0
    BY <1>3 DEF Succ
  <2> QED
    BY <1>1, <1>2, <1>3, <2>1, Sizes
<1>4. CASE i.lo # Low - 1
  <2>1. Succ(i).hi = i.hi /\ Succ(i).lo = i.lo + 1
    BY <1>4 DEF Succ, Index
  <2> QED
    BY <1>1, <1>2, <1>4, <2>1, Sizes
<1> QED
  BY <1>3, <1>4

LEMMA SuccDiffers ==
  ASSUME NEW i \in Index, NEW j \in Index, Succ(i) = Succ(j)
  PROVE  i = j
<1>1. Position(i) = Position(j)
  BY SuccPosition, Positions, Sizes
<1> QED
  BY <1>1, PositionsDiffer

(* How many slots there are between two indices. *)
Distance(tail, head) == (RingSize + Position(head) - Position(tail)) % RingSize

LEMMA Distances ==
  ASSUME NEW tail \in Index, NEW head \in Index
  PROVE  /\ Distance(tail, head) =
              IF Position(tail) <= Position(head) THEN Position(head) - Position(tail)
              ELSE RingSize + Position(head) - Position(tail)
         /\ Distance(tail, head) \in 0 .. RingSize - 1
         /\ Distance(tail, head) = 0 <=> tail = head
<1> DEFINE t == Position(tail)
           h == Position(head)
<1>1. t \in 0 .. RingSize - 1 /\ h \in 0 .. RingSize - 1 /\ RingSize \in Nat \ {0}
  BY Positions, Sizes
<1>2. t = h <=> tail = head
  BY PositionsDiffer
<1> HIDE DEF t, h
<1> DEFINE n == RingSize + h - t
<1>3. n \in 0 .. 2 * RingSize - 1 /\ (n < RingSize <=> ~(t <= h))
  BY <1>1
<1> HIDE DEF n
<1>4. n % RingSize = IF t <= h THEN n - RingSize ELSE n
  BY <1>1, <1>3, ModOnce
<1>5. Distance(tail, head) = IF t <= h THEN h - t ELSE RingSize + h - t
  BY <1>1, <1>4 DEF Distance, n, t, h
<1>6. Distance(tail, head) \in 0 .. RingSize - 1
  BY <1>1, <1>5
<1>7. Distance(tail, head) = 0 <=> t = h
  BY <1>1, <1>5
<1> QED
  BY <1>2, <1>5, <1>6, <1>7 DEF t, h

LEMMA HeadMoves ==
  ASSUME NEW tail \in Index, NEW head \in Index, Succ(head) # tail
  PROVE  Distance(tail, Succ(head)) = Distance(tail, head) + 1
<1> DEFINE t == Position(tail)
           h == Position(head)
           s == Position(Succ(head))
<1>1. /\ t \in 0 .. RingSize - 1 /\ h \in 0 .. RingSize - 1 /\ RingSize \in Nat \ {0}
      /\ s = IF h = RingSize - 1 THEN 0 ELSE h + 1
  BY SuccPosition, Positions, Sizes
<1>2. s # t
  BY SuccPosition, PositionsDiffer
<1>3. Distance(tail, head) = IF t <= h THEN h - t ELSE RingSize + h - t
  BY Distances
<1>4. Distance(tail, Succ(head)) = IF t <= s THEN s - t ELSE RingSize + s - t
  BY SuccPosition, Distances
<1> HIDE DEF t, h, s
<1> QED
  BY <1>1, <1>2, <1>3, <1>4

LEMMA TailMoves ==
  ASSUME NEW tail \in Index, NEW head \in Index, tail # head
  PROVE  Distance(Succ(tail), head) = Distance(tail, head) - 1
<1> DEFINE t == Position(tail)
           h == Position(head)
           s == Position(Succ(tail))
<1>1. /\ t \in 0 .. RingSize - 1 /\ h \in 0 .. RingSize - 1 /\ RingSize \in Nat \ {0}
      /\ s = IF t = RingSize - 1 THEN 0 ELSE t + 1
  BY SuccPosition, Positions, Sizes
<1>2. t # h
  BY PositionsDiffer
<1>3. Distance(tail, head) = IF t <= h THEN h - t ELSE RingSize + h - t
  BY Distances
<1>4. Distance(Succ(tail), head) = IF s <= h THEN h - s ELSE RingSize + h - s
  BY SuccPosition, Distances
<1> HIDE DEF t, h, s
<1> QED
  BY <1>1, <1>2, <1>3, <1>4

(* The slots between two indices are each another, and none is the tail. *)
LEMMA Slots ==
  ASSUME NEW tail \in Index, NEW k \in 1 .. RingSize
  PROVE  /\ At(Position(tail) + k) \in Index
         /\ Distance(tail, At(Position(tail) + k)) = IF k = RingSize THEN 0 ELSE k
<1> DEFINE t == Position(tail)
           n == t + k
           p == Position(At(n))
<1>1. t \in 0 .. RingSize - 1 /\ RingSize \in Nat \ {0}
  BY Positions, Sizes
<1>2. n \in 0 .. 2 * RingSize - 1
  BY <1>1
<1> HIDE DEF n
<1>3. At(n) \in Index /\ p = IF n < RingSize THEN n ELSE n - RingSize
  BY <1>2, AtPositions
<1>4. Distance(tail, At(n)) = IF t <= p THEN p - t ELSE RingSize + p - t
  BY <1>3, Distances
<1> HIDE DEF t, p
<1>5. Distance(tail, At(n)) = IF k = RingSize THEN 0 ELSE k
  BY <1>1, <1>3, <1>4 DEF n
<1> QED
  BY <1>3, <1>5 DEF n, t

LEMMA SlotOfHead ==
  ASSUME NEW tail \in Index, NEW head \in Index, tail # head
  PROVE  At(Position(tail) + Distance(tail, head)) = head
<1> DEFINE t == Position(tail)
           h == Position(head)
           n == t + Distance(tail, head)
<1>1. /\ t \in 0 .. RingSize - 1 /\ h \in 0 .. RingSize - 1 /\ RingSize \in Nat \ {0}
      /\ Distance(tail, head) = IF t <= h THEN h - t ELSE RingSize + h - t
  BY Positions, Distances, Sizes
<1> HIDE DEF t, h
<1>2. n \in 0 .. 2 * RingSize - 1 /\ n = IF t <= h THEN h ELSE RingSize + h
  BY <1>1
<1> HIDE DEF n
<1>3. At(n) \in Index /\ Position(At(n)) = IF n < RingSize THEN n ELSE n - RingSize
  BY <1>2, AtPositions
<1>4. Position(At(n)) = h
  BY <1>1, <1>2, <1>3
<1> QED
  BY <1>3, <1>4, PositionsDiffer DEF n, t, h

LEMMA SlotOfNext ==
  ASSUME NEW tail \in Index, NEW k \in 0 .. RingSize - 1
  PROVE  At(Position(Succ(tail)) + k) = At(Position(tail) + (k + 1))
<1> DEFINE t == Position(tail)
           s == Position(Succ(tail))
           n == t + (k + 1)
           m == s + k
<1>1. /\ t \in 0 .. RingSize - 1 /\ RingSize \in Nat \ {0}
      /\ s = IF t = RingSize - 1 THEN 0 ELSE t + 1
  BY SuccPosition, Positions, Sizes
<1> HIDE DEF t, s
<1>2. /\ n \in 0 .. 2 * RingSize - 1 /\ m \in 0 .. 2 * RingSize - 1
      /\ m = n \/ n = m + RingSize
  BY <1>1
<1> HIDE DEF n, m
<1>3. /\ At(n) \in Index /\ Position(At(n)) = IF n < RingSize THEN n ELSE n - RingSize
      /\ At(m) \in Index /\ Position(At(m)) = IF m < RingSize THEN m ELSE m - RingSize
  BY <1>2, AtPositions
<1>4. Position(At(n)) = Position(At(m))
  BY <1>1, <1>2, <1>3
<1> QED
  BY <1>3, <1>4, PositionsDiffer DEF n, m, t, s
-----------------------------------------------------------------------------
(* What a queue in a ring is, byte by byte, ... *)
LEMMA Queue ==
  ASSUME NEW buf \in [Index -> Nat], NEW tail \in Index, NEW head \in Index
  PROVE  /\ Between(buf, tail, head) \in Seq(Nat)
         /\ Len(Between(buf, tail, head)) = Distance(tail, head)
         /\ \A k \in 1 .. Distance(tail, head) :
              Between(buf, tail, head)[k] = buf[At(Position(tail) + k)]
<1> DEFINE n == Distance(tail, head)
           f == [k \in 1 .. n |-> buf[At(Position(tail) + k)]]
<1>1. n \in Nat /\ n < RingSize
  BY Distances, Sizes
<1>2. Between(buf, tail, head) = f
  BY DEF Between, Distance
<1>3. \A k \in 1 .. n : At(Position(tail) + k) \in Index
  BY <1>1, Slots, Sizes
<1> HIDE DEF n
<1>4. f \in [1 .. n -> Nat]
  BY <1>3
<1>5. f \in Seq(Nat) /\ Len(f) = n
  BY <1>1, <1>4
<1> QED
  BY <1>2, <1>5 DEF n

LEMMA NothingQueued ==
  ASSUME NEW buf \in [Index -> Nat], NEW i \in Index
  PROVE  Between(buf, i, i) = <<>>
BY Queue, Distances

(* ... what a byte put behind its head makes of it, ... *)
LEMMA QueueGrows ==
  ASSUME NEW buf \in [Index -> Nat], NEW tail \in Index, NEW head \in Index,
         NEW new \in [Index -> Nat],
         Succ(head) # tail,
         \A i \in Index : i # Succ(head) => new[i] = buf[i]
  PROVE  /\ Between(new, tail, head) = Between(buf, tail, head)
         /\ Between(new, tail, Succ(head)) =
              Append(Between(buf, tail, head), new[Succ(head)])
<1> DEFINE n == Distance(tail, head)
           next_ == Succ(head)
           old == Between(buf, tail, head)
           same == Between(new, tail, head)
           more == Between(new, tail, next_)
           slot(k) == At(Position(tail) + k)
<1>1. next_ \in Index /\ Distance(tail, next_) = n + 1 /\ n \in Nat /\ n + 1 < RingSize
  BY SuccIsIndex, HeadMoves, Distances, Sizes
<1>2. \A k \in 1 .. n + 1 : slot(k) \in Index /\ Distance(tail, slot(k)) = k
  BY <1>1, Slots, Sizes
<1>3. slot(n + 1) = next_
  BY <1>1, SlotOfHead
<1>4. /\ old \in Seq(Nat) /\ Len(old) = n /\ \A k \in 1 .. n : old[k] = buf[slot(k)]
      /\ same \in Seq(Nat) /\ Len(same) = n /\ \A k \in 1 .. n : same[k] = new[slot(k)]
      /\ more \in Seq(Nat) /\ Len(more) = n + 1
      /\ \A k \in 1 .. n + 1 : more[k] = new[slot(k)]
  <2>1. old \in Seq(Nat) /\ Len(old) = n /\ \A k \in 1 .. n : old[k] = buf[slot(k)]
    BY Queue
  <2>2. same \in Seq(Nat) /\ Len(same) = n /\ \A k \in 1 .. n : same[k] = new[slot(k)]
    BY Queue
  <2>3. /\ more \in Seq(Nat) /\ Len(more) = Distance(tail, next_)
        /\ \A k \in 1 .. Distance(tail, next_) : more[k] = new[slot(k)]
    BY <1>1, Queue
  <2> HIDE DEF n, old, same, more, slot, next_
  <2> QED
    BY <1>1, <2>1, <2>2, <2>3
<1> HIDE DEF n, old, same, more, slot, next_
<1>5. \A k \in 1 .. n : slot(k) \in Index /\ slot(k) # next_
  BY <1>1, <1>2
<1>6. \A k \in 1 .. n : new[slot(k)] = buf[slot(k)]
  BY <1>5 DEF next_
<1>7. same = old
  <2>1. \A k \in 1 .. n : same[k] = old[k]
    BY <1>4, <1>6
  <2> QED
    BY <1>4, <2>1, SeqEqual
<1>8. new[next_] \in Nat
  BY <1>1
<1>9. Append(old, new[next_]) \in Seq(Nat) /\ Len(Append(old, new[next_])) = n + 1
  BY <1>4, <1>8
<1>10. \A k \in 1 .. n + 1 : more[k] = Append(old, new[next_])[k]
  <2> SUFFICES ASSUME NEW k \in 1 .. n + 1 PROVE more[k] = Append(old, new[next_])[k]
    OBVIOUS
  <2>1. CASE k = n + 1
    BY <1>1, <1>3, <1>4, <1>8, <2>1
  <2>2. CASE k # n + 1
    <3>1. k \in 1 .. n
      BY <1>1, <2>2
    <3>2. Append(old, new[next_])[k] = old[k]
      BY <1>4, <1>8, <3>1, AppendProperties
    <3>3. more[k] = new[slot(k)]
      BY <1>1, <1>4
    <3> QED
      BY <1>4, <1>6, <3>1, <3>2, <3>3
  <2> QED
    BY <2>1, <2>2
<1>11. more = Append(old, new[next_])
  BY <1>4, <1>9, <1>10, SeqEqual
<1> QED
  BY <1>7, <1>11 DEF old, same, more, next_

(* The same for an assignment to the ring ... *)
LEMMA BytePut ==
  ASSUME NEW buf \in [Index -> Nat], NEW tail \in Index, NEW head \in Index, NEW byte \in Nat,
         Succ(head) # tail
  PROVE  /\ Between([buf EXCEPT ![Succ(head)] = byte], tail, head) = Between(buf, tail, head)
         /\ Between([buf EXCEPT ![Succ(head)] = byte], tail, Succ(head)) =
              Append(Between(buf, tail, head), byte)
<1> DEFINE new == [buf EXCEPT ![Succ(head)] = byte]
<1>1. Succ(head) \in Index
  BY SuccIsIndex
<1>2. new \in [Index -> Nat] /\ new[Succ(head)] = byte
  BY <1>1
<1>3. \A i \in Index : i # Succ(head) => new[i] = buf[i]
  BY <1>1
<1> HIDE DEF new
<1>4. /\ Between(new, tail, head) = Between(buf, tail, head)
      /\ Between(new, tail, Succ(head)) = Append(Between(buf, tail, head), new[Succ(head)])
  BY <1>2, <1>3, QueueGrows
<1> QED
  BY <1>2, <1>4 DEF new

(* ... and what is left when the byte after its tail is taken. *)
LEMMA QueueShrinks ==
  ASSUME NEW buf \in [Index -> Nat], NEW tail \in Index, NEW head \in Index, tail # head
  PROVE  /\ Between(buf, tail, head) = << buf[Succ(tail)] >> \o Between(buf, Succ(tail), head)
         /\ Between(buf, tail, head) # <<>>
         /\ Head(Between(buf, tail, head)) = buf[Succ(tail)]
         /\ Tail(Between(buf, tail, head)) = Between(buf, Succ(tail), head)
<1> DEFINE n == Distance(tail, head)
           old == Between(buf, tail, head)
           rest == Between(buf, Succ(tail), head)
           slot(k) == At(Position(tail) + k)
<1>1. /\ Succ(tail) \in Index /\ Distance(Succ(tail), head) = n - 1
      /\ n \in Nat /\ n >= 1 /\ n < RingSize
  BY SuccIsIndex, TailMoves, Distances, Sizes
<1>2. \A k \in 0 .. n : At(Position(Succ(tail)) + k) = slot(k + 1)
  BY <1>1, SlotOfNext, Sizes
<1>3. slot(1) = Succ(tail)
  <2>1. At(Position(Succ(tail)) + 0) = slot(0 + 1)
    BY <1>1, <1>2
  <2>2. Position(Succ(tail)) \in 0 .. RingSize - 1
    BY <1>1, Positions
  <2>3. At(Position(Succ(tail))) = Succ(tail)
    <3>1. Position(Succ(tail)) \in 0 .. 2 * RingSize - 1
      BY <2>2, Sizes
    <3> QED
      BY <1>1, <2>2, <3>1, AtPositions, PositionsDiffer, Sizes
  <2> QED
    BY <2>1, <2>2, <2>3
<1>4. /\ old \in Seq(Nat) /\ Len(old) = n /\ \A k \in 1 .. n : old[k] = buf[slot(k)]
      /\ rest \in Seq(Nat) /\ Len(rest) = n - 1
      /\ \A k \in 1 .. n - 1 : rest[k] = buf[At(Position(Succ(tail)) + k)]
  <2>1. old \in Seq(Nat) /\ Len(old) = n /\ \A k \in 1 .. n : old[k] = buf[slot(k)]
    BY Queue
  <2>2. /\ rest \in Seq(Nat) /\ Len(rest) = Distance(Succ(tail), head)
        /\ \A k \in 1 .. Distance(Succ(tail), head) :
             rest[k] = buf[At(Position(Succ(tail)) + k)]
    BY <1>1, Queue
  <2> HIDE DEF n, old, rest, slot
  <2> QED
    BY <1>1, <2>1, <2>2
<1> HIDE DEF n, old, rest, slot
<1>5. \A k \in 1 .. n - 1 : rest[k] = old[k + 1]
  <2> SUFFICES ASSUME NEW k \in 1 .. n - 1 PROVE rest[k] = old[k + 1]
    OBVIOUS
  <2>1. k \in 0 .. n /\ k + 1 \in 1 .. n
    BY <1>1
  <2> QED
    BY <1>2, <1>4, <2>1
<1>6. old[1] = buf[Succ(tail)] /\ old # <<>> /\ buf[Succ(tail)] \in Nat
  BY <1>1, <1>3, <1>4
<1>7. Head(old) = buf[Succ(tail)]
  BY <1>4, <1>6
<1>8. Tail(old) = rest
  <2>1. Tail(old) \in Seq(Nat) /\ Len(Tail(old)) = n - 1
    BY <1>1, <1>4, <1>6
  <2>2. \A k \in 1 .. n - 1 : Tail(old)[k] = old[k + 1]
    BY <1>1, <1>4, <1>6
  <2> QED
    BY <1>1, <1>4, <1>5, <2>1, <2>2, SeqEqual
<1>9. old = << buf[Succ(tail)] >> \o rest
  <2> DEFINE joined == << buf[Succ(tail)] >> \o rest
  <2>1. joined \in Seq(Nat) /\ Len(joined) = n
    BY <1>1, <1>4, <1>6
  <2>2. \A k \in 1 .. n : joined[k] = old[k]
    <3> SUFFICES ASSUME NEW k \in 1 .. n PROVE joined[k] = old[k]
      OBVIOUS
    <3>1. CASE k = 1
      BY <1>1, <1>4, <1>6, <3>1
    <3>2. CASE k # 1
      <4>1. k - 1 \in 1 .. n - 1 /\ (k - 1) + 1 = k
        BY <1>1, <3>2
      <4>2. joined[k] = rest[k - 1]
        BY <1>1, <1>4, <1>6, <4>1
      <4> QED
        BY <1>5, <4>1, <4>2
    <3> QED
      BY <3>1, <3>2
  <2> HIDE DEF joined
  <2>3. joined = old
    BY <1>4, <2>1, <2>2, SeqEqual
  <2> QED
    BY <2>3 DEF joined
<1> QED
  BY <1>6, <1>7, <1>8, <1>9 DEF old, rest
-----------------------------------------------------------------------------
(* What the program knows between its accesses.  One that reads: an index  *)
(* in two halves from before and after an interrupt tells it, at worst,    *)
(* that a crowded ring is empty; what it has not yet taken starts behind   *)
(* the tail it had, also while the tail is half moved.                     *)
Reads ==
  /\ mpc \in {"headLo", "headHi", "tailHi"} => RxHead # RxTail
  /\ mpc = "availableHi" => seen = RxHead.lo \/ RxHead # RxTail
  /\ mpc = "headHi" =>
       \/ seen = RxHead.lo
       \/ served /\ \E i \in Index : i # RxTail /\ seen = i.lo /\ RxHead = Succ(i)
  /\ mpc = "tailHi" => tmp = Succ(RxTail)
  /\ mpc = "tailLo" =>
       \E i \in Index : /\ tmp = Succ(i) /\ RxTail = [i EXCEPT !.hi = tmp.hi]
                        /\ served \/ RxHead # i
  /\ mpc = "fetch" => tmp = RxTail
  /\ mpc = "flushLo" /\ whole => RxHead.hi = RxTail.hi

(* One that writes: the ring has a free slot when it has seen one, however *)
(* old the halves of the tail it saw.                                      *)
Writes ==
  /\ mpc \in {"fullLo", "fullHi", "store", "putHi"} => tmp = Succ(TxHead)
  /\ mpc = "fullHi" => seen = TxTail.lo \/ tmp # TxTail
  /\ mpc \in {"store", "putHi"} => tmp # TxTail
  /\ mpc = "putHi" => TxBuf[tmp] = next
  /\ mpc = "putLo" =>
       \E i \in Index : /\ tmp = Succ(i) /\ TxHead = [i EXCEPT !.hi = tmp.hi]
                        /\ served \/ tmp # TxTail

IndInv == Inv /\ Reads /\ Writes

LEMMA Types ==
  ASSUME IndInv
  PROVE  /\ RxHead \in Index /\ RxTail \in Index /\ TxHead \in Index /\ TxTail \in Index
         /\ tmp \in Index /\ next \in Nat /\ arriving \in Nat
         /\ RxBuf \in [Index -> Nat] /\ TxBuf \in [Index -> Nat]
BY DEF IndInv, Inv, TypeOK

LEMMA Indices ==
  ASSUME NEW i \in Index, NEW j \in Index
  PROVE  /\ [hi |-> i.hi, lo |-> i.lo] = i
         /\ [i EXCEPT !.hi = j.hi] = [hi |-> j.hi, lo |-> i.lo]
         /\ [i EXCEPT !.lo = j.lo] = [hi |-> i.hi, lo |-> j.lo]
BY DEF Index

(* A ring whose head is right below its tail holds all it can. *)
LEMMA FullRing ==
  ASSUME NEW tail \in Index, NEW head \in Index, Succ(head) = tail
  PROVE  Distance(tail, head) = RingSize - 1 /\ tail # head
<1> DEFINE t == Position(tail)
           h == Position(head)
<1>1. /\ t \in 0 .. RingSize - 1 /\ h \in 0 .. RingSize - 1 /\ RingSize \in Nat \ {0}
      /\ t = IF h = RingSize - 1 THEN 0 ELSE h + 1
      /\ Distance(tail, head) = IF t <= h THEN h - t ELSE RingSize + h - t
  BY SuccPosition, Positions, Distances, Sizes
<1> HIDE DEF t, h
<1>2. Distance(tail, head) = RingSize - 1 /\ RingSize >= 2
  BY <1>1, Sizes
<1> QED
  BY <1>1, <1>2, Distances

(* A head that looks full against a tail half moved, or empty by a low     *)
(* byte from before it moved, belongs to a crowded ring.                   *)
LEMMA TornTail ==
  ASSUME NEW i \in Index, NEW tail \in Index, NEW head \in Index,
         tail = [i EXCEPT !.hi = Succ(i).hi], Succ(head) = tail, head # i
  PROVE  Distance(Succ(i), head) + 1 >= Low - 1
<1>1. Succ(i) \in Index /\ Low \in Nat \ {0} /\ RingSize = 2 * Low
  BY SuccIsIndex, Sizes
<1>2. tail = [hi |-> Succ(i).hi, lo |-> i.lo]
  BY <1>1, Indices
<1>3. CASE i.lo # Low - 1
  <2>1. Succ(i).hi = i.hi
    BY <1>3 DEF Succ, Index
  <2>2. tail = i
    BY <1>2, <2>1, Indices
  <2>3. Distance(i, head) = RingSize - 1
    BY <2>2, FullRing
  <2>4. Distance(Succ(i), head) = Distance(i, head) - 1
    BY TailMoves
  <2> QED
    BY <1>1, <2>3, <2>4
<1>4. CASE i.lo = Low - 1
  <2>1. Succ(i) = [hi |-> 1 - i.hi, lo |-> 0]
    BY <1>4 DEF Succ
  <2> DEFINE s == Position(Succ(i))
             t == Position(tail)
             h == Position(head)
  <2>2. t = s + (Low - 1)
    <3>1. Succ(i).lo = 0 /\ tail.hi = Succ(i).hi /\ tail.lo = Low - 1
      BY <1>2, <1>4, <2>1
    <3> QED
      BY <1>1, <3>1, Positions
  <2>3. h # RingSize - 1 => h + 1 = t
    BY SuccPosition
  <2>4. /\ s \in 0 .. RingSize - 1 /\ h \in 0 .. RingSize - 1
        /\ (h = RingSize - 1 => t = 0)
        /\ Distance(Succ(i), head) = IF s <= h THEN h - s ELSE RingSize + h - s
    BY <1>1, SuccPosition, Positions, Distances
  <2>5. s # t
    <3> SUFFICES ASSUME s = t PROVE FALSE
      OBVIOUS
    <3>1. Succ(i) = Succ(head)
      BY <1>1, PositionsDiffer
    <3> QED
      BY <3>1, SuccDiffers
  <2> HIDE DEF s, t, h
  <2> QED
    BY <1>1, <2>2, <2>3, <2>4, <2>5
<1> QED
  BY <1>3, <1>4

(* The same for a head half moved: the ring it belongs to is crowded.      *)
LEMMA TornHead ==
  ASSUME NEW i \in Index, NEW tail \in Index, i # tail,
         tail = [hi |-> Succ(i).hi, lo |-> i.lo]
  PROVE  Distance(tail, Succ(i)) >= Low - 1
<1>1. Succ(i) \in Index /\ Low \in Nat \ {0} /\ RingSize = 2 * Low
  BY SuccIsIndex, Sizes
<1>2. i.lo = Low - 1
  <2> SUFFICES ASSUME i.lo # Low - 1 PROVE FALSE
    OBVIOUS
  <2>1. Succ(i).hi = i.hi
    BY DEF Succ, Index
  <2> QED
    BY <2>1, Indices
<1>3. Succ(i) = [hi |-> 1 - i.hi, lo |-> 0]
  BY <1>2 DEF Succ
<1> DEFINE s == Position(Succ(i))
           t == Position(tail)
<1>4. t = s + (Low - 1)
  <2>1. Succ(i).lo = 0 /\ tail.hi = Succ(i).hi /\ tail.lo = Low - 1
    BY <1>2, <1>3
  <2> QED
    BY <1>1, <2>1, Positions
<1>5. /\ s \in 0 .. RingSize - 1 /\ t \in 0 .. RingSize - 1
      /\ Distance(tail, Succ(i)) = IF t <= s THEN s - t ELSE RingSize + s - t
  BY <1>1, Positions, Distances
<1> HIDE DEF s, t
<1> QED
  BY <1>1, <1>4, <1>5

-----------------------------------------------------------------------------
(* The interrupts. *)
LEMMA InterruptFacts ==
  ASSUME Interrupt
  PROVE  /\ mpc \in Halves => ~served /\ served'
         /\ UNCHANGED << RxTail, TxBuf, TxHead, calls, mpc, tmp, seen, taken, next >>
<1>1. mpc \in Halves => served'
  BY Zenon DEF Interrupt
<1> QED
  BY <1>1 DEF Interrupt

LEMMA ReceiveFacts ==
  ASSUME Receive
  PROVE  /\ \/ Succ(RxHead) = RxTail /\ UNCHANGED << RxHead, RxBuf >>
            \/ /\ Succ(RxHead) # RxTail /\ RxHead' = Succ(RxHead)
               /\ RxBuf' = [RxBuf EXCEPT ![Succ(RxHead)] = arriving]
         /\ whole' => whole /\ mpc # "flushLo"
         /\ arriving' = arriving + 1
         /\ UNCHANGED << TxTail, sent >>
<1>1. whole' => whole /\ mpc # "flushLo"
  BY Zenon DEF Receive
<1> QED
  BY <1>1 DEF Receive

LEMMA ReceiveKeeps ==
  ASSUME IndInv, Receive
  PROVE  Reads' /\ Writes'
<1>1. /\ mpc \in Halves => ~served /\ served'
      /\ UNCHANGED << RxTail, TxBuf, TxHead, TxTail, mpc, tmp, seen, next >>
      /\ \/ RxHead' = RxHead
         \/ RxHead' = Succ(RxHead) /\ RxHead' # RxTail
      /\ mpc = "flushLo" => ~whole'
  BY InterruptFacts, ReceiveFacts DEF Receive
<1>2. RxHead \in Index
  BY Types
<1>3. Writes'
  BY <1>1 DEF IndInv, Writes, Halves
<1>4. mpc = "headHi" =>
        \/ seen' = RxHead'.lo
        \/ served' /\ \E i \in Index : i # RxTail' /\ seen' = i.lo /\ RxHead' = Succ(i)
  BY <1>1, <1>2 DEF IndInv, Reads, Halves
<1>5. mpc = "tailLo" =>
        \E i \in Index : /\ tmp' = Succ(i) /\ RxTail' = [i EXCEPT !.hi = tmp'.hi]
                         /\ served' \/ RxHead' # i
  BY <1>1 DEF IndInv, Reads, Halves
<1>6. Reads'
  BY <1>1, <1>4, <1>5 DEF IndInv, Reads
<1> QED
  BY <1>3, <1>6

LEMMA TransmitFacts ==
  ASSUME Transmit
  PROVE  /\ \/ TxHead # TxTail /\ TxTail' = Succ(TxTail) /\ sent' = TxBuf[Succ(TxTail)]
            \/ UNCHANGED << TxTail, sent >>
         /\ UNCHANGED << RxBuf, RxHead, arriving, whole >>
BY DEF Transmit

LEMMA TransmitKeeps ==
  ASSUME IndInv, Transmit
  PROVE  Reads' /\ Writes'
<1>1. /\ mpc \in Halves => ~served /\ served'
      /\ UNCHANGED << RxHead, RxTail, TxBuf, TxHead, mpc, tmp, seen, next, whole >>
      /\ \/ TxTail' = TxTail
         \/ TxHead # TxTail /\ TxTail' = Succ(TxTail)
  BY InterruptFacts, TransmitFacts DEF Transmit
<1>2. TxTail' = TxTail \/ Succ(TxHead) # TxTail'
  BY <1>1, Types, SuccDiffers
<1>3. Reads'
  BY <1>1 DEF IndInv, Reads, Halves
<1>4. Writes'
  BY <1>1, <1>2 DEF IndInv, Writes, Halves
<1> QED
  BY <1>3, <1>4

-----------------------------------------------------------------------------
(* The program. *)
LEMMA ReadingKeeps ==
  ASSUME IndInv, AvailableLo \/ AvailableHi \/ HeadLo \/ HeadHi \/ TailHi \/ TailLo \/ Fetch
                 \/ FlushHi \/ FlushLo
  PROVE  Reads' /\ Writes'
<1>1. RxHead \in Index /\ RxTail \in Index /\ tmp \in Index
  BY Types
<1>2. CASE AvailableLo
  BY <1>2 DEF AvailableLo, LoadHead, Step, reading, writing, Reads, Writes, IndInv
<1>3. CASE AvailableHi
  <2>1. ~Empty => RxHead # RxTail
    BY <1>1, <1>3, Indices DEF AvailableHi, Step, Empty, IndInv, Reads
  <2> QED
    BY <1>3, <2>1 DEF AvailableHi, Step, reading, writing, Reads, Writes, IndInv
<1>4. CASE HeadLo
  BY <1>4 DEF HeadLo, LoadHead, Step, reading, writing, Reads, Writes, IndInv
<1>5. CASE HeadHi
  BY <1>5 DEF HeadHi, Step, writing, Reads, Writes, IndInv
<1>6. CASE TailHi
  <2>1. /\ tmp' = Succ(RxTail) /\ RxTail' = [RxTail EXCEPT !.hi = tmp'.hi]
        /\ RxHead' # RxTail /\ mpc' = "tailLo"
    BY <1>6 DEF TailHi, Step, IndInv, Reads
  <2> QED
    BY <1>1, <2>1 DEF Reads, Writes
<1>7. CASE TailLo
  <2>1. RxTail' = tmp
    <3>1. PICK i \in Index : RxTail = [i EXCEPT !.hi = tmp.hi]
      BY <1>7 DEF TailLo, Step, IndInv, Reads
    <3>2. RxTail.hi = tmp.hi
      BY <1>1, <3>1, Indices
    <3> QED
      BY <1>1, <1>7, <3>2, Indices DEF TailLo
  <2> QED
    BY <1>7, <2>1 DEF TailLo, Step, writing, Reads, Writes, IndInv
<1>8. CASE Fetch
  BY <1>8 DEF Fetch, Step, writing, Reads, Writes, IndInv
<1>9. CASE FlushHi
  <2>1. RxHead'.hi = RxTail'.hi
    BY <1>1, <1>9, Indices DEF FlushHi
  <2> QED
    BY <1>9, <2>1 DEF FlushHi, Step, writing, Reads, Writes, IndInv
<1>10. CASE FlushLo
  BY <1>10 DEF FlushLo, Step, writing, Reads, Writes, IndInv
<1> QED
  BY <1>2, <1>3, <1>4, <1>5, <1>6, <1>7, <1>8, <1>9, <1>10

LEMMA WritingKeeps ==
  ASSUME IndInv, Start \/ FullLo \/ FullHi \/ Store \/ PutHi \/ PutLo \/ Enable
  PROVE  Reads' /\ Writes'
<1>1. /\ TxHead \in Index /\ TxTail \in Index /\ tmp \in Index
      /\ TxBuf \in [Index -> Nat]
  BY Types
<1>2. CASE Start
  BY <1>2 DEF Start, Step, reading, writing, Reads, Writes, IndInv
<1>3. CASE FullLo
  BY <1>3 DEF FullLo, Step, reading, writing, Reads, Writes, IndInv
<1>4. CASE FullHi
  <2>1. tmp # [hi |-> TxTail.hi, lo |-> seen] => tmp # TxTail
    BY <1>1, <1>4, Indices DEF FullHi, Step, IndInv, Writes
  <2> QED
    BY <1>4, <2>1 DEF FullHi, Step, reading, writing, Reads, Writes, IndInv
<1>5. CASE Store
  <2>1. TxBuf'[tmp] = next
    BY <1>1, <1>5 DEF Store
  <2> QED
    BY <1>5, <2>1 DEF Store, Step, reading, Reads, Writes, IndInv
<1>6. CASE PutHi
  <2>1. /\ tmp' = Succ(TxHead) /\ TxHead' = [TxHead EXCEPT !.hi = tmp'.hi]
        /\ tmp' # TxTail' /\ mpc' = "putLo"
    BY <1>6 DEF PutHi, Step, IndInv, Writes
  <2> QED
    BY <1>1, <2>1 DEF Reads, Writes
<1>7. CASE PutLo
  BY <1>7 DEF PutLo, Step, reading, Reads, Writes, IndInv
<1>8. CASE Enable
  BY <1>8 DEF Enable, Step, reading, Reads, Writes, IndInv
<1> QED
  BY <1>2, <1>3, <1>4, <1>5, <1>6, <1>7, <1>8

LEMMA StepIndInv == IndInv /\ [Next]_vars => IndInv'
<1>1. IndInv /\ [Next]_vars => Inv'
  BY StepInv DEF IndInv
<1>2. IndInv /\ UNCHANGED vars => Reads' /\ Writes'
  BY DEF vars, rings, IndInv, Reads, Writes
<1>3. IndInv /\ Next => Reads' /\ Writes'
  BY ReceiveKeeps, TransmitKeeps, ReadingKeeps, WritingKeeps DEF Next, Program
<1> QED
  BY <1>1, <1>2, <1>3 DEF IndInv

LEMMA IndInvariance == Spec => []IndInv
<1>1. Init => IndInv
  BY InitInv DEF Init, IndInv, Reads, Writes
<1> QED
  BY <1>1, StepIndInv, PTL DEF Spec

-----------------------------------------------------------------------------
(* The queues as the program and the line see them. *)
Received ==
  IF mpc = "tailLo" THEN << RxBuf[tmp] >> \o Between(RxBuf, tmp, RxHead)
  ELSE Between(RxBuf, RxTail, IF mpc = "flushLo" THEN RxTail ELSE RxHead)
Taken   == IF mpc = "fetch" THEN RxBuf[tmp] ELSE taken
Sending == Between(TxBuf, TxTail, IF mpc = "putLo" THEN tmp ELSE TxHead)
Counted == IF mpc = "putLo" THEN next + 1 ELSE next

LEMMA Unseen ==
  ASSUME UNCHANGED << Received, arriving, Taken, Sending, Counted, sent, whole >>
  PROVE  UNCHANGED Rings!vars
BY DEF Rings!vars, Received, Taken, Sending, Counted

(* A byte that arrives is queued, or finds the queue crowded. *)
LEMMA ReceiveStep ==
  ASSUME IndInv, Receive, whole'
  PROVE  Rings!Arrive
<1>1. /\ mpc \in Halves => ~served
      /\ UNCHANGED << RxTail, TxBuf, TxHead, TxTail, mpc, tmp, next, taken, sent >>
      /\ \/ Succ(RxHead) = RxTail /\ UNCHANGED << RxHead, RxBuf >>
         \/ /\ Succ(RxHead) # RxTail /\ RxHead' = Succ(RxHead)
            /\ RxBuf' = [RxBuf EXCEPT ![Succ(RxHead)] = arriving]
      /\ mpc # "flushLo" /\ arriving' = arriving + 1
  BY InterruptFacts, ReceiveFacts DEF Receive
<1>2. /\ RxHead \in Index /\ RxTail \in Index /\ tmp \in Index /\ arriving \in Nat
      /\ RxBuf \in [Index -> Nat] /\ Succ(RxHead) \in Index
  BY Types, SuccIsIndex
<1>3. RxBuf' \in [Index -> Nat]
  BY <1>1, <1>2
<1>4. Sending' = Sending /\ Counted' = Counted
  BY <1>1 DEF Sending, Counted
<1>5. Taken' = Taken
  <2>1. mpc = "fetch" => RxBuf'[tmp] = RxBuf[tmp]
    BY <1>1, <1>2 DEF IndInv, Reads
  <2> QED
    BY <1>1, <2>1 DEF Taken
<1>6. \/ Received' = Append(Received, arriving)
      \/ Len(Received) >= Low - 1 /\ Received' = Received
  <2>1. CASE mpc = "tailLo"
    <3>1. PICK i \in Index : /\ tmp = Succ(i) /\ RxTail = [i EXCEPT !.hi = tmp.hi]
                             /\ RxHead # i
      BY <1>1, <2>1 DEF IndInv, Reads, Halves
    <3> DEFINE rest == Between(RxBuf, tmp, RxHead)
    <3>2. rest \in Seq(Nat) /\ Len(rest) = Distance(tmp, RxHead) /\ RxBuf[tmp] \in Nat
      BY <1>2, Queue
    <3>3. Received = << RxBuf[tmp] >> \o rest
      BY <2>1 DEF Received
    <3>4. CASE Succ(RxHead) = RxTail
      <4>1. Len(rest) + 1 >= Low - 1
        BY <1>2, <3>1, <3>2, <3>4, TornTail
      <4>2. Len(Received) = 1 + Len(rest)
        BY <3>2, <3>3
      <4>3. Len(rest) \in Nat
        BY <3>2
      <4>4. Received' = Received
        BY <1>1, <2>1, <3>4 DEF Received
      <4> QED
        BY <4>1, <4>2, <4>3, <4>4
    <3>5. CASE Succ(RxHead) # RxTail
      <4>1. Succ(RxHead) # tmp
        BY <1>2, <3>1, SuccDiffers
      <4>2. /\ RxHead' = Succ(RxHead)
            /\ RxBuf' = [RxBuf EXCEPT ![Succ(RxHead)] = arriving]
        BY <1>1, <3>5
      <4>3. \A j \in Index : j # Succ(RxHead) => RxBuf'[j] = RxBuf[j]
        BY <1>2, <4>2
      <4>4. RxBuf'[Succ(RxHead)] = arriving /\ RxBuf'[tmp] = RxBuf[tmp]
        BY <1>2, <4>1, <4>2
      <4>5. Between(RxBuf', tmp, RxHead') = Append(rest, arriving)
        <5>1. Between([RxBuf EXCEPT ![Succ(RxHead)] = arriving], tmp, Succ(RxHead))
                = Append(rest, arriving)
          BY <1>2, <4>1, BytePut, ZenonT(40)
        <5> QED
          BY <4>2, <5>1, Zenon
      <4>6. Received' = << RxBuf[tmp] >> \o Append(rest, arriving)
        BY <1>1, <2>1, <4>4, <4>5 DEF Received
      <4>7. << RxBuf[tmp] >> \o Append(rest, arriving)
              = Append(<< RxBuf[tmp] >> \o rest, arriving)
        <5> HIDE DEF rest
        <5> QED
          BY <1>2, <3>2, SMTT(30)
      <4> QED
        BY <3>3, <4>6, <4>7
    <3> QED
      BY <3>4, <3>5
  <2>2. CASE mpc # "tailLo"
    <3>1. /\ Received = Between(RxBuf, RxTail, RxHead)
          /\ Received' = Between(RxBuf', RxTail, RxHead')
      BY <1>1, <2>2 DEF Received
    <3>2. CASE Succ(RxHead) = RxTail
      <4>1. Len(Received) = RingSize - 1
        BY <1>2, <3>1, <3>2, FullRing, Queue
      <4> QED
        BY <1>1, <3>1, <3>2, <4>1, Sizes
    <3>3. CASE Succ(RxHead) # RxTail
      <4>1. /\ RxHead' = Succ(RxHead)
            /\ RxBuf' = [RxBuf EXCEPT ![Succ(RxHead)] = arriving]
        BY <1>1, <3>3
      <4>2. /\ RxBuf'[Succ(RxHead)] = arriving
            /\ \A j \in Index : j # Succ(RxHead) => RxBuf'[j] = RxBuf[j]
        BY <1>2, <4>1
      <4>3. Between([RxBuf EXCEPT ![Succ(RxHead)] = arriving], RxTail, Succ(RxHead))
              = Append(Received, arriving)
        BY <1>2, <3>1, <3>3, BytePut
      <4> QED
        BY <3>1, <4>1, <4>3, Zenon
    <3> QED
      BY <3>2, <3>3
  <2> QED
    BY <2>1, <2>2
<1> QED
  BY <1>1, <1>4, <1>5, <1>6
  DEF Rings!Arrive, Rings!Crowded, Received, Taken, Sending, Counted

(* The byte that is sent is the next of those that were put, also between  *)
(* the two halves of a new head.                                           *)
LEMMA TransmitStep ==
  ASSUME IndInv, Transmit
  PROVE  Rings!Transmit \/ UNCHANGED Rings!vars
<1>1. /\ mpc \in Halves => ~served
      /\ UNCHANGED << RxBuf, RxHead, RxTail, TxBuf, TxHead, mpc, tmp, next, taken,
                      arriving, whole >>
  BY InterruptFacts, TransmitFacts DEF Transmit
<1>2. /\ TxHead \in Index /\ TxTail \in Index /\ tmp \in Index
      /\ TxBuf \in [Index -> Nat]
  BY Types
<1>3. Received' = Received /\ Taken' = Taken /\ Counted' = Counted
  BY <1>1 DEF Received, Taken, Counted
<1>4. CASE UNCHANGED << TxTail, sent >>
  <2>1. Sending' = Sending
    BY <1>1, <1>4 DEF Sending
  <2> QED
    BY <1>1, <1>3, <1>4, <2>1, Unseen
<1>5. CASE TxHead # TxTail /\ TxTail' = Succ(TxTail) /\ sent' = TxBuf[Succ(TxTail)]
  <2> DEFINE head == IF mpc = "putLo" THEN tmp ELSE TxHead
  <2>1. head \in Index /\ head # TxTail
    BY <1>1, <1>2, <1>5 DEF IndInv, Writes, Halves
  <2>2. /\ Sending = Between(TxBuf, TxTail, head)
        /\ Sending' = Between(TxBuf, Succ(TxTail), head)
    BY <1>1, <1>5 DEF Sending
  <2> HIDE DEF head
  <2>3. Sending # <<>> /\ Head(Sending) = TxBuf[Succ(TxTail)] /\ Tail(Sending) = Sending'
    BY <1>2, <2>1, <2>2, QueueShrinks
  <2>4. Rings!Transmit
    BY <1>1, <1>3, <1>5, <2>3 DEF Rings!Transmit, Received, Taken, Sending, Counted
  <2> QED
    BY <2>4
<1> QED
  BY <1>4, <1>5, TransmitFacts

(* The program takes bytes as they came, *)
LEMMA TakeStep ==
  ASSUME IndInv, TailLo
  PROVE  Rings!Take
<1>1. /\ mpc = "tailLo" /\ mpc' = "fetch" /\ UNCHANGED << arriving, sent, whole >>
      /\ UNCHANGED << tmp, taken, RxBuf, RxHead, next, TxBuf, TxHead, TxTail >>
  BY DEF TailLo, Step, writing
<1>2. /\ RxHead \in Index /\ RxTail \in Index /\ tmp \in Index
      /\ RxBuf \in [Index -> Nat]
  BY Types
<1>3. RxTail' = tmp
  BY <1>1, ReadingKeeps DEF Reads
<1> DEFINE rest == Between(RxBuf, tmp, RxHead)
<1>4. Received = << RxBuf[tmp] >> \o rest /\ Received' = rest
  BY <1>1, <1>3 DEF Received
<1>5. rest \in Seq(Nat) /\ RxBuf[tmp] \in Nat
  BY <1>2, Queue
<1> HIDE DEF rest
<1>6. << RxBuf[tmp] >> \o rest # <<>> /\ Head(<< RxBuf[tmp] >> \o rest) = RxBuf[tmp]
  BY <1>5
<1>7. Tail(<< RxBuf[tmp] >> \o rest) = rest
  BY <1>5
<1>8. Taken' = RxBuf[tmp] /\ Sending' = Sending /\ Counted' = Counted
  BY <1>1 DEF Taken, Sending, Counted
<1> QED
  BY <1>1, <1>4, <1>6, <1>7, <1>8 DEF Rings!Take, Received, Taken, Sending, Counted

LEMMA TailHides ==
  ASSUME IndInv, TailHi
  PROVE  UNCHANGED Rings!vars
<1>1. /\ mpc = "tailHi" /\ mpc' = "tailLo" /\ UNCHANGED << arriving, sent, whole >>
      /\ UNCHANGED << tmp, taken, RxBuf, RxHead, next, TxBuf, TxHead, TxTail >>
      /\ RxHead # RxTail /\ tmp = Succ(RxTail)
  BY DEF TailHi, Step, writing, IndInv, Reads
<1>2. /\ RxHead \in Index /\ RxTail \in Index /\ RxBuf \in [Index -> Nat]
  BY Types
<1>3. Received' = Received
  BY <1>1, <1>2, QueueShrinks DEF Received
<1>4. Taken' = Taken /\ Sending' = Sending /\ Counted' = Counted
  BY <1>1 DEF Taken, Sending, Counted
<1> QED
  BY <1>1, <1>3, <1>4, Unseen

(* or takes a crowded ring for an empty one. *)
LEMMA HeadStep ==
  ASSUME IndInv, HeadHi
  PROVE  Rings!Misread \/ UNCHANGED Rings!vars
<1>1. /\ mpc = "headHi" /\ UNCHANGED << arriving, sent, whole >>
      /\ UNCHANGED << RxBuf, RxHead, RxTail, next, TxBuf, TxHead, TxTail >>
      /\ \/ Empty /\ mpc' = "idle" /\ taken' = 0
         \/ mpc' = "tailHi" /\ taken' = taken
  BY DEF HeadHi, Step, writing
<1>2. /\ RxHead \in Index /\ RxTail \in Index /\ RxBuf \in [Index -> Nat]
  BY Types
<1>3. /\ Received' = Received /\ Taken' = taken' /\ Taken = taken
      /\ Sending' = Sending /\ Counted' = Counted
  BY <1>1 DEF Received, Taken, Sending, Counted
<1>4. CASE Empty /\ taken' = 0
  <2>1. seen # RxHead.lo
    <3>1. RxHead # RxTail
      BY <1>1 DEF IndInv, Reads
    <3> QED
      BY <1>2, <1>4, <3>1, Indices DEF Empty
  <2>2. PICK i \in Index : i # RxTail /\ seen = i.lo /\ RxHead = Succ(i)
    BY <1>1, <2>1 DEF IndInv, Reads
  <2>3. Distance(RxTail, RxHead) >= Low - 1
    BY <1>2, <1>4, <2>2, TornHead DEF Empty
  <2>4. Len(Received) >= Low - 1
    BY <1>1, <1>2, <2>3, Queue DEF Received
  <2>5. Rings!Misread
    BY <1>1, <1>3, <1>4, <2>4
    DEF Rings!Misread, Rings!Crowded, Received, Taken, Sending, Counted
  <2> QED
    BY <2>5
<1>5. CASE taken' = taken
  BY <1>1, <1>3, <1>5, Unseen
<1> QED
  BY <1>1, <1>4, <1>5

(* A byte is put with the first half of a new head, *)
LEMMA PutStep ==
  ASSUME IndInv, PutHi
  PROVE  Rings!Put
<1>1. /\ mpc = "putHi" /\ mpc' = "putLo" /\ UNCHANGED << arriving, sent, whole >>
      /\ UNCHANGED << tmp, taken, RxBuf, RxHead, RxTail, next, TxBuf, TxTail >>
      /\ tmp = Succ(TxHead) /\ tmp # TxTail /\ TxBuf[tmp] = next
  BY DEF PutHi, Step, reading, IndInv, Writes
<1>2. /\ TxHead \in Index /\ TxTail \in Index /\ TxBuf \in [Index -> Nat] /\ next \in Nat
  BY Types
<1>3. Sending' = Append(Sending, next)
  BY <1>1, <1>2, QueueGrows DEF Sending
<1>4. Counted' = Counted + 1 /\ Counted = next /\ Received' = Received /\ Taken' = Taken
  BY <1>1 DEF Counted, Received, Taken
<1> QED
  BY <1>1, <1>3, <1>4 DEF Rings!Put, Received, Taken, Sending, Counted

(* and the receive ring is empty with the first half of a flush. *)
LEMMA FlushStep ==
  ASSUME IndInv, FlushHi
  PROVE  Rings!Flush
<1>1. /\ mpc = "flushHi" /\ mpc' = "flushLo" /\ UNCHANGED << arriving, sent, whole >>
      /\ UNCHANGED << tmp, taken, RxBuf, RxTail, next, TxBuf, TxHead, TxTail >>
  BY DEF FlushHi, Step, writing
<1>2. RxTail \in Index /\ RxBuf \in [Index -> Nat]
  BY Types
<1>3. Received' = <<>>
  BY <1>1, <1>2, NothingQueued DEF Received
<1>4. Counted' = Counted /\ Sending' = Sending /\ Taken' = Taken
  BY <1>1 DEF Counted, Sending, Taken
<1> QED
  BY <1>1, <1>3, <1>4 DEF Rings!Flush, Received, Taken, Sending, Counted

(* A byte stored behind the head is not in the queue yet. *)
LEMMA StoredByte ==
  ASSUME TxBuf \in [Index -> Nat], TxTail \in Index, TxHead \in Index, next \in Nat,
         Succ(TxHead) # TxTail
  PROVE  Between([TxBuf EXCEPT ![Succ(TxHead)] = next], TxTail, TxHead)
           = Between(TxBuf, TxTail, TxHead)
BY BytePut

(* No other access of the program is seen. *)
LEMMA OthersHide ==
  ASSUME IndInv, whole,
         \/ Start \/ AvailableLo \/ AvailableHi \/ HeadLo \/ Fetch
         \/ FullLo \/ FullHi \/ Store \/ PutLo \/ Enable \/ FlushLo
  PROVE  UNCHANGED Rings!vars
<1>1. /\ RxHead \in Index /\ RxTail \in Index /\ tmp \in Index
      /\ TxHead \in Index /\ TxTail \in Index /\ TxBuf \in [Index -> Nat] /\ next \in Nat
      /\ RxBuf \in [Index -> Nat]
  BY Types
<1> USE DEF Received, Taken, Sending, Counted
<1>2. CASE Start
  BY <1>2, Unseen DEF Start, Step, reading, writing
<1>3. CASE AvailableLo \/ AvailableHi \/ HeadLo
  BY <1>3, Unseen DEF AvailableLo, AvailableHi, HeadLo, LoadHead, Step, reading, writing
<1>4. CASE Fetch
  BY <1>4, Unseen DEF Fetch, Step, writing
<1>5. CASE FullLo \/ FullHi \/ Enable
  BY <1>5, Unseen DEF FullLo, FullHi, Enable, Step, reading, writing
<1>6. CASE Store
  <2>1. /\ mpc = "store" /\ mpc' = "putHi" /\ tmp = Succ(TxHead) /\ tmp # TxTail
        /\ TxBuf' = [TxBuf EXCEPT ![tmp] = next] /\ UNCHANGED << TxHead, TxTail >>
    BY <1>6 DEF Store, Step, IndInv, Writes
  <2>2. /\ Succ(TxHead) # TxTail
        /\ TxBuf' = [TxBuf EXCEPT ![Succ(TxHead)] = next]
    BY <2>1
  <2>3. Between([TxBuf EXCEPT ![Succ(TxHead)] = next], TxTail, TxHead)
          = Between(TxBuf, TxTail, TxHead)
    BY <1>1, <2>2, StoredByte
  <2>4. Between(TxBuf', TxTail, TxHead) = Between(TxBuf, TxTail, TxHead)
    BY <2>2, <2>3, Zenon
  <2> QED
    BY <1>6, <2>1, <2>4, Unseen DEF Store, Step, reading
<1>7. CASE PutLo
  <2>1. TxHead' = tmp
    <3>1. PICK i \in Index : TxHead = [i EXCEPT !.hi = tmp.hi]
      BY <1>7 DEF PutLo, Step, IndInv, Writes
    <3>2. TxHead.hi = tmp.hi
      BY <1>1, <3>1, Indices
    <3> QED
      BY <1>1, <1>7, <3>2, Indices, ZenonT(40) DEF PutLo
  <2> QED
    BY <1>7, <2>1, Unseen DEF PutLo, Step, reading
<1>8. CASE FlushLo
  <2>1. RxHead' = RxTail
    <3>1. RxHead.hi = RxTail.hi
      BY <1>8 DEF FlushLo, Step, IndInv, Reads
    <3> QED
      BY <1>1, <1>8, <3>1, Indices DEF FlushLo
  <2> QED
    BY <1>8, <2>1, Unseen DEF FlushLo, Step, writing
<1> QED
  BY <1>2, <1>3, <1>4, <1>5, <1>6, <1>7, <1>8

LEMMA StepImplements ==
  ASSUME IndInv, [Next]_vars
  PROVE  [Rings!Next]_(Rings!vars)
<1>1. CASE ~whole'
  BY <1>1 DEF Rings!Next
<1>2. CASE whole' /\ UNCHANGED vars
  BY <1>2, Unseen DEF vars, rings, Received, Taken, Sending, Counted
<1>3. CASE whole' /\ Receive
  BY <1>3, ReceiveStep DEF Rings!Next
<1>4. CASE whole' /\ Transmit
  BY <1>4, TransmitStep DEF Rings!Next
<1>5. CASE whole' /\ (Start \/ Program)
  <2>1. whole
    BY <1>5 DEF Start, Program, AvailableLo, AvailableHi, HeadLo, LoadHead, HeadHi, TailHi,
       TailLo, Fetch, FullLo, FullHi, Store, PutHi, PutLo, Enable, FlushHi, FlushLo, Step
  <2> QED
    BY <1>5, <2>1, TakeStep, TailHides, HeadStep, PutStep, FlushStep, OthersHide
    DEF Rings!Next, Program
<1> QED
  BY <1>1, <1>2, <1>3, <1>4, <1>5 DEF Next

(* For rings of every size, all programs and every interleaving with the   *)
(* interrupts, at the level of single bytes of an index: the rings are     *)
(* queues, which lose nothing but what arrives in a crowded one, as long   *)
(* as no byte arrives in the middle of a flush.                            *)
THEOREM RingsAreQueues == Spec => Implements
<1>1. Init => Rings!Init
  <2> SUFFICES ASSUME Init PROVE Rings!Init
    OBVIOUS
  <2>1. /\ Zero \in Index
        /\ RxBuf \in [Index -> Nat] /\ TxBuf \in [Index -> Nat]
    BY InitInv, ZeroIsIndex DEF Inv, TypeOK
  <2>2. Between(RxBuf, Zero, Zero) = <<>> /\ Between(TxBuf, Zero, Zero) = <<>>
    BY <2>1, NothingQueued
  <2> QED
    BY <2>2 DEF Init, Rings!Init
<1>2. IndInv /\ [Next]_vars => [Rings!Next]_(Rings!vars)
  BY StepImplements
<1> QED
  BY <1>1, <1>2, IndInvariance, PTL DEF Spec, Implements, Rings!Spec
=============================================================================
