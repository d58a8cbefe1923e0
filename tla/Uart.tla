-------------------------------- MODULE Uart --------------------------------
(***************************************************************************)
(* The UART library of the servant64 firmware (driver/servant64/uart.c):   *)
(* a ring of received bytes and one of bytes to be sent, each between the  *)
(* program and an interrupt.  The rings are larger than 256 bytes, so that *)
(* an index is two bytes, and the processor loads and stores one byte at a *)
(* time: first the low byte of a load, first the high byte of a store.     *)
(* Nobody masks interrupts meanwhile.  An action here is one access of the *)
(* program to an index it shares, or a whole interrupt.                    *)
(***************************************************************************)
EXTENDS Naturals, Sequences

CONSTANTS
  Low,          \* values of the low byte of an index: 256
  Arrivals,     \* bound on the bytes that arrive, numbered from 1
  Puts,         \* bound on the bytes that are written, numbered from 1
  Programs      \* sets of calls: what a program may call uart.c for

ASSUME LowAssumption == Low \in Nat \ {0}
ASSUME BoundsAssumption == Arrivals \in Nat /\ Puts \in Nat
ASSUME ProgramsAssumption == Programs \subseteq SUBSET {"read", "write", "flush"}

(* Both rings have 512 bytes: the mask leaves one bit of the high byte. *)
Index == [hi : {0, 1}, lo : 0 .. Low - 1]
RingSize == 2 * Low

(* Mutant of Succ: the index is not masked. *)
SuccMutant(i) ==
  IF i.lo = Low - 1 THEN [hi |-> 1 + i.hi, lo |-> 0] ELSE [i EXCEPT !.lo = @ + 1]

Succ(i) ==
  IF i.lo = Low - 1 THEN [hi |-> 1 - i.hi, lo |-> 0] ELSE [i EXCEPT !.lo = @ + 1]

VARIABLES
  RxBuf, RxHead, RxTail,
  TxBuf, TxHead, TxTail,
  udrie,        \* UDRIE0: is the transmit interrupt enabled?
  calls,        \* the calls the program makes
  mpc,          \* where the program is
  tmp,          \* its tmphead or tmptail, zero when it has none
  seen,         \* the low byte of an index it has loaded, zero otherwise
  served,       \* has there been an interrupt since its last access?
  arriving,     \* the byte the line brings next
  taken,        \* the byte the program read last
  next,         \* the byte it writes next
  sent,         \* the byte that was sent last
  whole         \* no interrupt has come into the middle of a flush

rings == << RxBuf, RxHead, RxTail, TxBuf, TxHead, TxTail >>
vars == << rings, udrie, calls, mpc, tmp, seen, served, arriving, taken, next, sent, whole >>

(* The second access to an index: the next instruction after the first. *)
Halves == {"availableHi", "headHi", "tailLo", "fullHi", "putLo", "flushLo"}

TypeOK ==
  /\ RxBuf \in [Index -> Nat] /\ RxHead \in Index /\ RxTail \in Index
  /\ TxBuf \in [Index -> Nat] /\ TxHead \in Index /\ TxTail \in Index
  /\ calls \in Programs
  /\ mpc \in {"idle", "availableLo", "headLo", "tailHi", "fetch",
              "fullLo", "store", "putHi", "enable", "flushHi"} \cup Halves
  /\ tmp \in Index
  /\ seen \in 0 .. Low - 1
  /\ << udrie, served, whole >> \in BOOLEAN \X BOOLEAN \X BOOLEAN
  /\ << arriving, taken, next, sent >> \in Nat \X Nat \X Nat \X Nat

Zero == [hi |-> 0, lo |-> 0]

(* uart0_init. *)
Init ==
  /\ RxBuf = [i \in Index |-> 0] /\ RxHead = Zero /\ RxTail = Zero
  /\ TxBuf = [i \in Index |-> 0] /\ TxHead = Zero /\ TxTail = Zero
  /\ udrie = FALSE
  /\ calls \in Programs
  /\ mpc = "idle"
  /\ tmp = Zero
  /\ seen = 0
  /\ served = FALSE
  /\ arriving = 1
  /\ taken = 0
  /\ next = 1
  /\ sent = 0
  /\ whole = TRUE

-----------------------------------------------------------------------------
(* One instruction of the program is executed after every interrupt, which *)
(* leaves room for one between the two accesses to an index.               *)
Interrupt ==
  /\ mpc \in Halves => ~served
  /\ served' = (mpc \in Halves)
  /\ UNCHANGED << RxTail, TxBuf, TxHead, calls, mpc, tmp, seen, taken, next >>

(* Mutant of Receive: a full ring begins anew. *)
ReceiveMutant ==
  /\ Interrupt
  /\ arriving <= Arrivals
  /\ RxHead' = Succ(RxHead)
  /\ RxBuf' = [RxBuf EXCEPT ![RxHead'] = arriving]
  /\ arriving' = arriving + 1
  /\ whole' = (whole /\ mpc # "flushLo")
  /\ UNCHANGED << TxTail, udrie, sent >>

(* UART0_RECEIVE_INTERRUPT. *)
Receive ==
  /\ Interrupt
  /\ arriving <= Arrivals
  /\ \/ /\ Succ(RxHead) = RxTail
        /\ UNCHANGED << RxHead, RxBuf >>
     \/ /\ Succ(RxHead) # RxTail
        /\ RxHead' = Succ(RxHead)
        /\ RxBuf' = [RxBuf EXCEPT ![RxHead'] = arriving]
  /\ arriving' = arriving + 1
  /\ whole' = (whole /\ mpc # "flushLo")
  /\ UNCHANGED << TxTail, udrie, sent >>

(* UART0_TRANSMIT_INTERRUPT. *)
Transmit ==
  /\ Interrupt
  /\ udrie
  /\ \/ /\ TxHead # TxTail
        /\ TxTail' = Succ(TxTail)
        /\ sent' = TxBuf[TxTail']
        /\ UNCHANGED udrie
     \/ /\ TxHead = TxTail
        /\ udrie' = FALSE
        /\ UNCHANGED << TxTail, sent >>
  /\ UNCHANGED << RxBuf, RxHead, arriving, whole >>

-----------------------------------------------------------------------------
(* The program. *)
Step(from, to) ==
  /\ mpc = from
  /\ mpc' = to
  /\ served' = FALSE
  /\ UNCHANGED << calls, arriving, sent, whole >>

reading == << taken, RxBuf, RxHead, RxTail >>
writing == << next, TxBuf, TxHead, TxTail, udrie >>

(* The firmware reads a byte (ReadSerial), writes one or flushes. *)
Start ==
  \/ /\ "read" \in calls
     /\ Step("idle", "availableLo")
     /\ UNCHANGED << tmp, seen, reading, writing >>
  \/ /\ "write" \in calls
     /\ next <= Puts
     /\ Step("idle", "fullLo")
     /\ tmp' = Succ(TxHead)
     /\ UNCHANGED << seen, reading, writing >>
  \/ /\ "flush" \in calls
     /\ Step("idle", "flushHi")
     /\ UNCHANGED << tmp, seen, reading, writing >>

LoadHead(from, to) ==
  /\ Step(from, to)
  /\ seen' = RxHead.lo
  /\ UNCHANGED << tmp, reading, writing >>

Empty == [hi |-> RxHead.hi, lo |-> seen] = RxTail

(* uart0_available, called until there is something, ... *)
AvailableLo == LoadHead("availableLo", "availableHi")

(* Mutant of AvailableHi: the difference is not taken modulo the ring. *)
AvailableMutant ==
  /\ \/ /\ RxHead.hi < RxTail.hi
        /\ Step("availableHi", "availableLo")
     \/ /\ RxHead.hi >= RxTail.hi
        /\ Step("availableHi", IF Empty THEN "availableLo" ELSE "headLo")
  /\ seen' = 0
  /\ UNCHANGED << tmp, reading, writing >>

AvailableHi ==
  /\ Step("availableHi", IF Empty THEN "availableLo" ELSE "headLo")
  /\ seen' = 0
  /\ UNCHANGED << tmp, reading, writing >>

(* ... then uart0_getc.  The low byte of UART_NO_DATA is zero. *)
HeadLo == LoadHead("headLo", "headHi")

HeadHi ==
  /\ \/ /\ Empty
        /\ Step("headHi", "idle")
        /\ taken' = 0
        /\ UNCHANGED tmp
     \/ /\ ~Empty
        /\ Step("headHi", "tailHi")
        /\ tmp' = Succ(RxTail)
        /\ UNCHANGED taken
  /\ seen' = 0
  /\ UNCHANGED << RxBuf, RxHead, RxTail, writing >>

TailHi ==
  /\ Step("tailHi", "tailLo")
  /\ RxTail' = [RxTail EXCEPT !.hi = tmp.hi]
  /\ UNCHANGED << tmp, seen, taken, RxBuf, RxHead, writing >>

TailLo ==
  /\ Step("tailLo", "fetch")
  /\ RxTail' = [RxTail EXCEPT !.lo = tmp.lo]
  /\ UNCHANGED << tmp, seen, taken, RxBuf, RxHead, writing >>

Fetch ==
  /\ Step("fetch", "idle")
  /\ taken' = RxBuf[tmp]
  /\ tmp' = Zero
  /\ UNCHANGED << seen, RxBuf, RxHead, RxTail, writing >>

(* uart0_putc. *)
FullLo ==
  /\ Step("fullLo", "fullHi")
  /\ seen' = TxTail.lo
  /\ UNCHANGED << tmp, reading, writing >>

FullHi ==
  /\ Step("fullHi", IF tmp = [hi |-> TxTail.hi, lo |-> seen] THEN "fullLo" ELSE "store")
  /\ seen' = 0
  /\ UNCHANGED << tmp, reading, writing >>

Store ==
  /\ Step("store", "putHi")
  /\ TxBuf' = [TxBuf EXCEPT ![tmp] = next]
  /\ UNCHANGED << tmp, seen, reading, next, TxHead, TxTail, udrie >>

PutHi ==
  /\ Step("putHi", "putLo")
  /\ TxHead' = [TxHead EXCEPT !.hi = tmp.hi]
  /\ UNCHANGED << tmp, seen, reading, next, TxBuf, TxTail, udrie >>

(* Mutant of PutLo: the interrupt is not enabled again. *)
PutLoMutant ==
  /\ Step("putLo", "idle")
  /\ TxHead' = [TxHead EXCEPT !.lo = tmp.lo]
  /\ next' = next + 1
  /\ UNCHANGED << tmp, seen, reading, TxBuf, TxTail, udrie >>

PutLo ==
  /\ Step("putLo", "enable")
  /\ TxHead' = [TxHead EXCEPT !.lo = tmp.lo]
  /\ next' = next + 1
  /\ UNCHANGED << tmp, seen, reading, TxBuf, TxTail, udrie >>

Enable ==
  /\ Step("enable", "idle")
  /\ udrie' = TRUE
  /\ tmp' = Zero
  /\ UNCHANGED << seen, reading, next, TxBuf, TxHead, TxTail >>

(* uart0_flush. *)
FlushHi ==
  /\ Step("flushHi", "flushLo")
  /\ RxHead' = [RxHead EXCEPT !.hi = RxTail.hi]
  /\ UNCHANGED << tmp, seen, taken, RxBuf, RxTail, writing >>

FlushLo ==
  /\ Step("flushLo", "idle")
  /\ RxHead' = [RxHead EXCEPT !.lo = RxTail.lo]
  /\ UNCHANGED << tmp, seen, taken, RxBuf, RxTail, writing >>

Program ==
  \/ AvailableLo \/ AvailableHi \/ HeadLo \/ HeadHi \/ TailHi \/ TailLo \/ Fetch
  \/ FullLo \/ FullHi \/ Store \/ PutHi \/ PutLo \/ Enable
  \/ FlushHi \/ FlushLo

Next == Start \/ Program \/ Receive \/ Transmit

(* The program runs, and the transmitter is free again after each byte.    *)
(* Nothing is assumed of the line that brings bytes.                       *)
Fairness == WF_vars(Program) /\ WF_vars(Transmit)

Spec == Init /\ [][Next]_vars /\ Fairness

-----------------------------------------------------------------------------
(* What there is to transmit will be transmitted: a transmit interrupt     *)
(* that finds the ring empty while the program is in the middle of         *)
(* uart0_putc does not leave it switched off.                              *)
WillTransmit ==
  mpc \notin {"putLo", "enable"} /\ TxHead # TxTail => udrie

(* uart0_putc returns, even if it finds the ring full. *)
PutReturns == (mpc = "fullLo") ~> (mpc = "idle")

(* A byte that is there is read, even if every look at the ring is         *)
(* interrupted by the next one.                                            *)
ReadReturns ==
  (mpc \in {"availableLo", "availableHi"} /\ RxHead # RxTail) ~> (mpc = "idle")

Position(i) == (Low * i.hi) + i.lo
At(n) == [hi |-> (n \div Low) % 2, lo |-> n % Low]

(* The bytes of a ring after its tail, up to its head. *)
Between(buf, tail, head) ==
  LET n == (RingSize + Position(head) - Position(tail)) % RingSize
  IN [k \in 1 .. n |-> buf[At(Position(tail) + k)]]

(* A byte is put with the first half of a store, taken with the second. *)
Rings == INSTANCE Queues WITH
  Crowd    <- Low - 1,
  received <- LET head == IF mpc = "flushLo" THEN RxTail ELSE RxHead
              IN IF mpc = "tailLo" THEN << RxBuf[tmp] >> \o Between(RxBuf, tmp, head)
                 ELSE Between(RxBuf, RxTail, head),
  sending  <- Between(TxBuf, TxTail, IF mpc = "putLo" THEN tmp ELSE TxHead),
  taken    <- IF mpc = "fetch" THEN RxBuf[tmp] ELSE taken,
  next     <- IF mpc = "putLo" THEN next + 1 ELSE next,
  trusted  <- whole

(* The rings are queues: bytes come out in the order they went in, each    *)
(* once, and the only ones lost are those that find the receive ring       *)
(* crowded, or a flush that an interrupt comes in the middle of.           *)
Implements == Rings!Spec
=============================================================================
