---------------------------- MODULE XLinkProofs ----------------------------
(***************************************************************************)
(* The variables of XLink keep their kinds, for all requests, memories,    *)
(* servers and environments.  The PC and the server take turns, as long as *)
(* the current call began in step: no strobe of a command or a transfer is *)
(* lost, the data lines are driven from one end at a time, and without     *)
(* faults the ends are still in step after every call.  What the two ends  *)
(* do together is what RemoteMemory promises to a caller: every step       *)
(* writes the next cell, reads the next byte of the reply, hands control   *)
(* over, begins or ends a call, or changes nothing a caller can see; a     *)
(* call reports success when all of it is done and failure when nothing of *)
(* it is.                                                                  *)
(***************************************************************************)
EXTENDS XLink, Integers, SequenceTheorems, TLAPS

-----------------------------------------------------------------------------
(* Bytes, words and memory. *)
LEMMA LoHi ==
  ASSUME NEW x \in Nat
  PROVE  lo(x) \in Byte /\ hi(x) \in Byte
<1>1. lo(x) \in Byte
  BY DEF lo, Byte
<1>2. x \div 256 \in Int
  OBVIOUS
<1>3. hi(x) \in Byte
  BY <1>2 DEF hi, Byte
<1> QED
  BY <1>1, <1>3

LEMMA AddressSpaceSize == AddressSpace \in Nat /\ AddressSpace > 0
  BY DEF AddressSpace

LEMMA Addresses == \A a \in Address : a \in Nat /\ a + 1 \in Nat
  BY AddressSpaceSize DEF Address

LEMMA ByteAddress == Byte \subseteq Address
<1>1. 255 < AddressSpace
  BY DEF AddressSpace
<1> QED
  BY <1>1, AddressSpaceSize DEF Byte, Address

LEMMA WordAddress ==
  ASSUME NEW l \in Byte, NEW h \in Byte
  PROVE  Word(l, h) \in Address
<1>1. l \in Nat /\ h \in Nat /\ l < 256 /\ h < 256
  BY DEF Byte
<1>2. 256 * h <= 256 * 255
  BY <1>1
<1>3. l + 256 * h < 256 * 256
  BY <1>1, <1>2
<1>4. l + 256 * h < AddressSpace
  BY <1>3 DEF AddressSpace
<1>5. l + 256 * h \in Nat
  BY <1>1
<1> QED
  BY <1>4, <1>5, AddressSpaceSize DEF Word, Address

LEMMA WrapAddress == \A x \in Nat : Wrap(x) \in Address
  BY AddressSpaceSize DEF Wrap, Address

LEMMA CellByte ==
  ASSUME NEW m, IsMemory(m), NEW a
  PROVE  Cell(m, a) \in Byte
  BY DEF Cell, IsMemory, Byte

LEMMA PutMemory ==
  ASSUME NEW m, IsMemory(m), NEW a \in Address, NEW b \in Byte
  PROVE  IsMemory(Put(m, a, b))
  BY DEF IsMemory, Put

LEMMA PutWordMemory ==
  ASSUME NEW m, IsMemory(m), NEW a \in Address, NEW w \in Address
  PROVE  IsMemory(PutWord(m, a, w))
<1>1. w \in Nat /\ a + 1 \in Nat
  BY Addresses
<1>2. lo(w) \in Byte /\ hi(w) \in Byte /\ Wrap(a + 1) \in Address
  BY <1>1, LoHi, WrapAddress
<1>3. IsMemory(Put(m, a, lo(w)))
  BY <1>2, PutMemory
<1> QED
  BY <1>2, <1>3, PutMemory DEF PutWord

LEMMA InfoBytes ==
  ASSUME NEW m, IsMemory(m)
  PROVE  Info(m) \in Seq(Byte) /\ Len(Info(m)) = 15
<1>1. ServerStart \in Nat /\ ServerEnd \in Nat
  BY ServerAssumption, Addresses DEF ServerAssumption
<1>2. /\ lo(ServerStart) \in Byte /\ hi(ServerStart) \in Byte
      /\ lo(ServerEnd) \in Byte /\ hi(ServerEnd) \in Byte
      /\ Cell(m, memtop) \in Byte /\ Cell(m, memtop + 1) \in Byte
  BY <1>1, LoHi, CellByte
<1> DEFINE type == IF ServerType = "ram" THEN 0 ELSE 1
<1>3. /\ type \in Byte
      /\ 5 \in Byte /\ 88 \in Byte /\ 76 \in Byte /\ 73 \in Byte /\ 78 \in Byte
      /\ 75 \in Byte /\ 16 \in Byte /\ 0 \in Byte
  BY DEF Byte
<1> HIDE DEF type
<1>4. Info(m) = << 5, 88, 76, 73, 78, 75, 16, 0, type,
                   lo(ServerStart), hi(ServerStart), lo(ServerEnd), hi(ServerEnd),
                   Cell(m, memtop), Cell(m, memtop + 1) >>
  BY DEF Info, type
<1> QED
  BY <1>2, <1>3, <1>4

LEMMA BusBytes ==
  ASSUME UserportTypeOK
  PROVE  \A b \in BusValues : b \in Byte
<1>1. 255 \in Byte /\ ContentionBytes \subseteq Byte
  BY ContentionAssumption DEF ContentionAssumption, Byte
<1> QED
  BY <1>1 DEF UserportTypeOK, BusValues

(* The bytes of a request: only a ping and a reset have none. *)
LEMMA Calling ==
  ASSUME NEW r \in Calls
  PROVE  /\ r \in RequestType
         /\ Out(r) \in Seq(Byte)
         /\ r.op \notin {"ping", "reset"} => Len(Out(r)) > 0
<1>1. r \in RequestType /\ r.header \in Seq(Byte) /\ r.data \in Seq(Byte)
  BY CallsAssumption DEF CallsAssumption, RequestType
<1>2. Out(r) \in Seq(Byte) /\ Len(Out(r)) = Len(r.header) + Len(r.data)
  BY <1>1 DEF Out
<1>3. r.op \notin {"ping", "reset"} => Len(r.header) > 0
  BY <1>1, HeaderAssumption DEF HeaderAssumption
<1>4. Len(r.header) \in Nat /\ Len(r.data) \in Nat
  BY <1>1
<1>5. \A m, n \in Nat : m > 0 => m + n > 0
  OBVIOUS
<1>6. Len(r.header) > 0 => Len(Out(r)) > 0
  BY <1>2, <1>4, <1>5
<1> QED
  BY <1>1, <1>2, <1>3, <1>6

-----------------------------------------------------------------------------
(* The client: a byte is sent only if there is one left. *)
ClientInv ==
  /\ pc \in {"idle", "open", "pingOut", "pingWrite", "pingStrobe", "pingWait", "out"}
       => nsent = 0
  /\ pc \in {"pingOut", "pingWrite", "pingStrobe", "pingWait", "out"} => req.op # "reset"
  /\ pc = "out" => req.op # "ping"
  /\ pc \in {"write", "strobe", "wait"} => nsent < Len(Out(req))

LEMMA ClientProgress ==
  ASSUME UserportTypeOK, ClientTypeOK, ClientInv, ClientStep
  PROVE  UserportTypeOK' /\ ClientTypeOK' /\ ClientInv'
<1> USE DEF UserportTypeOK, ClientTypeOK, ClientInv, ClientPC, input, output, strobe, bus,
            userport
<1>1. CASE Open
  BY <1>1 DEF Open
<1>2. CASE OpenFails
  BY <1>2 DEF OpenFails
<1>3. CASE PingOutput
  BY <1>3 DEF PingOutput
<1>4. CASE PingWrite
  BY <1>4 DEF PingWrite, PingCmd, Byte
<1>5. CASE PingStrobe
  BY <1>5 DEF PingStrobe
<1>6. CASE PingAnswered
  BY <1>6 DEF PingAnswered
<1>7. CASE Output
  BY <1>7, Calling DEF Output
<1>8. CASE Write
  BY <1>8, Calling DEF Write
<1>9. CASE Strobe
  BY <1>9 DEF Strobe
<1>10. CASE Sent
  <2>1. /\ UserportTypeOK'
        /\ req' = req /\ got' = got /\ initialized' = initialized
        /\ last' \in {0, 1} /\ nsent' \in Nat
    BY <1>10 DEF Sent
  <2>2. CASE nsent' < Len(Out(req)) /\ pc' = "write" /\ result' = result
    BY <2>1, <2>2 DEF Out
  <2>3. CASE pc' \in {"input", "closeInput"} /\ result' \in BOOLEAN
    BY <2>1, <2>3
  <2> QED
    BY <1>10, <2>2, <2>3 DEF Sent
<1>11. CASE Input
  BY <1>11 DEF Input
<1>12. CASE Turn
  BY <1>12 DEF Turn
<1>13. CASE Offered
  BY <1>13 DEF Offered
<1>14. CASE Read
  BY <1>14, BusBytes DEF Read
<1>15. CASE Received
  BY <1>15 DEF Received
<1>16. CASE CloseInput
  BY <1>16 DEF CloseInput
<1>17. CASE Close
  BY <1>17 DEF Close
<1> QED
  BY <1>1, <1>2, <1>3, <1>4, <1>5, <1>6, <1>7, <1>8, <1>9, <1>10, <1>11, <1>12,
     <1>13, <1>14, <1>15, <1>16, <1>17 DEF ClientStep

-----------------------------------------------------------------------------
(* The server: what a place in a command has read of its header, and that  *)
(* there is a byte left to be sent.                                        *)
ServerInv ==
  /\ spc \in {"rdWait", "rdLatch", "rdAck"} => HeaderLength(scmd) > 0
  /\ spc = "pokeStore" => Len(hdr) >= 5
  /\ spc = "jump" => scmd = JumpCmd /\ Len(hdr) >= 4
  /\ spc = "inject" => scmd = InjectCmd /\ Len(hdr) >= 2
  /\ spc = "run" => scmd = RunCmd
  /\ spc \in {"ldWait", "ldLatch", "ldAck", "ldNext"} => Len(hdr) >= 6
  /\ spc \in {"outWait", "outDir", "put", "wrStrobe", "wrWait"}
       => (scmd = IdentifyCmd => sidx < 15)

USE DEF LoadCmd, SaveCmd, PokeCmd, PeekCmd, JumpCmd, RunCmd, InjectCmd, PingCmd,
        IdentifyCmd

(* The header of a command, and the place in the code after it. *)
LEMMA HeaderFacts ==
  ASSUME NEW cmd \in Byte
  PROVE  /\ HeaderLength(cmd) \in {0, 2, 4, 5, 6}
         /\ HeaderLength(cmd) = 6 <=> cmd \in {LoadCmd, SaveCmd}
         /\ HeaderLength(cmd) = 5 <=> cmd = PokeCmd
         /\ HeaderLength(cmd) = 4 <=> cmd \in {PeekCmd, JumpCmd}
         /\ HeaderLength(cmd) = 2 <=> cmd = InjectCmd
<1>1. CASE cmd \in {LoadCmd, SaveCmd}
  BY <1>1 DEF HeaderLength
<1>2. CASE cmd = PokeCmd
  BY <1>2 DEF HeaderLength
<1>3. CASE cmd \in {PeekCmd, JumpCmd}
  BY <1>3 DEF HeaderLength
<1>4. CASE cmd = InjectCmd
  BY <1>4 DEF HeaderLength
<1>5. CASE cmd \notin {LoadCmd, SaveCmd, PokeCmd, PeekCmd, JumpCmd, InjectCmd}
  BY <1>5 DEF HeaderLength
<1> QED
  BY <1>1, <1>2, <1>3, <1>4, <1>5

LEMMA DispatchFacts ==
  ASSUME NEW cmd \in Byte
  PROVE  \/ Dispatch(cmd) = "rdWait" /\ HeaderLength(cmd) > 0
         \/ Dispatch(cmd) = "run" /\ cmd = RunCmd
         \/ Dispatch(cmd) = "outWait"
         \/ Dispatch(cmd) = "main"
<1>1. CASE HeaderLength(cmd) > 0
  BY <1>1 DEF Dispatch
<1>2. CASE ~(HeaderLength(cmd) > 0)
  BY <1>2 DEF Dispatch
<1> QED
  BY <1>1, <1>2

LEMMA BodyFacts ==
  ASSUME NEW cmd \in Byte, HeaderLength(cmd) > 0
  PROVE  \/ cmd = LoadCmd /\ Body(cmd) = "ldWait" /\ HeaderLength(cmd) = 6
         \/ cmd = SaveCmd /\ Body(cmd) = "outWait" /\ HeaderLength(cmd) = 6
         \/ cmd = PokeCmd /\ Body(cmd) = "pokeStore" /\ HeaderLength(cmd) = 5
         \/ cmd = PeekCmd /\ Body(cmd) = "outWait" /\ HeaderLength(cmd) = 4
         \/ cmd = JumpCmd /\ Body(cmd) = "jump" /\ HeaderLength(cmd) = 4
         \/ cmd = InjectCmd /\ Body(cmd) = "inject" /\ HeaderLength(cmd) = 2
<1>1. cmd \in {LoadCmd, SaveCmd, PokeCmd, PeekCmd, JumpCmd, InjectCmd}
  BY HeaderFacts
<1> QED
  BY <1>1, HeaderFacts DEF Body

LEMMA HeaderWords ==
  ASSUME hdr \in Seq(Byte)
  PROVE  /\ Len(hdr) >= 4 => Word(hdr[3], hdr[4]) \in Address
                            /\ Word(hdr[4], hdr[3]) \in Address
         /\ Len(hdr) >= 5 => hdr[5] \in Byte
         /\ Len(hdr) >= 6 => TransferEnd \in Address
         /\ Len(hdr) >= 2 => Wrap(Word(hdr[2], hdr[1]) + 1) \in Address
<1>1. \A i \in 1 .. Len(hdr) : hdr[i] \in Byte
  OBVIOUS
<1>2. ASSUME Len(hdr) >= 4
      PROVE  Word(hdr[3], hdr[4]) \in Address /\ Word(hdr[4], hdr[3]) \in Address
  BY <1>1, <1>2, WordAddress
<1>3. ASSUME Len(hdr) >= 6 PROVE TransferEnd \in Address
  BY <1>1, <1>3, WordAddress DEF TransferEnd
<1>4. ASSUME Len(hdr) >= 2 PROVE Wrap(Word(hdr[2], hdr[1]) + 1) \in Address
  <2>1. Word(hdr[2], hdr[1]) \in Address
    BY <1>1, <1>4, WordAddress
  <2> QED
    BY <2>1, Addresses, WrapAddress
<1> QED
  BY <1>1, <1>2, <1>3, <1>4

LEMMA VectorAddresses ==
  /\ sysirq \in Address
  /\ uninstall \in Address
  /\ Handler \in Address
<1>1. 49 \in Byte /\ 234 \in Byte
  BY DEF Byte
<1>2. sysirq \in Address
  BY <1>1, WordAddress DEF sysirq
<1>3. lo(sysirq) \in Byte /\ hi(sysirq) \in Byte
  BY <1>2, Addresses, LoHi
<1>4. uninstall \in Address
  BY <1>3, WordAddress DEF uninstall
<1> QED
  BY <1>2, <1>4, ServerAssumption DEF ServerAssumption, Handler

(* An element of a sequence of bytes. *)
LEMMA ElementByte ==
  ASSUME NEW s \in Seq(Byte), NEW n \in Nat, Len(s) = n, NEW i \in 1 .. n
  PROVE  s[i] \in Byte
OBVIOUS

LEMMA NextByteByte ==
  ASSUME ServerTypeOK, scmd = IdentifyCmd => sidx < 15
  PROVE  NextByte \in Byte
<1>1. IsMemory(mem) /\ sidx \in Nat
  BY DEF ServerTypeOK
<1>2. CASE scmd = IdentifyCmd
  <2>1. Info(mem) \in Seq(Byte) /\ Len(Info(mem)) = 15
    BY <1>1, InfoBytes
  <2>2. sidx < 15
    BY <1>2
  <2>3. sidx + 1 \in 1 .. 15
    BY <1>1, <2>2
  <2>4. Info(mem)[sidx + 1] \in Byte
    BY <2>1, <2>3, ElementByte
  <2> QED
    BY <1>2, <2>4 DEF NextByte
<1>3. CASE scmd # IdentifyCmd
  BY <1>1, <1>3, CellByte DEF NextByte
<1> QED
  BY <1>2, <1>3

LEMMA ServerProgress ==
  ASSUME UserportTypeOK, ServerTypeOK, ServerInv, ServerStep
  PROVE  UserportTypeOK' /\ ServerTypeOK' /\ ServerInv'
<1> USE DEF UserportTypeOK, ServerTypeOK, ServerInv, ServerPC, ack, TakeFlag, bus, userport
<1>1. CASE SrvIrq
  BY <1>1 DEF SrvIrq
<1>2. CASE SrvFetch
  BY <1>2, BusBytes DEF SrvFetch
<1>3. CASE SrvAck
  BY <1>3, DispatchFacts DEF SrvAck
<1>4. CASE SrvReadWait
  BY <1>4 DEF SrvReadWait
<1>5. CASE SrvReadLatch
  BY <1>5, BusBytes DEF SrvReadLatch
<1>6. CASE SrvReadAck
  <2>1. /\ UserportTypeOK'
        /\ UNCHANGED << scmd, hdr, sidx, mem, entry, vector, masked >>
    BY <1>6 DEF SrvReadAck
  <2>2. CASE spc' = "rdWait" /\ cursor' = cursor /\ isBasic' = isBasic
    BY <1>6, <2>1, <2>2 DEF SrvReadAck
  <2>3. CASE /\ Len(hdr) >= HeaderLength(scmd)
             /\ spc' = Body(scmd)
             /\ cursor' = IF scmd \in {LoadCmd, SaveCmd, PokeCmd, PeekCmd}
                          THEN TransferStart ELSE cursor
             /\ isBasic' = IF scmd = LoadCmd
                           THEN TransferStart = CellWord(mem, bstart) ELSE isBasic
    <3>1. HeaderLength(scmd) > 0
      BY <1>6 DEF SrvReadAck
    <3>2. isBasic' \in BOOLEAN
      BY <2>3
    <3>3. Len(hdr) >= 4 => TransferStart \in Address
      BY HeaderWords DEF TransferStart
    <3>4. cursor' \in Address
      BY <2>3, <3>1, <3>3, BodyFacts
    <3>5. spc' \in ServerPC
      BY <2>3, <3>1, BodyFacts
    <3>6. ServerInv'
      BY <2>1, <2>3, <3>1, BodyFacts
    <3> QED
      BY <2>1, <3>2, <3>4, <3>5, <3>6
  <2> QED
    BY <1>6, <2>2, <2>3 DEF SrvReadAck
<1>7. CASE SrvPokeStore
  BY <1>7, HeaderWords, PutMemory DEF SrvPokeStore
<1>8. CASE SrvLeave
  <2>1. Target(scmd, hdr) \in [kind : {"none", "jump", "inject", "run"}, at : Address]
    <3>1. 0 \in Address
      BY AddressSpaceSize DEF Address
    <3> QED
      BY <1>8, <3>1, HeaderWords DEF SrvLeave, Target
  <2> QED
    BY <1>8, <2>1, VectorAddresses DEF SrvLeave
<1>9. CASE SrvLoadWait
  BY <1>9 DEF SrvLoadWait
<1>10. CASE SrvLoadStore
  BY <1>10, BusBytes, PutMemory DEF SrvLoadStore
<1>11. CASE SrvLoadAck
  BY <1>11 DEF SrvLoadAck
<1>12. CASE SrvLoadNext
  <2>1. cursor' \in Address
    BY <1>12, Addresses, WrapAddress DEF SrvLoadNext
  <2>2. bend \in Address
    BY ByteAddress DEF bend, Byte
  <2>3. TransferEnd \in Address /\ IsMemory(mem)
    BY <1>12, HeaderWords DEF SrvLoadNext
  <2>4. IsMemory(PutWord(mem, bend, TransferEnd))
    BY <2>2, <2>3, PutWordMemory
  <2>5. IsMemory(mem')
    BY <1>12, <2>3, <2>4 DEF SrvLoadNext
  <2> QED
    BY <1>12, <2>1, <2>5 DEF SrvLoadNext
<1>13. CASE SrvOutWait
  BY <1>13 DEF SrvOutWait
<1>14. CASE SrvOutDir
  BY <1>14 DEF SrvOutDir
<1>15. CASE SrvPut
  BY <1>15, NextByteByte DEF SrvPut
<1>16. CASE SrvWriteStrobe
  BY <1>16 DEF SrvWriteStrobe
<1>17. CASE SrvWriteWait
  <2>1. cursor' \in Address
    BY <1>17, Addresses, WrapAddress DEF SrvWriteWait
  <2>2. scmd = IdentifyCmd /\ ~LastByte => sidx' < 15
    <3> SUFFICES ASSUME scmd = IdentifyCmd, ~LastByte PROVE sidx' < 15
      OBVIOUS
    <3>1. Len(Info(mem)) = 15
      BY InfoBytes
    <3>2. LastByte <=> sidx + 1 = 15
      BY <3>1 DEF LastByte
    <3>3. sidx < 15 /\ sidx' = sidx + 1
      BY <1>17 DEF SrvWriteWait
    <3> QED
      BY <3>2, <3>3
  <2>3. sidx' \in Nat /\ scmd' = scmd
    BY <1>17 DEF SrvWriteWait
  <2>4. CASE LastByte
    BY <1>17, <2>1, <2>3, <2>4, ZenonT(40) DEF SrvWriteWait
  <2>5. CASE ~LastByte
    <3>1. spc' = "put"
      BY <1>17, <2>5 DEF SrvWriteWait
    <3>2. ServerInv'
      BY <2>2, <2>3, <2>5, <3>1
    <3> QED
      BY <1>17, <2>1, <2>3, <3>1, <3>2, ZenonT(40) DEF SrvWriteWait
  <2> QED
    BY <2>4, <2>5
<1>18. CASE SrvInput
  BY <1>18 DEF SrvInput
<1>19. CASE SrvBoot
  <2>1. IsMemory(ColdStart(mem))
    BY MemoryAssumption DEF MemoryAssumption, ColdStart, IsMemory
  <2>2. 253 \in Byte /\ 0 \in Address
    BY ByteAddress DEF Byte
  <2>3. scmd' \in Byte /\ hdr' \in Seq(Byte) /\ cursor' \in Address
    BY <1>19, <2>2 DEF SrvBoot
  <2>4. spc' = "main" /\ sidx' \in Nat /\ isBasic' \in BOOLEAN
    BY <1>19 DEF SrvBoot
  <2>5. ServerInv'
    BY <2>4
  <2>6. IsMemory(mem)' /\ entry' = entry /\ vector' = sysirq /\ masked' = FALSE
    BY <1>19, <2>1 DEF SrvBoot
  <2> QED
    BY <1>19, <2>3, <2>4, <2>5, <2>6, VectorAddresses DEF SrvBoot
<1> QED
  BY <1>1, <1>2, <1>3, <1>4, <1>5, <1>6, <1>7, <1>8, <1>9, <1>10, <1>11, <1>12,
     <1>13, <1>14, <1>15, <1>16, <1>17, <1>18, <1>19 DEF ServerStep

-----------------------------------------------------------------------------
(* The inductive invariant: the kinds of the variables alone are not, for  *)
(* a byte that is not in the header or beyond the request is no byte.      *)
Inv == TypeOK /\ ClientInv /\ ServerInv

LEMMA InitInv ==
  ASSUME Init
  PROVE  Inv
<1>1. UserportTypeOK
  <2>1. flag \in BOOLEAN /\ pcDriving \in BOOLEAN /\ ciaDriving \in BOOLEAN
    BY Zenon DEF Init, UserportInit
  <2>2. pa2 \in {0, 1} /\ pcData \in Byte /\ ciaData \in Byte
    BY SMT DEF Init, UserportInit, Byte
  <2> QED
    BY <2>1, <2>2 DEF UserportTypeOK
<1>2. ClientTypeOK /\ ClientInv
  <2>1. req \in Calls
    BY CallsAssumption DEF CallsAssumption, Init, ClientInit
  <2>2. initialized \in BOOLEAN /\ result \in BOOLEAN
    BY Zenon DEF Init, ClientInit
  <2>3. pc = "idle" /\ nsent = 0 /\ got = <<>> /\ last = 0
    BY DEF Init, ClientInit
  <2> QED
    BY <2>1, <2>2, <2>3 DEF ClientTypeOK, ClientPC, ClientInv
<1>3. ServerTypeOK /\ ServerInv
  <2>1. 0 \in Address
    BY AddressSpaceSize DEF Address
  <2>2. IsMemory(mem) /\ vector \in Address
    BY MemoryAssumption, VectorAddresses DEF MemoryAssumption, Init, ServerInit
  <2>3. isBasic \in BOOLEAN /\ masked \in BOOLEAN
    BY Zenon DEF Init, ServerInit
  <2>4. /\ spc = "main" /\ scmd \in Byte /\ hdr = <<>> /\ cursor \in Address /\ sidx = 0
        /\ entry = [kind |-> "none", at |-> 0]
    BY <2>1 DEF Init, ServerInit, Byte
  <2> QED
    BY <2>1, <2>2, <2>3, <2>4 DEF ServerTypeOK, ServerPC, ServerInv
<1>4. clean \in BOOLEAN /\ done \in Nat /\ budget \in 0 .. MaxBudget
  BY BudgetAssumption DEF BudgetAssumption, Init
<1> QED
  BY <1>1, <1>2, <1>3, <1>4 DEF Inv, TypeOK

(* What a step of one end leaves to the other. *)
LEMMA ClientFrame ==
  ASSUME ClientTypeOK, ClientInv, UNCHANGED client
  PROVE  ClientTypeOK' /\ ClientInv'
BY DEF client, ClientTypeOK, ClientInv

LEMMA ServerFrame ==
  ASSUME ServerTypeOK, ServerInv, UNCHANGED server
  PROVE  ServerTypeOK' /\ ServerInv'
BY DEF server, ServerTypeOK, ServerInv

LEMMA Resetting ==
  ASSUME UserportTypeOK, ServerTypeOK, ServerInv, ResetMachine
  PROVE  UserportTypeOK' /\ ServerTypeOK' /\ ServerInv'
BY DEF ResetMachine, UserportTypeOK, ServerTypeOK, ServerInv, ServerPC

LEMMA Spending ==
  ASSUME budget \in 0 .. MaxBudget, Spend
  PROVE  budget' \in 0 .. MaxBudget
BY BudgetAssumption DEF BudgetAssumption, Spend

LEMMA StepInv ==
  ASSUME Inv, [Next]_vars
  PROVE  Inv'
<1> USE DEF Inv, TypeOK
<1>1. CASE NewCall
  <2>1. UserportTypeOK' /\ ClientTypeOK' /\ ClientInv'
    BY <1>1 DEF NewCall, Call, userport, UserportTypeOK, ClientTypeOK, ClientPC,
                ClientInv
  <2>2. clean' \in BOOLEAN /\ done' \in Nat
    BY <1>1 DEF NewCall, InStep
  <2>3. budget' \in 0 .. MaxBudget
    BY <1>1, Spending DEF NewCall
  <2> QED
    BY <1>1, <2>1, <2>2, <2>3, ServerFrame DEF NewCall
<1>2. CASE ClientProceeds
  BY <1>2, ClientProgress, ServerFrame DEF ClientProceeds
<1>3. CASE ResetPulse
  <2>1. ClientTypeOK' /\ ClientInv'
    BY <1>3 DEF ResetPulse, ClientTypeOK, ClientPC, ClientInv
  <2> QED
    BY <1>3, <2>1, Resetting DEF ResetPulse
<1>4. ASSUME Timeout, UNCHANGED server
      PROVE  UserportTypeOK' /\ ClientTypeOK' /\ ClientInv' /\ ServerTypeOK' /\ ServerInv'
  BY <1>4, ServerFrame DEF Timeout, userport, UserportTypeOK, ClientTypeOK, ClientPC, ClientInv
<1>5. CASE GiveUp
  BY <1>4, <1>5 DEF GiveUp
<1>6. CASE NextProcess
  <2>1. UserportTypeOK' /\ ClientTypeOK' /\ ClientInv'
    BY <1>6 DEF NextProcess, NewProcess, userport, UserportTypeOK, ClientTypeOK,
                ClientPC, ClientInv
  <2> QED
    BY <1>6, <2>1, ServerFrame DEF NextProcess
<1>7. CASE ServerProceeds
  <2>1. done' \in Nat
    BY <1>7 DEF ServerProceeds
  <2> QED
    BY <1>7, <2>1, ServerProgress, ClientFrame DEF ServerProceeds
<1>8. CASE UserInstalls
  <2>1. UserportTypeOK' /\ ServerTypeOK' /\ ServerInv'
    BY <1>8, VectorAddresses DEF UserInstalls, Install, UserportTypeOK, ServerTypeOK,
                                 ServerPC, ServerInv
  <2> QED
    BY <1>8, <2>1, ClientFrame DEF UserInstalls
<1>9. CASE ForegroundRuns
  <2>1. UserportTypeOK' /\ ServerTypeOK' /\ ServerInv'
    BY <1>9 DEF ForegroundRuns, Foreground, userport, UserportTypeOK, ServerTypeOK,
                ServerInv
  <2> QED
    BY <1>9, <2>1, ClientFrame DEF ForegroundRuns
<1>10. CASE LateAnswer
  BY <1>4, <1>10, Spending DEF LateAnswer
<1>11. CASE Killed
  <2>1. UserportTypeOK' /\ last' = last /\ req' = req
    BY <1>11 DEF Killed, userport, UserportTypeOK
  <2>2. initialized' \in BOOLEAN /\ result' \in BOOLEAN
    BY <1>11, Zenon DEF Killed
  <2>3. pc' = "idle" /\ nsent' = 0 /\ got' = <<>>
    BY <1>11 DEF Killed
  <2>4. ClientTypeOK' /\ ClientInv'
    BY <2>1, <2>2, <2>3 DEF ClientTypeOK, ClientPC, ClientInv
  <2>5. ServerTypeOK' /\ ServerInv' /\ budget' \in 0 .. MaxBudget
    BY <1>11, ServerFrame, Spending DEF Killed
  <2> QED
    BY <1>11, <2>1, <2>4, <2>5 DEF Killed
<1>12. CASE PowerCycle
  BY <1>12, Resetting, ClientFrame, Spending DEF PowerCycle
<1>13. CASE UNCHANGED vars
  <2>1. UserportTypeOK'
    BY <1>13 DEF vars, userport, UserportTypeOK
  <2> QED
    BY <1>13, <2>1, ClientFrame, ServerFrame DEF vars
<1> QED
  BY <1>1, <1>2, <1>3, <1>5, <1>6, <1>7, <1>8, <1>9, <1>10, <1>11, <1>12, <1>13
  DEF Next, Fault

(* Whatever is called, whoever fails and whatever bytes are misread as     *)
(* commands: every variable of the two ends holds a value of its kind, so  *)
(* the server never runs past the header it has read nor past its          *)
(* identification, and the address of a transfer stays in the memory.      *)
THEOREM TypeCorrect == Spec => []TypeOK
<1>1. Init => Inv
  BY InitInv
<1>2. Inv /\ [Next]_vars => Inv'
  BY StepInv
<1>3. Inv => TypeOK
  BY DEF Inv
<1> QED
  BY <1>1, <1>2, <1>3, PTL DEF Spec
-----------------------------------------------------------------------------
(* Addresses and the bytes they are sent as. *)
LEMMA Modulus ==
  /\ AddressSpace = 65536
  /\ \A n : Wrap(n) = n % 65536
  /\ \A a \in Address : a \in Nat /\ a < 65536
<1>1. AddressSpace = 65536
  BY DEF AddressSpace
<1> QED
  BY <1>1 DEF Wrap, Address

LEMMA WordOfBytes ==
  ASSUME NEW a \in Address
  PROVE  Word(lo(a), hi(a)) = a
<1>1. a \in Nat /\ a < 65536
  BY Modulus
<1>2. a \div 256 \in Int /\ 0 <= a \div 256 /\ a \div 256 < 256
  BY <1>1
<1>3. (a \div 256) % 256 = a \div 256
  BY <1>2
<1>4. a = (a % 256) + 256 * (a \div 256)
  BY <1>1
<1> QED
  BY <1>3, <1>4 DEF Word, lo, hi

LEMMA WrapOfAddress ==
  ASSUME NEW a \in Address
  PROVE  Wrap(a) = a
  BY Modulus

LEMMA WrapBack ==
  ASSUME NEW a \in Address
  PROVE  Wrap(Wrap(a + AddressSpace - 1) + 1) = a
<1>1. a \in Nat /\ a < 65536
  BY Modulus
<1>2. (((a + 65536 - 1) % 65536) + 1) % 65536 = a
  BY <1>1
<1> QED
  BY <1>2, Modulus

LEMMA WrapNext ==
  ASSUME NEW n \in Nat
  PROVE  Wrap(Wrap(n) + 1) = Wrap(n + 1)
  BY Modulus

(* Counts less than a whole memory apart lead to different addresses.      *)
LEMMA WrapApart ==
  ASSUME NEW a \in Nat, NEW n \in Nat, NEW i \in Nat, i <= n, n - i < AddressSpace
  PROVE  Wrap(a + i) = Wrap(a + n) <=> i = n
<1>1. n - i < 65536
  BY Modulus
<1>2. (a + i) % 65536 = (a + n) % 65536 => i = n
  BY <1>1, SMTT(30)
<1>3. Wrap(a + i) = (a + i) % 65536 /\ Wrap(a + n) = (a + n) % 65536
  BY Modulus
<1> QED
  BY <1>2, <1>3

(* A transfer that is not larger than the memory meets its end address     *)
(* once, after its last byte.                                              *)
LEMMA MeetsEndOnce ==
  ASSUME NEW a \in Address, NEW n \in 1 .. AddressSpace, NEW i \in 1 .. n
  PROVE  Wrap(a + i) = Wrap(a + n) <=> i = n
<1>1. i \in Nat /\ n \in Nat /\ i <= n /\ n - i < AddressSpace
  BY AddressSpaceSize
<1>2. a \in Nat
  BY Addresses
<1> QED
  BY <1>1, <1>2, WrapApart

-----------------------------------------------------------------------------
(* What a request looks like on the wire. *)
Sends(r) == r.op \notin {"ping", "reset"}

Code(op) ==
  CASE op = "load"     -> LoadCmd
    [] op = "save"     -> SaveCmd
    [] op = "poke"     -> PokeCmd
    [] op = "peek"     -> PeekCmd
    [] op = "jump"     -> JumpCmd
    [] op = "run"      -> RunCmd
    [] op = "inject"   -> InjectCmd
    [] op = "identify" -> IdentifyCmd

Size(op) ==
  CASE op \in {"load", "save"}    -> 7
    [] op = "poke"                -> 6
    [] op \in {"peek", "jump"}    -> 5
    [] op = "inject"              -> 3
    [] op \in {"run", "identify"} -> 1

Commanding == {"load", "save", "poke", "peek", "jump", "run", "inject", "identify"}

LEMMA Fields ==
  ASSUME NEW r \in Calls
  PROVE  /\ IsRequest(r)
         /\ r.op \in Commanding \cup {"ping", "reset"}
         /\ r.at \in Address /\ r.want \in Nat
         /\ r.writes \in Seq(Byte) /\ r.header \in Seq(Byte) /\ r.data \in Seq(Byte)
  BY CallsAssumption, RequestAssumption
  DEF CallsAssumption, RequestAssumption, RequestType, Commanding

LEMMA Shapes ==
  ASSUME NEW r \in Calls, Sends(r)
  PROVE  /\ r.op \in Commanding
         /\ Len(r.header) = Size(r.op)
         /\ r.header[1] = Code(r.op)
         /\ r.data = IF r.op = "load" THEN r.writes ELSE <<>>
         /\ r.op = "load" => Len(r.writes) <= AddressSpace
         /\ r.op = "save" => r.want <= AddressSpace
         /\ r.op = "peek" => r.want = 1
         /\ r.op = "identify" => r.want = 10
         /\ r.op = "poke" => Len(r.writes) = 1
         /\ r.op \in {"run", "identify"} => r.at = 0
<1> USE Fields DEF IsRequest, Request, Code, Size, Commanding, Sends
<1>1. CASE r.op = "load"
  BY <1>1 DEF xlink_load
<1>2. CASE r.op = "save"
  BY <1>2 DEF xlink_save
<1>3. CASE r.op = "peek"
  BY <1>3, SMTT(30) DEF xlink_peek
<1>4. CASE r.op = "poke"
  BY <1>4 DEF xlink_poke
<1>5. CASE r.op = "jump"
  BY <1>5 DEF xlink_jump
<1>6. CASE r.op = "inject"
  BY <1>6 DEF xlink_inject
<1>7. CASE r.op = "run"
  <2>1. r = xlink_run
    BY <1>7 DEF xlink_run, xlink_identify, xlink_ping, xlink_reset
  <2> QED
    BY <1>7, <2>1 DEF xlink_run
<1>8. CASE r.op = "identify"
  <2>1. r = xlink_identify
    BY <1>8 DEF xlink_run, xlink_identify, xlink_ping, xlink_reset
  <2> QED
    BY <1>8, <2>1 DEF xlink_identify
<1> QED
  BY <1>1, <1>2, <1>3, <1>4, <1>5, <1>6, <1>7, <1>8

(* The bytes of a request are its header, followed by its data. *)
LEMMA BytesOfRequest ==
  ASSUME NEW r \in Calls
  PROVE  /\ Out(r) \in Seq(Byte)
         /\ Len(Out(r)) = Len(r.header) + Len(r.data)
         /\ \A i \in 1 .. Len(r.header) : Out(r)[i] = r.header[i]
         /\ \A i \in 1 .. Len(r.data) : Out(r)[Len(r.header) + i] = r.data[i]
<1> DEFINE h == r.header
           d == r.data
<1>1. h \in Seq(Byte) /\ d \in Seq(Byte) /\ Out(r) = h \o d
  BY Fields DEF Out
<1> HIDE DEF h, d
<1>2. h \o d \in Seq(Byte) /\ Len(h \o d) = Len(h) + Len(d)
  BY <1>1
<1>3. \A i \in 1 .. Len(h) : (h \o d)[i] = h[i]
  BY <1>1, ConcatProperties
<1>4. \A i \in 1 .. Len(d) : (h \o d)[Len(h) + i] = d[i]
  BY <1>1, ConcatProperties
<1> QED
  BY <1>1, <1>2, <1>3, <1>4 DEF h, d

LEMMA Sizes ==
  ASSUME NEW r \in Calls, Sends(r)
  PROVE  /\ Len(r.writes) \in Nat
         /\ (r.writes = <<>> <=> Len(r.writes) = 0)
         /\ Len(r.header) = Size(r.op) /\ Size(r.op) \in 1 .. 7
         /\ (r.op = "load" <=> (Size(r.op) = 7 /\ r.op # "save"))
         /\ Len(Out(r)) = IF r.op = "load" THEN 7 + Len(r.writes) ELSE Size(r.op)
<1>1. /\ r.op \in Commanding /\ r.writes \in Seq(Byte)
      /\ r.data = IF r.op = "load" THEN r.writes ELSE <<>>
      /\ Len(r.header) = Size(r.op)
  BY Shapes, Fields
<1>2. Len(r.writes) \in Nat /\ (r.writes = <<>> <=> Len(r.writes) = 0)
  BY <1>1, EmptySeq
<1>3. Size(r.op) \in 1 .. 7 /\ (r.op = "load" <=> (Size(r.op) = 7 /\ r.op # "save"))
  BY <1>1 DEF Size, Commanding
<1>4. Len(r.data) = IF r.op = "load" THEN Len(r.writes) ELSE 0
  BY <1>1
<1>5. Len(Out(r)) = Size(r.op) + Len(r.data)
  BY <1>1, BytesOfRequest
<1>6. Size(r.op) + 0 = Size(r.op) /\ (r.op = "load" => Size(r.op) = 7)
  BY <1>3
<1>7. Len(Out(r)) = IF r.op = "load" THEN 7 + Len(r.writes) ELSE Size(r.op)
  BY <1>4, <1>5, <1>6
<1> QED
  BY <1>1, <1>2, <1>3, <1>7

-----------------------------------------------------------------------------
(* The server has n bytes of the header, the command byte among them. *)
Headed(n) ==
  /\ scmd = req.header[1]
  /\ Len(hdr) = n - 1
  /\ \A i \in 1 .. n - 1 : hdr[i] = req.header[i + 1]

(* What the server makes of a command byte, ... *)
LEMMA Dispatches ==
  ASSUME req \in Calls, Sends(req)
  PROVE  /\ HeaderLength(req.header[1]) = Size(req.op) - 1
         /\ Dispatch(req.header[1]) =
              IF Size(req.op) > 1 THEN "rdWait"
              ELSE IF req.op = "run" THEN "run" ELSE "outWait"
         /\ Size(req.op) > 1 =>
              Body(req.header[1]) =
                CASE req.op = "load"                        -> "ldWait"
                  [] req.op = "poke"                        -> "pokeStore"
                  [] req.op = "jump"                        -> "jump"
                  [] req.op = "inject"                      -> "inject"
                  [] req.op \in {"save", "peek"}            -> "outWait"
<1>1. req.op \in Commanding /\ req.header[1] = Code(req.op)
  BY Shapes
<1>2. HeaderLength(req.header[1]) = Size(req.op) - 1
  BY <1>1 DEF HeaderLength, Size, Code, Commanding
<1>3. Size(req.op) > 1 <=> req.op \notin {"run", "identify"}
  BY <1>1 DEF Size, Commanding
<1>4. Dispatch(req.header[1]) =
        IF Size(req.op) > 1 THEN "rdWait"
        ELSE IF req.op = "run" THEN "run" ELSE "outWait"
  BY <1>1, <1>2, <1>3 DEF Dispatch, Code, Commanding, Size
<1> QED
  BY <1>1, <1>2, <1>3, <1>4 DEF Body, Code, Commanding

(* ... and of a complete header. *)
LEMMA Understands ==
  ASSUME req \in Calls, Sends(req), Headed(Size(req.op))
  PROVE  /\ scmd = Code(req.op)
         /\ req.op \in {"load", "save", "peek", "poke"} => TransferStart = req.at
         /\ req.op = "load" => TransferEnd = Wrap(req.at + Len(req.writes))
         /\ req.op = "save" => TransferEnd = Wrap(req.at + req.want)
         /\ req.op = "poke" => hdr[5] = req.writes[1]
         /\ req.op \in {"jump", "inject", "run"} =>
              Target(scmd, hdr) = [kind |-> req.op, at |-> req.at]
<1> DEFINE h == req.header
<1>1. /\ scmd = Code(req.op)
      /\ req.op \in Commanding
      /\ h[1] = Code(req.op)
      /\ req.at \in Address
  BY Shapes, Fields DEF Headed
<1>2. Word(lo(req.at), hi(req.at)) = req.at
  BY <1>1, WordOfBytes
<1>3. CASE req.op = "load"
  <2> DEFINE end == Wrap(req.at + Len(req.writes))
  <2>1. h = << LoadCmd, h[2], h[3], lo(req.at), hi(req.at), lo(end), hi(end) >>
    BY <1>3, Fields DEF IsRequest, Request, xlink_load
  <2>2. hdr[3] = h[4] /\ hdr[4] = h[5] /\ hdr[5] = h[6] /\ hdr[6] = h[7]
    BY <1>3 DEF Headed, Size
  <2>3. end \in Address
    <3>1. req.at + Len(req.writes) \in Nat
      BY Fields, <1>1, Modulus
    <3> QED
      BY <3>1, WrapAddress
  <2>4. Word(lo(end), hi(end)) = end
    BY <2>3, WordOfBytes
  <2> HIDE DEF h, end
  <2>5. h[4] = lo(req.at) /\ h[5] = hi(req.at) /\ h[6] = lo(end) /\ h[7] = hi(end)
    BY <2>1
  <2> QED
    BY <1>1, <1>2, <1>3, <2>2, <2>4, <2>5 DEF TransferStart, TransferEnd, end
<1>4. CASE req.op = "save"
  <2> DEFINE end == Wrap(req.at + req.want)
  <2>1. h = << SaveCmd, h[2], h[3], lo(req.at), hi(req.at), lo(end), hi(end) >>
    BY <1>4, Fields DEF IsRequest, Request, xlink_save
  <2>2. hdr[3] = h[4] /\ hdr[4] = h[5] /\ hdr[5] = h[6] /\ hdr[6] = h[7]
    BY <1>4 DEF Headed, Size
  <2>3. end \in Address
    <3>1. req.at + req.want \in Nat
      BY Fields, <1>1, Modulus
    <3> QED
      BY <3>1, WrapAddress
  <2>4. Word(lo(end), hi(end)) = end
    BY <2>3, WordOfBytes
  <2> HIDE DEF h, end
  <2>5. h[4] = lo(req.at) /\ h[5] = hi(req.at) /\ h[6] = lo(end) /\ h[7] = hi(end)
    BY <2>1
  <2> QED
    BY <1>1, <1>2, <1>4, <2>2, <2>4, <2>5 DEF TransferStart, TransferEnd, end
<1>5. CASE req.op = "peek"
  <2>1. h = << PeekCmd, h[2], h[3], lo(req.at), hi(req.at) >>
    BY <1>5, Fields DEF IsRequest, Request, xlink_peek
  <2>2. hdr[3] = h[4] /\ hdr[4] = h[5]
    BY <1>5 DEF Headed, Size
  <2> HIDE DEF h
  <2>3. h[4] = lo(req.at) /\ h[5] = hi(req.at)
    BY <2>1
  <2> QED
    BY <1>1, <1>2, <1>5, <2>2, <2>3 DEF TransferStart
<1>6. CASE req.op = "poke"
  <2>1. h = << PokeCmd, h[2], h[3], lo(req.at), hi(req.at), req.writes[1] >>
    BY <1>6, Fields DEF IsRequest, Request, xlink_poke
  <2>2. hdr[3] = h[4] /\ hdr[4] = h[5] /\ hdr[5] = h[6]
    BY <1>6 DEF Headed, Size
  <2> HIDE DEF h
  <2>3. h[4] = lo(req.at) /\ h[5] = hi(req.at) /\ h[6] = req.writes[1]
    BY <2>1
  <2> QED
    BY <1>1, <1>2, <1>6, <2>2, <2>3 DEF TransferStart
<1>7. CASE req.op = "jump"
  <2>1. h = << JumpCmd, h[2], h[3], hi(req.at), lo(req.at) >>
    BY <1>7, Fields DEF IsRequest, Request, xlink_jump
  <2>2. hdr[3] = h[4] /\ hdr[4] = h[5]
    BY <1>7 DEF Headed, Size
  <2>3. scmd = JumpCmd
    BY <1>1, <1>7 DEF Code
  <2> HIDE DEF h
  <2>4. h[4] = hi(req.at) /\ h[5] = lo(req.at)
    BY <2>1
  <2> QED
    BY <1>1, <1>2, <1>7, <2>2, <2>3, <2>4 DEF Target
<1>8. CASE req.op = "inject"
  <2> DEFINE before == Wrap(req.at + AddressSpace - 1)
  <2>1. h = << InjectCmd, hi(before), lo(before) >>
    BY <1>8, Fields DEF IsRequest, Request, xlink_inject
  <2>2. hdr[1] = h[2] /\ hdr[2] = h[3]
    BY <1>8 DEF Headed, Size
  <2>3. scmd = InjectCmd
    BY <1>1, <1>8 DEF Code
  <2>4. before \in Address
    <3>1. req.at + AddressSpace - 1 \in Nat
      BY <1>1, Modulus
    <3> QED
      BY <3>1, WrapAddress
  <2>5. Word(lo(before), hi(before)) = before /\ Wrap(before + 1) = req.at
    BY <1>1, <2>4, WordOfBytes, WrapBack
  <2> HIDE DEF h, before
  <2>6. h[2] = hi(before) /\ h[3] = lo(before)
    BY <2>1
  <2> QED
    BY <1>1, <1>8, <2>2, <2>3, <2>5, <2>6 DEF Target
<1>9. CASE req.op = "run"
  BY <1>1, <1>9, Shapes DEF Target, Code
<1>10. CASE req.op = "identify"
  BY <1>1, <1>10
<1> QED
  BY <1>1, <1>3, <1>4, <1>5, <1>6, <1>7, <1>8, <1>9, <1>10 DEF Commanding

-----------------------------------------------------------------------------
(* What holds of each end by itself, in step or not. *)
Before == {"open", "init", "pingOut", "pingWrite", "pingStrobe", "pingWait"}
Sending == {"out", "write", "strobe", "wait"}
Receiving == {"input", "turn", "rwait", "rread", "rstrobe"}
After == {"closeInput", "close", "idle"}

Drives == ciaDriving <=> spc \in {"put", "wrStrobe", "wrWait", "input"}

Lines ==
  /\ Drives
  /\ pc \in {"pingWrite", "pingStrobe", "pingWait", "write", "strobe", "wait", "input"}
       => pcDriving
  /\ pc \in {"pingOut", "turn", "rwait", "rread", "rstrobe", "init", "close"}
       => ~pcDriving

Progress ==
  /\ pc \notin {"idle", "open"} => initialized
  /\ pc \in Before \cup Sending \cup {"input", "turn"} => got = <<>>
  /\ pc = "idle" => got = <<>>
  /\ pc \in Sending => Sends(req)
  /\ pc \in {"pingStrobe", "pingWait"} => pcData = PingCmd
  /\ pc \in {"strobe", "wait"} => pcData = Out(req)[nsent + 1]
  /\ pc \in Receiving => Receives(req) /\ nsent = Len(Out(req))
  /\ pc \notin After => ~result

-----------------------------------------------------------------------------
(* Where the server is with the bytes of a request.  It has acknowledged n *)
(* of them and waits for the next, ...                                     *)
Known == done = 0 => isBasic = (req.at = CellWord(mem, bstart))

Loading(n) ==
  /\ req.op = "load"
  /\ Headed(7)
  /\ n = 7 + done
  /\ done <= Len(req.writes)

AwaitsByte(n) ==
  \/ n = 0 /\ spc = "main" /\ done = 0
  \/ n \in 1 .. Len(req.header) - 1 /\ spc = "rdWait" /\ Headed(n) /\ done = 0
  \/ /\ Loading(n) /\ spc = "ldWait" /\ cursor = Wrap(req.at + done) /\ Known
     /\ done > 0 => done < Len(req.writes)
  \/ Loading(n) /\ spc = "ldNext" /\ done > 0 /\ cursor = Wrap(req.at + done - 1)

(* ... it has seen the strobe of the next, ... *)
SeesByte(n) ==
  \/ n = 0 /\ spc = "fetch" /\ done = 0
  \/ n \in 1 .. Len(req.header) - 1 /\ spc = "rdLatch" /\ Headed(n) /\ done = 0
  \/ /\ Loading(n) /\ spc = "ldLatch" /\ cursor = Wrap(req.at + done) /\ Known
     /\ done < Len(req.writes)

(* ... it has n of them and is about to acknowledge the last of these, ... *)
HasByte(n) ==
  \/ n = 1 /\ spc = "ack" /\ scmd = req.header[1] /\ done = 0
  \/ n \in 2 .. Len(req.header) /\ spc = "rdAck" /\ Headed(n) /\ done = 0
  \/ Loading(n) /\ spc = "ldAck" /\ done > 0 /\ cursor = Wrap(req.at + done - 1)

(* ... or it has j bytes of the reply behind it, ... *)
Serving(j) ==
  /\ Receives(req)
  /\ Headed(Len(req.header))
  /\ done = 0
  /\ req.op \in {"save", "peek"} => cursor = Wrap(req.at + j)
  /\ req.op = "identify" => sidx = j

(* ... or all of the request is done, or about to be. *)
Done == done = IF req.op = "load" THEN Len(req.writes) ELSE 1

Finished ==
  \/ spc = "outWait" /\ Serving(0)
  \/ /\ ~Receives(req)
     /\ Done
     /\ \/ spc = "main"
        \/ spc \in {"pokeStore", "jump", "inject", "run"}

(* The place in the code after n bytes of the request. *)
Goes(n) ==
  \/ n <= Len(Out(req)) /\ AwaitsByte(n)
  \/ n = Len(Out(req)) /\ Finished

Total == IF req.op = "identify" THEN 15 ELSE req.want

(* What an identification begins with tells its size, and that there is a  *)
(* server.                                                                 *)
Identified ==
  req.op = "identify" =>
    /\ Len(got) >= 1 => got[1] = 5
    /\ Len(got) >= 7 => got[7] = 16

-----------------------------------------------------------------------------
(* How the two ends stand to each other, by what the PC is about. *)
Level == pa2 = last

Resting == done = 0 /\ InStep

(* A strobe more or less does not keep a server from finishing its command. *)
WindsUp ==
  \/ spc \in {"main", "input", "pokeStore", "jump", "inject", "run"}
  \/ spc = "ldNext" /\ Wrap(cursor + 1) = TransferEnd
  \/ spc = "wrWait" /\ LastByte /\ flag

Pinging ==
  /\ done = 0
  /\ \/ WindsUp /\ Level
     \/ spc = "fetch" /\ ~flag /\ Level
     \/ spc = "ack" /\ scmd = PingCmd /\ ~flag /\ Level
     \/ spc = "main" /\ ~flag /\ ~Level

Writing == nsent < Len(Out(req)) /\ AwaitsByte(nsent) /\ ~flag /\ Level

Awaiting ==
  /\ nsent < Len(Out(req))
  /\ \/ AwaitsByte(nsent) /\ (nsent > 0 => flag) /\ Level
     \/ SeesByte(nsent) /\ ~flag /\ Level
     \/ HasByte(nsent + 1) /\ ~flag /\ Level
     \/ Goes(nsent + 1) /\ ~flag /\ ~Level

Turning == spc = "outWait" /\ Serving(0) /\ ~flag /\ Level

Offering ==
  LET n == Len(got)
  IN /\ n < Total
     /\ \/ n = 0 /\ spc = "outWait" /\ flag /\ Serving(0) /\ Level
        \/ n = 0 /\ spc = "outDir" /\ ~flag /\ Serving(0) /\ Level
        \/ n > 0 /\ spc = "wrWait" /\ flag /\ Serving(n - 1) /\ Level
        \/ spc = "put" /\ ~flag /\ Serving(n) /\ Level
        \/ spc = "wrStrobe" /\ ~flag /\ Serving(n) /\ Level /\ ciaData = NextByte
        \/ spc = "wrWait" /\ ~flag /\ Serving(n) /\ ~Level /\ ciaData = NextByte

Reading ==
  /\ Len(got) < Total
  /\ spc = "wrWait" /\ ~flag /\ Serving(Len(got)) /\ Level /\ ciaData = NextByte

Releasing ==
  /\ Len(got) \in 1 .. Total
  /\ spc = "wrWait" /\ ~flag /\ Serving(Len(got) - 1) /\ Level

(* A call reports success when all of it is done, and failure when nothing *)
(* of it is.                                                               *)
Achieved ==
  CASE req.op \in {"load", "poke"}          -> done = Len(req.writes)
    [] req.op \in {"save", "peek"}          -> Len(got) = req.want
    [] req.op = "identify"                  -> Len(got) = 15
    [] req.op \in {"jump", "inject", "run"} -> done = 1
    [] OTHER                                -> TRUE

Outcome == IF result THEN Achieved ELSE done = 0 /\ got = <<>>

(* A transfer of no bytes leaves the server in the middle of one. *)
Empty(r) == (r.op = "load" /\ r.writes = <<>>) \/ (r.op = "save" /\ r.want = 0)

Stuck ==
  /\ Empty(req)
  /\ \/ spc = "ldWait" /\ ~flag
     \/ ~pcDriving /\ spc = "outWait"
     \/ ~pcDriving /\ spc \in {"outDir", "put", "wrStrobe", "wrWait"} /\ ~flag

Paired ==
  /\ pc \in Before \ {"pingWait"} => Resting
  /\ pc = "pingWait" => Pinging
  /\ pc \in {"out", "write", "strobe"} => Writing
  /\ pc = "wait" => Awaiting
  /\ pc \in {"input", "turn"} => Turning
  /\ pc = "rwait" => Offering
  /\ pc = "rread" => Reading
  /\ pc = "rstrobe" => Releasing
  /\ pc \in Receiving => Identified
  /\ pc \in {"closeInput", "close"} => Outcome
  /\ pc \in After => InStep \/ Stuck

IndInv ==
  /\ Inv
  /\ Lines
  /\ Progress
  /\ clean => Paired

LEMMA InitIndInv == Init => IndInv
<1> SUFFICES ASSUME Init PROVE IndInv
  OBVIOUS
<1>1. Inv
  BY InitInv
<1>2. Lines /\ Progress
  BY DEF Init, UserportInit, ClientInit, ServerInit, Lines, Drives, Progress, Before, Sending,
         Receiving, After
<1>3. Paired
  BY DEF Init, UserportInit, ClientInit, ServerInit, Paired, Before, Receiving, After,
         InStep, ServerReady
<1> QED
  BY <1>1, <1>2, <1>3 DEF IndInv

-----------------------------------------------------------------------------
(* Each end by itself. *)
LEMMA ClientAlone ==
  ASSUME Inv, Lines, Progress, ClientStep, UNCHANGED server
  PROVE  Lines' /\ Progress'
<1> USE DEF Inv, Lines, Drives, Progress, Before, Sending, Receiving, After, input, output,
            strobe, bus, userport, server
<1>1. CASE Open
  BY <1>1 DEF Open
<1>2. CASE OpenFails
  BY <1>2 DEF OpenFails
<1>3. CASE PingOutput
  BY <1>3 DEF PingOutput
<1>4. CASE PingWrite
  BY <1>4 DEF PingWrite
<1>5. CASE PingStrobe
  BY <1>5 DEF PingStrobe
<1>6. CASE PingAnswered
  BY <1>6 DEF PingAnswered, ClientInv, Sends
<1>7. CASE Output
  BY <1>7 DEF Output
<1>8. CASE Write
  BY <1>8 DEF Write
<1>9. CASE Strobe
  BY <1>9 DEF Strobe
<1>10. CASE Sent
  BY <1>10 DEF Sent
<1>11. CASE Input
  BY <1>11 DEF Input
<1>12. CASE Turn
  BY <1>12 DEF Turn
<1>13. CASE Offered
  BY <1>13 DEF Offered
<1>14. CASE Read
  BY <1>14 DEF Read
<1>15. CASE Received
  BY <1>15 DEF Received
<1>16. CASE CloseInput
  BY <1>16 DEF CloseInput
<1>17. CASE Close
  BY <1>17 DEF Close
<1> QED
  BY <1>1, <1>2, <1>3, <1>4, <1>5, <1>6, <1>7, <1>8, <1>9, <1>10, <1>11, <1>12,
     <1>13, <1>14, <1>15, <1>16, <1>17 DEF ClientStep

LEMMA DrivesStays ==
  ASSUME ServerTypeOK, ServerInv, Drives, ServerStep
  PROVE  Drives'
<1> USE DEF Drives, bus, userport
<1>1. scmd \in Byte
  BY DEF ServerTypeOK
<1>2. CASE SrvAck
  BY <1>1, <1>2, DispatchFacts DEF SrvAck
<1>3. CASE SrvReadAck
  BY <1>1, <1>3, BodyFacts DEF SrvReadAck, ServerInv
<1>4. CASE SrvIrq \/ SrvFetch \/ SrvReadWait \/ SrvReadLatch \/ SrvPokeStore
  BY <1>4 DEF SrvIrq, SrvFetch, SrvReadWait, SrvReadLatch, SrvPokeStore, Listening
<1>5. CASE SrvLeave
  BY <1>5 DEF SrvLeave
<1>6. CASE SrvLoadWait \/ SrvLoadStore \/ SrvLoadAck \/ SrvLoadNext
  BY <1>6 DEF SrvLoadWait, SrvLoadStore, SrvLoadAck, SrvLoadNext
<1>7. CASE SrvOutWait \/ SrvOutDir \/ SrvPut \/ SrvWriteStrobe \/ SrvWriteWait
           \/ SrvInput \/ SrvBoot
  BY <1>7 DEF SrvOutWait, SrvOutDir, SrvPut, SrvWriteStrobe, SrvWriteWait, SrvInput, SrvBoot
<1> QED
  BY <1>2, <1>3, <1>4, <1>5, <1>6, <1>7 DEF ServerStep

LEMMA ServerAlone ==
  ASSUME Inv, Lines, Progress, ServerStep, UNCHANGED client
  PROVE  Lines' /\ Progress'
<1>1. UNCHANGED << pcData, pcDriving >>
  BY DEF ServerStep, SrvIrq, SrvFetch, SrvAck, SrvReadWait, SrvReadLatch, SrvReadAck,
         SrvPokeStore, SrvLeave, SrvLoadWait, SrvLoadStore, SrvLoadAck, SrvLoadNext,
         SrvOutWait, SrvOutDir, SrvPut, SrvWriteStrobe, SrvWriteWait, SrvInput, SrvBoot,
         bus, userport
<1>2. Progress'
  BY <1>1 DEF Progress, client
<1>3. Drives'
  BY DrivesStays DEF Inv, TypeOK, Lines
<1> QED
  BY <1>1, <1>2, <1>3 DEF Lines, client

-----------------------------------------------------------------------------
(* Steps of the PC, while it is in step with the server. *)

LEMMA CommandStays ==
  ASSUME UNCHANGED << spc, scmd, hdr, cursor, sidx, isBasic, mem, req, done >>
  PROVE  /\ \A n : AwaitsByte(n)' <=> AwaitsByte(n)
         /\ \A n : SeesByte(n)' <=> SeesByte(n)
         /\ \A n : HasByte(n)' <=> HasByte(n)
         /\ \A n : Goes(n)' <=> Goes(n)
         /\ \A n : Serving(n)' <=> Serving(n)
         /\ Headed(7)' <=> Headed(7)
         /\ Finished' <=> Finished
         /\ Total' = Total /\ NextByte' = NextByte
         /\ LastByte' <=> LastByte
         /\ TransferEnd' = TransferEnd
<1>1. /\ spc' = spc /\ scmd' = scmd /\ hdr' = hdr /\ cursor' = cursor /\ sidx' = sidx
      /\ isBasic' = isBasic /\ mem' = mem /\ req' = req /\ done' = done
  OBVIOUS
<1>2. \A n : Headed(n)' <=> Headed(n)
  BY <1>1 DEF Headed
<1>3. \A n : Loading(n)' <=> Loading(n)
  BY <1>1, <1>2 DEF Loading
<1>4. Known' <=> Known
  BY <1>1 DEF Known
<1>5. \A n : Serving(n)' <=> Serving(n)
  BY <1>1, <1>2 DEF Serving
<1>6. \A n : AwaitsByte(n)' <=> AwaitsByte(n)
  BY <1>1, <1>2, <1>3, <1>4 DEF AwaitsByte
<1>7. Finished' <=> Finished
  BY <1>1, <1>5 DEF Finished, Done
<1>8. NextByte' = NextByte /\ Total' = Total /\ (LastByte' <=> LastByte)
  BY <1>1 DEF NextByte, LastByte, TransferEnd, Total
<1>9. \A n : Goes(n)' <=> Goes(n)
  BY <1>1, <1>6, <1>7 DEF Goes
<1>10. TransferEnd' = TransferEnd
  BY <1>1 DEF TransferEnd
<1>11. \A n : SeesByte(n)' <=> SeesByte(n)
  BY <1>1, <1>2, <1>3, <1>4 DEF SeesByte
<1>12. \A n : HasByte(n)' <=> HasByte(n)
  BY <1>1, <1>2, <1>3 DEF HasByte
<1> QED
  BY <1>2, <1>5, <1>6, <1>7, <1>8, <1>9, <1>10, <1>11, <1>12

LEMMA ServerStays ==
  ASSUME UNCHANGED << server, req, done >>
  PROVE  /\ \A n : AwaitsByte(n)' <=> AwaitsByte(n)
         /\ \A n : SeesByte(n)' <=> SeesByte(n)
         /\ \A n : HasByte(n)' <=> HasByte(n)
         /\ \A n : Goes(n)' <=> Goes(n)
         /\ \A n : Serving(n)' <=> Serving(n)
         /\ Headed(7)' <=> Headed(7)
         /\ Finished' <=> Finished
         /\ Total' = Total /\ NextByte' = NextByte
         /\ LastByte' <=> LastByte
         /\ TransferEnd' = TransferEnd
<1>1. UNCHANGED << spc, scmd, hdr, cursor, sidx, isBasic, mem, req, done >>
  BY DEF server
<1> QED
  BY <1>1, CommandStays

LEMMA ReadyStays ==
  ASSUME UNCHANGED << server, flag, pa2, last, initialized >>
  PROVE  InStep' <=> InStep
<1>1. /\ spc' = spc /\ scmd' = scmd /\ hdr' = hdr /\ cursor' = cursor /\ sidx' = sidx
      /\ mem' = mem
  BY DEF server
<1>2. (LastByte' <=> LastByte) /\ TransferEnd' = TransferEnd
  BY <1>1 DEF LastByte, TransferEnd
<1> QED
  BY <1>1, <1>2 DEF InStep, ServerReady, EndingReply, EndingCommand

Together == Inv /\ Lines /\ Progress /\ Paired

(* What these steps leave in the data register does not matter. *)
LEMMA OpenPaired ==
  ASSUME Together, pc = "open", pc' \in {"init", "pingOut"}, initialized',
         last' = IF initialized THEN last ELSE pa2,
         UNCHANGED << flag, pa2, server, done >>
  PROVE  Paired'
<1>1. Resting
  BY DEF Together, Paired, Before
<1>2. InStep'
  <2>1. ServerReady' <=> ServerReady
    <3>1. /\ spc' = spc /\ scmd' = scmd /\ hdr' = hdr /\ cursor' = cursor /\ sidx' = sidx
          /\ mem' = mem /\ flag' = flag
      BY DEF server
    <3>2. (LastByte' <=> LastByte) /\ TransferEnd' = TransferEnd
      BY <3>1 DEF LastByte, TransferEnd
    <3> QED
      BY <3>1, <3>2 DEF ServerReady, EndingReply, EndingCommand
  <2> QED
    BY <1>1, <2>1 DEF Resting, InStep
<1> QED
  BY <1>1, <1>2 DEF Paired, Resting, Before, Receiving, After

(* Steps before the ping is sent. *)
LEMMA PreparingPaired ==
  ASSUME Together, OpenFails \/ PingOutput \/ PingWrite, UNCHANGED << server, done >>
  PROVE  Paired'
<1>1. Resting /\ UNCHANGED << flag, pa2, last, initialized >>
  BY DEF Together, Paired, OpenFails, PingOutput, PingWrite, Before, userport
<1>2. InStep' /\ done' = 0
  BY <1>1, ReadyStays DEF Resting
<1>3. pc' \in {"idle", "pingWrite", "pingStrobe"}
  BY DEF OpenFails, PingOutput, PingWrite
<1> QED
  BY <1>2, <1>3 DEF Paired, Resting, Before, Receiving, After

LEMMA PingStrobePaired ==
  ASSUME Together, PingStrobe, UNCHANGED << server, done >>
  PROVE  Paired'
<1>1. Resting /\ initialized
  BY DEF Together, Paired, PingStrobe, Before, Progress
<1>2. spc' = spc /\ cursor' = cursor /\ (LastByte' <=> LastByte)
      /\ TransferEnd' = TransferEnd
  BY DEF server, LastByte, TransferEnd
<1>3. WindsUp' /\ Level'
  BY <1>1, <1>2 DEF PingStrobe, strobe, Resting, InStep, ServerReady, EndingReply,
     EndingCommand, WindsUp, Level
<1> QED
  BY <1>1, <1>3 DEF PingStrobe, Paired, Pinging, Resting, Before, Receiving, After

LEMMA PingAnsweredPaired ==
  ASSUME Together, PingAnswered, UNCHANGED << server, done >>
  PROVE  Paired'
<1>1. spc = "main" /\ ~flag /\ done = 0 /\ got = <<>> /\ initialized /\ nsent = 0
  BY DEF Together, Paired, PingAnswered, Acknowledged, Pinging, Level, Progress, Before,
     Inv, ClientInv
<1>2. Level' /\ InStep' /\ done' = 0 /\ spc' = "main" /\ ~flag'
  BY <1>1 DEF PingAnswered, userport, server, Level, InStep, ServerReady
<1>3. CASE pc' = "closeInput" /\ req.op = "ping" /\ result'
  <2>1. req' = req
    BY DEF PingAnswered
  <2>2. Outcome'
    BY <1>3, <2>1 DEF Outcome, Achieved
  <2> QED
    BY <1>2, <1>3, <2>2 DEF Paired, Before, Receiving, After
<1>4. CASE pc' = "out"
  <2>1. nsent' = 0 /\ req' = req /\ req.op \notin {"ping", "reset"}
    BY <1>1, <1>4 DEF PingAnswered, Together, Inv, ClientInv
  <2>2. Len(Out(req)) > 0
    BY <2>1, Calling DEF Together, Inv, TypeOK, ClientTypeOK
  <2>3. Writing'
    BY <1>2, <2>1, <2>2 DEF Writing, AwaitsByte
  <2> QED
    BY <1>4, <2>3 DEF Paired, Before, Receiving, After
<1> QED
  BY <1>3, <1>4 DEF PingAnswered

(* The bytes of the request. *)
LEMMA WritingPaired ==
  ASSUME Together, Output \/ Write, UNCHANGED << server, done >>
  PROVE  Paired'
<1>1. Writing
  BY DEF Together, Paired, Output, Write
<1>2. UNCHANGED << req, nsent, flag, pa2, last >> /\ pc' \in {"write", "strobe"}
  BY DEF Output, Write
<1>3. Writing'
  BY <1>1, <1>2, ServerStays DEF Writing, Level, Out
<1> QED
  BY <1>2, <1>3 DEF Paired, Before, Receiving, After

LEMMA StrobePaired ==
  ASSUME Together, Strobe, UNCHANGED << server, done >>
  PROVE  Paired'
<1>1. Writing
  BY DEF Together, Paired, Strobe
<1>2. UNCHANGED << req, nsent, pa2, last >> /\ flag' /\ pc' = "wait"
  BY DEF Strobe, strobe
<1>3. Awaiting'
  BY <1>1, <1>2, ServerStays DEF Writing, Awaiting, Level, Out
<1> QED
  BY <1>2, <1>3 DEF Paired, Before, Receiving, After

(* The answer comes when the server has the byte; after the last one the   *)
(* request is done, or its reply is due.                                   *)
LEMMA SentPaired ==
  ASSUME Together, Sent, UNCHANGED << server, done >>
  PROVE  Paired'
<1>1. Goes(nsent + 1) /\ ~flag /\ nsent < Len(Out(req)) /\ nsent \in Nat
  BY DEF Together, Paired, Sent, Acknowledged, Awaiting, Level, Inv, TypeOK, ClientTypeOK
<1>2. /\ got = <<>> /\ initialized /\ Sends(req) /\ ~result
      /\ req \in Calls
  BY DEF Together, Sent, Progress, Sending, After, Inv, TypeOK, ClientTypeOK
<1>3. UNCHANGED << req, got, flag, pa2, initialized >> /\ nsent' = nsent + 1 /\ last' = pa2
  BY DEF Sent, userport
<1>4. Level' /\ Goes(nsent)' /\ ~flag' /\ initialized'
  BY <1>1, <1>2, <1>3, ServerStays DEF Level
<1>5. Out(req)' = Out(req) /\ Receives(req)' = Receives(req) /\ Sends(req)' = Sends(req)
  BY <1>3
<1>6. CASE nsent' < Len(Out(req)) /\ pc' = "write"
  <2>1. AwaitsByte(nsent)'
    BY <1>1, <1>3, <1>4, <1>5, <1>6 DEF Goes
  <2> QED
    BY <1>4, <1>5, <1>6, <2>1 DEF Writing, Paired, Before, Receiving, After
<1>7. CASE nsent' = Len(Out(req)) /\ Receives(req) /\ pc' = "input"
  <2>1. ~AwaitsByte(nsent)'
    <3>1. req.op # "load" /\ Len(Out(req)) = Len(req.header) /\ Len(req.header) > 0
      BY <1>2, <1>7, Sizes DEF Receives
    <3> QED
      BY <1>3, <1>7, <3>1 DEF AwaitsByte, Loading
  <2>2. Finished' /\ Serving(0)' /\ spc' = "outWait"
    BY <1>3, <1>4, <1>7, <2>1 DEF Goes, Finished
  <2> QED
    BY <1>2, <1>3, <1>4, <1>7, <2>2 DEF Turning, Identified, Paired, Before, Receiving, After
<1>8. CASE /\ nsent' = Len(Out(req)) /\ ~Receives(req) /\ pc' = "closeInput"
           /\ result' = (req.op = "load" => req.data # <<>>)
  <2>1. /\ req.op \in Commanding /\ req.at \in Address
        /\ req.data = IF req.op = "load" THEN req.writes ELSE <<>>
        /\ req.op = "load" => Len(req.writes) <= AddressSpace
        /\ req.op = "poke" => Len(req.writes) = 1
        /\ Len(req.writes) \in Nat /\ (req.writes = <<>> <=> Len(req.writes) = 0)
        /\ Len(Out(req)) = IF req.op = "load" THEN 7 + Len(req.writes) ELSE Size(req.op)
        /\ Len(req.header) = Size(req.op) /\ Size(req.op) \in 1 .. 7
        /\ (req.op = "load" => Size(req.op) = 7)
    BY <1>2, Shapes, Fields, Sizes
  <2>4. result' <=> (req.op = "load" => req.data # <<>>)
    BY <1>8, Zenon
  <2>5. done' = done /\ done \in Nat
    BY DEF Together, Inv, TypeOK
  <2>2. CASE Finished'
    <3>1. /\ done' = IF req.op = "load" THEN Len(req.writes) ELSE 1
          /\ \/ spc' = "main"
             \/ spc' \in {"pokeStore", "jump", "inject", "run"}
      BY <1>3, <1>8, <2>2 DEF Finished, Done, Serving
    <3>2. InStep'
      BY <1>4, <3>1 DEF InStep, ServerReady, EndingCommand, Level
    <3>3. Achieved'
      BY <1>3, <1>8, <2>1, <3>1 DEF Achieved, Receives, Commanding
    <3>4. ~result' => done' = 0 /\ got' = <<>>
      BY <1>2, <1>3, <2>1, <2>4, <3>1
    <3> QED
      BY <1>8, <3>2, <3>3, <3>4 DEF Outcome, Paired, Before, Receiving, After
  <2>3. CASE AwaitsByte(nsent)'
    <3>1. /\ req.op = "load" /\ nsent' = 7 + done' /\ Headed(7)' /\ done' <= Len(req.writes)
          /\ \/ spc' = "ldWait" /\ (done' > 0 => done' < Len(req.writes))
             \/ spc' = "ldNext" /\ done' > 0 /\ cursor' = Wrap(req.at + done' - 1)
      <4>1. ~(nsent' = 0) /\ ~(nsent' \in 1 .. Len(req.header) - 1)
        BY <1>1, <1>3, <1>8, <2>1
      <4> QED
        BY <1>3, <2>3, <4>1 DEF AwaitsByte, Loading
    <3>2. done' = Len(req.writes) /\ done' \in Nat
      BY <1>8, <2>1, <2>5, <3>1
    <3>3. CASE spc' = "ldWait"
      <4>1. req.writes = <<>> /\ ~result' /\ done' = 0
        BY <2>1, <2>4, <3>1, <3>2, <3>3
      <4> QED
        BY <1>2, <1>3, <1>4, <1>8, <3>1, <3>3, <4>1
        DEF Outcome, Stuck, Empty, Paired, Before, Receiving, After
    <3>4. CASE spc' = "ldNext"
      <4>1. Len(req.writes) \in Nat /\ done' > 0
        BY <2>1, <3>1, <3>2, <3>4
      <4>2. TransferEnd' = Wrap(req.at + Len(req.writes))
        <5>1. Headed(Size(req.op))
          BY <3>1, ServerStays, <1>3 DEF Size
        <5> QED
          BY <1>2, <1>3, <3>1, <5>1, Understands, ServerStays
      <4>3. Wrap(cursor' + 1) = TransferEnd'
        <5> DEFINE i == done'
        <5>0. req.at \in Nat /\ i \in Nat /\ i > 0
          BY <2>1, <3>2, <4>1, Modulus
        <5> HIDE DEF i
        <5>1. req.at + i - 1 \in Nat /\ (req.at + i - 1) + 1 = req.at + i
          BY <5>0
        <5> QED
          BY <3>1, <3>2, <3>4, <4>2, <5>1, WrapNext DEF i
      <4>4. InStep'
        BY <1>4, <3>4, <4>3 DEF InStep, ServerReady, EndingCommand, Level
      <4>5. result' /\ Achieved'
        <5>1. result'
          BY <2>1, <2>4, <3>1, <3>2, <4>1
        <5> QED
          BY <1>3, <3>1, <3>2, <5>1 DEF Achieved
      <4> QED
        BY <1>8, <4>4, <4>5 DEF Outcome, Paired, Before, Receiving, After
    <3> QED
      BY <3>1, <3>3, <3>4
  <2> QED
    BY <1>4, <2>2, <2>3 DEF Goes
<1> QED
  BY <1>3, <1>6, <1>7, <1>8 DEF Sent

(* The reply: the port is turned around, ... *)
LEMMA InputPaired ==
  ASSUME Together, pc = "input", pc' = "turn",
         UNCHANGED << req, got, flag, pa2, last, server, done >>
  PROVE  Paired'
<1>1. Turning /\ Identified
  BY DEF Together, Paired, Receiving
<1>2. Turning' /\ Identified'
  BY <1>1, ServerStays DEF Turning, Level, Identified, server
<1> QED
  BY <1>2 DEF Paired, Before, Receiving, After

LEMMA TurnPaired ==
  ASSUME Together, Turn, UNCHANGED << server, done >>
  PROVE  Paired'
<1>1. /\ Turning /\ Identified /\ got = <<>> /\ Receives(req) /\ Sends(req) /\ ~pcDriving
      /\ ~result /\ req \in Calls
  BY DEF Together, Paired, Turn, Receiving, Progress, Lines, Drives, Receives, Sends, After, Inv,
         TypeOK, ClientTypeOK
<1>2. UNCHANGED << req, got, pa2, last, result, pcDriving, spc >> /\ flag'
  BY DEF Turn, strobe, bus, server
<1>3. /\ spc = "outWait" /\ Serving(0)' /\ Level' /\ Identified' /\ done' = 0
  BY <1>1, <1>2, ServerStays DEF Turning, Level, Identified, Serving
<1>4. req.want \in Nat /\ (req.op = "identify" => req.want = 10) /\ (req.op = "peek" => req.want = 1)
      /\ (req.want = 0 => req.op = "save") /\ (req.want # 0 => Total > 0) /\ Len(got) = 0
  BY <1>1, Shapes, Fields DEF Receives, Total
<1>5. CASE req.want = 0
  <2>1. pc' = "closeInput"
    BY <1>5 DEF Turn
  <2>2. Outcome'
    BY <1>1, <1>2, <1>3 DEF Outcome
  <2>3. Stuck'
    BY <1>1, <1>2, <1>3, <1>4, <1>5 DEF Stuck, Empty
  <2> QED
    BY <2>1, <2>2, <2>3 DEF Paired, Before, Receiving, After
<1>6. CASE req.want # 0
  <2>1. pc' = "rwait"
    BY <1>6 DEF Turn
  <2>2. Offering'
    BY <1>1, <1>2, <1>3, <1>4, <1>6, ServerStays DEF Offering
  <2> QED
    BY <1>3, <2>1, <2>2 DEF Paired, Before, Receiving, After
<1> QED
  BY <1>5, <1>6

LEMMA OfferedPaired ==
  ASSUME Together, Offered, UNCHANGED << server, done >>
  PROVE  Paired'
<1>1. Offering /\ Identified /\ ~Level
  BY DEF Together, Paired, Offered, Receiving, Acknowledged, Level
<1>2. /\ UNCHANGED << req, got, flag, pa2, ciaData, spc >>
      /\ last' = pa2 /\ pc' = "rread"
  BY DEF Offered, userport, server
<1>3. Reading' /\ Identified'
  BY <1>1, <1>2, ServerStays DEF Offering, Reading, Level, Identified
<1> QED
  BY <1>2, <1>3 DEF Paired, Before, Receiving, After

(* ... the byte that is read is the one the server sent, ... *)
LEMMA ReplyByte ==
  ASSUME Together, Reading, pc \in Receiving
  PROVE  /\ scmd = Code(req.op)
         /\ req.op = "identify" => Len(got) < 15 /\ NextByte = Info(mem)[Len(got) + 1]
         /\ req.op # "identify" => NextByte = Cell(mem, Wrap(req.at + Len(got)))
<1>1. /\ req \in Calls /\ Receives(req) /\ Sends(req)
      /\ Serving(Len(got)) /\ Len(got) < Total
  BY DEF Together, Reading, Progress, Receives, Sends, Inv, TypeOK, ClientTypeOK
<1>2. Headed(Size(req.op))
  BY <1>1, Shapes DEF Serving
<1>3. scmd = Code(req.op)
  BY <1>1, <1>2, Understands
<1>4. scmd = IdentifyCmd <=> req.op = "identify"
  BY <1>1, <1>3 DEF Receives, Code
<1> QED
  BY <1>1, <1>3, <1>4 DEF Serving, NextByte, Receives, Total

LEMMA ReadPaired ==
  ASSUME Together, Read, UNCHANGED << server, done >>
  PROVE  Paired' /\ got' = Append(got, NextByte)
<1>1. Reading /\ Identified /\ ~pcDriving /\ ciaDriving /\ ciaData = NextByte
      /\ got \in Seq(Byte) /\ ciaData \in Byte
  BY DEF Together, Paired, Read, Receiving, Lines, Drives, Reading, Inv, TypeOK, ClientTypeOK,
         UserportTypeOK
<1>2. BusValues = {NextByte}
  BY <1>1 DEF BusValues
<1>3. got' = Append(got, NextByte) /\ pc' = "rstrobe"
  BY <1>2 DEF Read
<1>4. UNCHANGED << req, flag, pa2, last, ciaData, spc >>
  BY DEF Read, userport, server
<1>5. Len(got') = Len(got) + 1 /\ Len(got) \in Nat
      /\ (\A i \in 1 .. Len(got) : got'[i] = got[i]) /\ got'[Len(got) + 1] = NextByte
  BY <1>1, <1>3
<1>6. Releasing'
  <2>1. req.want \in Nat
    BY Fields DEF Together, Inv, TypeOK, ClientTypeOK
  <2>2. Serving(Len(got)) /\ Len(got) < Total /\ Total \in Nat /\ Level /\ ~flag
        /\ spc = "wrWait"
    BY <1>1, <2>1 DEF Reading, Total
  <2>3. Total' = Total /\ \A n : Serving(n)' <=> Serving(n)
    BY <1>4, ServerStays
  <2>4. Len(got') - 1 = Len(got) /\ Len(got') \in 1 .. Total
    BY <1>5, <2>2
  <2>5. Serving(Len(got) - 1)'
    BY <2>2, <2>3, <2>4
  <2> QED
    BY <1>4, <2>2, <2>3, <2>4, <2>5 DEF Releasing, Level
<1>7. Identified'
  <2> SUFFICES ASSUME req.op = "identify" PROVE (Len(got') >= 1 => got'[1] = 5)
                                              /\ (Len(got') >= 7 => got'[7] = 16)
    BY <1>4 DEF Identified
  <2>1. NextByte = Info(mem)[Len(got) + 1]
    BY <1>1, ReplyByte DEF Read, Receiving
  <2>2. Info(mem)[1] = 5 /\ Info(mem)[7] = 16
    BY DEF Info
  <2> QED
    BY <1>1, <1>5, <2>1, <2>2 DEF Identified
<1> QED
  BY <1>3, <1>6, <1>7 DEF Paired, Before, Receiving, After

(* ... and the PC stops reading when the server has sent the last one.     *)
LEMMA LastReplyByte ==
  ASSUME req \in Calls, NEW j \in Nat, Serving(j), j < Total
  PROVE  LastByte <=> j + 1 = Total
<1>1. /\ Receives(req) /\ Sends(req) /\ req.at \in Address /\ req.want \in Nat
      /\ req.op = "peek" => req.want = 1
      /\ req.op = "save" => req.want <= AddressSpace
  BY Shapes, Fields DEF Serving, Receives, Sends
<1>2. Headed(Size(req.op))
  BY <1>1, Shapes DEF Serving
<1>3. scmd = Code(req.op)
  BY <1>1, <1>2, Understands
<1>4. CASE req.op = "save"
  <2>1. TransferEnd = Wrap(req.at + req.want) /\ cursor = Wrap(req.at + j) /\ Total = req.want
    BY <1>1, <1>2, <1>4, Understands DEF Serving, Total
  <2>2. Wrap(cursor + 1) = Wrap(req.at + (j + 1))
    <3>1. req.at + j \in Nat /\ (req.at + j) + 1 = req.at + (j + 1)
      BY <1>1, Modulus
    <3> QED
      BY <2>1, <3>1, WrapNext
  <2>3. req.want \in 1 .. AddressSpace /\ j + 1 \in 1 .. req.want
    <3> DEFINE n == req.want
    <3>1. j < n /\ n <= AddressSpace /\ n \in Nat /\ AddressSpace \in Nat
      BY <1>1, <1>4, <2>1, AddressSpaceSize
    <3> HIDE DEF n
    <3>2. n \in 1 .. AddressSpace /\ j + 1 \in 1 .. n
      BY <3>1
    <3> QED
      BY <3>2 DEF n
  <2>4. Wrap(req.at + (j + 1)) = Wrap(req.at + req.want) <=> j + 1 = req.want
    BY <1>1, <2>3, MeetsEndOnce
  <2> QED
    BY <1>3, <1>4, <2>1, <2>2, <2>4 DEF LastByte, Code
<1>5. CASE req.op = "peek"
  BY <1>1, <1>3, <1>5 DEF LastByte, Code, Total
<1>6. CASE req.op = "identify"
  <2>1. Len(Info(mem)) = 15
    BY DEF Info
  <2> QED
    BY <1>3, <1>6, <2>1 DEF LastByte, Code, Total, Serving
<1> QED
  BY <1>1, <1>4, <1>5, <1>6 DEF Receives

LEMMA ReceivedPaired ==
  ASSUME Together, Received, UNCHANGED << server, done >>
  PROVE  Paired'
<1>1. /\ Releasing /\ Identified /\ Receives(req) /\ Sends(req) /\ req \in Calls
      /\ got \in Seq(Byte) /\ initialized
  BY DEF Together, Paired, Received, Receiving, Progress, Receives, Sends, Inv, TypeOK,
         ClientTypeOK
<1>2. UNCHANGED << req, got, pa2, last, initialized, spc, done >> /\ flag'
  BY DEF Received, strobe, server
<1>3. /\ Len(got) \in 1 .. Total /\ Total \in Nat /\ Serving(Len(got) - 1) /\ Level
      /\ spc = "wrWait" /\ done = 0
  <2>1. req.want \in Nat
    BY <1>1, Fields
  <2> QED
    BY <1>1, <2>1 DEF Releasing, Total, Serving
<1>4. Want(req, got) = Total
  BY <1>1, <1>3, Shapes DEF Want, Total, Identified
<1>5. CASE ~Nameless /\ Len(got) < Want(req, got) /\ pc' = "rwait"
  <2>1. Serving(Len(got) - 1)' /\ Level' /\ Total' = Total /\ Identified'
    BY <1>1, <1>2, <1>3, ServerStays DEF Level, Identified
  <2>2. Offering'
    BY <1>2, <1>3, <1>4, <1>5, <2>1 DEF Offering
  <2> QED
    BY <1>5, <2>1, <2>2 DEF Paired, Before, Receiving, After
<1>6. CASE /\ Len(got) >= Want(req, got) /\ pc' = "closeInput"
           /\ result' = (req.op = "identify" => ~Unidentified(got))
  <2>1. Len(got) = Total
    BY <1>3, <1>4, <1>6
  <2>2. Achieved'
    BY <1>1, <1>2, <2>1 DEF Achieved, Total, Receives
  <2>3. result'
    <3>1. req.op = "identify" => ~Unidentified(got)
      <4> SUFFICES ASSUME req.op = "identify" PROVE ~Unidentified(got)
        OBVIOUS
      <4>1. Len(got) = 15 /\ got[7] = 16
        BY <1>1, <2>1 DEF Total, Identified
      <4>2. 7 \in Len(got) - 8 .. Len(got)
        BY <4>1
      <4> QED
        BY <4>1, <4>2 DEF Unidentified
    <3> QED
      BY <1>6, <3>1, Zenon
  <2>4. LastByte
    BY <1>1, <1>3, <2>1, LastReplyByte
  <2>5. InStep'
    BY <1>2, <1>3, <2>4, ServerStays DEF InStep, ServerReady, EndingReply, Level
  <2> QED
    BY <1>6, <2>2, <2>3, <2>5 DEF Outcome, Paired, Before, Receiving, After
<1>7. ~Nameless
  BY <1>1, <1>3 DEF Nameless, Identified
<1> QED
  BY <1>5, <1>6, <1>7 DEF Received

(* A wait that finds the server blocked, with no strobe pending, is the     *)
(* wait for a server that never listened.                                  *)
LEMMA Unheard ==
  ASSUME Together, Waiting, Level, ServerBlocked, ~flag
  PROVE  /\ spc = "main" /\ done = 0 /\ got = <<>>
         /\ pc = "pingWait" \/ (pc = "wait" /\ nsent = 0)
<1>1. CASE pc = "pingWait"
  <2>1. Pinging /\ got = <<>>
    BY <1>1 DEF Together, Paired, Progress, Before
  <2> QED
    BY <1>1, <2>1 DEF Pinging, WindsUp, ServerBlocked, Polling, Level
<1>2. CASE pc = "wait"
  <2>1. Awaiting /\ got = <<>> /\ nsent \in Nat
    BY <1>2 DEF Together, Paired, Progress, Sending, Inv, TypeOK, ClientTypeOK
  <2>2. ~SeesByte(nsent)
    BY DEF SeesByte, ServerBlocked, Polling
  <2>3. ~HasByte(nsent + 1)
    BY DEF HasByte, ServerBlocked, Polling
  <2>4. nsent = 0 /\ AwaitsByte(nsent)
    BY <2>1, <2>2, <2>3 DEF Awaiting
  <2>5. spc = "main" /\ done = 0
    <3>1. done \in Nat
      BY DEF Together, Inv, TypeOK
    <3> QED
      BY <2>4, <3>1 DEF AwaitsByte, Loading
  <2> QED
    BY <1>2, <2>1, <2>4, <2>5
<1>3. CASE pc = "rwait"
  <2>1. Offering
    BY <1>3 DEF Together, Paired
  <2> QED
    BY <2>1 DEF Offering, ServerBlocked, Polling
<1> QED
  BY <1>1, <1>2, <1>3 DEF Waiting

LEMMA GiveUpPaired ==
  ASSUME Together, Timeout, ServerBlocked, ~flag, UNCHANGED << server, done >>
  PROVE  Paired'
<1>1. /\ Waiting /\ Level /\ ~result /\ initialized
      /\ pc' = "closeInput" /\ UNCHANGED << req, got, flag, pa2, last, initialized, result >>
  BY DEF Timeout, Waiting, Acknowledged, Level, Together, Progress, Before, Sending, After,
         userport
<1>2. spc = "main" /\ done = 0 /\ got = <<>>
  BY <1>1, Unheard
<1>3. InStep' /\ Outcome'
  BY <1>1, <1>2 DEF InStep, ServerReady, Level, Outcome, server
<1> QED
  BY <1>1, <1>3 DEF Paired, Before, Receiving, After

(* The device is closed, and the call is over. *)
LEMMA OverPaired ==
  ASSUME Together, pc \in After, pc' \in After, pc' # "idle" => got' = got,
         pcDriving' => pcDriving,
         UNCHANGED << req, flag, pa2, last, initialized, result, server, done >>
  PROVE  pc # "idle" => Paired'
<1> SUFFICES ASSUME pc # "idle" PROVE Paired'
  OBVIOUS
<1>1. (InStep \/ Stuck) /\ Outcome
  BY DEF Together, Paired, After
<1>2. InStep => InStep'
  BY ReadyStays
<1>3. Stuck => Stuck'
  BY DEF Stuck, Empty, server
<1>4. pc' # "idle" => Outcome'
  BY <1>1 DEF Outcome, Achieved
<1> QED
  BY <1>1, <1>2, <1>3, <1>4 DEF Paired, Before, Receiving, After

LEMMA ClosePaired ==
  ASSUME Together, CloseInput \/ Close, UNCHANGED << server, done >>
  PROVE  Paired'
BY OverPaired DEF CloseInput, Close, After, input, userport

(* A new process reads the level of PA2 again. *)
LEMMA NextProcessPaired ==
  ASSUME Together, NextProcess
  PROVE  Paired'
<1>1. /\ InStep \/ Stuck
      /\ pc' = "idle" /\ UNCHANGED << server, userport, req, done >> /\ ~initialized'
  BY DEF Together, Paired, NextProcess, NewProcess, After
<1>2. LastByte' <=> LastByte
  BY <1>1, ServerStays
<1>3. InStep => InStep'
  BY <1>1, <1>2 DEF InStep, ServerReady, EndingReply, EndingCommand, TransferEnd, userport,
     server
<1>4. Stuck => Stuck'
  BY <1>1 DEF Stuck, Empty, server, userport
<1> QED
  BY <1>1, <1>3, <1>4 DEF Paired, Before, Receiving, After

(* A call that begins while the server is ready begins in step. *)
LEMMA NewCallPaired ==
  ASSUME NewCall, clean'
  PROVE  Paired'
<1>1. InStep
  BY Zenon DEF NewCall
<1>2. InStep' /\ done' = 0 /\ pc' = "open"
  BY <1>1, ReadyStays DEF NewCall, Call, userport
<1> QED
  BY <1>2 DEF Resting, Paired, Before, Receiving, After

(* A user who starts the server again takes away a strobe that it has not  *)
(* seen, but only a ping can be that.                                      *)
LEMMA EnvironmentPaired ==
  ASSUME Together, UserInstalls \/ ForegroundRuns
  PROVE  Paired'
<1>1. /\ spc = "main"
      /\ UNCHANGED << spc, scmd, hdr, cursor, sidx, isBasic, mem, req, done >>
      /\ UNCHANGED << pc, nsent, got, last, initialized, result, pa2, pcDriving, ciaData >>
      /\ flag' => flag
  BY DEF UserInstalls, ForegroundRuns, Install, Foreground, client, userport
<1>2. InStep => InStep'
  BY <1>1 DEF InStep, ServerReady, EndingReply, EndingCommand
<1>3. Resting => Resting'
  BY <1>1, <1>2 DEF Resting
<1>4. Pinging => Pinging'
  BY <1>1 DEF Pinging, WindsUp, Level
<1>5. Writing => Writing'
  BY <1>1, CommandStays DEF Writing, Level
<1>6. Awaiting => Awaiting'
  <2>1. \A n : n # 0 => ~AwaitsByte(n)
    BY <1>1 DEF AwaitsByte
  <2>2. ~SeesByte(nsent) /\ ~HasByte(nsent + 1)
    BY <1>1 DEF SeesByte, HasByte
  <2> SUFFICES ASSUME Awaiting PROVE Awaiting'
    OBVIOUS
  <2>3. nsent' < Len(Out(req))'
    BY <1>1 DEF Awaiting
  <2>4. CASE AwaitsByte(nsent) /\ Level
    <3>1. nsent = 0
      BY <2>1, <2>4
    <3>2. AwaitsByte(nsent)' /\ ~(nsent > 0)' /\ Level'
      BY <1>1, <2>4, <3>1, CommandStays DEF Level
    <3> QED
      BY <2>3, <3>2 DEF Awaiting
  <2>5. CASE Goes(nsent + 1) /\ ~flag /\ ~Level
    <3>1. Goes(nsent + 1)' /\ ~flag' /\ ~Level'
      BY <1>1, <2>5, CommandStays DEF Level
    <3> QED
      BY <2>3, <3>1 DEF Awaiting
  <2> QED
    BY <2>2, <2>4, <2>5 DEF Awaiting
<1>7. ~Turning /\ ~Offering /\ ~Reading /\ ~Releasing /\ ~Stuck
  BY <1>1 DEF Turning, Offering, Reading, Releasing, Stuck
<1>8. Outcome => Outcome'
  BY <1>1 DEF Outcome, Achieved
<1> HIDE DEF Resting, Pinging, Writing, Awaiting, Turning, Offering, Reading, Releasing,
             Outcome, InStep, Stuck
<1>9. pc' = pc
  BY <1>1
<1> QED
  BY <1>2, <1>3, <1>4, <1>5, <1>6, <1>7, <1>8, <1>9
  DEF Together, Paired, Before, Receiving, After

-----------------------------------------------------------------------------
(* Steps of the server, while the PC is in step with it. *)
Keeping == UNCHANGED client /\ done' = IF Commits THEN done + 1 ELSE done

LEMMA KeepingFacts ==
  ASSUME Together, Keeping
  PROVE  /\ pc \in ClientPC
         /\ UNCHANGED << pc, req, nsent, got, last, initialized, result >>
         /\ spc \notin {"ldLatch", "rdAck", "ack"} => done' = done
         /\ done \in Nat /\ nsent \in Nat /\ req \in Calls
         /\ flag \in BOOLEAN /\ pa2 \in {0, 1} /\ last \in {0, 1}
<1>1. /\ pc \in ClientPC
      /\ done \in Nat /\ nsent \in Nat /\ req \in Calls
      /\ flag \in BOOLEAN /\ pa2 \in {0, 1} /\ last \in {0, 1}
  BY DEF Together, Inv, TypeOK, ClientTypeOK, UserportTypeOK
<1>2. UNCHANGED << pc, req, nsent, got, last, initialized, result >>
  BY DEF Keeping, client
<1>3. spc \notin {"ldLatch", "rdAck", "ack"} => ~Commits
  BY DEF Commits, SrvLoadStore, SrvReadAck, SrvAck
<1> QED
  BY <1>1, <1>2, <1>3 DEF Keeping

(* The byte on the lines while the PC waits is the one it sends. *)
LEMMA OneDriver ==
  ASSUME Together, pc \in {"pingWait", "wait"}, spc \in {"fetch", "rdLatch", "ldLatch"}
  PROVE  /\ BusValues = {pcData}
         /\ pc = "pingWait" => pcData = PingCmd
         /\ pc = "wait" => pcData = Out(req)[nsent + 1]
BY DEF Together, Lines, Drives, Progress, BusValues

(* The command byte: the strobe is seen, ... *)
LEMMA IrqPaired ==
  ASSUME Together, Keeping, SrvIrq
  PROVE  Paired'
<1>1. /\ spc = "main" /\ flag /\ spc' = "fetch" /\ ~flag'
      /\ UNCHANGED << pa2, scmd, hdr, cursor, sidx, isBasic, mem >>
  BY DEF SrvIrq, Listening, TakeFlag
<1>2. pc \in {"pingWait", "wait"}
  BY <1>1, KeepingFacts DEF Together, Paired, Resting, InStep, ServerReady, EndingCommand,
     Writing, Turning, Offering, Reading, Releasing, Stuck, ClientPC, Before, After
<1>3. pc = "pingWait" => Pinging'
  BY <1>1, KeepingFacts DEF Together, Paired, Pinging, WindsUp, Level
<1>4. ASSUME pc = "wait" PROVE Awaiting'
  <2>1. Awaiting /\ ~SeesByte(nsent) /\ ~HasByte(nsent + 1)
    BY <1>1, <1>4 DEF Together, Paired, SeesByte, HasByte
  <2>2. AwaitsByte(nsent) /\ Level /\ nsent < Len(Out(req))
    BY <1>1, <2>1 DEF Awaiting
  <2>3. nsent = 0 /\ done = 0
    BY <1>1, <2>2 DEF AwaitsByte
  <2> QED
    BY <1>1, <2>2, <2>3, KeepingFacts DEF Awaiting, SeesByte, Level, Out
<1> QED
  BY <1>2, <1>3, <1>4, KeepingFacts DEF Paired, Before, Receiving, After

(* ... the byte is fetched ... *)
LEMMA FetchPaired ==
  ASSUME Together, Keeping, SrvFetch
  PROVE  Paired'
<1>1. /\ spc = "fetch" /\ spc' = "ack" /\ scmd' \in BusValues
      /\ UNCHANGED << flag, pa2, hdr, cursor, sidx, isBasic, mem >>
  BY DEF SrvFetch, userport
<1>2. pc \in {"pingWait", "wait"}
  BY <1>1, KeepingFacts DEF Together, Paired, Resting, InStep, ServerReady, EndingCommand,
     Writing, AwaitsByte, Turning, Offering, Reading, Releasing, Stuck, ClientPC, Before, After
<1>3. pc = "pingWait" => Pinging'
  BY <1>1, KeepingFacts, OneDriver DEF Together, Paired, Pinging, WindsUp, Level
<1>4. ASSUME pc = "wait" PROVE Awaiting'
  <2>1. Awaiting /\ ~AwaitsByte(nsent) /\ ~HasByte(nsent + 1) /\ ~Goes(nsent + 1)
    BY <1>1, <1>4 DEF Together, Paired, AwaitsByte, HasByte, Goes, Finished
  <2>2. SeesByte(nsent) /\ ~flag /\ Level /\ nsent < Len(Out(req))
    BY <2>1 DEF Awaiting
  <2>3. nsent = 0 /\ done = 0
    BY <1>1, <2>2 DEF SeesByte
  <2>4. scmd' = req.header[1]
    <3>1. scmd' = Out(req)[1]
      BY <1>1, <1>4, <2>3, OneDriver
    <3>2. Sends(req) /\ req \in Calls
      BY <1>4, KeepingFacts DEF Together, Progress, Sending
    <3>3. Len(req.header) = Size(req.op) /\ Size(req.op) \in 1 .. 7
      BY <3>2, Sizes
    <3>4. 1 \in 1 .. Len(req.header)
      BY <3>3
    <3> QED
      BY <3>1, <3>2, <3>4, BytesOfRequest
  <2>5. HasByte(nsent + 1)'
    BY <1>1, <2>3, <2>4, KeepingFacts DEF HasByte
  <2> QED
    BY <1>1, <2>2, <2>5, KeepingFacts DEF Awaiting, Level, Out
<1> QED
  BY <1>2, <1>3, <1>4, KeepingFacts DEF Paired, Before, Receiving, After

(* ... and acknowledged. *)
LEMMA AckPaired ==
  ASSUME Together, Keeping, SrvAck
  PROVE  Paired'
<1>1. /\ spc = "ack" /\ spc' = Dispatch(scmd) /\ pa2' = 1 - pa2 /\ hdr' = <<>> /\ sidx' = 0
      /\ UNCHANGED << flag, scmd, cursor, isBasic, mem >>
  BY DEF SrvAck, ack
<1>2. pc \in {"pingWait", "wait"}
  BY <1>1, KeepingFacts DEF Together, Paired, Resting, InStep, ServerReady, EndingCommand,
     Writing, AwaitsByte, Turning, Offering, Reading, Releasing, Stuck, ClientPC, Before, After
<1>3. Level => ~Level'
  BY <1>1, KeepingFacts DEF Level
<1>4. ASSUME pc = "pingWait" PROVE Pinging'
  <2>1. scmd = PingCmd /\ ~flag /\ Level /\ done = 0
    BY <1>1, <1>4 DEF Together, Paired, Pinging, WindsUp
  <2>2. spc' = "main"
    BY <1>1, <2>1 DEF Dispatch, HeaderLength
  <2>3. done' = 0
    BY <1>1, <2>1, <2>2 DEF Keeping, Commits, SrvLoadStore
  <2> QED
    BY <1>1, <1>3, <2>1, <2>2, <2>3 DEF Pinging
<1>5. ASSUME pc = "wait" PROVE Awaiting'
  <2>1. Awaiting /\ ~AwaitsByte(nsent) /\ ~SeesByte(nsent) /\ ~Goes(nsent + 1)
    BY <1>1, <1>5 DEF Together, Paired, AwaitsByte, SeesByte, Goes, Finished
  <2>2. HasByte(nsent + 1) /\ ~flag /\ Level /\ nsent < Len(Out(req))
    BY <2>1 DEF Awaiting
  <2>3. nsent = 0 /\ scmd = req.header[1] /\ done = 0
    BY <1>1, <2>2, KeepingFacts DEF HasByte
  <2>4. Sends(req) /\ req \in Calls
    BY <1>5, KeepingFacts DEF Together, Progress, Sending
  <2>5. /\ Len(req.header) = Size(req.op) /\ Size(req.op) \in 1 .. 7
        /\ Len(Out(req)) = IF req.op = "load" THEN 7 + Len(req.writes) ELSE Size(req.op)
        /\ Len(req.writes) \in Nat /\ req.op \in Commanding
    BY <2>4, Sizes, Shapes
  <2>6. Headed(1)'
    BY <1>1, <2>3, KeepingFacts DEF Headed
  <2>7. Goes(1)'
    <3>1. CASE Size(req.op) > 1
      <4>1. spc' = "rdWait"
        BY <1>1, <2>3, <2>4, <3>1, Dispatches
      <4>2. done' = 0
        BY <1>1, <2>3, <4>1 DEF Keeping, Commits, SrvLoadStore
      <4>3. AwaitsByte(1)'
        BY <2>5, <2>6, <3>1, <4>1, <4>2, KeepingFacts DEF AwaitsByte
      <4>4. 1 <= Len(Out(req))'
        BY <2>5, KeepingFacts
      <4> QED
        BY <4>3, <4>4 DEF Goes
    <3>2. CASE Size(req.op) = 1
      <4>1. req.op \in {"run", "identify"}
        BY <2>5, <3>2 DEF Size, Commanding
      <4>2. spc' = IF req.op = "run" THEN "run" ELSE "outWait"
        BY <1>1, <2>3, <2>4, <3>2, Dispatches
      <4>3. done' = IF req.op = "run" THEN 1 ELSE 0
        BY <2>3, <4>1, <4>2 DEF Keeping, Commits, SrvLoadStore, SrvAck
      <4>4. Len(Out(req))' = 1
        BY <2>5, <3>2, <4>1, KeepingFacts
      <4>5. Finished'
        BY <1>1, <2>5, <2>6, <3>2, <4>1, <4>2, <4>3, KeepingFacts
        DEF Finished, Done, Serving, Receives
      <4> QED
        BY <4>4, <4>5 DEF Goes
    <3> QED
      BY <2>5, <3>1, <3>2
  <2>8. nsent' = 0 /\ 0 < Len(Out(req))'
    BY <2>2, <2>3, KeepingFacts
  <2> QED
    BY <1>1, <1>3, <2>2, <2>7, <2>8 DEF Awaiting
<1> QED
  BY <1>2, <1>4, <1>5, KeepingFacts DEF Paired, Before, Receiving, After

(* A byte of the header. *)
LEMMA ReadWaitPaired ==
  ASSUME Together, Keeping, SrvReadWait
  PROVE  Paired'
<1>1. /\ spc = "rdWait" /\ flag /\ spc' = "rdLatch" /\ ~flag'
      /\ UNCHANGED << pa2, scmd, hdr, cursor, sidx, isBasic, mem >>
  BY DEF SrvReadWait, TakeFlag
<1>2. pc = "wait"
  BY <1>1, KeepingFacts DEF Together, Paired, Resting, InStep, ServerReady, EndingCommand,
     Pinging, WindsUp, Writing, Turning, Offering, Reading, Releasing, Stuck, ClientPC,
     Before, After
<1>3. Awaiting /\ ~SeesByte(nsent) /\ ~HasByte(nsent + 1)
  BY <1>1, <1>2 DEF Together, Paired, SeesByte, HasByte
<1>4. AwaitsByte(nsent) /\ Level /\ nsent < Len(Out(req))
  BY <1>1, <1>3 DEF Awaiting
<1>5. nsent \in 1 .. Len(req.header) - 1 /\ Headed(nsent) /\ done = 0
  BY <1>1, <1>4 DEF AwaitsByte
<1>6. SeesByte(nsent)'
  BY <1>1, <1>5, KeepingFacts DEF SeesByte, Headed
<1>7. Awaiting'
  BY <1>1, <1>4, <1>6, KeepingFacts DEF Awaiting, Level, Out
<1> QED
  BY <1>2, <1>7, KeepingFacts DEF Paired, Before, Receiving, After

LEMMA ReadLatchPaired ==
  ASSUME Together, Keeping, SrvReadLatch
  PROVE  Paired'
<1>1. /\ spc = "rdLatch" /\ spc' = "rdAck" /\ \E b \in BusValues : hdr' = Append(hdr, b)
      /\ UNCHANGED << flag, pa2, scmd, cursor, sidx, isBasic, mem >>
  BY DEF SrvReadLatch, userport
<1>2. pc = "wait"
  BY <1>1, KeepingFacts DEF Together, Paired, Resting, InStep, ServerReady, EndingCommand,
     Pinging, WindsUp, Writing, AwaitsByte, Turning, Offering, Reading, Releasing, Stuck,
     ClientPC, Before, After
<1>3. Awaiting /\ ~AwaitsByte(nsent) /\ ~HasByte(nsent + 1) /\ ~Goes(nsent + 1)
  BY <1>1, <1>2 DEF Together, Paired, AwaitsByte, HasByte, Goes, Finished
<1>4. SeesByte(nsent) /\ ~flag /\ Level /\ nsent < Len(Out(req))
  BY <1>3 DEF Awaiting
<1>5. nsent \in 1 .. Len(req.header) - 1 /\ Headed(nsent) /\ done = 0
  BY <1>1, <1>4 DEF SeesByte
<1>6. Sends(req) /\ req \in Calls /\ Len(req.header) \in Nat
  <2>1. Sends(req) /\ req \in Calls
    BY <1>2, KeepingFacts DEF Together, Progress, Sending
  <2> QED
    BY <2>1, Sizes
<1>7. hdr' = Append(hdr, req.header[nsent + 1])
  <2>1. hdr' = Append(hdr, Out(req)[nsent + 1])
    BY <1>1, <1>2, OneDriver
  <2>2. nsent + 1 \in 1 .. Len(req.header)
    BY <1>5, <1>6
  <2> QED
    BY <1>6, <2>1, <2>2, BytesOfRequest
<1>8. Headed(nsent + 1)'
  <2>1. hdr \in Seq(Byte) /\ Len(hdr) = nsent - 1
        /\ \A i \in 1 .. nsent - 1 : hdr[i] = req.header[i + 1]
    BY <1>5 DEF Headed, Together, Inv, TypeOK, ServerTypeOK
  <2>2. Len(hdr') = nsent /\ hdr'[nsent] = req.header[nsent + 1]
        /\ \A i \in 1 .. nsent - 1 : hdr'[i] = hdr[i]
    BY <1>5, <1>7, <2>1
  <2>3. \A i \in 1 .. nsent : hdr'[i] = req.header[i + 1]
    BY <1>5, <2>1, <2>2
  <2>4. nsent' = nsent /\ (nsent + 1) - 1 = nsent /\ req' = req /\ scmd' = req.header[1]
    BY <1>1, <1>5, KeepingFacts DEF Headed
  <2> QED
    BY <2>2, <2>3, <2>4 DEF Headed
<1>9. HasByte(nsent + 1)'
  BY <1>1, <1>5, <1>6, <1>8, KeepingFacts DEF HasByte
<1>10. Awaiting'
  BY <1>1, <1>4, <1>9, KeepingFacts DEF Awaiting, Level, Out
<1> QED
  BY <1>2, <1>10, KeepingFacts DEF Paired, Before, Receiving, After

(* The command begins after the last byte of its header. *)
LEMMA ReadAckGoes ==
  ASSUME Together, Keeping, SrvReadAck, NEW n, HasByte(n), Sends(req)
  PROVE  Goes(n)' /\ n <= Len(Out(req))
<1>1. /\ spc = "rdAck"
      /\ UNCHANGED << scmd, hdr, sidx, mem >>
  BY DEF SrvReadAck
<1>2. n \in 2 .. Len(req.header) /\ Headed(n) /\ done = 0
  BY <1>1 DEF HasByte
<1>3. /\ req \in Calls /\ req.op \in Commanding
      /\ Len(req.header) = Size(req.op) /\ Size(req.op) \in 1 .. 7
      /\ Len(Out(req)) = IF req.op = "load" THEN 7 + Len(req.writes) ELSE Size(req.op)
      /\ Len(req.writes) \in Nat
      /\ req' = req /\ Out(req)' = Out(req)
      /\ (req.op = "load" => Size(req.op) = 7)
  BY KeepingFacts, Sizes, Shapes
<1>4. HeaderLength(scmd) = Size(req.op) - 1 /\ Len(hdr) = n - 1
  BY <1>2, <1>3, Dispatches DEF Headed
<1>5. CASE n < Size(req.op)
  <2>1. spc' = "rdWait" /\ UNCHANGED << cursor, isBasic >>
    BY <1>2, <1>3, <1>4, <1>5 DEF SrvReadAck
  <2>2. done' = 0
    BY <1>1, <1>2, <2>1 DEF Keeping, Commits, SrvLoadStore
  <2>3. n \in 1 .. Len(req.header) - 1 /\ n <= Len(Out(req))
    BY <1>2, <1>3, <1>5
  <2>4. Headed(n)'
    BY <1>1, <1>2, <1>3 DEF Headed
  <2> QED
    BY <1>3, <2>1, <2>2, <2>3, <2>4 DEF Goes, AwaitsByte
<1>6. CASE n = Size(req.op)
  <2>1. /\ spc' = Body(scmd)
        /\ cursor' = IF scmd \in {LoadCmd, SaveCmd, PokeCmd, PeekCmd}
                     THEN TransferStart ELSE cursor
        /\ isBasic' = IF scmd = LoadCmd
                      THEN TransferStart = CellWord(mem, bstart) ELSE isBasic
    BY <1>2, <1>3, <1>4, <1>6 DEF SrvReadAck
  <2>2. /\ spc' = CASE req.op = "load"             -> "ldWait"
                    [] req.op = "poke"             -> "pokeStore"
                    [] req.op = "jump"             -> "jump"
                    [] req.op = "inject"           -> "inject"
                    [] req.op \in {"save", "peek"} -> "outWait"
        /\ req.op \in {"load", "poke", "jump", "inject", "save", "peek"}
    <3>1. Size(req.op) > 1 /\ scmd = req.header[1]
      BY <1>2, <1>3, <1>6 DEF Headed
    <3>2. req.op \in {"load", "poke", "jump", "inject", "save", "peek"}
      BY <1>3, <3>1 DEF Size, Commanding
    <3> QED
      BY <1>3, <2>1, <3>1, <3>2, Dispatches
  <2>3. Headed(n)' /\ Headed(Size(req.op))
    BY <1>1, <1>2, <1>3, <1>6 DEF Headed
  <2>4. /\ scmd = Code(req.op)
        /\ req.op \in {"load", "save", "peek", "poke"} => TransferStart = req.at
        /\ req.at \in Address
    BY <1>3, <2>3, Understands, Fields
  <2>5. req.op \in {"load", "save", "peek"} => cursor' = Wrap(req.at + 0)
    <3>1. req.at + 0 = req.at /\ Wrap(req.at) = req.at
      BY <2>4, Modulus, WrapOfAddress
    <3> QED
      BY <2>1, <2>4, <3>1 DEF Code
  <2>6. n <= Len(Out(req)) /\ (req.op # "load" => n = Len(Out(req)))
    BY <1>3, <1>6
  <2>7. CASE req.op = "load"
    <3>1. spc' = "ldWait" /\ done' = 0
      BY <1>2, <2>2, <2>7 DEF Keeping, Commits, SrvLoadStore
    <3>2. isBasic' <=> TransferStart = CellWord(mem, bstart)
      BY <2>1, <2>4, <2>7, Zenon DEF Code
    <3>3. Known'
      BY <1>1, <1>3, <2>4, <2>7, <3>2 DEF Known
    <3>4. Loading(n)'
      BY <1>3, <1>6, <2>3, <2>7, <3>1 DEF Loading, Size
    <3>5. AwaitsByte(n)'
      BY <1>3, <2>5, <2>7, <3>1, <3>3, <3>4 DEF AwaitsByte
    <3> QED
      BY <1>3, <2>6, <3>5 DEF Goes
  <2>8. CASE req.op \in {"poke", "jump", "inject"}
    <3>1. spc' \in {"pokeStore", "jump", "inject"}
      BY <2>2, <2>8
    <3>2. done' = 1
      BY <1>2, <3>1 DEF Keeping, Commits
    <3>3. Finished'
      BY <1>3, <2>8, <3>1, <3>2 DEF Finished, Done, Receives
    <3> QED
      BY <1>3, <2>6, <2>8, <3>3 DEF Goes
  <2>9. CASE req.op \in {"save", "peek"}
    <3>1. spc' = "outWait" /\ done' = 0
      BY <1>2, <2>2, <2>9 DEF Keeping, Commits, SrvLoadStore
    <3>2. Headed(Len(req.header))'
      BY <1>3, <1>6, <2>3
    <3>3. Serving(0)'
      BY <1>3, <2>5, <2>9, <3>1, <3>2 DEF Serving, Receives
    <3> QED
      BY <1>3, <2>6, <2>9, <3>1, <3>3 DEF Goes, Finished
  <2> QED
    BY <2>2, <2>7, <2>8, <2>9
<1> QED
  BY <1>2, <1>3, <1>5, <1>6

LEMMA ReadAckPaired ==
  ASSUME Together, Keeping, SrvReadAck
  PROVE  Paired'
<1>1. spc = "rdAck" /\ pa2' = 1 - pa2 /\ flag' = flag
  BY DEF SrvReadAck, ack
<1>2. pc = "wait"
  BY <1>1, KeepingFacts DEF Together, Paired, Resting, InStep, ServerReady, EndingCommand,
     Pinging, WindsUp, Writing, AwaitsByte, Turning, Offering, Reading, Releasing, Stuck,
     ClientPC, Before, After
<1>3. Awaiting /\ ~AwaitsByte(nsent) /\ ~SeesByte(nsent) /\ ~Goes(nsent + 1)
  BY <1>1, <1>2 DEF Together, Paired, AwaitsByte, SeesByte, Goes, Finished
<1>4. HasByte(nsent + 1) /\ ~flag /\ Level /\ nsent < Len(Out(req))
  BY <1>3 DEF Awaiting
<1>5. Sends(req)
  BY <1>2 DEF Together, Progress, Sending
<1> DEFINE n == nsent + 1
<1>6. \A m : m = n => Goes(m)'
  BY <1>4, <1>5, ReadAckGoes
<1>7. Goes(nsent + 1)' /\ nsent' < Len(Out(req))'
  BY <1>4, <1>6, KeepingFacts
<1>8. Awaiting'
  BY <1>1, <1>4, <1>7, KeepingFacts DEF Awaiting, Level
<1> QED
  BY <1>2, <1>8, KeepingFacts DEF Paired, Before, Receiving, After

(* A store or a control transfer that was acknowledged is carried out. *)
LEMMA FinishPaired ==
  ASSUME Together, Keeping, SrvPokeStore \/ SrvLeave
  PROVE  Paired'
<1>1. /\ spc \in {"pokeStore", "jump", "inject", "run"} /\ spc' = "main"
      /\ UNCHANGED << flag, pa2, scmd, hdr, cursor, sidx, isBasic >>
  BY DEF SrvPokeStore, SrvLeave, userport
<1>2. done' = done
  BY <1>1, KeepingFacts
<1>3. InStep => InStep'
  BY <1>1, KeepingFacts DEF InStep, ServerReady, EndingReply, EndingCommand
<1>4. Resting => Resting'
  BY <1>2, <1>3 DEF Resting
<1>5. Pinging => Pinging'
  BY <1>1, <1>2, KeepingFacts DEF Pinging, WindsUp, Level
<1>6. Awaiting => Awaiting'
  <2> SUFFICES ASSUME Awaiting PROVE Awaiting'
    OBVIOUS
  <2>1. ~AwaitsByte(nsent) /\ ~SeesByte(nsent) /\ ~HasByte(nsent + 1)
        /\ ~AwaitsByte(nsent + 1)
    BY <1>1 DEF AwaitsByte, SeesByte, HasByte
  <2>2. nsent + 1 = Len(Out(req)) /\ Finished /\ ~flag /\ ~Level /\ nsent < Len(Out(req))
    BY <2>1 DEF Awaiting, Goes
  <2>3. Finished'
    BY <1>1, <1>2, <2>2, KeepingFacts DEF Finished, Done
  <2> QED
    BY <1>1, <2>2, <2>3, KeepingFacts DEF Awaiting, Goes, Level
<1>7. Outcome => Outcome'
  BY <1>2, KeepingFacts DEF Outcome, Achieved
<1>8. ~Writing /\ ~Turning /\ ~Offering /\ ~Reading /\ ~Releasing /\ ~Stuck
  BY <1>1 DEF Writing, AwaitsByte, Turning, Offering, Reading, Releasing, Stuck
<1> HIDE DEF Resting, Pinging, Writing, Awaiting, Turning, Offering, Reading, Releasing,
             Outcome, InStep, Stuck
<1>9. pc' = pc
  BY KeepingFacts
<1> QED
  BY <1>3, <1>4, <1>5, <1>6, <1>7, <1>8, <1>9
  DEF Together, Paired, Before, Receiving, After

(* A byte of a load: its strobe is seen, it is stored, ... *)
LEMMA LoadWaitPaired ==
  ASSUME Together, Keeping, SrvLoadWait
  PROVE  Paired'
<1>1. /\ spc = "ldWait" /\ flag /\ spc' = "ldLatch" /\ ~flag'
      /\ UNCHANGED << pa2, scmd, hdr, cursor, sidx, isBasic, mem >>
  BY DEF SrvLoadWait, TakeFlag
<1>2. pc = "wait"
  BY <1>1, KeepingFacts DEF Together, Paired, Resting, InStep, ServerReady, EndingCommand,
     Pinging, WindsUp, Writing, Turning, Offering, Reading, Releasing, Stuck, ClientPC,
     Before, After
<1>3. Awaiting /\ ~SeesByte(nsent) /\ ~HasByte(nsent + 1)
  BY <1>1, <1>2 DEF Together, Paired, SeesByte, HasByte
<1>4. AwaitsByte(nsent) /\ Level /\ nsent < Len(Out(req))
  BY <1>1, <1>3 DEF Awaiting
<1>5. Loading(nsent) /\ cursor = Wrap(req.at + done) /\ Known
  BY <1>1, <1>4 DEF AwaitsByte
<1>6. done < Len(req.writes)
  <2>1. Sends(req) /\ req \in Calls
    BY <1>2, KeepingFacts DEF Together, Progress, Sending
  <2>2. Len(req.writes) \in Nat /\ Len(Out(req)) = 7 + Len(req.writes)
    BY <1>5, <2>1, Sizes DEF Loading
  <2>3. nsent = 7 + done
    BY <1>5 DEF Loading
  <2> QED
    BY <1>4, <2>2, <2>3, KeepingFacts
<1>7. Loading(nsent)' /\ Known' /\ cursor' = Wrap(req.at + done)'
  BY <1>1, <1>5, KeepingFacts DEF Loading, Known, Headed
<1>8. SeesByte(nsent)'
  BY <1>1, <1>6, <1>7, KeepingFacts DEF SeesByte
<1>9. Awaiting'
  BY <1>1, <1>4, <1>8, KeepingFacts DEF Awaiting, Level, Out
<1> QED
  BY <1>2, <1>9, KeepingFacts DEF Paired, Before, Receiving, After

LEMMA LoadStorePaired ==
  ASSUME Together, Keeping, SrvLoadStore
  PROVE  Paired'
<1>1. /\ spc = "ldLatch" /\ spc' = "ldAck"
      /\ UNCHANGED << flag, pa2, scmd, hdr, cursor, sidx, isBasic >>
  BY DEF SrvLoadStore, userport
<1>2. pc = "wait"
  BY <1>1, KeepingFacts DEF Together, Paired, Resting, InStep, ServerReady, EndingCommand,
     Pinging, WindsUp, Writing, AwaitsByte, Turning, Offering, Reading, Releasing, Stuck,
     ClientPC, Before, After
<1>3. Awaiting /\ ~AwaitsByte(nsent) /\ ~HasByte(nsent + 1) /\ ~Goes(nsent + 1)
  BY <1>1, <1>2 DEF Together, Paired, AwaitsByte, HasByte, Goes, Finished
<1>4. SeesByte(nsent) /\ ~flag /\ Level /\ nsent < Len(Out(req))
  BY <1>3 DEF Awaiting
<1>5. Loading(nsent) /\ cursor = Wrap(req.at + done) /\ done < Len(req.writes)
  BY <1>1, <1>4 DEF SeesByte
<1>6. done' = done + 1
  BY DEF Keeping, Commits
<1>7. Loading(nsent + 1)'
  <2>1. Headed(7)' /\ req'.op = "load"
    BY <1>1, <1>5, KeepingFacts DEF Loading, Headed
  <2>2. Len(req.writes) \in Nat
    BY KeepingFacts, Fields
  <2>3. nsent' + 1 = 7 + done' /\ done' <= Len(req.writes)
    BY <1>5, <1>6, <2>2, KeepingFacts DEF Loading
  <2> QED
    BY <2>1, <2>3, KeepingFacts DEF Loading
<1>8. cursor' = Wrap(req.at + done - 1)' /\ done' > 0
  <2>1. req.at \in Nat
    BY KeepingFacts, Fields, Modulus
  <2>2. req.at + done' - 1 = req.at + done /\ done' > 0
    BY <1>6, <2>1, KeepingFacts
  <2> QED
    BY <1>1, <1>5, <2>2, KeepingFacts
<1>9. HasByte(nsent + 1)'
  BY <1>1, <1>7, <1>8 DEF HasByte
<1>10. Awaiting'
  BY <1>1, <1>4, <1>9, KeepingFacts DEF Awaiting, Level, Out
<1> QED
  BY <1>2, <1>10, KeepingFacts DEF Paired, Before, Receiving, After

(* ... acknowledged, ... *)
LEMMA LoadAckPaired ==
  ASSUME Together, Keeping, SrvLoadAck
  PROVE  Paired'
<1>1. /\ spc = "ldAck" /\ spc' = "ldNext" /\ pa2' = 1 - pa2
      /\ UNCHANGED << flag, scmd, hdr, cursor, sidx, isBasic, mem >>
  BY DEF SrvLoadAck, ack
<1>2. pc = "wait"
  BY <1>1, KeepingFacts DEF Together, Paired, Resting, InStep, ServerReady, EndingCommand,
     Pinging, WindsUp, Writing, AwaitsByte, Turning, Offering, Reading, Releasing, Stuck,
     ClientPC, Before, After
<1>3. Awaiting /\ ~AwaitsByte(nsent) /\ ~SeesByte(nsent) /\ ~Goes(nsent + 1)
  BY <1>1, <1>2 DEF Together, Paired, AwaitsByte, SeesByte, Goes, Finished
<1>4. HasByte(nsent + 1) /\ ~flag /\ Level /\ nsent < Len(Out(req))
  BY <1>3 DEF Awaiting
<1>5. Loading(nsent + 1) /\ done > 0 /\ cursor = Wrap(req.at + done - 1)
  BY <1>1, <1>4 DEF HasByte
<1>6. Loading(nsent + 1)' /\ done' > 0 /\ cursor' = Wrap(req.at + done - 1)'
  BY <1>1, <1>5, KeepingFacts DEF Loading, Headed
<1>7. AwaitsByte(nsent + 1)'
  BY <1>1, <1>6 DEF AwaitsByte
<1>8. nsent + 1 <= Len(Out(req))
  <2>1. Sends(req) /\ req \in Calls
    BY <1>2, KeepingFacts DEF Together, Progress, Sending
  <2>2. Len(req.writes) \in Nat /\ Len(Out(req)) = 7 + Len(req.writes)
    BY <1>5, <2>1, Sizes DEF Loading
  <2> QED
    BY <1>4, <2>2, KeepingFacts
<1>9. Awaiting'
  <2>1. ~Level' /\ ~flag'
    BY <1>1, <1>4, KeepingFacts DEF Level
  <2>2. Goes(nsent + 1)'
    BY <1>7, <1>8, KeepingFacts DEF Goes
  <2> QED
    BY <1>4, <2>1, <2>2, KeepingFacts DEF Awaiting
<1> QED
  BY <1>2, <1>9, KeepingFacts DEF Paired, Before, Receiving, After

(* ... and behind the server: it waits for the next one, or was it the     *)
(* last?                                                                   *)
LEMMA LoadNextGoes ==
  ASSUME Together, Keeping, SrvLoadNext, Sends(req), NEW n, AwaitsByte(n),
         n <= Len(Out(req))
  PROVE  Goes(n)' /\ (n < Len(Out(req)) => AwaitsByte(n)')
<1>1. /\ spc = "ldNext" /\ cursor' = Wrap(cursor + 1)
      /\ spc' = IF cursor' = TransferEnd THEN "main" ELSE "ldWait"
      /\ UNCHANGED << scmd, hdr >>
  BY DEF SrvLoadNext
<1>2. Loading(n) /\ done > 0 /\ cursor = Wrap(req.at + done - 1)
  BY <1>1 DEF AwaitsByte
<1>3. /\ req \in Calls /\ req.at \in Address /\ req.at \in Nat /\ req.op = "load"
      /\ Len(req.writes) \in Nat /\ Len(Out(req)) = 7 + Len(req.writes)
      /\ Len(req.writes) <= AddressSpace /\ Size(req.op) = 7
      /\ done \in Nat /\ done' = done /\ n = 7 + done /\ done <= Len(req.writes)
      /\ req' = req
  <2>1. req \in Calls /\ req.op = "load" /\ n = 7 + done /\ done <= Len(req.writes)
    BY <1>2, KeepingFacts DEF Loading
  <2>2. done \in Nat /\ done' = done /\ req' = req
    BY <1>1, KeepingFacts
  <2>3. /\ Len(req.writes) \in Nat /\ Len(Out(req)) = 7 + Len(req.writes)
        /\ Size(req.op) = 7
    BY <2>1, Sizes
  <2>4. /\ req.at \in Address /\ req.at \in Nat
        /\ Len(req.writes) <= AddressSpace
    BY <2>1, Fields, Shapes, Modulus
  <2> QED
    BY <2>1, <2>2, <2>3, <2>4
<1>4. TransferEnd = Wrap(req.at + Len(req.writes))
  BY <1>2, <1>3, Understands DEF Loading
<1>5. cursor' = Wrap(req.at + done)
  <2>1. req.at + done - 1 \in Nat /\ (req.at + done - 1) + 1 = req.at + done
    BY <1>2, <1>3
  <2> QED
    BY <1>1, <1>2, <2>1, WrapNext
<1>6. cursor' = TransferEnd <=> done = Len(req.writes)
  <2>1. Len(req.writes) \in 1 .. AddressSpace /\ done \in 1 .. Len(req.writes)
    BY <1>2, <1>3, AddressSpaceSize
  <2> QED
    BY <1>3, <1>4, <1>5, <2>1, MeetsEndOnce
<1>7. Loading(n)'
  BY <1>1, <1>2, <1>3 DEF Loading, Headed
<1>8. CASE done = Len(req.writes)
  <2>1. spc' = "main"
    BY <1>1, <1>6, <1>8
  <2>2. Finished'
    BY <1>3, <1>8, <2>1 DEF Finished, Done, Receives
  <2>3. n = Len(Out(req)) /\ ~(n < Len(Out(req)))
    BY <1>3, <1>8
  <2> QED
    BY <1>3, <2>2, <2>3 DEF Goes
<1>9. CASE done # Len(req.writes)
  <2>1. spc' = "ldWait" /\ done < Len(req.writes)
    BY <1>1, <1>3, <1>6, <1>9
  <2>2. Known'
    BY <1>2, <1>3 DEF Known
  <2>3. AwaitsByte(n)'
    BY <1>3, <1>5, <1>7, <2>1, <2>2 DEF AwaitsByte
  <2>4. n <= Len(Out(req))'
    BY <1>3
  <2> QED
    BY <2>3, <2>4 DEF Goes
<1> QED
  BY <1>8, <1>9

LEMMA LoadNextPaired ==
  ASSUME Together, Keeping, SrvLoadNext
  PROVE  Paired'
<1>1. /\ spc = "ldNext" /\ UNCHANGED << flag, pa2 >>
      /\ Wrap(cursor + 1) = TransferEnd => spc' = "main"
  BY DEF SrvLoadNext, userport
<1>2. done' = done
  BY <1>1, KeepingFacts
<1>3. InStep => InStep'
  BY <1>1, KeepingFacts DEF InStep, ServerReady, EndingReply, EndingCommand
<1>4. Resting => Resting'
  BY <1>2, <1>3 DEF Resting
<1>5. Pinging => Pinging'
  BY <1>1, <1>2, KeepingFacts DEF Pinging, WindsUp, Level
<1>6. pc \in Sending => Sends(req)
  BY DEF Together, Progress
<1>7. Writing /\ Sends(req) => Writing'
  <2> SUFFICES ASSUME Writing, Sends(req) PROVE Writing'
    OBVIOUS
  <2>1. \A m : m = nsent => AwaitsByte(m)'
    <3>1. nsent <= Len(Out(req))
      <4>1. req.op # "load" => AwaitsByte(nsent) /\ spc = "ldNext" /\ FALSE
        BY <1>1 DEF Writing, AwaitsByte, Loading
      <4>2. Len(req.writes) \in Nat /\ Len(Out(req)) = 7 + Len(req.writes)
        BY <4>1, KeepingFacts, Sizes
      <4> QED
        BY <4>2, KeepingFacts DEF Writing
    <3> QED
      BY <3>1, LoadNextGoes DEF Writing
  <2> QED
    BY <1>1, <2>1, KeepingFacts DEF Writing, Level
<1>8. Awaiting /\ Sends(req) => Awaiting'
  <2> SUFFICES ASSUME Awaiting, Sends(req) PROVE Awaiting'
    OBVIOUS
  <2>1. ~SeesByte(nsent) /\ ~HasByte(nsent + 1) /\ ~Finished
    BY <1>1 DEF SeesByte, HasByte, Finished
  <2>2. req.op = "load"
    BY <1>1, <2>1 DEF Awaiting, Goes, AwaitsByte, Loading
  <2>3. Len(req.writes) \in Nat /\ Len(Out(req)) = 7 + Len(req.writes)
    BY <2>2, KeepingFacts, Sizes
  <2>4. nsent <= Len(Out(req)) /\ nsent < Len(Out(req)) /\ nsent' < Len(Out(req))'
    BY <2>3, KeepingFacts DEF Awaiting
  <2>5. CASE AwaitsByte(nsent) /\ (nsent > 0 => flag) /\ Level
    <3>1. \A m : m = nsent => AwaitsByte(m)'
      BY <2>4, <2>5, LoadNextGoes
    <3> QED
      BY <1>1, <2>4, <2>5, <3>1, KeepingFacts DEF Awaiting, Level
  <2>6. CASE AwaitsByte(nsent + 1) /\ nsent + 1 <= Len(Out(req)) /\ ~flag /\ ~Level
    <3>1. \A m : m = nsent + 1 => Goes(m)'
      BY <2>6, LoadNextGoes
    <3>2. Goes(nsent + 1)'
      BY <3>1, KeepingFacts
    <3> QED
      BY <1>1, <2>4, <2>6, <3>2, KeepingFacts DEF Awaiting, Level
  <2> QED
    BY <2>1, <2>5, <2>6 DEF Awaiting, Goes
<1>9. Outcome => Outcome'
  BY <1>2, KeepingFacts DEF Outcome, Achieved
<1>10. ~Turning /\ ~Offering /\ ~Reading /\ ~Releasing /\ ~Stuck
  BY <1>1 DEF Turning, Offering, Reading, Releasing, Stuck
<1> HIDE DEF Resting, Pinging, Writing, Awaiting, Turning, Offering, Reading, Releasing,
             Outcome, InStep, Stuck
<1>11. pc' = pc
  BY KeepingFacts
<1> QED
  BY <1>3, <1>4, <1>5, <1>6, <1>7, <1>8, <1>9, <1>10, <1>11
  DEF Together, Paired, Before, Receiving, After, Sending

(* The reply: the lines are driven when the PC has turned its port around, *)
(* a byte is put on them, PA2 says so.  Where a transfer of no bytes left  *)
(* the server, it goes on as if there were one.                            *)
LEMMA OutPaired ==
  ASSUME Together, Keeping, SrvOutWait \/ SrvOutDir \/ SrvPut \/ SrvWriteStrobe
  PROVE  Paired'
<1>1. /\ \/ spc = "outWait" /\ flag /\ spc' = "outDir" /\ ~flag' /\ pa2' = pa2
            /\ ciaData' = ciaData
         \/ spc = "outDir" /\ spc' = "put" /\ flag' = flag /\ pa2' = pa2 /\ ciaData' = ciaData
         \/ /\ spc = "put" /\ spc' = "wrStrobe" /\ flag' = flag /\ pa2' = pa2
            /\ ciaData' = NextByte
         \/ /\ spc = "wrStrobe" /\ spc' = "wrWait" /\ flag' = flag /\ pa2' = 1 - pa2
            /\ ciaData' = ciaData
      /\ UNCHANGED << pcDriving, scmd, hdr, cursor, sidx, isBasic, mem >>
  BY DEF SrvOutWait, SrvOutDir, SrvPut, SrvWriteStrobe, TakeFlag, ack, bus
<1>2. done' = done /\ UNCHANGED << req, got, last, result >> /\ pc' = pc
  BY <1>1, KeepingFacts
<1>3. /\ \A n : Serving(n) => Serving(n)'
      /\ NextByte' = NextByte /\ Total' = Total
  BY <1>1, <1>2 DEF Serving, Headed, NextByte, Total
<1>4. Offering => Offering'
  <2> SUFFICES ASSUME Offering PROVE Offering'
    OBVIOUS
  <2> DEFINE n == Len(got)
  <2>1. n < Total /\ Len(got)' = n
    BY <1>2 DEF Offering
  <2>2. CASE n = 0 /\ spc = "outWait" /\ flag /\ Serving(0) /\ Level
    BY <1>1, <1>2, <1>3, <2>1, <2>2 DEF Offering, Level
  <2>3. CASE n = 0 /\ spc = "outDir" /\ ~flag /\ Serving(0) /\ Level
    <3>1. Serving(n)'
      BY <1>2, <1>3, <2>1, <2>3
    <3> QED
      BY <1>1, <1>2, <1>3, <2>1, <2>3, <3>1 DEF Offering, Level
  <2>4. CASE spc = "put" /\ ~flag /\ Serving(n) /\ Level
    <3>1. Serving(n)'
      BY <1>2, <1>3, <2>1, <2>4
    <3> QED
      BY <1>1, <1>2, <1>3, <2>1, <2>4, <3>1 DEF Offering, Level
  <2>5. CASE spc = "wrStrobe" /\ ~flag /\ Serving(n) /\ Level /\ ciaData = NextByte
    <3>1. Serving(n)'
      BY <1>2, <1>3, <2>1, <2>5
    <3>2. ~Level'
      BY <1>1, <2>5, KeepingFacts DEF Level
    <3> QED
      BY <1>1, <1>2, <1>3, <2>1, <2>5, <3>1, <3>2 DEF Offering
  <2> QED
    BY <1>1, <2>2, <2>3, <2>4, <2>5 DEF Offering
<1>5. Stuck => Stuck'
  BY <1>1, <1>2 DEF Stuck, Empty
<1>6. Outcome => Outcome'
  BY <1>2 DEF Outcome, Achieved
<1>7. Identified => Identified'
  BY <1>2 DEF Identified
<1>8. ~Writing /\ ~Turning /\ ~Reading /\ ~Releasing /\ ~InStep /\ ~Resting /\ ~Pinging
      /\ ~Awaiting
  <2>1. ~AwaitsByte(nsent) /\ ~SeesByte(nsent) /\ ~HasByte(nsent + 1)
        /\ ~AwaitsByte(nsent + 1)
    BY <1>1 DEF AwaitsByte, SeesByte, HasByte
  <2>2. flag => ~Finished \/ spc = "outWait"
    BY <1>1 DEF Finished
  <2>3. ~Awaiting
    BY <1>1, <2>1, <2>2 DEF Awaiting, Goes, Finished
  <2> QED
    BY <1>1, <2>1, <2>3 DEF Writing, Turning, Reading, Releasing, InStep, ServerReady,
       EndingCommand, Resting, Pinging, WindsUp
<1> HIDE DEF Resting, Pinging, Writing, Awaiting, Turning, Offering, Reading, Releasing,
             Outcome, InStep, Stuck, Identified
<1> QED
  BY <1>2, <1>4, <1>5, <1>6, <1>7, <1>8, KeepingFacts
  DEF Together, Paired, Before, Receiving, After, ClientPC

(* The PC has read a byte: the next one is due, or the reply ends. *)
LEMMA WriteWaitPaired ==
  ASSUME Together, Keeping, SrvWriteWait
  PROVE  Paired'
<1>1. /\ spc = "wrWait" /\ flag /\ ~flag' /\ pa2' = pa2
      /\ spc' = IF LastByte THEN "input" ELSE "put"
      /\ cursor' = IF scmd = SaveCmd THEN Wrap(cursor + 1) ELSE cursor
      /\ sidx' = IF scmd = IdentifyCmd THEN sidx + 1 ELSE sidx
      /\ UNCHANGED << scmd, hdr, mem >>
  BY DEF SrvWriteWait, TakeFlag
<1>2. done' = done /\ UNCHANGED << req, got, last, result, initialized >> /\ pc' = pc
  BY <1>1, KeepingFacts
<1>3. InStep => InStep'
  BY <1>1, <1>2 DEF InStep, ServerReady, EndingReply, EndingCommand
<1>4. Resting => Resting'
  BY <1>2, <1>3 DEF Resting
<1>5. Pinging => Pinging'
  BY <1>1, <1>2 DEF Pinging, WindsUp, Level
<1>6. pc \in Receiving => Receives(req)
  BY DEF Together, Progress
<1>7. Offering => Offering'
  <2> SUFFICES ASSUME Offering PROVE Offering'
    OBVIOUS
  <2> DEFINE n == Len(got)
             j == n - 1
  <2>1. n \in Nat /\ n < Total /\ n > 0 /\ Serving(j) /\ Level
    BY <1>1 DEF Offering, Together, Inv, TypeOK, ClientTypeOK
  <2>2. j \in Nat /\ j + 1 = n
    BY <2>1
  <2>3. Total \in Nat /\ req.want \in Nat
    BY KeepingFacts, Fields DEF Total
  <2> HIDE DEF j
  <2>4. j < Total /\ ~(j + 1 = Total)
    <3> HIDE DEF n
    <3> QED
      BY <2>1, <2>2, <2>3
  <2>5. ~LastByte
    BY <2>1, <2>2, <2>4, KeepingFacts, LastReplyByte
  <2>6. Receives(req) /\ Sends(req) /\ Headed(Len(req.header)) /\ done = 0 /\ req \in Calls
    BY <2>1, KeepingFacts DEF Serving, Receives, Sends
  <2>7. scmd = Code(req.op) /\ req.at \in Nat /\ (req.op = "peek" => req.want = 1)
    BY <2>6, Shapes, Understands, Fields, Modulus
  <2>8. req.op # "peek"
    BY <2>1, <2>3, <2>7 DEF Total
  <2>9. CASE req.op = "save"
    <3>1. req.at + j \in Nat /\ (req.at + j) + 1 = req.at + n
      BY <2>2, <2>7
    <3>2. cursor' = Wrap(req.at + n)
      BY <1>1, <2>1, <2>7, <2>9, <3>1, WrapNext DEF Serving, Code
    <3>3. Serving(n)'
      BY <1>1, <1>2, <2>6, <2>9, <3>2 DEF Serving, Receives, Headed
    <3> QED
      BY <1>1, <1>2, <2>1, <2>5, <3>3 DEF Offering, Total, Level
  <2>10. CASE req.op = "identify"
    <3>1. sidx' = n
      BY <1>1, <2>1, <2>2, <2>7, <2>10 DEF Serving, Code
    <3>2. Serving(n)'
      BY <1>1, <1>2, <2>6, <2>10, <3>1 DEF Serving, Receives, Headed
    <3> QED
      BY <1>1, <1>2, <2>1, <2>5, <3>2 DEF Offering, Total, Level
  <2> QED
    BY <2>6, <2>8, <2>9, <2>10 DEF Receives
<1>8. Outcome => Outcome'
  BY <1>2 DEF Outcome, Achieved
<1>9. Identified => Identified'
  BY <1>2 DEF Identified
<1>10. ~Writing /\ ~Turning /\ ~Reading /\ ~Releasing /\ ~Stuck /\ ~Awaiting
  <2>1. ~AwaitsByte(nsent) /\ ~SeesByte(nsent) /\ ~HasByte(nsent + 1)
        /\ ~Goes(nsent + 1)
    BY <1>1 DEF AwaitsByte, SeesByte, HasByte, Goes, Finished
  <2> QED
    BY <1>1, <2>1 DEF Writing, Turning, Reading, Releasing, Stuck, Awaiting
<1> HIDE DEF Resting, Pinging, Writing, Awaiting, Turning, Offering, Reading, Releasing,
             Outcome, InStep, Stuck, Identified
<1> QED
  BY <1>2, <1>3, <1>4, <1>5, <1>7, <1>8, <1>9, <1>10, KeepingFacts
  DEF Together, Paired, Before, Receiving, After, ClientPC

LEMMA InputMacroPaired ==
  ASSUME Together, Keeping, SrvInput
  PROVE  Paired'
<1>1. spc = "input" /\ spc' = "main" /\ UNCHANGED << flag, pa2 >>
  BY DEF SrvInput
<1>2. done' = done /\ UNCHANGED << req, got, last, result, initialized >> /\ pc' = pc
  BY <1>1, KeepingFacts
<1>3. InStep => InStep'
  BY <1>1, <1>2 DEF InStep, ServerReady, EndingReply, EndingCommand
<1>4. Resting => Resting'
  BY <1>2, <1>3 DEF Resting
<1>5. Pinging => Pinging'
  BY <1>1, <1>2 DEF Pinging, WindsUp, Level
<1>6. Outcome => Outcome'
  BY <1>2 DEF Outcome, Achieved
<1>7. /\ ~Writing /\ ~Turning /\ ~Offering /\ ~Reading /\ ~Releasing /\ ~Stuck
      /\ ~Awaiting
  <2>1. ~AwaitsByte(nsent) /\ ~SeesByte(nsent) /\ ~HasByte(nsent + 1)
        /\ ~Goes(nsent + 1)
    BY <1>1 DEF AwaitsByte, SeesByte, HasByte, Goes, Finished
  <2> QED
    BY <1>1, <2>1 DEF Writing, Turning, Offering, Reading, Releasing, Stuck, Awaiting
<1> HIDE DEF Resting, Pinging, Writing, Awaiting, Turning, Offering, Reading, Releasing,
             Outcome, InStep, Stuck
<1> QED
  BY <1>2, <1>3, <1>4, <1>5, <1>6, <1>7, KeepingFacts
  DEF Together, Paired, Before, Receiving, After, ClientPC

(* No reset is under way. *)
LEMMA NotBooting ==
  ASSUME Together
  PROVE  spc # "boot"
<1>1. pc \in ClientPC
  BY DEF Together, Inv, TypeOK, ClientTypeOK
<1> SUFFICES ASSUME spc = "boot" PROVE FALSE
  OBVIOUS
<1>2. ~AwaitsByte(nsent) /\ ~SeesByte(nsent) /\ ~HasByte(nsent + 1) /\ ~Goes(nsent + 1)
  BY DEF AwaitsByte, SeesByte, HasByte, Goes, Finished
<1> QED
  BY <1>1, <1>2 DEF Together, Paired, Resting, InStep, ServerReady, EndingCommand, Pinging,
     WindsUp, Writing, Awaiting, Turning, Offering, Reading, Releasing, Stuck, ClientPC,
     Before, After

-----------------------------------------------------------------------------
(* Every step. *)
LEMMA ClientPaired ==
  ASSUME Together, ClientStep, UNCHANGED << server, done >>
  PROVE  Paired'
<1>1. CASE Open
  BY <1>1, OpenPaired DEF Open
<1>2. CASE Input
  BY <1>2, InputPaired DEF Input
<1> QED
  BY <1>1, <1>2, PreparingPaired, PingStrobePaired, PingAnsweredPaired, WritingPaired,
     StrobePaired, SentPaired, TurnPaired, OfferedPaired, ReadPaired, ReceivedPaired,
     ClosePaired
  DEF ClientStep

LEMMA ServerPaired ==
  ASSUME Together, Keeping, ServerStep
  PROVE  Paired'
<1>1. ~SrvBoot
  BY NotBooting DEF SrvBoot
<1> QED
  BY <1>1, IrqPaired, FetchPaired, AckPaired, ReadWaitPaired, ReadLatchPaired,
     ReadAckPaired, FinishPaired, LoadWaitPaired, LoadStorePaired, LoadAckPaired,
     LoadNextPaired, OutPaired, WriteWaitPaired, InputMacroPaired
  DEF ServerStep

LEMMA Frame ==
  ASSUME Paired, UNCHANGED << server, client, userport, done >>
  PROVE  Paired'
<1>1. UNCHANGED << pc, req, nsent, got, last, initialized, result, flag, pa2, pcDriving,
                   ciaData, spc, cursor, scmd, done >>
  BY DEF client, userport, server
<1>2. InStep' <=> InStep
  BY <1>1, ReadyStays
<1>3. (Resting' <=> Resting) /\ (Pinging' <=> Pinging)
  BY <1>1, <1>2, ServerStays DEF Resting, Pinging, WindsUp, Level
<1>4. (Writing' <=> Writing) /\ (Turning' <=> Turning)
  BY <1>1, ServerStays DEF Writing, Turning, Level, Out
<1>5. Awaiting' <=> Awaiting
  BY <1>1, ServerStays DEF Awaiting, Level, Out
<1>6. Offering' <=> Offering
  BY <1>1, ServerStays DEF Offering, Level
<1>7. (Reading' <=> Reading) /\ (Releasing' <=> Releasing)
  BY <1>1, ServerStays DEF Reading, Releasing, Level
<1>8. (Identified' <=> Identified) /\ (Outcome' <=> Outcome) /\ (Stuck' <=> Stuck)
  BY <1>1 DEF Identified, Outcome, Achieved, Stuck, Empty
<1> HIDE DEF Resting, Pinging, Writing, Awaiting, Turning, Offering, Reading, Releasing,
             Identified, Outcome, InStep, Stuck
<1> QED
  BY <1>1, <1>2, <1>3, <1>4, <1>5, <1>6, <1>7, <1>8 DEF Paired

LEMMA StepEnds ==
  ASSUME Inv, Lines, Progress, [Next]_vars
  PROVE  Lines' /\ Progress'
<1>1. CASE NewCall
  BY <1>1 DEF NewCall, Call, Lines, Drives, Progress, Before, Sending, Receiving, After, userport,
              server
<1>2. CASE ClientProceeds
  BY <1>2, ClientAlone DEF ClientProceeds
<1>3. CASE ResetPulse
  BY <1>3 DEF ResetPulse, ResetMachine, Lines, Drives, Progress, Before, Sending, Receiving, After
<1>4. CASE GiveUp \/ LateAnswer
  BY <1>4 DEF GiveUp, LateAnswer, Timeout, Waiting, Lines, Drives, Progress, Before, Sending,
              Receiving, After, userport, server
<1>5. CASE NextProcess
  BY <1>5 DEF NextProcess, NewProcess, Lines, Drives, Progress, Before, Sending, Receiving, After,
              userport, server
<1>6. CASE ServerProceeds
  BY <1>6, ServerAlone DEF ServerProceeds
<1>7. CASE UserInstalls
  BY <1>7 DEF UserInstalls, Install, Lines, Drives, Progress, client
<1>8. CASE ForegroundRuns
  BY <1>8 DEF ForegroundRuns, Foreground, Lines, Drives, Progress, client, userport
<1>9. CASE Killed
  BY <1>9 DEF Killed, Lines, Drives, Progress, Before, Sending, Receiving, After, userport, server
<1>10. CASE PowerCycle
  BY <1>10 DEF PowerCycle, ResetMachine, Lines, Drives, Progress, client
<1>11. CASE UNCHANGED vars
  BY <1>11 DEF vars, Lines, Drives, Progress, client, userport, server
<1> QED
  BY <1>1, <1>2, <1>3, <1>4, <1>5, <1>6, <1>7, <1>8, <1>9, <1>10, <1>11 DEF Next, Fault

LEMMA StepPaired ==
  ASSUME IndInv, [Next]_vars, clean'
  PROVE  Paired'
<1>1. CASE NewCall
  BY <1>1, NewCallPaired
<1>2. CASE ~NewCall
  <2>1. CASE UNCHANGED vars
    <3>1. Paired /\ UNCHANGED << server, client, userport, done >>
      BY <2>1 DEF IndInv, vars
    <3> QED
      BY <3>1, Frame
  <2>2. CASE GiveUp
    <3>1. clean /\ ~flag
      BY <2>2, Zenon DEF GiveUp
    <3> QED
      BY <2>2, <3>1, GiveUpPaired DEF GiveUp, Together, IndInv
  <2>3. CASE ~GiveUp /\ ~UNCHANGED vars
    <3>1. /\ ~ResetPulse /\ ~Fault
          /\ ClientProceeds \/ NextProcess \/ ServerProceeds \/ UserInstalls \/ ForegroundRuns
      BY <1>2, <2>3 DEF Next, ResetPulse, Fault, LateAnswer, Killed, PowerCycle
    <3>2. clean
      BY <3>1 DEF ClientProceeds, NextProcess, ServerProceeds, UserInstalls, ForegroundRuns
    <3>3. Together
      BY <3>2 DEF Together, IndInv
    <3> QED
      BY <3>1, <3>3, ClientPaired, NextProcessPaired, ServerPaired, EnvironmentPaired
      DEF ClientProceeds, ServerProceeds, Keeping
  <2> QED
    BY <2>1, <2>2, <2>3
<1> QED
  BY <1>1, <1>2

LEMMA StepIndInv == IndInv /\ [Next]_vars => IndInv'
BY StepInv, StepEnds, StepPaired DEF IndInv

LEMMA Invariance == Spec => []IndInv
BY InitIndInv, StepIndInv, PTL DEF Spec

(* The two ends drive the lines at the same time only at the end of a      *)
(* reply, and a strobe that meets another is the ping after it.            *)
LEMMA BothDrive ==
  ASSUME Together, pcDriving, ciaDriving
  PROVE  EndingReply
<1>1. Paired /\ spc \in {"put", "wrStrobe", "wrWait", "input"} /\ pc \in ClientPC
  BY DEF Together, Lines, Drives, Inv, TypeOK, ClientTypeOK
<1>2. InStep => EndingReply
  BY <1>1 DEF InStep, ServerReady, EndingCommand, EndingReply
<1>3. Pinging => EndingReply
  BY <1>1 DEF Pinging, WindsUp, EndingReply
<1>4. ~Writing /\ ~Awaiting /\ ~Turning /\ ~Stuck
  <2>1. ~AwaitsByte(nsent) /\ ~SeesByte(nsent) /\ ~HasByte(nsent + 1) /\ ~Goes(nsent + 1)
    BY <1>1 DEF AwaitsByte, SeesByte, HasByte, Goes, Finished
  <2> QED
    BY <1>1, <2>1 DEF Writing, Awaiting, Turning, Stuck
<1>5. pc \notin {"turn", "rwait", "rread", "rstrobe"}
  BY DEF Together, Lines
<1> HIDE DEF InStep, Pinging, Writing, Awaiting, Turning, Stuck
<1> QED
  BY <1>1, <1>2, <1>3, <1>4, <1>5 DEF Paired, Resting, ClientPC, Before, Receiving, After

LEMMA StrobesMeet ==
  ASSUME Together, pc \in {"strobe", "turn", "rstrobe", "pingStrobe"}, flag
  PROVE  pc = "pingStrobe" /\ spc = "wrWait" /\ LastByte
<1>1. Paired /\ ~Writing /\ ~Turning /\ ~Releasing
  BY DEF Together, Writing, Turning, Releasing
<1>2. pc = "pingStrobe" /\ InStep
  BY <1>1 DEF Paired, Before, Resting
<1> QED
  BY <1>2 DEF InStep, ServerReady, EndingReply, EndingCommand

(* For all requests, all memories and all that the environment may do: as  *)
(* long as the current call began in step and nothing has happened to it,  *)
(* both ends drive the data lines at the same time only where the PC turns *)
(* its port around for a ping and the server ends its last reply.          *)
THEOREM DrivenFromOneEnd == Spec => []BusDiscipline
<1>1. IndInv => BusDiscipline
  BY BothDrive DEF IndInv, Together, BusDiscipline
<1> QED
  BY <1>1, Invariance, PTL

(* As long as the current call began in step, no strobe of the PC merges   *)
(* with one that the server has not seen, so that no byte of a command and *)
(* none of a transfer is lost, but for the ping after a reply.             *)
THEOREM StrobesAreSeen == Spec => NoStrobeLost
<1>1. IndInv => (clean /\ (Strobe \/ Turn \/ Received \/ PingStrobe) /\ flag
                  => PingStrobe /\ spc = "wrWait" /\ LastByte)
  BY StrobesMeet DEF IndInv, Together, Strobe, Turn, Received, PingStrobe
<1> QED
  BY <1>1, Invariance, PTL DEF NoStrobeLost

-----------------------------------------------------------------------------
(* Nothing gets in the way: no fault, no reset, no transfer of no bytes,   *)
(* no call that takes the server away.                                     *)
Undisturbed ==
  /\ Environment = {}
  /\ \A r \in Calls : r.op # "reset" /\ ~Empty(r)
  /\ ServerType = "ram" => \A r \in Calls : r.op # "run"

(* What keeps the server listening, ... *)
Attending ==
  /\ vector = Handler /\ ~masked
  /\ ServerType = "ram" => spc # "run"

(* ... and the ends in step. *)
Standing == clean /\ Attending /\ pc # "init"

LEMMA StepAttending ==
  ASSUME Together, Keeping, ServerStep, Attending, "mask" \notin Environment,
         ServerType = "ram" => req.op # "run"
  PROVE  Attending'
<1>1. CASE SrvAck
  <2>1. ServerType = "ram" => spc' # "run"
    <3> SUFFICES ASSUME ServerType = "ram", spc' = "run" PROVE FALSE
      OBVIOUS
    <3>1. spc = "ack" /\ Dispatch(scmd) = "run" /\ scmd \in Byte
      BY <1>1 DEF SrvAck, Together, Inv, TypeOK, ServerTypeOK
    <3>2. scmd = RunCmd
      BY <3>1, DispatchFacts
    <3>3. pc \in {"pingWait", "wait"}
      BY <3>1 DEF Together, Paired, Resting, InStep, ServerReady, EndingCommand, Writing,
         AwaitsByte, Turning, Offering, Reading, Releasing, Stuck, ClientPC, Before, After,
         Inv, TypeOK, ClientTypeOK
    <3>4. pc # "pingWait"
      BY <3>1, <3>2 DEF Together, Paired, Pinging, WindsUp
    <3>5. Awaiting /\ Sends(req) /\ req \in Calls
      BY <3>3, <3>4 DEF Together, Paired, Progress, Sending, Inv, TypeOK, ClientTypeOK
    <3>6. scmd = req.header[1]
      BY <3>1, <3>5 DEF Awaiting, AwaitsByte, SeesByte, HasByte, Goes, Finished
    <3>7. req.op = "run"
      BY <3>2, <3>5, <3>6, Shapes DEF Code, Commanding
    <3> QED
      BY <3>7
  <2> QED
    BY <1>1, <2>1 DEF SrvAck, Attending, Handler
<1>2. CASE SrvReadAck
  <2>1. spc' # "run"
    BY <1>2, BodyFacts DEF SrvReadAck, Together, Inv, TypeOK, ServerTypeOK, ServerInv
  <2> QED
    BY <1>2, <2>1 DEF SrvReadAck, Attending, Handler
<1>3. CASE SrvLeave
  BY <1>3, ServerAssumption DEF SrvLeave, Attending, ServerAssumption, Handler
<1>4. CASE SrvIrq \/ SrvFetch \/ SrvReadWait \/ SrvReadLatch \/ SrvPokeStore
  BY <1>4 DEF SrvIrq, SrvFetch, SrvReadWait, SrvReadLatch, SrvPokeStore, Attending, Handler
<1>5. CASE SrvLoadWait \/ SrvLoadStore \/ SrvLoadAck \/ SrvLoadNext
  BY <1>5 DEF SrvLoadWait, SrvLoadStore, SrvLoadAck, SrvLoadNext, Attending, Handler
<1>6. CASE SrvOutWait \/ SrvOutDir \/ SrvPut \/ SrvWriteStrobe \/ SrvWriteWait \/ SrvInput
  BY <1>6 DEF SrvOutWait, SrvOutDir, SrvPut, SrvWriteStrobe, SrvWriteWait, SrvInput,
     Attending, Handler
<1>7. ~SrvBoot
  BY NotBooting DEF SrvBoot
<1> QED
  BY <1>1, <1>2, <1>3, <1>4, <1>5, <1>6, <1>7 DEF ServerStep

LEMMA StepStanding ==
  ASSUME Undisturbed, IndInv, Standing, [Next]_vars
  PROVE  Standing'
<1>1. Together /\ Paired
  BY DEF Together, IndInv, Standing
<1>2. /\ req \in Calls /\ ~Stuck /\ req.op # "reset"
      /\ ~LateAnswer /\ ~Killed /\ ~PowerCycle /\ ~ForegroundRuns /\ ~ResetPulse
  BY <1>1 DEF Undisturbed, Together, Inv, TypeOK, ClientTypeOK, Stuck, LateAnswer, Killed,
     PowerCycle, ForegroundRuns, Foreground, ResetPulse, Standing
<1>3. UNCHANGED server => Attending'
  BY DEF Standing, Attending, Handler, server
<1>4. CASE NewCall
  <2>1. InStep
    BY <1>1, <1>2, <1>4 DEF Paired, After, NewCall, Call
  <2>2. clean'
    BY <1>4, <2>1, Zenon DEF NewCall
  <2> QED
    BY <1>3, <1>4, <2>2 DEF NewCall, Call, Standing
<1>5. CASE ClientProceeds
  <2>1. pc' # "init"
    BY <1>2, <1>5 DEF ClientProceeds, ClientStep, Open, OpenFails, PingOutput, PingWrite,
       PingStrobe, PingAnswered, Output, Write, Strobe, Sent, Input, Turn, Offered, Read,
       Received, CloseInput, Close
  <2> QED
    BY <1>3, <1>5, <2>1 DEF ClientProceeds, Standing
<1>6. CASE GiveUp
  <2>1. ~flag
    BY <1>1, <1>6, NotBooting DEF GiveUp, ServerBlocked, Listening, Standing, Attending
  <2>2. clean'
    BY <1>6, <2>1, Zenon DEF GiveUp, Standing
  <2> QED
    BY <1>3, <1>6, <2>2 DEF GiveUp, Timeout, Standing
<1>7. CASE NextProcess
  BY <1>3, <1>7 DEF NextProcess, NewProcess, Standing
<1>8. CASE ServerProceeds
  <2>1. clean' = clean /\ pc' = pc /\ Keeping /\ ServerStep
    BY <1>8 DEF ServerProceeds, client, Keeping
  <2>2. "mask" \notin Environment /\ (ServerType = "ram" => req.op # "run")
    BY <1>2 DEF Undisturbed
  <2> QED
    BY <1>1, <2>1, <2>2, StepAttending DEF Standing
<1>9. CASE UserInstalls
  BY <1>9 DEF UserInstalls, Install, Standing, Attending, Handler, client
<1>10. CASE UNCHANGED vars
  BY <1>3, <1>10 DEF vars, client, Standing
<1> QED
  BY <1>2, <1>4, <1>5, <1>6, <1>7, <1>8, <1>9, <1>10 DEF Next, Fault

(* A strobe that begins a command is pending until the server sees it.     *)
FirstPending == pc = "wait" /\ nsent = 0 /\ spc = "main" /\ Level => flag

LEMMA StaysPending ==
  ASSUME Together, Keeping, ServerStep, FirstPending
  PROVE  FirstPending'
<1> SUFFICES ASSUME pc' = "wait", nsent' = 0, spc' = "main", Level' PROVE flag'
  BY DEF FirstPending
<1>1. pc = "wait" /\ nsent = 0 /\ last' = last /\ last \in {0, 1} /\ pa2 \in {0, 1}
  BY KeepingFacts
<1>2. Awaiting
  BY <1>1 DEF Together, Paired
<1>4. CASE SrvAck
  <2>1. spc = "ack" /\ pa2' = 1 - pa2
    BY <1>4 DEF SrvAck, ack
  <2>2. Level
    BY <1>2, <2>1 DEF Awaiting, Goes, AwaitsByte, Finished
  <2> QED
    BY <1>1, <2>1, <2>2 DEF Level
<1>5. CASE SrvPokeStore \/ SrvLeave \/ SrvLoadNext
  <2>1. spc \in {"pokeStore", "jump", "inject", "run", "ldNext"} /\ pa2' = pa2
    BY <1>5 DEF SrvPokeStore, SrvLeave, SrvLoadNext, userport
  <2>2. ~AwaitsByte(0)
    BY <2>1 DEF AwaitsByte, Loading, Together, Inv, TypeOK
  <2>3. ~Level
    BY <1>1, <1>2, <2>1, <2>2 DEF Awaiting, SeesByte, HasByte
  <2> QED
    BY <1>1, <2>1, <2>3 DEF Level
<1>6. CASE SrvInput
  BY <1>2, <1>6 DEF SrvInput, Awaiting, AwaitsByte, SeesByte, HasByte, Goes, Finished
<1>7. ~SrvBoot
  BY NotBooting DEF SrvBoot
<1>8. CASE SrvReadAck
  <2>1. scmd \in Byte /\ HeaderLength(scmd) > 0
    BY <1>8 DEF SrvReadAck, Together, Inv, ServerInv, TypeOK, ServerTypeOK
  <2> QED
    BY <1>8, <2>1, BodyFacts DEF SrvReadAck
<1> QED
  BY <1>4, <1>5, <1>6, <1>7, <1>8
  DEF ServerStep, SrvIrq, SrvFetch, SrvReadWait, SrvReadLatch, SrvLoadWait, SrvLoadStore,
      SrvLoadAck, SrvOutWait, SrvOutDir, SrvPut, SrvWriteStrobe, SrvWriteWait

(* Without faults and with a server that is there, the ends never get out  *)
(* of step, for any sequence of calls: also a call that fails because the  *)
(* port is taken, or that gives up, leaves the server where the next call  *)
(* needs it.                                                               *)
THEOREM StaysInStep ==
  ASSUME Undisturbed
  PROVE  Spec => []NeverOutOfStep
<1>1. Init => Standing
  BY DEF Init, ServerInit, ClientInit, Standing, Attending, Handler
<1>2. IndInv /\ Standing /\ [Next]_vars => Standing'
  BY StepStanding
<1>3. IndInv /\ Standing => NeverOutOfStep
  <2> SUFFICES ASSUME IndInv, Standing PROVE clean /\ (pc = "idle" => InStep)
    BY DEF NeverOutOfStep
  <2>1. Paired /\ ~Stuck
    BY DEF IndInv, Standing, Undisturbed, Inv, TypeOK, ClientTypeOK, Stuck
  <2> QED
    BY <2>1 DEF Standing, Paired, After
<1> QED
  BY <1>1, <1>2, <1>3, Invariance, PTL DEF Spec

-----------------------------------------------------------------------------
(* Both specifications mean the same by a byte, an address and a request. *)
LEMMA OneProtocol ==
  /\ Remote!NoCall = NoCall
  /\ \A a : Remote!Wrap(a) = Wrap(a)
  /\ \A m, a : Remote!Cell(m, a) = Cell(m, a)
  /\ \A m, a, v : Remote!Put(m, a, v) = Put(m, a, v)
  /\ \A m, a : Remote!CellWord(m, a) = CellWord(m, a)
  /\ \A m, a, w : Remote!PutWord(m, a, w) = PutWord(m, a, w)
<1>1. Remote!NoCall = NoCall
  BY DEF NoCall, Remote!NoCall, Request, Remote!Request
<1>2. Remote!AddressSpace = AddressSpace
  BY DEF AddressSpace, Remote!AddressSpace
<1>3. \A a : Remote!Wrap(a) = Wrap(a)
  BY <1>2 DEF Wrap, Remote!Wrap
<1>4. \A m, a : Remote!Cell(m, a) = Cell(m, a)
  BY DEF Cell, Remote!Cell
<1>5. \A m, a, v : Remote!Put(m, a, v) = Put(m, a, v)
  BY DEF Put, Remote!Put
<1>6. \A l, h : Remote!Word(l, h) = Word(l, h)
  BY DEF Word, Remote!Word
<1>7. \A m, a : Remote!CellWord(m, a) = CellWord(m, a)
  BY <1>3, <1>4, <1>6 DEF CellWord, Remote!CellWord
<1>8. \A w : Remote!lo(w) = lo(w) /\ Remote!hi(w) = hi(w)
  BY DEF lo, hi, Remote!lo, Remote!hi
<1>9. \A m, a, w : Remote!PutWord(m, a, w) = PutWord(m, a, w)
  BY <1>3, <1>5, <1>8 DEF PutWord, Remote!PutWord
<1> QED
  BY <1>1, <1>3, <1>4, <1>5, <1>7, <1>9

LEMMA InitRemote == Init => Remote!Init
BY OneProtocol
DEF Init, UserportInit, ClientInit, ServerInit, Remote!Init, Store, RelinkDue, Entry

(* What a caller sees does not change in a step that changes none of it. *)
LEMMA Unseen ==
  ASSUME Store' = Store, Entry' = Entry, UNCHANGED << pc, req, done, got, result, clean >>,
         done > 0 => isBasic' = isBasic
  PROVE  UNCHANGED Remote!vars
BY DEF Remote!vars, LoadsBasic

LEMMA StoreStays ==
  ASSUME UNCHANGED server
  PROVE  Store' = Store /\ Entry' = Entry /\ isBasic' = isBasic
BY DEF server, Store, RelinkDue, TransferEnd, Entry

LEMMA Requests ==
  ASSUME NEW r \in Calls
  PROVE  r # NoCall
<1>1. r.op # "none"
  BY CallsAssumption DEF CallsAssumption, RequestType
<1>2. NoCall.op = "none"
  BY DEF NoCall, Request
<1> QED
  BY <1>1, <1>2

-----------------------------------------------------------------------------
(* Steps of the PC. *)

(* A call begins, ... *)
LEMMA BeginStep ==
  ASSUME IndInv, NewCall
  PROVE  Remote!Begin /\ pc = "idle"
<1>1. /\ pc = "idle" /\ pc' = "open" /\ req' \in Calls /\ result' = FALSE /\ done' = 0
      /\ got' = got /\ got = <<>> /\ UNCHANGED server
  BY DEF NewCall, Call, IndInv, Progress
<1>2. Store' = Store /\ Entry' = Entry
  BY <1>1, StoreStays
<1>3. LoadsBasic(req, done)' <=> (req'.op = "load" /\ req'.at = CellWord(Store, 43))
  BY <1>1, <1>2 DEF LoadsBasic, bstart
<1> QED
  BY <1>1, <1>2, <1>3, OneProtocol DEF Remote!Begin

(* ... and ends: with success when all of it is done, with failure when    *)
(* nothing is.                                                             *)
LEMMA ReturnStep ==
  ASSUME IndInv, clean, OpenFails \/ Close, UNCHANGED << server, done >>
  PROVE  \E ok \in BOOLEAN : Remote!Return(ok)
<1>1. /\ pc \in {"open", "close"} /\ pc' = "idle" /\ got' = <<>> /\ result' = result
      /\ Outcome /\ result \in BOOLEAN /\ req \in Calls
  <2>1. CASE OpenFails
    BY <2>1 DEF OpenFails, IndInv, Paired, Progress, Before, After, Resting, Outcome, Inv,
                TypeOK, ClientTypeOK
  <2>2. CASE Close
    BY <2>2 DEF Close, IndInv, Paired, Inv, TypeOK, ClientTypeOK
  <2> QED
    BY <2>1, <2>2
<1>2. Store' = Store /\ Entry' = Entry
  BY StoreStays
<1>3. req # NoCall
  BY <1>1, Requests
<1>4. result => Remote!Complete
  <2>1. Len(Info(Store)) = 15
    BY DEF Info
  <2> QED
    BY <1>1, <2>1 DEF Remote!Complete, Outcome, Achieved
<1>5. ~result => done = 0 /\ got = <<>>
  BY <1>1 DEF Outcome
<1>6. Remote!Return(result)
  BY <1>1, <1>2, <1>3, <1>4, <1>5, OneProtocol DEF Remote!Return
<1> QED
  BY <1>1, <1>6

(* A byte that is read is the next one of what was asked for. *)
LEMMA ReadStep ==
  ASSUME IndInv, clean, Read, UNCHANGED << server, done >>
  PROVE  Remote!ReadCell \/ Remote!ReadIdentification
<1>1. /\ pc = "rread" /\ pc' = "rstrobe" /\ UNCHANGED << req, done >>
      /\ Together /\ Reading /\ Receives(req) /\ spc = "wrWait"
  BY DEF Read, IndInv, Paired, Progress, Receiving, Together, Reading
<1>2. got' = Append(got, NextByte)
  BY <1>1, ReadPaired
<1>3. Store = mem /\ Store' = Store /\ Entry' = Entry /\ isBasic' = isBasic
  BY <1>1, StoreStays DEF Store, RelinkDue
<1>4. (pc # "idle" /\ LoadsBasic(req, done)) <=> FALSE
  BY <1>1 DEF LoadsBasic, Receives
<1>5. (pc # "idle" /\ LoadsBasic(req, done))' <=> FALSE
  BY <1>1 DEF LoadsBasic, Receives
<1>6. Len(got) < Total
  BY <1>1 DEF Reading
<1>7. CASE req.op = "identify"
  <2>1. NextByte = Info(Store)[Len(got) + 1] /\ Len(Info(Store)) = 15
    BY <1>1, <1>3, <1>7, ReplyByte DEF Receiving, Info
  <2>2. Remote!ReadIdentification
    BY <1>1, <1>2, <1>3, <1>4, <1>5, <1>6, <1>7, <2>1, OneProtocol
    DEF Remote!ReadIdentification, Total
  <2> QED
    BY <2>2
<1>8. CASE req.op \in {"save", "peek"}
  <2>1. NextByte = Cell(Store, Wrap(req.at + Len(got)))
    BY <1>1, <1>3, <1>8, ReplyByte DEF Receiving
  <2>2. Remote!ReadCell
    BY <1>1, <1>2, <1>3, <1>4, <1>5, <1>6, <1>8, <2>1, OneProtocol
    DEF Remote!ReadCell, Total
  <2> QED
    BY <2>2
<1> QED
  BY <1>1, <1>7, <1>8 DEF Receives

(* Nothing else that the PC does is seen by the caller. *)
LEMMA ClientHides ==
  ASSUME IndInv, ClientStep, ~OpenFails, ~Close, ~Read, UNCHANGED << server, done, clean >>
  PROVE  UNCHANGED Remote!vars
<1>1. pc # "idle" /\ pc' # "idle" /\ UNCHANGED << req, got >>
  BY DEF ClientStep, Open, PingOutput, PingWrite, PingStrobe, PingAnswered, Output, Write,
         Strobe, Sent, Input, Turn, Offered, Received, CloseInput
<1>2. Store' = Store /\ Entry' = Entry /\ isBasic' = isBasic
  BY StoreStays
<1>3. LoadsBasic(req, done)' <=> LoadsBasic(req, done)
  BY <1>1, <1>2 DEF LoadsBasic
<1> QED
  BY <1>1, <1>2, <1>3 DEF Remote!vars

-----------------------------------------------------------------------------
(* Steps of the server.  A store that is due counts as done, so that to    *)
(* carry it out is not seen; neither is what does not concern memory.      *)
LEMMA StoreHides ==
  ASSUME SrvPokeStore \/ SrvLeave \/ SrvLoadWait \/ SrvLoadAck \/ SrvLoadNext
  PROVE  Store' = Store /\ Entry' = Entry /\ isBasic' = isBasic
<1>1. CASE SrvPokeStore
  BY <1>1 DEF SrvPokeStore, Store, RelinkDue, Entry
<1>2. CASE SrvLeave
  BY <1>2 DEF SrvLeave, Store, RelinkDue, Entry
<1>3. CASE SrvLoadWait
  BY <1>3 DEF SrvLoadWait, Store, RelinkDue, Entry
<1>4. CASE SrvLoadAck
  BY <1>4 DEF SrvLoadAck, Store, RelinkDue, Entry, TransferEnd
<1>5. CASE SrvLoadNext
  BY <1>5 DEF SrvLoadNext, Store, RelinkDue, Entry, TransferEnd
<1> QED
  BY <1>1, <1>2, <1>3, <1>4, <1>5

LEMMA MemoryHides ==
  ASSUME Inv,
         \/ SrvIrq \/ SrvFetch \/ SrvReadWait \/ SrvReadLatch
         \/ SrvOutWait \/ SrvOutDir \/ SrvPut \/ SrvWriteStrobe \/ SrvWriteWait
         \/ SrvInput
         \/ (SrvAck \/ SrvReadAck) /\ ~Commits
  PROVE  Store' = Store /\ Entry' = Entry /\ (isBasic' = isBasic \/ SrvReadAck)
<1>1. CASE SrvIrq \/ SrvFetch \/ SrvReadWait \/ SrvReadLatch
  BY <1>1 DEF SrvIrq, Listening, SrvFetch, SrvReadWait, SrvReadLatch, Store, RelinkDue, Entry
<1>2. CASE SrvOutWait \/ SrvOutDir \/ SrvPut \/ SrvWriteStrobe
  BY <1>2 DEF SrvOutWait, SrvOutDir, SrvPut, SrvWriteStrobe, Store, RelinkDue, Entry
<1>3. CASE SrvWriteWait \/ SrvInput
  BY <1>3 DEF SrvWriteWait, SrvInput, Store, RelinkDue, Entry
<1>4. CASE SrvAck /\ ~Commits
  <2>1. spc = "ack" /\ spc' \notin {"pokeStore", "jump", "inject", "run", "ldAck", "ldNext"}
        /\ UNCHANGED << mem, entry, isBasic >>
    BY <1>4 DEF SrvAck, Commits, Dispatch
  <2> QED
    BY <2>1 DEF Store, RelinkDue, Entry
<1>5. CASE SrvReadAck /\ ~Commits
  <2>1. spc = "rdAck" /\ spc' \notin {"pokeStore", "jump", "inject", "run"}
        /\ UNCHANGED << mem, entry >>
    BY <1>5 DEF SrvReadAck, Commits
  <2>2. spc' \notin {"ldAck", "ldNext"}
    <3>1. scmd \in Byte /\ HeaderLength(scmd) > 0
      BY <2>1 DEF Inv, TypeOK, ServerTypeOK, ServerInv
    <3> QED
      BY <1>5, <3>1, BodyFacts DEF SrvReadAck
  <2> QED
    BY <1>5, <2>1, <2>2 DEF Store, RelinkDue, Entry
<1> QED
  BY <1>1, <1>2, <1>3, <1>4, <1>5

(* While a header or the bytes of a load arrive, it is the request's. *)
LEMMA Arriving ==
  ASSUME Together, spc \in {"ack", "rdAck", "ldLatch"}
  PROVE  /\ pc \in {"pingWait", "wait"} /\ (spc # "ack" => pc = "wait")
         /\ pc = "pingWait" => scmd = PingCmd
         /\ pc = "wait" =>
              /\ spc = "ldLatch" => SeesByte(nsent)
              /\ spc # "ldLatch" => HasByte(nsent + 1)
              /\ req \in Calls /\ Sends(req)
<1>1. pc \in ClientPC /\ req \in Calls
  BY DEF Together, Inv, TypeOK, ClientTypeOK
<1>2. pc \in {"pingWait", "wait"} /\ (spc # "ack" => pc = "wait")
  BY <1>1 DEF Together, Paired, Resting, InStep, ServerReady, EndingCommand, Pinging, WindsUp,
     Writing, AwaitsByte, Turning, Offering, Reading, Releasing, Stuck, ClientPC, Before, After
<1>3. pc = "pingWait" => scmd = PingCmd
  BY <1>2 DEF Together, Paired, Pinging, WindsUp
<1>4. ASSUME pc = "wait"
      PROVE  /\ spc = "ldLatch" => SeesByte(nsent)
             /\ spc # "ldLatch" => HasByte(nsent + 1)
             /\ Sends(req)
  BY <1>4 DEF Together, Paired, Progress, Sending, Awaiting, AwaitsByte, Goes, Finished,
              SeesByte, HasByte
<1> QED
  BY <1>1, <1>2, <1>3, <1>4

LEMMA ServerHides ==
  ASSUME IndInv, clean, clean' = clean, Keeping, ServerStep, ~Commits
  PROVE  UNCHANGED Remote!vars
<1>1. Together /\ Inv
  BY DEF Together, IndInv
<1>2. ~SrvBoot /\ ~SrvLoadStore
  BY <1>1, NotBooting DEF SrvBoot, Commits
<1>3. Store' = Store /\ Entry' = Entry /\ (isBasic' = isBasic \/ SrvReadAck)
  BY <1>1, <1>2, StoreHides, MemoryHides DEF ServerStep
<1>4. done' = done /\ UNCHANGED << pc, req, got, result >>
  BY <1>1, KeepingFacts DEF Keeping
<1>5. SrvReadAck => done = 0
  <2> SUFFICES ASSUME SrvReadAck PROVE done = 0
    OBVIOUS
  <2>1. spc = "rdAck"
    BY DEF SrvReadAck
  <2>2. HasByte(nsent + 1)
    BY <1>1, <2>1, Arriving
  <2> QED
    BY <2>1, <2>2 DEF HasByte
<1>6. LoadsBasic(req, done)' <=> LoadsBasic(req, done)
  BY <1>3, <1>4, <1>5 DEF LoadsBasic
<1> QED
  BY <1>3, <1>4, <1>6 DEF Remote!vars

(* The command byte of a run is acknowledged: it will be done. *)
LEMMA RunStep ==
  ASSUME IndInv, clean, Keeping, SrvAck, Commits
  PROVE  Remote!HandControl
<1>1. /\ spc = "ack" /\ hdr' = <<>>
      /\ spc' \in {"pokeStore", "jump", "inject", "run"} /\ spc' = Dispatch(scmd)
      /\ UNCHANGED << scmd, mem, entry >>
  BY DEF SrvAck, Commits, SrvLoadStore, SrvReadAck
<1>2. Together /\ scmd \in Byte
  BY DEF Together, IndInv, Inv, TypeOK, ServerTypeOK
<1>3. spc' = "run" /\ scmd = RunCmd
  BY <1>1, <1>2, DispatchFacts
<1>4. /\ HasByte(nsent + 1) /\ pc = "wait" /\ req \in Calls /\ Sends(req)
  <2>1. scmd # PingCmd
    BY <1>3
  <2>2. pc = "wait"
    BY <1>1, <1>2, <2>1, Arriving, Zenon
  <2> QED
    BY <1>1, <1>2, <2>2, Arriving
<1>5. scmd = req.header[1] /\ done = 0
  BY <1>1, <1>4 DEF HasByte
<1>6. req.op = "run" /\ req.at = 0
  <2>1. req.op \in Commanding /\ req.header[1] = Code(req.op)
    BY <1>4, Shapes
  <2>2. req.op = "run"
    BY <1>3, <1>5, <2>1 DEF Code, Commanding
  <2> QED
    BY <1>4, <2>2, Shapes
<1>7. done' = 1 /\ UNCHANGED << pc, req, got, result >>
  BY <1>2, <1>5, KeepingFacts DEF Keeping
<1>8. Store' = Store
  BY <1>1, <1>3 DEF Store, RelinkDue
<1>9. Entry' = [kind |-> "run", at |-> 0]
  <2>1. scmd' = RunCmd
    BY <1>1, <1>3
  <2>2. Target(scmd, hdr)' = [kind |-> "run", at |-> 0]
    BY <2>1 DEF Target
  <2> QED
    BY <1>3, <2>2 DEF Entry
<1>10. ~LoadsBasic(req, done) /\ ~LoadsBasic(req, done)'
  BY <1>6, <1>7 DEF LoadsBasic
<1> QED
  BY <1>4, <1>5, <1>6, <1>7, <1>8, <1>9, <1>10 DEF Remote!HandControl

(* The last header byte of a poke, a jump or an inject. *)
LEMMA HeaderStep ==
  ASSUME IndInv, clean, Keeping, SrvReadAck, Commits
  PROVE  Remote!HandControl \/ Remote!WriteCell
<1>1. /\ spc = "rdAck"
      /\ spc' \in {"pokeStore", "jump", "inject", "run"}
      /\ UNCHANGED << scmd, hdr, mem, entry >>
  BY DEF SrvAck, Commits, SrvLoadStore, SrvReadAck
<1>2. Together /\ scmd \in Byte /\ HeaderLength(scmd) > 0
  BY <1>1 DEF Together, IndInv, Inv, TypeOK, ServerTypeOK, ServerInv
<1>3. /\ HasByte(nsent + 1) /\ pc = "wait" /\ req \in Calls /\ Sends(req) /\ nsent \in Nat
  BY <1>1, <1>2, Arriving, KeepingFacts
<1>4. nsent + 1 \in 2 .. Len(req.header) /\ Headed(nsent + 1) /\ done = 0
  BY <1>1, <1>3 DEF HasByte
<1>5. Len(hdr) >= HeaderLength(scmd) /\ spc' = Body(scmd)
      /\ cursor' = IF scmd \in {LoadCmd, SaveCmd, PokeCmd, PeekCmd}
                   THEN TransferStart ELSE cursor
  BY <1>1 DEF SrvReadAck
<1>6. Headed(Size(req.op)) /\ scmd = Code(req.op) /\ req.op \in Commanding
  <2>1. Len(req.header) = Size(req.op) /\ Size(req.op) \in 1 .. 7
        /\ HeaderLength(scmd) = Size(req.op) - 1 /\ Len(hdr) = nsent /\ req.op \in Commanding
    BY <1>3, <1>4, Sizes, Shapes, Dispatches DEF Headed
  <2>2. nsent + 1 = Size(req.op)
    BY <1>3, <1>4, <1>5, <2>1
  <2>3. Headed(Size(req.op))
    BY <1>4, <2>2
  <2> QED
    BY <1>3, <2>1, <2>3, Understands
<1>7. \/ spc' = "pokeStore" /\ req.op = "poke"
      \/ spc' = "jump" /\ req.op = "jump"
      \/ spc' = "inject" /\ req.op = "inject"
  <2>1. \/ spc' = "pokeStore" /\ scmd = PokeCmd
        \/ spc' = "jump" /\ scmd = JumpCmd
        \/ spc' = "inject" /\ scmd = InjectCmd
    BY <1>1, <1>2, <1>5, BodyFacts
  <2>2. /\ scmd = PokeCmd => req.op = "poke"
        /\ scmd = JumpCmd => req.op = "jump"
        /\ scmd = InjectCmd => req.op = "inject"
    BY <1>6 DEF Code, Commanding
  <2> QED
    BY <2>1, <2>2
<1>8. done' = 1 /\ UNCHANGED << pc, req, got, result >>
  BY <1>2, <1>4, KeepingFacts DEF Keeping
<1>9. Store = mem /\ Entry = entry
  BY <1>1 DEF Store, RelinkDue, Entry
<1>10. CASE req.op = "poke"
  <2>1. Store' = Put(mem, req.at, req.writes[1])
    <3>1. cursor' = req.at /\ hdr'[5] = req.writes[1]
      BY <1>1, <1>3, <1>5, <1>6, <1>10, Understands DEF Code
    <3>2. spc' = "pokeStore" /\ mem' = mem
      BY <1>1, <1>7, <1>10
    <3>3. Store' = Put(mem', cursor', hdr'[5])
      BY <3>2 DEF Store, RelinkDue
    <3> QED
      BY <3>1, <3>2, <3>3
  <2>2. Entry' = Entry
    BY <1>1, <1>7, <1>9, <1>10 DEF Entry
  <2>3. Len(req.writes) = 1 /\ Wrap(req.at + 0) = req.at
    <3>1. req.at + 0 = req.at /\ req.at \in Address
      BY <1>3, Fields, Modulus
    <3> QED
      BY <1>3, <1>10, <3>1, Shapes, WrapOfAddress
  <2>4. ~LoadsBasic(req, done) /\ ~LoadsBasic(req, done)'
    BY <1>8, <1>10 DEF LoadsBasic
  <2>5. Remote!WriteCell
    BY <1>3, <1>4, <1>8, <1>9, <2>1, <2>2, <2>3, <2>4, OneProtocol DEF Remote!WriteCell
  <2> QED
    BY <2>5
<1>11. CASE req.op \in {"jump", "inject"}
  <2>1. Entry' = [kind |-> req.op, at |-> req.at]
    <3>1. Target(scmd, hdr) = [kind |-> req.op, at |-> req.at]
      BY <1>3, <1>6, <1>11, Understands
    <3> QED
      BY <1>1, <1>7, <1>11, <3>1 DEF Entry
  <2>2. Store' = Store
    BY <1>1, <1>7, <1>9, <1>11 DEF Store, RelinkDue
  <2>3. ~LoadsBasic(req, done) /\ ~LoadsBasic(req, done)'
    BY <1>8, <1>11 DEF LoadsBasic
  <2>4. Remote!HandControl
    BY <1>3, <1>4, <1>8, <1>11, <2>1, <2>2, <2>3 DEF Remote!HandControl
  <2> QED
    BY <2>4
<1> QED
  BY <1>1, <1>7, <1>10, <1>11

(* A byte of a load is stored: the server knows the next byte, where it    *)
(* belongs, whether it is the last and whether BASIC programs start where  *)
(* the first one went.                                                     *)
LEMMA LoadStep ==
  ASSUME IndInv, clean, Keeping, SrvLoadStore
  PROVE  Remote!WriteCell
<1>1. /\ spc = "ldLatch" /\ spc' = "ldAck"
      /\ UNCHANGED << scmd, hdr, cursor, isBasic, entry >>
      /\ Together
  BY DEF SrvLoadStore, Together, IndInv
<1>2. /\ pc = "wait" /\ req \in Calls /\ Sends(req) /\ SeesByte(nsent)
      /\ nsent \in Nat /\ done \in Nat
  BY <1>1, Arriving, KeepingFacts
<1>3. /\ Loading(nsent) /\ cursor = Wrap(req.at + done) /\ Known
      /\ done < Len(req.writes)
  BY <1>1, <1>2 DEF SeesByte
<1>4. /\ req.op = "load" /\ nsent = 7 + done /\ Len(req.header) = 7
      /\ req.data = req.writes /\ Len(req.writes) \in Nat
      /\ Len(req.writes) <= AddressSpace /\ req.at \in Nat /\ req.at \in Address
  <2>1. req.op = "load" /\ nsent = 7 + done
    BY <1>3 DEF Loading
  <2>2. req.at \in Nat /\ req.at \in Address
    BY <1>2, Fields, Modulus
  <2>3. Size(req.op) = 7
    BY <2>1 DEF Size
  <2>4. /\ Len(req.header) = 7 /\ Len(req.writes) \in Nat
        /\ req.data = req.writes /\ Len(req.writes) <= AddressSpace
    BY <1>2, <2>1, <2>3, Shapes, Sizes
  <2> QED
    BY <2>1, <2>2, <2>4
<1>5. done' = done + 1 /\ UNCHANGED << pc, req, got, result >>
  BY <1>1, KeepingFacts DEF Keeping, Commits
<1>6. mem' = Put(mem, cursor, req.writes[done'])
  <2>1. BusValues = {Out(req)[nsent + 1]}
    BY <1>1, <1>2, OneDriver
  <2>2. done + 1 \in 1 .. Len(req.data)
    BY <1>2, <1>3, <1>4
  <2>3. Out(req)[Len(req.header) + (done + 1)] = req.data[done + 1]
    BY <1>2, <2>2, BytesOfRequest
  <2>4. Len(req.header) + (done + 1) = nsent + 1
    BY <1>2, <1>4
  <2>5. Out(req)[nsent + 1] = req.writes[done']
    BY <1>4, <1>5, <2>3, <2>4
  <2> QED
    BY <2>1, <2>5 DEF SrvLoadStore
<1>7. Wrap(cursor' + 1) = TransferEnd' <=> done' = Len(req.writes)
  <2>1. TransferEnd = Wrap(req.at + Len(req.writes)) /\ TransferEnd' = TransferEnd
    <3>1. Headed(Size(req.op))
      BY <1>3, <1>4 DEF Loading, Size
    <3> QED
      BY <1>1, <1>2, <1>4, <3>1, Understands DEF TransferEnd
  <2>2. Wrap(cursor' + 1) = Wrap(req.at + done')
    <3>1. req.at + done \in Nat /\ (req.at + done) + 1 = req.at + done'
      BY <1>2, <1>4, <1>5
    <3> QED
      BY <1>1, <1>3, <3>1, WrapNext
  <2>3. Len(req.writes) \in 1 .. AddressSpace /\ done' \in 1 .. Len(req.writes)
    <3>1. AddressSpace \in Nat
      BY Modulus
    <3> QED
      BY <1>2, <1>3, <1>4, <1>5, <3>1
  <2>4. Wrap(req.at + done') = Wrap(req.at + Len(req.writes)) <=> done' = Len(req.writes)
    BY <1>4, <2>3, MeetsEndOnce
  <2> QED
    BY <2>1, <2>2, <2>4
<1>8. Store = mem /\ Entry' = Entry
  BY <1>1 DEF Store, RelinkDue, Entry
<1>9. LoadsBasic(req, done) <=> isBasic
  <2>1. isBasic \in BOOLEAN
    BY <1>1 DEF Together, Inv, TypeOK, ServerTypeOK
  <2>2. CASE done = 0
    BY <1>3, <1>4, <1>8, <2>1, <2>2 DEF LoadsBasic, Known
  <2>3. CASE done > 0
    BY <1>4, <2>3 DEF LoadsBasic
  <2> QED
    BY <1>2, <2>2, <2>3
<1>10. LoadsBasic(req, done)' <=> isBasic
  BY <1>1, <1>2, <1>4, <1>5 DEF LoadsBasic
<1>11. Store' = IF isBasic /\ done' = Len(req.writes)
                THEN PutWord(mem', bend, Wrap(req.at + done')) ELSE mem'
  <2>1. RelinkDue' <=> (isBasic /\ done' = Len(req.writes))
    BY <1>1, <1>7 DEF RelinkDue
  <2>2. RelinkDue' => TransferEnd' = Wrap(req.at + done')
    <3>1. Headed(Size(req.op))
      BY <1>3, <1>4 DEF Loading, Size
    <3>2. TransferEnd = Wrap(req.at + Len(req.writes)) /\ TransferEnd' = TransferEnd
      BY <1>1, <1>2, <1>4, <3>1, Understands DEF TransferEnd
    <3> QED
      BY <2>1, <3>2
  <2>3. Store' = IF RelinkDue' THEN PutWord(mem', bend, TransferEnd') ELSE mem'
    BY <1>1 DEF Store
  <2> QED
    BY <2>1, <2>2, <2>3
<1>12. /\ (pc # "idle" /\ LoadsBasic(req, done)) <=> isBasic
       /\ (pc # "idle" /\ LoadsBasic(req, done))' <=> isBasic
  BY <1>2, <1>5, <1>9, <1>10
<1> QED
  BY <1>2, <1>3, <1>5, <1>6, <1>8, <1>11, <1>12, OneProtocol DEF Remote!WriteCell, bend

-----------------------------------------------------------------------------
(* Every step: of the PC, ... *)
LEMMA ClientImplements ==
  ASSUME IndInv, clean, ClientProceeds
  PROVE  [Remote!Proceed]_(Remote!vars)
<1>1. ClientStep /\ UNCHANGED << server, done, clean >>
  BY DEF ClientProceeds
<1>2. CASE OpenFails \/ Close
  <2>1. \E ok \in BOOLEAN : Remote!Return(ok)
    BY <1>1, <1>2, ReturnStep
  <2> QED
    BY <2>1 DEF Remote!Proceed
<1>3. CASE Read
  BY <1>1, <1>3, ReadStep DEF Remote!Proceed
<1>4. CASE ~OpenFails /\ ~Close /\ ~Read
  BY <1>1, <1>4, ClientHides
<1> QED
  BY <1>2, <1>3, <1>4

(* ... of the server, ... *)
LEMMA ServerImplements ==
  ASSUME IndInv, clean, clean' = clean, Keeping, ServerStep
  PROVE  [Remote!Proceed]_(Remote!vars)
<1>1. CASE ~Commits
  BY <1>1, ServerHides
<1>2. CASE Commits
  <2>1. CASE SrvLoadStore
    BY <2>1, LoadStep DEF Remote!Proceed
  <2>2. CASE SrvReadAck
    BY <1>2, <2>2, HeaderStep DEF Remote!Proceed
  <2>3. CASE SrvAck
    BY <1>2, <2>3, RunStep DEF Remote!Proceed
  <2> QED
    BY <1>2, <2>1, <2>2, <2>3 DEF Commits
<1> QED
  BY <1>1, <1>2

(* ... and of all that happens around them. *)
LEMMA AroundHides ==
  ASSUME UNCHANGED << req, done, got, result, clean >>,
         pc # "idle" => pc' # "idle", pc = "idle" => pc' = "idle",
         \/ UNCHANGED server
         \/ Install
         \/ Foreground
  PROVE  UNCHANGED Remote!vars
<1>1. Store' = Store /\ Entry' = Entry /\ isBasic' = isBasic
  <2>1. CASE UNCHANGED server
    BY <2>1, StoreStays
  <2>2. CASE Install
    BY <2>2 DEF Install, Store, RelinkDue, Entry
  <2>3. CASE Foreground
    BY <2>3 DEF Foreground, Store, RelinkDue, Entry
  <2> QED
    BY <2>1, <2>2, <2>3
<1>2. LoadsBasic(req, done)' <=> LoadsBasic(req, done)
  BY <1>1 DEF LoadsBasic
<1> QED
  BY <1>1, <1>2 DEF Remote!vars

LEMMA StepImplements ==
  ASSUME IndInv, [Next]_vars
  PROVE  [Remote!Next]_(Remote!vars)
<1>1. CASE ~clean'
  BY <1>1 DEF Remote!Next
<1>2. CASE NewCall /\ clean'
  <2>1. Remote!Begin /\ pc = "idle"
    BY <1>2, BeginStep
  <2>2. CASE clean
    BY <1>2, <2>1, <2>2, OneProtocol DEF Remote!Next, Remote!Proceed
  <2>3. CASE ~clean
    BY <1>2, <2>1, <2>3 DEF Remote!Next
  <2> QED
    BY <2>2, <2>3
<1>3. CASE ~NewCall /\ clean'
  <2>1. \/ ClientProceeds \/ GiveUp \/ NextProcess \/ ServerProceeds
        \/ UserInstalls \/ ForegroundRuns \/ UNCHANGED vars
    BY <1>3 DEF Next, ResetPulse, Fault, LateAnswer, Killed, PowerCycle
  <2>2. clean
    <3>1. GiveUp => clean
      BY <1>3, Zenon DEF GiveUp
    <3> QED
      BY <1>3, <2>1, <3>1
      DEF ClientProceeds, NextProcess, ServerProceeds, UserInstalls, ForegroundRuns, vars
  <2>3. [Remote!Proceed]_(Remote!vars) => [Remote!Next]_(Remote!vars)
    BY <1>3, <2>2 DEF Remote!Next
  <2>4. CASE ClientProceeds
    BY <2>2, <2>3, <2>4, ClientImplements
  <2>5. CASE ServerProceeds
    <3>1. clean' = clean /\ Keeping /\ ServerStep
      BY <2>5 DEF ServerProceeds, Keeping
    <3> QED
      BY <2>2, <2>3, <3>1, ServerImplements
  <2>6. CASE GiveUp \/ NextProcess \/ UserInstalls \/ ForegroundRuns \/ UNCHANGED vars
    <3>1. UNCHANGED << req, done, got, result, clean >>
      <4>1. CASE GiveUp
        BY <1>3, <2>2, <4>1 DEF GiveUp, Timeout
      <4>2. CASE NextProcess
        BY <4>2 DEF NextProcess, NewProcess
      <4>3. CASE UserInstalls \/ ForegroundRuns \/ UNCHANGED vars
        BY <4>3 DEF UserInstalls, ForegroundRuns, vars, client
      <4> QED
        BY <2>6, <4>1, <4>2, <4>3
    <3>2. (pc # "idle" => pc' # "idle") /\ (pc = "idle" => pc' = "idle")
      BY <2>6 DEF GiveUp, Timeout, Waiting, NextProcess, NewProcess, UserInstalls,
         ForegroundRuns, vars, client
    <3>3. UNCHANGED server \/ Install \/ Foreground
      BY <2>6 DEF GiveUp, NextProcess, UserInstalls, ForegroundRuns, vars
    <3>4. UNCHANGED Remote!vars
      BY <3>1, <3>2, <3>3, AroundHides
    <3> QED
      BY <3>4
  <2> QED
    BY <2>1, <2>4, <2>5, <2>6
<1> QED
  BY <1>1, <1>2, <1>3

(* For all requests, memories, servers and environments: as long as a call *)
(* began in step and nothing has happened to it, PC and C64 together carry *)
(* out what RemoteMemory promises, and any other step is a fault or a call *)
(* that is not promised anything.                                          *)
THEOREM Implementation == Spec => Implements
<1>1. Init => Remote!Init
  BY InitRemote
<1>2. IndInv /\ [Next]_vars => [Remote!Next]_(Remote!vars)
  BY StepImplements
<1> QED
  BY <1>1, <1>2, Invariance, PTL DEF Spec, Implements, Remote!Spec
=============================================================================
