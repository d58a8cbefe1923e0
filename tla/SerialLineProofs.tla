-------------------------- MODULE SerialLineProofs --------------------------
(***************************************************************************)
(* The variables of SerialXLink keep their kinds, for every size of a      *)
(* write, all requests, memories, servers and faults.  The servant64 board *)
(* and the serial driver are seen as the driver of the parallel port,      *)
(* although the driver runs ahead of the board: what it has written and    *)
(* the board has not taken is on the line, and where the parallel port     *)
(* would be is where the board is.                                         *)
(***************************************************************************)
EXTENDS SerialXLink, Integers, SequenceTheorems, TLAPS

-----------------------------------------------------------------------------
(* The commands of the driver, in the order of a ping, ... *)
OutputFrame == Frame(CMD_OUTPUT, 0, 0)
StrobeFrame == Frame(CMD_STROBE, 0, 0)
AskFrame    == Frame(CMD_ACKED, 0, 0)
PingFrame   == Frame(CMD_WRITE, PingCmd, 0)
ResetFrame  == Frame(CMD_RESET, 0, 0)

FromStrobe == StrobeFrame \o AskFrame
FromWrite  == PingFrame \o FromStrobe
FromOutput == OutputFrame \o FromWrite

(* ... of a send and of a receive. *)
SendFrame    == Frame(CMD_SEND, Len(Sending), ServantTimeout)
ReceiveFrame == Frame(CMD_RECEIVE, Wanted, ServantTimeout)

FromSend   == SendFrame \o Sending
FromTurn   == StrobeFrame \o ReceiveFrame
FromInput  == InputFrame \o FromTurn

PingPlaces    == {"pingOutput", "pingWrite", "pingStrobe", "ask", "answer", "again"}
SendPlaces    == {"output", "send", "data", "sendReport"}
ReceivePlaces == {"input", "turn", "receive", "read", "receiveReport"}

(* What the driver will write before it reads the next answer, ... *)
Due ==
  CASE pc = "pingOutput"        -> FromOutput
    [] pc = "pingWrite"         -> FromWrite
    [] pc = "pingStrobe"        -> FromStrobe
    [] pc \in {"ask", "again"}  -> AskFrame
    [] pc = "output"            -> OutputFrame \o FromSend
    [] pc = "send"              -> FromSend
    [] pc = "data"              -> SubSeq(Sending, moved + 1, Len(Sending))
    [] pc = "input"             -> FromInput
    [] pc = "turn"              -> FromTurn
    [] pc = "receive"           -> ReceiveFrame
    [] OTHER                    -> <<>>

(* ... and what the board has yet to take until then: a write of the       *)
(* driver makes no difference to it.                                       *)
Ahead == rx \o Due
Left  == Len(Ahead)

-----------------------------------------------------------------------------
(* The call as the driver of the parallel port would see it. *)
Whole == Len(Out(req))
Base  == IF part = 2 THEN Len(req.header) ELSE 0
Begun == fpc # "frame" \/ Left = 0
SentNow == Base + IF Begun THEN count ELSE 0

(* Bytes of a reply that are on their way to the PC. *)
Data == IF fpc = "frame" /\ Len(tx) >= 4 THEN SubSeq(tx, 1, Len(tx) - 4) ELSE tx
Total == IF req.op = "identify" THEN 15 ELSE req.want

Got == IF pc \in ReceivePlaces THEN got \o Data ELSE got

(* The ping has been answered, and the PC will read so. *)
Found == pc = "answer" /\ tx = << Yes >>

AllSent == pc \in SendPlaces /\ SentNow = Whole
AllGot  == pc \in ReceivePlaces /\ Left <= 9 /\ fpc = "frame" /\ Len(Got) = Total

WhilePinging ==
  IF Found THEN IF req.op = "ping" THEN "closeInput" ELSE "out"
  ELSE CASE Left > 36 -> "open"
         [] Left = 36 -> "pingOut"
         [] Left = 27 -> "pingWrite"
         [] Left = 18 -> "pingStrobe"
         [] OTHER     -> "pingWait"

WhileSending ==
  IF AllSent THEN IF Receives(req) THEN "input" ELSE "closeInput"
  ELSE CASE fpc = "sendStrobe" -> "strobe"
         [] fpc = "sendWait"   -> "wait"
         [] fpc = "frame" /\ Left > 9 + Len(Sending) -> "out"
         [] fpc = "frame" /\ Left = 0 /\ count # size -> "closeInput"
         [] OTHER              -> "write"

WhileReceiving ==
  IF AllGot THEN "closeInput"
  ELSE CASE fpc = "recvRead"   -> "rread"
         [] fpc = "recvStrobe" -> "rstrobe"
         [] fpc = "frame" /\ Left = 27 -> "input"
         [] fpc = "frame" /\ Left = 18 -> "turn"
         [] OTHER              -> "rwait"

At ==
  CASE pc \in PingPlaces    -> WhilePinging
    [] pc \in SendPlaces    -> WhileSending
    [] pc \in ReceivePlaces -> WhileReceiving
    [] pc = "reset"         -> "open"
    [] pc = "close"         -> "closeInput"
    [] OTHER                -> pc

Sent ==
  CASE pc \in SendPlaces    -> SentNow
    [] pc \in ReceivePlaces -> Whole
    [] OTHER                -> 0

Result ==
  CASE Found /\ req.op = "ping"     -> TRUE
    [] AllSent /\ ~Receives(req)    -> (req.op = "load" => req.data # <<>>)
    [] AllGot /\ req.want # 0       -> (req.op = "identify" => ~Unidentified(Got))
    [] OTHER                        -> result

Port == INSTANCE XLinkProofs WITH
  pc <- At, nsent <- Sent, got <- Got, initialized <- TRUE, result <- Result

-----------------------------------------------------------------------------
(* What holds of the board and of the driver by themselves, faults or not. *)
BoardInv == fpc # "frame" => count < size

Preparing == {"idle", "open", "reset", "output", "input", "turn"} \cup PingPlaces

(* The bytes of the reply before the part that is being received. *)
Prior == CASE part = 1 -> 0 [] part = 2 -> 1 [] part = 3 -> 1 + (got[1] % 16)

CallInv ==
  /\ pc \in Preparing => part = 1 /\ got = <<>>
  /\ pc \notin {"idle", "close"} => ~result
  /\ pc = "reset" => req.op = "reset"
  /\ pc \in PingPlaces => req.op # "reset"
  /\ pc \in SendPlaces =>
       /\ req.op \notin {"ping", "reset"}
       /\ got = <<>>
       /\ part <= Parts(req)
  /\ pc = "data" => moved <= Len(Sending)
  /\ pc \in ReceivePlaces => Receives(req)
  /\ pc \in {"receive", "read", "receiveReport"} =>
       /\ part <= Replies(req)
       /\ part >= 2 => got # <<>>
       /\ Len(got) = Prior + IF pc = "receive" THEN 0 ELSE moved
  /\ pc = "read" => moved < Wanted
  /\ pc = "receiveReport" => moved = Wanted

Kinds == UserportTypeOK /\ ServantTypeOK /\ ClientTypeOK

-----------------------------------------------------------------------------
(* What is on the line while the current call is in step: before it, ...   *)
BetweenCalls ==
  /\ fpc = "frame"
  /\ initialized => tx = <<>>

OnceReset == {ResetFrame, InputFrame \o ResetFrame, InputFrame \o (InputFrame \o ResetFrame)}

(* ... during the ping, ... *)
PingLine ==
  /\ fpc = "frame"
  /\ \/ /\ tx = <<>>
        /\ Ahead \in {AskFrame, FromStrobe, FromWrite, FromOutput,
                      InputFrame \o FromOutput, InputFrame \o (InputFrame \o FromOutput)}
        /\ pc = "again" => rx = <<>>
     \/ tx \in {<< Yes >>, << No >>} /\ rx = <<>> /\ pc = "answer"

(* ... during a send, which a timeout may have ended early, ... *)
SendLine ==
  \/ fpc = "frame" /\ tx = <<>> /\ Ahead = OutputFrame \o FromSend /\ part = 1
  \/ fpc = "frame" /\ tx = <<>> /\ Ahead = FromSend
  \/ /\ fpc = "sendByte" /\ tx = <<>>
     /\ size = Len(Sending) /\ Ahead = SubSeq(Sending, count + 1, size)
  \/ /\ fpc \in {"sendStrobe", "sendWait"} /\ tx = <<>>
     /\ size = Len(Sending) /\ Ahead = SubSeq(Sending, count + 2, size)
     /\ pcData = Sending[count + 1]
  \/ /\ fpc = "frame" /\ Ahead = <<>>
     /\ size = Len(Sending)
     /\ \/ count = size /\ tx = Wide(size)
        \/ count + 1 < size /\ tx = Wide(count + 1)

(* ... and during a receive. *)
ReceiveLine ==
  \/ fpc = "frame" /\ tx = <<>> /\ Ahead \in {FromInput, FromTurn} /\ part = 1 /\ got = <<>>
  \/ fpc = "frame" /\ tx = <<>> /\ Ahead = ReceiveFrame /\ Len(got) = Prior
  \/ /\ fpc \in {"recvWait", "recvRead", "recvStrobe"}
     /\ Ahead = <<>> /\ size = Wanted
     /\ moved + Len(tx) = IF fpc = "recvStrobe" THEN count + 1 ELSE count
  \/ /\ fpc = "frame" /\ Ahead = <<>> /\ size = Wanted
     /\ Len(tx) >= 4 /\ tx = Data \o Wide(size) /\ moved + Len(Data) = size

Line ==
  /\ pc \in {"idle", "open"} => BetweenCalls
  /\ pc \notin {"idle", "open"} => initialized
  /\ pc = "idle" => \/ rx \in {<<>>, InputFrame}
                    \/ req.op = "reset" /\ \E f \in OnceReset : rx = f \o InputFrame
  /\ pc = "open" => rx \in {<<>>, InputFrame}
  /\ pc = "reset" => /\ BetweenCalls
                     /\ rx \in {<<>>, InputFrame, InputFrame \o InputFrame}
  /\ pc \in PingPlaces => PingLine
  /\ pc \in SendPlaces => SendLine
  /\ pc \in ReceivePlaces => ReceiveLine
  /\ pc = "close" => /\ BetweenCalls
                     /\ rx = <<>> \/ (req.op = "reset" /\ rx \in OnceReset)

(* An identification is that of the server. *)
Naming == pc \in ReceivePlaces => Port!Identified

-----------------------------------------------------------------------------
(* What the parallel port's proofs assume of their constants holds here.   *)
LEMMA SameRequests ==
  /\ \A m, b, a, d : Port!xlink_load(m, b, a, d) = xlink_load(m, b, a, d)
  /\ \A m, b, a, n : Port!xlink_save(m, b, a, n) = xlink_save(m, b, a, n)
  /\ \A m, b, a : Port!xlink_peek(m, b, a) = xlink_peek(m, b, a)
  /\ \A m, b, a, v : Port!xlink_poke(m, b, a, v) = xlink_poke(m, b, a, v)
  /\ \A m, b, a : Port!xlink_jump(m, b, a) = xlink_jump(m, b, a)
  /\ \A a : Port!xlink_inject(a) = xlink_inject(a)
  /\ Port!xlink_run = xlink_run /\ Port!xlink_identify = xlink_identify
  /\ Port!xlink_ping = xlink_ping /\ Port!xlink_reset = xlink_reset
<1> USE DEF Port!Request, Request, Port!lo, lo, Port!hi, hi, Port!Wrap, Wrap,
            Port!AddressSpace, AddressSpace
<1>1. \A m, b, a, d : Port!xlink_load(m, b, a, d) = xlink_load(m, b, a, d)
  BY DEF Port!xlink_load, xlink_load, Port!LoadCmd, LoadCmd
<1>2. \A m, b, a, n : Port!xlink_save(m, b, a, n) = xlink_save(m, b, a, n)
  BY DEF Port!xlink_save, xlink_save, Port!SaveCmd, SaveCmd
<1>3. \A m, b, a : Port!xlink_peek(m, b, a) = xlink_peek(m, b, a)
  BY DEF Port!xlink_peek, xlink_peek, Port!PeekCmd, PeekCmd
<1>4. \A m, b, a, v : Port!xlink_poke(m, b, a, v) = xlink_poke(m, b, a, v)
  BY DEF Port!xlink_poke, xlink_poke, Port!PokeCmd, PokeCmd
<1>5. \A m, b, a : Port!xlink_jump(m, b, a) = xlink_jump(m, b, a)
  BY DEF Port!xlink_jump, xlink_jump, Port!JumpCmd, JumpCmd
<1>6. \A a : Port!xlink_inject(a) = xlink_inject(a)
  BY DEF Port!xlink_inject, xlink_inject, Port!InjectCmd, InjectCmd
<1>7. Port!xlink_run = xlink_run /\ Port!xlink_identify = xlink_identify
  BY DEF Port!xlink_run, xlink_run, Port!RunCmd, RunCmd, Port!xlink_identify,
         xlink_identify, Port!IdentifyCmd, IdentifyCmd
<1>8. Port!xlink_ping = xlink_ping /\ Port!xlink_reset = xlink_reset
  BY Zenon DEF Port!xlink_ping, xlink_ping, Port!xlink_reset, xlink_reset
<1> QED
  BY <1>1, <1>2, <1>3, <1>4, <1>5, <1>6, <1>7, <1>8

Assumed ==
  /\ Port!ContentionAssumption /\ Port!CallsAssumption /\ Port!HeaderAssumption
  /\ Port!ServerAssumption /\ Port!MemoryAssumption /\ Port!EnvironmentAssumption
  /\ Port!BudgetAssumption /\ Port!RequestAssumption

LEMMA Assumptions == Assumed
<1> USE DEF Port!Byte, Byte, Port!Address, Address, Port!AddressSpace, AddressSpace
<1>1. Port!ContentionAssumption
  BY ContentionAssumption, Zenon DEF ContentionAssumption, Port!ContentionAssumption
<1>2. Port!CallsAssumption
  BY CallsAssumption, ZenonT(60) DEF CallsAssumption, Port!CallsAssumption, RequestType, Port!RequestType
<1>3. Port!ServerAssumption
  BY ServerAssumption, ZenonT(60) DEF ServerAssumption, Port!ServerAssumption
<1>4. Port!MemoryAssumption
  BY MemoryAssumption, ZenonT(60) DEF MemoryAssumption, Port!MemoryAssumption, IsMemory, Port!IsMemory
<1>5. Port!EnvironmentAssumption
  BY EnvironmentAssumption DEF EnvironmentAssumption, Port!EnvironmentAssumption
<1>6. Port!BudgetAssumption
  BY BudgetAssumption DEF BudgetAssumption, Port!BudgetAssumption
<1>7. Port!RequestAssumption
  <2> SUFFICES ASSUME NEW r \in Calls
               PROVE  Port!IsRequest(r) /\ Port!LeavesServer(r)
    BY DEF Port!RequestAssumption
  <2>1. IsRequest(r) /\ LeavesServer(r)
    BY RequestAssumption DEF RequestAssumption
  <2>2. Port!IsRequest(r)
    BY <2>1, SameRequests DEF IsRequest, Port!IsRequest
  <2>3. Port!LeavesServer(r)
    <3>1. Port!Touched(r) = Touched(r)
      BY Zenon DEF Touched, Port!Touched, Wrap, Port!Wrap
    <3>2. Port!OwnCells = OwnCells
      BY SMTT(30) DEF OwnCells, Port!OwnCells
    <3> QED
      BY <2>1, <3>1, <3>2, Zenon DEF LeavesServer, Port!LeavesServer
  <2> QED
    BY <2>2, <2>3
<1>8. Port!HeaderAssumption
  <2> SUFFICES ASSUME NEW r \in Calls, r.op \notin {"ping", "reset"}
               PROVE  r.header # <<>>
    BY DEF Port!HeaderAssumption
  <2>1. IsRequest(r)
    BY RequestAssumption DEF RequestAssumption
  <2>2. CASE r.op \in {"load", "save", "peek", "poke", "jump", "inject"}
    BY <2>1, <2>2 DEF IsRequest, Request, xlink_load, xlink_save, xlink_peek, xlink_poke,
       xlink_jump, xlink_inject
  <2>3. CASE r \in {xlink_run, xlink_identify, xlink_ping, xlink_reset}
    BY <2>3, SMTT(30) DEF Request, xlink_run, xlink_identify, xlink_ping, xlink_reset
  <2> QED
    BY <2>1, <2>2, <2>3 DEF IsRequest
<1> QED
  BY <1>1, <1>2, <1>3, <1>4, <1>5, <1>6, <1>7, <1>8, ZenonT(60) DEF Assumed

-----------------------------------------------------------------------------
(* The cable and the server are the same, seen from either driver.         *)
LEMMA SameCable ==
  /\ Port!Byte = Byte /\ Port!Address = Address
  /\ Port!UserportTypeOK <=> UserportTypeOK
  /\ Port!BusValues = BusValues
  /\ Port!server = server /\ Port!userport = userport
  /\ Port!ack <=> ack
  /\ Port!TakeFlag <=> TakeFlag
BY DEF Port!Byte, Byte, Port!Address, Address, Port!AddressSpace, AddressSpace,
       Port!UserportTypeOK, UserportTypeOK, Port!BusValues, BusValues, Port!server, server,
       Port!userport, userport, Port!ack, ack, Port!TakeFlag, TakeFlag

LEMMA SameHelpers ==
  /\ \A m : Port!IsMemory(m) <=> IsMemory(m)
  /\ \A x : Port!Wrap(x) = Wrap(x) /\ Port!lo(x) = lo(x) /\ Port!hi(x) = hi(x)
  /\ \A x, y : Port!Word(x, y) = Word(x, y)
  /\ \A m, a : Port!Cell(m, a) = Cell(m, a)
  /\ \A m, a, v : Port!Put(m, a, v) = Put(m, a, v)
  /\ \A m, a : Port!CellWord(m, a) = CellWord(m, a)
  /\ \A m, a, w : Port!PutWord(m, a, w) = PutWord(m, a, w)
  /\ \A m : Port!Info(m) = Info(m)
  /\ \A m : Port!ColdStart(m) = ColdStart(m)
<1> USE DEF Port!Wrap, Wrap, Port!lo, lo, Port!hi, hi, Port!Word, Word, Port!AddressSpace,
            AddressSpace, Port!Cell, Cell, Port!Put, Put
<1>1. \A m : Port!IsMemory(m) <=> IsMemory(m)
  BY SameCable DEF Port!IsMemory, IsMemory
<1>2. \A m, a, v : Port!Put(m, a, v) = Put(m, a, v)
  OBVIOUS
<1>3. \A m, a : Port!Cell(m, a) = Cell(m, a)
  OBVIOUS
<1>4. \A x : Port!Wrap(x) = Wrap(x) /\ Port!lo(x) = lo(x) /\ Port!hi(x) = hi(x)
  OBVIOUS
<1>5. \A x, y : Port!Word(x, y) = Word(x, y)
  OBVIOUS
<1> HIDE DEF Port!Wrap, Wrap, Port!lo, lo, Port!hi, hi, Port!Word, Word, Port!Cell, Cell,
             Port!Put, Put
<1>6. \A m, a : Port!CellWord(m, a) = CellWord(m, a)
  BY <1>3, <1>4, <1>5 DEF Port!CellWord, CellWord
<1>7. \A m, a, w : Port!PutWord(m, a, w) = PutWord(m, a, w)
  BY <1>2, <1>4 DEF Port!PutWord, PutWord
<1>8. \A m : Port!Info(m) = Info(m)
  BY <1>3, <1>4 DEF Port!Info, Info, Port!memtop, memtop
<1>9. \A m : Port!ColdStart(m) = ColdStart(m)
  BY DEF Port!ColdStart, ColdStart
<1> QED
  BY <1>1, <1>2, <1>3, <1>4, <1>5, <1>6, <1>7, <1>8, <1>9

LEMMA SameServer ==
  /\ Port!ServerTypeOK <=> ServerTypeOK
  /\ \A c : Port!HeaderLength(c) = HeaderLength(c) /\ Port!Dispatch(c) = Dispatch(c)
            /\ Port!Body(c) = Body(c)
  /\ \A c, h : Port!Target(c, h) = Target(c, h)
  /\ Port!TransferStart = TransferStart /\ Port!TransferEnd = TransferEnd
  /\ Port!Handler = Handler /\ Port!sysirq = sysirq /\ Port!uninstall = uninstall
  /\ (Port!Listening <=> Listening) /\ (Port!ServerBlocked <=> ServerBlocked)
  /\ Port!NextByte = NextByte /\ (Port!LastByte <=> LastByte)
  /\ (Port!EndingReply <=> EndingReply) /\ (Port!ServerReady <=> ServerReady)
<1> USE DEF Port!LoadCmd, LoadCmd, Port!SaveCmd, SaveCmd, Port!PokeCmd, PokeCmd, Port!PeekCmd,
            PeekCmd, Port!JumpCmd, JumpCmd, Port!RunCmd, RunCmd, Port!InjectCmd, InjectCmd,
            Port!IdentifyCmd, IdentifyCmd
<1>1. Port!ServerTypeOK <=> ServerTypeOK
  BY SameCable, SameHelpers DEF Port!ServerTypeOK, ServerTypeOK, Port!ServerPC, ServerPC
<1>2. \A c : Port!HeaderLength(c) = HeaderLength(c)
  BY DEF Port!HeaderLength, HeaderLength
<1>3. \A c : Port!Dispatch(c) = Dispatch(c) /\ Port!Body(c) = Body(c)
  BY <1>2 DEF Port!Dispatch, Dispatch, Port!Body, Body
<1>4. \A c, h : Port!Target(c, h) = Target(c, h)
  BY SameHelpers DEF Port!Target, Target
<1>5. Port!TransferStart = TransferStart /\ Port!TransferEnd = TransferEnd
  BY SameHelpers DEF Port!TransferStart, TransferStart, Port!TransferEnd, TransferEnd
<1>6. Port!Handler = Handler /\ Port!sysirq = sysirq /\ Port!uninstall = uninstall
  BY SameHelpers DEF Port!Handler, Handler, Port!sysirq, sysirq, Port!uninstall, uninstall
<1>7. (Port!Listening <=> Listening) /\ (Port!ServerBlocked <=> ServerBlocked)
  BY <1>6 DEF Port!Listening, Listening, Port!ServerBlocked, ServerBlocked, Port!Polling,
     Polling
<1>8. Port!NextByte = NextByte /\ (Port!LastByte <=> LastByte)
  BY <1>5, SameHelpers DEF Port!NextByte, NextByte, Port!LastByte, LastByte
<1>9. (Port!EndingReply <=> EndingReply) /\ (Port!ServerReady <=> ServerReady)
  BY <1>5, <1>8, SameHelpers DEF Port!EndingReply, EndingReply, Port!ServerReady, ServerReady,
     Port!EndingCommand, EndingCommand
<1> QED
  BY <1>1, <1>2, <1>3, <1>4, <1>5, <1>6, <1>7, <1>8, <1>9

LEMMA SameSteps ==
  /\ Port!ServerStep <=> ServerStep
  /\ Port!Commits <=> Commits
<1> USE SameCable, SameHelpers, SameServer DEF Port!bus, bus, Port!userport, userport
<1>1. (Port!SrvIrq <=> SrvIrq) /\ (Port!SrvFetch <=> SrvFetch) /\ (Port!SrvAck <=> SrvAck)
  BY DEF Port!SrvIrq, SrvIrq, Port!SrvFetch, SrvFetch, Port!SrvAck, SrvAck
<1>2. (Port!SrvReadWait <=> SrvReadWait) /\ (Port!SrvReadLatch <=> SrvReadLatch)
  BY DEF Port!SrvReadWait, SrvReadWait, Port!SrvReadLatch, SrvReadLatch
<1>3. Port!SrvReadAck <=> SrvReadAck
  BY DEF Port!SrvReadAck, SrvReadAck, Port!LoadCmd, LoadCmd, Port!SaveCmd, SaveCmd,
     Port!PokeCmd, PokeCmd, Port!PeekCmd, PeekCmd, Port!bstart, bstart
<1>4. (Port!SrvPokeStore <=> SrvPokeStore) /\ (Port!SrvLeave <=> SrvLeave)
  BY DEF Port!SrvPokeStore, SrvPokeStore, Port!SrvLeave, SrvLeave
<1>5. (Port!SrvLoadWait <=> SrvLoadWait) /\ (Port!SrvLoadStore <=> SrvLoadStore)
      /\ (Port!SrvLoadAck <=> SrvLoadAck)
  BY DEF Port!SrvLoadWait, SrvLoadWait, Port!SrvLoadStore, SrvLoadStore, Port!SrvLoadAck,
     SrvLoadAck
<1>6. Port!SrvLoadNext <=> SrvLoadNext
  BY DEF Port!SrvLoadNext, SrvLoadNext, Port!bend, bend
<1>7. (Port!SrvOutWait <=> SrvOutWait) /\ (Port!SrvOutDir <=> SrvOutDir)
      /\ (Port!SrvPut <=> SrvPut) /\ (Port!SrvWriteStrobe <=> SrvWriteStrobe)
  BY DEF Port!SrvOutWait, SrvOutWait, Port!SrvOutDir, SrvOutDir, Port!SrvPut, SrvPut,
     Port!SrvWriteStrobe, SrvWriteStrobe
<1>8. (Port!SrvWriteWait <=> SrvWriteWait) /\ (Port!SrvInput <=> SrvInput)
  BY DEF Port!SrvWriteWait, SrvWriteWait, Port!SrvInput, SrvInput, Port!SaveCmd, SaveCmd,
     Port!IdentifyCmd, IdentifyCmd
<1>9. Port!SrvBoot <=> SrvBoot
  BY DEF Port!SrvBoot, SrvBoot, Port!PingCmd, PingCmd
<1>10. Port!ServerStep <=> ServerStep
  BY <1>1, <1>2, <1>3, <1>4, <1>5, <1>6, <1>7, <1>8, <1>9, Zenon
  DEF Port!ServerStep, ServerStep
<1>11. Port!Commits <=> Commits
  BY <1>1, <1>3, <1>5 DEF Port!Commits, Commits
<1> QED
  BY <1>10, <1>11


-----------------------------------------------------------------------------
(* Bytes on the line: numbers, commands, and what taking a command from    *)
(* the front leaves.                                                       *)
LEMMA LowBytes ==
  ASSUME NEW n \in Nat
  PROVE  lo(n) \in Byte /\ hi(n) \in Byte /\ hlo(n) \in Byte
<1>1. n \div 256 \in Nat /\ n \div 65536 \in Nat
  OBVIOUS
<1>2. \A k \in Nat : k % 256 \in 0 .. 255
  OBVIOUS
<1> QED
  BY <1>1, <1>2 DEF lo, hi, hlo, Byte, AddressSpace

LEMMA WideBytes ==
  ASSUME NEW n \in Nat
  PROVE  /\ Wide(n) \in Seq(Byte) /\ Len(Wide(n)) = 4
         /\ Wide(n)[1] = lo(n) /\ Wide(n)[2] = hi(n) /\ Wide(n)[3] = hlo(n)
         /\ Wide(n)[4] = 0
<1>1. 0 \in Byte
  BY DEF Byte
<1> QED
  BY <1>1, LowBytes DEF Wide

LEMMA NarrowWide ==
  ASSUME NEW n \in Nat, n <= AddressSpace, n <= MaxSize
  PROVE  Narrow(Wide(n)) = n
<1>1. n <= 65536
  BY DEF AddressSpace
<1>2. PICK q \in Nat, r \in 0 .. 255 : q = n \div 256 /\ r = n % 256 /\ n = 256 * q + r
  OBVIOUS
<1>3. /\ n < 65536 => n \div 65536 = 0
      /\ n = 65536 => n \div 65536 = 1
  BY <1>1
<1>4. lo(n) = r
  BY <1>2 DEF lo
<1>7. Narrow(Wide(n)) = LET k == Word(lo(n), hi(n)) + AddressSpace * hlo(n)
                        IN IF k > MaxSize THEN MaxSize ELSE k
  BY WideBytes DEF Narrow
<1>5. CASE n < 65536
  <2>1. q \in 0 .. 255
    BY <1>2, <1>5
  <2>2. hi(n) = q
    BY <1>2, <2>1 DEF hi
  <2>3. hlo(n) = 0
    BY <1>3, <1>5 DEF hlo, AddressSpace
  <2>4. Word(lo(n), hi(n)) + AddressSpace * hlo(n) = n
    BY <1>2, <1>4, <2>2, <2>3 DEF Word, AddressSpace
  <2> QED
    BY <1>7, <2>4, MaxSizeAssumption DEF MaxSizeAssumption
<1>6. CASE n = 65536
  <2>1. q = 256 /\ r = 0
    BY <1>2, <1>6
  <2>2. hi(n) = 0
    BY <1>2, <2>1 DEF hi
  <2>3. hlo(n) = 1
    BY <1>3, <1>6 DEF hlo, AddressSpace
  <2>4. Word(lo(n), hi(n)) + AddressSpace * hlo(n) = n
    BY <1>4, <1>6, <2>1, <2>2, <2>3 DEF Word, AddressSpace
  <2> QED
    BY <1>7, <2>4, MaxSizeAssumption DEF MaxSizeAssumption
<1> QED
  BY <1>1, <1>5, <1>6

LEMMA Join ==
  ASSUME NEW s \in Seq(Byte), NEW t \in Seq(Byte)
  PROVE  /\ s \o t \in Seq(Byte)
         /\ Len(s \o t) = Len(s) + Len(t) /\ Len(s) \in Nat /\ Len(t) \in Nat
         /\ \A i \in 1 .. Len(s) : (s \o t)[i] = s[i]
         /\ \A i \in 1 .. Len(t) : (s \o t)[Len(s) + i] = t[i]
BY ConcatProperties

LEMMA FrameBytes ==
  ASSUME NEW cmd \in Byte, NEW m \in Nat, NEW n \in Nat
  PROVE  /\ Frame(cmd, m, n) \in Seq(Byte) /\ Len(Frame(cmd, m, n)) = 9
         /\ Frame(cmd, m, n)[1] = cmd /\ Frame(cmd, m, n)[2] = lo(m)
         /\ SubSeq(Frame(cmd, m, n), 2, 5) = Wide(m)
<1> DEFINE c == << cmd >>
           v == Wide(m)
           w == Wide(n)
<1>1. c \in Seq(Byte) /\ Len(c) = 1 /\ c[1] = cmd
  OBVIOUS
<1>2. v \in Seq(Byte) /\ Len(v) = 4 /\ v[1] = lo(m) /\ w \in Seq(Byte) /\ Len(w) = 4
  BY WideBytes
<1> HIDE DEF c, v, w
<1>3. c \o v \in Seq(Byte) /\ Len(c \o v) = 5
      /\ (c \o v)[1] = cmd
      /\ \A i \in 1 .. 4 : (c \o v)[1 + i] = v[i]
  <2>1. c \o v \in Seq(Byte) /\ Len(c \o v) = Len(c) + Len(v)
    BY <1>1, <1>2, Join
  <2>2. /\ \A i \in 1 .. Len(c) : (c \o v)[i] = c[i]
        /\ \A i \in 1 .. Len(v) : (c \o v)[Len(c) + i] = v[i]
    BY <1>1, <1>2, Join
  <2> QED
    BY <1>1, <1>2, <2>1, <2>2
<1> DEFINE f == (c \o v) \o w
<1>4. f \in Seq(Byte) /\ Len(f) = 9 /\ \A i \in 1 .. 5 : f[i] = (c \o v)[i]
  <2>1. f \in Seq(Byte) /\ Len(f) = Len(c \o v) + Len(w)
        /\ \A i \in 1 .. Len(c \o v) : f[i] = (c \o v)[i]
    BY <1>2, <1>3, Join
  <2> QED
    BY <1>2, <1>3, <2>1
<1> HIDE DEF f
<1>5. SubSeq(f, 2, 5) = v
  <2>1. SubSeq(f, 2, 5) \in Seq(Byte) /\ Len(SubSeq(f, 2, 5)) = 4
        /\ \A i \in 1 .. 4 : SubSeq(f, 2, 5)[i] = f[1 + i]
    <3>1. \A i \in 2 .. 5 : f[i] \in Byte
      <4>1. \A i \in 1 .. Len(f) : f[i] \in Byte
        BY <1>4, ElementOfSeq
      <4> QED
        BY <1>4, <4>1
    <3>2. /\ SubSeq(f, 2, 5) \in Seq(Byte)
          /\ Len(SubSeq(f, 2, 5)) = IF 2 <= 5 THEN 5 - 2 + 1 ELSE 0
          /\ \A i \in 1 .. 5 - 2 + 1 : SubSeq(f, 2, 5)[i] = f[2 + i - 1]
      BY <3>1, SubSeqProperties
    <3> QED
      BY <3>2
  <2>2. \A i \in 1 .. 4 : f[1 + i] = v[i]
    <3>1. \A i \in 1 .. 4 : f[1 + i] = (c \o v)[1 + i]
      <4>1. \A i \in 1 .. 4 : 1 + i \in 1 .. 5
        OBVIOUS
      <4> QED
        BY <1>4, <4>1, Zenon
    <3> QED
      BY <1>3, <3>1
  <2> QED
    BY <1>2, <2>1, <2>2, SeqEqual
<1>6. f[1] = cmd /\ f[2] = lo(m)
  BY <1>2, <1>3, <1>4, SMTT(30)
<1> QED
  BY <1>4, <1>5, <1>6 DEF Frame, f, c, v, w

(* A command of which all nine bytes have arrived is taken from the line;  *)
(* what follows it stays.                                                  *)
NineOff(a, b, f, r) ==
  /\ SubSeq(a, 10, Len(a)) \o b = r
  /\ \A i \in 1 .. 9 : a[i] = f[i]

LEMMA TakesNine ==
  ASSUME NEW a \in Seq(Byte), NEW b \in Seq(Byte), NEW f \in Seq(Byte), NEW r \in Seq(Byte),
         a \o b = f \o r, Len(f) = 9, 9 <= Len(a)
  PROVE  NineOff(a, b, f, r)
<1> DEFINE n == Len(a)
           t == SubSeq(a, 10, n)
<1>1. n \in Nat /\ Len(b) \in Nat /\ Len(r) \in Nat /\ n + Len(b) = 9 + Len(r)
  <2>1. Len(a \o b) = Len(a) + Len(b) /\ Len(f \o r) = Len(f) + Len(r)
        /\ Len(a) \in Nat /\ Len(b) \in Nat /\ Len(r) \in Nat
    BY Join
  <2> QED
    BY <2>1
<1>2. t \in Seq(Byte) /\ Len(t) = n - 9 /\ \A i \in 1 .. n - 9 : t[i] = a[9 + i]
  <2>1. \A i \in 10 .. n : a[i] \in Byte
    BY <1>1
  <2>2. /\ t \in Seq(Byte)
        /\ Len(t) = IF 10 <= n THEN n - 10 + 1 ELSE 0
        /\ \A i \in 1 .. n - 10 + 1 : t[i] = a[10 + i - 1]
    BY <1>1, <2>1, SubSeqProperties
  <2>3. Len(t) = n - 9
    BY <1>1, <2>2
  <2>4. \A i \in 1 .. n - 9 : t[i] = a[9 + i]
    <3> TAKE i \in 1 .. n - 9
    <3>1. i \in 1 .. n - 10 + 1 /\ 10 + i - 1 = 9 + i
      BY <1>1
    <3>2. t[i] = a[10 + i - 1]
      BY <2>2, <3>1
    <3> QED
      BY <3>1, <3>2
  <2> QED
    BY <2>2, <2>3, <2>4
<1>3. \A i \in 1 .. 9 : a[i] = f[i]
  <2> TAKE i \in 1 .. 9
  <2>1. i \in 1 .. Len(a) /\ i \in 1 .. Len(f)
    BY <1>1
  <2>2. (a \o b)[i] = a[i]
    BY <2>1, Join, SMTT(30)
  <2>3. (f \o r)[i] = f[i]
    BY <2>1, Join, ZenonT(60)
  <2> QED
    BY <2>2, <2>3
<1>4. t \o b \in Seq(Byte) /\ Len(t \o b) = Len(r)
  <2>1. t \o b \in Seq(Byte) /\ Len(t \o b) = Len(t) + Len(b)
    BY <1>2, Join
  <2> QED
    BY <1>1, <1>2, <2>1
<1>5. \A i \in 1 .. Len(r) : (t \o b)[i] = r[i]
  <2> TAKE i \in 1 .. Len(r)
  <2>1. (f \o r)[9 + i] = r[i]
    <3>1. \A h \in 1 .. Len(r) : (f \o r)[Len(f) + h] = r[h]
      BY Join
    <3> QED
      BY <3>1
  <2>2. CASE i <= n - 9
    <3>1. (t \o b)[i] = t[i]
      BY <1>1, <1>2, <2>2, Join
    <3>2. (a \o b)[9 + i] = a[9 + i]
      <4>1. 9 + i \in 1 .. Len(a)
        BY <1>1, <2>2
      <4> QED
        BY <4>1, Join
    <3>3. i \in 1 .. n - 9
      BY <1>1, <2>2
    <3>4. t[i] = a[9 + i]
      BY <1>2, <3>3
    <3> QED
      BY <2>1, <3>1, <3>2, <3>4
  <2>3. CASE i > n - 9
    <3>0. i - (n - 9) \in 1 .. Len(b) /\ i = (n - 9) + (i - (n - 9))
      BY <1>1, <2>3
    <3>1. PICK j \in 1 .. Len(b) : i = (n - 9) + j
      BY <3>0
    <3>2. (t \o b)[(n - 9) + j] = b[j]
      <4>1. \A h \in 1 .. Len(b) : (t \o b)[Len(t) + h] = b[h]
        BY <1>2, Join
      <4> QED
        BY <1>2, <4>1
    <3>3. (a \o b)[n + j] = b[j]
      BY <3>1, Join, ZenonT(60)
    <3>4. n + j = 9 + i
      BY <1>1, <3>1
    <3> QED
      BY <2>1, <3>1, <3>2, <3>3, <3>4
  <2> QED
    BY <1>1, <2>2, <2>3
<1>6. t \o b = r
  BY <1>4, <1>5, SeqEqual
<1> QED
  BY <1>3, <1>6 DEF NineOff


-----------------------------------------------------------------------------
(* The sizes of what is sent and wanted.                                   *)
LEMMA RequestFields ==
  ASSUME NEW r \in Calls
  PROVE  /\ r.header \in Seq(Byte) /\ r.data \in Seq(Byte) /\ r.want \in Nat
         /\ r.op \in {"load", "save", "poke", "peek", "jump", "run", "inject",
                      "identify", "ping", "reset"}
BY CallsAssumption DEF CallsAssumption, RequestType

LEMMA RequestSizes ==
  ASSUME NEW r \in Calls, r.op \notin {"ping", "reset"}
  PROVE  /\ Len(r.header) \in 1 .. 7 /\ Len(r.header) <= MaxSize
         /\ r.data = IF r.op = "load" THEN r.writes ELSE <<>>
         /\ Len(r.data) \in Nat /\ Len(r.data) <= AddressSpace /\ Len(r.data) <= MaxSize
         /\ r.op = "save" => r.want <= AddressSpace
         /\ r.op = "peek" => r.want = 1
         /\ r.op = "identify" => r.want = 10 /\ 15 <= MaxSize
         /\ r.op # "identify" => r.want <= MaxSize
<1>1. Port!Sends(r)
  BY DEF Port!Sends
<1>2. /\ Len(r.header) = Port!Size(r.op) /\ Port!Size(r.op) \in 1 .. 7
      /\ r.data = IF r.op = "load" THEN r.writes ELSE <<>>
      /\ r.op = "load" => Len(r.writes) <= Port!AddressSpace
      /\ r.op = "save" => r.want <= Port!AddressSpace
      /\ r.op = "peek" => r.want = 1
      /\ r.op = "identify" => r.want = 10
  BY <1>1, Assumptions, Port!Shapes, Port!Sizes DEF Port!Shapes, Port!Sizes, Assumed
<1>3. Port!AddressSpace = AddressSpace /\ AddressSpace \in Nat
  BY DEF Port!AddressSpace, AddressSpace
<1>4. Len(r.header) <= MaxSize /\ Len(r.data) <= MaxSize
      /\ (IF r.op = "identify" THEN 15 ELSE r.want) <= MaxSize
  BY SizeAssumption DEF SizeAssumption
<1>5. Len(r.data) \in Nat
  BY RequestFields
<1>6. Len(r.data) <= AddressSpace
  <2>1. CASE r.op = "load"
    BY <1>2, <1>3, <2>1
  <2>2. CASE r.op # "load"
    <3>1. r.data = <<>>
      BY <1>2, <2>2
    <3> QED
      BY <1>3, <3>1
  <2> QED
    BY <2>1, <2>2
<1> QED
  BY <1>2, <1>3, <1>4, <1>5, <1>6

LEMMA PartSizes ==
  ASSUME req \in Calls, part \in 1 .. 3, req.op \notin {"ping", "reset"}
  PROVE  /\ Sending \in Seq(Byte) /\ Len(Sending) \in Nat
         /\ Len(Sending) <= AddressSpace /\ Len(Sending) <= MaxSize
<1>1. /\ req.header \in Seq(Byte) /\ req.data \in Seq(Byte)
      /\ Len(req.header) \in 1 .. 7 /\ Len(req.header) <= MaxSize
      /\ Len(req.data) \in Nat /\ Len(req.data) <= AddressSpace /\ Len(req.data) <= MaxSize
  BY RequestFields, RequestSizes
<1>2. Len(req.header) \in Nat /\ Len(req.header) <= AddressSpace
  <2>1. \A n \in 1 .. 7 : n \in Nat /\ n <= AddressSpace
    BY DEF AddressSpace
  <2> QED
    BY <1>1, <2>1, Zenon
<1>3. CASE part = 1
  <2>1. Sending = req.header
    BY <1>3 DEF Sending, Part
  <2> QED
    BY <1>1, <1>2, <2>1, Zenon
<1>4. CASE part # 1
  <2>1. Sending = req.data
    BY <1>4 DEF Sending, Part
  <2> QED
    BY <1>1, <2>1
<1> QED
  BY <1>3, <1>4

LEMMA ReplySizes ==
  ASSUME ClientTypeOK, CallInv, pc \in ReceivePlaces
  PROVE  /\ Wanted \in Nat /\ Wanted <= AddressSpace /\ Wanted <= MaxSize
         /\ part >= 2 => got # <<>> /\ req.op = "identify" /\ got[1] % 16 \in 0 .. 15
         /\ Prior \in Nat /\ Len(got) \in Nat
<1>1. /\ part \in 1 .. 3 /\ got \in Seq(Byte) /\ req \in Calls /\ Len(got) \in Nat
      /\ Receives(req)
  BY DEF ClientTypeOK, CallInv
<1>2. got # <<>> => got[1] % 16 \in 0 .. 15
  <2>1. got # <<>> => got[1] \in Byte
    BY <1>1
  <2>2. \A x \in Byte : x % 16 \in 0 .. 15
    BY DEF Byte
  <2> QED
    BY <2>1, <2>2
<1>3. part >= 2 => req.op = "identify" /\ got # <<>>
  BY <1>1 DEF CallInv, Preparing, PingPlaces, ReceivePlaces, Replies
<1>4. /\ req.op \notin {"ping", "reset"} /\ req.want \in Nat
      /\ req.op \in {"save", "peek", "identify"}
  BY <1>1, RequestFields DEF Receives
<1>5. /\ req.op = "save" => req.want <= AddressSpace
      /\ req.op = "peek" => req.want = 1
      /\ req.op = "identify" => 15 <= MaxSize
      /\ req.op # "identify" => req.want <= MaxSize
  BY <1>1, <1>4, RequestSizes
<1>6. \A n \in 0 .. 15 : n \in Nat /\ n <= AddressSpace
  BY DEF AddressSpace
<1>10. MaxSize \in Nat
  BY MaxSizeAssumption DEF MaxSizeAssumption
<1>7. CASE req.op # "identify"
  <2>1. Wanted = req.want /\ part = 1
    BY <1>1, <1>3, <1>7 DEF Wanted, ReplySize
  <2>2. Prior = 0
    BY <2>1 DEF Prior
  <2>3. req.want <= AddressSpace
    <3>1. 1 <= AddressSpace
      BY DEF AddressSpace
    <3> QED
      BY <1>4, <1>5, <1>7, <3>1
  <2>4. Wanted \in Nat /\ Wanted <= AddressSpace /\ Wanted <= MaxSize /\ ~(part >= 2)
    BY <1>4, <1>5, <1>7, <2>1, <2>3
  <2> QED
    BY <1>1, <2>2, <2>4
<1>8. CASE req.op = "identify"
  <2>1. Wanted \in 0 .. 15
    BY <1>1, <1>2, <1>3, <1>8 DEF Wanted, ReplySize
  <2>2. Prior \in Nat
    BY <1>1, <1>2, <1>3, <1>8 DEF Prior
  <2>3. Wanted \in Nat /\ Wanted <= AddressSpace
    BY <1>6, <2>1
  <2>4. Wanted <= MaxSize
    BY <1>5, <1>8, <1>10, <2>1
  <2> QED
    BY <1>1, <1>2, <1>3, <2>2, <2>3, <2>4
<1> QED
  BY <1>7, <1>8

LEMMA Commands ==
  /\ CMD_RESET \in Byte /\ CMD_STROBE \in Byte /\ CMD_ACKED \in Byte /\ CMD_INPUT \in Byte
  /\ CMD_OUTPUT \in Byte /\ CMD_WRITE \in Byte /\ CMD_SEND \in Byte
  /\ CMD_RECEIVE \in Byte /\ PingCmd \in Byte /\ Yes \in Byte /\ No \in Byte /\ 255 \in Byte
  /\ PingCmd \in Nat /\ ServantTimeout \in Nat
BY DEF CMD_RESET, CMD_STROBE, CMD_ACKED, CMD_INPUT, CMD_OUTPUT, CMD_WRITE, CMD_SEND, CMD_RECEIVE,
       PingCmd, Yes, No, Byte, ServantTimeout

(* The commands of the driver are bytes, nine each.                        *)
LEMMA BasicFrames ==
  /\ InputFrame \in Seq(Byte) /\ OutputFrame \in Seq(Byte) /\ StrobeFrame \in Seq(Byte)
  /\ AskFrame \in Seq(Byte) /\ PingFrame \in Seq(Byte) /\ ResetFrame \in Seq(Byte)
  /\ Len(InputFrame) = 9 /\ Len(OutputFrame) = 9 /\ Len(StrobeFrame) = 9
  /\ Len(AskFrame) = 9 /\ Len(PingFrame) = 9 /\ Len(ResetFrame) = 9
  /\ InputFrame[1] = CMD_INPUT /\ OutputFrame[1] = CMD_OUTPUT
  /\ StrobeFrame[1] = CMD_STROBE /\ AskFrame[1] = CMD_ACKED
  /\ PingFrame[1] = CMD_WRITE /\ PingFrame[2] = PingCmd /\ ResetFrame[1] = CMD_RESET
<1>1. 0 \in Nat /\ PingCmd \in Nat /\ lo(PingCmd) = PingCmd
  BY DEF lo, PingCmd
<1>2. \A cmd \in Byte, m \in Nat :
        /\ Frame(cmd, m, 0) \in Seq(Byte) /\ Len(Frame(cmd, m, 0)) = 9
        /\ Frame(cmd, m, 0)[1] = cmd /\ Frame(cmd, m, 0)[2] = lo(m)
  <2> TAKE cmd \in Byte, m \in Nat
  <2>1. 0 \in Nat
    OBVIOUS
  <2>2. /\ Frame(cmd, m, 0) \in Seq(Byte) /\ Len(Frame(cmd, m, 0)) = 9
        /\ Frame(cmd, m, 0)[1] = cmd /\ Frame(cmd, m, 0)[2] = lo(m)
        /\ SubSeq(Frame(cmd, m, 0), 2, 5) = Wide(m)
    BY <2>1, FrameBytes
  <2> QED
    BY <2>2
<1>3. /\ CMD_RESET \in Byte /\ CMD_STROBE \in Byte /\ CMD_ACKED \in Byte
      /\ CMD_INPUT \in Byte /\ CMD_OUTPUT \in Byte /\ CMD_WRITE \in Byte
  BY Commands
<1>4. /\ InputFrame \in Seq(Byte) /\ Len(InputFrame) = 9 /\ InputFrame[1] = CMD_INPUT
      /\ OutputFrame \in Seq(Byte) /\ Len(OutputFrame) = 9 /\ OutputFrame[1] = CMD_OUTPUT
  BY <1>1, <1>2, <1>3, Zenon DEF InputFrame, OutputFrame
<1>5. /\ StrobeFrame \in Seq(Byte) /\ Len(StrobeFrame) = 9 /\ StrobeFrame[1] = CMD_STROBE
      /\ AskFrame \in Seq(Byte) /\ Len(AskFrame) = 9 /\ AskFrame[1] = CMD_ACKED
  BY <1>1, <1>2, <1>3, Zenon DEF StrobeFrame, AskFrame
<1>6. /\ PingFrame \in Seq(Byte) /\ Len(PingFrame) = 9 /\ PingFrame[1] = CMD_WRITE
      /\ PingFrame[2] = PingCmd
  BY <1>1, <1>2, <1>3, Zenon DEF PingFrame
<1>7. ResetFrame \in Seq(Byte) /\ Len(ResetFrame) = 9 /\ ResetFrame[1] = CMD_RESET
  BY <1>1, <1>2, <1>3, Zenon DEF ResetFrame
<1> QED
  BY <1>4, <1>5, <1>6, <1>7

LEMMA TransferFrames ==
  ASSUME NEW n \in Nat
  PROVE  /\ Frame(CMD_SEND, n, ServantTimeout) \in Seq(Byte)
         /\ Len(Frame(CMD_SEND, n, ServantTimeout)) = 9
         /\ Frame(CMD_SEND, n, ServantTimeout)[1] = CMD_SEND
         /\ SubSeq(Frame(CMD_SEND, n, ServantTimeout), 2, 5) = Wide(n)
         /\ Frame(CMD_RECEIVE, n, ServantTimeout) \in Seq(Byte)
         /\ Len(Frame(CMD_RECEIVE, n, ServantTimeout)) = 9
         /\ Frame(CMD_RECEIVE, n, ServantTimeout)[1] = CMD_RECEIVE
         /\ SubSeq(Frame(CMD_RECEIVE, n, ServantTimeout), 2, 5) = Wide(n)
<1>1. CMD_SEND \in Byte /\ CMD_RECEIVE \in Byte /\ ServantTimeout \in Nat
  BY Commands
<1> QED
  BY <1>1, FrameBytes

-----------------------------------------------------------------------------
(* The kinds of what is on the line, whatever the driver writes or reads.  *)
LEMMA OnTheLine ==
  ASSUME Kinds, BoardInv, UNCHANGED << userport, firmware >>, rx' \in Seq(Byte), tx' \in Seq(Byte)
  PROVE  UserportTypeOK' /\ ServantTypeOK' /\ BoardInv'
BY DEF Kinds, UserportTypeOK, ServantTypeOK, BoardInv, userport, firmware

LEMMA Writing ==
  ASSUME Kinds, BoardInv, NEW from, NEW to, NEW bytes \in Seq(Byte), Writes(from, bytes, to),
         tx' \in Seq(Byte)
  PROVE  /\ UserportTypeOK' /\ ServantTypeOK' /\ BoardInv'
         /\ pc = from /\ pc' = to /\ rx' = rx \o bytes
<1>1. /\ pc = from /\ pc' = to /\ rx' = rx \o bytes
      /\ UNCHANGED << userport, firmware >>
  BY DEF Writes
<1>2. rx' \in Seq(Byte)
  BY <1>1, Join DEF Kinds, ServantTypeOK
<1> QED
  BY <1>1, <1>2, OnTheLine

LEMMA Remaining ==
  ASSUME NEW s \in Seq(Byte), NEW n \in Nat, n <= Len(s)
  PROVE  /\ SubSeq(s, n + 1, Len(s)) \in Seq(Byte)
         /\ Len(SubSeq(s, n + 1, Len(s))) = Len(s) - n
         /\ \A i \in 1 .. n : s[i] \in Byte
<1>1. \A i \in 1 .. Len(s) : s[i] \in Byte
  BY ElementOfSeq
<1>2. Len(s) \in Nat
  OBVIOUS
<1>3. \A i \in 1 .. n : i \in 1 .. Len(s)
  BY <1>2
<1>4. \A i \in n + 1 .. Len(s) : i \in 1 .. Len(s)
  BY <1>2
<1>5. \A i \in n + 1 .. Len(s) : s[i] \in Byte
  BY <1>1, <1>4, Zenon
<1>6. /\ SubSeq(s, n + 1, Len(s)) \in Seq(Byte)
      /\ Len(SubSeq(s, n + 1, Len(s))) =
           IF n + 1 <= Len(s) THEN Len(s) - (n + 1) + 1 ELSE 0
  BY <1>2, <1>5, SubSeqProperties
<1>7. (IF n + 1 <= Len(s) THEN Len(s) - (n + 1) + 1 ELSE 0) = Len(s) - n
  BY <1>2
<1>8. Len(SubSeq(s, n + 1, Len(s))) = Len(s) - n
  BY <1>6, <1>7
<1>9. \A i \in 1 .. n : s[i] \in Byte
  BY <1>1, <1>3, Zenon
<1> QED
  BY <1>6, <1>8, <1>9

LEMMA Taking ==
  ASSUME Kinds, BoardInv, NEW from, NEW n \in Nat, Reads(from, n)
  PROVE  /\ UserportTypeOK' /\ ServantTypeOK' /\ BoardInv'
         /\ pc = from /\ rx' = rx /\ tx' = SubSeq(tx, n + 1, Len(tx))
         /\ Len(tx) >= n /\ \A i \in 1 .. n : tx[i] \in Byte
<1>1. /\ pc = from /\ Len(tx) >= n /\ tx' = SubSeq(tx, n + 1, Len(tx)) /\ rx' = rx
      /\ UNCHANGED << userport, firmware >>
  BY DEF Reads
<1>2. tx \in Seq(Byte) /\ rx \in Seq(Byte) /\ Len(tx) \in Nat
  BY DEF Kinds, ServantTypeOK
<1>3. tx' \in Seq(Byte) /\ \A i \in 1 .. n : tx[i] \in Byte
  BY <1>1, <1>2, Remaining
<1> QED
  BY <1>1, <1>2, <1>3, OnTheLine

(* Steps of the driver: before it sends, ...                               *)
LEMMA PreparingKinds ==
  ASSUME Kinds, BoardInv, CallInv,
         \/ Open \/ OpenFails \/ Reset \/ PingOutput \/ PingWrite \/ PingStrobe \/ Ask \/ Answer
         \/ AskAgain \/ Output \/ Input \/ Turn \/ Close \/ GiveUp
  PROVE  Kinds' /\ BoardInv' /\ CallInv'
<1>1. tx \in Seq(Byte) /\ <<>> \in Seq(Byte) /\ rx \in Seq(Byte) /\ ClientTypeOK
  BY DEF Kinds, ServantTypeOK
<1> SUFFICES UserportTypeOK' /\ ServantTypeOK' /\ BoardInv' /\ ClientTypeOK' /\ CallInv'
  BY DEF Kinds
<1> USE DEF CallInv, ClientTypeOK, Preparing, PingPlaces, SendPlaces, ReceivePlaces, rest
<1>2. CASE Open
  <2>1. tx' \in Seq(Byte) /\ InputFrame \in Seq(Byte)
    BY <1>1, <1>2, BasicFrames DEF Open
  <2>2. /\ UserportTypeOK' /\ ServantTypeOK' /\ BoardInv'
        /\ pc = "open" /\ pc' = IF req.op = "reset" THEN "reset" ELSE "pingOutput"
    BY <1>2, <2>1, Writing DEF Open
  <2> QED
    BY <1>1, <1>2, <2>2 DEF Open
<1>3. CASE OpenFails
  <2>1. UserportTypeOK' /\ ServantTypeOK' /\ BoardInv'
    BY <1>1, <1>3, OnTheLine DEF OpenFails
  <2> QED
    BY <1>1, <1>3, <2>1 DEF OpenFails
<1>4. CASE Reset
  <2>1. Writes("reset", ResetFrame, "close") /\ tx' \in Seq(Byte)
    BY <1>1, <1>4 DEF Reset, ResetFrame
  <2>2. UserportTypeOK' /\ ServantTypeOK' /\ BoardInv' /\ pc = "reset" /\ pc' = "close"
    BY <2>1, BasicFrames, Writing
  <2>3. result' \in BOOLEAN
    BY <1>4, Zenon DEF Reset
  <2> QED
    BY <1>1, <1>4, <2>2, <2>3 DEF Reset
<1>5. CASE PingOutput \/ PingWrite \/ PingStrobe \/ Ask \/ AskAgain \/ Output \/ Input \/ Turn
  <2>1. /\ \/ Writes("pingOutput", OutputFrame, "pingWrite")
           \/ Writes("pingWrite", PingFrame, "pingStrobe")
           \/ Writes("pingStrobe", StrobeFrame, "ask")
           \/ Writes("ask", AskFrame, "answer") \/ Writes("again", AskFrame, "answer")
           \/ Writes("output", OutputFrame, "send")
           \/ Writes("input", InputFrame, "turn") \/ Writes("turn", StrobeFrame, "receive")
        /\ UNCHANGED rest
    BY <1>5 DEF PingOutput, PingWrite, PingStrobe, Ask, AskAgain, Output, Input, Turn,
       OutputFrame, PingFrame, StrobeFrame, AskFrame
  <2>2. tx' \in Seq(Byte)
    BY <1>1, <2>1
  <2>3. /\ UserportTypeOK' /\ ServantTypeOK' /\ BoardInv'
        /\ \/ pc = "pingOutput" /\ pc' = "pingWrite"
           \/ pc = "pingWrite" /\ pc' = "pingStrobe"
           \/ pc = "pingStrobe" /\ pc' = "ask"
           \/ pc = "ask" /\ pc' = "answer"
           \/ pc = "again" /\ pc' = "answer"
           \/ pc = "output" /\ pc' = "send"
           \/ pc = "input" /\ pc' = "turn"
           \/ pc = "turn" /\ pc' = "receive"
    BY <2>1, <2>2, BasicFrames, Writing
  <2>4. pc' = "receive" => /\ part' <= Replies(req)' /\ Len(got)' = Prior'
    BY <1>1, <2>1, <2>3 DEF Replies, Prior
  <2> QED
    BY <1>1, <2>1, <2>3, <2>4
<1>6. CASE Answer
  <2>1. UserportTypeOK' /\ ServantTypeOK' /\ BoardInv' /\ pc = "answer"
    BY <1>6, Taking DEF Answer
  <2>2. result' \in BOOLEAN
    BY <1>1, <1>6, Zenon DEF Answer
  <2>3. 1 <= Parts(req)
    BY DEF Parts
  <2> QED
    BY <1>1, <1>6, <2>1, <2>2, <2>3 DEF Answer, Parts
<1>7. CASE Close
  <2>1. UserportTypeOK' /\ ServantTypeOK' /\ BoardInv' /\ pc = "close" /\ pc' = "idle"
    BY <1>1, <1>7, BasicFrames, Writing DEF Close
  <2> QED
    BY <1>1, <1>7, <2>1 DEF Close
<1>8. CASE GiveUp
  <2>1. UserportTypeOK' /\ ServantTypeOK' /\ BoardInv'
    BY <1>1, <1>8, OnTheLine DEF GiveUp
  <2> QED
    BY <1>1, <1>8, <2>1 DEF GiveUp
<1> QED
  BY <1>2, <1>3, <1>4, <1>5, <1>6, <1>7, <1>8

(* ... while it sends ...                                                  *)
LEMMA SendKinds ==
  ASSUME Kinds, BoardInv, CallInv, Send \/ SendData \/ SendReport
  PROVE  Kinds' /\ BoardInv' /\ CallInv'
<1>1. tx \in Seq(Byte) /\ rx \in Seq(Byte) /\ ClientTypeOK /\ pc \in SendPlaces
  BY DEF Kinds, ServantTypeOK, Send, SendData, SendReport, Writes, Reads, SendPlaces
<1> SUFFICES UserportTypeOK' /\ ServantTypeOK' /\ BoardInv' /\ ClientTypeOK' /\ CallInv'
  BY DEF Kinds
<1>2. /\ req \in Calls /\ part \in 1 .. 3 /\ req.op \notin {"ping", "reset"}
      /\ Sending \in Seq(Byte) /\ Len(Sending) \in Nat /\ moved \in Nat
  BY <1>1, PartSizes DEF CallInv, ClientTypeOK
<1> USE DEF CallInv, ClientTypeOK, Preparing, PingPlaces, SendPlaces, ReceivePlaces
<1>3. CASE Send
  <2>1. SendFrame \in Seq(Byte) /\ tx' \in Seq(Byte)
    BY <1>1, <1>2, <1>3, TransferFrames DEF SendFrame, Send
  <2>2. Writes("send", SendFrame, "data")
    BY <1>3 DEF Send, SendFrame
  <2>3. UserportTypeOK' /\ ServantTypeOK' /\ BoardInv' /\ pc = "send" /\ pc' = "data"
    BY <2>1, <2>2, Writing
  <2>4. Sending' = Sending
    BY <1>3 DEF Send, Sending
  <2> QED
    BY <1>1, <1>2, <1>3, <2>3, <2>4 DEF Send
<1>4. CASE SendData
  <2> DEFINE n == IF Len(Sending) - moved > Chunk THEN Chunk ELSE Len(Sending) - moved
             bytes == SubSeq(Sending, moved + 1, moved + n)
             to == IF moved + n = Len(Sending) THEN "sendReport" ELSE "data"
  <2>1. pc = "data" /\ Writes("data", bytes, to) /\ moved' = moved + n
        /\ UNCHANGED << tx, req, part, got, initialized, result >>
    BY <1>4 DEF SendData, Writes
  <2>2. n \in Nat /\ moved + n <= Len(Sending)
    BY <1>1, <1>2, <2>1, ChunkAssumption DEF ChunkAssumption
  <2> HIDE DEF n
  <2>3. bytes \in Seq(Byte)
    <3>1. \A i \in moved + 1 .. moved + n : i \in 1 .. Len(Sending)
      BY <1>2, <2>2
    <3>2. \A i \in 1 .. Len(Sending) : Sending[i] \in Byte
      BY <1>2, ElementOfSeq
    <3>3. \A i \in moved + 1 .. moved + n : Sending[i] \in Byte
      BY <3>1, <3>2, Zenon
    <3> QED
      BY <1>2, <2>2, <3>3, SubSeqProperties
  <2> HIDE DEF bytes
  <2>4. UserportTypeOK' /\ ServantTypeOK' /\ BoardInv' /\ pc' = to
    BY <1>1, <2>1, <2>3, Writing
  <2>5. Sending' = Sending
    BY <2>1 DEF Sending
  <2> QED
    BY <1>1, <1>2, <2>1, <2>2, <2>4, <2>5
<1>5. CASE SendReport
  <2>1. UserportTypeOK' /\ ServantTypeOK' /\ BoardInv' /\ pc = "sendReport"
    BY <1>5, Taking DEF SendReport
  <2>2. UNCHANGED << req, moved, got, initialized >>
    BY <1>5 DEF SendReport
  <2>3. CASE pc' = "close" /\ part' = part /\ result' = result
    BY <1>1, <2>1, <2>2, <2>3
  <2>4. CASE part < Parts(req) /\ part' = part + 1 /\ pc' = "send" /\ result' = result
    BY <1>1, <1>2, <2>1, <2>2, <2>4 DEF Parts
  <2>5. CASE /\ part' = 1 /\ pc' = IF Receives(req) THEN "input" ELSE "close"
             /\ result' = ~Receives(req)
    <3>1. result' \in BOOLEAN
      BY <2>5, Zenon DEF Receives
    <3> QED
      BY <1>1, <2>1, <2>2, <2>5, <3>1 DEF Receives
  <2> QED
    BY <1>5, <2>3, <2>4, <2>5 DEF SendReport
<1> QED
  BY <1>3, <1>4, <1>5

(* ... and while it receives.                                              *)
LEMMA ReceiveKinds ==
  ASSUME Kinds, BoardInv, CallInv, Receive \/ Read \/ ReceiveReport
  PROVE  Kinds' /\ BoardInv' /\ CallInv'
<1>1. /\ tx \in Seq(Byte) /\ rx \in Seq(Byte) /\ ClientTypeOK
      /\ pc \in {"receive", "read", "receiveReport"} /\ pc \in ReceivePlaces
  BY DEF Kinds, ServantTypeOK, Receive, Read, ReceiveReport, Writes, Reads, ReceivePlaces
<1> SUFFICES UserportTypeOK' /\ ServantTypeOK' /\ BoardInv' /\ ClientTypeOK' /\ CallInv'
  BY DEF Kinds
<1>2. /\ req \in Calls /\ part \in 1 .. 3 /\ part <= Replies(req) /\ got \in Seq(Byte)
      /\ Receives(req) /\ Len(got) = Prior + IF pc = "receive" THEN 0 ELSE moved
      /\ pc = "read" => moved < Wanted
      /\ pc = "receiveReport" => moved = Wanted
      /\ moved \in Nat /\ ~result /\ initialized \in BOOLEAN /\ result \in BOOLEAN
  BY <1>1 DEF CallInv, ClientTypeOK
<1>3. /\ Wanted \in Nat /\ Prior \in Nat /\ Len(got) \in Nat
      /\ part >= 2 => got # <<>> /\ req.op = "identify"
  BY <1>1, ReplySizes
<1> DEFINE Rest == /\ ~result' /\ Receives(req)' /\ part' <= Replies(req)'
                   /\ (part >= 2 => got # <<>>)'
                   /\ Len(got)' = Prior' + IF pc' = "receive" THEN 0 ELSE moved'
<1>4. ASSUME Rest, pc' \in {"receive", "read", "receiveReport"},
             pc' = "read" => moved' < Wanted',
             pc' = "receiveReport" => moved' = Wanted'
      PROVE  CallInv'
  BY <1>4 DEF CallInv, Preparing, PingPlaces, SendPlaces, ReceivePlaces
<1>5. ASSUME pc' = "close" PROVE CallInv'
  BY <1>5 DEF CallInv, Preparing, PingPlaces, SendPlaces, ReceivePlaces
<1> USE DEF ClientTypeOK
<1>6. CASE Receive
  <2>1. ReceiveFrame \in Seq(Byte) /\ tx' \in Seq(Byte)
    BY <1>1, <1>3, <1>6, TransferFrames DEF ReceiveFrame, Receive
  <2>2. /\ Writes("receive", ReceiveFrame, IF Wanted = 0 THEN "receiveReport" ELSE "read")
        /\ moved' = 0
        /\ UNCHANGED << tx, req, part, got, initialized, result >>
    BY <1>6 DEF Receive, ReceiveFrame
  <2>3. /\ UserportTypeOK' /\ ServantTypeOK' /\ BoardInv' /\ pc = "receive"
        /\ pc' = IF Wanted = 0 THEN "receiveReport" ELSE "read"
    BY <2>1, <2>2, Writing
  <2>4. Wanted' = Wanted /\ Prior' = Prior
    BY <2>2 DEF Wanted, Prior
  <2>5. Rest
    BY <1>2, <1>3, <2>2, <2>3, <2>4 DEF Receives, Replies
  <2>6. CallInv'
    BY <1>3, <1>4, <2>2, <2>3, <2>4, <2>5
  <2> QED
    BY <1>1, <2>2, <2>3, <2>6
<1>7. CASE Read
  <2>1. /\ UserportTypeOK' /\ ServantTypeOK' /\ BoardInv' /\ pc = "read" /\ tx[1] \in Byte
    BY <1>7, Taking DEF Read
  <2>2. /\ got' = Append(got, tx[1]) /\ moved' = moved + 1
        /\ pc' = IF moved' = Wanted THEN "receiveReport" ELSE "read"
        /\ UNCHANGED << req, part, initialized, result >>
    BY <1>7 DEF Read
  <2>3. got' \in Seq(Byte) /\ Len(got') = Len(got) + 1 /\ (got # <<>> => got'[1] = got[1])
    BY <1>2, <2>1, <2>2
  <2>4. part \in 1 .. 3 /\ (part >= 2 => got'[1] = got[1])
    BY <1>2, <1>3, <2>3
  <2>5. Wanted' = Wanted
    <3>1. part = 1 => Wanted' = Wanted
      BY <2>2 DEF Wanted, ReplySize
    <3>2. part >= 2 => Wanted' = Wanted
      BY <2>2, <2>4 DEF Wanted, ReplySize
    <3> QED
      BY <2>4, <3>1, <3>2
  <2>6. Prior' = Prior
    <3>1. part = 1 => Prior' = Prior
      BY <2>2 DEF Prior
    <3>2. part >= 2 => Prior' = Prior
      BY <2>2, <2>4 DEF Prior
    <3> QED
      BY <2>4, <3>1, <3>2
  <2>7. got' # <<>>
    BY <1>3, <2>3
  <2>8. Rest
    BY <1>2, <1>3, <2>1, <2>2, <2>3, <2>6, <2>7 DEF Receives, Replies
  <2>9. CallInv'
    BY <1>2, <1>3, <1>4, <2>1, <2>2, <2>5, <2>8
  <2> QED
    BY <1>1, <1>2, <2>1, <2>2, <2>3, <2>9
<1>8. CASE ReceiveReport
  <2>1. UserportTypeOK' /\ ServantTypeOK' /\ BoardInv' /\ pc = "receiveReport"
    BY <1>8, Taking DEF ReceiveReport
  <2>2. UNCHANGED << req, moved, got, initialized >>
    BY <1>8 DEF ReceiveReport
  <2>3. CASE pc' = "close" /\ part' = part /\ result' = result
    BY <1>1, <1>2, <1>5, <2>1, <2>2, <2>3
  <2>4. CASE part < Replies(req) /\ part' = part + 1 /\ pc' = "receive" /\ result' = result
    <3>1. req.op = "identify" /\ part \in 1 .. 2
      BY <1>2, <2>4 DEF Replies
    <3>2. Len(got) = Prior + Wanted
      BY <1>2, <2>1
    <3>3. Prior' = Prior + Wanted /\ Prior + Wanted >= 1
      <4>1. CASE part = 1
        BY <2>2, <2>4, <3>1, <4>1 DEF Prior, Wanted, ReplySize
      <4>2. CASE part = 2
        <5>1. Prior = 1 /\ Wanted = got[1] % 16 /\ Prior' = 1 + (got[1] % 16)
          BY <2>2, <2>4, <3>1, <4>2 DEF Prior, Wanted, ReplySize
        <5> QED
          BY <1>3, <5>1
      <4> QED
        BY <3>1, <4>1, <4>2
    <3>4. got # <<>>
      BY <1>2, <3>2, <3>3
    <3>5. Rest
      BY <1>2, <1>3, <2>2, <2>4, <3>1, <3>2, <3>3, <3>4 DEF Receives, Replies
    <3>6. CallInv'
      BY <1>4, <2>4, <3>5
    <3> QED
      BY <1>1, <1>2, <2>1, <2>2, <2>4, <3>1, <3>6
  <2>5. CASE /\ pc' = "close" /\ result' = (req.op = "identify" => ~Unidentified(got))
             /\ part' = part
    <3>1. result' \in BOOLEAN
      BY <2>5, Zenon
    <3> QED
      BY <1>1, <1>2, <1>5, <2>1, <2>2, <2>5, <3>1
  <2> QED
    BY <1>8, <2>3, <2>4, <2>5 DEF ReceiveReport
<1> QED
  BY <1>6, <1>7, <1>8

LEMMA ClientKinds ==
  ASSUME Kinds, BoardInv, CallInv, ClientStep \/ GiveUp
  PROVE  Kinds' /\ BoardInv' /\ CallInv'
BY PreparingKinds, SendKinds, ReceiveKinds DEF ClientStep

-----------------------------------------------------------------------------
(* Steps of the firmware: the call does not notice.                        *)
LEMMA CallStays ==
  ASSUME ClientTypeOK, CallInv, UNCHANGED client
  PROVE  ClientTypeOK' /\ CallInv'
BY DEF ClientTypeOK, CallInv, client, Sending, Wanted, Prior

LEMMA BusBytesHere ==
  ASSUME UserportTypeOK
  PROVE  BusValues \subseteq Byte
<1>1. 255 \in Byte
  BY DEF Byte
<1> QED
  BY <1>1, ContentionAssumption DEF ContentionAssumption, UserportTypeOK, BusValues

LEMMA TakenKinds ==
  ASSUME Kinds, NEW cmd, Takes(cmd)
  PROVE  /\ rx' \in Seq(Byte) /\ fpc = "frame" /\ \A i \in 1 .. 9 : rx[i] \in Byte
         /\ SubSeq(rx, 2, 5) \in Seq(Byte) /\ Len(SubSeq(rx, 2, 5)) = 4
         /\ rx' = SubSeq(rx, 10, Len(rx)) /\ Len(rx') = Len(rx) - 9 /\ Len(rx) >= 9
         /\ rx[1] = cmd
<1>1. rx \in Seq(Byte)
  BY DEF Kinds, ServantTypeOK
<1>2. Len(rx) >= 9 /\ rx' = SubSeq(rx, 9 + 1, Len(rx)) /\ fpc = "frame" /\ rx[1] = cmd
  BY DEF Takes, FrameLength
<1>3. /\ SubSeq(rx, 9 + 1, Len(rx)) \in Seq(Byte) /\ \A i \in 1 .. 9 : rx[i] \in Byte
      /\ Len(SubSeq(rx, 9 + 1, Len(rx))) = Len(rx) - 9
  <2>1. 9 \in Nat /\ 9 <= Len(rx)
    BY <1>1, <1>2
  <2> QED
    BY <1>1, <2>1, Remaining
<1>4. /\ SubSeq(rx, 2, 5) \in Seq(Byte)
      /\ Len(SubSeq(rx, 2, 5)) = IF 2 <= 5 THEN 5 - 2 + 1 ELSE 0
  <2>1. \A i \in 2 .. 5 : i \in 1 .. 9
    OBVIOUS
  <2>2. \A i \in 2 .. 5 : rx[i] \in Byte
    BY <1>3, <2>1, Zenon
  <2> QED
    BY <2>2, SubSeqProperties
<1>5. 9 + 1 = 10 /\ (IF 2 <= 5 THEN 5 - 2 + 1 ELSE 0) = 4
  OBVIOUS
<1>6. rx' = SubSeq(rx, 10, Len(rx)) /\ Len(rx') = Len(rx) - 9
  BY <1>2, <1>3, <1>5
<1> QED
  BY <1>2, <1>3, <1>4, <1>5, <1>6

LEMMA NarrowSize ==
  ASSUME NEW s \in Seq(Byte), Len(s) = 4
  PROVE  Narrow(s) \in 0 .. MaxSize
<1>1. s[1] \in Nat /\ s[2] \in Nat /\ s[3] \in Nat
  <2>1. \A i \in 1 .. Len(s) : s[i] \in Byte
    BY ElementOfSeq
  <2>2. 1 \in 1 .. Len(s) /\ 2 \in 1 .. Len(s) /\ 3 \in 1 .. Len(s)
    OBVIOUS
  <2>3. s[1] \in Byte /\ s[2] \in Byte /\ s[3] \in Byte
    BY <2>1, <2>2, Zenon
  <2>4. \A x \in Byte : x \in Nat
    BY DEF Byte
  <2> QED
    BY <2>3, <2>4, Zenon
<1>2. Word(s[1], s[2]) + AddressSpace * s[3] \in Nat
  BY <1>1 DEF Word, AddressSpace
<1>3. MaxSize \in Nat
  BY MaxSizeAssumption DEF MaxSizeAssumption
<1> DEFINE n == Word(s[1], s[2]) + AddressSpace * s[3]
<1>4. Narrow(s) = IF s[4] # 0 \/ n > MaxSize THEN MaxSize ELSE n
  BY DEF Narrow
<1> HIDE DEF n
<1>5. n \in Nat
  BY <1>2 DEF n
<1> QED
  BY <1>3, <1>4, <1>5

LEMMA CommandKinds ==
  ASSUME Kinds, BoardInv, UNCHANGED client,
         \/ FwStrobe \/ FwAcked \/ FwInput \/ FwOutput \/ FwRead \/ FwWrite \/ FwUnknown
         \/ FwSend \/ FwReceive
  PROVE  UserportTypeOK' /\ ServantTypeOK' /\ BoardInv'
<1>1. /\ \E cmd : Takes(cmd)
      /\ tx \in Seq(Byte) /\ 255 \in Byte
  BY Commands DEF FwStrobe, FwAcked, FwInput, FwOutput, FwRead, FwWrite, FwUnknown, FwSend,
     FwReceive, FwTransfer, Kinds, ServantTypeOK
<1>2. /\ rx' \in Seq(Byte) /\ fpc = "frame" /\ rx[2] \in Byte
      /\ SubSeq(rx, 2, 5) \in Seq(Byte) /\ Len(SubSeq(rx, 2, 5)) = 4
  BY <1>1, TakenKinds
<1> USE DEF Kinds, UserportTypeOK, ServantTypeOK, BoardInv, bus, userport, firmware
<1>3. CASE FwStrobe
  BY <1>2, <1>3 DEF FwStrobe, strobe
<1>4. CASE FwAcked
  <2>1. tx' \in Seq(Byte)
    <3>1. (IF last # pa2 THEN Yes ELSE No) \in Byte
      BY Commands
    <3> QED
      BY <1>1, <1>4, <3>1 DEF FwAcked
  <2> QED
    BY <1>2, <1>4, <2>1 DEF FwAcked
<1>5. CASE FwInput
  BY <1>1, <1>2, <1>5 DEF FwInput, input
<1>6. CASE FwOutput
  BY <1>2, <1>6 DEF FwOutput, output
<1>7. CASE FwRead
  <2>1. tx' \in Seq(Byte)
    BY <1>1, <1>7, BusBytesHere DEF FwRead
  <2> QED
    BY <1>2, <1>7, <2>1 DEF FwRead
<1>8. CASE FwWrite
  BY <1>2, <1>8 DEF FwWrite
<1>9. CASE FwUnknown
  BY <1>2, <1>9 DEF FwUnknown
<1>10. CASE FwSend \/ FwReceive
  <2> DEFINE n == Narrow(SubSeq(rx, 2, 5))
  <2>1. n \in 0 .. MaxSize
    BY <1>2, NarrowSize
  <2>2. /\ size' = n /\ count' = 0
        /\ \/ n = 0 /\ tx' = tx \o Wide(0) /\ fpc' = fpc
           \/ n # 0 /\ fpc' \in {"sendByte", "recvWait"} /\ tx' = tx
        /\ UNCHANGED << userport, last >>
    BY <1>10 DEF FwSend, FwReceive, FwTransfer
  <2> HIDE DEF n
  <2>3. tx' \in Seq(Byte)
    <3>1. 0 \in Nat
      OBVIOUS
    <3>2. Wide(0) \in Seq(Byte)
      BY <3>1, WideBytes
    <3>3. tx \o Wide(0) \in Seq(Byte)
      BY <1>1, <3>2, Join
    <3> QED
      BY <1>1, <2>2, <3>3, Zenon
  <2>4. timed' \in BOOLEAN
    BY <1>10, Zenon DEF FwSend, FwReceive, FwTransfer
  <2>5. MaxSize \in Nat
    BY MaxSizeAssumption DEF MaxSizeAssumption
  <2>6. fpc' # "frame" => count' < size'
    BY <1>2, <2>1, <2>2, <2>5
  <2> QED
    BY <1>2, <2>1, <2>2, <2>3, <2>4, <2>5, <2>6
<1> QED
  BY <1>3, <1>4, <1>5, <1>6, <1>7, <1>8, <1>9, <1>10

LEMMA TransferKinds ==
  ASSUME Kinds, BoardInv, UNCHANGED client,
         \/ FwSendByte \/ FwSendStrobe \/ FwSent \/ FwOffered \/ FwRecvRead \/ FwRecvStrobe
         \/ FwSendTimeout \/ FwRecvTimeout
  PROVE  UserportTypeOK' /\ ServantTypeOK' /\ BoardInv'
<1>1. /\ tx \in Seq(Byte) /\ rx \in Seq(Byte) /\ <<>> \in Seq(Byte)
      /\ size \in Nat /\ count \in Nat /\ fpc # "frame"
  BY MaxSizeAssumption DEF MaxSizeAssumption, Kinds, ServantTypeOK, FwSendByte, FwSendStrobe,
     FwSent, FwOffered, FwRecvRead, FwRecvStrobe, FwSendTimeout, FwRecvTimeout
<1>2. count < size
  BY <1>1 DEF BoardInv
<1>3. \A n \in Nat : tx \o Wide(n) \in Seq(Byte)
  BY <1>1, WideBytes, Join
<1> USE DEF Kinds, UserportTypeOK, ServantTypeOK, BoardInv, bus, userport, firmware
<1>4. CASE FwSendByte
  <2>1. rx' \in Seq(Byte) /\ pcData' \in Byte
    BY <1>1, <1>4, HeadTailProperties DEF FwSendByte
  <2> QED
    BY <1>2, <1>4, <2>1 DEF FwSendByte
<1>5. CASE FwSendStrobe
  BY <1>2, <1>5 DEF FwSendStrobe, strobe
<1>6. CASE FwSent
  <2>1. /\ fpc' \in {"frame", "sendByte"} /\ count' = count + 1 /\ last' = pa2
        /\ fpc' # "frame" => count' # size
        /\ tx' = tx \/ tx' = tx \o Wide(size)
        /\ UNCHANGED << userport, rx, size, timed >>
    BY <1>6 DEF FwSent
  <2>2. tx' \in Seq(Byte)
    BY <1>1, <1>3, <2>1
  <2>3. fpc' # "frame" => count' < size'
    BY <1>1, <1>2, <2>1
  <2> QED
    BY <1>1, <2>1, <2>2, <2>3
<1>7. CASE FwOffered
  BY <1>2, <1>7 DEF FwOffered
<1>8. CASE FwRecvRead
  <2>1. tx' \in Seq(Byte)
    BY <1>1, <1>8, BusBytesHere DEF FwRecvRead
  <2> QED
    BY <1>2, <1>8, <2>1 DEF FwRecvRead
<1>9. CASE FwRecvStrobe
  <2>1. /\ fpc' \in {"frame", "recvWait"} /\ count' = count + 1 /\ flag' = TRUE
        /\ fpc' # "frame" => count' # size
        /\ tx' = tx \/ tx' = tx \o Wide(size)
        /\ UNCHANGED << pa2, bus, rx, size, timed, last >>
    BY <1>9 DEF FwRecvStrobe, strobe
  <2>2. tx' \in Seq(Byte)
    BY <1>1, <1>3, <2>1
  <2>3. fpc' # "frame" => count' < size'
    BY <1>1, <1>2, <2>1
  <2> QED
    BY <1>1, <2>1, <2>2, <2>3
<1>10. CASE FwSendTimeout
  <2>1. tx' \in Seq(Byte)
    BY <1>1, <1>3, <1>10 DEF FwSendTimeout
  <2> QED
    BY <1>1, <1>10, <2>1 DEF FwSendTimeout
<1>11. CASE FwRecvTimeout
  <2> DEFINE high == [i \in 1 .. size - count |-> 255]
  <2>1. high \in Seq(Byte)
    <3>1. size - count \in Nat /\ 255 \in Byte
      BY <1>1, <1>2, Commands
    <3> QED
      BY <3>1
  <2>2. tx' = tx \o high \o Wide(count + 1)
    BY <1>11 DEF FwRecvTimeout
  <2> HIDE DEF high
  <2>3. tx \o high \in Seq(Byte)
    BY <1>1, <2>1, Join
  <2>4. Wide(count + 1) \in Seq(Byte)
    <3>1. count + 1 \in Nat
      BY <1>1
    <3> QED
      BY <3>1, WideBytes
  <2>5. tx' \in Seq(Byte)
    BY <2>2, <2>3, <2>4, Join
  <2> QED
    BY <1>1, <1>11, <2>5 DEF FwRecvTimeout
<1> QED
  BY <1>4, <1>5, <1>6, <1>7, <1>8, <1>9, <1>10, <1>11

LEMMA BoardKinds ==
  ASSUME Kinds, BoardInv, CallInv, FwStep \/ FwSendTimeout \/ FwRecvTimeout, UNCHANGED client
  PROVE  Kinds' /\ BoardInv' /\ CallInv'
<1>1. UserportTypeOK' /\ ServantTypeOK' /\ BoardInv'
  BY CommandKinds, TransferKinds DEF FwStep
<1>2. ClientTypeOK' /\ CallInv'
  BY CallStays DEF Kinds
<1> QED
  BY <1>1, <1>2 DEF Kinds

-----------------------------------------------------------------------------
(* The kinds of all variables, and what makes them inductive. *)
KindInv ==
  /\ TypeOK
  /\ BoardInv
  /\ CallInv
  /\ Port!ServerInv
  /\ Port!Drives

LEMMA SamePrimed ==
  /\ Port!UserportTypeOK' <=> UserportTypeOK'
  /\ Port!ServerTypeOK' <=> ServerTypeOK'
<1>1. Port!UserportTypeOK <=> UserportTypeOK
  BY SameCable
<1>2. Port!ServerTypeOK <=> ServerTypeOK
  BY SameServer
<1> QED
  BY <1>1, <1>2, PTL

LEMMA ServerKinds ==
  ASSUME KindInv, ServerStep
  PROVE  UserportTypeOK' /\ ServerTypeOK' /\ Port!ServerInv' /\ Port!Drives'
<1>1. Port!UserportTypeOK /\ Port!ServerTypeOK /\ Port!ServerInv /\ Port!Drives
      /\ Port!ServerStep
  BY SameCable, SameServer, SameSteps DEF KindInv, TypeOK
<1>2. Port!UserportTypeOK' /\ Port!ServerTypeOK' /\ Port!ServerInv'
  BY <1>1, Assumptions, Port!ServerProgress DEF Port!ServerProgress, Assumed
<1>3. Port!Drives'
  BY <1>1, Assumptions, Port!DrivesStays DEF Port!DrivesStays, Assumed
<1> QED
  BY <1>2, <1>3, SamePrimed

LEMMA ServerKeeps ==
  ASSUME KindInv, UNCHANGED << server, ciaDriving >>
  PROVE  ServerTypeOK' /\ Port!ServerInv' /\ Port!Drives'
BY DEF KindInv, TypeOK, ServerTypeOK, Port!ServerInv, Port!Drives, server

LEMMA ResetKinds ==
  ASSUME KindInv, ResetMachine
  PROVE  UserportTypeOK' /\ ServerTypeOK' /\ Port!ServerInv' /\ Port!Drives'
BY DEF KindInv, TypeOK, ResetMachine, UserportTypeOK, ServerTypeOK, ServerPC, Port!ServerInv,
       Port!Drives

LEMMA BudgetKinds ==
  ASSUME budget \in 0 .. MaxBudget, Spend \/ UNCHANGED budget
  PROVE  budget' \in 0 .. MaxBudget
BY BudgetAssumption DEF BudgetAssumption, Spend

LEMMA InitKinds ==
  ASSUME Init
  PROVE  KindInv
<1>1. UserportTypeOK
  <2>1. flag \in BOOLEAN /\ pcDriving \in BOOLEAN /\ ciaDriving \in BOOLEAN
    BY Zenon DEF Init, UserportInit
  <2>2. pa2 \in {0, 1} /\ pcData \in Byte /\ ciaData \in Byte
    BY SMT DEF Init, UserportInit, Byte
  <2> QED
    BY <2>1, <2>2 DEF UserportTypeOK
<1>2. ServantTypeOK /\ BoardInv
  <2>1. timed \in BOOLEAN
    BY Zenon DEF Init, ServantInit
  <2>2. /\ fpc = "frame" /\ rx = <<>> /\ tx = <<>> /\ size = 0 /\ count = 0
        /\ last = pa2 /\ pa2 \in {0, 1}
    BY DEF Init, ServantInit, UserportInit
  <2>3. <<>> \in Seq(Byte) /\ 0 \in 0 .. MaxSize /\ last \in {0, 1}
    BY <2>2, MaxSizeAssumption DEF MaxSizeAssumption
  <2>4. ServantTypeOK
    BY <2>1, <2>2, <2>3 DEF ServantTypeOK
  <2> QED
    BY <2>1, <2>2, <2>4 DEF BoardInv
<1>3. ClientTypeOK /\ CallInv
  <2>1. req \in Calls
    BY CallsAssumption DEF CallsAssumption, Init, ClientInit
  <2>2. result \in BOOLEAN /\ initialized \in BOOLEAN
    BY Zenon DEF Init, ClientInit
  <2>3. pc = "idle" /\ part = 1 /\ moved = 0 /\ got = <<>>
    BY DEF Init, ClientInit
  <2> QED
    BY <2>1, <2>2, <2>3
    DEF ClientTypeOK, CallInv, Preparing, PingPlaces, SendPlaces, ReceivePlaces
<1>4. ServerTypeOK /\ Port!ServerInv /\ Port!Drives
  <2>1. 0 \in Address
    BY DEF Address, AddressSpace
  <2>2. Port!Handler \in Port!Address
    BY Assumptions, Port!VectorAddresses DEF Port!VectorAddresses, Assumed
  <2>3. IsMemory(mem) /\ vector \in Address
    BY <2>2, SameCable, SameServer, MemoryAssumption DEF MemoryAssumption, Init, ServerInit
  <2>4. isBasic \in BOOLEAN /\ masked \in BOOLEAN
    BY Zenon DEF Init, ServerInit
  <2>5. /\ spc = "main" /\ scmd \in Byte /\ hdr = <<>> /\ cursor \in Address /\ sidx = 0
        /\ entry = [kind |-> "none", at |-> 0] /\ ciaDriving = FALSE
    BY <2>1 DEF Init, ServerInit, UserportInit, Byte, PingCmd
  <2> QED
    BY <2>1, <2>3, <2>4, <2>5 DEF ServerTypeOK, ServerPC, Port!ServerInv, Port!Drives
<1>5. clean \in BOOLEAN /\ done \in Nat /\ budget \in 0 .. MaxBudget
  BY BudgetAssumption DEF BudgetAssumption, Init
<1> QED
  BY <1>1, <1>2, <1>3, <1>4, <1>5 DEF KindInv, TypeOK

(* Only a reset of the C64 and the server itself change what it drives.    *)
LEMMA LinesKept ==
  ASSUME \/ Call \/ ClientStep \/ GiveUp \/ NewProcess
         \/ FwStep \/ FwSendTimeout \/ FwRecvTimeout
  PROVE  ciaDriving' = ciaDriving
<1>1. ASSUME Call \/ ClientStep \/ GiveUp \/ NewProcess PROVE ciaDriving' = ciaDriving
  BY <1>1 DEF Call, ClientStep, GiveUp, NewProcess, Open, OpenFails, Reset, PingOutput, PingWrite,
     PingStrobe, Ask, Answer, AskAgain, Output, Send, SendData, SendReport, Input, Turn,
     Receive, Read, ReceiveReport, Close, Writes, Reads, userport
<1>2. ASSUME FwStep \/ FwSendTimeout \/ FwRecvTimeout PROVE ciaDriving' = ciaDriving
  BY <1>2 DEF FwStep, FwStrobe, FwAcked, FwInput, FwOutput, FwRead, FwWrite, FwUnknown, FwSend,
     FwReceive, FwTransfer, FwSendByte, FwSendStrobe, FwSent, FwOffered, FwRecvRead, FwRecvStrobe,
     FwSendTimeout, FwRecvTimeout, userport, bus
<1> QED
  BY <1>1, <1>2

LEMMA StepKinds ==
  ASSUME KindInv, [Next]_vars
  PROVE  KindInv'
<1>1. Kinds /\ BoardInv /\ CallInv /\ clean \in BOOLEAN /\ done \in Nat
      /\ budget \in 0 .. MaxBudget
  BY DEF KindInv, TypeOK, Kinds
<1>2. SUFFICES /\ Kinds' /\ BoardInv' /\ CallInv'
               /\ ServerTypeOK' /\ Port!ServerInv' /\ Port!Drives'
               /\ clean' \in BOOLEAN /\ done' \in Nat /\ budget' \in 0 .. MaxBudget
  BY DEF KindInv, TypeOK, Kinds
<1>3. CASE NewCall \/ NextProcess
  <2>1. Kinds' /\ BoardInv' /\ CallInv'
    <3>1. /\ UNCHANGED << userport, rx, tx, firmware, part, moved, got >>
          /\ pc = "idle" /\ initialized' \in BOOLEAN
          /\ \/ pc' = "open" /\ req' \in Calls /\ ~result' /\ result' \in BOOLEAN
             \/ pc' = "idle" /\ req' = req /\ result' = result
      BY <1>1, <1>3, Zenon DEF NewCall, Call, NextProcess, NewProcess, Kinds, ClientTypeOK
    <3>2. UserportTypeOK' /\ ServantTypeOK' /\ BoardInv'
      BY <1>1, <3>1, OnTheLine DEF Kinds, ServantTypeOK
    <3>3. ClientTypeOK'
      BY <1>1, <3>1 DEF Kinds, ClientTypeOK
    <3>4. CallInv'
      BY <1>1, <3>1 DEF CallInv, Preparing, PingPlaces, SendPlaces, ReceivePlaces
    <3> QED
      BY <3>2, <3>3, <3>4 DEF Kinds
  <2>2. clean' \in BOOLEAN /\ done' \in Nat /\ UNCHANGED server
    <3>1. InStep \in BOOLEAN
      BY DEF InStep
    <3>2. clean' \in BOOLEAN
      BY <1>1, <1>3, <3>1, Zenon DEF NewCall, NextProcess
    <3> QED
      BY <1>1, <1>3, <3>2 DEF NewCall, NextProcess
  <2>3. budget' \in 0 .. MaxBudget
    BY <1>1, <1>3, BudgetKinds DEF NewCall, NextProcess
  <2>4. ciaDriving' = ciaDriving
    BY <1>3, LinesKept DEF NewCall, NextProcess
  <2> QED
    BY <2>1, <2>2, <2>3, <2>4, ServerKeeps
<1>4. CASE ClientProceeds \/ PingGivesUp \/ (LateAnswer /\ GiveUp)
  <2>1. /\ ClientStep \/ GiveUp
        /\ UNCHANGED << server, done >> /\ (Spend \/ UNCHANGED budget)
        /\ clean' \in BOOLEAN
    BY <1>1, <1>4 DEF ClientProceeds, PingGivesUp, LateAnswer
  <2>2. Kinds' /\ BoardInv' /\ CallInv' /\ ciaDriving' = ciaDriving
    BY <1>1, <2>1, ClientKinds, LinesKept
  <2> QED
    BY <1>1, <2>1, <2>2, ServerKeeps, BudgetKinds
<1>5. CASE FirmwareProceeds \/ FirmwareGivesUp \/ (LateAnswer /\ ~GiveUp)
  <2>1. /\ FwStep \/ FwSendTimeout \/ FwRecvTimeout
        /\ UNCHANGED << client, server, done >> /\ (Spend \/ UNCHANGED budget)
        /\ clean' \in BOOLEAN
    BY <1>1, <1>5 DEF FirmwareProceeds, FirmwareGivesUp, LateAnswer
  <2>2. Kinds' /\ BoardInv' /\ CallInv' /\ ciaDriving' = ciaDriving
    BY <1>1, <2>1, BoardKinds, LinesKept
  <2> QED
    BY <1>1, <2>1, <2>2, ServerKeeps, BudgetKinds
<1>6. CASE FirmwareResets \/ PowerCycle
  <2>1. /\ ResetMachine /\ UNCHANGED << tx, firmware, client, done >>
        /\ (Spend \/ UNCHANGED budget) /\ clean' = FALSE
        /\ rx' = rx \/ \E cmd : Takes(cmd)
    BY <1>6 DEF FirmwareResets, PowerCycle
  <2>2. UserportTypeOK' /\ ServerTypeOK' /\ Port!ServerInv' /\ Port!Drives'
    BY <2>1, ResetKinds
  <2>3. rx' \in Seq(Byte)
    BY <1>1, <2>1, TakenKinds DEF Kinds, ServantTypeOK
  <2>4. ServantTypeOK' /\ BoardInv'
    BY <1>1, <2>1, <2>3 DEF Kinds, ServantTypeOK, BoardInv, firmware
  <2>5. ClientTypeOK' /\ CallInv'
    BY <1>1, <2>1, CallStays DEF Kinds
  <2>6. clean' \in BOOLEAN
    BY <2>1, Zenon
  <2> QED
    BY <1>1, <2>1, <2>2, <2>4, <2>5, <2>6, BudgetKinds DEF Kinds
<1>7. CASE ServerProceeds
  <2>1. ServerStep /\ UNCHANGED << rx, tx, firmware, client, clean, budget >> /\ done' \in Nat
    BY <1>1, <1>7 DEF ServerProceeds
  <2>2. ServantTypeOK' /\ BoardInv' /\ ClientTypeOK' /\ CallInv'
    BY <1>1, <2>1, CallStays DEF Kinds, ServantTypeOK, BoardInv, firmware
  <2> QED
    BY <1>1, <2>1, <2>2, ServerKinds DEF Kinds
<1>8. CASE UserInstalls \/ ForegroundRuns
  <2>1. (Install \/ Foreground) /\ UNCHANGED << rx, tx, firmware, client, clean, done, budget >>
    BY <1>8 DEF UserInstalls, ForegroundRuns, others
  <2>2. ServantTypeOK' /\ BoardInv' /\ ClientTypeOK' /\ CallInv'
    BY <1>1, <2>1, CallStays DEF Kinds, ServantTypeOK, BoardInv, firmware
  <2>3. UserportTypeOK' /\ ServerTypeOK' /\ Port!ServerInv' /\ Port!Drives'
    <3>1. Handler \in Address
      <4>1. Port!Handler \in Port!Address
        BY Assumptions, Port!VectorAddresses DEF Port!VectorAddresses, Assumed
      <4> QED
        BY <4>1, SameCable, SameServer
    <3>2. UserportTypeOK /\ ServerTypeOK /\ Port!ServerInv /\ Port!Drives
      BY DEF KindInv, TypeOK
    <3>3. CASE Install
      BY <3>1, <3>2, <3>3 DEF Install, UserportTypeOK, ServerTypeOK, Port!ServerInv, Port!Drives
    <3>4. CASE Foreground
      BY <3>2, <3>4 DEF Foreground, UserportTypeOK, ServerTypeOK, Port!ServerInv, Port!Drives,
         userport
    <3> QED
      BY <2>1, <3>3, <3>4
  <2> QED
    BY <1>1, <2>1, <2>2, <2>3 DEF Kinds
<1>9. CASE Killed
  <2>1. /\ UNCHANGED << userport, rx, tx, firmware, req, server, done >> /\ Spend
        /\ pc' = "idle" /\ part' = 1 /\ moved' = 0 /\ got' = <<>>
        /\ initialized' \in BOOLEAN /\ result' \in BOOLEAN /\ clean' \in BOOLEAN
    BY <1>9, Zenon DEF Killed
  <2>2. UserportTypeOK' /\ ServantTypeOK' /\ BoardInv'
    BY <1>1, <2>1, OnTheLine DEF Kinds, ServantTypeOK
  <2>3. ClientTypeOK' /\ CallInv'
    BY <1>1, <2>1 DEF Kinds, ClientTypeOK, CallInv, Preparing, PingPlaces, SendPlaces,
       ReceivePlaces
  <2>4. ciaDriving' = ciaDriving
    BY <2>1 DEF userport
  <2> QED
    BY <1>1, <2>1, <2>2, <2>3, <2>4, ServerKeeps, BudgetKinds DEF Kinds
<1>10. CASE UNCHANGED vars
  <2>1. UNCHANGED << userport, rx, tx, firmware, client, server, clean, done, budget >>
    BY <1>10 DEF vars
  <2>2. UserportTypeOK' /\ ServantTypeOK' /\ BoardInv'
    BY <1>1, <2>1, OnTheLine DEF Kinds, ServantTypeOK
  <2>3. ClientTypeOK' /\ CallInv' /\ ciaDriving' = ciaDriving
    BY <1>1, <2>1, CallStays DEF Kinds, userport
  <2> QED
    BY <1>1, <2>1, <2>2, <2>3, ServerKeeps DEF Kinds
<1> QED
  BY <1>3, <1>4, <1>5, <1>6, <1>7, <1>8, <1>9, <1>10 DEF Next, Fault

(* For all requests, memories, servers and faults, and for every size of a *)
(* write: every variable of the firmware, of the driver and of the server  *)
(* holds a value of its kind.                                              *)
THEOREM SerialTypeCorrect == Spec => []TypeOK
<1>1. Init => KindInv
  BY InitKinds
<1>2. KindInv /\ [Next]_vars => KindInv'
  BY StepKinds
<1>3. KindInv => TypeOK
  BY DEF KindInv
<1> QED
  BY <1>1, <1>2, <1>3, PTL DEF Spec

-----------------------------------------------------------------------------
(* How long what the driver has yet to write is.                           *)
LEMMA Chain ==
  ASSUME NEW f \in Seq(Byte), Len(f) = 9, NEW r \in Seq(Byte)
  PROVE  f \o r \in Seq(Byte) /\ Len(f \o r) = 9 + Len(r) /\ Len(r) \in Nat
<1>1. f \o r \in Seq(Byte) /\ Len(f \o r) = Len(f) + Len(r) /\ Len(r) \in Nat
  BY Join
<1> QED
  BY <1>1

LEMMA PingLengths ==
  /\ FromStrobe \in Seq(Byte) /\ FromWrite \in Seq(Byte) /\ FromOutput \in Seq(Byte)
  /\ InputFrame \o FromOutput \in Seq(Byte)
  /\ InputFrame \o (InputFrame \o FromOutput) \in Seq(Byte)
  /\ Len(FromStrobe) = 18 /\ Len(FromWrite) = 27 /\ Len(FromOutput) = 36
  /\ Len(InputFrame \o FromOutput) = 45 /\ Len(InputFrame \o (InputFrame \o FromOutput)) = 54
<1>1. FromStrobe \in Seq(Byte) /\ Len(FromStrobe) = 9 + Len(AskFrame)
  BY BasicFrames, Chain DEF FromStrobe
<1>2. FromWrite \in Seq(Byte) /\ Len(FromWrite) = 9 + Len(FromStrobe)
  BY <1>1, BasicFrames, Chain DEF FromWrite
<1>3. FromOutput \in Seq(Byte) /\ Len(FromOutput) = 9 + Len(FromWrite)
  BY <1>2, BasicFrames, Chain DEF FromOutput
<1>4. /\ InputFrame \o FromOutput \in Seq(Byte)
      /\ Len(InputFrame \o FromOutput) = 9 + Len(FromOutput)
  BY <1>3, BasicFrames, Chain
<1>5. /\ InputFrame \o (InputFrame \o FromOutput) \in Seq(Byte)
      /\ Len(InputFrame \o (InputFrame \o FromOutput)) = 9 + Len(InputFrame \o FromOutput)
  BY <1>4, BasicFrames, Chain
<1>6. Len(AskFrame) = 9
  BY BasicFrames
<1>7. Len(FromStrobe) = 18
  BY <1>1, <1>6
<1>8. Len(FromWrite) = 27
  BY <1>2, <1>7
<1>9. Len(FromOutput) = 36
  BY <1>3, <1>8
<1>10. Len(InputFrame \o FromOutput) = 45
  BY <1>4, <1>9
<1>11. Len(InputFrame \o (InputFrame \o FromOutput)) = 54
  BY <1>5, <1>10
<1> QED
  BY <1>1, <1>2, <1>3, <1>4, <1>5, <1>7, <1>8, <1>9, <1>10, <1>11

LEMMA SendLengths ==
  ASSUME KindInv, pc \in SendPlaces
  PROVE  /\ req \in Calls /\ part \in 1 .. 3 /\ req.op \notin {"ping", "reset"}
         /\ Sending \in Seq(Byte) /\ Len(Sending) \in Nat
         /\ Len(Sending) <= AddressSpace /\ Len(Sending) <= MaxSize
         /\ SendFrame \in Seq(Byte) /\ Len(SendFrame) = 9 /\ SendFrame[1] = CMD_SEND
         /\ SubSeq(SendFrame, 2, 5) = Wide(Len(Sending))
         /\ FromSend \in Seq(Byte) /\ Len(FromSend) = 9 + Len(Sending)
         /\ OutputFrame \o FromSend \in Seq(Byte)
         /\ Len(OutputFrame \o FromSend) = 18 + Len(Sending)
<1>1. /\ req \in Calls /\ part \in 1 .. 3 /\ req.op \notin {"ping", "reset"}
  BY DEF KindInv, TypeOK, ClientTypeOK, CallInv
<1>2. /\ Sending \in Seq(Byte) /\ Len(Sending) \in Nat
      /\ Len(Sending) <= AddressSpace /\ Len(Sending) <= MaxSize
  BY <1>1, PartSizes
<1>3. /\ SendFrame \in Seq(Byte) /\ Len(SendFrame) = 9 /\ SendFrame[1] = CMD_SEND
      /\ SubSeq(SendFrame, 2, 5) = Wide(Len(Sending))
  BY <1>2, TransferFrames DEF SendFrame
<1>4. FromSend \in Seq(Byte) /\ Len(FromSend) = 9 + Len(Sending)
  BY <1>2, <1>3, Chain DEF FromSend
<1>5. /\ OutputFrame \o FromSend \in Seq(Byte)
      /\ Len(OutputFrame \o FromSend) = 9 + Len(FromSend)
  BY <1>4, BasicFrames, Chain
<1>6. Len(OutputFrame \o FromSend) = 18 + Len(Sending)
  BY <1>2, <1>4, <1>5
<1> QED
  BY <1>1, <1>2, <1>3, <1>4, <1>5, <1>6

LEMMA ReceiveLengths ==
  ASSUME KindInv, pc \in ReceivePlaces
  PROVE  /\ req \in Calls /\ part \in 1 .. 3 /\ Receives(req) /\ got \in Seq(Byte)
         /\ Wanted \in Nat /\ Wanted <= AddressSpace /\ Wanted <= MaxSize
         /\ part >= 2 => got # <<>> /\ req.op = "identify" /\ got[1] % 16 \in 0 .. 15
         /\ Prior \in Nat /\ Len(got) \in Nat
         /\ ReceiveFrame \in Seq(Byte) /\ Len(ReceiveFrame) = 9
         /\ ReceiveFrame[1] = CMD_RECEIVE
         /\ SubSeq(ReceiveFrame, 2, 5) = Wide(Wanted)
         /\ FromTurn \in Seq(Byte) /\ Len(FromTurn) = 18
         /\ FromInput \in Seq(Byte) /\ Len(FromInput) = 27
<1>1. req \in Calls /\ part \in 1 .. 3 /\ Receives(req) /\ got \in Seq(Byte)
      /\ ClientTypeOK /\ CallInv
  BY DEF KindInv, TypeOK, ClientTypeOK, CallInv
<1>2. /\ Wanted \in Nat /\ Wanted <= AddressSpace /\ Wanted <= MaxSize
      /\ part >= 2 => got # <<>> /\ req.op = "identify" /\ got[1] % 16 \in 0 .. 15
      /\ Prior \in Nat /\ Len(got) \in Nat
  BY <1>1, ReplySizes
<1>3. /\ ReceiveFrame \in Seq(Byte) /\ Len(ReceiveFrame) = 9
      /\ ReceiveFrame[1] = CMD_RECEIVE
      /\ SubSeq(ReceiveFrame, 2, 5) = Wide(Wanted)
  BY <1>2, TransferFrames DEF ReceiveFrame
<1>4. FromTurn \in Seq(Byte) /\ Len(FromTurn) = 9 + Len(ReceiveFrame)
  BY <1>3, BasicFrames, Chain DEF FromTurn
<1>5. FromInput \in Seq(Byte) /\ Len(FromInput) = 9 + Len(FromTurn)
  BY <1>4, BasicFrames, Chain DEF FromInput
<1>6. Len(FromTurn) = 18
  BY <1>3, <1>4
<1>7. Len(FromInput) = 27
  BY <1>5, <1>6
<1> QED
  BY <1>1, <1>2, <1>3, <1>4, <1>5, <1>6, <1>7

LEMMA DueBytes ==
  ASSUME KindInv
  PROVE  /\ Due \in Seq(Byte) /\ rx \in Seq(Byte) /\ tx \in Seq(Byte) /\ Ahead \in Seq(Byte)
         /\ Left \in Nat /\ Left = Len(rx) + Len(Due) /\ Len(rx) \in Nat /\ Len(Due) \in Nat
         /\ Ahead = rx \o Due
<1>1. rx \in Seq(Byte) /\ tx \in Seq(Byte)
  BY DEF KindInv, TypeOK, ServantTypeOK
<1>2. Due \in Seq(Byte)
  <2>1. CASE pc \in PingPlaces
    BY <2>1, PingLengths, BasicFrames DEF Due, PingPlaces
  <2>2. CASE pc \in SendPlaces
    <3>1. pc = "data" => SubSeq(Sending, moved + 1, Len(Sending)) \in Seq(Byte)
      <4> SUFFICES ASSUME pc = "data"
                   PROVE  SubSeq(Sending, moved + 1, Len(Sending)) \in Seq(Byte)
        OBVIOUS
      <4>1. moved \in Nat /\ moved <= Len(Sending)
        BY DEF KindInv, TypeOK, ClientTypeOK, CallInv
      <4> QED
        BY <2>2, <4>1, SendLengths, Remaining
    <3> QED
      BY <2>2, <3>1, SendLengths DEF Due, SendPlaces
  <2>3. CASE pc \in ReceivePlaces
    BY <2>3, ReceiveLengths DEF Due, ReceivePlaces
  <2>4. CASE pc \notin PingPlaces \cup SendPlaces \cup ReceivePlaces
    <3>1. Due = <<>>
      BY <2>4 DEF Due, PingPlaces, SendPlaces, ReceivePlaces
    <3> QED
      BY <3>1
  <2> QED
    BY <2>1, <2>2, <2>3, <2>4
<1>3. Ahead \in Seq(Byte) /\ Left = Len(rx) + Len(Due) /\ Len(rx) \in Nat /\ Len(Due) \in Nat
  BY <1>1, <1>2, Join DEF Ahead, Left
<1> QED
  BY <1>1, <1>2, <1>3 DEF Ahead

(* The firmware takes the next command of what is ahead. *)
LEMMA NextFrame ==
  ASSUME KindInv, NEW f \in Seq(Byte), Len(f) = 9, NEW r \in Seq(Byte), Ahead = f \o r,
         NEW cmd, Takes(cmd), Due' = Due
  PROVE  /\ cmd = f[1] /\ Ahead' = r /\ rx[2] = f[2]
         /\ SubSeq(rx, 2, 5) = SubSeq(f, 2, 5)
         /\ Len(rx) >= 9 /\ fpc = "frame"
<1>1. Kinds
  BY DEF KindInv, TypeOK, Kinds
<1>2. /\ rx' \in Seq(Byte) /\ fpc = "frame" /\ Len(rx) >= 9
      /\ rx' = SubSeq(rx, 10, Len(rx)) /\ rx[1] = cmd
  BY <1>1, TakenKinds
<1>3. rx \in Seq(Byte) /\ Due \in Seq(Byte) /\ rx \o Due = f \o r
  BY DueBytes
<1>4. 9 <= Len(rx)
  BY <1>2
<1>5. /\ SubSeq(rx, 10, Len(rx)) \o Due = r
      /\ \A i \in 1 .. 9 : rx[i] = f[i]
  <2>1. NineOff(rx, Due, f, r)
    BY <1>3, <1>4, TakesNine
  <2> QED
    BY <2>1 DEF NineOff
<1>6. \A i \in 1 .. 9 : rx[i] = f[i]
  BY <1>5
<1>7. rx[1] = f[1] /\ rx[2] = f[2]
  BY <1>6
<1>8. SubSeq(rx, 2, 5) = SubSeq(f, 2, 5)
  <2>1. \A i \in 2 .. 5 : i \in 1 .. 9
    OBVIOUS
  <2>2. \A i \in 2 .. 5 : rx[i] = f[i]
    BY <1>6, <2>1, Zenon
  <2>3. \A i \in 1 .. 9 : rx[i] \in Byte /\ f[i] \in Byte
    BY <1>1, <1>6, TakenKinds
  <2>4. \A i \in 2 .. 5 : rx[i] \in Byte /\ f[i] \in Byte
    BY <2>1, <2>3, Zenon
  <2>5. /\ SubSeq(rx, 2, 5) \in Seq(Byte) /\ SubSeq(f, 2, 5) \in Seq(Byte)
        /\ Len(SubSeq(rx, 2, 5)) = IF 2 <= 5 THEN 5 - 2 + 1 ELSE 0
        /\ Len(SubSeq(f, 2, 5)) = IF 2 <= 5 THEN 5 - 2 + 1 ELSE 0
        /\ \A i \in 1 .. 5 - 2 + 1 : SubSeq(rx, 2, 5)[i] = rx[2 + i - 1]
        /\ \A i \in 1 .. 5 - 2 + 1 : SubSeq(f, 2, 5)[i] = f[2 + i - 1]
    BY <2>4, SubSeqProperties
  <2>6. \A i \in 1 .. 4 : 2 + i - 1 \in 2 .. 5
    OBVIOUS
  <2>7. /\ Len(SubSeq(rx, 2, 5)) = 4 /\ Len(SubSeq(f, 2, 5)) = 4
        /\ \A i \in 1 .. 4 : SubSeq(rx, 2, 5)[i] = rx[2 + i - 1]
        /\ \A i \in 1 .. 4 : SubSeq(f, 2, 5)[i] = f[2 + i - 1]
    BY <2>5
  <2>8. \A i \in 1 .. 4 : SubSeq(rx, 2, 5)[i] = SubSeq(f, 2, 5)[i]
    <3> TAKE i \in 1 .. 4
    <3>1. 2 + i - 1 \in 2 .. 5
      BY <2>6
    <3>2. rx[2 + i - 1] = f[2 + i - 1]
      BY <2>2, <3>1
    <3> QED
      BY <2>7, <3>2
  <2> QED
    BY <2>5, <2>7, <2>8, SeqEqual
<1> QED
  BY <1>2, <1>4, <1>5, <1>7, <1>8 DEF Ahead

(* It takes none while the next command has yet to be written. *)
LEMMA NoFrame ==
  ASSUME KindInv, Left < 9, NEW cmd, Takes(cmd)
  PROVE  FALSE
BY DueBytes DEF Takes, FrameLength

-----------------------------------------------------------------------------
(* The driver runs ahead: a write moves what is due onto the line, and     *)
(* nobody notices.                                                         *)
LEMMA Cut ==
  ASSUME NEW s \in Seq(Byte), NEW m \in Nat, NEW n \in Nat, m + n <= Len(s)
  PROVE  /\ SubSeq(s, m + 1, m + n) \in Seq(Byte)
         /\ SubSeq(s, m + n + 1, Len(s)) \in Seq(Byte)
         /\ SubSeq(s, m + 1, m + n) \o SubSeq(s, m + n + 1, Len(s)) = SubSeq(s, m + 1, Len(s))
<1> DEFINE l == Len(s)
           k == m + n
           a == SubSeq(s, m + 1, k)
           b == SubSeq(s, k + 1, l)
           c == SubSeq(s, m + 1, l)
<1>1. l \in Nat /\ k \in Nat /\ k <= l /\ m <= k /\ \A i \in 1 .. l : s[i] \in Byte
  BY ElementOfSeq
<1>2. a \in Seq(Byte) /\ Len(a) = k - m /\ \A i \in 1 .. k - m : a[i] = s[m + i]
  <2>1. \A i \in m + 1 .. k : s[i] \in Byte
    BY <1>1
  <2>2. /\ a \in Seq(Byte)
        /\ Len(a) = IF m + 1 <= k THEN k - (m + 1) + 1 ELSE 0
        /\ \A i \in 1 .. k - (m + 1) + 1 : a[i] = s[m + 1 + i - 1]
    BY <1>1, <2>1, SubSeqProperties
  <2>3. Len(a) = k - m
    BY <1>1, <2>2
  <2>4. \A i \in 1 .. k - m : a[i] = s[m + i]
    <3> TAKE i \in 1 .. k - m
    <3>1. i \in 1 .. k - (m + 1) + 1 /\ m + 1 + i - 1 = m + i
      BY <1>1
    <3>2. a[i] = s[m + 1 + i - 1]
      BY <2>2, <3>1
    <3> QED
      BY <3>1, <3>2
  <2> QED
    BY <2>2, <2>3, <2>4
<1>3. b \in Seq(Byte) /\ Len(b) = l - k /\ \A i \in 1 .. l - k : b[i] = s[k + i]
  <2>1. \A i \in k + 1 .. l : s[i] \in Byte
    BY <1>1
  <2>2. /\ b \in Seq(Byte)
        /\ Len(b) = IF k + 1 <= l THEN l - (k + 1) + 1 ELSE 0
        /\ \A i \in 1 .. l - (k + 1) + 1 : b[i] = s[k + 1 + i - 1]
    BY <1>1, <2>1, SubSeqProperties
  <2>3. Len(b) = l - k
    BY <1>1, <2>2
  <2>4. \A i \in 1 .. l - k : b[i] = s[k + i]
    <3> TAKE i \in 1 .. l - k
    <3>1. i \in 1 .. l - (k + 1) + 1 /\ k + 1 + i - 1 = k + i
      BY <1>1
    <3>2. b[i] = s[k + 1 + i - 1]
      BY <2>2, <3>1
    <3> QED
      BY <3>1, <3>2
  <2> QED
    BY <2>2, <2>3, <2>4
<1>4. c \in Seq(Byte) /\ Len(c) = l - m /\ \A i \in 1 .. l - m : c[i] = s[m + i]
  <2>1. \A i \in m + 1 .. l : s[i] \in Byte
    BY <1>1
  <2>2. /\ c \in Seq(Byte)
        /\ Len(c) = IF m + 1 <= l THEN l - (m + 1) + 1 ELSE 0
        /\ \A i \in 1 .. l - (m + 1) + 1 : c[i] = s[m + 1 + i - 1]
    BY <1>1, <2>1, SubSeqProperties
  <2>3. Len(c) = l - m
    BY <1>1, <2>2
  <2>4. \A i \in 1 .. l - m : c[i] = s[m + i]
    <3> TAKE i \in 1 .. l - m
    <3>1. i \in 1 .. l - (m + 1) + 1 /\ m + 1 + i - 1 = m + i
      BY <1>1
    <3>2. c[i] = s[m + 1 + i - 1]
      BY <2>2, <3>1
    <3> QED
      BY <3>1, <3>2
  <2> QED
    BY <2>2, <2>3, <2>4
<1> HIDE DEF a, b, c, k, l
<1>5. a \o b \in Seq(Byte) /\ Len(a \o b) = l - m
  <2>1. a \o b \in Seq(Byte) /\ Len(a \o b) = Len(a) + Len(b)
    BY <1>2, <1>3, Join
  <2> QED
    BY <1>1, <1>2, <1>3, <2>1
<1>6. \A i \in 1 .. l - m : (a \o b)[i] = c[i]
  <2> TAKE i \in 1 .. l - m
  <2>1. CASE i <= k - m
    <3>1. i \in 1 .. Len(a)
      BY <1>1, <1>2, <2>1
    <3>2. (a \o b)[i] = a[i]
      BY <1>2, <1>3, <3>1, Join
    <3> QED
      BY <1>1, <1>2, <1>4, <2>1, <3>2
  <2>2. CASE i > k - m
    <3>1. i - (k - m) \in 1 .. l - k /\ i = (k - m) + (i - (k - m))
      BY <1>1, <2>2
    <3>2. PICK j \in 1 .. l - k : i = (k - m) + j
      BY <3>1
    <3>3. (a \o b)[(k - m) + j] = b[j]
      <4>1. \A h \in 1 .. Len(b) : (a \o b)[Len(a) + h] = b[h]
        BY <1>2, <1>3, Join
      <4> QED
        BY <1>2, <1>3, <4>1
    <3>4. k + j = m + i
      BY <1>1, <3>2
    <3>5. b[j] = s[k + j] /\ c[i] = s[m + i]
      BY <1>3, <1>4
    <3> QED
      BY <3>2, <3>3, <3>4, <3>5
  <2>3. i <= k - m \/ i > k - m
    BY <1>1
  <2> QED
    BY <2>1, <2>2, <2>3, Zenon
<1>7. a \o b = c
  BY <1>4, <1>5, <1>6, SeqEqual
<1> QED
  BY <1>2, <1>3, <1>7 DEF a, b, c, k, l

LEMMA WholeSeq ==
  ASSUME NEW s \in Seq(Byte)
  PROVE  /\ SubSeq(s, 1, Len(s)) = s /\ s \o <<>> = s /\ <<>> \o s = s
         /\ SubSeq(s, Len(s) + 1, Len(s)) = <<>>
<1>1. Len(s) \in Nat /\ \A i \in 1 .. Len(s) : s[i] \in Byte
  BY ElementOfSeq
<1>2. SubSeq(s, 1, Len(s)) = s
  <2>1. /\ SubSeq(s, 1, Len(s)) \in Seq(Byte)
        /\ Len(SubSeq(s, 1, Len(s))) = IF 1 <= Len(s) THEN Len(s) - 1 + 1 ELSE 0
        /\ \A i \in 1 .. Len(s) - 1 + 1 : SubSeq(s, 1, Len(s))[i] = s[1 + i - 1]
    BY <1>1, SubSeqProperties
  <2>2. Len(SubSeq(s, 1, Len(s))) = Len(s)
    BY <1>1, <2>1
  <2>3. \A i \in 1 .. Len(s) : SubSeq(s, 1, Len(s))[i] = s[i]
    <3> TAKE i \in 1 .. Len(s)
    <3>1. i \in 1 .. Len(s) - 1 + 1 /\ 1 + i - 1 = i
      BY <1>1
    <3> QED
      BY <2>1, <3>1
  <2> QED
    BY <2>1, <2>2, <2>3, SeqEqual
<1>3. s \o <<>> = s /\ <<>> \o s = s
  BY ConcatEmptySeq
<1>4. SubSeq(s, Len(s) + 1, Len(s)) = <<>>
  <2>1. /\ SubSeq(s, Len(s) + 1, Len(s)) \in Seq(Byte)
        /\ Len(SubSeq(s, Len(s) + 1, Len(s))) = Len(s) - Len(s)
    BY <1>1, Remaining
  <2>2. Len(SubSeq(s, Len(s) + 1, Len(s))) = 0
    BY <1>1, <2>1
  <2> QED
    BY <2>1, <2>2, EmptySeq
<1> QED
  BY <1>2, <1>3, <1>4


WritesOn ==
  \/ PingOutput \/ PingWrite \/ PingStrobe \/ Ask \/ AskAgain
  \/ Output \/ Send \/ SendData
  \/ Input \/ Turn \/ Receive

LEMMA StaysAhead ==
  ASSUME KindInv, NEW bytes \in Seq(Byte), rx' = rx \o bytes,
         NEW due \in Seq(Byte), Due' = due, Due = bytes \o due
  PROVE  Ahead' = Ahead
<1>1. rx \in Seq(Byte) /\ Ahead = rx \o Due
  BY DueBytes
<1>2. (rx \o bytes) \o due = rx \o (bytes \o due)
  BY <1>1, ConcatAssociative
<1> QED
  BY <1>1, <1>2 DEF Ahead

LEMMA PingRunsAhead ==
  ASSUME KindInv, PingOutput \/ PingWrite \/ PingStrobe \/ Ask \/ AskAgain
  PROVE  /\ Ahead' = Ahead
         /\ pc \in PingPlaces \ {"answer"} /\ pc' \in PingPlaces \ {"again"}
         /\ UNCHANGED << userport, firmware, tx, req, part, got, initialized, result >>
<1> USE DEF Writes, rest, PingPlaces
<1>1. CASE PingOutput
  <2>1. rx' = rx \o OutputFrame /\ Due = OutputFrame \o FromWrite /\ Due' = FromWrite
    BY <1>1 DEF PingOutput, OutputFrame, Due, FromOutput
  <2>2. Ahead' = Ahead
    BY <2>1, BasicFrames, PingLengths, StaysAhead
  <2> QED
    BY <1>1, <2>2 DEF PingOutput
<1>2. CASE PingWrite
  <2>1. rx' = rx \o PingFrame /\ Due = PingFrame \o FromStrobe /\ Due' = FromStrobe
    BY <1>2 DEF PingWrite, PingFrame, Due, FromWrite
  <2>2. Ahead' = Ahead
    BY <2>1, BasicFrames, PingLengths, StaysAhead
  <2> QED
    BY <1>2, <2>2 DEF PingWrite
<1>3. CASE PingStrobe
  <2>1. rx' = rx \o StrobeFrame /\ Due = StrobeFrame \o AskFrame /\ Due' = AskFrame
    BY <1>3 DEF PingStrobe, StrobeFrame, Due, FromStrobe
  <2>2. Ahead' = Ahead
    BY <2>1, BasicFrames, StaysAhead
  <2> QED
    BY <1>3, <2>2 DEF PingStrobe
<1>4. CASE Ask \/ AskAgain
  <2>1. rx' = rx \o AskFrame /\ Due = AskFrame /\ Due' = <<>>
    BY <1>4 DEF Ask, AskAgain, AskFrame, Due
  <2>2. <<>> \in Seq(Byte) /\ Due = AskFrame \o <<>>
    BY <2>1, BasicFrames, WholeSeq
  <2>3. Ahead' = Ahead
    BY <2>1, <2>2, BasicFrames, StaysAhead
  <2> QED
    BY <1>4, <2>3 DEF Ask, AskAgain
<1> QED
  BY <1>1, <1>2, <1>3, <1>4

LEMMA SendRunsAhead ==
  ASSUME KindInv, Output \/ Send \/ SendData
  PROVE  /\ Ahead' = Ahead
         /\ pc \in SendPlaces \ {"sendReport"} /\ pc' \in SendPlaces
         /\ UNCHANGED << userport, firmware, tx, req, part, got, initialized, result >>
<1> USE DEF Writes, rest, SendPlaces
<1>0. pc \in SendPlaces
  BY DEF Output, Send, SendData
<1>1. /\ Sending \in Seq(Byte) /\ Len(Sending) \in Nat
      /\ SendFrame \in Seq(Byte) /\ FromSend \in Seq(Byte)
  BY <1>0, SendLengths
<1>2. CASE Output
  <2>1. FromSend' = FromSend
    BY <1>2 DEF Output, FromSend, SendFrame, Sending
  <2>2. rx' = rx \o OutputFrame /\ Due = OutputFrame \o FromSend /\ Due' = FromSend
    BY <1>2, <2>1 DEF Output, OutputFrame, Due
  <2>3. Ahead' = Ahead
    BY <1>1, <2>2, BasicFrames, StaysAhead
  <2> QED
    BY <1>2, <2>3 DEF Output
<1>3. CASE Send
  <2>1. Sending' = Sending /\ moved' = 0 /\ pc' = "data"
    BY <1>3 DEF Send, Sending
  <2>2. Due' = SubSeq(Sending, 0 + 1, Len(Sending))
    BY <2>1 DEF Due
  <2>3. Due' = Sending
    BY <1>1, <2>2, WholeSeq
  <2>4. rx' = rx \o SendFrame /\ Due = SendFrame \o Sending
    BY <1>3 DEF Send, SendFrame, Due, FromSend
  <2>5. Ahead' = Ahead
    BY <1>1, <2>3, <2>4, StaysAhead
  <2> QED
    BY <1>3, <2>5 DEF Send
<1>4. CASE SendData
  <2> DEFINE n == IF Len(Sending) - moved > Chunk THEN Chunk ELSE Len(Sending) - moved
  <2>1. moved \in Nat /\ moved <= Len(Sending) /\ pc = "data"
    BY <1>4 DEF SendData, KindInv, TypeOK, ClientTypeOK, CallInv
  <2>2. n \in Nat /\ moved + n <= Len(Sending)
    BY <1>1, <2>1, ChunkAssumption DEF ChunkAssumption
  <2>3. /\ rx' = rx \o SubSeq(Sending, moved + 1, moved + n) /\ moved' = moved + n
        /\ pc' = (IF moved + n = Len(Sending) THEN "sendReport" ELSE "data")
        /\ Sending' = Sending
    BY <1>4 DEF SendData, Sending
  <2> HIDE DEF n
  <2>4. /\ SubSeq(Sending, moved + 1, moved + n) \in Seq(Byte)
        /\ SubSeq(Sending, moved + n + 1, Len(Sending)) \in Seq(Byte)
        /\ Due = SubSeq(Sending, moved + 1, moved + n)
                   \o SubSeq(Sending, moved + n + 1, Len(Sending))
    BY <1>1, <2>1, <2>2, Cut DEF Due
  <2>5. Due' = SubSeq(Sending, moved + n + 1, Len(Sending))
    <3>1. CASE moved + n = Len(Sending)
      <4>1. SubSeq(Sending, moved + n + 1, Len(Sending)) = <<>>
        BY <1>1, <3>1, WholeSeq
      <4>2. Due' = <<>>
        BY <2>3, <3>1 DEF Due
      <4> QED
        BY <4>1, <4>2
    <3>2. CASE moved + n # Len(Sending)
      BY <2>3, <3>2 DEF Due
    <3> QED
      BY <3>1, <3>2
  <2>6. Ahead' = Ahead
    BY <2>3, <2>4, <2>5, StaysAhead
  <2> QED
    BY <1>4, <2>6 DEF SendData
<1> QED
  BY <1>2, <1>3, <1>4

LEMMA ReceiveRunsAhead ==
  ASSUME KindInv, Input \/ Turn \/ Receive
  PROVE  /\ Ahead' = Ahead
         /\ pc \in {"input", "turn", "receive"} /\ pc' \in ReceivePlaces
         /\ UNCHANGED << userport, firmware, tx, req, part, got, initialized, result >>
         /\ pc # "receive" => UNCHANGED moved
         /\ Left >= 9
<1> USE DEF Writes, rest, ReceivePlaces
<1>0. pc \in ReceivePlaces
  BY DEF Input, Turn, Receive
<1>1. /\ ReceiveFrame \in Seq(Byte) /\ FromTurn \in Seq(Byte) /\ FromInput \in Seq(Byte)
      /\ Len(ReceiveFrame) = 9 /\ Len(FromTurn) = 18 /\ Len(FromInput) = 27
  BY <1>0, ReceiveLengths
<1>2. Left >= 9
  <2>1. pc \in {"input", "turn", "receive"}
    BY DEF Input, Turn, Receive
  <2>2. Due \in {FromInput, FromTurn, ReceiveFrame}
    BY <2>1 DEF Due
  <2>3. Len(Due) \in {9, 18, 27}
    BY <1>1, <2>2
  <2>4. Left = Len(rx) + Len(Due) /\ Len(rx) \in Nat
    BY DueBytes
  <2>5. \A n \in Nat, k \in {9, 18, 27} : n + k >= 9
    OBVIOUS
  <2> QED
    BY <2>3, <2>4, <2>5, Zenon
<1>3. CASE Input
  <2>1. FromTurn' = FromTurn
    BY <1>3 DEF Input, FromTurn, ReceiveFrame, Wanted
  <2>2. rx' = rx \o InputFrame /\ Due = InputFrame \o FromTurn /\ Due' = FromTurn
    BY <1>3, <2>1 DEF Input, Due, FromInput
  <2>3. Ahead' = Ahead
    BY <1>1, <2>2, BasicFrames, StaysAhead
  <2> QED
    BY <1>2, <1>3, <2>3 DEF Input
<1>4. CASE Turn
  <2>1. ReceiveFrame' = ReceiveFrame
    BY <1>4 DEF Turn, ReceiveFrame, Wanted
  <2>2. rx' = rx \o StrobeFrame /\ Due = StrobeFrame \o ReceiveFrame /\ Due' = ReceiveFrame
    BY <1>4, <2>1 DEF Turn, Due, FromTurn, StrobeFrame
  <2>3. Ahead' = Ahead
    BY <1>1, <2>2, BasicFrames, StaysAhead
  <2> QED
    BY <1>2, <1>4, <2>3 DEF Turn
<1>5. CASE Receive
  <2>1. rx' = rx \o ReceiveFrame /\ Due = ReceiveFrame /\ Due' = <<>>
    BY <1>5 DEF Receive, Due, ReceiveFrame
  <2>2. <<>> \in Seq(Byte) /\ Due = ReceiveFrame \o <<>>
    BY <1>1, <2>1, WholeSeq
  <2>3. Ahead' = Ahead
    BY <1>1, <2>1, <2>2, StaysAhead
  <2> QED
    BY <1>2, <1>5, <2>3 DEF Receive
<1> QED
  BY <1>3, <1>4, <1>5

(* What the driver of the parallel port would see depends on what is ahead, *)
(* not on how much of it is on the line.                                    *)
LEMMA SameView ==
  ASSUME Ahead' = Ahead, UNCHANGED << firmware, tx, req, part, got, result >>,
         Found' <=> Found,
         \/ pc \in PingPlaces /\ pc' \in PingPlaces
         \/ pc \in SendPlaces /\ pc' \in SendPlaces
         \/ pc \in ReceivePlaces /\ pc' \in ReceivePlaces
  PROVE  UNCHANGED << At, Sent, Got, Result >>
<1>1. /\ Left' = Left /\ Sending' = Sending /\ Whole' = Whole /\ Total' = Total
      /\ Data' = Data /\ Base' = Base
  BY DEF Left, Sending, Whole, Total, Data, Base, firmware
<1>2. SentNow' = SentNow
  BY <1>1 DEF SentNow, Begun, firmware
<1>3. /\ pc' \in PingPlaces <=> pc \in PingPlaces
      /\ pc' \in SendPlaces <=> pc \in SendPlaces
      /\ pc' \in ReceivePlaces <=> pc \in ReceivePlaces
      /\ pc \in PingPlaces \cup SendPlaces \cup ReceivePlaces
  BY DEF PingPlaces, SendPlaces, ReceivePlaces
<1>4. Got' = Got
  BY <1>1, <1>3 DEF Got
<1>5. /\ AllSent' <=> AllSent
      /\ AllGot' <=> AllGot
  BY <1>1, <1>2, <1>3, <1>4 DEF AllSent, AllGot, firmware
<1>6. Sent' = Sent
  BY <1>1, <1>2, <1>3 DEF Sent
<1>7. Result' = Result
  BY <1>1, <1>3, <1>4, <1>5 DEF Result
<1>8. /\ WhilePinging' = WhilePinging
      /\ WhileSending' = WhileSending
      /\ WhileReceiving' = WhileReceiving
  BY <1>1, <1>5 DEF WhilePinging, WhileSending, WhileReceiving, firmware
<1>9. At' = At
  <2>1. CASE pc \in PingPlaces
    <3>1. pc' \in PingPlaces
      BY <1>3, <2>1
    <3> QED
      BY <1>8, <2>1, <3>1 DEF At, PingPlaces, SendPlaces, ReceivePlaces
  <2>2. CASE pc \in SendPlaces
    <3>1. pc' \in SendPlaces
      BY <1>3, <2>2
    <3> QED
      BY <1>8, <2>2, <3>1 DEF At, PingPlaces, SendPlaces, ReceivePlaces
  <2>3. CASE pc \in ReceivePlaces
    <3>1. pc' \in ReceivePlaces
      BY <1>3, <2>3
    <3> QED
      BY <1>8, <2>3, <3>1 DEF At, PingPlaces, SendPlaces, ReceivePlaces
  <2> QED
    BY <1>3, <2>1, <2>2, <2>3
<1> QED
  BY <1>4, <1>6, <1>7, <1>9


-----------------------------------------------------------------------------
(* What the driver of the parallel port sees, place by place.              *)
LEMMA PingView ==
  ASSUME KindInv, pc \in PingPlaces
  PROVE  /\ At = WhilePinging /\ Sent = 0 /\ Got = got /\ got = <<>> /\ part = 1 /\ ~result
         /\ Result = (Found /\ req.op = "ping") /\ req \in Calls /\ req.op # "reset"
<1>1. /\ got = <<>> /\ part = 1 /\ ~result /\ req.op # "reset" /\ req \in Calls
      /\ result \in BOOLEAN
  BY DEF KindInv, TypeOK, ClientTypeOK, CallInv, Preparing, PingPlaces
<1>2. pc \notin SendPlaces /\ pc \notin ReceivePlaces
  BY DEF PingPlaces, SendPlaces, ReceivePlaces
<1>3. At = WhilePinging
  BY <1>2 DEF At, PingPlaces, SendPlaces, ReceivePlaces
<1>4. Sent = 0 /\ Got = got
  BY <1>2 DEF Sent, Got
<1>5. ~AllSent /\ ~AllGot
  BY <1>2 DEF AllSent, AllGot
<1>6. Result = (Found /\ req.op = "ping")
  BY <1>1, <1>5 DEF Result
<1> QED
  BY <1>1, <1>3, <1>4, <1>6

LEMMA PingAt ==
  ASSUME KindInv, pc \in PingPlaces, ~Found
  PROVE  /\ Ahead \in {InputFrame \o FromOutput, InputFrame \o (InputFrame \o FromOutput)}
              => At = "open"
         /\ Ahead = FromOutput => At = "pingOut"
         /\ Ahead = FromWrite => At = "pingWrite"
         /\ Ahead = FromStrobe => At = "pingStrobe"
         /\ Ahead \in {AskFrame, <<>>} => At = "pingWait"
         /\ ~Result
<1>1. At = WhilePinging /\ Result = FALSE
  BY PingView
<1>2. /\ Ahead = InputFrame \o FromOutput => Left = 45
      /\ Ahead = InputFrame \o (InputFrame \o FromOutput) => Left = 54
      /\ Ahead = FromOutput => Left = 36
      /\ Ahead = FromWrite => Left = 27
      /\ Ahead = FromStrobe => Left = 18
      /\ Ahead = AskFrame => Left = 9
      /\ Ahead = <<>> => Left = 0
  <2>1. /\ Ahead = InputFrame \o FromOutput => Left = 45
        /\ Ahead = InputFrame \o (InputFrame \o FromOutput) => Left = 54
        /\ Ahead = FromOutput => Left = 36
        /\ Ahead = FromWrite => Left = 27
        /\ Ahead = FromStrobe => Left = 18
    BY PingLengths, Zenon DEF Left
  <2>2. Ahead = AskFrame => Left = 9
    BY BasicFrames, Zenon DEF Left
  <2>3. Ahead = <<>> => Left = 0
    BY DEF Left
  <2> QED
    BY <2>1, <2>2, <2>3
<1>3. /\ Left \in {45, 54} => WhilePinging = "open"
      /\ Left = 36 => WhilePinging = "pingOut"
      /\ Left = 27 => WhilePinging = "pingWrite"
      /\ Left = 18 => WhilePinging = "pingStrobe"
      /\ Left \in {9, 0} => WhilePinging = "pingWait"
  BY DEF WhilePinging
<1> QED
  BY <1>1, <1>2, <1>3

LEMMA FoundAt ==
  ASSUME KindInv, Found
  PROVE  At = IF req.op = "ping" THEN "closeInput" ELSE "out"
<1>1. pc \in PingPlaces
  BY DEF Found, PingPlaces
<1>2. At = WhilePinging
  BY <1>1, PingView
<1> QED
  BY <1>2 DEF WhilePinging, Found

LEMMA SendView ==
  ASSUME KindInv, pc \in SendPlaces
  PROVE  /\ At = WhileSending /\ Sent = SentNow /\ Got = got /\ got = <<>> /\ ~result
         /\ AllSent <=> SentNow = Whole
         /\ Result = (AllSent /\ ~Receives(req) /\ (req.op = "load" => req.data # <<>>))
<1>1. /\ got = <<>> /\ ~result /\ result \in BOOLEAN
  BY DEF KindInv, TypeOK, ClientTypeOK, CallInv, SendPlaces
<1>2. pc \notin PingPlaces /\ pc \notin ReceivePlaces
  BY DEF PingPlaces, SendPlaces, ReceivePlaces
<1>3. At = WhileSending
  BY <1>2 DEF At, PingPlaces, SendPlaces, ReceivePlaces
<1>4. Sent = SentNow /\ Got = got
  BY <1>2 DEF Sent, Got
<1>5. ~Found /\ ~AllGot
  BY <1>2 DEF Found, AllGot, PingPlaces
<1>6. AllSent <=> SentNow = Whole
  BY DEF AllSent
<1>7. Result = (AllSent /\ ~Receives(req) /\ (req.op = "load" => req.data # <<>>))
  BY <1>1, <1>5 DEF Result
<1> QED
  BY <1>1, <1>3, <1>4, <1>6, <1>7

LEMMA ReceiveView ==
  ASSUME KindInv, pc \in ReceivePlaces
  PROVE  /\ At = WhileReceiving /\ Sent = Whole /\ Got = got \o Data /\ ~result
         /\ AllGot <=> Left <= 9 /\ fpc = "frame" /\ Len(Got) = Total
         /\ Result = (AllGot /\ req.want # 0
                      /\ (req.op = "identify" => ~Unidentified(Got)))
<1>1. ~result /\ result \in BOOLEAN
  BY DEF KindInv, TypeOK, ClientTypeOK, CallInv, ReceivePlaces
<1>2. pc \notin PingPlaces /\ pc \notin SendPlaces
  BY DEF PingPlaces, SendPlaces, ReceivePlaces
<1>3. At = WhileReceiving
  BY <1>2 DEF At, PingPlaces, SendPlaces, ReceivePlaces
<1>4. Sent = Whole /\ Got = got \o Data
  BY <1>2 DEF Sent, Got
<1>5. ~Found /\ ~AllSent
  BY <1>2 DEF Found, AllSent, PingPlaces
<1>6. AllGot <=> Left <= 9 /\ fpc = "frame" /\ Len(Got) = Total
  BY DEF AllGot
<1>7. Result = (AllGot /\ req.want # 0 /\ (req.op = "identify" => ~Unidentified(Got)))
  BY <1>1, <1>5 DEF Result
<1> QED
  BY <1>1, <1>3, <1>4, <1>6, <1>7

LEMMA RestView ==
  ASSUME KindInv, pc \notin PingPlaces \cup SendPlaces \cup ReceivePlaces
  PROVE  /\ pc \in {"idle", "open", "reset", "close"}
         /\ At = (IF pc = "reset" THEN "open" ELSE IF pc = "close" THEN "closeInput" ELSE pc)
         /\ Sent = 0 /\ Got = got /\ Result = result /\ Due = <<>>
         /\ Ahead = rx
<1>1. pc \in {"idle", "open", "reset", "close"}
  BY DEF KindInv, TypeOK, ClientTypeOK, PingPlaces, SendPlaces, ReceivePlaces
<1>2. /\ At = (IF pc = "reset" THEN "open" ELSE IF pc = "close" THEN "closeInput" ELSE pc)
      /\ Sent = 0 /\ Got = got
  BY <1>1 DEF At, Sent, Got
<1>3. ~Found /\ ~AllSent /\ ~AllGot
  BY DEF Found, AllSent, AllGot, PingPlaces
<1>4. Result = result
  BY <1>3 DEF Result
<1>5. Due = <<>>
  BY <1>1 DEF Due
<1>6. Ahead = rx
  <2>1. rx \in Seq(Byte)
    BY DEF KindInv, TypeOK, ServantTypeOK
  <2> QED
    BY <1>5, <2>1, WholeSeq DEF Ahead
<1> QED
  BY <1>1, <1>2, <1>4, <1>5, <1>6

(* How many bytes of the request the parts of a send are.                  *)
LEMMA SendCounts ==
  ASSUME KindInv, pc \in SendPlaces
  PROVE  /\ Whole \in Nat /\ Base \in Nat /\ Base + Len(Sending) <= Whole /\ Whole > 0
         /\ Base + Len(Sending) = Whole <=> part = Parts(req) \/ req.data = <<>>
         /\ part = 1 => Base = 0 /\ Len(Sending) > 0
         /\ \A i \in 1 .. Len(Sending) : Out(req)[Base + i] = Sending[i]
         /\ part \in {1, 2} /\ part <= Parts(req)
         /\ part < Parts(req) => req.op = "load" /\ part = 1
                                 /\ Base + Len(Sending) = Len(req.header)
         /\ Sending = <<>> => part = 2 /\ req.op = "load" /\ req.data = <<>>
<1>1. /\ req \in Calls /\ part \in 1 .. 3 /\ req.op \notin {"ping", "reset"}
      /\ part <= Parts(req)
  BY DEF KindInv, TypeOK, ClientTypeOK, CallInv
<1> DEFINE h == Len(req.header)
           d == Len(req.data)
           s == Len(Sending)
<1>2. /\ req.header \in Seq(Byte) /\ req.data \in Seq(Byte)
      /\ h \in 1 .. 7 /\ d \in Nat
      /\ req.op # "load" => req.data = <<>>
  <2>1. req.header \in Seq(Byte) /\ req.data \in Seq(Byte)
    BY <1>1, RequestFields
  <2>2. /\ Len(req.header) \in 1 .. 7
        /\ req.data = IF req.op = "load" THEN req.writes ELSE <<>>
        /\ Len(req.data) \in Nat
    BY <1>1, RequestSizes
  <2>3. req.op # "load" => req.data = <<>>
    BY <2>2
  <2> QED
    BY <2>1, <2>2, <2>3
<1>3. /\ Len(Out(req)) = h + d
      /\ \A i \in 1 .. h : Out(req)[i] = req.header[i]
      /\ \A i \in 1 .. d : Out(req)[h + i] = req.data[i]
  BY <1>2, Join DEF Out
<1>4. Whole = h + d
  BY <1>3 DEF Whole
<1>5. /\ req.data = <<>> <=> d = 0
      /\ Sending \in Seq(Byte) /\ s \in Nat
      /\ Sending = <<>> <=> s = 0
  <2>1. Sending \in Seq(Byte) /\ Len(Sending) \in Nat
    BY SendLengths
  <2> QED
    BY <1>2, <2>1, EmptySeq
<1>6. part \in {1, 2} /\ (part = 2 => req.op = "load")
  BY <1>1 DEF Parts
<1>7. /\ part = 1 => Base = 0 /\ Sending = req.header
      /\ part = 2 => Base = h /\ Sending = req.data
  BY DEF Base, Sending, Part
<1>8. /\ part = Parts(req) <=> (part = 2 \/ req.op # "load")
      /\ part < Parts(req) <=> (part = 1 /\ req.op = "load")
  BY <1>6 DEF Parts
<1>9. /\ part = 1 => s = h
      /\ part = 2 => s = d
  BY <1>7
<1> HIDE DEF h, d, s
<1>10. /\ Whole \in Nat /\ Base \in Nat /\ Base + s <= Whole /\ Whole > 0
       /\ part = 1 => Base + s = h /\ s > 0
       /\ part = 2 => Base + s = Whole
       /\ Base + s = Whole <=> part = 2 \/ d = 0
       /\ s = 0 => part = 2 /\ d = 0
  BY <1>2, <1>4, <1>5, <1>6, <1>7, <1>9
<1>11. Base + s = Whole <=> part = Parts(req) \/ req.data = <<>>
  BY <1>2, <1>5, <1>8, <1>10
<1>12. \A i \in 1 .. s : Out(req)[Base + i] = Sending[i]
  <2> TAKE i \in 1 .. s
  <2>1. CASE part = 1
    <3>1. Base + i = i /\ i \in 1 .. h /\ Sending = req.header
      BY <1>7, <1>9, <2>1
    <3> QED
      BY <1>3, <3>1
  <2>2. CASE part = 2
    <3>1. Base + i = h + i /\ i \in 1 .. d /\ Sending = req.data
      BY <1>7, <1>9, <2>2
    <3> QED
      BY <1>3, <3>1
  <2> QED
    BY <1>6, <2>1, <2>2
<1> QED
  BY <1>1, <1>5, <1>6, <1>7, <1>8, <1>10, <1>11, <1>12 DEF h, d, s
=============================================================================
