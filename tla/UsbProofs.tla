----------------------------- MODULE UsbProofs -----------------------------
(***************************************************************************)
(* The at90usb162 board and the USB driver do together, byte by byte, what *)
(* the driver of the parallel port does: as long as the current call began *)
(* in step, each of their steps is a step of that driver or changes        *)
(* nothing it would see.  What is proved of the parallel port in           *)
(* XLinkProofs then holds over USB, for every size of a packet and of  *)
(* a transfer, all requests, memories and servers.                         *)
(***************************************************************************)
EXTENDS UsbXLink, Integers, SequenceTheorems, TLAPS

-----------------------------------------------------------------------------
(* The call as the driver of the parallel port would see it.  The header,  *)
(* the data and the parts of a reply are cut into transfers; how many      *)
(* bytes are sent and acknowledged, ... *)
Whole == Len(Out(req))
Base == IF part = 2 THEN Len(req.header) ELSE 0
SentNow == Base + moved + IF transfer = "send" THEN count ELSE 0

(* ... and how many are received, the last one strobed for. *)
Total == IF req.op = "identify" THEN 15 ELSE req.want
Got == IF transfer = "receive" THEN got \o bytes ELSE got
GotNow == Len(got) + IF transfer = "receive" THEN count ELSE 0

AllSent == pc \in {"send", "sending"} /\ SentNow = Whole
AllGot  == pc \in {"receive", "receiving"} /\ GotNow = Total

(* A transfer that gave up. *)
Failed == bpc = "done" /\ count # size

WhileSending ==
  IF AllSent THEN IF Receives(req) THEN "input" ELSE "closeInput"
  ELSE IF Failed THEN "closeInput"
  ELSE IF bpc \in {"strobe", "wait"} THEN bpc ELSE "write"

WhileReceiving ==
  IF AllGot \/ Failed THEN "closeInput"
  ELSE IF bpc = "byte" THEN "rread"
  ELSE IF bpc = "strobe" THEN "rstrobe" ELSE "rwait"

At ==
  CASE pc = "reset"      -> "init"
    [] pc = "pingOutput" -> "pingOut"
    [] pc = "ask"        -> "pingWait"
    [] pc = "output"     -> "out"
    [] pc \in {"send", "sending"}      -> WhileSending
    [] pc \in {"receive", "receiving"} -> WhileReceiving
    [] OTHER -> pc

Sent ==
  CASE pc \in {"send", "sending"} -> SentNow
    [] pc \in {"input", "turn", "receive", "receiving"} -> Whole
    [] pc \in {"closeInput", "close"} /\ result -> Whole
    [] OTHER -> 0

Result ==
  IF AllSent /\ ~Receives(req) THEN (req.op = "load" => req.data # <<>>)
  ELSE IF AllGot /\ req.want # 0 THEN (req.op = "identify" => ~Unidentified(Got))
  ELSE result

Port == INSTANCE XLinkProofs WITH
  pc <- At, nsent <- Sent, got <- Got, initialized <- TRUE, result <- Result

-----------------------------------------------------------------------------
(* What the parallel port's proofs assume of their constants holds here.   *)
LEMMA SameRequests ==
  /\ \A m, b, a, d : Port!xlink_load(m, b, a, d) = xlink_load(m, b, a, d)
  /\ \A m, b, a, n : Port!xlink_save(m, b, a, n) = xlink_save(m, b, a, n)
  /\ \A m, b, a : Port!xlink_peek(m, b, a) = xlink_peek(m, b, a)
  /\ \A m, b, a, v : Port!xlink_poke(m, b, a, v) = xlink_poke(m, b, a, v)
  /\ \A m, b, a : Port!xlink_jump(m, b, a) = xlink_jump(m, b, a)
  /\ \A a : Port!xlink_inject(a) = xlink_inject(a)
  /\ Port!xlink_run = xlink_run /\ Port!xlink_identify = xlink_identify
  /\ Port!xlink_ping = xlink_ping /\ Port!xlink_reset = xlink_reset
<1> USE DEF Port!Request, Request, Port!lo, lo, Port!hi, hi, Port!Wrap, Wrap,
            Port!AddressSpace, AddressSpace
<1>1. \A m, b, a, d : Port!xlink_load(m, b, a, d) = xlink_load(m, b, a, d)
  BY DEF Port!xlink_load, xlink_load, Port!LoadCmd, LoadCmd
<1>2. \A m, b, a, n : Port!xlink_save(m, b, a, n) = xlink_save(m, b, a, n)
  BY DEF Port!xlink_save, xlink_save, Port!SaveCmd, SaveCmd
<1>3. \A m, b, a : Port!xlink_peek(m, b, a) = xlink_peek(m, b, a)
  BY DEF Port!xlink_peek, xlink_peek, Port!PeekCmd, PeekCmd
<1>4. \A m, b, a, v : Port!xlink_poke(m, b, a, v) = xlink_poke(m, b, a, v)
  BY DEF Port!xlink_poke, xlink_poke, Port!PokeCmd, PokeCmd
<1>5. \A m, b, a : Port!xlink_jump(m, b, a) = xlink_jump(m, b, a)
  BY DEF Port!xlink_jump, xlink_jump, Port!JumpCmd, JumpCmd
<1>6. \A a : Port!xlink_inject(a) = xlink_inject(a)
  BY DEF Port!xlink_inject, xlink_inject, Port!InjectCmd, InjectCmd
<1>7. Port!xlink_run = xlink_run /\ Port!xlink_identify = xlink_identify
  BY DEF Port!xlink_run, xlink_run, Port!RunCmd, RunCmd, Port!xlink_identify,
         xlink_identify, Port!IdentifyCmd, IdentifyCmd
<1>8. Port!xlink_ping = xlink_ping /\ Port!xlink_reset = xlink_reset
  BY Zenon DEF Port!xlink_ping, xlink_ping, Port!xlink_reset, xlink_reset
<1> QED
  BY <1>1, <1>2, <1>3, <1>4, <1>5, <1>6, <1>7, <1>8

Assumed ==
  /\ Port!ContentionAssumption /\ Port!CallsAssumption /\ Port!HeaderAssumption
  /\ Port!ServerAssumption /\ Port!MemoryAssumption /\ Port!EnvironmentAssumption
  /\ Port!BudgetAssumption /\ Port!RequestAssumption

LEMMA Assumptions == Assumed
<1> USE DEF Port!Byte, Byte, Port!Address, Address, Port!AddressSpace, AddressSpace
<1>1. Port!ContentionAssumption
  BY ContentionAssumption DEF ContentionAssumption, Port!ContentionAssumption
<1>2. Port!CallsAssumption
  BY CallsAssumption, ZenonT(60) DEF CallsAssumption, Port!CallsAssumption, RequestType, Port!RequestType
<1>3. Port!ServerAssumption
  BY ServerAssumption, ZenonT(60) DEF ServerAssumption, Port!ServerAssumption
<1>4. Port!MemoryAssumption
  BY MemoryAssumption, ZenonT(60) DEF MemoryAssumption, Port!MemoryAssumption, IsMemory, Port!IsMemory
<1>5. Port!EnvironmentAssumption
  BY EnvironmentAssumption DEF EnvironmentAssumption, Port!EnvironmentAssumption
<1>6. Port!BudgetAssumption
  BY BudgetAssumption DEF BudgetAssumption, Port!BudgetAssumption
<1>7. Port!RequestAssumption
  <2> SUFFICES ASSUME NEW r \in Calls
               PROVE  Port!IsRequest(r) /\ Port!LeavesServer(r)
    BY DEF Port!RequestAssumption
  <2>1. IsRequest(r) /\ LeavesServer(r)
    BY RequestAssumption DEF RequestAssumption
  <2>2. Port!IsRequest(r)
    BY <2>1, SameRequests DEF IsRequest, Port!IsRequest
  <2>3. Port!LeavesServer(r)
    <3>1. Port!Touched(r) = Touched(r)
      BY Zenon DEF Touched, Port!Touched, Wrap, Port!Wrap
    <3>2. Port!OwnCells = OwnCells
      BY SMTT(30) DEF OwnCells, Port!OwnCells
    <3> QED
      BY <2>1, <3>1, <3>2, Zenon DEF LeavesServer, Port!LeavesServer
  <2> QED
    BY <2>2, <2>3
<1>8. Port!HeaderAssumption
  <2> SUFFICES ASSUME NEW r \in Calls, r.op \notin {"ping", "reset"}
               PROVE  r.header # <<>>
    BY DEF Port!HeaderAssumption
  <2>1. IsRequest(r)
    BY RequestAssumption DEF RequestAssumption
  <2>2. CASE r.op \in {"load", "save", "peek", "poke", "jump", "inject"}
    BY <2>1, <2>2 DEF IsRequest, Request, xlink_load, xlink_save, xlink_peek, xlink_poke,
       xlink_jump, xlink_inject
  <2>3. CASE r \in {xlink_run, xlink_identify, xlink_ping, xlink_reset}
    BY <2>3, SMTT(30) DEF Request, xlink_run, xlink_identify, xlink_ping, xlink_reset
  <2> QED
    BY <2>1, <2>2, <2>3 DEF IsRequest
<1> QED
  BY <1>1, <1>2, <1>3, <1>4, <1>5, <1>6, <1>7, <1>8, ZenonT(60) DEF Assumed

-----------------------------------------------------------------------------
(* The cable and the server are the same, seen from either driver.         *)
LEMMA SameCable ==
  /\ Port!Byte = Byte /\ Port!Address = Address
  /\ Port!UserportTypeOK <=> UserportTypeOK
  /\ Port!BusValues = BusValues
  /\ Port!server = server /\ Port!userport = userport
  /\ Port!ack <=> ack
  /\ Port!TakeFlag <=> TakeFlag
BY DEF Port!Byte, Byte, Port!Address, Address, Port!AddressSpace, AddressSpace,
       Port!UserportTypeOK, UserportTypeOK, Port!BusValues, BusValues, Port!server, server,
       Port!userport, userport, Port!ack, ack, Port!TakeFlag, TakeFlag

LEMMA SameHelpers ==
  /\ \A m : Port!IsMemory(m) <=> IsMemory(m)
  /\ \A x : Port!Wrap(x) = Wrap(x) /\ Port!lo(x) = lo(x) /\ Port!hi(x) = hi(x)
  /\ \A x, y : Port!Word(x, y) = Word(x, y)
  /\ \A m, a : Port!Cell(m, a) = Cell(m, a)
  /\ \A m, a, v : Port!Put(m, a, v) = Put(m, a, v)
  /\ \A m, a : Port!CellWord(m, a) = CellWord(m, a)
  /\ \A m, a, w : Port!PutWord(m, a, w) = PutWord(m, a, w)
  /\ \A m : Port!Info(m) = Info(m)
  /\ \A m : Port!ColdStart(m) = ColdStart(m)
<1> USE DEF Port!Wrap, Wrap, Port!lo, lo, Port!hi, hi, Port!Word, Word, Port!AddressSpace,
            AddressSpace, Port!Cell, Cell, Port!Put, Put
<1>1. \A m : Port!IsMemory(m) <=> IsMemory(m)
  BY SameCable DEF Port!IsMemory, IsMemory
<1>2. \A m, a, v : Port!Put(m, a, v) = Put(m, a, v)
  OBVIOUS
<1>3. \A m, a : Port!Cell(m, a) = Cell(m, a)
  OBVIOUS
<1>4. \A x : Port!Wrap(x) = Wrap(x) /\ Port!lo(x) = lo(x) /\ Port!hi(x) = hi(x)
  OBVIOUS
<1>5. \A x, y : Port!Word(x, y) = Word(x, y)
  OBVIOUS
<1> HIDE DEF Port!Wrap, Wrap, Port!lo, lo, Port!hi, hi, Port!Word, Word, Port!Cell, Cell,
             Port!Put, Put
<1>6. \A m, a : Port!CellWord(m, a) = CellWord(m, a)
  BY <1>3, <1>4, <1>5 DEF Port!CellWord, CellWord
<1>7. \A m, a, w : Port!PutWord(m, a, w) = PutWord(m, a, w)
  BY <1>2, <1>4 DEF Port!PutWord, PutWord
<1>8. \A m : Port!Info(m) = Info(m)
  BY <1>3, <1>4 DEF Port!Info, Info, Port!memtop, memtop
<1>9. \A m : Port!ColdStart(m) = ColdStart(m)
  BY DEF Port!ColdStart, ColdStart
<1> QED
  BY <1>1, <1>2, <1>3, <1>4, <1>5, <1>6, <1>7, <1>8, <1>9

LEMMA SameServer ==
  /\ Port!ServerTypeOK <=> ServerTypeOK
  /\ \A c : Port!HeaderLength(c) = HeaderLength(c) /\ Port!Dispatch(c) = Dispatch(c)
            /\ Port!Body(c) = Body(c)
  /\ \A c, h : Port!Target(c, h) = Target(c, h)
  /\ Port!TransferStart = TransferStart /\ Port!TransferEnd = TransferEnd
  /\ Port!Handler = Handler /\ Port!sysirq = sysirq /\ Port!uninstall = uninstall
  /\ (Port!Listening <=> Listening) /\ (Port!ServerBlocked <=> ServerBlocked)
  /\ Port!NextByte = NextByte /\ (Port!LastByte <=> LastByte)
  /\ (Port!EndingReply <=> EndingReply) /\ (Port!ServerReady <=> ServerReady)
<1> USE DEF Port!LoadCmd, LoadCmd, Port!SaveCmd, SaveCmd, Port!PokeCmd, PokeCmd, Port!PeekCmd,
            PeekCmd, Port!JumpCmd, JumpCmd, Port!RunCmd, RunCmd, Port!InjectCmd, InjectCmd,
            Port!IdentifyCmd, IdentifyCmd
<1>1. Port!ServerTypeOK <=> ServerTypeOK
  BY SameCable, SameHelpers DEF Port!ServerTypeOK, ServerTypeOK, Port!ServerPC, ServerPC
<1>2. \A c : Port!HeaderLength(c) = HeaderLength(c)
  BY DEF Port!HeaderLength, HeaderLength
<1>3. \A c : Port!Dispatch(c) = Dispatch(c) /\ Port!Body(c) = Body(c)
  BY <1>2 DEF Port!Dispatch, Dispatch, Port!Body, Body
<1>4. \A c, h : Port!Target(c, h) = Target(c, h)
  BY SameHelpers DEF Port!Target, Target
<1>5. Port!TransferStart = TransferStart /\ Port!TransferEnd = TransferEnd
  BY SameHelpers DEF Port!TransferStart, TransferStart, Port!TransferEnd, TransferEnd
<1>6. Port!Handler = Handler /\ Port!sysirq = sysirq /\ Port!uninstall = uninstall
  BY SameHelpers DEF Port!Handler, Handler, Port!sysirq, sysirq, Port!uninstall, uninstall
<1>7. (Port!Listening <=> Listening) /\ (Port!ServerBlocked <=> ServerBlocked)
  BY <1>6 DEF Port!Listening, Listening, Port!ServerBlocked, ServerBlocked, Port!Polling,
     Polling
<1>8. Port!NextByte = NextByte /\ (Port!LastByte <=> LastByte)
  BY <1>5, SameHelpers DEF Port!NextByte, NextByte, Port!LastByte, LastByte
<1>9. (Port!EndingReply <=> EndingReply) /\ (Port!ServerReady <=> ServerReady)
  BY <1>5, <1>8, SameHelpers DEF Port!EndingReply, EndingReply, Port!ServerReady, ServerReady,
     Port!EndingCommand, EndingCommand
<1> QED
  BY <1>1, <1>2, <1>3, <1>4, <1>5, <1>6, <1>7, <1>8, <1>9

LEMMA SameSteps ==
  /\ Port!ServerStep <=> ServerStep
  /\ Port!Commits <=> Commits
<1> USE SameCable, SameHelpers, SameServer DEF Port!bus, bus, Port!userport, userport
<1>1. (Port!SrvIrq <=> SrvIrq) /\ (Port!SrvFetch <=> SrvFetch) /\ (Port!SrvAck <=> SrvAck)
  BY DEF Port!SrvIrq, SrvIrq, Port!SrvFetch, SrvFetch, Port!SrvAck, SrvAck
<1>2. (Port!SrvReadWait <=> SrvReadWait) /\ (Port!SrvReadLatch <=> SrvReadLatch)
  BY DEF Port!SrvReadWait, SrvReadWait, Port!SrvReadLatch, SrvReadLatch
<1>3. Port!SrvReadAck <=> SrvReadAck
  BY DEF Port!SrvReadAck, SrvReadAck, Port!LoadCmd, LoadCmd, Port!SaveCmd, SaveCmd,
     Port!PokeCmd, PokeCmd, Port!PeekCmd, PeekCmd, Port!bstart, bstart
<1>4. (Port!SrvPokeStore <=> SrvPokeStore) /\ (Port!SrvLeave <=> SrvLeave)
  BY DEF Port!SrvPokeStore, SrvPokeStore, Port!SrvLeave, SrvLeave
<1>5. (Port!SrvLoadWait <=> SrvLoadWait) /\ (Port!SrvLoadStore <=> SrvLoadStore)
      /\ (Port!SrvLoadAck <=> SrvLoadAck)
  BY DEF Port!SrvLoadWait, SrvLoadWait, Port!SrvLoadStore, SrvLoadStore, Port!SrvLoadAck,
     SrvLoadAck
<1>6. Port!SrvLoadNext <=> SrvLoadNext
  BY DEF Port!SrvLoadNext, SrvLoadNext, Port!bend, bend
<1>7. (Port!SrvOutWait <=> SrvOutWait) /\ (Port!SrvOutDir <=> SrvOutDir)
      /\ (Port!SrvPut <=> SrvPut) /\ (Port!SrvWriteStrobe <=> SrvWriteStrobe)
  BY DEF Port!SrvOutWait, SrvOutWait, Port!SrvOutDir, SrvOutDir, Port!SrvPut, SrvPut,
     Port!SrvWriteStrobe, SrvWriteStrobe
<1>8. (Port!SrvWriteWait <=> SrvWriteWait) /\ (Port!SrvInput <=> SrvInput)
  BY DEF Port!SrvWriteWait, SrvWriteWait, Port!SrvInput, SrvInput, Port!SaveCmd, SaveCmd,
     Port!IdentifyCmd, IdentifyCmd
<1>9. Port!SrvBoot <=> SrvBoot
  BY DEF Port!SrvBoot, SrvBoot, Port!PingCmd, PingCmd
<1>10. Port!ServerStep <=> ServerStep
  BY <1>1, <1>2, <1>3, <1>4, <1>5, <1>6, <1>7, <1>8, <1>9, Zenon
  DEF Port!ServerStep, ServerStep
<1>11. Port!Commits <=> Commits
  BY <1>1, <1>3, <1>5 DEF Port!Commits, Commits
<1> QED
  BY <1>10, <1>11

-----------------------------------------------------------------------------
(* What holds of the board and of the driver by themselves, faults or not: *)
(* the board has the bytes of its transfer, ...                            *)
BoardInv ==
  /\ transfer = "none" => bpc = "done" /\ bytes = <<>> /\ size = 0 /\ host
  /\ transfer = "send" => Len(bytes) = size
  /\ transfer = "receive" => Len(bytes) = IF bpc = "strobe" THEN count + 1 ELSE count
  /\ transfer \in {"send", "receive"} /\ bpc \in {"byte", "strobe", "wait"} => count < size

(* ... which are those the driver is about to send, ... *)
Preparing == {"idle", "open", "reset", "pingOutput", "pingWrite", "pingStrobe", "ask",
              "output", "input", "turn"}

SendInv ==
  /\ pc \in {"send", "sending"} =>
       /\ req.op \notin {"ping", "reset"}
       /\ got = <<>>
       /\ part <= Parts(req)
       /\ moved <= Len(Sending)
  /\ pc = "sending" =>
       /\ transfer \in {"none", "send"}
       /\ transfer = "send" => /\ moved + size <= Len(Sending)
                               /\ bytes = SubSeq(Sending, moved + 1, moved + size)

(* ... or to receive, after the parts of the reply that it has. *)
Prior == CASE part = 1 -> 0 [] part = 2 -> 1 [] part = 3 -> 1 + (got[1] % 16)

ReceiveInv ==
  /\ pc \in {"receive", "receiving"} =>
       /\ part <= Replies(req)
       /\ part >= 2 => got # <<>>
       /\ moved <= ReplySize(req, part, got)
       /\ Len(got) = Prior + moved
  /\ pc = "receiving" =>
       /\ transfer \in {"none", "receive"}
       /\ transfer = "receive" => moved + size <= ReplySize(req, part, got)

CallInv ==
  /\ pc \in Preparing => part = 1 /\ moved = 0 /\ got = <<>>
  /\ pc \notin {"idle", "closeInput", "close"} => ~result
  /\ pc = "reset" => req.op = "reset"
  /\ pc \in {"pingOutput", "pingWrite", "pingStrobe", "ask", "output"} => req.op # "reset"
  /\ pc = "output" => req.op # "ping"
  /\ pc \in {"input", "turn", "receive", "receiving"} => Receives(req)
  /\ SendInv
  /\ ReceiveInv

Kinds == UserportTypeOK /\ BoardTypeOK /\ ClientTypeOK

LEMMA RequestFields ==
  ASSUME NEW r \in Calls
  PROVE  /\ r.header \in Seq(Byte) /\ r.data \in Seq(Byte) /\ r.want \in Nat
         /\ r.op \in {"load", "save", "poke", "peek", "jump", "run", "inject",
                      "identify", "ping", "reset"}
BY CallsAssumption DEF CallsAssumption, RequestType

LEMMA PartBytes ==
  ASSUME req \in Calls
  PROVE  Sending \in Seq(Byte) /\ Len(Sending) \in Nat
<1>1. Sending \in Seq(Byte)
  BY RequestFields DEF Sending, Part
<1> QED
  BY <1>1

LEMMA ReplySizes ==
  ASSUME ClientTypeOK, ReceiveInv, pc \in {"receive", "receiving"}
  PROVE  /\ ReplySize(req, part, got) \in Nat
         /\ part >= 2 => got # <<>> /\ req.op = "identify" /\ got[1] % 16 \in Nat
         /\ Prior \in Nat /\ Len(got) \in Nat
<1>1. part \in 1 .. 3 /\ got \in Seq(Byte) /\ req \in Calls /\ moved \in Nat /\ Len(got) \in Nat
  BY DEF ClientTypeOK
<1>2. got # <<>> => got[1] % 16 \in Nat
  <2>1. got # <<>> => got[1] \in Byte
    BY <1>1
  <2>2. \A x \in Byte : x % 16 \in Nat
    BY DEF Byte
  <2> QED
    BY <2>1, <2>2
<1>3. part >= 2 => req.op = "identify"
  BY <1>1 DEF ReceiveInv, Replies
<1>4. part >= 2 => got # <<>>
  BY DEF ReceiveInv
<1>5. ReplySize(req, part, got) \in Nat
  BY <1>1, <1>2, <1>3, <1>4, RequestFields DEF ReplySize
<1>6. Prior \in Nat
  BY <1>1, <1>2, <1>4 DEF Prior
<1> QED
  BY <1>1, <1>2, <1>3, <1>4, <1>5, <1>6

LEMMA Growing ==
  ASSUME NEW s \in Seq(Byte), NEW t \in Seq(Byte)
  PROVE  /\ s \o t \in Seq(Byte)
         /\ Len(s \o t) = Len(s) + Len(t)
         /\ s # <<>> => (s \o t)[1] = s[1]
<1>1. s \o t \in Seq(Byte) /\ Len(s \o t) = Len(s) + Len(t)
  OBVIOUS
<1>2. \A i \in 1 .. Len(s) : (s \o t)[i] = s[i]
  BY ConcatProperties
<1>3. s # <<>> => 1 \in 1 .. Len(s)
  OBVIOUS
<1> QED
  BY <1>1, <1>2, <1>3

(* A transfer takes no more than there is. *)
LEMMA Fitting ==
  ASSUME NEW n \in Nat
  PROVE  Fits(n) \in Nat /\ Fits(n) <= n
BY PayloadAssumption DEF PayloadAssumption, Fits

LEMMA Beginning ==
  ASSUME NEW op \in {"send", "receive"}, NEW data, NEW n \in Nat, Begin(op, data, n)
  PROVE  /\ transfer' = op /\ bytes' = data /\ size' = n /\ count' = 0 /\ host'
         /\ n = 0 => bpc' = "done"
         /\ n # 0 => count' < size' /\ bpc' = IF op = "send" THEN "byte" ELSE "wait"
         /\ UNCHANGED << last, handle >>
BY DEF Begin

LEMMA SendKinds ==
  ASSUME Kinds, BoardInv, CallInv, Send
  PROVE  Kinds' /\ BoardInv' /\ CallInv'
<1> DEFINE n == Fits(Len(Sending) - moved)
           data == SubSeq(Sending, moved + 1, moved + n)
<1>1. /\ Sending \in Seq(Byte) /\ Len(Sending) \in Nat /\ moved \in Nat
      /\ moved <= Len(Sending)
  BY PartBytes DEF Send, Kinds, ClientTypeOK, CallInv, SendInv
<1>2. n \in Nat /\ moved + n <= Len(Sending)
  BY <1>1, Fitting, SMTT(30)
<1>3. Begin("send", data, n) /\ UNCHANGED << userport, call >> /\ pc = "send" /\ pc' = "sending"
  BY DEF Send
<1>4. Sending' = Sending
  BY <1>3 DEF Sending, Part, call
<1> HIDE DEF n
<1>5. data \in Seq(Byte) /\ Len(data) = n
  BY <1>1, <1>2
<1> HIDE DEF data
<1>6. Kinds'
  BY <1>2, <1>3, <1>5 DEF Kinds, UserportTypeOK, BoardTypeOK, ClientTypeOK, Begin, userport, call
<1>7. BoardInv'
  <2>1. /\ transfer' = "send" /\ bytes' = data /\ size' = n
        /\ bpc' \in {"byte", "strobe", "wait"} => count' < size'
    BY <1>2, <1>3, Beginning
  <2> QED
    BY <1>5, <2>1 DEF BoardInv
<1>8. /\ transfer' = "send" /\ size' = n /\ bytes' = data
      /\ UNCHANGED << req, part, moved, got, result >>
  BY <1>3 DEF Begin, call
<1>9. SendInv'
  BY <1>2, <1>3, <1>4, <1>8 DEF CallInv, SendInv, data
<1> QED
  BY <1>3, <1>6, <1>7, <1>8, <1>9 DEF CallInv, Preparing, ReceiveInv

LEMMA SendReportKinds ==
  ASSUME Kinds, BoardInv, CallInv, SendReport
  PROVE  Kinds' /\ BoardInv' /\ CallInv'
<1>1. /\ Sending \in Seq(Byte) /\ Len(Sending) \in Nat /\ moved \in Nat /\ size \in Nat
      /\ moved + size <= Len(Sending) /\ req \in Calls /\ part \in 1 .. 3
      /\ req.op \notin {"ping", "reset"} /\ got = <<>> /\ part <= Parts(req) /\ ~result
  BY PartBytes DEF SendReport, Kinds, BoardTypeOK, ClientTypeOK, CallInv, SendInv
<1>2. /\ UNCHANGED << userport, last, handle, req, got >> /\ Release /\ pc = "sending"
  BY DEF SendReport
<1>3. UserportTypeOK' /\ BoardTypeOK' /\ BoardInv'
  BY <1>2 DEF Kinds, UserportTypeOK, BoardTypeOK, BoardInv, Release, userport
<1>4. CASE pc' = "closeInput" /\ UNCHANGED << part, moved, result >>
  BY <1>2, <1>3, <1>4 DEF Kinds, ClientTypeOK, CallInv, Preparing, SendInv, ReceiveInv
<1>5. CASE moved' = moved + size /\ pc' = "send" /\ UNCHANGED << part, result >>
  <2>1. Sending' = Sending
    BY <1>2, <1>5 DEF Sending, Part
  <2>2. ClientTypeOK'
    BY <1>1, <1>2, <1>5 DEF Kinds, ClientTypeOK
  <2> QED
    BY <1>1, <1>2, <1>3, <1>5, <2>1, <2>2
    DEF Kinds, CallInv, Preparing, SendInv, ReceiveInv, Parts
<1>6. CASE /\ part < Parts(req) /\ part' = part + 1 /\ moved' = 0 /\ pc' = "send"
           /\ UNCHANGED result
  <2>1. ClientTypeOK' /\ part' <= Parts(req)
    BY <1>1, <1>2, <1>6 DEF Kinds, ClientTypeOK, Parts
  <2>2. Len(Part(req, part')) \in Nat
    BY <1>1, RequestFields DEF Part
  <2> QED
    BY <1>1, <1>2, <1>3, <1>6, <2>1, <2>2
    DEF Kinds, CallInv, Preparing, SendInv, ReceiveInv, Sending, Parts
<1>7. CASE /\ part' = 1 /\ moved' = 0
           /\ pc' = IF Receives(req) THEN "input" ELSE "closeInput"
           /\ result' = ~Receives(req)
  <2>1. result' \in BOOLEAN /\ (Receives(req) => ~result') /\ Receives(req)' = Receives(req)
    BY <1>2, <1>7, Zenon
  <2>2. ClientTypeOK'
    BY <1>1, <1>2, <1>7, <2>1 DEF Kinds, ClientTypeOK
  <2> HIDE DEF Receives
  <2> QED
    BY <1>1, <1>2, <1>3, <1>7, <2>1, <2>2 DEF Kinds, CallInv, Preparing, SendInv, ReceiveInv
<1> QED
  BY <1>4, <1>5, <1>6, <1>7 DEF SendReport

LEMMA ReceiveKinds ==
  ASSUME Kinds, BoardInv, CallInv, Turn \/ Receive
  PROVE  Kinds' /\ BoardInv' /\ CallInv'
<1>1. CASE Turn
  <2>1. /\ flag' = TRUE /\ UNCHANGED << pa2, bus, board, call >>
        /\ pc = "turn" /\ pc' = "receive"
    BY <1>1 DEF Turn, StrobeTransfer, Control, strobe, bus
  <2>2. Kinds' /\ BoardInv'
    BY <2>1 DEF Kinds, UserportTypeOK, BoardTypeOK, ClientTypeOK, BoardInv, bus, board, call
  <2>3. part = 1 /\ moved = 0 /\ got = <<>> /\ Receives(req) /\ ~result /\ req \in Calls
    BY <2>1 DEF Kinds, ClientTypeOK, CallInv, Preparing
  <2>4. ReplySize(req, 1, got) \in Nat /\ Replies(req) >= 1
    BY <2>3, RequestFields DEF ReplySize, Replies
  <2>5. UNCHANGED << req, part, moved, got, result >>
    BY <2>1 DEF call
  <2>6. ReceiveInv'
    BY <2>1, <2>3, <2>4, <2>5 DEF ReceiveInv, Prior
  <2> HIDE DEF Receives
  <2> QED
    BY <2>1, <2>2, <2>3, <2>5, <2>6 DEF CallInv, Preparing, SendInv
<1>2. CASE Receive
  <2> DEFINE n == Fits(Wanted)
  <2>1. Wanted \in Nat /\ moved \in Nat /\ ReplySize(req, part, got) \in Nat
    <3>1. ReplySize(req, part, got) \in Nat /\ moved \in Nat
          /\ moved <= ReplySize(req, part, got)
      BY <1>2, ReplySizes DEF Receive, Kinds, ClientTypeOK, CallInv, ReceiveInv
    <3> QED
      BY <3>1 DEF Wanted
  <2>2. n \in Nat /\ moved + n <= ReplySize(req, part, got)
    <3>1. n \in Nat /\ n <= Wanted
      BY <2>1, Fitting
    <3> QED
      BY <2>1, <3>1 DEF Wanted
  <2>3. /\ Begin("receive", <<>>, n) /\ UNCHANGED << userport, call >>
        /\ pc = "receive" /\ pc' = "receiving"
    BY <1>2 DEF Receive
  <2> HIDE DEF n
  <2>4. Kinds'
    BY <2>2, <2>3 DEF Kinds, UserportTypeOK, BoardTypeOK, ClientTypeOK, Begin, userport, call
  <2>5. BoardInv'
    <3>1. /\ transfer' = "receive" /\ bytes' = <<>> /\ count' = 0 /\ bpc' # "strobe"
          /\ bpc' \in {"byte", "strobe", "wait"} => count' < size'
      BY <2>2, <2>3, Beginning
    <3> QED
      BY <3>1 DEF BoardInv
  <2>6. /\ transfer' = "receive" /\ size' = n
        /\ UNCHANGED << req, part, moved, got, result >>
    BY <2>3 DEF Begin, call
  <2>7. ReceiveInv'
    BY <2>2, <2>3, <2>6 DEF CallInv, ReceiveInv, Prior
  <2> QED
    BY <2>3, <2>4, <2>5, <2>6, <2>7 DEF CallInv, Preparing, SendInv
<1> QED
  BY <1>1, <1>2

LEMMA ReceiveReportKinds ==
  ASSUME Kinds, BoardInv, CallInv, ReceiveReport
  PROVE  Kinds' /\ BoardInv' /\ CallInv'
<1>1. /\ part \in 1 .. 3 /\ moved \in Nat /\ size \in Nat /\ count \in Nat /\ req \in Calls
      /\ got \in Seq(Byte) /\ bytes \in Seq(Byte) /\ Len(bytes) = count
      /\ moved + size <= ReplySize(req, part, got) /\ Receives(req) /\ ~result
      /\ part <= Replies(req) /\ Len(got) = Prior + moved /\ (part >= 2 => got # <<>>)
      /\ Len(got) \in Nat
  BY DEF ReceiveReport, Kinds, BoardTypeOK, ClientTypeOK, CallInv, ReceiveInv, BoardInv
<1>2. /\ UNCHANGED << userport, last, handle, req >> /\ Release /\ pc = "receiving"
      /\ got' = got \o bytes
  BY DEF ReceiveReport
<1>3. UserportTypeOK' /\ BoardTypeOK' /\ BoardInv'
  BY <1>2 DEF Kinds, UserportTypeOK, BoardTypeOK, BoardInv, Release, userport
<1>4. /\ got' \in Seq(Byte) /\ Len(got') = Len(got) + count
      /\ got # <<>> => got'[1] = got[1] /\ got' # <<>>
  <2>1. Len(got') = Len(got) + count /\ got' \in Seq(Byte)
    BY <1>1, <1>2, Growing
  <2>2. got # <<>> => Len(got) # 0
    BY <1>1
  <2>3. got # <<>> => got'[1] = got[1]
    BY <1>1, <1>2, Growing
  <2>4. got' = <<>> => Len(got') = 0
    OBVIOUS
  <2> QED
    BY <1>1, <2>1, <2>2, <2>3, <2>4
<1>5. /\ ReplySize(req, part, got) \in Nat /\ Prior \in Nat
      /\ part >= 2 => req.op = "identify" /\ got[1] % 16 \in Nat
  BY <1>2, ReplySizes DEF Kinds, CallInv
<1> HIDE DEF Receives
<1>6. CASE pc' = "closeInput" /\ part' = part /\ moved' = moved /\ result' \in BOOLEAN
  BY <1>1, <1>2, <1>3, <1>4, <1>6 DEF Kinds, ClientTypeOK, CallInv, Preparing, SendInv, ReceiveInv
<1>7. CASE /\ count = size /\ moved' = moved + size /\ pc' = "receive"
           /\ UNCHANGED << part, result >>
  <2>1. ReplySize(req, part, got') = ReplySize(req, part, got) /\ Prior' = Prior
    BY <1>1, <1>4, <1>7 DEF ReplySize, Prior
  <2>2. moved' \in Nat /\ Len(got') = Prior + moved'
    BY <1>1, <1>4, <1>5, <1>7
  <2>3. ClientTypeOK'
    BY <1>1, <1>2, <1>4, <1>7, <2>2 DEF Kinds, ClientTypeOK
  <2>4. ReceiveInv'
    BY <1>1, <1>2, <1>4, <1>7, <2>1, <2>2 DEF ReceiveInv, Replies
  <2> QED
    BY <1>1, <1>2, <1>3, <1>7, <2>3, <2>4 DEF Kinds, CallInv, Preparing, SendInv, Receives
<1>8. CASE /\ count = size /\ size = Wanted /\ part < Replies(req) /\ part' = part + 1
           /\ moved' = 0 /\ pc' = "receive" /\ UNCHANGED result
  <2>1. /\ req.op = "identify" /\ part' \in 2 .. 3 /\ Replies(req) = 3
    BY <1>1, <1>8 DEF Replies
  <2>2. moved + size = ReplySize(req, part, got)
    BY <1>1, <1>5, <1>8 DEF Wanted
  <2>3. Len(got') = Prior + ReplySize(req, part, got)
    BY <1>1, <1>4, <1>5, <1>8, <2>2
  <2>4. got' # <<>> /\ ReplySize(req, part', got') \in Nat /\ Len(got') = Prior'
    <3>1. CASE part = 1
      <4>1. Prior = 0 /\ ReplySize(req, part, got) = 1 /\ Prior' = 1 /\ part' = 2
        BY <1>8, <2>1, <3>1 DEF Prior, ReplySize
      <4>2. Len(got') = 1 /\ got' # <<>>
        BY <2>3, <4>1
      <4>3. got'[1] \in Byte
        BY <1>4, <4>2
      <4>4. \A x \in Byte : x % 16 \in Nat
        BY DEF Byte
      <4>5. ReplySize(req, 2, got') \in Nat
        BY <2>1, <4>3, <4>4 DEF ReplySize
      <4> QED
        BY <4>1, <4>2, <4>5
    <3>2. CASE part = 2
      <4>1. got # <<>> /\ got'[1] = got[1] /\ got' # <<>> /\ part' = 3
        BY <1>1, <1>4, <1>8, <3>2
      <4>2. /\ Prior = 1 /\ ReplySize(req, part, got) = got[1] % 16
            /\ Prior' = 1 + (got[1] % 16)
        BY <1>8, <2>1, <3>2, <4>1 DEF Prior, ReplySize
      <4>3. ReplySize(req, 3, got') \in Nat
        BY <2>1 DEF ReplySize
      <4> QED
        BY <2>3, <4>1, <4>2, <4>3
    <3> QED
      BY <1>1, <1>8, <2>1, <3>1, <3>2
  <2>5. ClientTypeOK'
    BY <1>1, <1>2, <1>4, <1>8, <2>1 DEF Kinds, ClientTypeOK
  <2>6. ReceiveInv'
    BY <1>2, <1>8, <2>1, <2>4 DEF ReceiveInv, Replies
  <2> QED
    BY <1>1, <1>2, <1>3, <1>8, <2>5, <2>6 DEF Kinds, CallInv, Preparing, SendInv, Receives
<1>9. result' = (req.op = "identify" => ~Unidentified(got')) => result' \in BOOLEAN
  BY Zenon
<1>10. result \in BOOLEAN
  BY DEF Kinds, ClientTypeOK
<1> QED
  BY <1>6, <1>7, <1>8, <1>9, <1>10 DEF ReceiveReport

(* Steps of the driver. *)
LEMMA ClientKinds ==
  ASSUME Kinds, BoardInv, CallInv, ClientStep
  PROVE  Kinds' /\ BoardInv' /\ CallInv'
<1> USE DEF Kinds, UserportTypeOK, BoardTypeOK, ClientTypeOK, BoardInv, CallInv, Preparing,
            input, output, strobe, bus, userport, board, call
<1>1. 255 \in Byte /\ PingCmd \in Byte
  BY DEF Byte, PingCmd
<1>2. CASE Open
  BY <1>1, <1>2 DEF Open, SendInv, ReceiveInv
<1>3. CASE OpenFails
  BY <1>3 DEF OpenFails, SendInv, ReceiveInv
<1>4. CASE PingOutput
  BY <1>4 DEF PingOutput, OutputTransfer, Control, SendInv, ReceiveInv
<1>5. CASE PingWrite
  BY <1>1, <1>5 DEF PingWrite, Control, SendInv, ReceiveInv
<1>6. CASE PingStrobe
  BY <1>6 DEF PingStrobe, StrobeTransfer, Control, SendInv, ReceiveInv
<1>7. CASE Acked
  BY <1>7 DEF Acked, SendInv, ReceiveInv
<1>8. CASE Output
  <2>1. pc' = "send" /\ UNCHANGED << board, call >> /\ UserportTypeOK'
    BY <1>8 DEF Output, OutputTransfer, Control
  <2>2. part = 1 /\ moved = 0 /\ got = <<>> /\ req.op \notin {"ping", "reset"} /\ req \in Calls
    BY <1>8 DEF Output, OutputTransfer, Control
  <2>3. Sending' = Sending /\ Len(Sending) \in Nat
    BY <2>1, <2>2, PartBytes DEF Sending, Part
  <2> QED
    BY <1>8, <2>1, <2>2, <2>3 DEF Output, OutputTransfer, Control, SendInv, ReceiveInv, Parts
<1>9. CASE Input
  BY <1>1, <1>9 DEF Input, InputTransfer, Control, SendInv, ReceiveInv
<1>10. CASE CloseInput
  BY <1>1, <1>10 DEF CloseInput, InputTransfer, Control, SendInv, ReceiveInv
<1>11. CASE Close
  BY <1>11 DEF Close, Over, SendInv, ReceiveInv
<1>12. CASE Gone
  BY <1>12 DEF Gone, Over, SendInv, ReceiveInv
<1> QED
  BY <1>2, <1>3, <1>4, <1>5, <1>6, <1>7, <1>8, <1>9, <1>10, <1>11, <1>12, SendKinds,
     SendReportKinds, ReceiveKinds, ReceiveReportKinds DEF ClientStep

(* What the lines can carry is bytes. *)
LEMMA BusBytesHere ==
  ASSUME UserportTypeOK
  PROVE  BusValues \subseteq Byte
<1>1. 255 \in Byte
  BY DEF Byte
<1> QED
  BY <1>1, ContentionAssumption DEF ContentionAssumption, UserportTypeOK, BusValues

(* Steps of the board: none of them changes what it is to transfer. *)
LEMMA BoardCall ==
  ASSUME CallInv, UNCHANGED client,
         transfer' = "none" \/ (UNCHANGED << transfer, size >>
                                /\ (transfer = "send" => UNCHANGED bytes))
  PROVE  CallInv'
<1>1. UNCHANGED << pc, req, part, moved, got, result >>
  BY DEF client
<1>2. SendInv'
  BY <1>1 DEF CallInv, SendInv, Sending
<1>3. ReceiveInv'
  BY <1>1 DEF CallInv, ReceiveInv, Prior
<1> QED
  BY <1>1, <1>2, <1>3 DEF CallInv

LEMMA PowerUpKinds ==
  ASSUME Kinds, PowerUp
  PROVE  UserportTypeOK' /\ BoardTypeOK' /\ BoardInv' /\ transfer' = "none"
<1>1. 255 \in Byte
  BY DEF Byte
<1>2. BoardTypeOK' /\ BoardInv' /\ transfer' = "none"
  <2>1. /\ transfer' = "none" /\ bpc' = "done" /\ bytes' = <<>> /\ size' = 0 /\ count' = 0
        /\ host' = TRUE /\ handle' = FALSE /\ last' = pa2 /\ pa2 \in {0, 1}
    BY DEF Kinds, UserportTypeOK, PowerUp, Release
  <2>2. host' \in BOOLEAN /\ handle' \in BOOLEAN /\ host'
    BY <2>1, Zenon
  <2>3. <<>> \in Seq(Byte) /\ 0 \in 0 .. 0 /\ last' \in {0, 1}
    BY <2>1
  <2>4. BoardTypeOK'
    BY <2>1, <2>2, <2>3 DEF BoardTypeOK
  <2> QED
    BY <2>1, <2>2, <2>4 DEF BoardInv
<1>3. flag' \in BOOLEAN
  BY DEF Kinds, UserportTypeOK, PowerUp
<1>4. pcDriving' = FALSE /\ pcData' = 255 /\ UNCHANGED << pa2, ciaData, ciaDriving >>
  BY DEF PowerUp, input
<1> QED
  BY <1>1, <1>2, <1>3, <1>4 DEF Kinds, UserportTypeOK

LEMMA BoardKinds ==
  ASSUME Kinds, BoardInv, CallInv, BoardStep \/ SendTimeout \/ ReceiveTimeout, UNCHANGED client
  PROVE  Kinds' /\ BoardInv' /\ CallInv'
<1> USE DEF UserportTypeOK, BoardTypeOK, BoardInv, strobe, bus, userport
<1>1. UserportTypeOK /\ BoardTypeOK /\ ClientTypeOK'
  BY DEF Kinds, ClientTypeOK, client
<1>2. CASE SendByte
  <2>1. count \in Nat /\ count < Len(bytes) /\ bytes \in Seq(Byte)
    BY <1>1, <1>2 DEF SendByte
  <2>2. bytes[count + 1] \in Byte
    BY <2>1
  <2> QED
    BY <1>1, <1>2, <2>2, BoardCall DEF SendByte, Kinds
<1>3. CASE SendStrobe
  BY <1>1, <1>3, BoardCall DEF SendStrobe, Kinds
<1>4. CASE SendAcked
  BY <1>1, <1>4, BoardCall DEF SendAcked, Kinds
<1>5. CASE Offered
  BY <1>1, <1>5, BoardCall DEF Offered, Kinds
<1>6. CASE ReceiveByte
  <2>1. PICK b \in Byte : bytes' = Append(bytes, b)
    BY <1>1, <1>6, BusBytesHere DEF ReceiveByte
  <2>2. bytes \in Seq(Byte) /\ count \in Nat /\ Len(bytes) = count
    BY <1>1, <1>6 DEF ReceiveByte
  <2>3. bytes' \in Seq(Byte) /\ Len(bytes') = count + 1
    BY <2>1, <2>2
  <2> QED
    BY <1>1, <1>6, <2>3, BoardCall DEF ReceiveByte, Kinds
<1>7. CASE ReceiveStrobe
  <2>1. /\ count < size /\ count' = count + 1 /\ Len(bytes) = count + 1
        /\ bpc' \in {"stuck", "done", "wait"} /\ transfer = "receive" /\ flag' = TRUE
        /\ UNCHANGED << pa2, bus, transfer, bytes, size, host, last, handle >>
    BY <1>7 DEF ReceiveStrobe
  <2>2. bpc' = "wait" => count' # size
    BY <1>1, <1>7 DEF ReceiveStrobe, PacketEnd
  <2>3. count \in Nat /\ size \in Nat
    BY <1>1
  <2> QED
    BY <1>1, <2>1, <2>2, <2>3, BoardCall DEF Kinds
<1>8. CASE Forget
  BY <1>1, <1>8, BoardCall DEF Forget, Release, Kinds
<1>9. CASE WatchdogReset
  BY <1>1, <1>9, PowerUpKinds, BoardCall DEF WatchdogReset, Kinds
<1>10. CASE SendTimeout
  BY <1>1, <1>10, BoardCall DEF SendTimeout, Kinds
<1>11. CASE ReceiveTimeout
  BY <1>1, <1>11, BoardCall DEF ReceiveTimeout, Kinds
<1> QED
  BY <1>2, <1>3, <1>4, <1>5, <1>6, <1>7, <1>8, <1>9, <1>10, <1>11 DEF BoardStep

(* What happens to the call or to the board from outside. *)
LEMMA AbandonedKinds ==
  ASSUME Kinds, BoardInv, Abandoned
  PROVE  UserportTypeOK' /\ BoardTypeOK' /\ BoardInv'
<1>1. CASE transfer # "none"
  <2>1. /\ host' = FALSE /\ UNCHANGED << userport, transfer, bytes, size, count, last, handle >>
    BY <1>1 DEF Abandoned
  <2>2. bpc' = bpc \/ (bpc' = "stuck" /\ (transfer = "send" \/ bpc = "done"))
    BY <1>1 DEF Abandoned
  <2> QED
    BY <1>1, <2>1, <2>2, ZenonT(60) DEF Kinds, UserportTypeOK, BoardTypeOK, BoardInv, userport
<1>2. CASE transfer = "none"
  BY <1>2 DEF Abandoned, Kinds, UserportTypeOK, BoardTypeOK, BoardInv, userport
<1> QED
  BY <1>1, <1>2

-----------------------------------------------------------------------------
(* The kinds of all variables, and what makes them inductive. *)
KindInv ==
  /\ TypeOK
  /\ BoardInv
  /\ CallInv
  /\ Port!ServerInv
  /\ Port!Drives

LEMMA SamePrimed ==
  /\ Port!UserportTypeOK' <=> UserportTypeOK'
  /\ Port!ServerTypeOK' <=> ServerTypeOK'
<1>1. Port!UserportTypeOK <=> UserportTypeOK
  BY SameCable
<1>2. Port!ServerTypeOK <=> ServerTypeOK
  BY SameServer
<1> QED
  BY <1>1, <1>2, PTL

LEMMA ServerKinds ==
  ASSUME KindInv, ServerStep
  PROVE  UserportTypeOK' /\ ServerTypeOK' /\ Port!ServerInv' /\ Port!Drives'
<1>1. Port!UserportTypeOK /\ Port!ServerTypeOK /\ Port!ServerInv /\ Port!Drives
      /\ Port!ServerStep
  BY SameCable, SameServer, SameSteps DEF KindInv, TypeOK
<1>2. Port!UserportTypeOK' /\ Port!ServerTypeOK' /\ Port!ServerInv'
  BY <1>1, Assumptions, Port!ServerProgress DEF Port!ServerProgress, Assumed
<1>3. Port!Drives'
  BY <1>1, Assumptions, Port!DrivesStays DEF Port!DrivesStays, Assumed
<1> QED
  BY <1>2, <1>3, SamePrimed

LEMMA ServerKeeps ==
  ASSUME KindInv, UNCHANGED << server, ciaDriving >>
  PROVE  ServerTypeOK' /\ Port!ServerInv' /\ Port!Drives'
BY DEF KindInv, TypeOK, ServerTypeOK, Port!ServerInv, Port!Drives, server

LEMMA ResetKinds ==
  ASSUME KindInv, ResetMachine
  PROVE  UserportTypeOK' /\ ServerTypeOK' /\ Port!ServerInv' /\ Port!Drives'
BY DEF KindInv, TypeOK, ResetMachine, UserportTypeOK, ServerTypeOK, ServerPC, Port!ServerInv,
       Port!Drives

LEMMA BudgetKinds ==
  ASSUME budget \in 0 .. MaxBudget, Spend \/ UNCHANGED budget
  PROVE  budget' \in 0 .. MaxBudget
BY BudgetAssumption DEF BudgetAssumption, Spend

LEMMA InitKinds ==
  ASSUME Init
  PROVE  KindInv
<1>1. UserportTypeOK
  <2>1. flag \in BOOLEAN /\ pcDriving \in BOOLEAN /\ ciaDriving \in BOOLEAN
    BY Zenon DEF Init, UserportInit
  <2>2. pa2 \in {0, 1} /\ pcData \in Byte /\ ciaData \in Byte
    BY SMT DEF Init, UserportInit, Byte
  <2> QED
    BY <2>1, <2>2 DEF UserportTypeOK
<1>2. BoardTypeOK /\ BoardInv
  <2>1. host \in BOOLEAN /\ handle \in BOOLEAN /\ host
    BY Zenon DEF Init, BoardInit
  <2>2. /\ transfer = "none" /\ bpc = "done" /\ bytes = <<>> /\ size = 0 /\ count = 0
        /\ last = pa2 /\ pa2 \in {0, 1}
    BY DEF Init, BoardInit, UserportInit
  <2>3. <<>> \in Seq(Byte) /\ 0 \in 0 .. 0 /\ last \in {0, 1}
    BY <2>2
  <2>4. BoardTypeOK
    BY <2>1, <2>2, <2>3 DEF BoardTypeOK
  <2> QED
    BY <2>1, <2>2, <2>4 DEF BoardInv
<1>3. ClientTypeOK /\ CallInv
  <2>1. req \in Calls
    BY CallsAssumption DEF CallsAssumption, Init, ClientInit
  <2>2. result \in BOOLEAN
    BY Zenon DEF Init, ClientInit
  <2>3. pc = "idle" /\ part = 1 /\ moved = 0 /\ got = <<>>
    BY DEF Init, ClientInit
  <2> QED
    BY <2>1, <2>2, <2>3 DEF ClientTypeOK, CallInv, SendInv, ReceiveInv
<1>4. ServerTypeOK /\ Port!ServerInv /\ Port!Drives
  <2>1. 0 \in Address
    BY DEF Address, AddressSpace
  <2>2. Port!Handler \in Port!Address
    BY Assumptions, Port!VectorAddresses DEF Port!VectorAddresses, Assumed
  <2>3. IsMemory(mem) /\ vector \in Address
    BY <2>2, SameCable, SameServer, MemoryAssumption DEF MemoryAssumption, Init, ServerInit
  <2>4. isBasic \in BOOLEAN /\ masked \in BOOLEAN
    BY Zenon DEF Init, ServerInit
  <2>5. /\ spc = "main" /\ scmd \in Byte /\ hdr = <<>> /\ cursor \in Address /\ sidx = 0
        /\ entry = [kind |-> "none", at |-> 0] /\ ciaDriving = FALSE
    BY <2>1 DEF Init, ServerInit, UserportInit, Byte, PingCmd
  <2> QED
    BY <2>1, <2>3, <2>4, <2>5 DEF ServerTypeOK, ServerPC, Port!ServerInv, Port!Drives
<1>5. clean \in BOOLEAN /\ done \in Nat /\ budget \in 0 .. MaxBudget
  BY BudgetAssumption DEF BudgetAssumption, Init
<1> QED
  BY <1>1, <1>2, <1>3, <1>4, <1>5 DEF KindInv, TypeOK

LEMMA StepKinds ==
  ASSUME KindInv, [Next]_vars
  PROVE  KindInv'
<1>1. Kinds /\ BoardInv /\ CallInv /\ clean \in BOOLEAN /\ done \in Nat
      /\ budget \in 0 .. MaxBudget
  BY DEF KindInv, TypeOK, Kinds
<1>2. SUFFICES /\ Kinds' /\ BoardInv' /\ CallInv'
               /\ ServerTypeOK' /\ Port!ServerInv' /\ Port!Drives'
               /\ clean' \in BOOLEAN /\ done' \in Nat /\ budget' \in 0 .. MaxBudget
  BY DEF KindInv, TypeOK, Kinds
<1>3. CASE NewCall
  <2>1. Kinds' /\ BoardInv' /\ CallInv'
    <3>1. /\ UNCHANGED << userport, board, part, moved, got >>
          /\ pc = "idle" /\ pc' = "open" /\ req' \in Calls /\ ~result' /\ result' \in BOOLEAN
      BY <1>3, Zenon DEF NewCall, Call
    <3>2. UserportTypeOK' /\ BoardTypeOK' /\ BoardInv'
      BY <1>1, <3>1 DEF Kinds, UserportTypeOK, BoardTypeOK, BoardInv, userport, board
    <3>3. ClientTypeOK'
      BY <1>1, <3>1 DEF Kinds, ClientTypeOK
    <3>4. CallInv'
      BY <1>1, <3>1 DEF CallInv, Preparing, SendInv, ReceiveInv
    <3> QED
      BY <3>2, <3>3, <3>4 DEF Kinds
  <2>2. clean' \in BOOLEAN /\ done' \in Nat
    BY <1>3 DEF NewCall, InStep
  <2>3. budget' \in 0 .. MaxBudget
    BY <1>1, <1>3, BudgetKinds DEF NewCall
  <2> QED
    BY <1>3, <2>1, <2>2, <2>3, ServerKeeps DEF NewCall, Call, userport
<1>4. CASE ClientProceeds
  <2>1. ciaDriving' = ciaDriving
    BY <1>4 DEF ClientProceeds, ClientStep, Open, OpenFails, PingOutput, PingWrite, PingStrobe,
       Acked, Output, Send, SendReport, Input, Turn, Receive, ReceiveReport, CloseInput, Close,
       Gone, InputTransfer, OutputTransfer, StrobeTransfer, Control, userport
  <2> QED
    BY <1>1, <1>4, <2>1, ClientKinds, ServerKeeps DEF ClientProceeds
<1>5. CASE ResetTransfer
  <2>1. UserportTypeOK' /\ ServerTypeOK' /\ Port!ServerInv' /\ Port!Drives'
    BY <1>5, ResetKinds DEF ResetTransfer
  <2>2. BoardTypeOK' /\ BoardInv'
    BY <1>1, <1>5 DEF ResetTransfer, Kinds, BoardTypeOK, BoardInv, board
  <2>3. ClientTypeOK' /\ CallInv'
    BY <1>1, <1>5 DEF ResetTransfer, Kinds, ClientTypeOK, CallInv, Preparing, SendInv, ReceiveInv
  <2> QED
    BY <1>1, <1>5, <2>1, <2>2, <2>3 DEF ResetTransfer, Kinds
<1>6. CASE PingGivesUp \/ (LateAnswer /\ GiveUp)
  <2>1. GiveUp /\ UNCHANGED << server, done >> /\ (Spend \/ UNCHANGED budget)
        /\ clean' \in BOOLEAN
    BY <1>1, <1>6 DEF PingGivesUp, LateAnswer
  <2>2. Kinds' /\ BoardInv' /\ CallInv' /\ ciaDriving' = ciaDriving
    BY <1>1, <2>1 DEF GiveUp, Kinds, UserportTypeOK, BoardTypeOK, ClientTypeOK, BoardInv,
       CallInv, Preparing, SendInv, ReceiveInv, userport, board, call
  <2> QED
    BY <1>1, <2>1, <2>2, ServerKeeps, BudgetKinds
<1>7. CASE BoardProceeds \/ BoardGivesUp \/ (LateAnswer /\ ~GiveUp)
  <2>1. /\ BoardStep \/ SendTimeout \/ ReceiveTimeout
        /\ UNCHANGED << client, server, done >> /\ (Spend \/ UNCHANGED budget)
        /\ clean' \in BOOLEAN
    BY <1>1, <1>7 DEF BoardProceeds, BoardGivesUp, LateAnswer
  <2>2. ciaDriving' = ciaDriving
    BY <2>1 DEF BoardStep, SendByte, SendStrobe, SendAcked, Offered, ReceiveByte, ReceiveStrobe,
       Forget, WatchdogReset, PowerUp, SendTimeout, ReceiveTimeout, userport, bus
  <2> QED
    BY <1>1, <2>1, <2>2, BoardKinds, ServerKeeps, BudgetKinds
<1>8. CASE ServerProceeds
  <2>1. ServerStep /\ UNCHANGED << board, client, clean, budget >> /\ done' \in Nat
    BY <1>1, <1>8 DEF ServerProceeds
  <2>2. BoardTypeOK' /\ BoardInv' /\ ClientTypeOK' /\ CallInv'
    BY <1>1, <2>1, BoardCall DEF Kinds, BoardTypeOK, BoardInv, ClientTypeOK, board, client
  <2> QED
    BY <1>1, <2>1, <2>2, ServerKinds DEF Kinds
<1>9. CASE TransferTimeout \/ Killed
  <2>1. /\ Abandoned \/ UNCHANGED << userport, board >>
        /\ UNCHANGED << server, done >> /\ Spend /\ clean' = FALSE
        /\ \/ pc' = "closeInput" /\ UNCHANGED call
           \/ Over /\ result' = FALSE /\ req' = req
    BY <1>9 DEF TransferTimeout, Killed
  <2>2. UserportTypeOK' /\ BoardTypeOK' /\ BoardInv'
    <3>1. UNCHANGED << userport, board >> => UserportTypeOK' /\ BoardTypeOK' /\ BoardInv'
      BY <1>1 DEF Kinds, UserportTypeOK, BoardTypeOK, BoardInv, userport, board
    <3> QED
      BY <1>1, <2>1, <3>1, AbandonedKinds
  <2>3. ClientTypeOK' /\ CallInv'
    <3>1. CASE pc' = "closeInput" /\ UNCHANGED call
      BY <1>1, <3>1 DEF Kinds, ClientTypeOK, CallInv, Preparing, SendInv, ReceiveInv, call
    <3>2. CASE Over /\ result' = FALSE /\ req' = req
      <4>1. result' \in BOOLEAN
        BY <3>2, Zenon
      <4> QED
        BY <1>1, <3>2, <4>1 DEF Kinds, ClientTypeOK, CallInv, Preparing, SendInv, ReceiveInv, Over
    <3> QED
      BY <2>1, <3>1, <3>2
  <2>4. ciaDriving' = ciaDriving
    BY <2>1 DEF Abandoned, userport
  <2>5. clean' \in BOOLEAN
    BY <2>1, Zenon
  <2> QED
    BY <1>1, <2>1, <2>2, <2>3, <2>4, <2>5, ServerKeeps, BudgetKinds DEF Kinds
<1>10. CASE Replugged
  <2>1. PowerUp /\ UNCHANGED << client, server, done >> /\ Spend /\ clean' = FALSE
    BY <1>10 DEF Replugged
  <2>2. UserportTypeOK' /\ BoardTypeOK' /\ BoardInv' /\ transfer' = "none"
    BY <1>1, <2>1, PowerUpKinds
  <2>3. ClientTypeOK' /\ CallInv'
    BY <1>1, <2>1, <2>2, BoardCall DEF Kinds, ClientTypeOK, client
  <2>4. ciaDriving' = ciaDriving
    BY <2>1 DEF PowerUp
  <2>5. clean' \in BOOLEAN
    BY <2>1, Zenon
  <2> QED
    BY <1>1, <2>1, <2>2, <2>3, <2>4, <2>5, ServerKeeps, BudgetKinds DEF Kinds
<1>11. CASE UNCHANGED vars
  <2>1. UNCHANGED << userport, board, client, server, clean, done, budget >>
    BY <1>11 DEF vars
  <2>2. UserportTypeOK' /\ BoardTypeOK' /\ BoardInv' /\ ClientTypeOK' /\ ciaDriving' = ciaDriving
    BY <1>1, <2>1 DEF Kinds, UserportTypeOK, BoardTypeOK, BoardInv, ClientTypeOK, userport, board,
       client
  <2>3. CallInv'
    BY <1>1, <2>1, BoardCall DEF board
  <2> QED
    BY <1>1, <2>1, <2>2, <2>3, ServerKeeps DEF Kinds
<1> QED
  BY <1>3, <1>4, <1>5, <1>6, <1>7, <1>8, <1>9, <1>10, <1>11 DEF Next, Fault

(* For every size of a packet and of a transfer, all requests, memories,   *)
(* servers and faults: every variable of the board, of the driver and of   *)
(* the server holds a value of its kind.                                   *)
THEOREM UsbTypeCorrect == Spec => []TypeOK
<1>1. Init => KindInv
  BY InitKinds
<1>2. KindInv /\ [Next]_vars => KindInv'
  BY StepKinds
<1>3. KindInv => TypeOK
  BY DEF KindInv
<1> QED
  BY <1>1, <1>2, <1>3, PTL DEF Spec

-----------------------------------------------------------------------------
(* While the current call is in step, the board works on what the driver   *)
(* waits for, and the lines are as the parallel port would have them.      *)
CleanInv ==
  /\ transfer \in {"none", "send", "receive"} /\ bpc # "stuck" /\ host
  /\ transfer = "send" <=> pc = "sending"
  /\ transfer = "receive" <=> pc = "receiving"
  /\ pc \notin {"idle", "open"} => handle
  /\ pc \in {"pingWrite", "pingStrobe", "ask", "send", "sending", "input"} => pcDriving
  /\ pc \in {"reset", "pingOutput", "turn", "receive", "receiving", "close"} => ~pcDriving
  /\ pc \in {"pingStrobe", "ask"} => pcData = PingCmd
  /\ transfer = "send" /\ bpc \in {"strobe", "wait"} => pcData = bytes[count + 1]

(* The size of the name, which comes first, is that of a real one. *)
Named == pc \in {"receive", "receiving"} => Port!Identified

SendCounts ==
  /\ req \in Calls /\ Whole \in Nat /\ SentNow \in Nat /\ SentNow <= Whole
  /\ transfer = "send" /\ count # size =>
       count \in Nat /\ SentNow < Whole /\ bytes[count + 1] = Out(req)[SentNow + 1]
  /\ moved + size = Len(Sending) /\ transfer = "send" /\ count = size =>
       IF part = Parts(req) THEN SentNow = Whole
       ELSE part = 1 /\ Parts(req) = 2 /\ SentNow = Len(req.header)

LEMMA SendView ==
  ASSUME KindInv, CleanInv, pc \in {"send", "sending"}
  PROVE  SendCounts
<1> DEFINE h == req.header
           d == req.data
<1>1. /\ req \in Calls /\ part \in 1 .. 3 /\ part <= Parts(req) /\ moved \in Nat
      /\ req.op \notin {"ping", "reset"} /\ moved <= Len(Sending)
      /\ size \in Nat /\ count \in 0 .. size
      /\ transfer = "send" => /\ pc = "sending" /\ moved + size <= Len(Sending)
                              /\ bytes = SubSeq(Sending, moved + 1, moved + size)
  BY DEF KindInv, TypeOK, ClientTypeOK, BoardTypeOK, CallInv, SendInv, CleanInv
<1>2. /\ h \in Seq(Byte) /\ d \in Seq(Byte) /\ Len(h) \in Nat /\ Len(d) \in Nat
      /\ Whole = Len(h) + Len(d)
      /\ \A i \in 1 .. Len(h) : Out(req)[i] = h[i]
      /\ \A i \in 1 .. Len(d) : Out(req)[Len(h) + i] = d[i]
  <2>1. h \in Seq(Byte) /\ d \in Seq(Byte) /\ Out(req) = h \o d
    BY <1>1, RequestFields DEF Out
  <2> HIDE DEF h, d
  <2> QED
    BY <2>1, ConcatProperties DEF Whole
<1>3. req.op # "load" => Len(d) = 0
  <2>1. req.op # "load" => req.data = <<>>
    BY <1>1, Assumptions, Port!Shapes DEF Port!Shapes, Port!Sends, Assumed
  <2> QED
    BY <2>1
<1>4. /\ part = 1 => Sending = h /\ Base = 0
      /\ part = 2 => Sending = d /\ Base = Len(h) /\ req.op = "load"
      /\ part \in 1 .. 2 /\ Parts(req) \in 1 .. 2 /\ (Parts(req) = 2 <=> req.op = "load")
  BY <1>1 DEF Sending, Part, Base, Parts
<1> HIDE DEF h, d
<1>5. Base \in Nat /\ Base + Len(Sending) <= Whole
      /\ (part = Parts(req) => Base + Len(Sending) = Whole)
  <2>1. CASE part = 1
    BY <1>2, <1>3, <1>4, <2>1
  <2>2. CASE part = 2
    <3>1. Base = Len(h) /\ Len(Sending) = Len(d)
      BY <1>4, <2>2
    <3>2. Base + Len(Sending) = Whole
      BY <1>2, <3>1
    <3> QED
      BY <1>2, <3>1, <3>2
  <2> QED
    BY <1>4, <2>1, <2>2
<1>6. SentNow \in Nat /\ SentNow <= Whole
  BY <1>1, <1>2, <1>5, <1>4 DEF SentNow
<1>7. ASSUME transfer = "send", count # size
      PROVE  count \in Nat /\ SentNow < Whole /\ bytes[count + 1] = Out(req)[SentNow + 1]
  <2>1. count \in Nat /\ count < size /\ SentNow = Base + moved + count
    BY <1>1, <1>7 DEF SentNow
  <2>2. bytes[count + 1] = Sending[moved + count + 1]
    <3>1. Sending \in Seq(Byte) /\ Len(Sending) \in Nat
      BY <1>2, <1>4
    <3>2. count + 1 \in 1 .. size
      BY <1>1, <2>1
    <3> QED
      BY <1>1, <1>7, <2>1, <3>1, <3>2
  <2>3. moved + count + 1 \in 1 .. Len(Sending)
    BY <1>1, <1>2, <1>4, <1>7, <2>1
  <2>4. Sending[moved + count + 1] = Out(req)[Base + (moved + count + 1)]
    <3>1. CASE part = 1
      <4>1. Base + (moved + count + 1) = moved + count + 1
        BY <1>1, <1>4, <2>1, <3>1
      <4> QED
        BY <1>2, <1>4, <2>3, <3>1, <4>1
    <3>2. CASE part = 2
      BY <1>2, <1>4, <2>3, <3>2
    <3> QED
      BY <1>4, <3>1, <3>2
  <2>5. Base + (moved + count + 1) = SentNow + 1
    BY <1>1, <1>5, <2>1
  <2>6. SentNow < Whole
    BY <1>1, <1>2, <1>4, <1>5, <2>1, <2>3
  <2> QED
    BY <2>1, <2>2, <2>4, <2>5, <2>6
<1>8. ASSUME moved + size = Len(Sending), transfer = "send", count = size
      PROVE  IF part = Parts(req) THEN SentNow = Whole
             ELSE part = 1 /\ Parts(req) = 2 /\ SentNow = Len(req.header)
  <2>1. SentNow = Base + moved + size
    BY <1>8 DEF SentNow
  <2>2. SentNow = Base + Len(Sending)
    BY <1>1, <1>5, <1>8, <2>1
  <2> QED
    BY <1>1, <1>2, <1>4, <1>5, <2>2 DEF h
<1> QED
  BY <1>1, <1>2, <1>6, <1>7, <1>8 DEF SendCounts

ReplyCounts ==
  /\ req \in Calls /\ Receives(req) /\ Got \in Seq(Byte)
  /\ GotNow \in Nat /\ Total \in Nat /\ GotNow <= Total
  /\ Len(Got) = IF transfer = "receive" /\ bpc = "strobe" THEN GotNow + 1 ELSE GotNow
  /\ transfer = "receive" /\ count # size => GotNow < Total
  /\ LET all == moved + (IF transfer = "receive" THEN count ELSE 0)
                  = ReplySize(req, part, got)
     IN GotNow = Total <=> part = Replies(req) /\ all

LEMMA ReplyView ==
  ASSUME KindInv, CleanInv, Named, pc \in {"receive", "receiving"}
  PROVE  ReplyCounts
<1> DEFINE n == ReplySize(req, part, got)
           c == IF transfer = "receive" THEN count ELSE 0
<1>1. /\ req \in Calls /\ Receives(req) /\ part \in 1 .. 3 /\ moved \in Nat
      /\ got \in Seq(Byte) /\ bytes \in Seq(Byte) /\ size \in Nat /\ count \in 0 .. size
      /\ part <= Replies(req) /\ moved <= n /\ Len(got) = Prior + moved
      /\ part >= 2 => got # <<>>
      /\ transfer = "receive" =>
           /\ moved + size <= n
           /\ Len(bytes) = IF bpc = "strobe" THEN count + 1 ELSE count
           /\ bpc = "strobe" => count < size
  BY DEF KindInv, TypeOK, ClientTypeOK, BoardTypeOK, BoardInv, CallInv, ReceiveInv, CleanInv
<1>2. n \in Nat /\ Prior \in Nat /\ Len(got) \in Nat /\ Len(bytes) \in Nat
  BY <1>1, ReplySizes DEF KindInv, TypeOK, CallInv
<1>3. /\ Got \in Seq(Byte)
      /\ Len(Got) = IF transfer = "receive" /\ bpc = "strobe" THEN GotNow + 1 ELSE GotNow
      /\ got # <<>> => Got[1] = got[1]
  BY <1>1, <1>2, Growing, SMTT(30) DEF Got, GotNow
<1>4. GotNow = Prior + (moved + c)
  BY <1>1, <1>2 DEF GotNow
<1>5. c \in Nat /\ moved + c <= n /\ (transfer = "receive" /\ count # size => moved + c < n)
  BY <1>1, <1>2
<1>6. Total \in Nat /\ Prior + n <= Total /\ (part = Replies(req) <=> Prior + n = Total)
  <2>1. CASE req.op # "identify"
    <3>1. part = 1 /\ Replies(req) = 1 /\ n = req.want /\ Total = req.want /\ req.want \in Nat
      BY <1>1, <2>1, RequestFields DEF Replies, ReplySize, Total
    <3> QED
      BY <3>1 DEF Prior
  <2>2. CASE req.op = "identify"
    <3>1. Total = 15 /\ Replies(req) = 3
      BY <2>2 DEF Total, Replies
    <3>2. CASE part = 1
      BY <2>2, <3>1, <3>2 DEF Prior, ReplySize
    <3>3. CASE part \in {2, 3}
      <4>1. got # <<>> /\ Len(Got) >= 1
        BY <1>1, <1>2, <1>3, <3>3, Growing DEF GotNow, Got
      <4>2. got[1] = 5
        BY <1>3, <2>2, <4>1 DEF Named, Port!Identified
      <4>3. got[1] % 16 = 5
        BY <4>2
      <4>4. CASE part = 2
        BY <2>2, <3>1, <4>3, <4>4 DEF Prior, ReplySize
      <4>5. CASE part = 3
        BY <2>2, <3>1, <4>3, <4>5 DEF Prior, ReplySize
      <4> QED
        BY <3>3, <4>4, <4>5
    <3> QED
      BY <1>1, <3>2, <3>3
  <2> QED
    BY <2>1, <2>2
<1> HIDE DEF n, c
<1>7. GotNow \in Nat /\ GotNow <= Total /\ (transfer = "receive" /\ count # size => GotNow < Total)
  BY <1>1, <1>2, <1>4, <1>5, <1>6
<1>8. GotNow = Total <=> part = Replies(req) /\ moved + c = n
  BY <1>1, <1>2, <1>4, <1>5, <1>6
<1> QED
  BY <1>1, <1>3, <1>6, <1>7, <1>8 DEF n, c, ReplyCounts

-----------------------------------------------------------------------------
(* What the parallel port would see, phase by phase.                       *)
Elsewhere ==
  /\ At = IF pc = "reset" THEN "init" ELSE IF pc = "pingOutput" THEN "pingOut"
          ELSE IF pc = "ask" THEN "pingWait" ELSE IF pc = "output" THEN "out" ELSE pc
  /\ Sent = IF pc \in {"input", "turn"} \/ (pc \in {"closeInput", "close"} /\ result)
            THEN Whole ELSE 0
  /\ Got = got /\ Result = result
  /\ transfer = "none" /\ bpc = "done" /\ size = 0 /\ count = 0

LEMMA ElsewhereView ==
  ASSUME KindInv, CleanInv, pc \notin {"send", "sending", "receive", "receiving"}
  PROVE  Elsewhere
<1>1. transfer = "none" /\ bpc = "done" /\ size = 0 /\ count = 0
  BY DEF KindInv, TypeOK, BoardTypeOK, BoardInv, CleanInv
<1>2. ~AllSent /\ ~AllGot
  BY DEF AllSent, AllGot
<1>3. Result = result
  BY <1>2, Zenon DEF Result
<1> QED
  BY <1>1, <1>3 DEF At, Sent, Got, Elsewhere

WhenSending ==
  /\ At = WhileSending /\ Sent = SentNow
  /\ At \in {"write", "strobe", "wait", "input", "closeInput"}
  /\ Got = <<>> /\ got = <<>> /\ result = FALSE
  /\ ~AllSent => Result = FALSE
  /\ AllSent /\ Receives(req) => Result = FALSE
  /\ AllSent /\ ~Receives(req) => Result = (req.op = "load" => req.data # <<>>)
  /\ At \in {"strobe", "wait"} => bpc = At /\ transfer = "send" /\ count # size

LEMMA SendingView ==
  ASSUME KindInv, CleanInv, pc \in {"send", "sending"}
  PROVE  WhenSending
<1>0. result = FALSE
  BY DEF KindInv, TypeOK, ClientTypeOK, CallInv
<1>1. got = <<>> /\ transfer # "receive" /\ ~AllGot
      /\ (transfer = "none" => bpc = "done")
      /\ (transfer = "none" \/ transfer = "send")
      /\ (transfer = "send" /\ bpc \in {"strobe", "wait"} => count # size)
  BY DEF KindInv, TypeOK, BoardTypeOK, BoardInv, CallInv, SendInv, CleanInv, AllGot
<1>2. At = WhileSending /\ Sent = SentNow
  BY DEF At, Sent
<1>3. /\ At \in {"write", "strobe", "wait", "input", "closeInput"}
      /\ At \in {"strobe", "wait"} => bpc = At /\ transfer = "send" /\ count # size
  BY <1>1, <1>2 DEF WhileSending
<1>4. /\ ~AllSent => Result = FALSE
      /\ AllSent /\ Receives(req) => Result = FALSE
      /\ AllSent /\ ~Receives(req) => Result = (req.op = "load" => req.data # <<>>)
  BY <1>0, <1>1, Zenon DEF Result
<1> QED
  BY <1>0, <1>1, <1>2, <1>3, <1>4 DEF Got, WhenSending

WhenReceiving ==
  /\ At = WhileReceiving /\ Sent = Whole
  /\ At \in {"rwait", "rread", "rstrobe", "closeInput"}
  /\ result = FALSE
  /\ ~AllGot \/ req.want = 0 => Result = FALSE
  /\ AllGot /\ req.want # 0 => Result = (req.op = "identify" => ~Unidentified(Got))
  /\ At \in {"rread", "rstrobe"} => transfer = "receive" /\ count # size
  /\ At = "rread" => bpc = "byte"
  /\ At = "rstrobe" => bpc = "strobe"

LEMMA ReceivingView ==
  ASSUME KindInv, CleanInv, pc \in {"receive", "receiving"}
  PROVE  WhenReceiving
<1>0. result = FALSE
  BY DEF KindInv, TypeOK, ClientTypeOK, CallInv
<1>1. transfer # "send" /\ ~AllSent
      /\ (transfer = "none" => bpc = "done")
      /\ (transfer = "none" \/ transfer = "receive")
      /\ (transfer = "receive" /\ bpc \in {"strobe", "byte"} => count # size)
  BY DEF KindInv, TypeOK, BoardTypeOK, BoardInv, CallInv, ReceiveInv, CleanInv, AllSent
<1>2. At = WhileReceiving /\ Sent = Whole
  BY DEF At, Sent
<1>3. /\ At \in {"rwait", "rread", "rstrobe", "closeInput"}
      /\ At \in {"rread", "rstrobe"} => transfer = "receive" /\ count # size
      /\ At = "rread" => bpc = "byte"
      /\ At = "rstrobe" => bpc = "strobe"
  BY <1>1, <1>2 DEF WhileReceiving
<1>4. /\ ~AllGot \/ req.want = 0 => Result = FALSE
      /\ AllGot /\ req.want # 0 => Result = (req.op = "identify" => ~Unidentified(Got))
  BY <1>0, <1>1, Zenon DEF Result
<1> QED
  BY <1>0, <1>1, <1>2, <1>3, <1>4 DEF WhenReceiving

LEMMA SameWire ==
  /\ Port!Out(req) = Out(req) /\ (Port!Receives(req) <=> Receives(req))
  /\ (Port!Sends(req) <=> req.op \notin {"ping", "reset"})
  /\ Port!Total = Total
BY DEF Port!Out, Out, Port!Receives, Receives, Port!Sends, Port!Total, Total

(* The view is one of the parallel port.                                   *)
Viewing == KindInv /\ CleanInv /\ Named

LEMMA Viewed ==
  ASSUME Viewing
  PROVE  Port!Inv /\ Port!Lines /\ Port!Progress
<1>1. /\ req \in Calls /\ Whole \in Nat /\ got \in Seq(Byte) /\ pcDriving \in BOOLEAN
      /\ pc \notin {"idle", "closeInput", "close"} => ~result
      /\ result \in BOOLEAN
      /\ pc \in Preparing \cup {"idle", "send", "sending"} => got = <<>>
  <2>1. req \in Calls /\ req.header \in Seq(Byte) /\ req.data \in Seq(Byte)
    BY RequestFields DEF Viewing, KindInv, TypeOK, ClientTypeOK
  <2>2. Out(req) \in Seq(Byte)
    BY <2>1 DEF Out
  <2> QED
    BY <2>1, <2>2 DEF Whole, Viewing, KindInv, TypeOK, ClientTypeOK, UserportTypeOK, CallInv,
       SendInv, Preparing
<1>2. /\ Port!UserportTypeOK /\ Port!ServerTypeOK /\ Port!ServerInv /\ Port!Drives
      /\ last \in {0, 1} /\ clean \in BOOLEAN /\ done \in Nat /\ budget \in 0 .. MaxBudget
  BY SameCable, SameServer DEF Viewing, KindInv, TypeOK, BoardTypeOK
<1>3. SUFFICES /\ At \in Port!ClientPC /\ Sent \in Nat /\ Got \in Seq(Byte)
               /\ Result \in BOOLEAN
               /\ Port!ClientInv /\ Port!Lines /\ Port!Progress
  BY <1>1, <1>2, SameCable DEF Port!Inv, Port!TypeOK, Port!ClientTypeOK
<1>4. Result \in BOOLEAN
  BY <1>1, Zenon DEF Result
<1> USE DEF Port!ClientPC, Port!ClientInv, Port!Lines, Port!Progress, Port!Before,
            Port!Sending, Port!Receiving, Port!After
<1>5. CASE pc \notin {"send", "sending", "receive", "receiving"}
  <2>1. /\ At = IF pc = "reset" THEN "init" ELSE IF pc = "pingOutput" THEN "pingOut"
                ELSE IF pc = "ask" THEN "pingWait" ELSE IF pc = "output" THEN "out" ELSE pc
        /\ Sent = IF pc \in {"input", "turn"} \/ (pc \in {"closeInput", "close"} /\ result)
                  THEN Whole ELSE 0
        /\ Got = got /\ Result = result
    BY <1>5, ElsewhereView DEF Elsewhere, Viewing
  <2>2. /\ pc \in {"pingOutput", "pingWrite", "pingStrobe", "ask", "output"} =>
             req.op # "reset"
        /\ pc = "output" => req.op # "ping"
        /\ pc \in {"input", "turn"} => Receives(req)
        /\ pc \in {"idle", "open", "reset", "pingOutput", "pingWrite", "pingStrobe", "ask",
                   "output", "input", "turn", "closeInput", "close"}
    BY <1>5 DEF Viewing, KindInv, TypeOK, ClientTypeOK, CallInv
  <2>3. /\ pc \in {"pingWrite", "pingStrobe", "ask", "input"} => pcDriving
        /\ pc \in {"reset", "pingOutput", "turn", "close"} => ~pcDriving
        /\ pc \in {"pingStrobe", "ask"} => pcData = PingCmd
    BY DEF Viewing, CleanInv
  <2>4. At \in Port!ClientPC /\ Sent \in Nat /\ Got \in Seq(Byte)
    BY <1>1, <2>1, <2>2
  <2>5. Port!ClientInv
    BY <2>1, <2>2
  <2>6. Port!Lines
    BY <1>2, <2>1, <2>2, <2>3
  <2>7. Port!Progress
    BY <1>1, <2>1, <2>2, <2>3, SameWire DEF Whole, Port!PingCmd, PingCmd, Preparing
  <2> QED
    BY <1>4, <2>4, <2>5, <2>6, <2>7
<1>6. CASE pc \in {"send", "sending"}
  <2>1. /\ At = WhileSending /\ Sent = SentNow
        /\ At \in {"write", "strobe", "wait", "input", "closeInput"}
        /\ Got = <<>>
        /\ At # "closeInput" => Result = FALSE
        /\ At \in {"strobe", "wait"} => bpc = At /\ transfer = "send" /\ count # size
        /\ At = "input" => Receives(req) /\ SentNow = Whole
        /\ At \in {"write", "strobe", "wait"} => ~AllSent
    BY <1>6, SendingView DEF WhenSending, Viewing, WhileSending, AllSent
  <2>2. /\ SentNow \in Nat /\ SentNow <= Whole
        /\ transfer = "send" /\ count # size => bytes[count + 1] = Out(req)[SentNow + 1]
    BY <1>6, SendView DEF SendCounts, Viewing
  <2>3. At \in {"write", "strobe", "wait"} => SentNow < Whole
    BY <1>1, <1>6, <2>1, <2>2 DEF AllSent
  <2>4. pcDriving /\ req.op \notin {"ping", "reset"}
    BY <1>6 DEF Viewing, CleanInv, KindInv, CallInv, SendInv
  <2>5. At \in {"strobe", "wait"} => pcData = Out(req)[Sent + 1]
    BY <2>1, <2>2 DEF Viewing, CleanInv
  <2>6. At \in Port!ClientPC /\ Sent \in Nat /\ Got \in Seq(Byte)
    BY <2>1, <2>2
  <2>7. Port!ClientInv
    BY <2>1, <2>3, SameWire DEF Whole
  <2>8. Port!Lines
    BY <1>2, <2>1, <2>4
  <2>9. Port!Progress
    BY <2>1, <2>4, <2>5, SameWire DEF Whole
  <2> QED
    BY <1>4, <2>6, <2>7, <2>8, <2>9
<1>7. CASE pc \in {"receive", "receiving"}
  <2>1. /\ Sent = Whole
        /\ At \in {"rwait", "rread", "rstrobe", "closeInput"}
        /\ At # "closeInput" => Result = FALSE
    BY <1>7, ReceivingView DEF WhenReceiving, Viewing, WhileReceiving
  <2>2. Receives(req) /\ Got \in Seq(Byte) /\ ~pcDriving
    BY <1>7, ReplyView DEF ReplyCounts, Viewing, CleanInv
  <2>3. Port!ClientInv
    BY <2>1
  <2>4. Port!Lines
    BY <1>2, <2>1, <2>2
  <2>5. Port!Progress
    BY <2>1, <2>2, SameWire DEF Whole
  <2> QED
    BY <1>1, <1>4, <2>1, <2>2, <2>3, <2>4, <2>5
<1> QED
  BY <1>5, <1>6, <1>7

-----------------------------------------------------------------------------
(* The view after a step.                                                  *)
LEMMA Ahead ==
  /\ (KindInv /\ CleanInv /\ pc \notin {"send", "sending", "receive", "receiving"} => Elsewhere)'
  /\ (KindInv /\ CleanInv /\ pc \in {"send", "sending"} => WhenSending /\ SendCounts)'
  /\ (KindInv /\ CleanInv /\ pc \in {"receive", "receiving"} => WhenReceiving)'
  /\ (KindInv /\ CleanInv /\ Named /\ pc \in {"receive", "receiving"} => ReplyCounts)'
<1>1. KindInv /\ CleanInv /\ pc \notin {"send", "sending", "receive", "receiving"} => Elsewhere
  BY ElsewhereView
<1>2. KindInv /\ CleanInv /\ pc \in {"send", "sending"} => WhenSending /\ SendCounts
  BY SendingView, SendView
<1>3. KindInv /\ CleanInv /\ pc \in {"receive", "receiving"} => WhenReceiving
  BY ReceivingView
<1>4. KindInv /\ CleanInv /\ Named /\ pc \in {"receive", "receiving"} => ReplyCounts
  BY ReplyView
<1> QED
  BY <1>1, <1>2, <1>3, <1>4, PTL

(* The board and the driver keep to each other ... *)
LEMMA ClientClean ==
  ASSUME KindInv, CleanInv, ClientStep
  PROVE  CleanInv'
<1>1. transfer = "none" => bpc = "done" /\ host
  BY DEF KindInv, BoardInv
<1> USE DEF CleanInv, input, output, strobe, bus, userport, board, Control, InputTransfer,
            OutputTransfer, StrobeTransfer
<1>2. CASE Open
  BY <1>1, <1>2 DEF Open
<1>3. CASE OpenFails \/ PingOutput \/ PingWrite \/ PingStrobe
  BY <1>1, <1>3 DEF OpenFails, PingOutput, PingWrite, PingStrobe
<1>4. CASE Acked
  BY <1>1, <1>4 DEF Acked
<1>5. CASE Output \/ Input
  BY <1>1, <1>5 DEF Output, Input
<1>9. CASE Turn \/ CloseInput
  <2>1. CASE Turn
    BY <1>1, <2>1 DEF Turn
  <2>2. CASE CloseInput
    BY <1>1, <2>2 DEF CloseInput
  <2> QED
    BY <1>9, <2>1, <2>2
<1>6. CASE Send \/ Receive
  <2>1. host' = TRUE /\ (transfer' = "send" \/ transfer' = "receive") /\ bpc' # "stuck"
        /\ (transfer' = "send" => bpc' \in {"done", "byte"})
    BY <1>6 DEF Send, Receive, Begin
  <2> QED
    BY <1>1, <1>6, <2>1 DEF Send, Receive, Begin
<1>7. CASE SendReport \/ ReceiveReport
  <2>1. /\ transfer' = "none" /\ bpc' = "done" /\ host' = TRUE
        /\ handle' = handle /\ UNCHANGED << pcDriving, pcData >>
        /\ SendReport => pc = "sending" /\ pc' \in {"send", "input", "closeInput"}
        /\ ReceiveReport => pc = "receiving" /\ pc' \in {"receive", "closeInput"}
    BY <1>7 DEF SendReport, ReceiveReport, Release
  <2>2. pcDriving' = pcDriving /\ handle' = handle
    BY <2>1
  <2>3. CASE SendReport
    BY <2>1, <2>2, <2>3
  <2>4. CASE ReceiveReport
    BY <2>1, <2>2, <2>4
  <2> QED
    BY <1>7, <2>3, <2>4
<1>8. CASE Close \/ Gone
  BY <1>1, <1>8 DEF Close, Gone, Over
<1> QED
  BY <1>2, <1>3, <1>4, <1>5, <1>6, <1>7, <1>8, <1>9 DEF ClientStep

LEMMA BoardClean ==
  ASSUME KindInv, CleanInv, UNCHANGED client,
         \/ BoardStep
         \/ (SendTimeout \/ ReceiveTimeout) /\ bpc' = "done"
  PROVE  CleanInv'
<1>1. transfer = "none" => bpc = "done" /\ host
  BY DEF KindInv, BoardInv
<1> USE DEF CleanInv, strobe, bus, userport, client
<1>2. CASE SendByte
  BY <1>2 DEF SendByte
<1>3. CASE SendStrobe
  BY <1>3 DEF SendStrobe
<1>4. CASE SendAcked
  <2>1. bpc' \in {"done", "byte"}
    BY <1>4 DEF SendAcked
  <2> QED
    BY <1>4, <2>1 DEF SendAcked
<1>5. CASE Offered \/ ReceiveByte
  <2>1. bpc' \in {"byte", "strobe"} /\ transfer = "receive" /\ transfer' = transfer
        /\ UNCHANGED << pc, pcDriving, pcData, host, handle >>
    BY <1>5 DEF Offered, ReceiveByte
  <2> QED
    BY <2>1
<1>6. CASE ReceiveStrobe
  <2>1. bpc' \in {"done", "wait"}
    BY <1>6 DEF ReceiveStrobe
  <2> QED
    BY <1>6, <2>1 DEF ReceiveStrobe
<1>7. CASE (SendTimeout \/ ReceiveTimeout) /\ bpc' = "done"
  <2>1. bpc' = "done" /\ UNCHANGED << transfer, pc, pcDriving, pcData, host, handle >>
    BY <1>7 DEF SendTimeout, ReceiveTimeout
  <2> QED
    BY <2>1
<1>8. ~Forget /\ ~WatchdogReset
  BY DEF Forget, WatchdogReset
<1> QED
  BY <1>2, <1>3, <1>4, <1>5, <1>6, <1>7, <1>8 DEF BoardStep

(* ... also in a call that begins while both ends are ready. *)
LEMMA CallClean ==
  ASSUME KindInv, NewCall, InStep
  PROVE  CleanInv' /\ Named'
<1>1. transfer = "none" /\ bpc = "done" /\ host
  BY DEF InStep, KindInv, BoardInv
<1> QED
  BY <1>1 DEF NewCall, Call, CleanInv, Named, board

LEMMA ServerClean ==
  ASSUME CleanInv, ServerStep, UNCHANGED << board, client >>
  PROVE  CleanInv'
<1>1. UNCHANGED << pcData, pcDriving >>
  BY DEF ServerStep, SrvIrq, SrvFetch, SrvAck, SrvReadWait, SrvReadLatch, SrvReadAck,
         SrvPokeStore, SrvLeave, SrvLoadWait, SrvLoadStore, SrvLoadAck, SrvLoadNext,
         SrvOutWait, SrvOutDir, SrvPut, SrvWriteStrobe, SrvWriteWait, SrvInput, SrvBoot,
         bus, userport
<1> QED
  BY <1>1 DEF CleanInv, board, client

LEMMA NamedStays ==
  ASSUME Named, UNCHANGED << Got, req >>, pc \in {"receive", "receiving"}
  PROVE  Named'
BY DEF Named, Port!Identified

LEMMA ClientNamed ==
  ASSUME Viewing, ClientStep
  PROVE  Named'
<1>1. CASE Turn
  <2>1. got' = <<>> /\ transfer' = "none" /\ pc' = "receive"
    BY <1>1 DEF Viewing, KindInv, CallInv, Preparing, Turn, StrobeTransfer, Control, call, board
  <2>2. Got' = <<>>
    BY <2>1 DEF Got
  <2> QED
    BY <2>2 DEF Named, Port!Identified
<1>2. CASE Receive
  <2>1. got' = got /\ req' = req /\ bytes' = <<>> /\ pc = "receive" /\ transfer = "none"
        /\ got \in Seq(Byte)
    BY <1>2 DEF Receive, Begin, call, Viewing, KindInv, TypeOK, ClientTypeOK
  <2>2. Got' = Got
    BY <2>1 DEF Got
  <2> QED
    BY <2>1, <2>2, NamedStays DEF Viewing
<1>3. CASE ReceiveReport
  <2>1. got' = Got /\ transfer' = "none" /\ req' = req /\ pc = "receiving"
    BY <1>3 DEF ReceiveReport, Release, Got
  <2>2. Got' = Got
    BY <2>1 DEF Got
  <2> QED
    BY <2>1, <2>2, NamedStays DEF Viewing
<1>4. CASE ~Turn /\ ~Receive /\ ~ReceiveReport
  <2>1. pc' \notin {"receive", "receiving"}
    BY <1>4 DEF ClientStep, Open, OpenFails, PingOutput, PingWrite, PingStrobe, Acked, Output,
       Send, SendReport, Input, CloseInput, Close, Gone, Over, InputTransfer, OutputTransfer,
       StrobeTransfer, Control
  <2> QED
    BY <2>1 DEF Named
<1> QED
  BY <1>1, <1>2, <1>3, <1>4

-----------------------------------------------------------------------------
(* Steps of the driver which the parallel port takes as well.              *)
LEMMA SameClient ==
  /\ Port!client = << At, req, Sent, Got, last, TRUE, Result >>
  /\ (Port!Acknowledged <=> Answered)
  /\ (Port!input <=> input) /\ (Port!output <=> output) /\ (Port!strobe <=> strobe)
BY DEF Port!client, Port!Acknowledged, Answered, Port!input, input, Port!output, output,
       Port!strobe, strobe

LEMMA PreparingMoves ==
  ASSUME Viewing, KindInv', CleanInv',
         \/ OpenFails \/ PingOutput \/ PingWrite \/ PingStrobe \/ Acked \/ Close
  PROVE  Port!ClientStep
<1>1. pc \notin {"send", "sending", "receive", "receiving"}
      /\ pc' \notin {"send", "sending", "receive", "receiving"}
  BY DEF OpenFails, PingOutput, PingWrite, PingStrobe, Acked, Close, Over, OutputTransfer,
     StrobeTransfer, Control
<1>2. Elsewhere /\ Elsewhere'
  BY <1>1, ElsewhereView, Ahead DEF Viewing
<1>3. pc \notin {"idle", "closeInput", "close"} => ~result
  BY DEF Viewing, KindInv, CallInv
<1> USE DEF Port!input, input, Port!output, output, Port!strobe, strobe, Port!bus, Port!userport,
            userport, board, call, Control, OutputTransfer, StrobeTransfer
<1>4. CASE OpenFails
  <2>1. /\ At = "open" /\ At' = "idle" /\ Sent = 0 /\ Sent' = 0 /\ Got' = Got
        /\ Result' = Result
    BY <1>2, <1>4 DEF Elsewhere, OpenFails
  <2>2. Port!OpenFails
    BY <1>4, <2>1 DEF Port!OpenFails, OpenFails
  <2> QED
    BY <2>2, Zenon DEF Port!ClientStep
<1>5. CASE PingOutput
  <2>1. /\ At = "pingOut" /\ At' = "pingWrite" /\ Sent = 0 /\ Sent' = 0 /\ Got' = Got
        /\ Result' = Result
    BY <1>2, <1>5 DEF Elsewhere, PingOutput
  <2>2. Port!PingOutput
    BY <1>5, <2>1 DEF Port!PingOutput, PingOutput
  <2> QED
    BY <2>2, Zenon DEF Port!ClientStep
<1>6. CASE PingWrite
  <2>1. /\ At = "pingWrite" /\ At' = "pingStrobe" /\ Sent = 0 /\ Sent' = 0 /\ Got' = Got
        /\ Result' = Result
    BY <1>2, <1>6 DEF Elsewhere, PingWrite
  <2>2. Port!PingWrite
    BY <1>6, <2>1 DEF Port!PingWrite, PingWrite, Port!PingCmd, PingCmd
  <2> QED
    BY <2>2, Zenon DEF Port!ClientStep
<1>7. CASE PingStrobe
  <2>1. /\ At = "pingStrobe" /\ At' = "pingWait" /\ Sent = 0 /\ Sent' = 0 /\ Got' = Got
        /\ Result' = Result
    BY <1>2, <1>7 DEF Elsewhere, PingStrobe
  <2>2. Port!PingStrobe
    BY <1>7, <2>1 DEF Port!PingStrobe, PingStrobe
  <2> QED
    BY <2>2, Zenon DEF Port!ClientStep
<1>8. CASE Close
  <2>1. /\ At = "close" /\ At' = "idle" /\ Sent' = 0 /\ Got' = <<>> /\ Result' = Result
    BY <1>2, <1>8 DEF Elsewhere, Close, Over
  <2>2. Port!Close
    BY <1>8, <2>1 DEF Port!Close, Close
  <2> QED
    BY <2>2, Zenon DEF Port!ClientStep
<1>9. CASE Acked
  <2>1. CASE req.op = "ping"
    <3>1. result' = TRUE
      BY <1>9, <2>1, Zenon DEF Acked
    <3>2. Whole = 0
      <4>1. Out(req) = <<>>
        <5>1. req \in Calls
          BY DEF Viewing, KindInv, TypeOK, ClientTypeOK
        <5>2. req \in {xlink_run, xlink_identify, xlink_ping, xlink_reset}
          BY <2>1, <5>1, RequestAssumption DEF RequestAssumption, IsRequest
        <5>3. req = xlink_ping
          BY <2>1, <5>2 DEF xlink_run, xlink_identify, xlink_ping, xlink_reset, Request
        <5>4. req.header = <<>> /\ req.data = <<>>
          BY <5>3 DEF xlink_ping, Request
        <5> QED
          BY <5>4 DEF Out
      <4> QED
        BY <4>1 DEF Whole
    <3>3. /\ At = "pingWait" /\ At' = "closeInput" /\ Sent = 0 /\ Sent' = 0 /\ Got' = Got
          /\ Result' = TRUE
      <4>1. pc = "ask" /\ pc' = "closeInput" /\ UNCHANGED << req, got >>
        BY <1>9, <2>1 DEF Acked
      <4>2. Whole' = 0
        BY <3>2, <4>1 DEF Whole, Out
      <4>3. Result' = TRUE
        BY <1>2, <3>1, Zenon DEF Elsewhere
      <4> QED
        BY <1>2, <4>1, <4>2, <4>3 DEF Elsewhere
    <3>4. Port!PingAnswered
      BY <1>9, <2>1, <3>3 DEF Port!PingAnswered, Acked, Port!Acknowledged, Answered
    <3> QED
      BY <3>4, Zenon DEF Port!ClientStep
  <2>2. CASE req.op # "ping"
    <3>1. result' = FALSE /\ result = FALSE
      <4>1. result' = (req.op = "ping") /\ pc = "ask" /\ result \in BOOLEAN
        BY <1>9, Zenon DEF Acked, Viewing, KindInv, TypeOK, ClientTypeOK
      <4> QED
        BY <1>3, <2>2, <4>1
    <3>2. /\ At = "pingWait" /\ At' = "out" /\ Sent = 0 /\ Sent' = 0 /\ Got' = Got
          /\ Result' = Result
      BY <1>2, <1>9, <2>2, <3>1 DEF Elsewhere, Acked
    <3>3. Port!PingAnswered
      BY <1>9, <2>2, <3>2 DEF Port!PingAnswered, Acked, Port!Acknowledged, Answered
    <3> QED
      BY <3>3, Zenon DEF Port!ClientStep
  <2> QED
    BY <2>1, <2>2
<1> QED
  BY <1>4, <1>5, <1>6, <1>7, <1>8, <1>9

(* The port turned outwards, the first byte is next; turned inwards, the   *)
(* strobe tells the server so.                                             *)
LEMMA OutputMoves ==
  ASSUME Viewing, KindInv', CleanInv', Output
  PROVE  Port!ClientStep
<1>1. /\ pc = "output" /\ pc' = "send" /\ transfer' = "none" /\ transfer = "none"
      /\ UNCHANGED << req, part, moved, got, result, last, bpc, count, size >>
      /\ req \in Calls /\ part = 1 /\ moved = 0 /\ ~result /\ req.op \notin {"ping", "reset"}
  BY DEF Output, OutputTransfer, Control, call, board, Viewing, KindInv, TypeOK, ClientTypeOK,
     CallInv, Preparing
<1>2. Elsewhere /\ WhenSending' /\ SendCounts'
  BY <1>1, ElsewhereView, Ahead DEF Viewing
<1>3. SentNow' = 0
  BY <1>1 DEF SentNow, Base
<1>4. Whole' # 0
  <2> DEFINE h == req.header
             d == req.data
  <2>1. h # <<>> /\ h \in Seq(Byte) /\ d \in Seq(Byte) /\ Whole' = Len(h \o d)
    BY <1>1, Assumptions, RequestFields
    DEF Assumed, Port!HeaderAssumption, Whole, Out
  <2> HIDE DEF h, d
  <2>2. Len(h \o d) = Len(h) + Len(d) /\ Len(h) # 0 /\ Len(h) \in Nat /\ Len(d) \in Nat
    BY <2>1, Growing
  <2> QED
    BY <2>1, <2>2
<1>5. bpc = "done" /\ count = 0 /\ size = 0
  BY <1>1, <1>2 DEF Elsewhere
<1>6. At' = "write" /\ Result' = FALSE
  BY <1>1, <1>2, <1>3, <1>4, <1>5 DEF WhenSending, WhileSending, AllSent, Failed
<1>7. result = FALSE
  BY <1>1 DEF Viewing, KindInv, TypeOK, ClientTypeOK
<1>8. At = "out" /\ Sent = 0 /\ Sent' = 0 /\ Got' = Got /\ Result' = Result
  BY <1>1, <1>2, <1>3, <1>6, <1>7 DEF Elsewhere, WhenSending
<1>9. Port!Output
  BY <1>1, <1>6, <1>8 DEF Port!Output, Output, OutputTransfer, Control, Port!output, output
<1> QED
  BY <1>9, Zenon DEF Port!ClientStep

LEMMA TurnMoves ==
  ASSUME Viewing, KindInv', CleanInv', Turn
  PROVE  Port!ClientStep
<1>1. /\ pc = "turn" /\ pc' = "receive" /\ transfer' = "none" /\ transfer = "none"
      /\ UNCHANGED << req, part, moved, got, result, last, bpc, count, size >>
      /\ req \in Calls /\ got = <<>> /\ ~result /\ Receives(req)
  BY DEF Turn, StrobeTransfer, Control, call, board, Viewing, KindInv, TypeOK, ClientTypeOK,
     CallInv, Preparing
<1>2. Elsewhere /\ WhenReceiving'
  BY <1>1, ElsewhereView, Ahead DEF Viewing
<1>3. result = FALSE /\ bpc = "done" /\ count = 0 /\ size = 0
  BY <1>1, <1>2 DEF Elsewhere, Viewing, KindInv, TypeOK, ClientTypeOK
<1>4. GotNow' = 0 /\ Got' = <<>> /\ Whole' = Whole /\ Total' = Total
  BY <1>1 DEF GotNow, Got, Whole, Total
<1>5. req.want \in Nat /\ (Total = 0 <=> req.want = 0)
  <2>1. req.op = "identify" => req.want = 10
    BY <1>1, Assumptions, Port!Shapes DEF Port!Shapes, Port!Sends, Assumed
  <2> QED
    BY <1>1, <2>1, RequestFields DEF Total
<1>6. At' = (IF req.want = 0 THEN "closeInput" ELSE "rwait") /\ Result' = FALSE
  BY <1>1, <1>2, <1>3, <1>4, <1>5 DEF WhenReceiving, WhileReceiving, AllGot, Failed
<1>7. At = "turn" /\ Sent = Whole /\ Sent' = Sent /\ Got' = Got /\ Result' = Result
  BY <1>1, <1>2, <1>3, <1>4, <1>6 DEF Elsewhere, WhenReceiving
<1>8. Port!Turn
  BY <1>1, <1>6, <1>7 DEF Port!Turn, Turn, StrobeTransfer, Control, Port!strobe, strobe, Port!bus,
     bus
<1> QED
  BY <1>8, Zenon DEF Port!ClientStep

-----------------------------------------------------------------------------
(* Each step of the board is one of the parallel port.                     *)
LEMMA SendMoves ==
  ASSUME Viewing, KindInv', CleanInv', UNCHANGED client, SendByte \/ SendStrobe \/ SendAcked
  PROVE  Port!ClientStep
<1>1. /\ pc = "sending" /\ pc' = pc /\ transfer = "send" /\ transfer' = "send"
      /\ UNCHANGED << req, part, moved, got, result, bytes, size, host >>
      /\ bpc \in {"byte", "strobe", "wait"} /\ count < size /\ count \in Nat /\ size \in Nat
      /\ host /\ moved \in Nat
  BY DEF client, SendByte, SendStrobe, SendAcked, Viewing, KindInv, CleanInv, BoardInv, TypeOK,
     BoardTypeOK, ClientTypeOK
<1>2. WhenSending /\ SendCounts /\ WhenSending' /\ SendCounts'
  BY <1>1, SendingView, SendView, Ahead DEF Viewing
<1>3. Whole' = Whole /\ Base' = Base /\ Base \in Nat
  <2>1. Whole' = Whole /\ Base' = Base
    BY <1>1 DEF Whole, Base
  <2>2. SentNow \in Nat /\ SentNow = Base + moved + count
    BY <1>1, <1>2 DEF SendCounts, SentNow
  <2>3. Len(req.header) \in Nat
    BY RequestFields DEF Viewing, KindInv, TypeOK, ClientTypeOK
  <2> QED
    BY <2>1, <2>3 DEF Base
<1>4. /\ SentNow < Whole /\ SentNow \in Nat /\ Whole \in Nat
      /\ bytes[count + 1] = Out(req)[SentNow + 1]
  BY <1>1, <1>2 DEF SendCounts
<1>5. /\ At = IF bpc = "byte" THEN "write" ELSE bpc
      /\ Sent = SentNow /\ Got = <<>> /\ Result = FALSE
  BY <1>1, <1>2, <1>4 DEF WhenSending, WhileSending, AllSent, Failed
<1>6. Sent' = SentNow' /\ Got' = <<>> /\ Got' = Got
  BY <1>2, <1>5 DEF WhenSending
<1>7. CASE SendByte
  <2>1. SentNow' = SentNow /\ bpc = "byte" /\ bpc' = "strobe"
    BY <1>1, <1>3, <1>7 DEF SendByte, SentNow
  <2>2. At' = "strobe" /\ Result' = FALSE
    BY <1>1, <1>2, <1>3, <1>4, <2>1 DEF WhenSending, WhileSending, AllSent, Failed
  <2>3. Port!Write
    BY <1>1, <1>4, <1>5, <1>6, <1>7, <2>1, <2>2, SameWire DEF Port!Write, SendByte
  <2> QED
    BY <2>3, Zenon DEF Port!ClientStep
<1>8. CASE SendStrobe
  <2>1. SentNow' = SentNow /\ bpc = "strobe" /\ bpc' = "wait"
    BY <1>1, <1>3, <1>8 DEF SendStrobe, SentNow
  <2>2. At' = "wait" /\ Result' = FALSE
    BY <1>1, <1>2, <1>3, <1>4, <2>1 DEF WhenSending, WhileSending, AllSent, Failed
  <2>3. Port!Strobe
    BY <1>1, <1>5, <1>6, <1>8, <2>1, <2>2 DEF Port!Strobe, SendStrobe, Port!strobe, strobe,
       Port!bus, bus
  <2> QED
    BY <2>3, Zenon DEF Port!ClientStep
<1>9. CASE SendAcked
  <2>1. /\ bpc = "wait" /\ count' = count + 1
        /\ bpc' \in {"byte", "done"} /\ (bpc' = "done" => count' = size')
    <3>1. bpc' = CASE count' = size -> "done"
                   [] count' # size /\ PacketEnd(count') /\ ~host -> "stuck"
                   [] OTHER -> "byte"
      BY <1>9 DEF SendAcked
    <3> QED
      BY <1>1, <1>9, <3>1 DEF SendAcked
  <2>2. SentNow' = SentNow + 1
    BY <1>1, <1>3, <2>1 DEF SentNow
  <2>3. At' = IF SentNow + 1 = Whole
              THEN IF Receives(req) THEN "input" ELSE "closeInput" ELSE "write"
    BY <1>1, <1>2, <1>3, <2>1, <2>2 DEF WhenSending, WhileSending, AllSent, Failed
  <2>4. Result' = IF SentNow + 1 = Whole /\ ~Receives(req)
                  THEN (req.op = "load" => req.data # <<>>) ELSE FALSE
    BY <1>1, <1>2, <1>3, <2>2, Zenon DEF WhenSending, AllSent
  <2>5. Port!Acknowledged /\ last' = pa2 /\ UNCHANGED Port!userport
    BY <1>9, SameClient DEF SendAcked, Port!userport, userport
  <2>6. Port!Sent
    <3>1. At = "wait" /\ Sent' = Sent + 1 /\ Len(Port!Out(req)) = Whole /\ Got' = Got
          /\ req' = req /\ (Port!Receives(req) <=> Receives(req)) /\ Sent = SentNow
      BY <1>1, <1>5, <1>6, <2>1, <2>2, SameWire DEF Whole
    <3>2. CASE SentNow + 1 = Whole /\ ~Receives(req)
      BY <2>3, <2>4, <2>5, <3>1, <3>2 DEF Port!Sent
    <3>3. CASE SentNow + 1 = Whole /\ Receives(req)
      <4>1. Result' = Result
        BY <1>5, <2>4, <3>3
      <4> QED
        BY <2>3, <2>5, <3>1, <3>3, <4>1 DEF Port!Sent
    <3>4. CASE SentNow + 1 # Whole
      <4>1. Result' = Result
        BY <1>5, <2>4, <3>4
      <4>2. Sent' < Whole
        BY <1>4, <3>1, <3>4
      <4> QED
        BY <2>3, <2>5, <3>1, <3>4, <4>1, <4>2 DEF Port!Sent
    <3> QED
      BY <3>2, <3>3, <3>4
  <2> QED
    BY <2>6, Zenon DEF Port!ClientStep
<1> QED
  BY <1>7, <1>8, <1>9

LEMMA ReceiveMoves ==
  ASSUME Viewing, KindInv', CleanInv', UNCHANGED client, Offered \/ ReceiveByte
  PROVE  Port!ClientStep /\ (ReceiveByte => At' = "rstrobe")
<1>1. /\ pc = "receiving" /\ pc' = pc /\ transfer = "receive" /\ transfer' = "receive"
      /\ UNCHANGED << req, part, moved, got, result, count, size, host >>
      /\ bpc \in {"byte", "strobe", "wait"} /\ count < size /\ count \in Nat /\ size \in Nat
      /\ got \in Seq(Byte) /\ bytes \in Seq(Byte) /\ bpc' \in {"byte", "strobe"}
  BY DEF client, Offered, ReceiveByte, Viewing, KindInv, CleanInv, BoardInv, TypeOK,
     BoardTypeOK, ClientTypeOK
<1>2. WhenReceiving /\ ReplyCounts /\ WhenReceiving'
  BY <1>1, ReceivingView, ReplyView, Ahead DEF Viewing
<1>3. Whole' = Whole /\ Total' = Total /\ GotNow' = GotNow
  BY <1>1 DEF Whole, Total, GotNow
<1>4. GotNow < Total /\ GotNow \in Nat /\ Total \in Nat /\ Len(Got) \in Nat
  BY <1>1, <1>2 DEF ReplyCounts
<1>5. /\ At = IF bpc = "byte" THEN "rread" ELSE IF bpc = "strobe" THEN "rstrobe" ELSE "rwait"
      /\ At' = IF bpc' = "byte" THEN "rread" ELSE IF bpc' = "strobe" THEN "rstrobe" ELSE "rwait"
      /\ Sent = Whole /\ Sent' = Whole
  BY <1>1, <1>2, <1>3, <1>4 DEF WhenReceiving, WhileReceiving, AllGot, Failed
<1>6. Result = FALSE /\ Result' = FALSE
  BY <1>1, <1>2, <1>3, <1>4 DEF WhenReceiving, AllGot
<1>7. CASE Offered
  <2>1. Got' = Got
    BY <1>1, <1>7 DEF Got, Offered
  <2>2. Port!Offered
    BY <1>1, <1>5, <1>6, <1>7, <2>1 DEF Port!Offered, Offered, Port!Acknowledged, Answered,
       Port!userport, userport
  <2>3. Port!ClientStep
    BY <2>2, Zenon DEF Port!ClientStep
  <2> QED
    BY <1>5, <1>7, <2>3 DEF Offered, ReceiveByte
<1>8. CASE ReceiveByte
  <2>1. PICK b \in BusValues : bytes' = Append(bytes, b)
    BY <1>8 DEF ReceiveByte
  <2>2. b \in Byte
    BY BusBytesHere DEF Viewing, KindInv, TypeOK
  <2>3. Got' = Append(Got, b)
    <3>1. got \o Append(bytes, b) = Append(got \o bytes, b)
      BY <1>1, <2>2
    <3> QED
      BY <1>1, <2>1, <3>1 DEF Got
  <2>4. Port!Read
    BY <1>1, <1>5, <1>6, <1>8, <2>3, SameCable DEF Port!Read, ReceiveByte, Port!userport, userport
  <2>5. Port!ClientStep
    BY <2>4, Zenon DEF Port!ClientStep
  <2> QED
    BY <1>5, <1>8, <2>5 DEF ReceiveByte
<1> QED
  BY <1>7, <1>8

LEMMA ReceiveStrobeMoves ==
  ASSUME Viewing, KindInv', CleanInv', Named', UNCHANGED client, ReceiveStrobe
  PROVE  Port!ClientStep
<1>1. /\ pc = "receiving" /\ pc' = pc /\ transfer = "receive" /\ transfer' = "receive"
      /\ UNCHANGED << req, part, moved, got, result, bytes, size, host, last >>
      /\ bpc = "strobe" /\ count < size /\ count \in Nat /\ size \in Nat
      /\ count' = count + 1 /\ host /\ req \in Calls /\ got \in Seq(Byte)
  BY DEF client, ReceiveStrobe, Viewing, KindInv, CleanInv, BoardInv, TypeOK, BoardTypeOK,
     ClientTypeOK
<1>2. WhenReceiving /\ ReplyCounts /\ WhenReceiving'
  BY <1>1, ReceivingView, ReplyView, Ahead DEF Viewing
<1>3. Whole' = Whole /\ Total' = Total /\ Got' = Got /\ GotNow' = GotNow + 1
  BY <1>1 DEF Whole, Total, Got, GotNow
<1>4. /\ GotNow < Total /\ GotNow \in Nat /\ Total \in Nat /\ Len(Got) = GotNow + 1
      /\ Got \in Seq(Byte) /\ Receives(req)
  BY <1>1, <1>2 DEF ReplyCounts
<1>5. At = "rstrobe" /\ Sent = Whole /\ Sent' = Whole /\ Result = FALSE
  BY <1>1, <1>2, <1>3, <1>4 DEF WhenReceiving, WhileReceiving, AllGot, Failed
<1>6. bpc' \in {"done", "wait"} /\ (bpc' = "done" => count' = size')
  <2>1. bpc' = CASE PacketEnd(count') /\ ~host -> "stuck"
                 [] count' = size /\ host -> "done"
                 [] OTHER -> "wait"
    BY DEF ReceiveStrobe
  <2> QED
    BY <1>1, <2>1
<1>7. At' = IF GotNow + 1 = Total THEN "closeInput" ELSE "rwait"
  BY <1>1, <1>2, <1>3, <1>6 DEF WhenReceiving, WhileReceiving, AllGot, Failed
<1>8. req.op = "identify" => req.want = 10 /\ Got[1] = 5
  BY <1>1, <1>4, Assumptions, Port!Shapes
  DEF Port!Shapes, Port!Sends, Assumed, Viewing, Named, Port!Identified
<1>9. Port!Want(req, Got) = Total /\ ~Port!Nameless
  <2>1. Got # <<>> /\ (req.op = "identify" => Got[1] % 16 = 5)
    BY <1>4, <1>8
  <2> QED
    BY <1>8, <2>1 DEF Port!Want, Total, Port!Nameless
<1>10. Result' = IF GotNow + 1 = Total THEN (req.op = "identify" => ~Unidentified(Got)) ELSE FALSE
  <2>1. GotNow + 1 = Total => req.want # 0
    BY <1>4, <1>8 DEF Total
  <2> QED
    BY <1>1, <1>2, <1>3, <2>1, Zenon DEF WhenReceiving, AllGot
<1>11. Port!Unidentified(Got) <=> Unidentified(Got)
  BY DEF Port!Unidentified, Unidentified
<1>12. Port!Received
  <2>1. Port!strobe /\ UNCHANGED << pa2, Port!bus, req, Sent, Got, last >>
    BY <1>1, <1>3, <1>5 DEF ReceiveStrobe, Port!strobe, strobe, Port!bus, bus
  <2>2. CASE GotNow + 1 = Total
    <3>1. Len(Got) >= Port!Want(req, Got)
      BY <1>4, <1>9, <2>2
    <3>2. Result' = (req.op = "identify" => ~Port!Unidentified(Got))
      BY <1>10, <1>11, <2>2, Zenon
    <3> QED
      BY <1>5, <1>7, <2>1, <2>2, <3>1, <3>2, Zenon DEF Port!Received
  <2>3. CASE GotNow + 1 # Total
    <3>1. Len(Got) < Port!Want(req, Got)
      BY <1>4, <1>9, <2>3
    <3>2. Result' = Result
      BY <1>5, <1>10, <2>3
    <3> QED
      BY <1>5, <1>7, <1>9, <2>1, <2>3, <3>1, <3>2, Zenon DEF Port!Received
  <2> QED
    BY <2>2, <2>3
<1> QED
  BY <1>12, Zenon DEF Port!ClientStep

-----------------------------------------------------------------------------
(* Handing over a transfer, and being told how it went, is nothing the     *)
(* parallel port would see, but for an empty load or save: the board, and  *)
(* with it the call, finds that nothing at all has been transferred.       *)
Silent ==
  /\ At' = At /\ Got' = Got /\ (At # "closeInput" => Sent' = Sent)
  /\ UNCHANGED << req, last, userport >>
  /\ \/ Result' = Result
     \/ At = "closeInput" /\ Result = FALSE /\ Result' = TRUE /\ Port!Empty(req)

LEMMA HandOverMoves ==
  ASSUME Viewing, KindInv', CleanInv', Send \/ Receive
  PROVE  Silent
<1>1. /\ transfer = "none" /\ bpc = "done" /\ size = 0 /\ count = 0 /\ bytes = <<>>
      /\ host' = TRUE /\ count' = 0 /\ last' = last
      /\ UNCHANGED << userport, req, part, moved, got, result >>
      /\ got \in Seq(Byte) /\ req \in Calls /\ moved \in Nat
  BY DEF Send, Receive, Begin, call, Viewing, KindInv, TypeOK, BoardTypeOK, ClientTypeOK,
     BoardInv
<1>2. Whole' = Whole /\ Total' = Total /\ Base' = Base
  BY <1>1 DEF Whole, Total, Base
<1>3. CASE Send
  <2>1. /\ pc = "send" /\ pc' = "sending" /\ transfer' = "send"
        /\ bpc' \in {"done", "byte"} /\ (bpc' = "done" => size' = 0)
    BY <1>3 DEF Send, Begin
  <2>2. WhenSending /\ SendCounts /\ WhenSending'
    BY <2>1, SendingView, SendView, Ahead DEF Viewing
  <2>3. SentNow' = SentNow
    <3>1. Base \in Nat
      <4>1. Len(req.header) \in Nat
        BY <1>1, RequestFields
      <4> QED
        BY <4>1 DEF Base
    <3> QED
      BY <1>1, <1>2, <2>1, <3>1 DEF SentNow
  <2>4. At' = At
    BY <1>1, <1>2, <2>1, <2>2, <2>3 DEF WhenSending, WhileSending, AllSent, Failed
  <2>5. Result' = Result
    BY <1>1, <1>2, <2>1, <2>2, <2>3, Zenon DEF WhenSending, AllSent
  <2> QED
    BY <1>1, <2>2, <2>3, <2>4, <2>5 DEF WhenSending, Silent
<1>4. CASE Receive
  <2>1. /\ pc = "receive" /\ pc' = "receiving" /\ transfer' = "receive" /\ bytes' = <<>>
        /\ bpc' \in {"done", "wait"} /\ (bpc' = "done" => size' = 0)
    BY <1>4 DEF Receive, Begin
  <2>2. WhenReceiving /\ WhenReceiving'
    BY <2>1, ReceivingView, Ahead DEF Viewing
  <2>3. GotNow' = GotNow /\ Got' = Got
    BY <1>1, <2>1 DEF GotNow, Got
  <2>4. At' = At
    BY <1>1, <1>2, <2>1, <2>2, <2>3 DEF WhenReceiving, WhileReceiving, AllGot, Failed
  <2>5. Result' = Result
    BY <1>1, <1>2, <2>1, <2>2, <2>3, ZenonT(60) DEF WhenReceiving, AllGot, Unidentified
  <2> QED
    BY <1>1, <1>2, <2>2, <2>3, <2>4, <2>5 DEF WhenReceiving, Silent
<1> QED
  BY <1>3, <1>4

LEMMA SendReportMoves ==
  ASSUME Viewing, KindInv', CleanInv', SendReport
  PROVE  Silent
<1>1. /\ pc = "sending" /\ transfer = "send" /\ bpc = "done" /\ transfer' = "none"
      /\ bpc' = "done" /\ count' = 0 /\ size' = 0
      /\ UNCHANGED << userport, last, req, got >>
      /\ req \in Calls /\ moved \in Nat /\ size \in Nat /\ count \in 0 .. size
      /\ part \in 1 .. 2 /\ Len(req.header) \in Nat
  <2>1. req \in Calls /\ part <= Parts(req) /\ part \in 1 .. 3 /\ Parts(req) \in 1 .. 2
    BY DEF SendReport, Viewing, KindInv, TypeOK, ClientTypeOK, CallInv, SendInv, Parts
  <2>2. Len(req.header) \in Nat /\ part \in 1 .. 2
    BY <2>1, RequestFields
  <2> QED
    BY <2>1, <2>2 DEF SendReport, Release, Viewing, KindInv, TypeOK, BoardTypeOK, ClientTypeOK
<1>2. /\ WhenSending /\ SendCounts /\ Whole' = Whole
      /\ SentNow = Base + moved + count /\ Base \in Nat
  BY <1>1, SendingView, SendView DEF Viewing, Whole, SentNow, Base
<1>3. CASE count # size
  <2>1. pc' = "closeInput" /\ result' = result
    BY <1>3 DEF SendReport
  <2>2. Elsewhere'
    BY <2>1, Ahead
  <2>3. SentNow < Whole
    BY <1>1, <1>2, <1>3 DEF SendCounts
  <2>4. At = "closeInput" /\ Result = FALSE
    BY <1>1, <1>2, <1>3, <2>3 DEF WhenSending, WhileSending, AllSent, Failed, SendCounts
  <2> QED
    BY <1>1, <1>2, <2>1, <2>2, <2>4 DEF Elsewhere, WhenSending, Silent
<1>4. CASE count = size /\ pc' = "send"
  <2>1. WhenSending'
    BY <1>4, Ahead
  <2>2. SentNow' = SentNow
    <3>1. CASE moved + size # Len(Sending)
      <4>1. moved' = moved + size /\ part' = part
        BY <1>4, <3>1 DEF SendReport
      <4>2. Base' = Base
        BY <1>1, <4>1 DEF Base
      <4>3. SentNow' = Base' + moved' + 0
        BY <1>1 DEF SentNow
      <4> QED
        BY <1>1, <1>2, <1>4, <4>1, <4>2, <4>3
    <3>2. CASE moved + size = Len(Sending)
      <4>1. part < Parts(req) /\ part' = part + 1 /\ moved' = 0
        BY <1>4, <3>2 DEF SendReport
      <4>2. part = 1 /\ SentNow = Len(req.header)
        BY <1>1, <1>2, <1>4, <3>2, <4>1 DEF SendCounts, Parts
      <4>3. Base' = Len(req.header)
        BY <1>1, <4>1, <4>2 DEF Base
      <4> QED
        BY <1>1, <4>1, <4>2, <4>3 DEF SentNow
    <3> QED
      BY <3>1, <3>2
  <2>3. At' = At
    BY <1>1, <1>2, <1>4, <2>1, <2>2 DEF WhenSending, WhileSending, AllSent, Failed
  <2>4. Result' = Result
    <3>1. AllSent' <=> AllSent
      BY <1>1, <1>2, <1>4, <2>2 DEF AllSent
    <3>2. req' = req
      BY <1>1
    <3>3. CASE ~AllSent \/ Receives(req)
      BY <1>2, <2>1, <3>1, <3>2, <3>3 DEF WhenSending, Receives
    <3>4. CASE AllSent /\ ~Receives(req)
      <4>1. Result = (req.op = "load" => req.data # <<>>)
        BY <1>2, <3>4, Zenon DEF WhenSending
      <4>2. Result' = (req.op = "load" => req.data # <<>>)
        BY <2>1, <3>1, <3>2, <3>4, Zenon DEF WhenSending, Receives
      <4> QED
        BY <4>1, <4>2, Zenon
    <3> QED
      BY <3>3, <3>4
  <2> QED
    BY <1>1, <1>2, <2>1, <2>2, <2>3, <2>4 DEF WhenSending, Silent
<1>5. CASE count = size /\ pc' # "send"
  <2>1. /\ moved + size = Len(Sending) /\ part = Parts(req)
        /\ pc' = IF Receives(req) THEN "input" ELSE "closeInput"
        /\ result' = ~Receives(req)
    BY <1>5, Zenon DEF SendReport
  <2>2. AllSent /\ SentNow = Whole
    BY <1>1, <1>2, <1>5, <2>1 DEF SendCounts, AllSent
  <2>3. Elsewhere'
    BY <2>1, Ahead
  <2>4. At = pc'
    BY <1>2, <2>1, <2>2 DEF WhenSending, WhileSending
  <2>5. At' = At
    BY <2>1, <2>3, <2>4 DEF Elsewhere
  <2>6. CASE Receives(req)
    <3>1. result' = FALSE
      BY <2>1, <2>6, Zenon
    <3> QED
      BY <1>1, <1>2, <2>1, <2>2, <2>3, <2>5, <2>6, <3>1 DEF Elsewhere, WhenSending, Silent
  <2>7. CASE ~Receives(req)
    <3>1. result' = TRUE /\ Result' = TRUE
      BY <2>1, <2>3, <2>7, Zenon DEF Elsewhere
    <3>2. Result = (req.op = "load" => req.data # <<>>)
      BY <1>2, <2>2, <2>7, Zenon DEF WhenSending
    <3>3. CASE req.op = "load" /\ req.data = <<>>
      <4>1. Result = FALSE
        BY <3>2, <3>3, Zenon
      <4>2. req.writes = <<>>
        BY <1>1, <3>3, Assumptions, Port!Shapes DEF Port!Shapes, Port!Sends, Assumed
      <4> QED
        BY <1>1, <1>2, <2>1, <2>3, <2>4, <2>5, <2>7, <3>1, <3>3, <4>1, <4>2
        DEF Elsewhere, WhenSending, Silent, Port!Empty
    <3>4. CASE ~(req.op = "load" /\ req.data = <<>>)
      <4>1. Result = TRUE
        BY <3>2, <3>4, Zenon
      <4> QED
        BY <1>1, <1>2, <2>1, <2>3, <2>4, <2>5, <2>7, <3>1, <4>1
        DEF Elsewhere, WhenSending, Silent
    <3> QED
      BY <3>3, <3>4
  <2> QED
    BY <2>6, <2>7
<1> QED
  BY <1>3, <1>4, <1>5

LEMMA ReceiveReportMoves ==
  ASSUME Viewing, KindInv', CleanInv', ReceiveReport
  PROVE  Silent
<1>1. /\ pc = "receiving" /\ transfer = "receive" /\ bpc = "done" /\ transfer' = "none"
      /\ bpc' = "done" /\ count' = 0 /\ size' = 0
      /\ UNCHANGED << userport, last, req >>
      /\ req \in Calls /\ moved \in Nat /\ size \in Nat /\ count \in 0 .. size
      /\ got \in Seq(Byte) /\ bytes \in Seq(Byte) /\ Len(bytes) = count
      /\ got' = got \o bytes
  BY DEF ReceiveReport, Release, Viewing, KindInv, TypeOK, BoardTypeOK, ClientTypeOK, BoardInv
<1>2. WhenReceiving /\ ReplyCounts /\ Whole' = Whole /\ Total' = Total
  BY <1>1, ReceivingView, ReplyView DEF Viewing, Whole, Total
<1>3. Got' = Got /\ got' = Got /\ GotNow' = GotNow
  <2>1. Len(got \o bytes) = Len(got) + count
    BY <1>1, Growing
  <2> QED
    BY <1>1, <2>1 DEF Got, GotNow
<1>4. CASE count # size
  <2>1. pc' = "closeInput" /\ result' = result
    BY <1>4 DEF ReceiveReport
  <2>2. Elsewhere'
    BY <2>1, Ahead
  <2>3. GotNow < Total /\ GotNow \in Nat /\ Total \in Nat
    BY <1>1, <1>2, <1>4 DEF ReplyCounts
  <2>4. At = "closeInput" /\ Result = FALSE
    BY <1>1, <1>2, <1>4, <2>3 DEF WhenReceiving, WhileReceiving, AllGot, Failed
  <2> QED
    BY <1>1, <1>2, <1>3, <2>1, <2>2, <2>4 DEF Elsewhere, WhenReceiving, Silent
<1>5. CASE count = size /\ pc' = "receive"
  <2>1. WhenReceiving'
    BY <1>5, Ahead
  <2>2. AllGot' <=> AllGot
    BY <1>1, <1>2, <1>3, <1>5 DEF AllGot
  <2>3. At' = At
    BY <1>1, <1>2, <1>5, <2>1, <2>2 DEF WhenReceiving, WhileReceiving, Failed
  <2>4. Result' = Result
    <3>1. req' = req /\ Got' = Got
      BY <1>1, <1>3
    <3>2. CASE ~AllGot \/ req.want = 0
      BY <1>2, <2>1, <2>2, <3>1, <3>2 DEF WhenReceiving
    <3>3. CASE AllGot /\ req.want # 0
      <4>1. Result = (req.op = "identify" => ~Unidentified(Got))
        BY <1>2, <3>3, Zenon DEF WhenReceiving
      <4>2. Result' = (req.op = "identify" => ~Unidentified(Got))
        BY <2>1, <2>2, <3>1, <3>3, Zenon DEF WhenReceiving
      <4> QED
        BY <4>1, <4>2, Zenon
    <3> QED
      BY <3>2, <3>3
  <2> QED
    BY <1>1, <1>2, <1>3, <2>1, <2>3, <2>4 DEF WhenReceiving, Silent
<1>6. CASE count = size /\ pc' # "receive"
  <2>1. /\ size = Wanted /\ part = Replies(req) /\ pc' = "closeInput"
        /\ result' = (req.op = "identify" => ~Unidentified(got'))
    BY <1>6, Zenon DEF ReceiveReport
  <2>2. moved + count = ReplySize(req, part, got)
    <3>1. ReplySize(req, part, got) \in Nat
      BY <1>1, ReplySizes DEF Viewing, KindInv, TypeOK, CallInv
    <3> QED
      BY <1>1, <1>6, <2>1, <3>1 DEF Wanted
  <2>3. AllGot
    BY <1>1, <1>2, <2>1, <2>2 DEF ReplyCounts, AllGot
  <2>4. Elsewhere'
    BY <2>1, Ahead
  <2>5. At = "closeInput" /\ At' = "closeInput"
    BY <1>2, <2>1, <2>3, <2>4 DEF WhenReceiving, WhileReceiving, Elsewhere
  <2>6. Result' = (req.op = "identify" => ~Unidentified(Got))
    BY <1>3, <2>1, <2>4, Zenon DEF Elsewhere
  <2>7. CASE req.want # 0
    <3>1. Result' = Result
      BY <1>2, <2>3, <2>6, <2>7, Zenon DEF WhenReceiving
    <3> QED
      BY <1>1, <1>3, <2>5, <3>1 DEF Silent
  <2>8. CASE req.want = 0
    <3>1. Result = FALSE
      BY <1>2, <2>8 DEF WhenReceiving
    <3>2. req.op = "save"
      BY <1>1, <1>2, <2>8, Assumptions, Port!Shapes, SMTT(30)
      DEF ReplyCounts, Receives, Port!Shapes, Port!Sends, Assumed
    <3>3. Result' = TRUE
      BY <2>6, <3>2, Zenon
    <3> QED
      BY <1>1, <1>3, <2>5, <2>8, <3>1, <3>2, <3>3 DEF Silent, Port!Empty
  <2> QED
    BY <2>7, <2>8
<1> QED
  BY <1>4, <1>5, <1>6

-----------------------------------------------------------------------------
(* How the board and the server stand to each other.                       *)
Standing == Viewing /\ Port!Paired

LEMMA StandTogether ==
  ASSUME Standing
  PROVE  Port!Together
BY Viewed DEF Standing, Port!Together

LEMMA SilentPaired ==
  ASSUME Standing, Silent, UNCHANGED << server, done >>
  PROVE  Port!Paired'
<1>1. Port!Together /\ Port!Paired
  BY StandTogether DEF Standing
<1>2. UNCHANGED << req, last, flag, pa2, pcDriving, Port!userport, Port!server, done, Got, At >>
  BY DEF Silent, userport, Port!userport, server, Port!server
<1>3. CASE At # "closeInput"
  <2>1. UNCHANGED << Port!server, Port!client, Port!userport, done >>
    BY <1>2, <1>3 DEF Silent, Port!client
  <2> QED
    BY <1>1, <2>1, Assumptions, Port!Frame DEF Port!Frame, Assumed
<1>4. CASE At = "closeInput" /\ Result' = Result
  BY <1>1, <1>2, <1>4, Assumptions, Port!OverPaired DEF Port!OverPaired, Port!After, Assumed
<1>5. CASE At = "closeInput" /\ Result = FALSE /\ Result' = TRUE /\ Port!Empty(req)
  <2>1. /\ Port!InStep \/ Port!Stuck
        /\ done = 0 /\ Got = <<>>
    BY <1>1, <1>5 DEF Port!Paired, Port!After, Port!Outcome
  <2>2. Port!InStep' <=> Port!InStep
    BY <1>2, Assumptions, Port!ReadyStays DEF Port!ReadyStays, Assumed
  <2>3. Port!Stuck' <=> Port!Stuck
    BY <1>2 DEF Port!Stuck, Port!Empty, Port!server
  <2>4. Port!Achieved'
    BY <1>2, <1>5, <2>1 DEF Port!Achieved, Port!Empty
  <2>5. Port!Outcome'
    BY <1>5, <2>4, Zenon DEF Port!Outcome
  <2> QED
    BY <1>2, <1>5, <2>1, <2>2, <2>3, <2>5 DEF Port!Paired, Port!Before, Port!Receiving, Port!After
<1> QED
  BY <1>3, <1>4, <1>5 DEF Silent

(* The steps in which the driver turns the port around differ in what they *)
(* leave in the data register.                                             *)
LEMMA TurnsPaired ==
  ASSUME Standing, KindInv', CleanInv', Open \/ Input \/ CloseInput, UNCHANGED << server, done >>
  PROVE  Port!Paired'
<1>1. pc \notin {"send", "sending", "receive", "receiving"}
      /\ pc' \notin {"send", "sending", "receive", "receiving"}
  BY DEF Open, Input, CloseInput, InputTransfer, Control
<1>2. Elsewhere /\ Elsewhere'
  BY <1>1, ElsewhereView, Ahead DEF Standing, Viewing
<1>3. Port!Together /\ Port!server' = Port!server
  BY StandTogether DEF server, Port!server
<1>4. /\ UNCHANGED << flag, pa2, last, req, got, result, done, ciaData, ciaDriving >>
      /\ pcDriving' = FALSE
  BY DEF Open, Input, CloseInput, InputTransfer, Control, input, call, board
<1>5. CASE Open
  <2>1. At = "open" /\ At' \in {"init", "pingOut"}
    BY <1>2, <1>5 DEF Open, Elsewhere
  <2> QED
    BY <1>3, <1>4, <2>1, Assumptions, Port!OpenPaired DEF Port!OpenPaired, Assumed
<1>6. CASE Input
  <2>1. At = "input" /\ At' = "turn" /\ Got' = Got /\ Result' = Result /\ Sent' = Sent
    <3>1. Whole' = Whole
      BY <1>4 DEF Whole
    <3> QED
      BY <1>2, <1>4, <1>6, <3>1 DEF Input, InputTransfer, Control, Elsewhere
  <2> QED
    BY <1>3, <1>4, <2>1, Assumptions, Port!InputPaired DEF Port!InputPaired, Assumed
<1>7. CASE CloseInput
  <2>1. At = "closeInput" /\ At' = "close" /\ Got' = Got /\ Result' = Result
    BY <1>2, <1>4, <1>7 DEF CloseInput, InputTransfer, Control, Elsewhere
  <2> QED
    BY <1>3, <1>4, <2>1, Assumptions, Port!OverPaired DEF Port!OverPaired, Port!After, Assumed
<1> QED
  BY <1>5, <1>6, <1>7

LEMMA MovePaired ==
  ASSUME Standing, Port!ClientStep, UNCHANGED << server, done >>
  PROVE  Port!Paired'
<1>1. Port!Together /\ UNCHANGED << Port!server, done >>
  BY StandTogether DEF server, Port!server
<1> QED
  BY <1>1, Assumptions, Port!ClientPaired DEF Port!ClientPaired, Assumed

(* Every step of the driver, ... *)
LEMMA ClientStands ==
  ASSUME Standing, KindInv', ClientStep, UNCHANGED << server, done >>
  PROVE  Standing'
<1>1. CleanInv' /\ Named'
  BY ClientClean, ClientNamed DEF Standing, Viewing
<1>2. ~Gone
  BY DEF Standing, Viewing, CleanInv, Gone
<1>3. Viewing
  BY DEF Standing
<1>4. Port!Paired'
  <2>1. CASE OpenFails \/ PingOutput \/ PingWrite \/ PingStrobe \/ Acked \/ Close
    BY <1>1, <1>3, <2>1, PreparingMoves, MovePaired
  <2>2. CASE Output \/ Turn
    BY <1>1, <1>3, <2>2, OutputMoves, TurnMoves, MovePaired
  <2>3. CASE Open \/ Input \/ CloseInput
    BY <1>1, <2>3, TurnsPaired
  <2>4. CASE Send \/ Receive \/ SendReport \/ ReceiveReport
    BY <1>1, <1>3, <2>4, HandOverMoves, SendReportMoves, ReceiveReportMoves, SilentPaired
  <2> QED
    BY <1>2, <2>1, <2>2, <2>3, <2>4 DEF ClientStep
<1> QED
  BY <1>1, <1>4 DEF Standing, Viewing

(* ... of the board, ... *)
LEMMA BoardStands ==
  ASSUME Standing, KindInv', BoardStep, UNCHANGED << client, server, done >>
  PROVE  Standing'
<1>1. CleanInv' /\ Viewing
  BY BoardClean DEF Standing, Viewing
<1>2. ~Forget /\ ~WatchdogReset
  BY DEF Standing, Viewing, CleanInv, Forget, WatchdogReset
<1>3. CASE SendByte \/ SendStrobe \/ SendAcked
  <2>1. Port!Paired'
    BY <1>1, <1>3, SendMoves, MovePaired
  <2>2. pc' \notin {"receive", "receiving"}
    BY <1>1, <1>3 DEF SendByte, SendStrobe, SendAcked, client, Viewing, CleanInv
  <2> QED
    BY <1>1, <2>1, <2>2 DEF Standing, Viewing, Named
<1>4. CASE Offered \/ ReceiveStrobe
  <2>1. UNCHANGED << Got, req >> /\ pc = "receiving"
    BY <1>1, <1>4 DEF Offered, ReceiveStrobe, client, Got, Viewing, CleanInv
  <2>2. Named'
    BY <1>1, <2>1, NamedStays DEF Viewing
  <2>3. Port!Paired'
    BY <1>1, <1>4, <2>2, ReceiveMoves, ReceiveStrobeMoves, MovePaired
  <2> QED
    BY <1>1, <2>2, <2>3 DEF Standing, Viewing
<1>5. CASE ReceiveByte
  <2>1. Port!ClientStep /\ At' = "rstrobe"
    BY <1>1, <1>5, ReceiveMoves
  <2>2. Port!Paired'
    BY <2>1, MovePaired
  <2>3. Named'
    BY <2>1, <2>2 DEF Port!Paired, Port!Receiving, Named
  <2> QED
    BY <1>1, <2>2, <2>3 DEF Standing, Viewing
<1> QED
  BY <1>2, <1>3, <1>4, <1>5 DEF BoardStep

(* ... and of the server keeps them together, ... *)
LEMMA ServerStands ==
  ASSUME Standing, KindInv', ServerProceeds
  PROVE  Standing'
<1>1. ServerStep /\ UNCHANGED << board, client >> /\ CleanInv'
  BY ServerClean DEF Standing, Viewing, ServerProceeds
<1>2. UNCHANGED << At, Sent, Got, Result, req, last >>
  BY <1>1 DEF board, client, At, Sent, Got, Result, WhileSending, WhileReceiving, AllSent, AllGot,
     Failed, SentNow, GotNow, Whole, Base, Total
<1>3. Port!Keeping /\ Port!ServerStep
  <2>1. done' = IF Port!Commits THEN done + 1 ELSE done
    BY SameSteps DEF ServerProceeds
  <2> QED
    BY <1>1, <1>2, <2>1, SameSteps DEF Port!Keeping, Port!client
<1>4. Port!Paired'
  BY <1>3, StandTogether, Assumptions, Port!ServerPaired DEF Port!ServerPaired, Assumed
<1>5. Named'
  BY <1>1, <1>2 DEF Standing, Viewing, Named, Port!Identified, client
<1> QED
  BY <1>1, <1>4, <1>5 DEF Standing, Viewing

(* ... and so does giving up on a server that never listened.              *)
LEMMA GiveUpMoves ==
  ASSUME Standing, KindInv', ~Answered,
         \/ GiveUp
         \/ UNCHANGED client /\ (SendTimeout \/ ReceiveTimeout) /\ bpc' = "done" /\ count' # size
  PROVE  Port!Timeout /\ CleanInv' /\ Named' /\ UNCHANGED << userport, last >>
<1>1. Viewing
  BY DEF Standing
<1>2. CASE GiveUp
  <2>1. /\ pc = "ask" /\ pc' = "closeInput" /\ UNCHANGED << userport, board, call >> /\ ~result
    BY <1>1, <1>2 DEF GiveUp, Viewing, KindInv, CallInv
  <2>2. CleanInv' /\ Named'
    BY <1>1, <2>1 DEF Viewing, CleanInv, Named, userport, board
  <2>3. Elsewhere /\ Elsewhere'
    BY <1>1, <2>1, <2>2, ElsewhereView, Ahead DEF Viewing
  <2>4. At = "pingWait" /\ At' = "closeInput" /\ Sent' = Sent /\ Got' = Got /\ Result' = Result
        /\ req' = req /\ last' = last /\ UNCHANGED userport
    BY <2>1, <2>3 DEF Elsewhere, call, board
  <2> QED
    BY <2>2, <2>4, SameClient DEF Port!Timeout, Port!Waiting, Port!userport, userport
<1>3. CASE UNCHANGED client /\ SendTimeout /\ bpc' = "done" /\ count' # size
  <2>1. /\ pc = "sending" /\ pc' = pc /\ transfer = "send" /\ transfer' = "send" /\ bpc = "wait"
        /\ count < size /\ count' = count /\ count \in Nat /\ size \in Nat
        /\ UNCHANGED << userport, req, part, moved, got, result, size, last >>
    BY <1>1, <1>3 DEF SendTimeout, client, Viewing, KindInv, TypeOK, BoardTypeOK, BoardInv,
       CleanInv
  <2>2. CleanInv' /\ Named'
    BY <1>1, <1>3, <2>1, BoardClean DEF Viewing, Named
  <2>3. WhenSending /\ SendCounts /\ WhenSending'
    BY <1>1, <2>1, <2>2, SendingView, SendView, Ahead DEF Viewing
  <2>4. SentNow' = SentNow /\ Whole' = Whole /\ SentNow < Whole /\ SentNow \in Nat /\ Whole \in Nat
    <3>1. Whole' = Whole /\ Base' = Base
      BY <2>1 DEF Whole, Base
    <3> QED
      BY <2>1, <2>3, <3>1 DEF SendCounts, SentNow
  <2>5. At = "wait" /\ At' = "closeInput"
    BY <1>3, <2>1, <2>3, <2>4 DEF WhenSending, WhileSending, AllSent, Failed
  <2>6. Sent' = Sent /\ Got' = Got /\ Result' = Result
    BY <2>1, <2>3, <2>4 DEF WhenSending, AllSent
  <2> QED
    BY <2>1, <2>2, <2>5, <2>6, SameClient DEF Port!Timeout, Port!Waiting, Port!userport, userport
<1>4. CASE UNCHANGED client /\ ReceiveTimeout /\ bpc' = "done" /\ count' # size
  <2>1. /\ pc = "receiving" /\ pc' = pc /\ transfer = "receive" /\ transfer' = "receive"
        /\ bpc = "wait" /\ count < size /\ count' = count /\ count \in Nat /\ size \in Nat
        /\ UNCHANGED << userport, req, part, moved, got, bytes, result, size, last >>
    BY <1>1, <1>4 DEF ReceiveTimeout, client, Viewing, KindInv, TypeOK, BoardTypeOK, BoardInv,
       CleanInv
  <2>2. Got' = Got /\ Total' = Total /\ GotNow' = GotNow /\ Whole' = Whole
    BY <2>1 DEF Got, Total, GotNow, Whole
  <2>3. CleanInv' /\ Named'
    BY <1>1, <1>4, <2>1, <2>2, BoardClean, NamedStays DEF Viewing
  <2>4. WhenReceiving /\ ReplyCounts /\ WhenReceiving'
    BY <1>1, <2>1, <2>3, ReceivingView, ReplyView, Ahead DEF Viewing
  <2>5. GotNow < Total /\ GotNow \in Nat /\ Total \in Nat
    BY <2>1, <2>4 DEF ReplyCounts
  <2>6. At = "rwait" /\ At' = "closeInput"
    BY <1>4, <2>1, <2>2, <2>4, <2>5 DEF WhenReceiving, WhileReceiving, AllGot, Failed
  <2>7. Sent' = Sent /\ Result' = Result
    BY <2>1, <2>2, <2>4, <2>5 DEF WhenReceiving, AllGot
  <2> QED
    BY <2>1, <2>2, <2>3, <2>6, <2>7, SameClient
    DEF Port!Timeout, Port!Waiting, Port!userport, userport
<1> QED
  BY <1>2, <1>3, <1>4

LEMMA GiveUpStands ==
  ASSUME Standing, KindInv', PingGivesUp \/ BoardGivesUp, clean'
  PROVE  Standing'
<1>1. /\ ~Answered /\ ServerBlocked /\ UNCHANGED << server, done >> /\ ~flag
      /\ \/ GiveUp
         \/ UNCHANGED client /\ (SendTimeout \/ ReceiveTimeout) /\ bpc' = "done" /\ count' # size
  <2>1. CASE PingGivesUp
    BY <2>1, Zenon DEF PingGivesUp
  <2>2. CASE BoardGivesUp
    <3>1. ~flag /\ bpc' = "done" /\ count' # size
      BY <2>2, Zenon DEF BoardGivesUp
    <3> QED
      BY <2>2, <3>1 DEF BoardGivesUp
  <2> QED
    BY <2>1, <2>2
<1>2. Port!Timeout /\ CleanInv' /\ Named'
  BY <1>1, GiveUpMoves
<1>3. Port!Paired'
  <2>1. Port!ServerBlocked /\ UNCHANGED << Port!server, done >>
    BY <1>1, SameServer DEF server, Port!server
  <2> QED
    BY <1>1, <1>2, <2>1, StandTogether, Assumptions, Port!GiveUpPaired
    DEF Port!GiveUpPaired, Assumed
<1> QED
  BY <1>2, <1>3 DEF Standing, Viewing

(* A call that begins while both ends are ready begins in step. *)
LEMMA CallStands ==
  ASSUME KindInv, KindInv', NewCall, clean'
  PROVE  Standing'
<1>1. InStep
  BY Zenon DEF NewCall
<1>2. CleanInv' /\ Named'
  BY <1>1, CallClean
<1>3. pc' = "open" /\ done' = 0 /\ UNCHANGED << server, flag, pa2, last >>
  BY DEF NewCall, Call, userport, board
<1>4. At' = "open"
  BY <1>2, <1>3, Ahead DEF Elsewhere
<1>5. Port!InStep
  BY <1>1, SameServer DEF InStep, Answered, Port!InStep
<1>6. Port!InStep'
  BY <1>3, <1>5, Assumptions, Port!ReadyStays DEF Port!ReadyStays, server, Port!server, Assumed
<1>7. Port!Paired'
  BY <1>3, <1>4, <1>6 DEF Port!Resting, Port!Paired, Port!Before, Port!Receiving, Port!After
<1> QED
  BY <1>2, <1>7 DEF Standing, Viewing

UsbInv == KindInv /\ (clean => Standing)

LEMMA FrameStands ==
  ASSUME Standing, UNCHANGED vars
  PROVE  Standing'
<1>1. UNCHANGED << userport, board, client, server, clean, done, budget >>
  BY DEF vars
<1>2. UNCHANGED << At, Sent, Got, Result, req, last >>
  BY <1>1 DEF board, client, At, Sent, Got, Result, WhileSending, WhileReceiving, AllSent, AllGot,
     Failed, SentNow, GotNow, Whole, Base, Total
<1>3. KindInv'
  BY StepKinds DEF Standing, Viewing
<1>4. CleanInv'
  BY <1>1 DEF Standing, Viewing, CleanInv, board, client, userport
<1>5. Silent
  BY <1>1, <1>2 DEF Silent
<1>6. Port!Paired'
  BY <1>1, <1>5, SilentPaired
<1>7. Named'
  BY <1>1, <1>2 DEF Standing, Viewing, Named, Port!Identified, client
<1> QED
  BY <1>3, <1>4, <1>6, <1>7 DEF Standing, Viewing

LEMMA StepStands ==
  ASSUME UsbInv, [Next]_vars, clean'
  PROVE  Standing'
<1>1. KindInv /\ KindInv'
  BY StepKinds DEF UsbInv
<1>2. CASE NewCall
  BY <1>1, <1>2, CallStands
<1>3. CASE ~NewCall
  <2>1. ~ResetTransfer /\ ~Fault
    BY DEF ResetTransfer, Fault, LateAnswer, TransferTimeout, Killed, Replugged
  <2>2. clean
    <3>1. CASE PingGivesUp \/ BoardGivesUp
      BY <3>1, Zenon DEF PingGivesUp, BoardGivesUp
    <3>2. CASE ~PingGivesUp /\ ~BoardGivesUp
      BY <1>3, <2>1, <3>2 DEF Next, ClientProceeds, BoardProceeds, ServerProceeds, vars
    <3> QED
      BY <3>1, <3>2
  <2>3. Standing
    BY <2>2 DEF UsbInv
  <2>4. CASE ClientProceeds
    BY <1>1, <2>3, <2>4, ClientStands DEF ClientProceeds
  <2>5. CASE BoardProceeds
    BY <1>1, <2>3, <2>5, BoardStands DEF BoardProceeds
  <2>6. CASE ServerProceeds
    BY <1>1, <2>3, <2>6, ServerStands
  <2>7. CASE PingGivesUp \/ BoardGivesUp
    BY <1>1, <2>3, <2>7, GiveUpStands
  <2>8. CASE UNCHANGED vars
    BY <2>3, <2>8, FrameStands
  <2> QED
    BY <1>3, <2>1, <2>4, <2>5, <2>6, <2>7, <2>8 DEF Next
<1> QED
  BY <1>2, <1>3

LEMMA InitStands ==
  ASSUME Init
  PROVE  UsbInv
<1>1. KindInv
  BY InitKinds
<1>2. /\ pc = "idle" /\ transfer = "none" /\ bpc = "done" /\ host /\ last = pa2 /\ done = 0
      /\ spc = "main" /\ got = <<>> /\ flag = FALSE
  BY DEF Init, ClientInit, BoardInit, ServerInit, UserportInit
<1>3. CleanInv /\ Named
  BY <1>2 DEF CleanInv, Named
<1>4. At = "idle"
  BY <1>1, <1>2, <1>3, ElsewhereView DEF Elsewhere
<1>5. Port!InStep
  BY <1>2 DEF Port!InStep, Port!ServerReady
<1>6. Port!Paired
  BY <1>4, <1>5 DEF Port!Paired, Port!Before, Port!Receiving, Port!After
<1> QED
  BY <1>1, <1>3, <1>6 DEF UsbInv, Standing, Viewing

LEMMA UsbInvariance == Spec => []UsbInv
<1>1. Init => UsbInv
  BY InitStands
<1>2. UsbInv /\ [Next]_vars => UsbInv'
  BY StepKinds, StepStands DEF UsbInv
<1> QED
  BY <1>1, <1>2, PTL DEF Spec

(* For every size of a packet and of a transfer, for all requests and all  *)
(* memories, whatever the board and its surroundings do: as long as the    *)
(* current call began in step and nothing has happened to it, the board    *)
(* and the C64 drive the data lines at the same time only where the board  *)
(* turns its port around for a ping and the server ends its last reply.    *)
THEOREM UsbDrivenFromOneEnd == Spec => []BusDiscipline
<1>1. UsbInv => BusDiscipline
  <2> SUFFICES ASSUME Standing, pcDriving, ciaDriving PROVE EndingReply
    BY DEF UsbInv, BusDiscipline
  <2>1. Port!EndingReply
    BY StandTogether, Assumptions, Port!BothDrive DEF Port!BothDrive, Assumed
  <2> QED
    BY <2>1, SameServer
<1> QED
  BY <1>1, UsbInvariance, PTL

(* As long as the current call began in step, no strobe of the board meets *)
(* one that the server has not seen, so that no byte of a transfer is lost *)
(* between the two, but for the ping after a reply.                        *)
THEOREM UsbStrobesAreSeen == Spec => NoStrobeLost
<1>1. UsbInv => (clean /\ flag /\ (PingStrobe \/ Turn \/ SendStrobe \/ ReceiveStrobe)
                  => PingStrobe /\ spc = "wrWait" /\ LastByte)
  <2> SUFFICES ASSUME Standing, flag, PingStrobe \/ Turn \/ SendStrobe \/ ReceiveStrobe
               PROVE  PingStrobe /\ spc = "wrWait" /\ LastByte
    BY DEF UsbInv
  <2>1. Viewing
    BY DEF Standing
  <2>2. PingStrobe => At = "pingStrobe"
    BY <2>1, ElsewhereView DEF PingStrobe, StrobeTransfer, Control, Viewing, Elsewhere
  <2>3. Turn => At = "turn"
    BY <2>1, ElsewhereView DEF Turn, StrobeTransfer, Control, Viewing, Elsewhere
  <2>4. SendStrobe => At = "strobe"
    <3> SUFFICES ASSUME SendStrobe PROVE At = "strobe"
      OBVIOUS
    <3>1. pc = "sending" /\ transfer = "send" /\ bpc = "strobe" /\ count # size
      BY <2>1 DEF SendStrobe, Viewing, KindInv, TypeOK, BoardTypeOK, CleanInv, BoardInv
    <3>2. WhenSending /\ SendCounts
      BY <2>1, <3>1, SendingView, SendView DEF Viewing
    <3> QED
      BY <3>1, <3>2 DEF WhenSending, SendCounts, WhileSending, AllSent, Failed
  <2>5. ReceiveStrobe => At = "rstrobe"
    <3> SUFFICES ASSUME ReceiveStrobe PROVE At = "rstrobe"
      OBVIOUS
    <3>1. pc = "receiving" /\ transfer = "receive" /\ bpc = "strobe" /\ count # size
      BY <2>1 DEF ReceiveStrobe, Viewing, KindInv, TypeOK, BoardTypeOK, CleanInv, BoardInv
    <3>2. WhenReceiving /\ ReplyCounts
      BY <2>1, <3>1, ReceivingView, ReplyView DEF Viewing
    <3> QED
      BY <3>1, <3>2 DEF WhenReceiving, ReplyCounts, WhileReceiving, AllGot, Failed
  <2>6. At = "pingStrobe" /\ spc = "wrWait" /\ Port!LastByte
    BY <2>2, <2>3, <2>4, <2>5, StandTogether, Assumptions, Port!StrobesMeet
    DEF Port!StrobesMeet, Assumed
  <2> QED
    BY <2>2, <2>3, <2>4, <2>5, <2>6, SameServer
<1> QED
  BY <1>1, UsbInvariance, PTL DEF NoStrobeLost

-----------------------------------------------------------------------------
(* What would take the server away, or leave it in the middle of a         *)
(* transfer, does not happen.                                              *)
Undisturbed ==
  /\ "mask" \notin Environment
  /\ \A r \in Calls : ~Port!Empty(r)
  /\ ServerType = "ram" => \A r \in Calls : r.op # "run"

(* Until the first fault or reset the server listens, and the strobe that  *)
(* begins a command is pending until it sees it.                           *)
Kept ==
  budget = MaxBudget =>
    /\ clean
    /\ Port!Attending
    /\ Port!FirstPending
    /\ pc # "idle" => req.op # "reset"

LEMMA Heard ==
  ASSUME Standing, Port!Attending, ServerBlocked
  PROVE  ~flag
<1>1. Port!ServerBlocked /\ spc # "boot"
  BY SameServer, StandTogether, Assumptions, Port!NotBooting DEF Port!NotBooting, Assumed
<1> QED
  BY <1>1 DEF Port!ServerBlocked, Port!Listening, Port!Attending

LEMMA BoardWaits ==
  ASSUME Undisturbed, Standing, Port!Attending, Port!FirstPending, SendTimeout \/ ReceiveTimeout,
         ServerBlocked, ~Answered
  PROVE  FALSE
<1>1. Port!Together /\ Port!ServerBlocked /\ ~flag /\ Port!Level
  BY StandTogether, SameServer, Heard DEF Answered, Port!Level
<1>2. At \in {"wait", "rwait"}
  <2>1. Viewing
    BY DEF Standing
  <2>2. CASE SendTimeout
    <3>1. pc = "sending" /\ transfer = "send" /\ bpc = "wait" /\ count # size
      BY <2>1, <2>2 DEF SendTimeout, Viewing, KindInv, TypeOK, BoardTypeOK, CleanInv, BoardInv
    <3>2. WhenSending /\ SendCounts
      BY <2>1, <3>1, SendingView, SendView DEF Viewing
    <3> QED
      BY <3>1, <3>2 DEF WhenSending, SendCounts, WhileSending, AllSent, Failed
  <2>3. CASE ReceiveTimeout
    <3>1. pc = "receiving" /\ transfer = "receive" /\ bpc = "wait" /\ count # size
      BY <2>1, <2>3 DEF ReceiveTimeout, Viewing, KindInv, TypeOK, BoardTypeOK, CleanInv, BoardInv
    <3>2. WhenReceiving /\ ReplyCounts
      BY <2>1, <3>1, ReceivingView, ReplyView DEF Viewing
    <3> QED
      BY <3>1, <3>2 DEF WhenReceiving, ReplyCounts, WhileReceiving, AllGot, Failed
  <2> QED
    BY <2>2, <2>3
<1>3. spc = "main" /\ At = "wait" /\ Sent = 0
  <2>1. Port!Waiting
    BY <1>2 DEF Port!Waiting
  <2> QED
    BY <1>1, <1>2, <2>1, Assumptions, Port!Unheard DEF Port!Unheard, Assumed
<1> QED
  BY <1>1, <1>3 DEF Port!FirstPending

LEMMA StepKept ==
  ASSUME Undisturbed, UsbInv, Kept, [Next]_vars
  PROVE  Kept'
<1> SUFFICES ASSUME budget' = MaxBudget
             PROVE  /\ clean' /\ Port!Attending' /\ Port!FirstPending'
                    /\ pc' # "idle" => req'.op # "reset"
  BY Zenon DEF Kept
<1>1. KindInv /\ KindInv' /\ budget \in 0 .. MaxBudget /\ MaxBudget \in Nat /\ req \in Calls
  BY StepKinds, BudgetAssumption DEF UsbInv, KindInv, TypeOK, ClientTypeOK, BudgetAssumption
<1>2. ~Spend
  BY <1>1 DEF Spend
<1>3. budget = MaxBudget
  BY <1>2 DEF Next, NewCall, ClientProceeds, ResetTransfer, PingGivesUp, BoardProceeds,
     BoardGivesUp, ServerProceeds, Fault, LateAnswer, TransferTimeout, Killed, Replugged, vars
<1>4. /\ clean /\ Standing /\ Viewing /\ Port!Attending /\ Port!FirstPending
      /\ pc # "idle" => req.op # "reset"
  BY <1>3 DEF Kept, UsbInv, Standing
<1>5. clean' => CleanInv' /\ Standing'
  BY StepStands DEF Standing, Viewing
<1>6. UNCHANGED server => Port!Attending'
  BY <1>4 DEF Port!Attending, Port!Handler, server
<1>7. At' # "wait" => Port!FirstPending'
  BY DEF Port!FirstPending
<1>8. clean' /\ At' = "wait" => pc' \in {"send", "sending"} /\ bpc' = "wait" /\ transfer' = "send"
  <2> SUFFICES ASSUME clean', At' = "wait"
               PROVE  pc' \in {"send", "sending"} /\ bpc' = "wait" /\ transfer' = "send"
    OBVIOUS
  <2>1. CASE pc' \in {"send", "sending"}
    BY <1>1, <1>5, <2>1, Ahead DEF WhenSending
  <2>2. CASE pc' \in {"receive", "receiving"}
    BY <1>1, <1>5, <2>2, Ahead DEF WhenReceiving
  <2>3. CASE pc' \notin {"send", "sending", "receive", "receiving"}
    <3>1. pc' \in {"idle", "open", "reset", "pingOutput", "pingWrite", "pingStrobe", "ask",
                   "output", "send", "sending", "input", "turn", "receive", "receiving",
                   "closeInput", "close"}
      BY <1>1 DEF KindInv, TypeOK, ClientTypeOK
    <3> QED
      BY <1>1, <1>5, <2>3, <3>1, Ahead DEF Elsewhere
  <2> QED
    BY <2>1, <2>2, <2>3
<1>9. CASE NewCall
  <2>1. InStep
    <3>1. pc = "idle"
      BY <1>9 DEF NewCall, Call
    <3>2. At = "idle" /\ transfer = "none"
      BY <1>4, <3>1, ElsewhereView DEF Viewing, Elsewhere
    <3>3. ~Port!Stuck
      BY <1>1 DEF Undisturbed, Port!Stuck
    <3>4. Port!InStep
      BY <1>4, <3>2, <3>3 DEF Standing, Port!Paired, Port!After
    <3> QED
      BY <3>2, <3>4, SameServer DEF InStep, Port!InStep, Answered
  <2>2. clean'
    BY <1>9, <2>1, Zenon DEF NewCall
  <2>3. req'.op # "reset" /\ pc' = "open" /\ UNCHANGED server
    BY <1>2, <1>9, <2>1 DEF NewCall, Call
  <2> QED
    BY <1>6, <1>7, <1>8, <2>2, <2>3
<1>10. CASE ClientProceeds
  <2>1. clean' /\ UNCHANGED server /\ ClientStep
    BY <1>4, <1>10 DEF ClientProceeds
  <2>2. ~(transfer' = "send" /\ bpc' = "wait" /\ pc' \in {"send", "sending"})
    <3>1. ClientStep /\ pc' \in {"send", "sending"} => Output \/ Send \/ SendReport
      BY DEF ClientStep, Open, OpenFails, PingOutput, PingWrite, PingStrobe, Acked, Input, Turn,
         Receive, ReceiveReport, CloseInput, Close, Gone, Over, InputTransfer, OutputTransfer,
         StrobeTransfer, Control
    <3>2. Output => transfer' = "none"
      BY DEF Output, OutputTransfer, Control, board
    <3>3. Send => bpc' \in {"done", "byte"}
      BY DEF Send, Begin
    <3>4. SendReport => transfer' = "none"
      BY DEF SendReport, Release
    <3> QED
      BY <2>1, <3>1, <3>2, <3>3, <3>4
  <2>3. pc' # "idle" => req'.op # "reset"
    BY <1>4, <1>10 DEF ClientProceeds, ClientStep, Open, OpenFails, PingOutput, PingWrite,
       PingStrobe, Acked, Output, Send, SendReport, Input, Turn, Receive, ReceiveReport,
       CloseInput, Close, Gone, Over, InputTransfer, OutputTransfer, StrobeTransfer, Control, call
  <2> QED
    BY <1>6, <1>7, <1>8, <2>1, <2>2, <2>3
<1>11. CASE BoardProceeds
  <2>1. clean' /\ UNCHANGED << server, client >> /\ BoardStep
    BY <1>4, <1>11 DEF BoardProceeds
  <2>2. transfer' = "send" /\ bpc' = "wait" => flag'
    <3>1. SendByte => bpc' = "strobe"
      BY DEF SendByte
    <3>2. SendStrobe => flag'
      BY DEF SendStrobe, strobe
    <3>3. SendAcked => bpc' # "wait"
      BY DEF SendAcked
    <3>4. Offered \/ ReceiveByte \/ ReceiveStrobe => transfer' = "receive"
      BY DEF Offered, ReceiveByte, ReceiveStrobe
    <3>5. Forget \/ WatchdogReset => transfer' = "none"
      BY DEF Forget, WatchdogReset, PowerUp, Release
    <3> QED
      BY <2>1, <3>1, <3>2, <3>3, <3>4, <3>5 DEF BoardStep
  <2>3. Port!FirstPending'
    BY <1>7, <1>8, <2>1, <2>2 DEF Port!FirstPending
  <2> QED
    BY <1>4, <1>6, <2>1, <2>3 DEF client
<1>12. CASE PingGivesUp
  <2>1. ~flag /\ UNCHANGED server /\ req' = req /\ pc' = "closeInput" /\ pc = "ask"
    BY <1>4, <1>12, Heard DEF PingGivesUp, GiveUp, call
  <2>2. clean'
    BY <1>4, <1>12, <2>1, Zenon DEF PingGivesUp
  <2> QED
    BY <1>4, <1>6, <1>7, <1>8, <2>1, <2>2
<1>13. ~BoardGivesUp
  BY <1>4, BoardWaits DEF BoardGivesUp
<1>14. ~ResetTransfer
  BY <1>1, <1>4 DEF ResetTransfer, KindInv, CallInv
<1>15. ~Fault
  BY <1>2 DEF Fault, LateAnswer, TransferTimeout, Killed, Replugged
<1>16. CASE ServerProceeds
  <2>1. clean' /\ req' = req /\ pc' = pc
    BY <1>4, <1>16 DEF ServerProceeds, client
  <2>2. Port!Keeping /\ Port!ServerStep
    <3>1. UNCHANGED << At, Sent, Got, Result, req, last >>
      BY <1>16 DEF ServerProceeds, board, client, At, Sent, Got, Result, WhileSending,
         WhileReceiving, AllSent, AllGot, Failed, SentNow, GotNow, Whole, Base, Total
    <3>2. done' = IF Port!Commits THEN done + 1 ELSE done
      BY <1>16, SameSteps DEF ServerProceeds
    <3> QED
      BY <1>16, <3>1, <3>2, SameSteps DEF ServerProceeds, Port!Keeping, Port!client
  <2>3. Port!Together
    BY <1>4, StandTogether
  <2>4. "mask" \notin Environment /\ (ServerType = "ram" => req.op # "run")
    BY <1>1 DEF Undisturbed
  <2>5. Port!Attending'
    BY <1>4, <2>2, <2>3, <2>4, Assumptions, Port!StepAttending DEF Port!StepAttending, Assumed
  <2>6. Port!FirstPending'
    BY <1>4, <2>2, <2>3, Assumptions, Port!StaysPending DEF Port!StaysPending, Assumed
  <2> QED
    BY <1>4, <2>1, <2>5, <2>6
<1>17. CASE UNCHANGED vars
  <2>1. UNCHANGED << userport, board, client, server, clean >>
    BY <1>17 DEF vars
  <2>2. Port!FirstPending'
    <3>1. UNCHANGED << At, Sent, spc, pa2, last, flag >>
      BY <2>1 DEF board, client, userport, server, At, Sent, WhileSending,
         WhileReceiving, AllSent, AllGot, Failed, SentNow, GotNow, Whole, Base, Total
    <3> QED
      BY <1>4, <3>1 DEF Port!FirstPending, Port!Level
  <2> QED
    BY <1>4, <1>6, <2>1, <2>2 DEF client
<1> QED
  BY <1>9, <1>10, <1>11, <1>12, <1>13, <1>14, <1>15, <1>16, <1>17 DEF Next

(* For any sequence of calls, failed ones included: unless a fault or a    *)
(* reset intervenes, the board is free between two of them, what it        *)
(* remembers of PA2 is true, and the server is where the next call needs   *)
(* it.  Until then, no timeout of the board ends a transfer.               *)
THEOREM UsbStaysInStep ==
  ASSUME Undisturbed
  PROVE  Spec => []NeverOutOfStep
<1>1. Init => Kept
  <2> SUFFICES ASSUME Init PROVE Kept
    OBVIOUS
  <2>1. /\ pc = "idle" /\ clean /\ vector = Handler /\ ~masked /\ spc = "main"
    BY DEF Init, ClientInit, ServerInit
  <2>2. At = "idle"
    BY <2>1, InitStands, ElsewhereView DEF UsbInv, Standing, Viewing, Elsewhere
  <2> QED
    BY <2>1, <2>2, SameServer DEF Kept, Port!Attending, Port!FirstPending
<1>2. UsbInv /\ Kept /\ [Next]_vars => Kept'
  BY StepKept
<1>3. UsbInv /\ Kept => NeverOutOfStep
  <2> SUFFICES ASSUME UsbInv, Kept, budget = MaxBudget PROVE clean /\ (pc = "idle" => InStep)
    BY DEF NeverOutOfStep
  <2>1. clean /\ Standing /\ Viewing
    BY DEF Kept, UsbInv, Standing
  <2>2. ASSUME pc = "idle" PROVE InStep
    <3>1. At = "idle" /\ transfer = "none"
      BY <2>1, <2>2, ElsewhereView DEF Viewing, Elsewhere
    <3>2. ~Port!Stuck
      BY <2>1 DEF Undisturbed, Port!Stuck, Viewing, KindInv, TypeOK, ClientTypeOK
    <3>3. Port!InStep
      BY <2>1, <3>1, <3>2 DEF Standing, Port!Paired, Port!After
    <3> QED
      BY <3>1, <3>3, SameServer DEF InStep, Port!InStep, Answered
  <2> QED
    BY <2>1, <2>2
<1> QED
  BY <1>1, <1>2, <1>3, UsbInvariance, PTL DEF Spec

-----------------------------------------------------------------------------
(* What a caller sees of the two ends is the same, seen from either driver. *)
LEMMA SameStore ==
  /\ Port!Store = Store /\ Port!Entry = Entry
  /\ \A r, n : Port!LoadsBasic(r, n) <=> LoadsBasic(r, n)
  /\ Port!NoCall = NoCall
<1>1. Port!RelinkDue <=> RelinkDue
  BY SameHelpers, SameServer DEF Port!RelinkDue, RelinkDue
<1>2. Port!Store = Store
  BY <1>1, SameHelpers, SameServer DEF Port!Store, Store, Port!bend, bend
<1>3. Port!Entry = Entry
  BY SameServer DEF Port!Entry, Entry
<1>4. \A r, n : Port!LoadsBasic(r, n) <=> LoadsBasic(r, n)
  BY <1>2, SameHelpers DEF Port!LoadsBasic, LoadsBasic, Port!bstart, bstart
<1>5. Port!NoCall = NoCall
  BY DEF Port!NoCall, NoCall, Port!Request, Request
<1> QED
  BY <1>2, <1>3, <1>4, <1>5

(* The variables of RemoteMemory as USB maps them; the parallel port maps  *)
(* them alike.                                                             *)
BasicNow == pc # "idle" /\ LoadsBasic(req, done)
CallNow  == IF pc = "idle" THEN NoCall ELSE req
DoneNow  == IF pc = "idle" THEN 0 ELSE done
ReplyNow == IF transfer = "receive" /\ host THEN got \o bytes ELSE got
Outcome  == pc = "idle" /\ result

SeenAlike ==
  /\ Port!Store = Store /\ Port!Entry = Entry
  /\ (At # "idle" /\ Port!LoadsBasic(req, done)) = BasicNow
  /\ (IF At = "idle" THEN Port!NoCall ELSE req) = CallNow
  /\ (IF At = "idle" THEN 0 ELSE done) = DoneNow
  /\ Got = ReplyNow
  /\ (At = "idle" /\ Result) = Outcome

LEMMA CallSeen ==
  ASSUME KindInv, CleanInv
  PROVE  SeenAlike
<1>1. Got = ReplyNow
  BY DEF CleanInv, Got, ReplyNow
<1>2. At = "idle" <=> pc = "idle"
  <2>1. CASE pc \in {"send", "sending"}
    BY <2>1, SendingView DEF WhenSending
  <2>2. CASE pc \in {"receive", "receiving"}
    BY <2>2, ReceivingView DEF WhenReceiving
  <2>3. CASE pc \notin {"send", "sending", "receive", "receiving"}
    BY <2>3, ElsewhereView DEF Elsewhere
  <2> QED
    BY <2>1, <2>2, <2>3
<1>3. (At # "idle" /\ Port!LoadsBasic(req, done)) = BasicNow
  BY <1>2, SameStore, Zenon DEF BasicNow
<1>4. (At = "idle" /\ Result) = Outcome
  <2>1. CASE pc = "idle"
    <3>1. Result = result
      BY <2>1, ElsewhereView DEF Elsewhere
    <3> QED
      BY <1>2, <3>1, Zenon DEF Outcome
  <2>2. CASE pc # "idle"
    BY <1>2, <2>2, Zenon DEF Outcome
  <2> QED
    BY <2>1, <2>2
<1> QED
  BY <1>1, <1>2, <1>3, <1>4, SameStore DEF SeenAlike, CallNow, DoneNow

LEMMA CallSeenNext == (KindInv /\ CleanInv => SeenAlike)'
<1>1. KindInv /\ CleanInv => SeenAlike
  BY CallSeen
<1> QED
  BY <1>1, PTL

(* Both mappings speak of the same memory. *)
LEMMA SameMemory ==
  /\ Port!Remote!NoCall = Remote!NoCall
  /\ \A a : Port!Remote!Wrap(a) = Remote!Wrap(a)
  /\ \A m, a : Port!Remote!Cell(m, a) = Remote!Cell(m, a)
  /\ \A m, a, v : Port!Remote!Put(m, a, v) = Remote!Put(m, a, v)
  /\ \A m, a, w : Port!Remote!PutWord(m, a, w) = Remote!PutWord(m, a, w)
  /\ \A m, a : Port!Remote!CellWord(m, a) = Remote!CellWord(m, a)
<1>1. Port!Remote!NoCall = Remote!NoCall
  BY DEF Port!Remote!NoCall, Remote!NoCall, Port!Remote!Request, Remote!Request
<1>2. \A a : Port!Remote!Wrap(a) = Remote!Wrap(a)
  BY DEF Port!Remote!Wrap, Remote!Wrap, Port!Remote!AddressSpace, Remote!AddressSpace
<1>3. \A m, a : Port!Remote!Cell(m, a) = Remote!Cell(m, a)
  BY DEF Port!Remote!Cell, Remote!Cell
<1>4. \A m, a, v : Port!Remote!Put(m, a, v) = Remote!Put(m, a, v)
  BY DEF Port!Remote!Put, Remote!Put
<1>5. \A w : Port!Remote!lo(w) = Remote!lo(w) /\ Port!Remote!hi(w) = Remote!hi(w)
  BY DEF Port!Remote!lo, Remote!lo, Port!Remote!hi, Remote!hi
<1>6. \A m, a, w : Port!Remote!PutWord(m, a, w) = Remote!PutWord(m, a, w)
  BY <1>2, <1>4, <1>5 DEF Port!Remote!PutWord, Remote!PutWord
<1>7. \A m, a : Port!Remote!CellWord(m, a) = Remote!CellWord(m, a)
  BY <1>2, <1>3 DEF Port!Remote!CellWord, Remote!CellWord, Port!Remote!Word, Remote!Word
<1> QED
  BY <1>1, <1>2, <1>3, <1>4, <1>6, <1>7

(* So a step that the parallel port promises is one that USB promises.     *)
LEMMA SamePromise ==
  ASSUME SeenAlike, SeenAlike', [Port!Remote!Proceed]_(Port!Remote!vars)
  PROVE  [Remote!Proceed]_(Remote!vars)
<1> DEFINE Written == Remote!Put(Store, Remote!Wrap(CallNow.at + DoneNow), CallNow.writes[DoneNow'])
<1>1. CASE UNCHANGED Port!Remote!vars
  <2>1. UNCHANGED << Store, Entry, BasicNow, CallNow, DoneNow, ReplyNow, Outcome, clean >>
    BY <1>1 DEF Port!Remote!vars, SeenAlike
  <2> QED
    BY <2>1 DEF Remote!vars, BasicNow, CallNow, DoneNow, ReplyNow, Outcome
<1>2. CASE Port!Remote!WriteCell
  <2>1. /\ DoneNow < Len(CallNow.writes) /\ DoneNow' = DoneNow + 1
        /\ Store' = IF BasicNow /\ DoneNow' = Len(CallNow.writes)
                    THEN Remote!PutWord(Written, 45, Remote!Wrap(CallNow.at + DoneNow'))
                    ELSE Written
        /\ UNCHANGED << Entry, BasicNow, CallNow, ReplyNow, Outcome >>
    BY <1>2, SameMemory DEF Port!Remote!WriteCell, SeenAlike
  <2>2. Remote!WriteCell
    BY <2>1 DEF Remote!WriteCell, BasicNow, CallNow, DoneNow, ReplyNow, Outcome
  <2> QED
    BY <2>2 DEF Remote!Proceed
<1>3. CASE Port!Remote!ReadCell
  <2>1. /\ CallNow.op \in {"save", "peek"} /\ Len(ReplyNow) < CallNow.want
        /\ ReplyNow' = Append(ReplyNow,
                              Remote!Cell(Store, Remote!Wrap(CallNow.at + Len(ReplyNow))))
        /\ UNCHANGED << Store, Entry, BasicNow, CallNow, DoneNow, Outcome >>
    BY <1>3, SameMemory DEF Port!Remote!ReadCell, SeenAlike
  <2>2. Remote!ReadCell
    BY <2>1 DEF Remote!ReadCell, BasicNow, CallNow, DoneNow, ReplyNow, Outcome
  <2> QED
    BY <2>2 DEF Remote!Proceed
<1>4. CASE Port!Remote!ReadIdentification
  <2>1. /\ CallNow.op = "identify" /\ Len(ReplyNow) < Len(Info(Store))
        /\ ReplyNow' = Append(ReplyNow, Info(Store)[Len(ReplyNow) + 1])
        /\ UNCHANGED << Store, Entry, BasicNow, CallNow, DoneNow, Outcome >>
    BY <1>4, SameHelpers DEF Port!Remote!ReadIdentification, SeenAlike
  <2>2. Remote!ReadIdentification
    BY <2>1 DEF Remote!ReadIdentification, BasicNow, CallNow, DoneNow, ReplyNow, Outcome
  <2> QED
    BY <2>2 DEF Remote!Proceed
<1>5. CASE Port!Remote!HandControl
  <2>1. /\ CallNow.op \in {"jump", "inject", "run"} /\ DoneNow = 0 /\ DoneNow' = 1
        /\ Entry' = [kind |-> CallNow.op, at |-> CallNow.at]
        /\ UNCHANGED << Store, BasicNow, CallNow, ReplyNow, Outcome >>
    BY <1>5 DEF Port!Remote!HandControl, SeenAlike
  <2>2. Remote!HandControl
    BY <2>1 DEF Remote!HandControl, BasicNow, CallNow, DoneNow, ReplyNow, Outcome
  <2> QED
    BY <2>2 DEF Remote!Proceed
<1>6. ASSUME NEW ok \in BOOLEAN, Port!Remote!Return(ok)
      PROVE  Remote!Proceed
  <2>1. Port!Remote!Complete <=> Remote!Complete
    BY SameHelpers DEF Port!Remote!Complete, Remote!Complete, SeenAlike, BasicNow, CallNow,
       DoneNow, ReplyNow, Outcome
  <2>2. /\ CallNow # Remote!NoCall
        /\ IF ok THEN Remote!Complete ELSE DoneNow = 0 /\ ReplyNow = <<>>
        /\ Outcome' = ok /\ CallNow' = Remote!NoCall /\ BasicNow' = FALSE
        /\ DoneNow' = 0 /\ ReplyNow' = <<>> /\ UNCHANGED << Store, Entry >>
    BY <1>6, <2>1, SameMemory DEF Port!Remote!Return, SeenAlike
  <2>3. Remote!Return(ok)
    BY <2>2 DEF Remote!Return, BasicNow, CallNow, DoneNow, ReplyNow, Outcome
  <2> QED
    BY <2>3 DEF Remote!Proceed
<1>7. ASSUME Port!Remote!Begin,
             (IF At = "idle" THEN Port!NoCall ELSE req) = Port!Remote!NoCall
      PROVE  Remote!Proceed
  <2>1. /\ CallNow = Remote!NoCall /\ CallNow' \in Calls
        /\ BasicNow' = (CallNow'.op = "load" /\ CallNow'.at = Remote!CellWord(Store, 43))
        /\ DoneNow' = 0 /\ ReplyNow' = <<>> /\ Outcome' = FALSE
        /\ UNCHANGED << Store, Entry >>
    BY <1>7, SameMemory DEF Port!Remote!Begin, SeenAlike
  <2>2. Remote!Begin
    BY <2>1 DEF Remote!Begin, BasicNow, CallNow, DoneNow, ReplyNow, Outcome
  <2> QED
    BY <2>1, <2>2 DEF Remote!Proceed, CallNow
<1> QED
  BY <1>1, <1>2, <1>3, <1>4, <1>5, <1>6, <1>7 DEF Port!Remote!Proceed

-----------------------------------------------------------------------------
LEMMA InitPromised == Init => Remote!Init
<1> SUFFICES ASSUME Init PROVE Remote!Init
  OBVIOUS
<1>1. Remote!NoCall = NoCall
  BY DEF Remote!NoCall, NoCall, Remote!Request, Request
<1>2. spc = "main" /\ pc = "idle" /\ got = <<>> /\ transfer = "none" /\ result = FALSE
  BY DEF Init, ClientInit, BoardInit, ServerInit
<1>3. Store = InitMem /\ Entry = [kind |-> "none", at |-> 0]
  BY <1>2 DEF Init, ServerInit, Store, RelinkDue, Entry
<1>4. (pc # "idle" /\ LoadsBasic(req, done)) = FALSE /\ (pc = "idle" /\ result) = FALSE
  BY <1>2, Zenon
<1> QED
  BY <1>1, <1>2, <1>3, <1>4 DEF Remote!Init, Init

(* What a caller would not notice. *)
LEMMA CallHides ==
  ASSUME SeenAlike, SeenAlike', pc # "idle", pc' # "idle", Got' = Got,
         UNCHANGED << req, server, done, clean >>
  PROVE  UNCHANGED Remote!vars
<1>1. Store' = Store /\ Entry' = Entry /\ isBasic' = isBasic
  BY DEF server, Store, RelinkDue, TransferEnd, Entry
<1>2. LoadsBasic(req, done)' <=> LoadsBasic(req, done)
  BY <1>1 DEF LoadsBasic
<1>3. ReplyNow' = ReplyNow
  BY DEF SeenAlike
<1>4. UNCHANGED << BasicNow, CallNow, DoneNow, Outcome >>
  <2>1. BasicNow' = BasicNow
    BY <1>2, Zenon DEF BasicNow
  <2>2. Outcome' = Outcome
    BY Zenon DEF Outcome
  <2> QED
    BY <2>1, <2>2 DEF CallNow, DoneNow
<1> QED
  BY <1>1, <1>3, <1>4 DEF Remote!vars, BasicNow, CallNow, DoneNow, ReplyNow, Outcome

LEMMA PortInvariant ==
  ASSUME Standing
  PROVE  Port!IndInv
BY Viewed DEF Standing, Port!IndInv

(* A step that the parallel port takes as well does what that promises. *)
LEMMA MovePromised ==
  ASSUME Standing, SeenAlike, SeenAlike', Port!ClientStep,
         UNCHANGED << server, clean, done, budget >>, clean
  PROVE  [Remote!Proceed]_(Remote!vars)
<1>1. Port!ClientProceeds
  BY DEF Port!ClientProceeds, server, Port!server
<1>2. [Port!Remote!Proceed]_(Port!Remote!vars)
  BY <1>1, PortInvariant, Assumptions, Port!ClientImplements DEF Port!ClientImplements, Assumed
<1> QED
  BY <1>2, SamePromise

(* Each step of the driver, ... *)
LEMMA ClientPromised ==
  ASSUME Standing, Standing', SeenAlike, SeenAlike', ClientProceeds, clean
  PROVE  [Remote!Proceed]_(Remote!vars)
<1>1. ClientStep /\ UNCHANGED << server, clean, done, budget >>
  BY DEF ClientProceeds
<1>2. Viewing /\ KindInv' /\ CleanInv' /\ ~Gone
  BY DEF Standing, Viewing, CleanInv, Gone
<1>3. CASE OpenFails \/ PingOutput \/ PingWrite \/ PingStrobe \/ Acked \/ Close
  BY <1>1, <1>2, <1>3, PreparingMoves, MovePromised
<1>4. CASE Output \/ Turn
  BY <1>1, <1>2, <1>4, OutputMoves, TurnMoves, MovePromised
<1>5. CASE Open \/ Input \/ CloseInput
  <2>1. pc # "idle" /\ pc' # "idle" /\ req' = req
    BY <1>5 DEF Open, Input, CloseInput, InputTransfer, Control, call
  <2>2. Got' = Got
    <3>1. /\ pc \notin {"send", "sending", "receive", "receiving"}
          /\ pc' \notin {"send", "sending", "receive", "receiving"} /\ got' = got
      BY <1>5 DEF Open, Input, CloseInput, InputTransfer, Control, call
    <3> QED
      BY <1>2, <3>1, ElsewhereView, Ahead DEF Elsewhere, Viewing
  <2> QED
    BY <1>1, <2>1, <2>2, CallHides
<1>6. CASE Send \/ Receive \/ SendReport \/ ReceiveReport
  <2>1. pc # "idle" /\ pc' # "idle"
    BY <1>6 DEF Send, Receive, SendReport, ReceiveReport
  <2>2. Silent
    BY <1>2, <1>6, HandOverMoves, SendReportMoves, ReceiveReportMoves
  <2> QED
    BY <1>1, <2>1, <2>2, CallHides DEF Silent
<1> QED
  BY <1>1, <1>2, <1>3, <1>4, <1>5, <1>6 DEF ClientStep

(* ... of the board ... *)
LEMMA BoardPromised ==
  ASSUME Standing, Standing', SeenAlike, SeenAlike', BoardProceeds, clean
  PROVE  [Remote!Proceed]_(Remote!vars)
<1>1. BoardStep /\ UNCHANGED << client, server, clean, done, budget >>
  BY DEF BoardProceeds
<1>2. Viewing /\ KindInv' /\ CleanInv' /\ Named' /\ ~Forget /\ ~WatchdogReset
  BY DEF Standing, Viewing, CleanInv, Forget, WatchdogReset
<1>3. Port!ClientStep
  BY <1>1, <1>2, SendMoves, ReceiveMoves, ReceiveStrobeMoves DEF BoardStep
<1> QED
  BY <1>1, <1>3, MovePromised

(* ... and of the server is one that RemoteMemory promises, ... *)
LEMMA ServerPromised ==
  ASSUME Standing, SeenAlike, SeenAlike', ServerProceeds, clean
  PROVE  [Remote!Proceed]_(Remote!vars)
<1>1. ServerStep /\ UNCHANGED << board, client >> /\ clean' = clean
  BY DEF ServerProceeds
<1>2. UNCHANGED << At, Sent, Got, Result, req, last >>
  BY <1>1 DEF board, client, At, Sent, Got, Result, WhileSending, WhileReceiving, AllSent, AllGot,
     Failed, SentNow, GotNow, Whole, Base, Total
<1>3. Port!Keeping /\ Port!ServerStep
  <2>1. done' = IF Port!Commits THEN done + 1 ELSE done
    BY SameSteps DEF ServerProceeds
  <2> QED
    BY <1>1, <1>2, <2>1, SameSteps DEF Port!Keeping, Port!client
<1>4. [Port!Remote!Proceed]_(Port!Remote!vars)
  BY <1>1, <1>3, PortInvariant, Assumptions, Port!ServerImplements
  DEF Port!ServerImplements, Assumed
<1> QED
  BY <1>4, SamePromise

(* ... and giving up shows only when the call returns. *)
LEMMA GiveUpHides ==
  ASSUME Standing, SeenAlike, SeenAlike', PingGivesUp \/ BoardGivesUp, clean, clean'
  PROVE  UNCHANGED Remote!vars
<1>1. UNCHANGED << req, got, transfer, bytes, host, server, done >> /\ pc # "idle" /\ pc' # "idle"
  <2>1. CASE PingGivesUp
    BY <2>1 DEF PingGivesUp, GiveUp, board, call
  <2>2. CASE BoardGivesUp
    <3>1. /\ UNCHANGED << client, server, done >>
          /\ SendTimeout \/ ReceiveTimeout
      BY <2>2 DEF BoardGivesUp
    <3>2. pc # "idle"
      BY <3>1 DEF SendTimeout, ReceiveTimeout, Standing, Viewing, CleanInv
    <3> QED
      BY <3>1, <3>2 DEF client, SendTimeout, ReceiveTimeout
  <2> QED
    BY <2>1, <2>2
<1>2. Got' = Got
  BY <1>1 DEF Got
<1>3. clean' = clean
  <2>1. clean \in BOOLEAN /\ clean' \in BOOLEAN
    BY Zenon DEF Standing, Viewing, KindInv, TypeOK, PingGivesUp, BoardGivesUp
  <2> QED
    BY <2>1, Zenon
<1> QED
  BY <1>1, <1>2, <1>3, CallHides

(* A call begins. *)
LEMMA CallPromised ==
  ASSUME KindInv, NewCall, clean'
  PROVE  Remote!Begin /\ CallNow = Remote!NoCall
<1>1. InStep
  BY Zenon DEF NewCall
<1>2. /\ pc = "idle" /\ pc' = "open" /\ req' \in Calls /\ done' = 0
      /\ transfer' = "none" /\ got' = <<>> /\ UNCHANGED server
  BY <1>1 DEF NewCall, Call, InStep, board, KindInv, CallInv, Preparing
<1>3. Store' = Store /\ Entry' = Entry
  BY <1>2 DEF server, Store, RelinkDue, TransferEnd, Entry
<1>4. Remote!NoCall = NoCall /\ \A m, a : Remote!CellWord(m, a) = CellWord(m, a)
  BY DEF Remote!NoCall, NoCall, Remote!Request, Request, Remote!CellWord, CellWord, Remote!Word,
     Word, Remote!Cell, Cell, Remote!Wrap, Wrap, Remote!AddressSpace, AddressSpace
<1>5. BasicNow' = (req'.op = "load" /\ req'.at = Remote!CellWord(Store, 43))
  <2>1. LoadsBasic(req, done)' <=> (req'.op = "load" /\ req'.at = Remote!CellWord(Store, 43))
    BY <1>2, <1>3, <1>4 DEF LoadsBasic, bstart
  <2> QED
    BY <1>2, <2>1, Zenon DEF BasicNow
<1>6. Outcome' = FALSE
  BY <1>2, Zenon DEF Outcome
<1>7. CallNow' = req' /\ DoneNow' = 0 /\ ReplyNow' = <<>> /\ CallNow = Remote!NoCall
  BY <1>2, <1>4 DEF CallNow, DoneNow, ReplyNow
<1>8. Remote!Begin
  BY <1>2, <1>3, <1>5, <1>6, <1>7 DEF Remote!Begin, BasicNow, CallNow, DoneNow, ReplyNow, Outcome
<1> QED
  BY <1>7, <1>8

LEMMA StepPromised ==
  ASSUME UsbInv, [Next]_vars
  PROVE  [Remote!Next]_(Remote!vars)
<1>1. CASE ~clean'
  BY <1>1 DEF Remote!Next
<1>2. CASE NewCall /\ clean'
  <2>1. Remote!Begin /\ CallNow = Remote!NoCall
    BY <1>2, CallPromised DEF UsbInv
  <2> QED
    BY <1>2, <2>1 DEF Remote!Next, Remote!Proceed, CallNow
<1>3. CASE ~NewCall /\ clean'
  <2>1. \/ ClientProceeds \/ PingGivesUp \/ BoardProceeds \/ BoardGivesUp \/ ServerProceeds
        \/ UNCHANGED vars
    BY <1>3 DEF Next, ResetTransfer, Fault, LateAnswer, TransferTimeout, Killed, Replugged
  <2>2. clean
    <3>1. PingGivesUp \/ BoardGivesUp => clean
      BY <1>3, Zenon DEF PingGivesUp, BoardGivesUp
    <3> QED
      BY <1>3, <2>1, <3>1 DEF ClientProceeds, BoardProceeds, ServerProceeds, vars
  <2>3. Standing /\ Standing'
    BY <1>3, <2>2, StepStands DEF UsbInv
  <2>4. SeenAlike /\ SeenAlike'
    BY <2>3, CallSeen, CallSeenNext DEF Standing, Viewing
  <2>5. [Remote!Proceed]_(Remote!vars)
    <3>1. CASE UNCHANGED vars
      <4>1. UNCHANGED << client, board, server, clean, done >>
        BY <3>1 DEF vars
      <4>2. UNCHANGED << Store, Entry, BasicNow, CallNow, DoneNow, ReplyNow, Outcome >>
        <5>1. Store' = Store /\ Entry' = Entry
          BY <4>1 DEF server, Store, RelinkDue, TransferEnd, Entry
        <5>2. CallNow' = CallNow /\ DoneNow' = DoneNow /\ ReplyNow' = ReplyNow
          BY <4>1 DEF client, board, CallNow, DoneNow, ReplyNow
        <5>3. LoadsBasic(req, done)' <=> LoadsBasic(req, done)
          BY <4>1, <5>1 DEF client, server, LoadsBasic
        <5>4. BasicNow' = BasicNow /\ Outcome' = Outcome
          BY <4>1, <5>3, Zenon DEF client, BasicNow, Outcome
        <5> QED
          BY <5>1, <5>2, <5>4
      <4> QED
        BY <4>1, <4>2 DEF Remote!vars, BasicNow, CallNow, DoneNow, ReplyNow, Outcome
    <3> QED
      BY <1>3, <2>1, <2>2, <2>3, <2>4, <3>1, ClientPromised, BoardPromised, ServerPromised,
         GiveUpHides
  <2> QED
    BY <1>3, <2>2, <2>5 DEF Remote!Next
<1> QED
  BY <1>1, <1>2, <1>3

(* For every size of a packet and of a transfer, for all requests and all  *)
(* memories, whatever the board and its surroundings do: as long as the    *)
(* current call began in step and nothing has happened to it, each step of *)
(* driver, board and server writes the next cell, reads the next byte of   *)
(* the reply, hands control over, begins or ends a call, or changes        *)
(* nothing a caller can see, as over the parallel port.                    *)
THEOREM UsbImplementation == Spec => Implements
<1>1. Init => Remote!Init
  BY InitPromised
<1>2. UsbInv /\ [Next]_vars => [Remote!Next]_(Remote!vars)
  BY StepPromised
<1> QED
  BY <1>1, <1>2, UsbInvariance, PTL DEF Spec, Implements, Remote!Spec
=============================================================================
