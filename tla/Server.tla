------------------------------- MODULE Server -------------------------------
(***************************************************************************)
(* The server on the C64, in RAM (server64.asm) or in the patched KERNAL   *)
(* (kernal64.asm).  It is the head of the interrupt handler: when FLAG is  *)
(* set it takes one command byte and serves the whole command before it    *)
(* goes on to the system's own handler.  Inside a command it polls FLAG    *)
(* for ever; interrupts are masked, there is no timeout and no way out     *)
(* but a reset.  One action here is one access to the user port, with the  *)
(* computation that follows it.                                            *)
(***************************************************************************)
EXTENDS Userport

CONSTANTS
  ServerType,     \* "ram" or "rom"
  ServerStart,    \* where a RAM server was loaded, and its handler's address
  ServerEnd,
  InitMem,        \* memory after power-up: the cells a run cares about
  Environment     \* what may happen besides the protocol (see XLink)

ASSUME ServerAssumption ==
  /\ ServerType \in {"ram", "rom"}
  /\ ServerStart \in Address
  /\ ServerEnd \in Address

ASSUME MemoryAssumption == IsMemory(InitMem)

ASSUME EnvironmentAssumption ==
  Environment \subseteq {"late", "kill", "power", "mask"}

sysirq == Word(49, 234)  \* $ea31, where the ROM server hooks in
bstart == 43             \* $2b: start of BASIC program text
bend   == 45             \* $2d: end of BASIC program text
memtop == 643            \* $0283: top of lower memory area

(* What the variables below stand for is itself in memory: the transfer    *)
(* addresses ($c1 to $c4), memory and bank ($fe, $ff), the stack and the   *)
(* code copied to $0100, the vector at $0314, the processor port, the      *)
(* registers of CIA 2 and a RAM server's own code.  A request that touches *)
(* these cells may do anything to the server and is left out.              *)
OwnCells ==
  {1} \cup 193 .. 196 \cup 254 .. 511 \cup {788, 789} \cup 56576 .. 56591
  \cup IF ServerType = "ram" THEN {a \in Address : ServerStart <= a /\ a < ServerEnd}
                             ELSE {}

LeavesServer(r) == Touched(r) \cap OwnCells = {}

VARIABLES
  spc,          \* where the server is
  scmd,         \* the command byte it fetched
  hdr,          \* the header bytes read so far
  cursor,       \* start: the address of the next byte of a transfer
  sidx,         \* bytes of the identification sent so far
  isBasic,      \* what checkBasic pushed on the stack
  mem,          \* memory
  entry,        \* the code that control was last handed to
  vector,       \* the interrupt vector at $0314
  masked        \* has the program in the foreground masked interrupts?

server == << spc, scmd, hdr, cursor, sidx, isBasic, mem, entry, vector, masked >>

ServerPC == {"main", "boot", "fetch", "ack", "rdWait", "rdLatch", "rdAck",
             "pokeStore", "jump", "inject", "run", "ldWait", "ldLatch", "ldAck",
             "ldNext", "outWait", "outDir", "put", "wrStrobe", "wrWait", "input"}

ServerTypeOK ==
  /\ spc \in ServerPC
  /\ scmd \in Byte
  /\ hdr \in Seq(Byte)
  /\ cursor \in Address
  /\ sidx \in Nat
  /\ isBasic \in BOOLEAN
  /\ IsMemory(mem)
  /\ entry \in [kind : {"none", "jump", "inject", "run"}, at : Address]
  /\ vector \in Address
  /\ masked \in BOOLEAN

(* The vector of an installed server: `install' stores the RAM server's    *)
(* own handler, the ROM server is what the system's handler starts with.   *)
Handler == IF ServerType = "ram" THEN ServerStart ELSE sysirq

Listening == spc = "main" /\ vector = Handler /\ ~masked

(* Header bytes of a command, the value of a poke included. *)
HeaderLength(cmd) ==
  CASE cmd \in {LoadCmd, SaveCmd} -> 6
    [] cmd = PokeCmd              -> 5
    [] cmd \in {PeekCmd, JumpCmd} -> 4
    [] cmd = InjectCmd            -> 2
    [] OTHER                      -> 0

(* Where the handler goes after the command byte, ... *)
Dispatch(cmd) ==
  CASE HeaderLength(cmd) > 0 -> "rdWait"
    [] cmd = RunCmd          -> "run"
    [] cmd = IdentifyCmd     -> "outWait"
    [] OTHER                 -> "main"

(* ... and where it goes after the last header byte. *)
Body(cmd) ==
  CASE cmd = LoadCmd   -> "ldWait"
    [] cmd = SaveCmd   -> "outWait"
    [] cmd = PokeCmd   -> "pokeStore"
    [] cmd = PeekCmd   -> "outWait"
    [] cmd = JumpCmd   -> "jump"
    [] cmd = InjectCmd -> "inject"

TransferStart == Word(hdr[3], hdr[4])
TransferEnd   == Word(hdr[5], hdr[6])

(* The Server block of the image, in the order `identify' sends it. *)
Info(m) ==
  << 5, 88, 76, 73, 78, 75, 16, 0, IF ServerType = "ram" THEN 0 ELSE 1,
     lo(ServerStart), hi(ServerStart), lo(ServerEnd), hi(ServerEnd),
     Cell(m, memtop), Cell(m, memtop + 1) >>

(* Mutant of Target: the two address bytes are popped the other way round. *)
TargetMutant(cmd, h) ==
  CASE cmd = JumpCmd   -> [kind |-> "jump", at |-> Word(h[3], h[4])]
    [] cmd = InjectCmd -> [kind |-> "inject", at |-> Wrap(Word(h[2], h[1]) + 1)]
    [] OTHER           -> [kind |-> "run", at |-> 0]

(* The code a completed header hands control to: a jump pops the address   *)
(* as it was sent, rts of an inject adds one to it.                        *)
Target(cmd, h) ==
  CASE cmd = JumpCmd   -> [kind |-> "jump", at |-> Word(h[4], h[3])]
    [] cmd = InjectCmd -> [kind |-> "inject", at |-> Wrap(Word(h[2], h[1]) + 1)]
    [] OTHER           -> [kind |-> "run", at |-> 0]

ServerInit ==
  /\ spc = "main"
  /\ scmd = PingCmd
  /\ hdr = <<>>
  /\ cursor = 0
  /\ sidx = 0
  /\ isBasic = FALSE
  /\ mem = InitMem
  /\ entry = [kind |-> "none", at |-> 0]
  /\ vector = Handler
  /\ masked = FALSE

-----------------------------------------------------------------------------
(* The handler finds FLAG set, fetches the command byte, flips PA2. *)
SrvIrq ==
  /\ Listening
  /\ TakeFlag
  /\ spc' = "fetch"
  /\ UNCHANGED << pa2, bus, scmd, hdr, cursor, sidx, isBasic, mem, entry, vector, masked >>

SrvFetch ==
  /\ spc = "fetch"
  /\ scmd' \in BusValues
  /\ spc' = "ack"
  /\ UNCHANGED << userport, hdr, cursor, sidx, isBasic, mem, entry, vector, masked >>

SrvAck ==
  /\ spc = "ack"
  /\ ack
  /\ hdr' = <<>>
  /\ sidx' = 0
  /\ spc' = Dispatch(scmd)
  /\ UNCHANGED << flag, bus, scmd, cursor, isBasic, mem, entry, vector, masked >>

-----------------------------------------------------------------------------
(* read: wait for a strobe, latch the byte, flip PA2. *)
SrvReadWait ==
  /\ spc = "rdWait"
  /\ TakeFlag
  /\ spc' = "rdLatch"
  /\ UNCHANGED << pa2, bus, scmd, hdr, cursor, sidx, isBasic, mem, entry, vector, masked >>

SrvReadLatch ==
  /\ spc = "rdLatch"
  /\ \E b \in BusValues : hdr' = Append(hdr, b)
  /\ spc' = "rdAck"
  /\ UNCHANGED << userport, scmd, cursor, sidx, isBasic, mem, entry, vector, masked >>

(* After the last byte load, save, poke and peek point `start' at their    *)
(* first cell, and load remembers whether that is the start of BASIC.      *)
SrvReadAck ==
  /\ spc = "rdAck"
  /\ ack
  /\ \/ /\ Len(hdr) < HeaderLength(scmd)
        /\ spc' = "rdWait"
        /\ UNCHANGED << cursor, isBasic >>
     \/ /\ Len(hdr) >= HeaderLength(scmd)
        /\ spc' = Body(scmd)
        /\ cursor' = IF scmd \in {LoadCmd, SaveCmd, PokeCmd, PeekCmd}
                     THEN TransferStart ELSE cursor
        /\ isBasic' = IF scmd = LoadCmd
                      THEN TransferStart = CellWord(mem, bstart) ELSE isBasic
  /\ UNCHANGED << flag, bus, scmd, hdr, sidx, mem, entry, vector, masked >>

-----------------------------------------------------------------------------
(* poke stores the byte after it acknowledged it. *)
SrvPokeStore ==
  /\ spc = "pokeStore"
  /\ mem' = Put(mem, cursor, hdr[5])
  /\ spc' = "main"
  /\ UNCHANGED << userport, scmd, hdr, cursor, sidx, isBasic, entry, vector, masked >>

(* jump, inject and run leave for other code: jump with clean processor    *)
(* flags, run from inside the interrupt handler, so that it is up to BASIC *)
(* when interrupts are enabled again.  A RAM server's `run' uninstalls it  *)
(* first, storing the low byte of sysirq where the high byte belongs and   *)
(* the other way round.                                                    *)
uninstall == Word(hi(sysirq), lo(sysirq))

SrvLeave ==
  /\ spc \in {"jump", "inject", "run"}
  /\ entry' = Target(scmd, hdr)
  /\ vector' = IF spc = "run" /\ ServerType = "ram" THEN uninstall ELSE vector
  /\ masked' \in IF spc = "run" /\ "mask" \in Environment THEN BOOLEAN ELSE {FALSE}
  /\ spc' = "main"
  /\ UNCHANGED << userport, scmd, hdr, cursor, sidx, isBasic, mem >>

-----------------------------------------------------------------------------
(* load: wait, store the byte, flip PA2, advance. *)
SrvLoadWait ==
  /\ spc = "ldWait"
  /\ TakeFlag
  /\ spc' = "ldLatch"
  /\ UNCHANGED << pa2, bus, scmd, hdr, cursor, sidx, isBasic, mem, entry, vector, masked >>

SrvLoadStore ==
  /\ spc = "ldLatch"
  /\ \E b \in BusValues : mem' = Put(mem, cursor, b)
  /\ spc' = "ldAck"
  /\ UNCHANGED << userport, scmd, hdr, cursor, sidx, isBasic, entry, vector, masked >>

SrvLoadAck ==
  /\ spc = "ldAck"
  /\ ack
  /\ spc' = "ldNext"
  /\ UNCHANGED << flag, bus, scmd, hdr, cursor, sidx, isBasic, mem, entry, vector, masked >>

(* next, and relinkBasic when `start' has reached `end'. *)
SrvLoadNext ==
  /\ spc = "ldNext"
  /\ cursor' = Wrap(cursor + 1)
  /\ \/ /\ cursor' # TransferEnd
        /\ spc' = "ldWait"
        /\ UNCHANGED mem
     \/ /\ cursor' = TransferEnd
        /\ spc' = "main"
        /\ mem' = IF isBasic THEN PutWord(mem, bend, TransferEnd) ELSE mem
  /\ UNCHANGED << userport, scmd, hdr, sidx, isBasic, entry, vector, masked >>

-----------------------------------------------------------------------------
(* Mutant of SrvOutWait: the lines are driven as soon as the header is in. *)
SrvOutWaitMutant ==
  /\ spc = "outWait"
  /\ UNCHANGED flag
  /\ spc' = "outDir"
  /\ UNCHANGED << pa2, bus, scmd, hdr, cursor, sidx, isBasic, mem, entry, vector, masked >>

(* The output macro: only after a strobe says that the PC has turned its   *)
(* port to input does the server drive the lines.                          *)
SrvOutWait ==
  /\ spc = "outWait"
  /\ TakeFlag
  /\ spc' = "outDir"
  /\ UNCHANGED << pa2, bus, scmd, hdr, cursor, sidx, isBasic, mem, entry, vector, masked >>

SrvOutDir ==
  /\ spc = "outDir"
  /\ ciaDriving' = TRUE
  /\ spc' = "put"
  /\ UNCHANGED << flag, pa2, pcData, pcDriving, ciaData, scmd, hdr, cursor, sidx,
                  isBasic, mem, entry, vector, masked >>

(* The next byte of the reply: of memory, or of the identification.  The   *)
(* ROM server may copy the code that reads it to OwnCells first.           *)
NextByte == IF scmd = IdentifyCmd THEN Info(mem)[sidx + 1] ELSE Cell(mem, cursor)

SrvPut ==
  /\ spc = "put"
  /\ ciaData' = NextByte
  /\ spc' = "wrStrobe"
  /\ UNCHANGED << flag, pa2, pcData, pcDriving, ciaDriving, scmd, hdr, cursor, sidx,
                  isBasic, mem, entry, vector, masked >>

SrvWriteStrobe ==
  /\ spc = "wrStrobe"
  /\ ack
  /\ spc' = "wrWait"
  /\ UNCHANGED << flag, bus, scmd, hdr, cursor, sidx, isBasic, mem, entry, vector, masked >>

(* Mutant of LastByte: `start' is compared before it is incremented. *)
LastByteMutant ==
  CASE scmd = SaveCmd     -> cursor = TransferEnd
    [] scmd = IdentifyCmd -> sidx + 1 = Len(Info(mem))
    [] OTHER              -> TRUE

(* The byte just sent is the last one. *)
LastByte ==
  CASE scmd = SaveCmd     -> Wrap(cursor + 1) = TransferEnd
    [] scmd = IdentifyCmd -> sidx + 1 = Len(Info(mem))
    [] OTHER              -> TRUE

(* The PC strobes to say it has read the byte. *)
SrvWriteWait ==
  /\ spc = "wrWait"
  /\ TakeFlag
  /\ spc' = IF LastByte THEN "input" ELSE "put"
  /\ cursor' = IF scmd = SaveCmd THEN Wrap(cursor + 1) ELSE cursor
  /\ sidx' = IF scmd = IdentifyCmd THEN sidx + 1 ELSE sidx
  /\ UNCHANGED << pa2, bus, scmd, hdr, isBasic, mem, entry, vector, masked >>

SrvInput ==
  /\ spc = "input"
  /\ ciaDriving' = FALSE
  /\ spc' = "main"
  /\ UNCHANGED << flag, pa2, pcData, pcDriving, ciaData, scmd, hdr, cursor, sidx,
                  isBasic, mem, entry, vector, masked >>

-----------------------------------------------------------------------------
(* A reset stops whatever ran; the ports fall back to input, the system    *)
(* starts BASIC cold, and only a ROM server is there again by itself.      *)
ResetMachine ==
  /\ spc' = "boot"
  /\ ciaDriving' = FALSE
  /\ pa2' \in {0, 1}
  /\ flag' = FALSE
  /\ UNCHANGED << pcData, pcDriving, ciaData, scmd, hdr, cursor, sidx, isBasic,
                  mem, entry, vector, masked >>

ColdStart(m) ==
  [c \in DOMAIN m |-> IF c < 1024 /\ c \in DOMAIN InitMem THEN InitMem[c] ELSE m[c]]

(* What an unfinished command left in registers and on the stack is gone. *)
SrvBoot ==
  /\ spc = "boot"
  /\ spc' = "main"
  /\ scmd' = PingCmd
  /\ hdr' = <<>>
  /\ cursor' = 0
  /\ sidx' = 0
  /\ isBasic' = FALSE
  /\ vector' = sysirq
  /\ masked' = FALSE
  /\ mem' = ColdStart(mem)
  /\ UNCHANGED << userport, entry >>

(* The user starts the RAM server, or starts it again with SYS 1000. *)
Install ==
  /\ spc = "main"
  /\ ServerType = "ram"
  /\ ciaDriving' = FALSE
  /\ flag' = FALSE
  /\ vector' = Handler
  /\ masked' = FALSE
  /\ UNCHANGED << pa2, pcData, pcDriving, ciaData, spc, scmd, hdr, cursor, sidx,
                  isBasic, mem, entry >>

(* The program in the foreground masks interrupts or enables them again. *)
Foreground ==
  /\ "mask" \in Environment
  /\ spc = "main"
  /\ masked' = ~masked
  /\ UNCHANGED << userport, spc, scmd, hdr, cursor, sidx, isBasic, mem, entry, vector >>

ServerStep ==
  \/ SrvIrq \/ SrvFetch \/ SrvAck
  \/ SrvReadWait \/ SrvReadLatch \/ SrvReadAck
  \/ SrvPokeStore \/ SrvLeave
  \/ SrvLoadWait \/ SrvLoadStore \/ SrvLoadAck \/ SrvLoadNext
  \/ SrvOutWait \/ SrvOutDir \/ SrvPut \/ SrvWriteStrobe \/ SrvWriteWait \/ SrvInput
  \/ SrvBoot

(* Polling a FLAG that no strobe will set, or not listening at all. *)
Polling == spc \in {"rdWait", "ldWait", "outWait", "wrWait"}

ServerBlocked ==
  \/ spc = "boot"
  \/ spc = "main" /\ ~(Listening /\ flag)
  \/ Polling /\ ~flag

-----------------------------------------------------------------------------
(* What the PC can rely on: how far the server is with what it was told,   *)
(* and what its memory will be once it has done what is due.               *)

(* A reply whose last strobe the server has yet to see or act upon. *)
EndingReply ==
  \/ spc = "wrWait" /\ LastByte /\ flag
  \/ spc = "input"

(* A command whose last byte is acknowledged but whose effect is to come. *)
EndingCommand ==
  /\ ~flag
  /\ \/ spc \in {"pokeStore", "jump", "inject", "run"}
     \/ spc = "ldNext" /\ Wrap(cursor + 1) = TransferEnd

(* The server waits for a command or is about to, and no strobe is pending *)
(* but the one that ends a reply.                                          *)
ServerReady ==
  \/ spc \in {"main", "input"} /\ ~flag
  \/ spc = "wrWait" /\ EndingReply
  \/ EndingCommand

(* The moment after which nothing can keep an effect from happening. *)
Commits ==
  \/ SrvLoadStore
  \/ (SrvReadAck \/ SrvAck) /\ spc' \in {"pokeStore", "jump", "inject", "run"}

(* The memory of the C64 as the calls of the PC are meant to see it: a     *)
(* store that is due counts as done, because the PC has been told so.      *)
RelinkDue ==
  spc \in {"ldAck", "ldNext"} /\ isBasic /\ Wrap(cursor + 1) = TransferEnd

Store ==
  CASE spc = "pokeStore" -> Put(mem, cursor, hdr[5])
    [] RelinkDue         -> PutWord(mem, bend, TransferEnd)
    [] OTHER             -> mem

(* Whether request r, of which n cells are written, is a load to where      *)
(* BASIC programs start: checkBasic has found out before the first of them. *)
LoadsBasic(r, n) ==
  r.op = "load" /\ IF n > 0 THEN isBasic ELSE r.at = CellWord(Store, bstart)

Entry == IF spc \in {"jump", "inject", "run"} THEN Target(scmd, hdr) ELSE entry
=============================================================================
