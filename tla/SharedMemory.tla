---------------------------- MODULE SharedMemory ----------------------------
(***************************************************************************)
(* The emulator in place of the C64: the driver of shm.c and the user port *)
(* of the patch to VICE share a few bytes of memory and no lock.  `flag'   *)
(* counts strobes: the client increments it, and the emulator decrements   *)
(* it when the emulated program reads the latch; each of the two loads the *)
(* byte and stores it again.  Both ends store into the same data byte, and *)
(* turning the emulated port to input stores ones there.                   *)
(*                                                                         *)
(* The server is only what the port sees of it: it takes the bytes of a    *)
(* request, flips PA2 for each, and sends the bytes of the reply.          *)
(***************************************************************************)
EXTENDS Naturals, Sequences

CONSTANTS
  Calls,        \* requests: the bytes that go out, those that come back
  MaxBudget     \* bound on calls made out of step

Byte == 0 .. 255

PingByte == 253

ASSUME CallsAssumption ==
  /\ Calls \subseteq [out : Seq(Byte) \ {<<>>}, in : Seq(Byte)]
  /\ \A c, d \in Calls : c.out[1] = d.out[1] => c = d
  /\ \A c \in Calls : c.out[1] \notin {PingByte, 255}

ASSUME BudgetAssumption == MaxBudget \in Nat

VARIABLES
  flag,         \* port->flag
  pa2,          \* port->pa2
  data,         \* port->data
  pc,           \* where the client is
  req,          \* its request; Ping or Reset
  count,        \* bytes sent, or received
  got,          \* bytes received
  last,         \* the level of PA2 it saw last
  direction,    \* "input" or "output"
  loaded,       \* the value it is about to increment
  initialized,  \* has this process mapped the memory?
  result,       \* what the call will return
  spc,          \* where the server is
  taken,        \* the bytes it took for a command
  sent,         \* bytes of the reply it has sent
  emulated,     \* the value the emulator is about to decrement
  clean,        \* the current call began in step, and no count was lost
  budget        \* calls out of step that are still allowed

port   == << flag, pa2, data >>
client == << pc, req, count, got, last, direction, loaded, initialized, result >>
server == << spc, taken, sent, emulated >>
vars   == << port, client, server, clean, budget >>

Ping  == [out |-> <<>>, in |-> <<>>]
Reset == [out |-> <<>>, in |-> << 0 >>]

Requests == Calls \cup {Ping, Reset}

None == 256

Init ==
  /\ flag = 0
  /\ pa2 \in {0, 1}
  /\ data = 255
  /\ pc = "idle"
  /\ req = Ping
  /\ count = 0
  /\ got = <<>>
  /\ last = 0
  /\ direction = "input"
  /\ loaded = None
  /\ initialized = FALSE
  /\ result = FALSE
  /\ spc = "main"
  /\ taken = <<>>
  /\ sent = 0
  /\ emulated = None
  /\ clean = TRUE
  /\ budget = MaxBudget

-----------------------------------------------------------------------------
(* The server. *)
Commanded == { c \in Calls : taken # <<>> /\ taken[1] = c.out[1] }
Command == CHOOSE c \in Commanded : TRUE

Waiting == {"main", "read", "turn", "wait"}

(* userport_xlink_read_ciaicr: the test and the load ... *)
ReadFlag ==
  /\ spc \in Waiting
  /\ emulated = None
  /\ flag # 0
  /\ emulated' = flag
  /\ UNCHANGED << port, client, spc, taken, sent, clean, budget >>

(* ... and the store.  A count that came in between is lost. *)
ClearFlag ==
  /\ emulated # None
  /\ flag' = emulated - 1
  /\ emulated' = None
  /\ clean' = (clean /\ flag = emulated)
  /\ spc' = CASE spc = "main" -> "fetch"
              [] spc = "read" -> "latch"
              [] spc = "turn" -> "put"
              [] spc = "wait" -> IF sent = Len(Command.in) THEN "input" ELSE "put"
  /\ sent' = IF spc = "turn" THEN 0 ELSE sent
  /\ UNCHANGED << pa2, data, client, taken, budget >>

(* userport_xlink_read_ciapb. *)
Take ==
  /\ spc \in {"fetch", "latch"}
  /\ taken' = IF spc = "fetch" THEN << data >> ELSE Append(taken, data)
  /\ spc' = "ack"
  /\ UNCHANGED << port, client, sent, emulated, clean, budget >>

(* userport_xlink_store_ciapa. *)
Ack ==
  /\ spc = "ack"
  /\ pa2' = 1 - pa2
  /\ spc' = IF Commanded = {} THEN "main"
            ELSE IF Len(taken) < Len(Command.out) THEN "read"
            ELSE IF Command.in # <<>> THEN "turn" ELSE "main"
  /\ UNCHANGED << flag, data, client, taken, sent, emulated, clean, budget >>

(* userport_xlink_store_ciapb. *)
Put ==
  /\ spc = "put"
  /\ data' = Command.in[sent + 1]
  /\ sent' = sent + 1
  /\ spc' = "offer"
  /\ UNCHANGED << flag, pa2, client, taken, emulated, clean, budget >>

Offer ==
  /\ spc = "offer"
  /\ pa2' = 1 - pa2
  /\ spc' = "wait"
  /\ UNCHANGED << flag, data, client, taken, sent, emulated, clean, budget >>

(* The direction register, too, is stored to the port. *)
TurnBack ==
  /\ spc = "input"
  /\ data' = 255
  /\ spc' = "main"
  /\ UNCHANGED << flag, pa2, client, taken, sent, emulated, clean, budget >>

ServerStep ==
  ReadFlag \/ ClearFlag \/ Take \/ Ack \/ Put \/ Offer \/ TurnBack

Blocked == spc \in Waiting /\ emulated = None /\ flag = 0

(* No strobe is left over; the end of a reply may be under way. *)
Ending == spc = "wait" /\ sent = Len(Command.in)
InStep ==
  \/ spc \in {"main", "input"} /\ flag = 0 /\ emulated = None
  \/ Ending /\ flag <= 1 /\ emulated \in {1, None}

-----------------------------------------------------------------------------
(* The client. *)
Call ==
  /\ pc = "idle"
  /\ req' \in Requests
  /\ pc' = "open"
  /\ count' = 0
  /\ got' = <<>>
  /\ result' = FALSE
  /\ clean' = InStep
  /\ IF InStep THEN UNCHANGED budget ELSE budget > 0 /\ budget' = budget - 1
  /\ UNCHANGED << port, last, direction, loaded, initialized, server >>

NewProcess ==
  /\ pc = "idle"
  /\ initialized
  /\ initialized' = FALSE
  /\ UNCHANGED << port, pc, req, count, got, last, direction, loaded, result,
                  server, clean, budget >>

(* Mutant of Open: the level is only looked at by a new process. *)
OpenMutant ==
  /\ pc = "open"
  /\ flag' = IF initialized THEN flag ELSE 0
  /\ initialized' = TRUE
  /\ direction' = "input"
  /\ last' = IF initialized THEN last ELSE pa2
  /\ pc' = IF req = Reset THEN "reset" ELSE "ping"
  /\ UNCHANGED << pa2, data, req, count, got, loaded, result, server, clean, budget >>

(* The first open of a process forgets strobes that have not been taken.   *)
Open ==
  /\ pc = "open"
  /\ flag' = IF initialized THEN flag ELSE 0
  /\ initialized' = TRUE
  /\ direction' = "input"
  /\ last' = pa2
  /\ pc' = IF req = Reset THEN "reset" ELSE "ping"
  /\ UNCHANGED << pa2, data, req, count, got, loaded, result, server, clean, budget >>

OpenFails ==
  /\ pc = "open"
  /\ ~initialized
  /\ pc' = "idle"
  /\ UNCHANGED << port, req, count, got, last, direction, loaded, initialized,
                  result, server, clean, budget >>

Written(value) == IF direction = "output" THEN value ELSE 255

WritePing ==
  /\ pc = "ping"
  /\ direction' = "output"
  /\ data' = PingByte
  /\ pc' = "pingStrobe"
  /\ UNCHANGED << flag, pa2, req, count, got, last, loaded, initialized, result,
                  server, clean, budget >>

(* driver_shm_strobe: the load ... *)
Strobing == {"pingStrobe", "strobe", "turnStrobe", "readStrobe"}

StrobeLoad ==
  /\ pc \in Strobing
  /\ loaded = None
  /\ loaded' = flag
  /\ UNCHANGED << port, pc, req, count, got, last, direction, initialized, result,
                  server, clean, budget >>

(* ... and the store.  A decrement that came in between is undone. *)
StrobeStore ==
  /\ loaded # None
  /\ flag' = (loaded + 1) % 256
  /\ loaded' = None
  /\ clean' = (clean /\ flag = loaded)
  /\ \/ /\ pc = "readStrobe"
        /\ count = Len(req.in)
        /\ pc' = "close"
        /\ result' = TRUE
     \/ /\ pc # "readStrobe" \/ count < Len(req.in)
        /\ pc' = CASE pc = "pingStrobe" -> "pingWait"
                   [] pc = "strobe"     -> "wait"
                   [] OTHER             -> "readWait"
        /\ UNCHANGED result
  /\ UNCHANGED << pa2, data, req, count, got, last, direction, initialized, server, budget >>

(* Mutant of Answered: the levels are not compared. *)
AnsweredMutant == last' = pa2

(* driver_shm_wait. *)
Answered ==
  /\ pa2 # last
  /\ last' = pa2

PingAnswered ==
  /\ pc = "pingWait"
  /\ Answered
  /\ pc' = IF req = Ping THEN "close" ELSE "output"
  /\ result' = (req = Ping)
  /\ UNCHANGED << port, req, count, got, direction, loaded, initialized, server, clean, budget >>

Output ==
  /\ pc = "output"
  /\ direction' = "output"
  /\ pc' = "write"
  /\ UNCHANGED << port, req, count, got, last, loaded, initialized, result, server, clean, budget >>

Write ==
  /\ pc = "write"
  /\ data' = Written(req.out[count + 1])
  /\ pc' = "strobe"
  /\ UNCHANGED << flag, pa2, req, count, got, last, direction, loaded, initialized,
                  result, server, clean, budget >>

(* The next byte, the turn-around of a call with a reply, or the end. *)
Sent ==
  /\ pc = "wait"
  /\ Answered
  /\ \/ /\ count + 1 < Len(req.out)
        /\ pc' = "write"
        /\ count' = count + 1
        /\ UNCHANGED << direction, result >>
     \/ /\ count + 1 = Len(req.out)
        /\ req.in = <<>>
        /\ pc' = "close"
        /\ result' = TRUE
        /\ UNCHANGED << count, direction >>
     \/ /\ count + 1 = Len(req.out)
        /\ req.in # <<>>
        /\ direction' = "input"
        /\ pc' = "turnStrobe"
        /\ count' = 0
        /\ UNCHANGED result
  /\ UNCHANGED << port, req, got, loaded, initialized, server, clean, budget >>

Received ==
  /\ pc = "readWait"
  /\ Answered
  /\ pc' = "read"
  /\ UNCHANGED << port, req, count, got, direction, loaded, initialized, result,
                  server, clean, budget >>

Read ==
  /\ pc = "read"
  /\ got' = Append(got, IF direction = "input" THEN data ELSE 255)
  /\ count' = count + 1
  /\ pc' = "readStrobe"
  /\ UNCHANGED << port, req, last, direction, loaded, initialized, result, server, clean, budget >>

(* Mutant of Timed: only a ping has a timeout. *)
TimedMutant == {"pingWait"}

Timed == {"pingWait", "wait", "readWait"}

(* A wait ends when the server has nothing to answer; its time is long     *)
(* compared with the loops of the server.                                  *)
GiveUp ==
  /\ pc \in Timed
  /\ pa2 = last
  /\ Blocked
  /\ pc' = "close"
  /\ UNCHANGED << port, req, count, got, last, direction, loaded, initialized,
                  result, server, clean, budget >>

(* A signal to the emulator. *)
ResetMachine ==
  /\ pc = "reset"
  /\ spc' = "main"
  /\ taken' = <<>>
  /\ sent' = 0
  /\ emulated' = None
  /\ pa2' = 1
  /\ data' = 255
  /\ pc' = "close"
  /\ result' = TRUE
  /\ clean' = FALSE
  /\ UNCHANGED << flag, req, count, got, last, direction, loaded, initialized, budget >>

Close ==
  /\ pc = "close"
  /\ direction' = "input"
  /\ pc' = "idle"
  /\ UNCHANGED << port, req, count, got, last, loaded, initialized, result, server, clean, budget >>

ClientStep ==
  \/ Open \/ OpenFails \/ WritePing \/ StrobeLoad \/ StrobeStore
  \/ PingAnswered \/ Output \/ Write \/ Sent \/ Received \/ Read
  \/ ResetMachine \/ Close

Next == Call \/ NewProcess \/ ClientStep \/ GiveUp \/ ServerStep

Spec == Init /\ [][Next]_vars

(* Both processes run; a wait that finds no answer again and again ends.   *)
FairSpec ==
  Spec /\ WF_vars(ClientStep) /\ SF_vars(GiveUp) /\ WF_vars(ServerStep)

-----------------------------------------------------------------------------
(* Every variable holds a value of its kind. *)
TypeOK ==
  /\ flag \in Byte /\ pa2 \in {0, 1} /\ data \in Byte
  /\ req \in Requests
  /\ count \in 0 .. Len(req.out) + Len(req.in)
  /\ got \in Seq(Byte) /\ Len(got) <= Len(req.in)
  /\ last \in {0, 1}
  /\ direction \in {"input", "output"}
  /\ loaded \in Byte \cup {None}
  /\ initialized \in BOOLEAN /\ result \in BOOLEAN /\ clean \in BOOLEAN
  /\ budget \in 0 .. MaxBudget
  /\ taken \in Seq(Byte)
  /\ sent \in Nat
  /\ emulated \in (1 .. 255) \cup {None}

(* The byte without a lock: a strobe can meet one that has not been taken  *)
(* in one place only, the ping that follows a reply, whose last strobe     *)
(* nobody acknowledges.  Everywhere else the two ends take turns.          *)
StrobesMeetOnlyAfterReply ==
  clean /\ pc \in Strobing \ {"pingStrobe"} => flag = 0 /\ emulated = None

(* A call that began in step and lost no count does what it is for if it   *)
(* succeeds, and has done nothing if it fails: only its ping was lost.     *)
(* That the port's own ones may replace the ping on the way does no harm.  *)
Faithful ==
  clean /\ pc = "close" /\ req \in Calls =>
    IF result THEN taken = req.out /\ got = req.in
              ELSE count = 0 /\ got = <<>> /\ InStep

(* Whatever became of the counts, every call returns. *)
CallsReturn == (pc # "idle") ~> (pc = "idle")
=============================================================================
