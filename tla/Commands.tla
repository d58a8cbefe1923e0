------------------------------ MODULE Commands ------------------------------
(***************************************************************************)
(* A session of the client program: the commands of one command line, in   *)
(* order, until one fails (client.c), and what each of them asks of the    *)
(* machine call by call (xlink_ready, xlink_reset and xlink_relocate of    *)
(* xlink.c included).  One action is one call of the library that talks to *)
(* the machine, with the decisions that follow.  The calls themselves are  *)
(* the business of XLink: here one succeeds if a server serves it.         *)
(*                                                                         *)
(* Time is counted in pings that get no answer, a quarter of a second each.*)
(***************************************************************************)
EXTENDS Machine

CONSTANTS
  Sessions,     \* command lines: sequences of commands
  Places,       \* where a RAM server may be when the session begins
  BootTimes,    \* how many pings a machine may need from a reset to its prompt
  MaxResets     \* bound on resets by the user

(* A command, with the options given for it; -1 and 255 stand for none. *)
Operations == {"load", "run", "fill", "poke", "peek", "jump", "relocate", "ready",
               "reset"}

CommandType ==
  [ op : Operations, type : {"same", "c64", "c128"}, head : Nat, length : Nat,
    start : Int, end : Int, skip : Int, memory : Nat, bank : Nat,
    force : BOOLEAN, size : Int ]

ASSUME SessionsAssumption == Sessions \subseteq Seq(CommandType)

ASSUME PlacesAssumption ==
  \A p \in Places : p \in RangeType /\ range_valid(p) /\ p.start < p.end

ASSUME BootAssumption == BootTimes \subseteq Nat \ {0} /\ BootTimes # {}

ASSUME ResetsAssumption == MaxResets \in Nat

VARIABLES
  board,    \* what the user has: the machine, whether its kernal holds a
            \* server, whether its reset line is connected
  mode,     \* the machine it is at present
  place,    \* where a RAM server is, Nowhere if there is none
  alive,    \* will a server take the next command?
  boot,     \* pings until the prompt appears
  running,  \* does a BASIC program run?
  ahead,    \* has PA2 changed, or will it, without the client having asked?
  machine,  \* the table the client goes by
  todo,     \* the commands that are left
  self,     \* the command being executed
  pc,       \* the call it makes next
  after,    \* where to go when the server is back
  tries,    \* pings left to wait for it
  info,     \* where the server said it is
  code,     \* where it is to go
  outcome,  \* of the last command
  resets    \* resets the user may still make

remote == << mode, place, alive, boot, running, ahead >>
client == << machine, todo, self, pc, after, tries, info, code, outcome >>
vars == << board, remote, client, resets >>

Nowhere == range_new(0, 0)

(* A command without options. *)
Given(op) == [ op |-> op, type |-> "same", head |-> 0, length |-> 0, start |-> -1,
               end |-> -1, skip |-> -1, memory |-> 255, bank |-> 255,
               force |-> FALSE, size |-> 0 ]

Init ==
  /\ board \in [type : {"c64", "c128"}, rom : BOOLEAN, wired : BOOLEAN]
  /\ mode \in {"c64", board.type}
  /\ place \in IF board.rom THEN {Nowhere} ELSE Places \cup {Nowhere}
  /\ alive = (board.rom \/ place # Nowhere)
  /\ boot = 0
  /\ running \in BOOLEAN
  /\ ahead = FALSE
  /\ machine = c64
  /\ todo \in Sessions
  /\ self = Given("ready")
  /\ pc = "next"
  /\ after = "done"
  /\ tries = 0
  /\ info = Nowhere
  /\ code = 0
  /\ outcome = "none"
  /\ resets = MaxResets

-----------------------------------------------------------------------------
(* A quarter of a second passes.  A strobe is remembered while the machine *)
(* starts: a server that comes up may answer it when nobody waits any more.*)
Tick ==
  /\ boot' = IF boot > 0 THEN boot - 1 ELSE 0
  /\ alive' = IF boot = 1 THEN board.rom ELSE alive
  /\ ahead' \in IF boot = 1 /\ board.rom THEN BOOLEAN ELSE {FALSE}

(* The machine starts anew.  PA2 ends up high, whatever it was. *)
Restart(as) ==
  /\ mode' = as
  /\ place' = Nowhere
  /\ alive' = FALSE
  /\ boot' \in BootTimes
  /\ running' = FALSE
  /\ ahead' \in BOOLEAN

Standing == UNCHANGED << mode, place, alive, boot, running, ahead >>

Finish(ok) ==
  /\ outcome' = IF ok THEN "ok" ELSE "failed"
  /\ pc' = IF ok THEN "next" ELSE "done"
  /\ UNCHANGED << machine, todo, self, after, tries, info, code >>

GoTo(step) ==
  /\ pc' = step
  /\ UNCHANGED << machine, todo, self, after, tries, info, code, outcome >>

(* Nobody takes the call, and a quarter of a second is waited for it.  The *)
(* ping in it takes up what PA2 did.                                       *)
Unserved ==
  /\ ~alive
  /\ Tick
  /\ UNCHANGED << mode, place, running >>

(* There is a server, and PA2 is not where the client saw it last. *)
OutOfStep == alive /\ ahead

(* The ping is over at once, and if the server has taken it by the time of *)
(* the next strobe, the client is one byte ahead from then on: the server  *)
(* takes for commands whatever it finds on the lines.  A call without an   *)
(* answer may seem to have succeeded; an identification is not understood. *)
Astray ==
  /\ OutOfStep
  /\ alive' \in BOOLEAN
  /\ running' \in BOOLEAN
  /\ ahead' \in BOOLEAN
  /\ UNCHANGED << mode, place, boot >>

Fails == (Unserved \/ Astray) /\ Finish(FALSE)

(* The server takes the call.  If the client was ahead, its ping and the   *)
(* command were one strobe to the server.                                  *)
Taken ==
  /\ alive
  /\ ahead' = FALSE
  /\ UNCHANGED << mode, boot >>

Served == Taken /\ UNCHANGED << place, alive, running >>

(* A ping: a change of PA2 before it counts as an answer, too, and leaves  *)
(* the server to answer when nobody asks.                                  *)
xlink_ping(yes, no) ==
  \/ /\ alive \/ ahead
     /\ ahead' \in {FALSE, OutOfStep}
     /\ UNCHANGED << mode, place, alive, boot, running >>
     /\ yes
  \/ ~ahead /\ Unserved /\ no

(* A ping of server_ready_after, which sleeps after an answer. *)
PingAndSleep(yes, no) ==
  \/ alive /\ xlink_ping(yes, FALSE)
  \/ ahead /\ Unserved /\ yes
  \/ ~ahead /\ Unserved /\ no

ResetTimeout == 12

(* xlink_reset, then server_ready_after; on a C128 there are pings between.*)
ResetsAndWaits(then) ==
  /\ IF board.wired THEN Restart(board.type) ELSE Standing
  /\ pc' = IF machine.type = "c128" THEN "down" ELSE "up"
  /\ after' = then
  /\ tries' = ResetTimeout
  /\ UNCHANGED << machine, todo, self, info, code, outcome >>

-----------------------------------------------------------------------------
(* Defaults. *)
MemoryAndBank(c, m) ==
  [c EXCEPT !.memory = IF @ = 255 THEN m.memory ELSE @,
            !.bank = IF @ = 255 THEN m.bank ELSE @]

SafeMemoryAndBank(c, m) == [c EXCEPT !.memory = m.safe_memory, !.bank = m.safe_bank]

(* Mutant of Loaded: only the start of the data is looked at. *)
LoadedMutant(c, m) ==
  LET start == IF c.start = -1 THEN c.head ELSE c.start
      skip  == IF c.skip # -1 THEN c.skip ELSE IF c.start = -1 THEN 2 ELSE 0
      left  == c.length - skip
      end   == IF c.end = -1 THEN start + left ELSE c.end
      size  == IF end - start < left THEN end - start ELSE left
      filled == [c EXCEPT !.start = start, !.skip = skip, !.end = end, !.size = size]
      safe  == range_inside(range_new(start, start), m.io)
  IN IF c.memory # 255 /\ c.bank # 255 THEN filled
     ELSE IF safe THEN SafeMemoryAndBank(filled, m) ELSE MemoryAndBank(filled, m)

(* A file of `length' bytes, the first two of which read `head'.  Data that*)
(* touches the I/O area goes into the RAM below, unless memory and bank    *)
(* are both given.                                                         *)
Loaded(c, m) ==
  LET start == IF c.start = -1 THEN c.head ELSE c.start
      skip  == IF c.skip # -1 THEN c.skip ELSE IF c.start = -1 THEN 2 ELSE 0
      left  == c.length - skip
      end   == IF c.end = -1 THEN start + left ELSE c.end
      size  == IF end - start < left THEN end - start ELSE left
      filled == [c EXCEPT !.start = start, !.skip = skip, !.end = end, !.size = size]
      safe  == range_overlaps(range_new(start, end), m.io)
  IN IF c.memory # 255 /\ c.bank # 255 THEN filled
     ELSE IF safe THEN SafeMemoryAndBank(filled, m) ELSE MemoryAndBank(filled, m)

(* An end that is not given is the top of memory. *)
Filled(c, m) ==
  LET end == IF c.end = -1 THEN range_max ELSE c.end
  IN MemoryAndBank([c EXCEPT !.end = end, !.size = end - c.start], m)

(* The range is empty; that it counts as overlapping what it touches is    *)
(* what protects a server from a poke.                                     *)
Poked(c, m) == MemoryAndBank([c EXCEPT !.end = c.start, !.size = 1], m)

Chosen(c) == CASE c.type = "same" -> machine
               [] c.type = "c64"  -> c64
               [] c.type = "c128" -> c128

(* Only a load can be forced. *)
Forced(c) == c.force /\ c.op \in {"load", "run"}

(* command_execute: the options come first, for they set the machine. *)
Begin(ops) ==
  /\ pc = "next"
  /\ todo # <<>>
  /\ Head(todo).op \in ops
  /\ machine' = Chosen(Head(todo))
  /\ todo' = Tail(todo)
  /\ UNCHANGED << board, remote, after, tries, info, code, resets >>

BeginWrite ==
  /\ Begin({"load", "run", "fill", "poke"})
  /\ self' = LET c == Head(todo) IN
               CASE c.op \in {"load", "run"} -> Loaded(c, machine')
                 [] c.op = "fill" -> Filled(c, machine')
                 [] c.op = "poke" -> Poked(c, machine')
  /\ IF self'.op = "fill" /\ ~range_valid(range_new(self'.start, self'.end))
     THEN outcome' = "failed" /\ pc' = "done"
     ELSE outcome' = "none" /\ pc' = IF Forced(self') THEN "write" ELSE "identify"

BeginOther ==
  /\ Begin({"peek", "jump", "relocate", "ready", "reset"})
  /\ self' = Head(todo)
  /\ outcome' = "none"
  /\ pc' = CASE self'.op \in {"peek", "jump"} -> "ask"
             [] self'.op = "relocate" -> "where"
             [] self'.op = "ready" -> "ping"
             [] self'.op = "reset" -> "reset"

End ==
  /\ pc = "next"
  /\ todo = <<>>
  /\ pc' = "done"
  /\ UNCHANGED << board, remote, machine, todo, self, after, tries, info, code,
                  outcome, resets >>

-----------------------------------------------------------------------------
(* command_server_usable_after_possible_relocation. *)
memtop == 40960

Areas == << machine.loram,
            IF machine.type = "c64" THEN range_new(machine.hiram.start, memtop)
            ELSE machine.hiram,
            machine.screenram >>

Data == range_new(self.start, self.end)

Identify ==
  /\ pc = "identify"
  /\ \/ Fails
     \/ /\ Served
        /\ info' = place
        /\ LET found == Place(Areas, range_size(place), Data) IN
           IF board.rom \/ ~range_overlaps(Data, place)
           THEN pc' = "write" /\ UNCHANGED << code, outcome >>
           ELSE IF found = NoPlace
           THEN pc' = "done" /\ outcome' = "failed" /\ UNCHANGED code
           ELSE pc' = "image" /\ code' = found /\ UNCHANGED outcome
        /\ UNCHANGED << machine, todo, self, after, tries >>
  /\ UNCHANGED << board, resets >>

(* command_relocate: a place that is not entirely in ROM or I/O will do. *)
Moved == range_new(self.start, self.start + range_size(place))

Where ==
  /\ pc = "where"
  /\ \/ Fails
     \/ board.rom /\ Served /\ Finish(TRUE)
     \/ /\ ~board.rom
        /\ Served
        /\ LET lorom == IF machine.type = "c64"
                        THEN range_new(memtop, machine.lorom.end) ELSE machine.lorom
               refused == \/ ~range_valid(Moved)
                          \/ \E r \in {lorom, machine.hirom, machine.io} :
                                range_inside(Moved, r)
           IN IF refused THEN pc' = "done" /\ outcome' = "failed"
                         ELSE pc' = "image" /\ UNCHANGED outcome
        /\ info' = place
        /\ code' = self.start
        /\ UNCHANGED << machine, todo, self, after, tries >>
  /\ UNCHANGED << board, resets >>

(* xlink_relocate loads the code, over the running server if that is where *)
(* it is to go, ...                                                        *)
New == range_new(code, code + range_size(info))

LoadImage ==
  /\ pc = "image"
  /\ \/ Fails
     \/ Served /\ ~Share(New, place) /\ GoTo("start")
     \/ /\ Taken
        /\ Share(New, place)
        /\ \/ alive' = TRUE /\ GoTo("start")
           \/ alive' = FALSE /\ Finish(FALSE)
        /\ UNCHANGED << place, running >>
  /\ UNCHANGED << board, resets >>

(* ... and jumps to it.  It serves if it is code for this machine, in      *)
(* memory that the machine can see.                                        *)
Visible(r) ==
  \A s \in {machine.lorom, machine.hirom, machine.io} : ~Share(r, s)

StartImage ==
  /\ pc = "start"
  /\ \/ Fails
     \/ /\ Taken
        /\ place' = New
        /\ alive' = (machine.type = mode /\ Visible(New))
        /\ UNCHANGED running
        /\ IF self.op = "relocate" THEN Finish(TRUE) ELSE GoTo("write")
  /\ UNCHANGED << board, resets >>

(* The cells written; a transfer that passes the top of memory wraps. *)
Cells == range_new(self.start, self.start + self.size)

(* A server that was to take no bytes waits for 65536 of them. *)
Write ==
  /\ pc = "write"
  /\ \/ Fails
     \/ /\ Taken
        /\ \/ self.size = 0
           \/ ~board.rom /\ Share(Cells, place)
        /\ alive' = FALSE
        /\ Finish(FALSE)
        /\ UNCHANGED << place, running >>
     \/ /\ self.size > 0
        /\ board.rom \/ ~Share(Cells, place)
        /\ Served \/ Astray
        /\ IF self.op = "run" THEN GoTo("go") ELSE Finish(TRUE)
  /\ UNCHANGED << board, resets >>

(* A program at the start of BASIC is run, which ends a RAM server; any    *)
(* other is jumped to.                                                     *)
Go ==
  /\ pc = "go"
  /\ \/ Fails
     \/ /\ \/ Astray
           \/ /\ Taken
              /\ IF self.start = machine.default_basic_start
                 THEN /\ running' = TRUE
                      /\ alive' = board.rom
                      /\ place' = Nowhere
                 ELSE UNCHANGED << running, alive, place >>
        /\ Finish(TRUE)
  /\ UNCHANGED << board, resets >>

Ask ==
  /\ pc = "ask"
  /\ \/ Fails
     \/ (Served \/ Astray) /\ Finish(TRUE)
  /\ UNCHANGED << board, resets >>

-----------------------------------------------------------------------------
(* xlink_ready pings twice, and resets the machine if one ping fails. *)
Ping ==
  /\ pc = "ping"
  /\ xlink_ping(GoTo("pingAgain"), GoTo("restart"))
  /\ UNCHANGED << board, resets >>

PingAgain ==
  /\ pc = "pingAgain"
  /\ xlink_ping(GoTo("who"), GoTo("restart"))
  /\ UNCHANGED << board, resets >>

(* command_reset; the reset of xlink_ready for want of a server; and the   *)
(* one that turns a C64 back into a C128, after which nothing else is done.*)
Reset ==
  /\ \/ pc = "reset" /\ ResetsAndWaits("ping")
     \/ pc = "restart" /\ ResetsAndWaits("who")
     \/ pc = "switchBack" /\ ResetsAndWaits("ready")
  /\ UNCHANGED << board, resets >>

(* As long as a ping is answered, a C128 has not been reset yet. *)
Down ==
  /\ pc = "down"
  /\ xlink_ping(GoTo("down"), GoTo("up"))
  /\ UNCHANGED << board, resets >>

(* Mutant of Up: the time is not counted. *)
UpMutant ==
  /\ pc = "up"
  /\ PingAndSleep(IF after = "ready" THEN Finish(TRUE) ELSE GoTo(after), GoTo("up"))
  /\ UNCHANGED << board, resets >>

Up ==
  /\ pc = "up"
  /\ PingAndSleep(
       IF after = "ready" THEN Finish(TRUE) ELSE GoTo(after),
       IF tries = 1 THEN Finish(FALSE)
       ELSE /\ tries' = tries - 1
            /\ UNCHANGED << machine, todo, self, pc, after, info, code, outcome >>)
  /\ UNCHANGED << board, resets >>

(* Mutant of Who: only a C64 client looks at the answer. *)
WhoMutant ==
  /\ pc = "who"
  /\ \/ Fails
     \/ /\ Served
        /\ GoTo(IF machine.type = "c64" /\ mode = "c128" THEN "go64" ELSE "mode")
  /\ UNCHANGED << board, resets >>

(* A server of the other machine is told to become this one. *)
Who ==
  /\ pc = "who"
  /\ \/ Fails
     \/ /\ Served
        /\ GoTo(IF mode = machine.type THEN "mode"
                ELSE IF machine.type = "c64" THEN "go64" ELSE "switchBack")
  /\ UNCHANGED << board, resets >>

Go64 ==
  /\ pc = "go64"
  /\ \/ Fails
     \/ /\ alive
        /\ Restart("c64")
        /\ pc' = "up"
        /\ after' = "ready"
        /\ tries' = ResetTimeout
        /\ UNCHANGED << machine, todo, self, info, code, outcome >>
  /\ UNCHANGED << board, resets >>

Mode ==
  /\ pc = "mode"
  /\ \/ Fails
     \/ Served /\ running /\ GoTo("warm")
     \/ Served /\ ~running /\ Finish(TRUE)
  /\ UNCHANGED << board, resets >>

(* The warm start of a C64, as by STOP and RESTORE: it takes the interrupt *)
(* from a RAM server (RESTOR) and puts PA2 high, whatever it was (IOINIT). *)
WarmStart64 ==
  /\ place' = Nowhere
  /\ alive' = board.rom
  /\ ahead' \in BOOLEAN

(* Mutant of Warm: an address three bytes on, past the call of RESTOR. *)
WarmMutant ==
  /\ pc = "warm"
  /\ \/ Fails
     \/ /\ alive
        /\ running' = FALSE
        /\ ahead' \in IF machine.type = "c64" THEN BOOLEAN ELSE {FALSE}
        /\ UNCHANGED << mode, place, alive, boot >>
        /\ Finish(TRUE)
  /\ UNCHANGED << board, resets >>

(* A running BASIC program is stopped by a warm start; that of a C128 is   *)
(* one of BASIC only.                                                      *)
Warm ==
  /\ pc = "warm"
  /\ \/ Fails
     \/ /\ alive
        /\ running' = FALSE
        /\ IF machine.type = "c64" THEN WarmStart64
           ELSE ahead' = FALSE /\ UNCHANGED << place, alive >>
        /\ UNCHANGED << mode, boot >>
        /\ Finish(TRUE)
  /\ UNCHANGED << board, resets >>

(* The user presses the reset button, if there is a line for it. *)
UserResets ==
  /\ resets > 0
  /\ board.wired
  /\ resets' = resets - 1
  /\ Restart(board.type)
  /\ UNCHANGED << board, client >>

ClientStep ==
  \/ BeginWrite \/ BeginOther \/ End
  \/ Identify \/ Where \/ LoadImage \/ StartImage \/ Write \/ Go \/ Ask
  \/ Ping \/ PingAgain \/ Reset \/ Down \/ Up
  \/ Who \/ Go64 \/ Mode \/ Warm

Next == ClientStep \/ UserResets

Spec == Init /\ [][Next]_vars

(* The process runs. *)
FairSpec == Spec /\ WF_vars(ClientStep)

-----------------------------------------------------------------------------
(* Every variable holds a value of its kind; no server listens before the  *)
(* machine is up; and one in RAM is never out of step, since no reset and  *)
(* no warm start of a C64, which move PA2, leaves it there.                *)
TypeOK ==
  /\ board \in [type : {"c64", "c128"}, rom : BOOLEAN, wired : BOOLEAN]
  /\ mode \in {"c64", board.type}
  /\ place \in RangeType
  /\ boot \in Nat
  /\ running \in BOOLEAN
  /\ ahead \in BOOLEAN
  /\ alive \in BOOLEAN /\ ~(alive /\ boot > 0) /\ (alive /\ ahead => board.rom)
  /\ machine \in {c64, c128}
  /\ todo \in Seq(CommandType)
  /\ self \in CommandType
  /\ pc \in {"next", "done", "identify", "where", "image", "start", "write", "go",
             "ask", "ping", "pingAgain", "reset", "restart", "switchBack", "down",
             "up", "who", "go64", "mode", "warm"}
  /\ code \in Int
  /\ after \in {"done", "ping", "who", "ready"}
  /\ tries \in 0 .. ResetTimeout
  /\ info \in RangeType
  /\ outcome \in {"none", "ok", "failed"}
  /\ resets \in 0 .. MaxResets

(* What load, run, fill and poke write is clear of the RAM server that     *)
(* receives it, wherever that was when the session began and wherever it   *)
(* was moved to since; unless the user insists, or the transfer wraps.     *)
SparesServer ==
  pc = "write" /\ alive /\ ~Forced(self) /\ Cells.end <= range_max
    => ~Share(Cells, place)

(* A load writes to the I/O area only if memory and bank were both given:  *)
(* "a safety measure that prevents possible damage" to the hardware.       *)
IoIsSpared ==
  [][ BeginWrite /\ self'.op \in {"load", "run"} /\ Share(Cells', machine'.io)
      => \/ self'.memory = machine'.safe_memory /\ self'.bank = machine'.safe_bank
         \/ Head(todo).memory # 255 /\ Head(todo).bank # 255 ]_vars

(* Where ready has not had to change the machine's mode, it ends well only *)
(* if the machine is the one that the client has tables for and no program *)
(* runs, and with a server to talk to, unless that was one in the RAM of a *)
(* C64, which goes with the program that the warm start stops.             *)
ReadyMeansServing ==
  [][ (Mode \/ Warm) /\ pc' = "next"
      => /\ mode' = machine.type
         /\ ~running'
         /\ alive' \/ (machine.type = "c64" /\ running /\ ~board.rom) ]_vars

(* Every session ends.  The one place where it may hang is the loop that   *)
(* waits for a C128 to be gone, of a machine without a reset line.         *)
SessionsEnd == <>(pc = "done" \/ (pc = "down" /\ ~board.wired))
=============================================================================
