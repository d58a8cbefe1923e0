# xlink: a verification development

xlink connects a PC to a Commodore 64 or 128 through the user port and lets the
PC read and write the memory of the machine, start programs on it and identify
and reset it. This directory holds TLA+ models of that system, TLC runs on small
instances, and machine-checked proofs. All definitions are translated from the
sources (`src/...` below); `PROJECT.json` maps each one to its lines.

## 1. Inventory

### Components

| component | source | state it keeps | operations |
|---|---|---|---|
| command layer | `xlink.c`, `xlink.h` | none across calls but the error value | load, save, peek, poke, jump, run, inject, identify, ping, reset, ready, relocate, fill, begin/send/receive/end |
| driver selection | `driver/driver.c` | the active driver | wraps open and close: close turns the port to input first |
| parallel port driver | `driver/parport.c` | `last_status`: the acknowledge level seen last; the open device | open, close, input, output, strobe, wait, read, write, send, receive, ping, reset |
| serial driver | `driver/serial.c` | `initialized`; the open device | the same calls, each sent as a nine-byte command |
| servant64 firmware | `driver/servant64/xlink.c` | `last`; the timer | reset, strobe, acked, input, output, read, write, send, receive |
| UART library | `driver/servant64/uart.c` | two rings of 512 bytes, head and tail of each | init, getc, putc, available, flush; a receive and a transmit interrupt |
| USB driver and firmware | `driver/usb.c`, `driver/at90usb162/xlink.c` | the device handle; `last` on the board | the same as control and bulk transfers |
| shared memory driver | `driver/shm.c`, `vice/*.patch` | a segment shared with the emulator | the same on bytes of the segment |
| C64 server | `server64.asm`, `kernal64.asm`, `server.h` | FLAG, PA2, header and `start`/`end`, memory, interrupt vector | one interrupt handler with eight commands; install, uninstall |
| C128 server | `server128.asm`, `kernal128.asm` | as above, and the MMU banks | as above |
| client program | `client.c` | the parsed command line, the machine it goes by | the commands, their defaults, protection of server and I/O area, relocation of the server |
| ranges, machine tables | `range.c`, `machine.c` | none | arithmetic on half-open ranges |
| build tools, loader, utilities | `tools/`, `bootstrap.asm`, `loader.asm`, `util.c` | none of the protocol | code generation, lists, logging |

### How they interact

The ends share eight data lines and two signals. The PC's STROBE sets the FLAG
latch of the C64; reading the latch clears it, and two strobes without a read in
between count as one. The C64 answers by *flipping* PA2, and the PC compares its
level with the one it saw last. There is no length, checksum or delimiter: after a
ping, whose answer says that the server has taken one byte as a command, both ends
count bytes. To receive, the PC turns its port to input and strobes; the server
then drives the lines until it has sent what it was asked for. The last strobe of
a reply is *not* acknowledged.

With a servant64 board the driver does not touch the port but writes commands of
nine bytes to a serial line, most of them without waiting for an answer; the
firmware counts bytes too.

A call on the PC is sequential and the server serves one command at a time inside
an interrupt. What makes the system hard is that the two (three, with a board)
run concurrently without a common clock, that the PC gives up after a while and
the server never does, that either end may be killed or reset while the other
keeps its state, and that the levels remembered from the past stand for messages.

### What makes each component correct

* *Drivers and server together*: a call does to the C64 exactly what was asked,
  reports success only if it did and failure only if nothing happened; the ends
  never get out of step without a fault; no strobe is lost; no two drivers on the
  data lines in the middle of a transfer; every call returns.
* *Firmware and serial driver*: they agree on where commands begin; an answer is
  read by whoever asked for it; a send is complete only if each byte was taken.
* *Server*: every command ends and gives the machine back to the system; the
  interrupt vector is the server's or the system's.
* *USB board*: PC and firmware agree on where a transfer ends; a board whose PC is
  gone becomes free again.
* *UART*: the rings are queues, whatever interrupt comes between the two bytes of
  an index; what is put is sent.
* *Shared memory*: the strobe count survives two writers without a lock.
* *Relocation*: the server that receives a load is not overwritten by it; a place
  is found if there is one; the search ends.
* *Commands*: what a command writes spares the server and the I/O area; `ready` ends
  well only if a server of the right machine listens (one exception, section 3); a session ends.

## 2. Modules and how they correspond to the code

| module | models | kind |
|---|---|---|
| `Protocol` | bytes, words, memory; command codes; what each call of `xlink.c` sends and expects | operators |
| `Userport` | the cable with both CIAs: FLAG, PA2, data lines and directions, contention | state, shared by all |
| `Server` | the C64 server, RAM and ROM variant, with resets and boot | component |
| `Client` | the calls of `xlink.c` over `parport.c` | component |
| `XLink` | `Client` + `Server` + environment | composition 1 |
| `RemoteMemory` | the promise of `xlink.h`: a memory and a processor at the other end | abstract specification |
| `Servant` | the servant64 firmware and the serial line | component |
| `SerialClient` | the calls of `xlink.c` over `serial.c` | component |
| `SerialXLink` | `SerialClient` + `Servant` + `Server` + environment | composition 2 |
| `UsbBoard` | the at90usb162 firmware, its watchdog and its packets | component |
| `UsbClient` | the calls of `xlink.c` over `usb.c` | component |
| `UsbXLink` | `UsbClient` + `UsbBoard` + `Server` + environment | composition 3 |
| `SharedMemory` | `shm.c`, the patch to VICE, and the handshake of a server | composition 4 |
| `Uart` | the rings of `uart.c` between program and interrupts | component |
| `Queues` | what a UART library promises | abstract specification |
| `Range` | `range.c` | operators |
| `Machine` | the tables of `machine.c`; where a server of some length goes | operators |
| `Relocation` | the decision to move a RAM server and the search for a place (`client.c`) | component |
| `Commands` | a session of the client program: the commands of `client.c`, and `xlink_ready`, `xlink_reset`, `xlink_relocate` | component |
| `XLinkProofs`, `UsbProofs`, `SerialLineProofs`, `SerialProofs`, `RelocationProofs`, `CommandsProofs`, `UartProofs`, `SharedMemoryProofs` | theorems | proofs |
| `MCXLink`, `MCSerial`, `MCUsb`, `MCSharedMemory`, `MCUart`, `MCRelocation`, `MCCommands` | the instances TLC checks | model checking |

**Requests.** A call is a record made by `xlink_load(...)`, `xlink_peek(...)` and so
on in `Protocol`: its operation, the header and data that `xlink.c` sends, the number
of bytes it wants back, and (for the abstract specification only) the address it
is about and the bytes it writes. `RequestAssumption` in `XLink`, `SerialXLink` and `UsbXLink` says that
the requests are what those calls make (`IsRequest`), of transfers no larger than the memory;
and that they leave the cells of the server itself alone (`LeavesServer`, section 5);
`SizeAssumption` in `SerialXLink` that none of them is larger than `MaxSize`. Clients and server do not look at the last
two. `Parts` and `Replies` cut a request into the sends and receives that
`xlink.c` makes of it; serial line and USB treat each of them as a transfer.

**Steps.** One action is one access to a port, with the computation that follows it
up to the next: a strobe, a read of the data lines, a flip of PA2. That is the
granularity at which PC and C64 interleave. In `SerialXLink` the steps of the PC are
single writes to the line and single reads from it. A command is taken from the
line when all its nine bytes are there: the firmware blocks in between and does
nothing else (`ReadSerial`). In `UsbXLink` a step of the PC is one control
transfer, which the driver waits for and of which the board does one at a time.

**Server.** `spc` is the place in the handler: `SrvIrq`, `SrvFetch`, `SrvAck` are its
head (`server64.asm:48-90`), `SrvRead...` the `read` routine for header bytes,
`SrvLoad...` the loop of load, `SrvOut...`, `SrvPut`, `SrvWrite...`, `SrvInput` replies of
save, peek and identify, `SrvPokeStore` and `SrvLeave` the ends of poke and of
jump, inject and run. RAM and ROM server run the same protocol and differ in what a
reset and `run` do to the vector (`ServerType`). `Install` is the user's SYS. BASIC,
the foreground program and the boot of the machine appear as far as the server
depends on them (`Foreground`, `SrvBoot`).

**USB board.** Strobes, writes, questions and turns of the port are over at once and are
actions of `UsbClient`. A send or a receive keeps the firmware busy: `transfer`,
`bytes`, `size` and `count` are the transfer, `bpc` the place in `Send` or `Receive`
(`at90usb162/xlink.c:197-340`). At the end of each packet the firmware waits for the PC,
without a timeout; `host` says whether the PC is still there, and if it is not the
watchdog restarts the board. A restart reads the level of PA2 anew. A board that was
unplugged comes back as a device the PC has no handle of (`handle`).

**UART.** The rings are larger than 256 bytes, so that an index is a pair of bytes and
the processor accesses one at a time: `...Hi` and `...Lo` are the accesses of the
program, in the order the compiled code has them, and an interrupt may come
between the two. It runs as a whole, and the processor executes an instruction of
the program before it takes the next one (`served`).

**Shared memory.** `flag++` of the client and `flag--` of the emulator are a load and a
store each (`StrobeLoad`, `StrobeStore`; `ReadFlag`, `ClearFlag`), and both ends store into the
data byte. The server is an outline: it takes the bytes of a request and sends the
bytes of the reply, with the accesses that the patch intercepts.

**Commands.** One action is one call of the library that talks to the machine, with the
decisions before the next one. Whether a call succeeds is a matter of `alive`:
does a server take the next command? What the call does on the wire is the
business of the compositions above. Time is counted in unanswered pings, a quarter
of a second each: `boot` in those the machine still needs, `tries` in those the client
will still wait. A failed command ends the session.

`ahead` is a change of PA2 that the client has not seen: left by a reset, by the
warm start of a C64 (`WarmStart64`: the KERNAL's RESTOR and IOINIT, which `xlink_ready` jumps to
to stop a program), or by a strobe that waited while the machine booted. The next ping takes it
for an answer. If a server is there nevertheless (`OutOfStep`), the call may come out in step, because
ping and command are one strobe to the server; or it fails; or it goes `Astray`: the server takes
for a command what it finds on the lines, may be lost, and the caller may be told of a success. An
identification that goes astray is not understood. A server in RAM is never out of step,
since what moves PA2 unseen also takes the interrupt from it. What becomes of the machine once control
has been handed to code of the user is not modelled, nor is a ping after a reply that is
lost (section 3): it costs the call, and the wire-level modules have it.

**Relocation.** `Relocation` is the loop of `client.c`, address by address; `Machine!Place` says
where it comes out, which `FindsPlace` checks, and `Commands` uses that.

**Undefined values.** When both ends drive the lines the read takes any value of
`ContentionBytes`; PA2 after a reset is any level; lines nobody drives read 255.

**Environment.** The constant `Environment` says which faults a run has: `"late"` (the
PC, or a board, gives up on a server that is about to answer), `"kill"` (the PC
process dies; port, line and board keep what they have), `"power"` (the C64 is switched
off and on; over USB the board is unplugged and plugged in again), `"mask"` (the foreground
program masks and unmasks interrupts; it costs nothing). Without `"late"` a
timeout ends a wait only when the server cannot answer (`ServerBlocked`): timeouts are
long compared with the C64's loops.
`clean` is a history variable: TRUE if the current call started with both ends in
step and no fault has happened since. `InStep` is spelled out in each composition:
the server waits for a command, or is about to with nothing but
its own work left to do, the board if there is one is free, and the remembered
level of PA2 is the present one. Over the serial line a timeout of the firmware ends `clean`, too,
where the PC is not told of it (the last byte of a send) or is still writing the data, of
which the rest will be taken for commands (`FirmwareGivesUp`).

**Abstraction.** `RemoteMemory` has a store, an entry point and one call at a time;
cells are written one by one in order (a load to where BASIC programs start, decided
before its first cell, moves the end of the program with its last), replies grow byte by byte, control is
handed over once, success means complete and failure means nothing done.
`trusted` is `clean`: the promise is suspended by a fault and holds again from the
first call that starts in step. The refinement mapping (`Remote == INSTANCE
RemoteMemory WITH ...`), of three compositions onto the same module, counts a store
that the server has acknowledged but not yet executed as done (`Store`, `Entry`): poke
acknowledges before it stores. `Queues` has two sequences of numbered bytes;
`Uart` maps its rings to them, where a byte is put with the first half of a store and
taken with the second. `Crowd` is where the promise weakens: a ring that is about to
fill a whole round of the low byte may drop a byte although there is room, or look empty.

## 3. Runs

Deadlock is not checked: with the budget spent, or a command of the PC never
finished, a system really stops; that it does not where it should not is the
business of the liveness properties.

| run | instance | shows |
|---|---|---|
| `clean` | ten requests, ROM server, no fault | `NeverOutOfStep`, `BusDiscipline`, `NoStrobeLost`, `Implements`: each call, opens that fail included, does what it promises and leaves the ends in step |
| `faults` | poke and reset, ROM server, late, kill, power, 2 | `Implements`: after any such fault, calls that start in step are carried out faithfully |
| `returns` | peek, RAM server that the user starts again, all faults, 1, fair | `CallsReturn`: no fault makes a call over the parallel port hang |
| `serial_clean` | nine requests over the serial line, no fault | the properties of `clean`, and `InFrame`, `AnswersMatch` |
| `serial_faults` | poke, ROM server, late, kill, mask, 2, writes of 16 | `Implements` |
| `serial_returns` | peek and reset, RAM server, power cycles, 1, writes of 16, fair | `CallsReturn`, although the serial driver reads without a timeout |
| `usb` | load, save and reset over a board, ROM server, late, kill, power, 1, fair | the properties of `clean`, and `CallsReturn`, by the watchdog if by nothing else |
| `shm` | a request without a reply, one with a reply, ping and reset, 1, fair | `StrobesMeetOnlyAfterReply`, `Faithful`, `CallsReturn`: only the ping after a reply can tear the strobe count, and it costs nothing but itself |
| `uart` | rings of six bytes, one program that reads and flushes, one that writes, fair | `Implements` (the rings are queues), `WillTransmit`, `PutReturns`, `ReadReturns` |
| `relocation` | both tables of `machine.c`, seven loads, three servers | `FindsPlace`, `FoundIsFree`, `ClosestToEnd`, `FailsOnlyIfBlocked`, `Terminates` |
| `commands` | thirteen command lines, every kind of machine, 1 reset, fair | `TypeOK` (what can be out of step), `SparesServer`, `IoIsSpared`, `ReadyMeansServing`, `SessionsEnd` |
| `run` | `run` with a RAM server | the disagreement below |

Bounds.

* *Transfers* of one or two bytes go through every branch of the byte loops: first,
  middle and last byte, wrap at 65535 and the relink of BASIC. Addresses are real
  16-bit ones and memory is a partial function, so the headers hold real bytes;
  `MCPokes` uses $0801, whose low byte is the code of the load command, so that
  bytes read out of step do become commands. `MaxSize` caps sizes that are read from
  misaligned commands on the serial line.
* *`MaxBudget`* (the number in the table) bounds faults plus calls made out of step: with
  2, one fault can be followed by a call that meets its traces, or by a second
  fault. With 1, as in `usb`, every call may meet a fault or a single call may start
  out of step; what is left behind by a fault is met by the calls that start in step.
* *`Chunk`*, serial: the bytes written to the line at once: 1 is finest, 16 is the code's.
* *`Packet` 2 and `Payload` 3*, USB, for the 64 and 4096 of the code: the seven bytes of a
  header go in three transfers, of which two take two packets, and the four
  bytes of the save come back in two. First, last and only packets occur, full and
  partial ones.
* *`Low` 3*, UART, for 256: an index has two values of its high and three of its low
  byte, and the nine bytes that arrive and the eight that are written take both rings
  around more than once. An index that changes both of its bytes, a full ring and an
  empty one all occur; what is special about 256 is not used.
* *`BootTimes`*: a machine is back before the second ping, in the middle of the three
  seconds, or (13 pings) after the client has given up. None is back before the first ping.
* *Sessions*: loads over the server, beside it, over every place it could go to, around
  the I/O area, without room; pokes at both ends of the server; `relocate` to a
  place that may be and one that may not; `ready` of the other machine; `ready` while a
  program runs, with calls after it that meet what the warm start has left.
* *Relocation* has real tables; lengths of 400, 990 and 9000 bytes make all three areas
  succeed and fail. The longest has 216 places on the C128 and none on the C64.

The properties in words. `BusDiscipline` and `NoStrobeLost` have one exception, and
it is the code's: at the end of a reply the last strobe is not acknowledged, so
the PC may turn the port around and ping while the server still drives the
lines, and the ping's strobe may merge with the last one. The call then fails at its ping and
nothing is lost but the ping; `NeverOutOfStep` and `Implements` show that this is
all. `StrobesMeetOnlyAfterReply` is the same exception for the emulator, where the
strobe count takes the place of the latch. `CallsReturn` in `serial_returns` holds because
short commands are written at once (`Chunk` 16) and the firmware discards what it has
after a timeout; longer data breaks the framing, see below. `InFrame` is therefore
checked without faults only; with them it holds as long as a call is in step (`SerialFramed`, section 4). `SessionsEnd` leaves out where the code may really
hang, the loop after the reset of a C128: it exempts a machine that has no reset line, and
`BootTimes` has no server that is back at once. `ReadyMeansServing` is about a `ready` that
has not had to change the machine's mode (after that, `ready` only pings): it ends well with the
machine the client has tables for, no program running and a server, with the one exception of the
code, a RAM server of a C64 whose program had to be stopped. A fault suspends the promise of
`Implements` until the next call that begins in step, and calls that fail between their ping and their end do so only
then; `Implements` in `uart` suspends it from a flush that was interrupted on, and permits a crowded ring
to drop a byte or to look empty. `IoIsSpared` is about the cells that are written, not about whose
choice of memory is followed. `SparesServer` leaves out
what the user forces, and a transfer past the top of memory.

### Disagreements between the code and what it says

One is a run that TLC must find violated; `PROJECT.json` quotes the lines.

* `run`: `uninstall` of the RAM server stores the bytes of the system's vector
  swapped ($31ea).

### Observations

Met while modelling, where the code does what its documentation or comments do not
say. They are part of the models as they are in the code; none has a run of its own.

* On a C64 the search for a new place never tries the end of lower memory:
  `upper` and `lower` are taken from the table the wrong way round, and `memtop` becomes
  the end of an area that starts above it (`client.c:996-1000`).
* The new place may overlap the server that is still running and that is to
  receive it (`client.c:1011`); `Commands` lets such a load fail or succeed.
* `relocate` refuses a place *inside* ROM or I/O; one that straddles their border is
  accepted, though `help.txt:190` has it otherwise (`client.c:1106-1122`).
* `load --memory` without `--bank` into the I/O area has the memory that was given replaced
  (`client.c:654-660`).
* A servant64 send that times out at its last byte is reported as complete, and a
  receive is filled up with 0xff and counted the same way (`servant64/xlink.c:291, 323`);
  the USB firmware, too, may report a send as complete that was not.
* After a timeout in a long load over the serial line the rest of the data is taken
  for commands, and all later ones are read shifted, a reset included
  (`servant64/xlink.c:292`). A load of eight bytes that is not acknowledged violates `InFrame`.
* `uart_flush` copies the index in two halves; a byte that arrives between them can
  leave the ring full of old bytes instead of empty (`uart.c:752-755`). `whole` is
  FALSE from then on.
* `ready` stops a running program by a jump to the machine's warm start, $fe66 on a C64
  (`xlink.c:294`, `machine.c:22`), which is that of STOP and RESTORE: it restores the vector at $0314,
  through which a RAM server lives (`server64.asm:19-24`), and puts PA2 high. `ready` succeeds all the same; no server is left
  in RAM, and the next call to one in the kernal may begin with a change of PA2 that
  it takes for the answer to its ping. `help.txt:118` asks for a server that is installed permanently.
* A ping can be reported as answered because a reset of the C64 changed PA2
  (`parport.c:163`): `help.txt` says "if the server responds". For the same reason
  `ready` can fail although the server would be there in time, and can end well on a C128 that
  it has just told to become a C64.
* The loop that waits for a C128 to be gone has no bound (`xlink.c:211`): without a reset
  line, or on a machine whose server goes on answering, it does not end.
* `next` (`server.h:114-126`) tests for the end after it has advanced, so that a load of
  an empty file, or a fill of an empty range, leaves the server waiting for 65536 bytes; the
  requests of the wire-level runs have data, `Commands` has the empty ones.
* `usb.c:217` counts down in steps of ten and stops at exactly zero only; all its
  callers pass multiples of ten.

### Fairness

* *Parallel port*: weak fairness of the server (its loops and the 60 Hz interrupt
  run), strong fairness of the client: a wait polls the clock as well as the
  port, so it does not matter that the server may become blocked and
  unblocked again; it gives up in the end.
* *Serial line*: weak fairness of client, firmware and server, strong fairness of
  the two timeouts (the 25 questions of a ping; the firmware's timer).
* *USB*: weak fairness of the client, of the firmware with its watchdog, and of the server;
  strong fairness of the two timeouts as over the serial line.
* *Shared memory*: weak fairness of both processes, strong fairness of the client's waits
  giving up.
* *UART*: weak fairness of the program and of the transmit interrupt (the line becomes
  free after each byte). Nothing is assumed of the line that brings bytes.
* *Commands*, *Relocation*: the process runs.

Nothing is assumed of the user (who may make no call, or never install a
server), of faults, or of the foreground program; in `serial_returns` there is no
masking because the bound of 25 questions is not modelled by a counter.

## 4. Proofs

`tlapm` checks all of them; no step is left unproved. Assumptions are the named
`ASSUME`s on constants; TLC evaluates each in the runs.

**`XLinkProofs`** begins with `TypeCorrect == Spec => []TypeOK` for every set of
requests, memory, server and environment. Typing is not inductive by itself: the
client takes `Out(req)[nsent + 1]`, the server takes `hdr[5]`, `hdr[3..6]` and
`Info(mem)[sidx + 1]`, and each is a byte only if the count is within bounds. The
invariant is `Inv == TypeOK /\ ClientInv /\ ServerInv`; `ClientInv` says how far a send can be at each
place, `ServerInv` that the header is complete wherever it is used
and that the identification is not overrun. One lemma per action shows that `Inv`
is preserved; typing of the composition follows with `PTL`. The lemmas on bytes, words
and memory (`LoHi`, `WordAddress`, `PutMemory`...) come first.

It then proves, for all requests and any environment, that PC and server
take turns as long as the current call began in step: `DrivenFromOneEnd` (`BusDiscipline`) and
`StrobesAreSeen` (`NoStrobeLost`). Neither says what keeps the ends together, so the
inductive invariant has to: `IndInv == Inv /\ Lines /\ Progress /\ (clean => Paired)`. `Lines` ties
the directions of the data lines to the places of each end; `Progress` says what a
call knows of itself at each place; `Paired` has, for each place of the client, the
places the server may be in, what FLAG and PA2 hold, how many bytes of the request the
server has, that they are the right ones (`Headed`), and where its cursor is
(`AwaitsByte`, `SeesByte`, `HasByte`... up to `Outcome`). The address arithmetic comes first: the bytes
an address was cut into make the address again (`WordOfBytes`), and the
cursor meets the end of a transfer after as many bytes as were sent and not before, wrapping
at the top of memory. One lemma per action. `StaysInStep` (`NeverOutOfStep`) needs
`Undisturbed`: no faults, no reset, no transfer of no bytes, and no `run` of a RAM server,
which takes itself away; that is how the run `clean` is set up, but for every request and memory.

Last it proves `Implementation == Spec => Implements` from that invariant: every
step of PC, server and environment is a step of `RemoteMemory` under the
refinement mapping, or changes nothing its caller can see. Where a call began in step, the
byte that a load stores is the next one of the request, the relink of BASIC falls
together with the last one, a byte that is read is the next of the memory or of the
identification, control goes where the header says, and the result is TRUE if all of it is
done and FALSE if nothing is. Faults and what follows them are steps with `trusted` FALSE.
The proof found that `RemoteMemory` had to decide at the beginning of a load, as the server
does, whether it goes to where BASIC programs start (`basic`): a load may overwrite the
pointer it is compared with.

**`UsbProofs`** proves all safety properties of `UsbXLink`, for every size of a packet
and of a transfer, all requests, memories, servers and faults: `UsbTypeCorrect` (`TypeOK`),
`UsbDrivenFromOneEnd` (`BusDiscipline`), `UsbStrobesAreSeen` (`NoStrobeLost`), `UsbStaysInStep`
(`NeverOutOfStep`) and `UsbImplementation` (`Implements`). Board and driver together are seen as the
driver of the parallel port: `At`, `Sent`, `Got` and `Result` say where that one would be, how
many bytes it would have sent, what it would have received and what it would return, and
`Port == INSTANCE XLinkProofs WITH pc <- At, ...` makes the lemmas about the parallel port
lemmas about this view. What was proved of the server is used as it is; the cable and the
server are the same from either side (`SameCable`, `SameServer`, `SameSteps`), the assumptions on constants
carry over (`Assumptions`).
* `KindInv` is typing with the bounds that make it inductive: `BoardInv` (a byte is sent or strobed for only
  below the size of the transfer), `CallInv` (which part of the request is being moved, and how much of it).
* `CleanInv` says, for a call in step, that the board works on what the driver waits for and
  how the lines are meanwhile. `SendView` and `ReplyView` are the heart of it: wherever the parts of a request
  are cut into transfers, the byte on the lines is the one the parallel port would have there, and the last
  transfer of the last part ends with the last byte. For an identification that hangs on
  the size of the name, which comes in its first reply (`Named`).
* Each step of driver or board is then a step of the parallel port (`PreparingMoves`, `SendMoves`,
  `ReceiveMoves`...), or handing over a transfer and hearing how it went, which is nothing to it (`Silent`); so the pairing
  of PC and server is kept (`Standing == Viewing /\ Port!Paired`), and `UsbInv == KindInv /\ (clean => Standing)`
  is inductive.
* `NeverOutOfStep` adds that nobody waits for a server that does not listen (`Kept`): a timeout
  of the board needs the server to be blocked with the strobe seen and unanswered, which the pairing excludes. It has
  the hypotheses of the parallel port (`Undisturbed`): no program that masks interrupts, no transfer of no bytes, no
  `run` on a RAM server.
* `Implements` promises nothing from a fault, or from the board giving up in a transfer (of which the PC may
  be told as a success), to the next call that begins in step. Both drivers map the variables of `RemoteMemory` alike (`SeenAlike`), so that a step the
  parallel port promises is one USB promises (`SamePromise`).

**`SerialLineProofs`** and **`SerialProofs`** prove all safety properties of `SerialXLink`, for every
size of a write (`Chunk`), all requests, memories, servers and faults. The first has the view, what is
on the line, and `SerialTypeCorrect` (`TypeOK`). The second, which extends it, has
`SerialDrivenFromOneEnd` (`BusDiscipline`), `SerialStrobesAreSeen` (`NoStrobeLost`), `SerialAnswersMatch`
(`AnswersMatch`), `SerialFramed` (`InFrame` while `clean`), `SerialImplementation` (`Implements`) and, under
`Undisturbed`, `SerialStaysInStep` (`NeverOutOfStep`) and `SerialStaysFramed` (`InFrame` at any time).
As for USB, board and driver together are seen as the driver of the parallel port
(`Port == INSTANCE XLinkProofs WITH pc <- At, nsent <- Sent, got <- Got, result <- Result,
initialized <- TRUE`). What is new is that the driver runs ahead of the board when it writes, and behind it
when it reads.
* The parallel port is where the *board* is. `Ahead == rx \o Due` is what the board has still to take:
  what is on the line, and what the driver will write before it reads again. A write moves
  bytes from `Due` to `rx` and leaves `Ahead` alone, whatever its size (`PingRunsAhead`,
  `SendRunsAhead`, `ReceiveRunsAhead`), so `At` and `Sent` are read off the length of `Ahead`. In the other direction, `Got` is what the driver has read and what is on its way to it.
* `KindInv` is typing with the bounds that make it inductive, in step or not: the size of a transfer may
  come from a misaligned command, but the board never works beyond it (`BoardInv`), and which part of the
  request is being moved and how much of it (`CallInv`).
* `Line` says what both directions of the line hold at each place, and where in a command the board is:
  between calls (`BetweenCalls`), in a ping (`PingLine`), in a send (`SendLine`), in a receive (`ReceiveLine`).
  With it, the agreement on where a command begins is a fact about lengths, and `AnswersMatch` and `InFrame` follow
  from it. `Naming` is the size of the name in an identification.
* Each step is then a step of the parallel port, or one that port would not see (`SameView`, `Follows`), so
  that the pairing of PC and server is kept: `Standing == Line /\ Naming /\ Port!Together`, and
  `SerialInv == KindInv /\ (clean => Standing)` is inductive.
* `SerialStaysInStep` and `SerialStaysFramed` add that nobody waits for a server that does not listen (`Kept`), so
  that no timeout ends a transfer. `Undisturbed` is how the run `serial_clean` is set up: no environment, a server in ROM
  (a user who installs the RAM server in the middle of a command clears the strobe that is pending), no
  reset and no transfer of no bytes.
* `Implements` needs one more invariant, `Replied`: the driver reads when the server may be done already, so
  that what is on its way must be remembered to be what the server held.

The proof found that a timeout while the PC is still writing could not leave the call in step, as `FirmwareGivesUp`
had it, and that the PC may have an answer waiting while it still finds out that an empty load has no data to
write, which `AnswersMatch` now says.

**`RelocationProofs`** proves, for every machine table, server and load,
`FoundIsFreeAlways`, `ClosestToEndAlways` and `FailsOnlyIfBlockedAlways`, and, for loads
that do not end before they start (`client.c:425` rejects the others), `FindsPlaceAlways`: the
search, address by address, comes out where `Machine!Place` says, which is what `Commands`
takes for it. The inductive invariant says that the place being tried has the length of the
server, is at or below the end of its area, and that all places above it, and all places of the
areas searched before, are in the way of the load. It needs
`TableAssumption`: the areas begin above address zero, since `range_move` refuses to go below it.
`ClearAbove` is why `Place` may look at two candidates only: a clear place has one of them
above it, or is one.

**`CommandsProofs`** proves `SessionTypes` and `ServerIsSpared` for every set of command
lines, every place of the RAM server and any number of resets: whatever load, run, fill
or poke write is clear of the server that takes it. The argument spans several
calls, so the invariant carries it from one to the next: at `"image"` and `"start"` the place chosen
for a load is clear of its data; at `"write"` the place of the server is, or there is none. It
holds although the machine may be reset between any two calls, because a RAM server
does not survive a reset or a warm start (`Restart` and `WarmStart64` put it `Nowhere`) and nobody else moves it. `PlaceIsClear`
is the lemma on `Machine!Place`, `CellsApart` leads from the comparison of `range.c`, in which an
empty range (a poke) overlaps what it touches, to cells that are not shared. Calls
that leave the command alone are dealt with at once by `GoingOn`. The type
invariant is more than types: a server that takes calls has booted, and one whose PA2 has moved without
the client having seen it is in the kernal. `LoadsSpareIo` (`IoIsSpared`) follows from
the decision itself, for every file and option: a load whose cells touch the I/O area has a range
that overlaps it, whatever is skipped or cut off. `ReadyIsReady` (`ReadyMeansServing`) needs one more
invariant, `SameMachine`: a server that still answers at `"mode"` is that of the machine
`"who"` found, because only a reset makes it another, after which the call in progress fails; and
the warm start is only come to with a program running. `PingIsRemote`, `TakenIsRemote`,
`AstrayIsRemote` and `RemoteKinds` say what a call may do to the machine, so that no invariant has to go
through the ways a call can come out one by one.

**`UartProofs`** proves, for rings of every size and every interleaving of interrupts,
`IndicesStayInRings` (an index put together from two bytes, each possibly of
another time, stays in its ring) and `TransmitsAlways`: the transmit interrupt is
never left disabled with bytes in the ring, unless `uart0_putc` is about to enable it.
`RingsAreQueues` (`Implements`) proves that the rings are the queues of `Queues`. Its
invariant says what the program may rely on while it holds half an index (`Reads`, `Writes`):
a tail it has not stored is the successor of the one in memory, a head half stored is one the interrupt
cannot have reached, a low byte seen before the interrupt moved the head is that of a slot
other than the tail. The ring arithmetic is a layer of lemmas of its own: positions and indices
correspond (`Positions`, `AtPositions`), what a step of head or tail does to the distance of
the two (`HeadMoves`, `TailMoves`) and to the queue between them (`QueueGrows`, `QueueShrinks`), and that a torn index
belongs to a crowded ring (`TornTail`, `TornHead`), which is where `Queues` promises less. It promises
nothing once an interrupt has come between the two halves of the copy that a flush makes (`whole`).

**`SharedMemoryProofs`** proves `StrobesTakeTurns` and `CallsAreFaithful` for all requests
that satisfy `CallsAssumption` (the first byte identifies the command, and is neither that of a ping
nor what the port stores of itself, 255). The client strobes with `flag++`, the
emulator with `flag--`, and nothing locks the byte: what keeps them apart is the handshake. The
invariant pairs each place of the client with the places the server may then be in, with
what `flag` and PA2 hold and with how many bytes were taken or delivered
(`Beginning`, `Pinging`, `Sending`, `Awaiting`, `Receiving`, `Closing`). It says so
only while `clean` holds: a call that began in step and lost no count. The one place where strobes can
meet, the ping after a reply, ends `clean` if a count is lost there; after that `Kinds`,
`ClientInv` and `ServerInv` bound each side by itself. One lemma per action.

**Only model-checked**: liveness (`CallsReturn`, `Terminates`, `SessionsEnd`, `PutReturns`,
`ReadReturns`), which the prover does not do under fairness. Every other property of a passing
run is stated by a theorem. The violation in `run` is a counterexample and stays with TLC.

## 5. What is not modelled

* What requests do to the server itself. Its transfer addresses ($c1 to $c4), memory and bank
  ($fe, $ff), the stack, the code that the ROM server copies to $0100 before a
  peek or a slow save (`kernal64.asm:174-196`), the vector at $0314, the processor port, the registers of CIA 2 and the
  code of a RAM server are all memory that a load or a poke can write and a save or a peek
  can read (`OwnCells` in `Server`). The model keeps them in variables of their own, apart from `mem`.
  `RequestAssumption` therefore leaves out requests that touch them: the runs have none, and the theorems about
  the three wire-level compositions are about all others. That the client program keeps
  loads away from a RAM server is `SparesServer`; nothing keeps it from the other cells. A command
  misread out of step, after a fault, may hit them, too; there the model has a server that goes on.
* Other programs on the C64 that change memory, and cells that do not read as written: ROM over RAM, I/O registers.
* Answers still on their way to the PC when a new process opens the serial port: `tcflush`
  discards those that have arrived (`serial.c:119`), the model all of them.
* The memory configurations of load, save, peek and poke (`mem`, `bank`): the header carries
  them, the stores of the server ignore them; `Commands` has the choice the client makes of them.
  Blanking of the screen.
* The begin/send/receive/end stream (`xlink.c:595-685`): the other end is a program that
  users of the library write, which the repository does not have.
* Of the client program: save with `find_basic_program`, `server`, `kernal`, `benchmark` and
  `bootloader`, what identify and ping print, the parsing of arguments.
* Read errors and the watchdog of the serial driver; of USB the device lookup,
  `CMD_READ`, which no call uses, and the jump to the boot loader.
* The other three channels of the UART library, which repeat the first, and its `peek` and `puts`,
  which the firmware does not call.
* The C128 server: what a client makes of a C128 is in `Commands`, its bank switching and far
  stores are not.
* Build tools, loader, utilities, test suite: no protocol state.
* LUFA (`driver/at90usb162/LUFA`): a vendored USB stack for several families of
  controllers, of which the firmware uses the control endpoint. With its drivers and
  headers it is by far the most of the repository's 69 thousand lines, so that the
  lines modelled here are a small share of the whole, whatever of xlink proper they
  cover. `UsbBoard` takes endpoints as the USB standard has them.

## 6. Plan

Done: the parallel port, the serial line and the USB board with the abstract specification all
three implement, and all safety theorems about them; relocation, commands, UART and shared memory with
theirs.

Next, modules:

1. A C128 variant of `Server` with its memory configurations.
2. `find_basic_program` and save on top of `Commands`.
3. `Stream`, with an outline of a peer: no deadlock when directions turn.
