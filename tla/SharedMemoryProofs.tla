------------------------- MODULE SharedMemoryProofs -------------------------
(***************************************************************************)
(* The driver of the emulator and the port of the patch take turns at the  *)
(* bytes they share, for all requests: two strobes meet at the ping after  *)
(* a reply only, and a call does what it is for or nothing at all.         *)
(***************************************************************************)
EXTENDS SharedMemory, SequenceTheorems, TLAPS

Places == {"idle", "open", "ping", "pingStrobe", "pingWait", "output", "write",
           "strobe", "wait", "turnStrobe", "readWait", "read", "readStrobe",
           "reset", "close"}

ServerPlaces == Waiting \cup {"fetch", "latch", "ack", "put", "offer", "input"}

Replying == {"turnStrobe", "readWait", "read", "readStrobe"}

(* What the variables hold, of use to every step. *)
Kinds ==
  /\ flag \in Byte /\ pa2 \in {0, 1} /\ last \in {0, 1} /\ data \in Byte
  /\ req \in Requests /\ count \in Nat /\ got \in Seq(Byte)
  /\ loaded \in Byte \cup {None}
  /\ taken \in Seq(Byte) /\ sent \in Nat
  /\ emulated \in (1 .. 255) \cup {None}

(* How far the client is, whatever the server does. *)
ClientInv ==
  /\ pc \in Places
  /\ loaded # None => pc \in Strobing
  /\ pc \in {"ping", "pingStrobe", "pingWait"} => req # Reset
  /\ pc \in {"output", "write", "strobe", "wait"} \cup Replying => req \in Calls
  /\ pc \in {"open", "ping", "pingStrobe", "pingWait", "output"} => count = 0
  /\ pc \in {"write", "strobe", "wait"} => count < Len(req.out)
  /\ pc \in Places \ (Replying \cup {"idle", "close"}) => got = <<>>
  /\ pc = "turnStrobe" => got = <<>> /\ count = 0 /\ req.in # <<>>
  /\ pc \in {"readWait", "read"} => count < Len(req.in)
  /\ pc = "readStrobe" => count \in 1 .. Len(req.in)
  /\ pc \notin {"idle", "close"} => ~result
  /\ pc \in {"write", "strobe", "wait"} => direction = "output"
  /\ pc \in Replying => direction = "input"

(* How far the server is, whatever the client does. *)
ServerInv ==
  /\ spc \in ServerPlaces
  /\ emulated # None => spc \in Waiting
  /\ spc \in {"read", "turn", "put", "offer", "wait"} => Commanded # {}
  /\ spc \in {"latch", "read"} => taken # <<>>
  /\ spc = "turn" => Command.in # <<>>
  /\ spc = "put" => sent < Len(Command.in)
  /\ spc \in {"offer", "wait"} => sent \in 1 .. Len(Command.in)

-----------------------------------------------------------------------------
(* Where the two are together, while the current call is in step. *)
Quiet == flag = 0 /\ emulated = None
Asked == flag = 1 /\ emulated \in {1, None}
Level == pa2 = last

(* s is the first n bytes of t. *)
Starts(s, t, n) == Len(s) = n /\ \A i \in 1 .. n : s[i] = t[i]

Took(n) == Starts(taken, req.out, n)
Got(n)  == Starts(got, req.in, n)

NoCommand == {PingByte, 255}

Beginning ==
  /\ InStep
  /\ pc # "open" => Level
  /\ pc = "pingStrobe" => data \in NoCommand

Pinging ==
  /\ data \in NoCommand
  /\ \/ spc \in {"main", "input"} /\ (Asked \/ Quiet) /\ Level
     \/ Ending /\ flag \in 0 .. 2 /\ Level
     \/ spc = "fetch" /\ Quiet /\ Level
     \/ spc = "ack" /\ Quiet /\ Level /\ Len(taken) = 1 /\ taken[1] \in NoCommand
     \/ spc = "main" /\ Quiet /\ ~Level

(* n bytes of the request have been taken, and the server awaits another. *)
Between(n) == IF n = 0 THEN spc = "main" ELSE spc = "read" /\ Took(n)

After(n) == IF n < Len(req.out) THEN "read" ELSE IF req.in # <<>> THEN "turn" ELSE "main"

Sending ==
  /\ Between(count) /\ Quiet /\ Level
  /\ loaded \in {0, None}
  /\ pc = "strobe" => data = req.out[count + 1]

Awaiting ==
  /\ data = req.out[count + 1]
  /\ \/ Between(count) /\ Asked /\ Level
     \/ /\ IF count = 0 THEN spc = "fetch" ELSE spc = "latch" /\ Took(count)
        /\ Quiet /\ Level
     \/ spc = "ack" /\ Took(count + 1) /\ Quiet /\ Level
     \/ spc = After(count + 1) /\ Took(count + 1) /\ Quiet /\ ~Level

Turning == spc = "turn" /\ Quiet /\ Level /\ loaded \in {0, None}

Offering ==
  \/ /\ IF count = 0 THEN spc = "turn" ELSE spc = "wait" /\ sent = count
     /\ Asked /\ Level
  \/ spc = "put" /\ sent = count /\ Quiet /\ Level
  \/ /\ \/ spc = "offer" /\ Level
        \/ spc = "wait" /\ ~Level
     /\ sent = count + 1 /\ Quiet /\ data = req.in[count + 1]

Receiving ==
  /\ Took(Len(req.out)) /\ Got(count)
  /\ CASE pc = "turnStrobe" -> Turning
       [] pc = "readWait"   -> Offering
       [] pc = "read"       -> /\ spc = "wait" /\ sent = count + 1 /\ Quiet /\ Level
                               /\ data = req.in[count + 1]
       [] pc = "readStrobe" -> /\ spc = "wait" /\ sent = count /\ Quiet /\ Level
                               /\ loaded \in {0, None}

Closing ==
  req \in Calls =>
    /\ InStep
    /\ IF result THEN Took(Len(req.out)) /\ Got(Len(req.in))
                 ELSE count = 0 /\ got = <<>>

(* Each place of the client goes with some places of the server. *)
InTurn ==
  /\ pc \in {"open", "ping", "pingStrobe"} => Beginning
  /\ pc = "pingWait" => Pinging
  /\ pc \in {"output", "write", "strobe"} => Sending
  /\ pc = "wait" => Awaiting
  /\ pc \in Replying => Receiving
  /\ pc = "close" => Closing

(* Once a count is lost, or a call begins out of step, nothing is said of    *)
(* where the two are: only that each of them is within its own bounds.      *)
Inv ==
  /\ Kinds
  /\ ClientInv
  /\ ServerInv
  /\ clean => InTurn

-----------------------------------------------------------------------------
(* What the assumption says of a request. *)
LEMMA CallFacts ==
  ASSUME NEW c \in Calls
  PROVE  /\ c.out \in Seq(Byte) /\ Len(c.out) \in Nat /\ Len(c.out) >= 1
         /\ c.in \in Seq(Byte) /\ Len(c.in) \in Nat
         /\ c.out[1] \notin NoCommand
         /\ c # Ping /\ c # Reset
<1>1. c.out \in Seq(Byte) /\ c.out # <<>> /\ c.in \in Seq(Byte)
  BY CallsAssumption DEF CallsAssumption
<1>2. Len(c.out) \in Nat /\ Len(c.out) >= 1 /\ Len(c.in) \in Nat
  BY <1>1
<1>3. c.out[1] \notin NoCommand
  BY CallsAssumption DEF CallsAssumption, NoCommand
<1> QED
  BY <1>1, <1>2, <1>3 DEF Ping, Reset

LEMMA RequestFacts ==
  ASSUME NEW r \in Requests
  PROVE  /\ r.out \in Seq(Byte) /\ Len(r.out) \in Nat
         /\ r.in \in Seq(Byte) /\ Len(r.in) \in Nat
<1>1. CASE r \in Calls
  BY <1>1, CallFacts
<1>2. CASE r = Ping
  BY <1>2 DEF Ping
<1>3. CASE r = Reset
  BY <1>3 DEF Reset, Byte
<1> QED
  BY <1>1, <1>2, <1>3 DEF Requests

(* The first byte tells which command it is, ... *)
LEMMA Commanding ==
  ASSUME Commanded # {}
  PROVE  /\ Command \in Calls
         /\ taken # <<>> /\ taken[1] = Command.out[1]
  BY DEF Command, Commanded

LEMMA CommandIsRequest ==
  ASSUME req \in Calls, NEW n \in Nat, n >= 1, taken \in Seq(Byte), Took(n)
  PROVE  Commanded # {} /\ Command = req
<1>1. taken # <<>> /\ taken[1] = req.out[1]
  BY DEF Took, Starts
<1>2. req \in Commanded
  BY <1>1 DEF Commanded
<1>3. Command \in Calls /\ Command.out[1] = req.out[1]
  BY <1>1, <1>2, Commanding
<1> QED
  BY <1>2, <1>3, CallsAssumption DEF CallsAssumption

(* ... and what the PC pings with, or the port itself stores, is none. *)
LEMMA NoneCommanded ==
  ASSUME taken # <<>>, taken[1] \in NoCommand
  PROVE  Commanded = {}
  BY CallFacts DEF Commanded

LEMMA SameCommand ==
  ASSUME taken # <<>> , taken' # <<>>, taken'[1] = taken[1]
  PROVE  Commanded' = Commanded /\ Command' = Command
  BY DEF Commanded, Command

LEMMA ServerFrame ==
  ASSUME ServerInv, UNCHANGED server
  PROVE  ServerInv'
  BY DEF ServerInv, server, Commanded, Command

LEMMA ClientFrame ==
  ASSUME ClientInv, UNCHANGED client
  PROVE  ClientInv'
  BY DEF ClientInv, client

LEMMA Increment ==
  ASSUME NEW n \in 0 .. 255
  PROVE  (n + 1) % 256 \in 0 .. 255 /\ (n < 255 => (n + 1) % 256 = n + 1)
<1>1. CASE n = 255
  BY <1>1
<1>2. CASE n < 255
  BY <1>2, SMTT(30)
<1> QED
  BY <1>1, <1>2

LEMMA InStepFrame ==
  ASSUME UNCHANGED << flag, spc, taken, sent, emulated >>
  PROVE  InStep' <=> InStep
  BY DEF InStep, Ending, Command, Commanded

-----------------------------------------------------------------------------
(* The steps of the client. *)

LEMMA CallInv == Inv /\ Call => Inv'
<1> SUFFICES ASSUME Inv, Call PROVE Inv'
  OBVIOUS
<1>1. Kinds'
  BY RequestFacts DEF Inv, Kinds, ClientInv, Call, port, server, Byte, Written,
     PingByte, Answered
<1>2. ClientInv'
  BY CallFacts, RequestFacts DEF Inv, Kinds, ClientInv, Call, Places, Strobing,
     Replying, Answered, Timed, Requests, None, Ping, Reset
<1>3. ServerInv'
  BY ServerFrame DEF Inv, Call, server
<1>4. clean' => InTurn'
  BY InStepFrame DEF Inv, Kinds, ClientInv, Call, InTurn, Replying, server,
     port, Beginning, Level
<1> QED
  BY <1>1, <1>2, <1>3, <1>4 DEF Inv

LEMMA NewProcessInv == Inv /\ NewProcess => Inv'
<1> SUFFICES ASSUME Inv, NewProcess PROVE Inv'
  OBVIOUS
<1>1. Kinds'
  BY RequestFacts DEF Inv, Kinds, ClientInv, NewProcess, port, server, Byte,
     Written, PingByte, Answered
<1>2. ClientInv'
  BY CallFacts, RequestFacts DEF Inv, Kinds, ClientInv, NewProcess, Places,
     Strobing, Replying, Answered, Timed, Requests, None, Ping, Reset
<1>3. ServerInv'
  BY ServerFrame DEF Inv, NewProcess, server
<1>4. clean' => InTurn'
  BY InStepFrame DEF Inv, Kinds, ClientInv, NewProcess, InTurn, Replying,
     server, port
<1> QED
  BY <1>1, <1>2, <1>3, <1>4 DEF Inv

LEMMA OpenInv == Inv /\ Open => Inv'
<1> SUFFICES ASSUME Inv, Open PROVE Inv'
  OBVIOUS
<1>1. Kinds'
  BY RequestFacts DEF Inv, Kinds, ClientInv, Open, port, server, Byte, Written,
     PingByte, Answered
<1>2. ClientInv'
  BY CallFacts, RequestFacts DEF Inv, Kinds, ClientInv, Open, Places, Strobing,
     Replying, Answered, Timed, Requests, None, Ping, Reset
<1>3. ServerInv'
  BY ServerFrame DEF Inv, Open, server
<1>4. clean' => InTurn'
  BY InStepFrame DEF Inv, Kinds, ClientInv, Open, InTurn, Replying, server,
     port, Beginning, Level, InStep, Ending, Command, Commanded
<1> QED
  BY <1>1, <1>2, <1>3, <1>4 DEF Inv

LEMMA OpenFailsInv == Inv /\ OpenFails => Inv'
<1> SUFFICES ASSUME Inv, OpenFails PROVE Inv'
  OBVIOUS
<1>1. Kinds'
  BY RequestFacts DEF Inv, Kinds, ClientInv, OpenFails, port, server, Byte,
     Written, PingByte, Answered
<1>2. ClientInv'
  BY CallFacts, RequestFacts DEF Inv, Kinds, ClientInv, OpenFails, Places,
     Strobing, Replying, Answered, Timed, Requests, None, Ping, Reset
<1>3. ServerInv'
  BY ServerFrame DEF Inv, OpenFails, server
<1>4. clean' => InTurn'
  BY InStepFrame DEF Inv, Kinds, ClientInv, OpenFails, InTurn, Replying,
     server, port
<1> QED
  BY <1>1, <1>2, <1>3, <1>4 DEF Inv

LEMMA WritePingInv == Inv /\ WritePing => Inv'
<1> SUFFICES ASSUME Inv, WritePing PROVE Inv'
  OBVIOUS
<1>1. Kinds'
  BY RequestFacts DEF Inv, Kinds, ClientInv, WritePing, port, server, Byte,
     Written, PingByte, Answered
<1>2. ClientInv'
  BY CallFacts, RequestFacts DEF Inv, Kinds, ClientInv, WritePing, Places,
     Strobing, Replying, Answered, Timed, Requests, None, Ping, Reset
<1>3. ServerInv'
  BY ServerFrame DEF Inv, WritePing, server
<1>4. clean' => InTurn'
  BY InStepFrame DEF Inv, Kinds, ClientInv, WritePing, InTurn, Replying,
     server, port, Beginning, NoCommand, Level
<1> QED
  BY <1>1, <1>2, <1>3, <1>4 DEF Inv

LEMMA StrobeLoadInv == Inv /\ StrobeLoad => Inv'
<1> SUFFICES ASSUME Inv, StrobeLoad PROVE Inv'
  OBVIOUS
<1>1. Kinds'
  BY RequestFacts DEF Inv, Kinds, ClientInv, StrobeLoad, port, server, Byte,
     Written, PingByte, Answered
<1>2. ClientInv'
  BY CallFacts, RequestFacts DEF Inv, Kinds, ClientInv, StrobeLoad, Places,
     Strobing, Replying, Answered, Timed, Requests, None, Ping, Reset
<1>3. ServerInv'
  BY ServerFrame DEF Inv, StrobeLoad, server
<1>4. clean' => InTurn'
  <2> SUFFICES ASSUME clean PROVE InTurn'
    BY DEF StrobeLoad
  <2>1. CASE pc = "pingStrobe"
    BY <2>1, InStepFrame DEF Inv, StrobeLoad, InTurn, Replying, port, server,
       Beginning, Level
  <2>2. CASE pc = "strobe"
    BY <2>2 DEF Inv, StrobeLoad, InTurn, Replying, port, server, Sending,
       Between, Took, Starts, Quiet, Level
  <2>3. CASE pc \in {"turnStrobe", "readStrobe"}
    BY <2>3 DEF Inv, StrobeLoad, InTurn, Replying, port, server, Receiving,
       Turning, Took, Got, Starts, Quiet, Level
  <2> QED
    BY <2>1, <2>2, <2>3 DEF StrobeLoad, Strobing
<1> QED
  BY <1>1, <1>2, <1>3, <1>4 DEF Inv

LEMMA StrobeStoreInv == Inv /\ StrobeStore => Inv'
<1> SUFFICES ASSUME Inv, StrobeStore PROVE Inv'
  OBVIOUS
<1>1. Kinds'
  <2>1. loaded \in 0 .. 255
    BY DEF Inv, Kinds, StrobeStore, Byte, None
  <2>2. flag' \in Byte
    BY <2>1, Increment DEF StrobeStore, Byte
  <2> QED
    BY <2>2 DEF Inv, Kinds, StrobeStore, server
<1>2. ClientInv'
  BY CallFacts, RequestFacts DEF Inv, Kinds, ClientInv, StrobeStore, Places,
     Strobing, Replying, Answered, Timed, Requests, None, Ping, Reset
<1>3. ServerInv'
  BY ServerFrame DEF Inv, StrobeStore, server
<1>4. clean' => InTurn'
  <2> SUFFICES ASSUME clean, flag = loaded, loaded # None PROVE InTurn'
    BY DEF StrobeStore
  <2>1. /\ pc \in Strobing /\ loaded \in 0 .. 255
        /\ pa2' = pa2 /\ last' = last /\ data' = data /\ loaded' = None
        /\ UNCHANGED << req, count, got, taken, sent, spc, emulated >>
    BY DEF Inv, ClientInv, Kinds, StrobeStore, server, Byte, None
  <2>2. CASE pc = "pingStrobe"
    <3>1. pc' = "pingWait"
      BY <2>2 DEF StrobeStore
    <3>2. InStep /\ Level /\ data \in NoCommand
      BY <2>2 DEF Inv, InTurn, Beginning
    <3>3. flag \in {0, 1}
      BY <2>1, <3>2 DEF InStep
    <3>4. flag' = flag + 1
      BY <3>3, Increment DEF StrobeStore
    <3>5. Pinging'
      BY <2>1, <3>2, <3>3, <3>4 DEF InStep, Ending, Pinging, Asked, Quiet,
         Level, Command, Commanded
    <3> QED
      BY <3>1, <3>5 DEF InTurn, Replying
  <2>3. CASE pc # "pingStrobe"
    <3>1. loaded = 0
      BY <2>1, <2>3 DEF Inv, InTurn, Sending, Receiving, Turning, Quiet,
         Strobing, Replying
    <3>0. flag' = 1
      BY <3>1, Increment DEF StrobeStore
    <3>2. CASE pc = "strobe"
      <4>1. pc' = "wait" /\ Sending
        BY <3>2 DEF StrobeStore, Inv, InTurn
      <4>2. Awaiting'
        BY <2>1, <3>0, <3>1, <3>2, <4>1 DEF Sending, Awaiting, Between, Took,
           Starts, Asked, Quiet, Level
      <4> QED
        BY <4>1, <4>2 DEF InTurn, Replying
    <3>3. CASE pc \in {"turnStrobe", "readStrobe"}
      <4>1. Receiving /\ req \in Calls
        BY <3>3 DEF Inv, InTurn, ClientInv, Replying
      <4>2. CASE pc' = "readWait"
        <5>1. ASSUME pc = "turnStrobe" PROVE Offering'
          <6>1. spc = "turn" /\ count = 0 /\ Quiet /\ Level
            BY <4>1, <5>1 DEF Receiving, Turning, Inv, ClientInv
          <6> QED
            BY <2>1, <3>0, <6>1 DEF Offering, Asked, Quiet, Level
        <5>2. ASSUME pc = "readStrobe" PROVE Offering'
          <6>1. spc = "wait" /\ sent = count /\ count # 0 /\ Quiet /\ Level
            BY <4>1, <5>2, CallFacts DEF Receiving, Inv, ClientInv
          <6> QED
            BY <2>1, <3>0, <6>1 DEF Offering, Asked, Quiet, Level
        <5>3. Offering'
          BY <3>3, <5>1, <5>2
        <5>4. Took(Len(req.out))' /\ Got(count)'
          BY <2>1, <4>1 DEF Receiving, Took, Got, Starts
        <5> QED
          BY <4>2, <5>3, <5>4 DEF InTurn, Receiving, Replying
      <4>3. CASE pc' = "close" /\ pc = "readStrobe" /\ count = Len(req.in) /\ result'
        <5>1. Command = req /\ Command' = Command
          BY <2>1, <4>1, CallFacts, CommandIsRequest DEF Receiving, Inv, Kinds,
             Command, Commanded
        <5>2. InStep'
          BY <2>1, <3>0, <4>1, <4>3, <5>1 DEF Receiving, InStep, Ending, Quiet
        <5>3. Closing'
          BY <2>1, <4>1, <4>3, <5>2 DEF Closing, Receiving, Took, Got, Starts
        <5> QED
          BY <4>3, <5>3 DEF InTurn, Replying
      <4> QED
        BY <3>3, <4>2, <4>3 DEF StrobeStore
    <3> QED
      BY <2>1, <2>3, <3>2, <3>3 DEF Strobing
  <2> QED
    BY <2>2, <2>3
<1> QED
  BY <1>1, <1>2, <1>3, <1>4 DEF Inv

LEMMA PingAnsweredInv == Inv /\ PingAnswered => Inv'
<1> SUFFICES ASSUME Inv, PingAnswered PROVE Inv'
  OBVIOUS
<1>1. Kinds'
  BY RequestFacts DEF Inv, Kinds, ClientInv, PingAnswered, port, server, Byte,
     Written, PingByte, Answered
<1>2. ClientInv'
  BY CallFacts, RequestFacts, ZenonT(40) DEF Inv, Kinds, ClientInv, PingAnswered, Places,
     Strobing, Replying, Answered, Timed, Requests, None, Ping, Reset
<1>3. ServerInv'
  BY ServerFrame DEF Inv, PingAnswered, server
<1>4. clean' => InTurn'
  <2> SUFFICES ASSUME clean PROVE InTurn'
    BY DEF PingAnswered
  <2>1. spc = "main" /\ Quiet /\ count = 0 /\ loaded = None
    BY DEF Inv, InTurn, ClientInv, Strobing, PingAnswered, Answered, Pinging,
       Level
  <2>2. CASE pc' = "close" /\ req = Ping
    BY <2>2, CallFacts DEF InTurn, Replying, Closing, PingAnswered
  <2>3. CASE pc' = "output"
    BY <2>1, <2>3 DEF InTurn, Replying, PingAnswered, Answered, Sending,
       Between, Quiet, Level, port, server
  <2> QED
    BY <2>2, <2>3 DEF PingAnswered
<1> QED
  BY <1>1, <1>2, <1>3, <1>4 DEF Inv

LEMMA OutputInv == Inv /\ Output => Inv'
<1> SUFFICES ASSUME Inv, Output PROVE Inv'
  OBVIOUS
<1>1. Kinds'
  BY RequestFacts DEF Inv, Kinds, ClientInv, Output, port, server, Byte,
     Written, PingByte, Answered
<1>2. ClientInv'
  BY CallFacts, RequestFacts DEF Inv, Kinds, ClientInv, Output, Places,
     Strobing, Replying, Answered, Timed, Requests, None, Ping, Reset
<1>3. ServerInv'
  BY ServerFrame DEF Inv, Output, server
<1>4. clean' => InTurn'
  BY InStepFrame DEF Inv, Kinds, ClientInv, Output, InTurn, Replying, server,
     port, Sending, Between, Took, Starts, Quiet, Level
<1> QED
  BY <1>1, <1>2, <1>3, <1>4 DEF Inv

LEMMA WriteInv == Inv /\ Write => Inv'
<1> SUFFICES ASSUME Inv, Write PROVE Inv'
  OBVIOUS
<1>1. Kinds'
  <2>1. req.out[count + 1] \in Byte
    BY CallFacts DEF Inv, Kinds, ClientInv, Write
  <2>2. data' \in Byte
    BY <2>1 DEF Write, Written, Byte
  <2> QED
    BY <2>2 DEF Inv, Kinds, Write, server
<1>2. ClientInv'
  BY CallFacts, RequestFacts DEF Inv, Kinds, ClientInv, Write, Places,
     Strobing, Replying, Answered, Timed, Requests, None, Ping, Reset
<1>3. ServerInv'
  BY ServerFrame DEF Inv, Write, server
<1>4. clean' => InTurn'
  BY DEF Inv, ClientInv, Write, Written, InTurn, Replying, server, Sending,
     Between, Took, Starts, Quiet, Level
<1> QED
  BY <1>1, <1>2, <1>3, <1>4 DEF Inv

LEMMA SentInv == Inv /\ Sent => Inv'
<1> SUFFICES ASSUME Inv, Sent PROVE Inv'
  OBVIOUS
<1>1. Kinds'
  BY RequestFacts DEF Inv, Kinds, ClientInv, Sent, port, server, Byte, Written,
     PingByte, Answered
<1>2. ClientInv'
  <2>1. req \in Calls /\ got = <<>> /\ loaded = None /\ count < Len(req.out)
    BY DEF Inv, ClientInv, Sent, Strobing, Replying, Places
  <2>2. Len(req.out) \in Nat /\ Len(req.in) \in Nat /\ count \in Nat /\ req # Reset
    BY <2>1, CallFacts DEF Inv, Kinds
  <2>3. UNCHANGED << req, got, loaded >>
    BY DEF Sent
  <2>4. CASE pc' = "write" /\ count + 1 < Len(req.out) /\ count' = count + 1
    <3>1. direction' = "output" /\ ~result'
      BY <2>4 DEF Sent, Inv, ClientInv
    <3> QED
      BY <2>1, <2>2, <2>3, <2>4, <3>1 DEF ClientInv, Places, Strobing, Replying
  <2>5. CASE pc' = "close"
    BY <2>1, <2>3, <2>5 DEF ClientInv, Places, Strobing, Replying
  <2>6. CASE pc' = "turnStrobe" /\ req.in # <<>> /\ count' = 0 /\ direction' = "input" /\ ~result'
    BY <2>1, <2>2, <2>3, <2>6 DEF ClientInv, Places, Strobing, Replying
  <2> QED
    BY <2>4, <2>5, <2>6 DEF Sent, Inv, ClientInv
<1>3. ServerInv'
  BY ServerFrame DEF Inv, Sent, server
<1>4. clean' => InTurn'
  <2> SUFFICES ASSUME clean PROVE InTurn'
    BY DEF Sent
  <2>1. /\ req \in Calls /\ got = <<>> /\ loaded = None
        /\ spc = After(count + 1) /\ Took(count + 1) /\ Quiet
    BY DEF Inv, InTurn, ClientInv, Strobing, Replying, Places, Sent, Answered,
       Awaiting, Level
  <2>2. /\ UNCHANGED << flag, pa2, data, req, got, loaded, taken, sent, spc, emulated >>
        /\ last' = pa2
    BY DEF Sent, Answered, port, server
  <2>3. count \in Nat /\ Len(req.out) \in Nat
    BY <2>1, CallFacts DEF Inv, Kinds
  <2>4. CASE count + 1 < Len(req.out) /\ pc' = "write" /\ count' = count + 1
    BY <2>1, <2>2, <2>3, <2>4 DEF After, InTurn, Replying, Sending, Between,
       Took, Starts, Quiet, Level
  <2>5. CASE count + 1 = Len(req.out) /\ req.in = <<>> /\ pc' = "close" /\ result'
    BY <2>1, <2>2, <2>3, <2>5 DEF After, InTurn, Replying, Closing, InStep,
       Took, Got, Starts, Quiet
  <2>6. CASE count + 1 = Len(req.out) /\ req.in # <<>> /\ pc' = "turnStrobe" /\ count' = 0
    BY <2>1, <2>2, <2>3, <2>6 DEF After, InTurn, Replying, Receiving, Turning,
       Took, Got, Starts, Quiet, Level
  <2> QED
    BY <2>4, <2>5, <2>6 DEF Sent
<1> QED
  BY <1>1, <1>2, <1>3, <1>4 DEF Inv

LEMMA ReceivedInv == Inv /\ Received => Inv'
<1> SUFFICES ASSUME Inv, Received PROVE Inv'
  OBVIOUS
<1>1. Kinds'
  BY RequestFacts DEF Inv, Kinds, ClientInv, Received, port, server, Byte,
     Written, PingByte, Answered
<1>2. ClientInv'
  BY CallFacts, RequestFacts DEF Inv, Kinds, ClientInv, Received, Places,
     Strobing, Replying, Answered, Timed, Requests, None, Ping, Reset
<1>3. ServerInv'
  BY ServerFrame DEF Inv, Received, server
<1>4. clean' => InTurn'
  <2> SUFFICES ASSUME clean PROVE InTurn'
    BY DEF Received
  <2>1. /\ Took(Len(req.out)) /\ Got(count)
        /\ spc = "wait" /\ sent = count + 1 /\ Quiet /\ data = req.in[count + 1]
    BY DEF Inv, InTurn, Replying, Received, Answered, Receiving, Offering,
       Level
  <2> QED
    BY <2>1 DEF Received, Answered, port, server, InTurn, Replying, Receiving,
       Took, Got, Starts, Quiet, Level
<1> QED
  BY <1>1, <1>2, <1>3, <1>4 DEF Inv

LEMMA ReadInv == Inv /\ Read => Inv'
<1> SUFFICES ASSUME Inv, Read PROVE Inv'
  OBVIOUS
<1>1. Kinds'
  BY RequestFacts DEF Inv, Kinds, ClientInv, Read, port, server, Byte, Written,
     PingByte, Answered
<1>2. ClientInv'
  BY CallFacts, RequestFacts DEF Inv, Kinds, ClientInv, Read, Places, Strobing,
     Replying, Answered, Timed, Requests, None, Ping, Reset
<1>3. ServerInv'
  BY ServerFrame DEF Inv, Read, server
<1>4. clean' => InTurn'
  <2> SUFFICES ASSUME clean PROVE InTurn'
    BY DEF Read
  <2>1. /\ Took(Len(req.out)) /\ Got(count) /\ loaded = None
        /\ spc = "wait" /\ sent = count + 1 /\ Quiet /\ Level /\ data = req.in[count + 1]
    BY DEF Inv, InTurn, ClientInv, Strobing, Replying, Read, Receiving
  <2>2. got' = Append(got, req.in[count + 1])
    BY <2>1 DEF Inv, ClientInv, Replying, Read
  <2>3. Starts(got', req.in, count + 1)
    BY <2>1, <2>2 DEF Got, Starts, Inv, Kinds
  <2> QED
    BY <2>1, <2>3 DEF Read, port, server, InTurn, Replying, Receiving, Took,
       Got, Starts, Quiet, Level
<1> QED
  BY <1>1, <1>2, <1>3, <1>4 DEF Inv

LEMMA GiveUpInv == Inv /\ GiveUp => Inv'
<1> SUFFICES ASSUME Inv, GiveUp PROVE Inv'
  OBVIOUS
<1>1. Kinds'
  BY RequestFacts DEF Inv, Kinds, ClientInv, GiveUp, port, server, Byte,
     Written, PingByte, Answered
<1>2. ClientInv'
  BY CallFacts, RequestFacts DEF Inv, Kinds, ClientInv, GiveUp, Places,
     Strobing, Replying, Answered, Timed, Requests, None, Ping, Reset
<1>3. ServerInv'
  BY ServerFrame DEF Inv, GiveUp, server
<1>4. clean' => InTurn'
  <2> SUFFICES ASSUME clean PROVE InTurn'
    BY DEF GiveUp
  <2>1. Quiet /\ Level /\ spc \in Waiting
    BY DEF GiveUp, Blocked, Quiet, Level
  <2>2. pc # "wait"
    BY <2>1 DEF Inv, InTurn, Awaiting, Asked, Quiet, Waiting
  <2>3. ASSUME pc = "readWait" PROVE FALSE
    <3>1. Offering
      BY <2>3 DEF Inv, InTurn, Receiving, Replying
    <3> QED
      BY <2>1, <3>1 DEF Offering, Asked, Quiet, Waiting
  <2>4. pc = "pingWait"
    BY <2>2, <2>3 DEF GiveUp, Timed
  <2>5. InStep
    BY <2>1, <2>4 DEF Inv, InTurn, Pinging, Quiet, Waiting, InStep
  <2> QED
    BY <2>4, <2>5, InStepFrame DEF Inv, ClientInv, Places, Replying, GiveUp,
       port, server, InTurn, Closing
<1> QED
  BY <1>1, <1>2, <1>3, <1>4 DEF Inv

LEMMA CloseInv == Inv /\ Close => Inv'
<1> SUFFICES ASSUME Inv, Close PROVE Inv'
  OBVIOUS
<1>1. Kinds'
  BY RequestFacts DEF Inv, Kinds, ClientInv, Close, port, server, Byte,
     Written, PingByte, Answered
<1>2. ClientInv'
  BY CallFacts, RequestFacts DEF Inv, Kinds, ClientInv, Close, Places,
     Strobing, Replying, Answered, Timed, Requests, None, Ping, Reset
<1>3. ServerInv'
  BY ServerFrame DEF Inv, Close, server
<1>4. clean' => InTurn'
  BY InStepFrame DEF Inv, Kinds, ClientInv, Close, InTurn, Replying, server,
     port
<1> QED
  BY <1>1, <1>2, <1>3, <1>4 DEF Inv

LEMMA ResetMachineInv == Inv /\ ResetMachine => Inv'
<1> SUFFICES ASSUME Inv, ResetMachine PROVE Inv'
  OBVIOUS
<1>1. Kinds'
  BY DEF Inv, Kinds, ResetMachine, Byte
<1>2. ClientInv'
  BY DEF Inv, ClientInv, ResetMachine, Places, Strobing, Replying
<1>3. ServerInv'
  BY DEF ServerInv, ResetMachine, ServerPlaces, Waiting
<1> QED
  BY <1>1, <1>2, <1>3 DEF Inv, ResetMachine

-----------------------------------------------------------------------------
(* The steps of the server. *)

LEMMA ReadFlagInv == Inv /\ ReadFlag => Inv'
<1> SUFFICES ASSUME Inv, ReadFlag PROVE Inv'
  OBVIOUS
<1>1. Kinds'
  BY DEF Inv, Kinds, ReadFlag, port, client, Byte
<1>2. ClientInv'
  BY ClientFrame DEF Inv, ReadFlag, client
<1>3. ServerInv'
  BY Commanding, CallFacts DEF Inv, Kinds, ServerInv, ReadFlag, ServerPlaces,
     Waiting, Commanded, Command
<1>4. clean' => InTurn'
  <2> SUFFICES ASSUME clean, clean' PROVE InTurn'
    BY DEF ReadFlag
  <2>0. UNCHANGED << pc, req, count, got, last, loaded, result >>
    BY DEF ReadFlag, client
  <2>1. ASSUME pc \in {"open", "ping", "pingStrobe"} PROVE Beginning'
    <3>1. (flag = 1 /\ Ending /\ emulated = None) \/ ~InStep
      BY DEF ReadFlag, InStep, Waiting, Inv, Kinds, Byte
    <3>2. InStep => InStep'
      BY <2>0, <3>1 DEF ReadFlag, port, InStep, Ending, Command, Commanded
    <3> QED
      BY <2>0, <2>1, <3>2 DEF Inv, InTurn, ReadFlag, port, Beginning, Level
  <2>2. ASSUME pc = "pingWait" PROVE Pinging'
    BY <2>0, <2>2 DEF Inv, Kinds, InTurn, ReadFlag, port, Pinging, Ending,
       NoCommand, Asked, Quiet, Level, Waiting, Replying, Commanded, Command
  <2>3. ASSUME pc \in {"output", "write", "strobe"} PROVE Sending'
    BY <2>0, <2>3 DEF Inv, Kinds, InTurn, ReadFlag, port, Sending, Between,
       Took, Starts, NoCommand, Asked, Quiet, Level, Waiting, Replying,
       Commanded, Command
  <2>4. ASSUME pc = "wait" PROVE Awaiting'
    BY <2>0, <2>4 DEF Inv, Kinds, InTurn, ReadFlag, port, Awaiting, Between,
       After, Took, Starts, NoCommand, Asked, Quiet, Level, Waiting, Replying,
       Commanded, Command
  <2>5. ASSUME pc \in Replying PROVE Receiving'
    BY <2>0, <2>5, ZenonT(40) DEF Inv, Kinds, InTurn, ReadFlag, port, Receiving, Turning,
       Offering, Took, Got, Starts, NoCommand, Asked, Quiet, Level, Waiting,
       Replying, Commanded, Command
  <2>6. ASSUME pc = "close" PROVE Closing'
    <3>1. (flag = 1 /\ Ending /\ emulated = None) \/ ~InStep
      BY DEF ReadFlag, InStep, Waiting, Inv, Kinds, Byte
    <3>2. InStep => InStep'
      BY <2>0, <3>1 DEF ReadFlag, port, InStep, Ending, Command, Commanded
    <3> QED
      BY <2>0, <2>6, <3>2 DEF Inv, InTurn, ReadFlag, port, Closing, Took, Got,
         Starts
  <2> QED
    BY <2>0, <2>1, <2>2, <2>3, <2>4, <2>5, <2>6 DEF InTurn
<1> QED
  BY <1>1, <1>2, <1>3, <1>4 DEF Inv

LEMMA ClearFlagInv == Inv /\ ClearFlag => Inv'
<1> SUFFICES ASSUME Inv, ClearFlag PROVE Inv'
  OBVIOUS
<1>1. Kinds'
  BY DEF Inv, Kinds, ClearFlag, client, Byte, None
<1>2. ClientInv'
  BY ClientFrame DEF Inv, ClearFlag, client
<1>3. ServerInv'
  BY Commanding, CallFacts DEF Inv, Kinds, ServerInv, ClearFlag, ServerPlaces,
     Waiting, Commanded, Command
<1>4. clean' => InTurn'
  <2> SUFFICES ASSUME clean, clean' PROVE InTurn'
    BY DEF ClearFlag
  <2>0. UNCHANGED << pc, req, count, got, last, loaded, result >>
    BY DEF ClearFlag, client
  <2>1. ASSUME pc \in {"open", "ping", "pingStrobe"} PROVE Beginning'
    BY <2>0, <2>1 DEF Inv, Kinds, InTurn, ClearFlag, port, Beginning, InStep,
       Ending, NoCommand, Asked, Quiet, Level, Waiting, Replying, Commanded,
       Command
  <2>2. ASSUME pc = "pingWait" PROVE Pinging'
    <3>1. Pinging /\ flag = emulated /\ emulated \in 1 .. 255
      BY <2>2 DEF Inv, InTurn, ClearFlag, Kinds
    <3>2. flag' = flag - 1 /\ emulated' = None /\ UNCHANGED << pa2, data >>
      BY <3>1 DEF ClearFlag
    <3>3. CASE spc = "main" /\ flag = 1
      <4>1. spc' = "fetch"
        BY <3>3 DEF ClearFlag
      <4> QED
        BY <2>0, <3>1, <3>2, <3>3, <4>1 DEF Pinging, Ending, Quiet, Level
    <3>4. CASE Ending /\ flag \in {1, 2}
      <4>1. spc' = "input"
        BY <3>4 DEF Ending, ClearFlag
      <4> QED
        BY <2>0, <3>1, <3>2, <3>4, <4>1 DEF Pinging, Ending, Quiet, Asked,
           Level
    <3> QED
      BY <3>1, <3>3, <3>4 DEF Pinging, Asked, Quiet, Inv, ServerInv, Waiting,
         None
  <2>3. ASSUME pc \in {"output", "write", "strobe"} PROVE Sending'
    BY <2>0, <2>3 DEF Inv, Kinds, InTurn, ClearFlag, port, Sending, Between,
       Took, Starts, NoCommand, Asked, Quiet, Level, Waiting, Replying,
       Commanded, Command
  <2>4. ASSUME pc = "wait" PROVE Awaiting'
    BY <2>0, <2>4 DEF Inv, Kinds, InTurn, ClearFlag, port, Awaiting, Between,
       After, Took, Starts, NoCommand, Asked, Quiet, Level, Waiting, Replying,
       Commanded, Command
  <2>5. ASSUME pc \in Replying PROVE Receiving'
    <3>1. Took(Len(req.out)) /\ Got(count) /\ req \in Calls
      BY <2>5 DEF Inv, InTurn, ClientInv, Receiving, Replying
    <3>2. pc = "readWait" /\ Asked /\ Level /\ count < Len(req.in)
          /\ IF count = 0 THEN spc = "turn" ELSE spc = "wait" /\ sent = count
      BY <2>5 DEF Inv, InTurn, ClientInv, ClearFlag, Receiving, Replying,
         Turning, Offering, Quiet
    <3>3. Command = req
      BY <3>1, CallFacts, CommandIsRequest DEF Inv, Kinds
    <3>4. spc' = "put" /\ sent' = count
      BY <3>2, <3>3 DEF ClearFlag, Inv, ServerInv
    <3>5. flag' = 0 /\ emulated' = None /\ UNCHANGED << pa2, taken >>
      BY <3>2 DEF ClearFlag, Asked, None
    <3> QED
      BY <2>0, <3>1, <3>2, <3>4, <3>5 DEF Receiving, Offering, Quiet, Level,
         Took, Got, Starts
  <2>6. ASSUME pc = "close" PROVE Closing'
    BY <2>0, <2>6 DEF Inv, Kinds, InTurn, ClearFlag, port, Closing, InStep,
       Ending, Took, Got, Starts, NoCommand, Asked, Quiet, Level, Waiting,
       Replying, Commanded, Command
  <2> QED
    BY <2>0, <2>1, <2>2, <2>3, <2>4, <2>5, <2>6 DEF InTurn
<1> QED
  BY <1>1, <1>2, <1>3, <1>4 DEF Inv

LEMMA TakeInv == Inv /\ Take => Inv'
<1> SUFFICES ASSUME Inv, Take PROVE Inv'
  OBVIOUS
<1>1. Kinds'
  BY DEF Inv, Kinds, Take, port, client
<1>2. ClientInv'
  BY ClientFrame DEF Inv, Take, client
<1>3. ServerInv'
  BY Commanding, CallFacts DEF Inv, Kinds, ServerInv, Take, ServerPlaces,
     Waiting, Commanded, Command
<1>4. clean' => InTurn'
  <2> SUFFICES ASSUME clean, clean' PROVE InTurn'
    BY DEF Take
  <2>0. UNCHANGED << pc, req, count, got, last, loaded, result >>
    BY DEF Take, client
  <2>1. ASSUME pc \in {"open", "ping", "pingStrobe"} PROVE Beginning'
    BY <2>0, <2>1 DEF Inv, Kinds, InTurn, Take, port, Beginning, InStep,
       Ending, NoCommand, Asked, Quiet, Level, Waiting, Replying, Commanded,
       Command
  <2>2. ASSUME pc = "pingWait" PROVE Pinging'
    BY <2>0, <2>2 DEF Inv, Kinds, InTurn, Take, port, Pinging, Ending,
       NoCommand, Asked, Quiet, Level, Waiting, Replying, Commanded, Command
  <2>3. ASSUME pc \in {"output", "write", "strobe"} PROVE Sending'
    BY <2>0, <2>3 DEF Inv, Kinds, InTurn, Take, port, Sending, Between, Took,
       Starts, NoCommand, Asked, Quiet, Level, Waiting, Replying, Commanded,
       Command
  <2>4. ASSUME pc = "wait" PROVE Awaiting'
    <3>1. Awaiting /\ Quiet /\ Level /\ data = req.out[count + 1]
      BY <2>4 DEF Inv, InTurn, Take, Awaiting, Between, After, Asked
    <3>2. CASE count = 0
      <4>1. taken' = << data >>
        BY <2>4, <3>1, <3>2 DEF Take, Awaiting, Between, After
      <4> QED
        BY <2>0, <3>1, <3>2, <4>1 DEF Took, Starts, Take, port, Awaiting,
           Quiet, Level
    <3>3. CASE count # 0
      <4>1. spc = "latch" /\ Took(count)
        BY <3>1, <3>3 DEF Take, Awaiting, Between, After
      <4>2. Took(count + 1)'
        BY <2>0, <3>1, <4>1 DEF Take, Took, Starts, Inv, Kinds
      <4> QED
        BY <2>0, <3>1, <4>2 DEF Take, port, Awaiting, Quiet, Level
    <3> QED
      BY <3>2, <3>3
  <2>5. ASSUME pc \in Replying PROVE Receiving'
    BY <2>0, <2>5 DEF Inv, Kinds, InTurn, Take, port, Receiving, Turning,
       Offering, Took, Got, Starts, NoCommand, Asked, Quiet, Level, Waiting,
       Replying, Commanded, Command
  <2>6. ASSUME pc = "close" PROVE Closing'
    BY <2>0, <2>6 DEF Inv, Kinds, InTurn, Take, port, Closing, InStep, Ending,
       Took, Got, Starts, NoCommand, Asked, Quiet, Level, Waiting, Replying,
       Commanded, Command
  <2> QED
    BY <2>0, <2>1, <2>2, <2>3, <2>4, <2>5, <2>6 DEF InTurn
<1> QED
  BY <1>1, <1>2, <1>3, <1>4 DEF Inv

LEMMA AckInv == Inv /\ Ack => Inv'
<1> SUFFICES ASSUME Inv, Ack PROVE Inv'
  OBVIOUS
<1>1. Kinds'
  BY DEF Inv, Kinds, Ack, client
<1>2. ClientInv'
  BY ClientFrame DEF Inv, Ack, client
<1>3. ServerInv'
  BY Commanding, CallFacts DEF Inv, Kinds, ServerInv, Ack, ServerPlaces,
     Waiting, Commanded, Command
<1>4. clean' => InTurn'
  <2> SUFFICES ASSUME clean, clean' PROVE InTurn'
    BY DEF Ack
  <2>0. UNCHANGED << pc, req, count, got, last, loaded, result >>
    BY DEF Ack, client
  <2>1. ASSUME pc \in {"open", "ping", "pingStrobe"} PROVE Beginning'
    BY <2>0, <2>1 DEF Inv, Kinds, InTurn, Ack, port, Beginning, InStep, Ending,
       NoCommand, Asked, Quiet, Level, Waiting, Replying, Commanded, Command
  <2>2. ASSUME pc = "pingWait" PROVE Pinging'
    <3>1. Pinging /\ spc = "ack"
      BY <2>2 DEF Inv, InTurn, Ack
    <3>2. taken # <<>> /\ taken[1] \in NoCommand /\ Quiet /\ Level /\ data \in NoCommand
      BY <3>1 DEF Pinging, Ending
    <3>3. spc' = "main"
      BY <3>2, NoneCommanded DEF Ack
    <3> QED
      BY <2>0, <3>2, <3>3 DEF Ack, Inv, Kinds, Pinging, Quiet, Level
  <2>3. ASSUME pc \in {"output", "write", "strobe"} PROVE Sending'
    BY <2>0, <2>3 DEF Inv, Kinds, InTurn, Ack, port, Sending, Between, Took,
       Starts, NoCommand, Asked, Quiet, Level, Waiting, Replying, Commanded,
       Command
  <2>4. ASSUME pc = "wait" PROVE Awaiting'
    <3>1. Awaiting /\ spc = "ack" /\ req \in Calls
      BY <2>4 DEF Inv, InTurn, ClientInv, Ack
    <3>2. Took(count + 1) /\ Quiet /\ Level /\ data = req.out[count + 1]
      BY <3>1 DEF Awaiting, Between, After
    <3>3. Commanded # {} /\ Command = req
      BY <3>1, <3>2, CommandIsRequest DEF Inv, Kinds
    <3>4. spc' = After(count + 1)
      BY <3>2, <3>3 DEF Ack, After, Took, Starts
    <3>5. (~Level)'
      BY <2>0, <3>2 DEF Ack, Level, Inv, Kinds
    <3> QED
      BY <2>0, <3>2, <3>4, <3>5 DEF Ack, Awaiting, After, Quiet, Took, Starts
  <2>5. ASSUME pc \in Replying PROVE Receiving'
    BY <2>0, <2>5 DEF Inv, Kinds, InTurn, Ack, port, Receiving, Turning,
       Offering, Took, Got, Starts, NoCommand, Asked, Quiet, Level, Waiting,
       Replying, Commanded, Command
  <2>6. ASSUME pc = "close" PROVE Closing'
    BY <2>0, <2>6 DEF Inv, Kinds, InTurn, Ack, port, Closing, InStep, Ending,
       Took, Got, Starts, NoCommand, Asked, Quiet, Level, Waiting, Replying,
       Commanded, Command
  <2> QED
    BY <2>0, <2>1, <2>2, <2>3, <2>4, <2>5, <2>6 DEF InTurn
<1> QED
  BY <1>1, <1>2, <1>3, <1>4 DEF Inv

LEMMA PutInv == Inv /\ Put => Inv'
<1> SUFFICES ASSUME Inv, Put PROVE Inv'
  OBVIOUS
<1>1. Kinds'
  BY Commanding, CallFacts DEF Inv, Kinds, ServerInv, Put, client
<1>2. ClientInv'
  BY ClientFrame DEF Inv, Put, client
<1>3. ServerInv'
  BY Commanding, CallFacts DEF Inv, Kinds, ServerInv, Put, ServerPlaces,
     Waiting, Commanded, Command
<1>4. clean' => InTurn'
  <2> SUFFICES ASSUME clean, clean' PROVE InTurn'
    BY DEF Put
  <2>0. UNCHANGED << pc, req, count, got, last, loaded, result >>
    BY DEF Put, client
  <2>1. ASSUME pc \in {"open", "ping", "pingStrobe"} PROVE Beginning'
    BY <2>0, <2>1 DEF Inv, Kinds, InTurn, Put, port, Beginning, InStep, Ending,
       NoCommand, Asked, Quiet, Level, Waiting, Replying, Commanded, Command
  <2>2. ASSUME pc = "pingWait" PROVE Pinging'
    BY <2>0, <2>2 DEF Inv, Kinds, InTurn, Put, port, Pinging, Ending,
       NoCommand, Asked, Quiet, Level, Waiting, Replying, Commanded, Command
  <2>3. ASSUME pc \in {"output", "write", "strobe"} PROVE Sending'
    BY <2>0, <2>3 DEF Inv, Kinds, InTurn, Put, port, Sending, Between, Took,
       Starts, NoCommand, Asked, Quiet, Level, Waiting, Replying, Commanded,
       Command
  <2>4. ASSUME pc = "wait" PROVE Awaiting'
    BY <2>0, <2>4 DEF Inv, Kinds, InTurn, Put, port, Awaiting, Between, After,
       Took, Starts, NoCommand, Asked, Quiet, Level, Waiting, Replying,
       Commanded, Command
  <2>5. ASSUME pc \in Replying PROVE Receiving'
    <3>1. pc = "readWait" /\ sent = count /\ Quiet /\ Level
      BY <2>5 DEF Inv, InTurn, Put, Receiving, Replying, Turning, Offering
    <3>2. Took(Len(req.out)) /\ Got(count) /\ req \in Calls
      BY <2>5 DEF Inv, InTurn, ClientInv, Receiving, Replying
    <3>3. Command = req
      BY <3>2, CallFacts, CommandIsRequest DEF Inv, Kinds
    <3>4. data' = req.in[count + 1] /\ sent' = count + 1 /\ spc' = "offer"
      BY <3>1, <3>3 DEF Put
    <3> QED
      BY <2>0, <3>1, <3>2, <3>4 DEF Put, Receiving, Offering, Quiet, Level,
         Took, Got, Starts
  <2>6. ASSUME pc = "close" PROVE Closing'
    BY <2>0, <2>6 DEF Inv, Kinds, InTurn, Put, port, Closing, InStep, Ending,
       Took, Got, Starts, NoCommand, Asked, Quiet, Level, Waiting, Replying,
       Commanded, Command
  <2> QED
    BY <2>0, <2>1, <2>2, <2>3, <2>4, <2>5, <2>6 DEF InTurn
<1> QED
  BY <1>1, <1>2, <1>3, <1>4 DEF Inv

LEMMA OfferInv == Inv /\ Offer => Inv'
<1> SUFFICES ASSUME Inv, Offer PROVE Inv'
  OBVIOUS
<1>1. Kinds'
  BY DEF Inv, Kinds, Offer, client
<1>2. ClientInv'
  BY ClientFrame DEF Inv, Offer, client
<1>3. ServerInv'
  BY Commanding, CallFacts DEF Inv, Kinds, ServerInv, Offer, ServerPlaces,
     Waiting, Commanded, Command
<1>4. clean' => InTurn'
  <2> SUFFICES ASSUME clean, clean' PROVE InTurn'
    BY DEF Offer
  <2>0. UNCHANGED << pc, req, count, got, last, loaded, result >>
    BY DEF Offer, client
  <2>1. ASSUME pc \in {"open", "ping", "pingStrobe"} PROVE Beginning'
    BY <2>0, <2>1 DEF Inv, Kinds, InTurn, Offer, port, Beginning, InStep,
       Ending, NoCommand, Asked, Quiet, Level, Waiting, Replying, Commanded,
       Command
  <2>2. ASSUME pc = "pingWait" PROVE Pinging'
    BY <2>0, <2>2 DEF Inv, Kinds, InTurn, Offer, port, Pinging, Ending,
       NoCommand, Asked, Quiet, Level, Waiting, Replying, Commanded, Command
  <2>3. ASSUME pc \in {"output", "write", "strobe"} PROVE Sending'
    BY <2>0, <2>3 DEF Inv, Kinds, InTurn, Offer, port, Sending, Between, Took,
       Starts, NoCommand, Asked, Quiet, Level, Waiting, Replying, Commanded,
       Command
  <2>4. ASSUME pc = "wait" PROVE Awaiting'
    BY <2>0, <2>4 DEF Inv, Kinds, InTurn, Offer, port, Awaiting, Between,
       After, Took, Starts, NoCommand, Asked, Quiet, Level, Waiting, Replying,
       Commanded, Command
  <2>5. ASSUME pc \in Replying PROVE Receiving'
    <3>1. pc = "readWait" /\ sent = count + 1 /\ Quiet /\ Level /\ data = req.in[count + 1]
      BY <2>5 DEF Inv, InTurn, Offer, Receiving, Replying, Turning, Offering
    <3>2. Took(Len(req.out)) /\ Got(count)
      BY <2>5 DEF Inv, InTurn, Receiving
    <3>3. (~Level)'
      BY <2>0, <3>1 DEF Offer, Level, Inv, Kinds
    <3> QED
      BY <2>0, <3>1, <3>2, <3>3 DEF Offer, Receiving, Offering, Quiet, Took,
         Got, Starts
  <2>6. ASSUME pc = "close" PROVE Closing'
    BY <2>0, <2>6 DEF Inv, Kinds, InTurn, Offer, port, Closing, InStep, Ending,
       Took, Got, Starts, NoCommand, Asked, Quiet, Level, Waiting, Replying,
       Commanded, Command
  <2> QED
    BY <2>0, <2>1, <2>2, <2>3, <2>4, <2>5, <2>6 DEF InTurn
<1> QED
  BY <1>1, <1>2, <1>3, <1>4 DEF Inv

LEMMA TurnBackInv == Inv /\ TurnBack => Inv'
<1> SUFFICES ASSUME Inv, TurnBack PROVE Inv'
  OBVIOUS
<1>1. Kinds'
  BY DEF Inv, Kinds, TurnBack, client, Byte
<1>2. ClientInv'
  BY ClientFrame DEF Inv, TurnBack, client
<1>3. ServerInv'
  BY Commanding, CallFacts DEF Inv, Kinds, ServerInv, TurnBack, ServerPlaces,
     Waiting, Commanded, Command
<1>4. clean' => InTurn'
  <2> SUFFICES ASSUME clean, clean' PROVE InTurn'
    BY DEF TurnBack
  <2>0. UNCHANGED << pc, req, count, got, last, loaded, result >>
    BY DEF TurnBack, client
  <2>1. ASSUME pc \in {"open", "ping", "pingStrobe"} PROVE Beginning'
    BY <2>0, <2>1 DEF Inv, Kinds, InTurn, TurnBack, port, Beginning, InStep,
       Ending, NoCommand, Asked, Quiet, Level, Waiting, Replying, Commanded,
       Command
  <2>2. ASSUME pc = "pingWait" PROVE Pinging'
    BY <2>0, <2>2 DEF Inv, Kinds, InTurn, TurnBack, port, Pinging, Ending,
       NoCommand, Asked, Quiet, Level, Waiting, Replying, Commanded, Command
  <2>3. ASSUME pc \in {"output", "write", "strobe"} PROVE Sending'
    BY <2>0, <2>3 DEF Inv, Kinds, InTurn, TurnBack, port, Sending, Between,
       Took, Starts, NoCommand, Asked, Quiet, Level, Waiting, Replying,
       Commanded, Command
  <2>4. ASSUME pc = "wait" PROVE Awaiting'
    BY <2>0, <2>4 DEF Inv, Kinds, InTurn, TurnBack, port, Awaiting, Between,
       After, Took, Starts, NoCommand, Asked, Quiet, Level, Waiting, Replying,
       Commanded, Command
  <2>5. ASSUME pc \in Replying PROVE Receiving'
    BY <2>0, <2>5 DEF Inv, Kinds, InTurn, TurnBack, port, Receiving, Turning,
       Offering, Took, Got, Starts, NoCommand, Asked, Quiet, Level, Waiting,
       Replying, Commanded, Command
  <2>6. ASSUME pc = "close" PROVE Closing'
    BY <2>0, <2>6 DEF Inv, Kinds, InTurn, TurnBack, port, Closing, InStep,
       Ending, Took, Got, Starts, NoCommand, Asked, Quiet, Level, Waiting,
       Replying, Commanded, Command
  <2> QED
    BY <2>0, <2>1, <2>2, <2>3, <2>4, <2>5, <2>6 DEF InTurn
<1> QED
  BY <1>1, <1>2, <1>3, <1>4 DEF Inv

-----------------------------------------------------------------------------
LEMMA InitInv == Init => Inv
<1> SUFFICES ASSUME Init PROVE Inv
  OBVIOUS
<1>1. Kinds
  BY DEF Init, Kinds, Byte, Requests
<1>2. ClientInv /\ ServerInv
  BY DEF Init, ClientInv, ServerInv, Places, ServerPlaces, Waiting, Strobing,
     Replying
<1>3. InTurn
  BY DEF Init, InTurn, Replying
<1> QED
  BY <1>1, <1>2, <1>3 DEF Inv

LEMMA StepInv == Inv /\ [Next]_vars => Inv'
<1> SUFFICES ASSUME Inv, [Next]_vars PROVE Inv'
  OBVIOUS
<1>1. CASE Call \/ NewProcess \/ ClientStep \/ GiveUp
  BY <1>1, CallInv, NewProcessInv, OpenInv, OpenFailsInv, WritePingInv,
     StrobeLoadInv, StrobeStoreInv, PingAnsweredInv, OutputInv, WriteInv,
     SentInv, ReceivedInv, ReadInv, ResetMachineInv, CloseInv, GiveUpInv DEF
     ClientStep
<1>2. CASE ServerStep
  BY <1>2, ReadFlagInv, ClearFlagInv, TakeInv, AckInv, PutInv, OfferInv,
     TurnBackInv DEF ServerStep
<1>3. CASE UNCHANGED vars
  <2>1. Kinds' /\ ClientInv' /\ ServerInv'
    BY <1>3, ClientFrame, ServerFrame DEF vars, port, client, server, Inv,
       Kinds
  <2>2. clean' => InTurn'
    BY <1>3 DEF vars, port, client, server, Inv, InTurn, Beginning, Pinging,
       Sending, Awaiting, Receiving, Closing, Turning, Offering, Between,
       After, Took, Got, Starts, Asked, Quiet, Level, InStep, Ending, Command,
       Commanded
  <2> QED
    BY <2>1, <2>2 DEF Inv
<1> QED
  BY <1>1, <1>2, <1>3 DEF Next

LEMMA Invariance == Spec => []Inv
  BY InitInv, StepInv, PTL DEF Spec

-----------------------------------------------------------------------------
(* The count that client and emulator change without a lock: no strobe     *)
(* finds another one pending, but for the ping that follows a reply.       *)
THEOREM StrobesTakeTurns == Spec => []StrobesMeetOnlyAfterReply
<1>1. Inv => StrobesMeetOnlyAfterReply
  BY DEF Inv, InTurn, StrobesMeetOnlyAfterReply, Strobing, Replying, Sending,
     Receiving, Turning, Quiet
<1> QED
  BY <1>1, Invariance, PTL

(* A call that begins in step, and loses no count, succeeds with the bytes *)
(* of its request taken and those of the reply delivered, or fails at its  *)
(* ping.                                                                   *)
THEOREM CallsAreFaithful == Spec => []Faithful
<1>1. Inv => Faithful
  <2> SUFFICES ASSUME Inv, clean, pc = "close", req \in Calls
               PROVE  IF result THEN taken = req.out /\ got = req.in
                                ELSE count = 0 /\ got = <<>> /\ InStep
    BY DEF Faithful
  <2>1. Closing
    BY DEF Inv, InTurn
  <2>2. ASSUME Took(Len(req.out)), Got(Len(req.in)) PROVE taken = req.out /\ got = req.in
    <3>1. taken = req.out
      BY <2>2, CallFacts, SeqEqual DEF Took, Starts, Inv, Kinds
    <3>2. got = req.in
      BY <2>2, CallFacts, SeqEqual DEF Got, Starts, Inv, Kinds
    <3> QED
      BY <3>1, <3>2
  <2> QED
    BY <2>1, <2>2 DEF Closing
<1> QED
  BY <1>1, Invariance, PTL
=============================================================================
