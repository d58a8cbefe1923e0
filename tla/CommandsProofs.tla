--------------------------- MODULE CommandsProofs ---------------------------
(***************************************************************************)
(* No command overwrites the RAM server that is to receive it: for every   *)
(* session, every place the server may be in, every boot time and every    *)
(* number of resets by the user.                                           *)
(***************************************************************************)
EXTENDS Commands, TLAPS

(* The tables are made of ranges. *)
LEMMA Tables ==
  ASSUME NEW m \in {c64, c128}
  PROVE  /\ m.loram \in RangeType /\ m.hiram \in RangeType
         /\ m.screenram \in RangeType
         /\ m.memory \in Nat /\ m.bank \in Nat
         /\ m.safe_memory \in Nat /\ m.safe_bank \in Nat
BY DEF c64, c128, range_new_from_int, range_new, range_max, RangeType

LEMMA AreasType ==
  ASSUME machine \in {c64, c128}
  PROVE  \A i \in DOMAIN Areas : i \in 1 .. 3 /\ Areas[i] \in RangeType
<1>1. /\ machine.loram \in RangeType /\ machine.hiram \in RangeType
      /\ machine.screenram \in RangeType
  BY Tables
<1>2. range_new(machine.hiram.start, memtop) \in RangeType
  BY <1>1 DEF range_new, memtop, RangeType
<1> QED
  BY <1>1, <1>2 DEF Areas

(* Data that overlaps no place of the server does not touch it. *)
LEMMA CellsApart ==
  ASSUME NEW s \in Int, NEW e \in Int, NEW n \in Int, NEW p \in RangeType,
         s + n <= e \/ (e = s /\ n = 1),
         ~range_overlaps(range_new(s, e), p)
  PROVE  ~Share(range_new(s, s + n), p)
<1> SUFFICES ASSUME NEW a \in s .. s + n - 1, p.start <= a, a < p.end
             PROVE  FALSE
  BY DEF Share, range_new
<1> QED
  BY DEF range_overlaps, range_new, RangeType

LEMMA NowhereIsEmpty ==
  ASSUME NEW r \in RangeType
  PROVE  ~Share(r, Nowhere)
BY DEF Share, Nowhere, range_new, RangeType

LEMMA OverlapSymmetric ==
  ASSUME NEW r \in RangeType, NEW s \in RangeType
  PROVE  range_overlaps(r, s) <=> range_overlaps(s, r)
BY DEF range_overlaps, range_equals, RangeType

(* The place that is found, if there is one, is clear of the data. *)
LEMMA PlaceIsClear ==
  ASSUME NEW areas, \A i \in DOMAIN areas : i \in 1 .. 3 /\ areas[i] \in RangeType,
         NEW n \in Int, NEW data \in RangeType,
         Place(areas, n, data) # NoPlace
  PROVE  /\ Place(areas, n, data) \in Int
         /\ ~range_overlaps(range_new(Place(areas, n, data), Place(areas, n, data) + n),
                            data)
<1> DEFINE possible == Possible(areas, n, data)
           first == CHOOSE i \in possible : \A j \in possible : i <= j
           places == Clear(areas[first], n, data)
<1>1. possible # {} /\ Place(areas, n, data) = Highest(places).start
  BY DEF Place
<1>2. \A i \in possible : i \in 1 .. 3 /\ i \in DOMAIN areas
  BY DEF Possible
<1>3. \E i \in possible : \A j \in possible : i <= j
  BY <1>1, <1>2
<1>4. first \in possible
  BY <1>3
<1>5. places # {} /\ areas[first] \in RangeType
  BY <1>4 DEF Possible
<1>6. \E c \in places : \A o \in places : o.start <= c.start
  <2> DEFINE u == range_new(areas[first].end - n, areas[first].end)
             v == range_new((data.start - 1) - n, data.start - 1)
  <2>1. u.start \in Int /\ v.start \in Int
    BY <1>5 DEF range_new, RangeType
  <2>2. \A c \in places : c = u \/ c = v
    BY DEF Clear
  <2>3. places # {}
    BY <1>5
  <2> HIDE DEF places, u, v
  <2> QED
    BY <2>1, <2>2, <2>3
<1>7. Highest(places) \in places
  BY <1>6 DEF Highest
<1>8. PICK e \in {areas[first].end, data.start - 1} : Highest(places) = range_new(e - n, e)
  BY <1>7 DEF Clear
<1>9. e \in Int
  BY <1>5 DEF RangeType
<1>10. ~range_overlaps(Highest(places), data)
  BY <1>7 DEF Clear
<1> HIDE DEF possible, first, places
<1>11. Highest(places).start = e - n
  BY <1>8 DEF range_new
<1>12. range_new(e - n, (e - n) + n) = range_new(e - n, e)
  BY <1>9
<1> QED
  BY <1>1, <1>8, <1>9, <1>10, <1>11, <1>12

-----------------------------------------------------------------------------
Writing == self.op \in {"load", "run", "fill", "poke"}

(* What the commands that write have made of their options. *)
Bounded == Writing =>
  self.start + self.size <= self.end \/ (self.end = self.start /\ self.size = 1)

(* The server is to be, and then is, in a place that is clear of the data; *)
(* and whoever waits for it still has time.                                *)
Inv ==
  /\ TypeOK
  /\ Bounded
  /\ board.rom => place = Nowhere
  /\ pc \in {"identify", "write"} => Writing
  /\ pc = "where" => self.op = "relocate"
  /\ pc \in {"image", "start"} =>
       /\ ~board.rom
       /\ self.op = "relocate" \/ (Writing /\ ~range_overlaps(Data, New))
  /\ pc = "write" /\ ~Forced(self) =>
       place = Nowhere \/ ~range_overlaps(Data, place)
  /\ pc \in {"up", "down"} => tries # 0

LEMMA Defaults ==
  ASSUME NEW c \in CommandType, NEW m \in {c64, c128},
         NEW d \in {MemoryAndBank(c, m), SafeMemoryAndBank(c, m)}
  PROVE  /\ d \in CommandType
         /\ d.op = c.op /\ d.start = c.start /\ d.end = c.end /\ d.size = c.size
<1>1. m.memory \in Nat /\ m.bank \in Nat /\ m.safe_memory \in Nat /\ m.safe_bank \in Nat
  BY Tables
<1>2. CASE d = MemoryAndBank(c, m)
  <2>1. d \in CommandType
    BY <1>1, <1>2, ZenonT(40) DEF MemoryAndBank, CommandType
  <2>2. d.op = c.op /\ d.start = c.start /\ d.end = c.end /\ d.size = c.size
    BY <1>2 DEF MemoryAndBank, CommandType
  <2> QED
    BY <2>1, <2>2
<1>3. CASE d = SafeMemoryAndBank(c, m)
  <2>1. d \in CommandType
    BY <1>1, <1>3 DEF SafeMemoryAndBank, CommandType
  <2>2. d.op = c.op /\ d.start = c.start /\ d.end = c.end /\ d.size = c.size
    BY <1>3 DEF SafeMemoryAndBank, CommandType
  <2> QED
    BY <2>1, <2>2
<1> QED
  BY <1>2, <1>3

LEMMA LoadedType ==
  ASSUME NEW c \in CommandType, NEW m \in {c64, c128}
  PROVE  /\ Loaded(c, m) \in CommandType
         /\ Loaded(c, m).op = c.op
         /\ Loaded(c, m).start + Loaded(c, m).size <= Loaded(c, m).end
<1> DEFINE start == IF c.start = -1 THEN c.head ELSE c.start
           skip  == IF c.skip # -1 THEN c.skip ELSE IF c.start = -1 THEN 2 ELSE 0
           left  == c.length - skip
           end   == IF c.end = -1 THEN start + left ELSE c.end
           size  == IF end - start < left THEN end - start ELSE left
           filled == [c EXCEPT !.start = start, !.skip = skip, !.end = end, !.size = size]
<1>1. /\ start \in Int /\ skip \in Int /\ left \in Int
  BY DEF CommandType
<1>2. end \in Int
  BY <1>1 DEF CommandType
<1>3. size \in Int /\ start + size <= end
  BY <1>1, <1>2
<1> HIDE DEF start, skip, left, end, size
<1>4. /\ filled \in CommandType /\ filled.op = c.op
      /\ filled.start = start /\ filled.end = end /\ filled.size = size
  BY <1>1, <1>2, <1>3 DEF CommandType
<1>5. \/ Loaded(c, m) = filled
      \/ Loaded(c, m) = SafeMemoryAndBank(filled, m)
      \/ Loaded(c, m) = MemoryAndBank(filled, m)
  BY DEF Loaded, start, skip, left, end, size
<1> HIDE DEF filled
<1> QED
  BY <1>3, <1>4, <1>5, Defaults

LEMMA WithEnd ==
  ASSUME NEW c \in CommandType, NEW e \in Int, NEW n \in Int
  PROVE  [c EXCEPT !.end = e, !.size = n] \in CommandType
BY DEF CommandType

LEMMA FilledType ==
  ASSUME NEW c \in CommandType, NEW m \in {c64, c128}
  PROVE  /\ Filled(c, m) \in CommandType
         /\ Filled(c, m).op = c.op
         /\ Filled(c, m).start + Filled(c, m).size <= Filled(c, m).end
<1> DEFINE end == IF c.end = -1 THEN range_max ELSE c.end
           d == [c EXCEPT !.end = end, !.size = end - c.start]
<1>1. end \in Int /\ c.start \in Int /\ end - c.start \in Int
  BY DEF CommandType, range_max
<1> HIDE DEF end
<1>2. d \in CommandType
  BY <1>1, WithEnd
<1>3. d.op = c.op /\ d.start = c.start /\ d.end = end /\ d.size = end - c.start
  BY DEF CommandType
<1>4. Filled(c, m) = MemoryAndBank(d, m)
  BY DEF Filled, end
<1> HIDE DEF d
<1> QED
  BY <1>1, <1>2, <1>3, <1>4, Defaults

LEMMA PokedType ==
  ASSUME NEW c \in CommandType, NEW m \in {c64, c128}
  PROVE  /\ Poked(c, m) \in CommandType
         /\ Poked(c, m).op = c.op
         /\ Poked(c, m).end = Poked(c, m).start /\ Poked(c, m).size = 1
<1> DEFINE d == [c EXCEPT !.end = c.start, !.size = 1]
<1>1. c.start \in Int /\ 1 \in Int
  BY DEF CommandType
<1>2. d \in CommandType
  BY <1>1, WithEnd
<1>3. d.op = c.op /\ d.start = c.start /\ d.end = c.start /\ d.size = 1
  BY DEF CommandType
<1>4. Poked(c, m) = MemoryAndBank(d, m)
  BY DEF Poked
<1> HIDE DEF d
<1> QED
  BY <1>1, <1>2, <1>3, <1>4, Defaults

-----------------------------------------------------------------------------
LEMMA InitInv == Init => Inv
<1> SUFFICES ASSUME Init PROVE Inv
  OBVIOUS
<1>1. Given("ready") \in CommandType
  BY DEF Given, CommandType, Operations
<1>2. place \in RangeType /\ (board.rom => place = Nowhere)
  BY PlacesAssumption DEF PlacesAssumption, Init, Nowhere, range_new, RangeType
<1>3. todo \in Seq(CommandType)
  BY SessionsAssumption DEF SessionsAssumption, Init
<1>4. info \in RangeType
  BY DEF Init, Nowhere, range_new, RangeType
<1>5. TypeOK
  <2>1. alive \in BOOLEAN /\ ~(alive /\ boot > 0) /\ (alive /\ ahead => board.rom)
    BY DEF Init
  <2>2. boot \in Nat /\ tries \in 0 .. ResetTimeout /\ code \in Int
        /\ resets \in 0 .. MaxResets
    BY ResetsAssumption DEF Init, ResetsAssumption, ResetTimeout
  <2> QED
    BY <1>1, <1>2, <1>3, <1>4, <2>1, <2>2 DEF Init, TypeOK
<1>6. self.op = "ready"
  BY DEF Init, Given
<1> QED
  BY <1>2, <1>5, <1>6 DEF Init, Inv, Bounded, Writing

(* What a call does to the machine when no command is under way in it. *)
Remote ==
  /\ UNCHANGED board
  /\ mode' \in {"c64", board.type}
  /\ place' \in {place, Nowhere}
  /\ boot' \in Nat
  /\ running' \in BOOLEAN
  /\ ahead' \in BOOLEAN
  /\ alive' \in BOOLEAN /\ ~(alive' /\ boot' > 0)
  /\ alive' /\ ahead' => board.rom

LEMMA StandingIsRemote == TypeOK /\ UNCHANGED board /\ Standing => Remote
BY DEF TypeOK, Standing, Remote

(* Who serves has booted, and stays; who is out of step is in ROM. *)
LEMMA Alive ==
  ASSUME TypeOK
  PROVE  /\ boot \in Nat /\ board.rom \in BOOLEAN /\ alive \in BOOLEAN
         /\ mode \in {"c64", board.type} /\ ahead \in BOOLEAN /\ running \in BOOLEAN
         /\ alive /\ ahead => board.rom
         /\ alive => boot = 0
<1>1. boot \in Nat /\ (alive => ~(boot > 0))
  BY Zenon DEF TypeOK
<1>2. (boot > 0) \in BOOLEAN /\ (~(boot > 0) => boot = 0)
  BY <1>1
<1>3. /\ mode \in {"c64", board.type} /\ ahead \in BOOLEAN /\ running \in BOOLEAN
      /\ alive \in BOOLEAN /\ (alive /\ ahead => board.rom)
  BY Zenon DEF TypeOK
<1>4. board.rom \in BOOLEAN
  BY DEF TypeOK
<1> QED
  BY <1>1, <1>2, <1>3, <1>4, Zenon

LEMMA UnservedIsRemote ==
  ASSUME TypeOK, UNCHANGED board, Unserved
  PROVE  Remote
<1>1. boot' \in Nat /\ (boot = 0 => ~(boot' > 0)) /\ (boot = 1 => ~(boot' > 0))
  BY Alive DEF Unserved, Tick
<1>2. /\ alive' = IF boot = 1 THEN board.rom ELSE alive
      /\ ahead' \in IF boot = 1 /\ board.rom THEN BOOLEAN ELSE {FALSE}
      /\ UNCHANGED << mode, place, running >>
  BY DEF Unserved, Tick
<1>3. alive' \in BOOLEAN /\ ~(alive' /\ boot' > 0)
  BY <1>1, <1>2, Alive, Zenon
<1>4. ahead' \in BOOLEAN /\ (alive' /\ ahead' => board.rom)
  BY <1>2, Zenon
<1> QED
  BY <1>1, <1>2, <1>3, <1>4, Alive, Zenon DEF Remote

(* A call that finds a server, whatever becomes of it. *)
LEMMA FoundIsRemote ==
  ASSUME TypeOK, alive, UNCHANGED << board, mode, boot >>,
         running' \in BOOLEAN, alive' \in BOOLEAN, place' \in {place, Nowhere},
         ahead' \in BOOLEAN, alive' /\ ahead' => board.rom
  PROVE  Remote
<1>1. boot' = 0 /\ ~(boot' > 0)
  BY Alive
<1> QED
  BY <1>1, Alive, Zenon DEF Remote

LEMMA TakenIsRemote ==
  ASSUME TypeOK, Taken, UNCHANGED board,
         running' \in BOOLEAN, alive' \in BOOLEAN, place' \in {place, Nowhere}
  PROVE  Remote
BY FoundIsRemote DEF Taken

LEMMA ServedIsRemote ==
  ASSUME TypeOK, Served, UNCHANGED board
  PROVE  Remote
BY TakenIsRemote, Alive DEF Served

LEMMA AstrayIsRemote ==
  ASSUME TypeOK, Astray, UNCHANGED board
  PROVE  Remote
<1>1. board.rom
  BY Alive, Zenon DEF Astray, OutOfStep
<1> QED
  BY <1>1, FoundIsRemote DEF Astray, OutOfStep

LEMMA PingIsRemote ==
  ASSUME TypeOK, UNCHANGED << board, mode, place, alive, boot, running >>,
         ahead' \in {FALSE, OutOfStep}
  PROVE  Remote
<1>1. ahead' \in BOOLEAN /\ (alive' /\ ahead' => board.rom)
  BY Alive, Zenon DEF OutOfStep
<1>2. ~(alive' /\ boot' > 0)
  BY Zenon DEF TypeOK
<1> QED
  BY <1>1, <1>2, Alive, Zenon DEF Remote

LEMMA RestartIsRemote ==
  ASSUME TypeOK, NEW as \in {"c64", board.type}, UNCHANGED board, Restart(as)
  PROVE  Remote
BY BootAssumption DEF TypeOK, BootAssumption, Restart, Remote

(* The calls that leave the command and what it knows as they are. *)
Going ==
  /\ UNCHANGED << machine, todo, self, info, code, resets >>
  /\ after' \in {"done", "ping", "who", "ready"}
  /\ tries' \in 0 .. ResetTimeout
  /\ outcome' \in {"none", "ok", "failed"}
  /\ \/ pc' \in {"next", "done", "ping", "pingAgain", "reset", "restart", "switchBack",
                 "who", "go64", "mode", "warm", "go", "ask"}
     \/ pc' \in {"down", "up"} /\ tries' # 0

LEMMA GoingOn == Inv /\ Remote /\ Going => Inv'
<1> SUFFICES ASSUME Inv, Remote, Going PROVE Inv'
  OBVIOUS
<1>1. place' \in RangeType
  BY DEF Inv, TypeOK, Remote, Nowhere, range_new, RangeType
<1>2. TypeOK'
  BY <1>1 DEF Inv, TypeOK, Remote, Going
<1>3. Bounded'
  BY DEF Inv, Going, Bounded, Writing
<1>4. pc' \notin {"identify", "write", "where", "image", "start"}
  BY DEF Going
<1>5. pc' \in {"up", "down"} => tries' # 0
  BY DEF Going
<1>6. board'.rom => place' = Nowhere
  BY DEF Inv, Remote
<1> QED
  BY <1>2, <1>3, <1>4, <1>5, <1>6 DEF Inv

(* A call that fails ends the session. *)
LEMMA GivingUp == TypeOK /\ Finish(FALSE) /\ UNCHANGED resets => Going
BY DEF TypeOK, Finish, Going

LEMMA Refused ==
  ASSUME Inv, Fails, UNCHANGED << board, resets >>
  PROVE  Inv'
<1>1. TypeOK
  BY DEF Inv
<1>2. Remote
  BY <1>1, UnservedIsRemote, AstrayIsRemote DEF Fails
<1> QED
  BY <1>1, <1>2, GivingUp, GoingOn DEF Fails

-----------------------------------------------------------------------------
(* The calls that wait for the server. *)
LEMMA Waits ==
  ASSUME Inv, Ping \/ PingAgain \/ Reset \/ Down \/ Up
  PROVE  Inv'
<1>1. TypeOK /\ UNCHANGED << board, resets >>
  BY DEF Inv, Ping, PingAgain, Reset, Down, Up
<1>2. Remote
  <2>1. CASE Ping \/ PingAgain \/ Down \/ Up
    <3>1. \/ Unserved
          \/ /\ ahead' \in {FALSE, OutOfStep}
             /\ UNCHANGED << mode, place, alive, boot, running >>
      BY <2>1 DEF Ping, PingAgain, Down, Up, xlink_ping, PingAndSleep
    <3> QED
      BY <1>1, <3>1, UnservedIsRemote, PingIsRemote
  <2>3. CASE Reset
    <3>1. Restart(board.type) \/ Standing
      BY <2>3 DEF Reset, ResetsAndWaits
    <3> QED
      BY <1>1, <3>1, StandingIsRemote, RestartIsRemote
  <2> QED
    BY <2>1, <2>3
<1>3. Going
  <2>1. CASE Ping \/ PingAgain
    BY <1>1, <2>1 DEF Ping, PingAgain, xlink_ping, GoTo, TypeOK, Going
  <2>2. CASE Down
    BY <1>1, <2>2 DEF Inv, Down, xlink_ping, GoTo, TypeOK, Going
  <2>3. CASE Up
    <3>1. /\ tries \in 0 .. ResetTimeout /\ tries # 0 /\ pc = "up"
          /\ after \in {"done", "ping", "who", "ready"}
          /\ outcome \in {"none", "ok", "failed"}
      BY <2>3 DEF Inv, TypeOK, Up
    <3>2. \/ after = "ready" /\ Finish(TRUE)
          \/ after # "ready" /\ GoTo(after)
          \/ tries = 1 /\ Finish(FALSE)
          \/ /\ tries # 1 /\ tries' = tries - 1
             /\ UNCHANGED << machine, todo, self, pc, after, info, code, outcome >>
      BY <2>3 DEF Up, PingAndSleep, xlink_ping
    <3> QED
      BY <1>1, <3>1, <3>2 DEF Going, Finish, GoTo, ResetTimeout
  <2>4. CASE Reset
    BY <1>1, <2>4 DEF Reset, ResetsAndWaits, TypeOK, Going, ResetTimeout
  <2> QED
    BY <2>1, <2>2, <2>3, <2>4
<1> QED
  BY <1>2, <1>3, GoingOn

(* The calls that find out about the machine, or start a program. *)
LEMMA Asks ==
  ASSUME Inv, Ask \/ Who \/ Go64 \/ Mode \/ Warm \/ Go
  PROVE  Inv'
<1>1. TypeOK /\ UNCHANGED << board, resets >>
  BY DEF Inv, Ask, Who, Go64, Mode, Warm, Go
<1>2. CASE Fails
  BY <1>1, <1>2, Refused
<1> SUFFICES ASSUME ~Fails
             PROVE  Inv'
  BY <1>2
<1>3. Remote
  <2>1. CASE Ask \/ Who \/ Mode
    BY <1>1, <2>1, AstrayIsRemote, ServedIsRemote DEF Ask, Who, Mode
  <2>2. CASE Go64
    BY <1>1, <2>2, RestartIsRemote DEF Go64
  <2>3. CASE Warm
    <3>1. alive /\ running' = FALSE /\ UNCHANGED << mode, boot >>
      BY <2>3 DEF Warm
    <3>2. \/ place' = Nowhere /\ alive' = board.rom /\ ahead' \in BOOLEAN
          \/ ahead' = FALSE /\ UNCHANGED << place, alive >>
      BY <2>3 DEF Warm, WarmStart64
    <3> QED
      BY <1>1, <3>1, <3>2, FoundIsRemote, Alive
  <2>4. CASE Go
    <3>1. CASE Astray
      BY <1>1, <3>1, AstrayIsRemote
    <3>2. CASE /\ Taken
               /\ \/ running' = TRUE /\ alive' = board.rom /\ place' = Nowhere
                  \/ UNCHANGED << running, alive, place >>
      BY <1>1, <3>2, TakenIsRemote, Alive
    <3> QED
      BY <2>4, <3>1, <3>2 DEF Go
  <2> QED
    BY <2>1, <2>2, <2>3, <2>4
<1>4. Going
  <2>1. CASE Ask \/ Mode \/ Warm \/ Go
    BY <1>1, <2>1 DEF Ask, Mode, Warm, Go, GoTo, Finish, TypeOK, Going
  <2>2. CASE Who
    <3>1. GoTo("mode") \/ GoTo("go64") \/ GoTo("switchBack")
      <4>1. machine.type = "c64" \/ machine.type = "c128"
        BY <1>1 DEF TypeOK, c64, c128
      <4> QED
        BY <2>2, <4>1 DEF Who
    <3> QED
      BY <1>1, <3>1 DEF Finish, GoTo, TypeOK, Going
  <2>3. CASE Go64
    BY <1>1, <2>3 DEF Go64, Finish, TypeOK, Going, ResetTimeout
  <2> QED
    BY <2>1, <2>2, <2>3
<1> QED
  BY <1>3, <1>4, GoingOn

-----------------------------------------------------------------------------
(* The next command. *)
LEMMA Begins ==
  ASSUME Inv, BeginWrite \/ BeginOther \/ End
  PROVE  Inv'
<1>1. TypeOK /\ UNCHANGED << board, mode, place, alive, boot, running, ahead, resets >>
  BY DEF Inv, BeginWrite, BeginOther, End, Begin, remote
<1>2. Remote
  BY <1>1, StandingIsRemote DEF Standing
<1>3. CASE End
  BY <1>1, <1>2, <1>3, GoingOn DEF End, TypeOK, Going
<1> SUFFICES ASSUME BeginWrite \/ BeginOther
             PROVE  Inv'
  BY <1>3
<1>4. /\ todo # <<>> /\ todo' = Tail(todo) /\ machine' = Chosen(Head(todo))
      /\ UNCHANGED << after, tries, info, code >>
  BY DEF BeginWrite, BeginOther, Begin
<1>5. Head(todo) \in CommandType /\ Tail(todo) \in Seq(CommandType)
  BY <1>1, <1>4 DEF TypeOK
<1>6. machine' \in {c64, c128}
  <2>1. Head(todo).type \in {"same", "c64", "c128"} /\ machine \in {c64, c128}
    BY <1>1, <1>5 DEF CommandType, TypeOK
  <2> QED
    BY <1>4, <2>1 DEF Chosen
<1>7. CASE BeginWrite
  <2> DEFINE c == Head(todo)
  <2>1. /\ self' \in CommandType
        /\ self'.op = c.op /\ c.op \in {"load", "run", "fill", "poke"}
        /\ \/ self'.start + self'.size <= self'.end
           \/ self'.end = self'.start /\ self'.size = 1
    <3>1. c.op \in {"load", "run", "fill", "poke"}
      BY <1>7 DEF BeginWrite, Begin
    <3>2. CASE c.op \in {"load", "run"}
      <4>1. self' = Loaded(c, machine')
        BY <1>7, <3>2 DEF BeginWrite
      <4> QED
        BY <1>5, <1>6, <3>1, <4>1, LoadedType
    <3>3. CASE c.op = "fill"
      <4>1. self' = Filled(c, machine')
        BY <1>7, <3>3 DEF BeginWrite
      <4> QED
        BY <1>5, <1>6, <3>1, <4>1, FilledType
    <3>4. CASE c.op = "poke"
      <4>1. self' = Poked(c, machine')
        BY <1>7, <3>4 DEF BeginWrite
      <4> QED
        BY <1>5, <1>6, <3>1, <4>1, PokedType
    <3> QED
      BY <3>1, <3>2, <3>3, <3>4
  <2>2. \/ outcome' = "failed" /\ pc' = "done"
        \/ outcome' = "none" /\ pc' = IF Forced(self') THEN "write" ELSE "identify"
    BY <1>7 DEF BeginWrite
  <2>3. /\ pc' \in {"done", "write", "identify"} /\ outcome' \in {"failed", "none"}
        /\ pc' = "write" => Forced(self')
    BY <2>2
  <2>4. TypeOK'
    BY <1>1, <1>4, <1>5, <1>6, <2>1, <2>3 DEF TypeOK
  <2>5. Bounded' /\ Writing'
    BY <2>1 DEF Bounded, Writing
  <2> QED
    BY <1>1, <2>3, <2>4, <2>5 DEF Inv, Forced
<1>8. CASE BeginOther
  <2>1. /\ self' = Head(todo) /\ outcome' = "none"
        /\ self'.op \in {"peek", "jump", "relocate", "ready", "reset"}
    BY <1>8 DEF BeginOther, Begin
  <2>2. /\ pc' \in {"ask", "where", "ping", "reset"}
        /\ pc' = "where" => self'.op = "relocate"
    BY <1>8, <2>1 DEF BeginOther
  <2>3. TypeOK'
    BY <1>1, <1>4, <1>5, <1>6, <2>1, <2>2 DEF TypeOK
  <2>4. Bounded'
    BY <2>1 DEF Bounded, Writing
  <2> QED
    BY <1>1, <2>2, <2>3, <2>4 DEF Inv
<1> QED
  BY <1>7, <1>8

(* The remote part of the type invariant, where a server takes the call. *)
LEMMA RemoteKinds ==
  ASSUME TypeOK, UNCHANGED << board, mode, place, alive, boot, running >>, ahead' = FALSE
  PROVE  /\ mode' \in {"c64", board'.type} /\ place' \in RangeType /\ boot' \in Nat
         /\ running' \in BOOLEAN /\ alive' \in BOOLEAN /\ ~(alive' /\ boot' > 0)
         /\ ~ahead'
BY DEF TypeOK

(* The decision: a place that the search finds is clear of the data. *)
LEMMA Identifies ==
  ASSUME Inv, Identify
  PROVE  Inv'
<1> DEFINE found == Place(Areas, range_size(place), Data)
<1>1. /\ TypeOK /\ pc = "identify" /\ Writing
      /\ UNCHANGED << board, resets >>
  BY DEF Inv, Identify
<1>2. CASE Fails
  BY <1>1, <1>2, Refused
<1>3. CASE /\ Served /\ info' = place
           /\ UNCHANGED << machine, todo, self, after, tries >>
           /\ \/ /\ board.rom \/ ~range_overlaps(Data, place)
                 /\ pc' = "write" /\ UNCHANGED << code, outcome >>
              \/ pc' = "done" /\ outcome' = "failed" /\ UNCHANGED code
              \/ ~board.rom /\ found # NoPlace /\ pc' = "image" /\ code' = found /\ UNCHANGED outcome
  <2>1. UNCHANGED << mode, place, alive, boot, running >> /\ ahead' = FALSE
    BY <1>3 DEF Served, Taken
  <2>2. self.start \in Int /\ self.end \in Int /\ place \in RangeType
    BY <1>1 DEF TypeOK, CommandType
  <2>3. Data \in RangeType /\ Data' = Data /\ range_size(place) \in Int
    BY <1>3, <2>2 DEF Data, range_new, range_size, RangeType
  <2>4. found # NoPlace =>
          /\ found \in Int
          /\ ~range_overlaps(range_new(found, found + range_size(place)), Data)
    <3>1. \A i \in DOMAIN Areas : i \in 1 .. 3 /\ Areas[i] \in RangeType
      BY <1>1, AreasType DEF TypeOK
    <3> QED
      BY <2>3, <3>1, PlaceIsClear
  <2> HIDE DEF found
  <2>5. TypeOK'
    <3>1. info' \in RangeType /\ code' \in Int /\ outcome' \in {"none", "ok", "failed"}
          /\ pc' \in {"write", "done", "image"}
      <4>1. code \in Int /\ outcome \in {"none", "ok", "failed"}
        BY <1>1 DEF TypeOK
      <4> QED
        BY <1>3, <2>2, <2>4, <4>1
    <3> QED
      BY <1>1, <1>3, <2>1, <3>1, RemoteKinds DEF TypeOK
  <2>6. Bounded' /\ Writing'
    BY <1>1, <1>3 DEF Inv, Bounded, Writing
  <2>7. CASE (board.rom \/ ~range_overlaps(Data, place)) /\ pc' = "write"
    BY <1>1, <2>1, <2>3, <2>5, <2>6, <2>7 DEF Inv
  <2>8. CASE pc' = "done"
    BY <1>1, <2>1, <2>5, <2>6, <2>8 DEF Inv
  <2>9. CASE ~board.rom /\ found # NoPlace /\ pc' = "image" /\ code' = found
    <3>1. New' = range_new(found, found + range_size(place))
      BY <1>3, <2>9 DEF New
    <3>2. New' \in RangeType
      BY <2>2, <2>3, <2>4, <2>9, <3>1 DEF range_new, RangeType
    <3>3. ~range_overlaps(Data, New)'
      BY <2>3, <2>4, <2>9, <3>1, <3>2, OverlapSymmetric
    <3> QED
      BY <1>1, <2>1, <2>5, <2>6, <2>9, <3>3 DEF Inv
  <2> QED
    BY <1>3, <2>7, <2>8, <2>9
<1> QED
  BY <1>2, <1>3 DEF Identify

LEMMA Relocates ==
  ASSUME Inv, Where \/ LoadImage \/ StartImage
  PROVE  Inv'
<1>1. TypeOK /\ UNCHANGED << board, resets >>
  BY DEF Inv, Where, LoadImage, StartImage
<1>2. CASE Fails
  BY <1>1, <1>2, Refused
<1>3. CASE Served /\ Finish(TRUE)
  <2>1. Remote
    BY <1>1, <1>3, ServedIsRemote
  <2>2. Going
    BY <1>1, <1>3 DEF Finish, TypeOK, Going
  <2> QED
    BY <2>1, <2>2, GoingOn
<1>4. CASE /\ pc = "where" /\ Served /\ info' = place /\ code' = self.start
           /\ UNCHANGED << machine, todo, self, after, tries >>
           /\ ~board.rom
           /\ \/ pc' = "done" /\ outcome' = "failed"
              \/ pc' = "image" /\ UNCHANGED outcome
  <2>1. UNCHANGED << mode, place, alive, boot, running >> /\ ahead' = FALSE
    BY <1>4 DEF Served, Taken
  <2>2. self.start \in Int /\ self.op = "relocate"
    BY <1>1, <1>4 DEF Inv, TypeOK, CommandType
  <2>3. TypeOK'
    BY <1>1, <1>4, <2>1, <2>2, RemoteKinds DEF TypeOK
  <2>4. Bounded'
    BY <1>4 DEF Inv, Bounded, Writing
  <2> QED
    BY <1>1, <1>4, <2>1, <2>2, <2>3, <2>4 DEF Inv
<1>5. CASE /\ pc = "image" /\ GoTo("start") /\ UNCHANGED << mode, place, boot, running >>
           /\ UNCHANGED alive /\ ahead' = FALSE
  <2>1. TypeOK'
    <3>1. UNCHANGED << machine, todo, self, after, tries, info, code, outcome >>
          /\ pc' = "start"
      BY <1>5 DEF GoTo
    <3> QED
      BY <1>1, <1>5, <3>1, RemoteKinds DEF TypeOK
  <2>2. Bounded' /\ (Writing' <=> Writing)
    BY <1>5 DEF Inv, GoTo, Bounded, Writing
  <2>3. UNCHANGED << self, info, code, place, board >> /\ pc' = "start"
    BY <1>1, <1>5 DEF GoTo
  <2>4. Data' = Data /\ New' = New
    BY <2>3 DEF Data, New
  <2> QED
    BY <1>5, <2>1, <2>2, <2>3, <2>4 DEF Inv
<1>6. CASE Taken /\ alive' = FALSE /\ Finish(FALSE) /\ UNCHANGED << place, running >>
  <2>1. Remote
    BY <1>1, <1>6, TakenIsRemote, Alive
  <2> QED
    BY <1>1, <2>1, <1>6, GivingUp, GoingOn
<1>7. CASE /\ pc = "start" /\ alive /\ place' = New /\ ahead' = FALSE
           /\ alive' = (machine.type = mode /\ Visible(New))
           /\ UNCHANGED << mode, boot, running >>
           /\ IF self.op = "relocate" THEN Finish(TRUE) ELSE GoTo("write")
  <2>1. UNCHANGED << machine, todo, self, after, tries, info, code >>
    BY <1>7 DEF Finish, GoTo
  <2>2. /\ pc' \in {"next", "write"}
        /\ pc' = "write" => self.op # "relocate"
        /\ outcome' \in {"none", "ok", "failed"}
    BY <1>1, <1>7 DEF Finish, GoTo, TypeOK
  <2>3. New \in RangeType
    BY <1>1 DEF New, range_new, range_size, RangeType, TypeOK
  <2>4. alive' \in BOOLEAN /\ ~(alive' /\ boot' > 0)
    <3>1. ~(boot > 0)
      BY <1>1, <1>7, Alive
    <3>2. boot' = boot
      BY <1>7
    <3>3. alive' \in BOOLEAN
      BY <1>7, Zenon
    <3> QED
      BY <3>1, <3>2, <3>3, Zenon
  <2>5. boot' \in Nat /\ running' \in BOOLEAN /\ ahead' \in BOOLEAN
        /\ mode' \in {"c64", board.type}
    BY <1>1, <1>7, Alive
  <2>6. TypeOK'
    BY <1>1, <1>7, <2>1, <2>2, <2>3, <2>4, <2>5 DEF TypeOK
  <2>7. Bounded' /\ (Writing' <=> Writing)
    BY <2>1 DEF Inv, Bounded, Writing
  <2>8. pc' = "write" => Writing' /\ ~range_overlaps(Data, place)'
    <3>1. Data' = Data
      BY <2>1 DEF Data
    <3> QED
      BY <1>7, <2>2, <2>7, <3>1 DEF Inv
  <2>9. ~board'.rom
    BY <1>1, <1>7 DEF Inv
  <2> QED
    BY <2>2, <2>6, <2>7, <2>8, <2>9 DEF Inv
<1> QED
  BY <1>2, <1>3, <1>4, <1>5, <1>6, <1>7
     DEF Where, LoadImage, StartImage, Served, Taken

LEMMA Writes ==
  ASSUME Inv, Write
  PROVE  Inv'
<1>1. TypeOK /\ UNCHANGED << board, resets >>
  BY DEF Inv, Write
<1>2. CASE Fails
  BY <1>1, <1>2, Refused
<1>3. CASE Taken /\ alive' = FALSE /\ Finish(FALSE) /\ UNCHANGED << place, running >>
  <2>1. Remote
    BY <1>1, <1>3, TakenIsRemote, Alive
  <2> QED
    BY <1>1, <1>3, <2>1, GivingUp, GoingOn
<1>4. CASE (Served \/ Astray) /\ (GoTo("go") \/ Finish(TRUE))
  <2>1. Remote
    BY <1>1, <1>4, ServedIsRemote, AstrayIsRemote
  <2>2. Going
    BY <1>1, <1>4 DEF GoTo, Finish, TypeOK, Going
  <2> QED
    BY <2>1, <2>2, GoingOn
<1> QED
  BY <1>2, <1>3, <1>4 DEF Write

(* A reset, at whatever moment: the RAM server is gone. *)
LEMMA Resets ==
  ASSUME Inv, UserResets
  PROVE  Inv'
<1>1. TypeOK /\ UNCHANGED << board, client >> /\ Restart(board.type)
  BY DEF Inv, UserResets
<1>2. Remote /\ place' = Nowhere
  BY <1>1, RestartIsRemote DEF Restart
<1>3. resets' \in 0 .. MaxResets
  BY <1>1, ResetsAssumption DEF UserResets, TypeOK, ResetsAssumption
<1>4. UNCHANGED << machine, todo, self, pc, after, tries, info, code, outcome >>
  BY <1>1 DEF client
<1>5. place' \in RangeType
  BY <1>2 DEF Nowhere, range_new, RangeType
<1>6. TypeOK'
  BY <1>1, <1>2, <1>3, <1>4, <1>5 DEF TypeOK, Remote
<1>7. Bounded' /\ (Writing' <=> Writing) /\ (Forced(self)' <=> Forced(self))
  BY <1>4 DEF Inv, Bounded, Writing
<1>8. Data' = Data /\ New' = New
  BY <1>4 DEF Data, New
<1> QED
  BY <1>1, <1>2, <1>4, <1>6, <1>7, <1>8 DEF Inv

LEMMA StepInv == Inv /\ [Next]_vars => Inv'
<1> SUFFICES ASSUME Inv, [Next]_vars PROVE Inv'
  OBVIOUS
<1>1. CASE UNCHANGED vars
  BY <1>1 DEF vars, remote, client, Inv, TypeOK, Bounded, Writing, Forced, Data, New
<1> QED
  BY <1>1, Begins, Identifies, Relocates, Writes, Asks, Waits, Resets
     DEF Next, ClientStep

LEMMA Invariance == Spec => []Inv
  BY InitInv, StepInv, PTL DEF Spec

-----------------------------------------------------------------------------
(* Whatever the session asks for and however often the machine is reset,   *)
(* the variables keep their kinds; a server that takes calls is on a       *)
(* machine that has booted; and where PA2 has moved without the client     *)
(* having seen it, by a reset, the warm start of a C64 or a late answer,   *)
(* that server is one in the kernal.                                       *)
THEOREM SessionTypes == Spec => []TypeOK
<1>1. Inv => TypeOK
  BY DEF Inv
<1> QED
  BY <1>1, Invariance, PTL

(* load, run, fill and poke: the server that takes the data is clear of it,*)
(* for every session and every place a server may be in.                   *)
THEOREM ServerIsSpared == Spec => []SparesServer
<1>1. Inv => SparesServer
  <2> SUFFICES ASSUME Inv, pc = "write", ~Forced(self)
               PROVE  ~Share(Cells, place)
    BY DEF SparesServer
  <2>1. /\ self.start \in Int /\ self.end \in Int /\ self.size \in Int
        /\ place \in RangeType
    BY DEF Inv, TypeOK, CommandType
  <2>2. CASE place = Nowhere
    BY <2>1, <2>2, NowhereIsEmpty DEF Cells, range_new, RangeType
  <2>3. CASE ~range_overlaps(Data, place)
    <3>1. \/ self.start + self.size <= self.end
          \/ self.end = self.start /\ self.size = 1
      BY DEF Inv, Bounded
    <3> QED
      BY <2>1, <2>3, <3>1, CellsApart DEF Cells, Data
  <2> QED
    BY <2>2, <2>3 DEF Inv
<1> QED
  BY <1>1, Invariance, PTL

-----------------------------------------------------------------------------
(* A load goes into the RAM below the I/O area, or does not touch it.      *)
LEMMA LoadedSafely ==
  ASSUME NEW c \in CommandType, NEW m \in {c64, c128},
         c.memory = 255 \/ c.bank = 255,
         NEW d, d = Loaded(c, m)
  PROVE  \/ d.memory = m.safe_memory /\ d.bank = m.safe_bank
         \/ ~range_overlaps(range_new(d.start, d.end), m.io)
<1> DEFINE start == IF c.start = -1 THEN c.head ELSE c.start
           skip  == IF c.skip # -1 THEN c.skip ELSE IF c.start = -1 THEN 2 ELSE 0
           left  == c.length - skip
           end   == IF c.end = -1 THEN start + left ELSE c.end
           size  == IF end - start < left THEN end - start ELSE left
           filled == [c EXCEPT !.start = start, !.skip = skip, !.end = end, !.size = size]
<1>1. start \in Int /\ skip \in Int /\ left \in Int
  BY DEF CommandType
<1>2. end \in Int
  BY <1>1 DEF CommandType
<1>3. size \in Int
  BY <1>1, <1>2
<1> HIDE DEF start, skip, left, end, size
<1>4. filled \in CommandType /\ filled.start = start /\ filled.end = end
  BY <1>1, <1>2, <1>3 DEF CommandType
<1>5. d = IF range_overlaps(range_new(start, end), m.io)
          THEN SafeMemoryAndBank(filled, m) ELSE MemoryAndBank(filled, m)
  BY DEF Loaded, start, skip, left, end, size
<1> HIDE DEF filled
<1>6. CASE d = SafeMemoryAndBank(filled, m)
  <2>1. d.memory = m.safe_memory /\ d.bank = m.safe_bank
    BY <1>4, <1>6 DEF SafeMemoryAndBank, CommandType
  <2> QED
    BY <2>1
<1>7. CASE /\ d = MemoryAndBank(filled, m)
           /\ ~range_overlaps(range_new(start, end), m.io)
  <2>1. d.start = start /\ d.end = end
    BY <1>4, <1>7, Defaults
  <2> QED
    BY <1>7, <2>1
<1> QED
  BY <1>5, <1>6, <1>7

LEMMA LoadSparesIo ==
  ASSUME Inv, BeginWrite, self'.op \in {"load", "run"}, Share(Cells', machine'.io)
  PROVE  \/ self'.memory = machine'.safe_memory /\ self'.bank = machine'.safe_bank
         \/ Head(todo).memory # 255 /\ Head(todo).bank # 255
<1> DEFINE c == Head(todo)
<1>1. c \in CommandType /\ machine' \in {c64, c128}
  <2>1. c \in CommandType
    BY DEF Inv, TypeOK, BeginWrite, Begin
  <2>2. c.type \in {"same", "c64", "c128"} /\ machine \in {c64, c128}
    BY <2>1 DEF Inv, TypeOK, CommandType
  <2>3. machine' = Chosen(c)
    BY DEF BeginWrite, Begin
  <2> QED
    BY <2>1, <2>2, <2>3 DEF Chosen
<1>2. self' = Loaded(c, machine')
  <2>1. c.op \in {"load", "run", "fill", "poke"}
    BY DEF BeginWrite, Begin
  <2>2. CASE c.op \in {"load", "run"}
    BY <2>2 DEF BeginWrite
  <2>3. CASE c.op = "fill"
    <3>1. self' = Filled(c, machine')
      BY <2>3 DEF BeginWrite
    <3>2. self'.op = "fill"
      BY <1>1, <2>3, <3>1, FilledType
    <3> QED
      BY <3>2
  <2>4. CASE c.op = "poke"
    <3>1. self' = Poked(c, machine')
      BY <2>4 DEF BeginWrite
    <3>2. self'.op = "poke"
      BY <1>1, <2>4, <3>1, PokedType
    <3> QED
      BY <3>2
  <2> QED
    BY <2>1, <2>2, <2>3, <2>4
<1> HIDE DEF c
<1>3. self' \in CommandType /\ self'.start + self'.size <= self'.end
  BY <1>1, <1>2, LoadedType
<1>4. self'.start \in Int /\ self'.end \in Int /\ self'.size \in Int
  BY <1>3 DEF CommandType
<1>5. machine'.io \in RangeType
  BY <1>1 DEF c64, c128, range_new_from_int, range_new, range_max, RangeType
<1>6. range_overlaps(range_new(self'.start, self'.end), machine'.io)
  BY <1>3, <1>4, <1>5, CellsApart DEF Cells
<1> QED
  BY <1>1, <1>2, <1>6, LoadedSafely DEF c

(* The safety measure of load, for every file, range and skip: the I/O     *)
(* area is written to only if the user gave memory and bank.               *)
THEOREM LoadsSpareIo == Spec => IoIsSpared
<1>1. Inv /\ [Next]_vars =>
        [ BeginWrite /\ self'.op \in {"load", "run"} /\ Share(Cells', machine'.io)
            => \/ self'.memory = machine'.safe_memory /\ self'.bank = machine'.safe_bank
               \/ Head(todo).memory # 255 /\ Head(todo).bank # 255 ]_vars
  BY LoadSparesIo
<1> QED
  BY <1>1, Invariance, PTL DEF Spec, IoIsSpared

-----------------------------------------------------------------------------
(* A server that still answers when the client asks for its mode is that   *)
(* of the machine it was found to be: to become another it must be reset,  *)
(* after which the answer does not come.  Nor does the program end that it *)
(* was found to run.                                                       *)
SameMachine ==
  pc \in {"mode", "warm"} /\ alive => mode = machine.type /\ (pc = "warm" => running)

LEMMA StaysSame ==
  ASSUME Inv, SameMachine, [Next]_vars
  PROVE  SameMachine'
<1> SUFFICES ASSUME pc' \in {"mode", "warm"}, alive'
             PROVE  mode' = machine'.type /\ (pc' = "warm" => running')
  BY DEF SameMachine
<1>0. ~Fails
  BY DEF Fails, Finish
<1>1. CASE UNCHANGED vars
  BY <1>1 DEF vars, remote, client, SameMachine
<1>2. CASE UserResets
  BY <1>2 DEF UserResets, Restart
<1>3. CASE Who
  <2>1. machine.type = "c64" \/ machine.type = "c128"
    BY DEF Inv, TypeOK, c64, c128
  <2>2. /\ UNCHANGED << mode, machine >>
        /\ pc' = "mode" => mode = machine.type
        /\ pc' \in {"mode", "go64", "switchBack"}
    BY <1>0, <1>3, <2>1 DEF Who, Served, Taken, GoTo
  <2> QED
    BY <2>2
<1>4. CASE Mode
  <2>1. Served /\ running /\ GoTo("warm")
    BY <1>0, <1>4 DEF Mode, Finish
  <2> QED
    BY <1>4, <2>1 DEF Mode, Served, Taken, GoTo, SameMachine
<1>5. CASE BeginWrite \/ BeginOther \/ End
  BY <1>5 DEF BeginWrite, BeginOther, Begin, End
<1>6. CASE Identify \/ Where \/ LoadImage \/ StartImage \/ Write \/ Go \/ Ask
  BY <1>0, <1>6 DEF Identify, Where, LoadImage, StartImage, Write, Go, Ask, Finish, GoTo
<1>7. CASE Ping \/ PingAgain \/ Down \/ Reset \/ Go64 \/ Warm
  BY <1>0, <1>7 DEF Ping, PingAgain, Down, Reset, Go64, Warm, xlink_ping, ResetsAndWaits,
     Finish, GoTo
<1>8. CASE Up
  <2>1. \/ Finish(TRUE) \/ Finish(FALSE)
        \/ pc' = after \/ pc' = pc
    BY <1>8 DEF Up, PingAndSleep, xlink_ping, GoTo
  <2> QED
    BY <1>8, <2>1 DEF Up, Finish, Inv, TypeOK
<1> QED
  BY <1>1, <1>2, <1>3, <1>4, <1>5, <1>6, <1>7, <1>8 DEF Next, ClientStep

(* Where ready ends well without a change of the machine's mode, the       *)
(* machine is the one the client has tables for and no program runs; and   *)
(* there is a server, unless it was one in the RAM of a C64 and a program  *)
(* had to be stopped: whatever resets, and strobes answered late, leave of *)
(* PA2, and however they fall.                                             *)
THEOREM ReadyIsReady == Spec => ReadyMeansServing
<1> DEFINE Ready == /\ mode' = machine.type
                    /\ ~running'
                    /\ alive' \/ (machine.type = "c64" /\ running /\ ~board.rom)
<1>1. Init => SameMachine
  BY DEF Init, SameMachine
<1>2. Inv /\ SameMachine /\ [Next]_vars => SameMachine'
  BY StaysSame
<1>3. Inv /\ SameMachine /\ [Next]_vars =>
        [ (Mode \/ Warm) /\ pc' = "next" => Ready ]_vars
  <2> SUFFICES ASSUME Inv, SameMachine, Mode \/ Warm, pc' = "next"
               PROVE  Ready
    OBVIOUS
  <2>1. ~Fails
    BY DEF Fails, Finish
  <2>2. CASE Mode
    <3>1. Served /\ ~running /\ Finish(TRUE)
      BY <2>1, <2>2 DEF Mode, GoTo
    <3> QED
      BY <2>2, <3>1 DEF Mode, Served, Taken, Finish, SameMachine
  <2>3. CASE Warm
    <3>1. alive /\ pc = "warm" /\ mode' = mode /\ running' = FALSE
      BY <2>1, <2>3 DEF Warm
    <3>2. IF machine.type = "c64" THEN alive' = board.rom ELSE alive' = alive
      BY <2>1, <2>3 DEF Warm, WarmStart64
    <3> QED
      BY <3>1, <3>2, Alive DEF Inv, SameMachine
  <2> QED
    BY <2>2, <2>3
<1> QED
  BY <1>1, <1>2, <1>3, Invariance, PTL DEF Spec, ReadyMeansServing
=============================================================================
