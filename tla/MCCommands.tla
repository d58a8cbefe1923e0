----------------------------- MODULE MCCommands -----------------------------
(* Small sessions for TLC.  The RAM servers are as long as real ones; the  *)
(* loads lie around them and around the area a C64 server is moved to.     *)
EXTENDS Commands

MCPlaces == { range_new(2070, 2550), range_new(49152, 49632) }

MCBootTimes == {1, 3, 13}

(* A file with a load address, one of plain data, and one poke. *)
Prg(op, head, length) == [Given(op) EXCEPT !.head = head, !.length = length]
Bin(start, length) == [Given("load") EXCEPT !.start = start, !.length = length]
Poke(at) == [Given("poke") EXCEPT !.start = at]
Fill(start, end) == [Given("fill") EXCEPT !.start = start, !.end = end]
Relocate(at) == [Given("relocate") EXCEPT !.start = at]
On(type, c) == [c EXCEPT !.type = type]

(* command_none: a list of files on the command line. *)
Files(prgs) ==
  << Given("ready") >>
  \o [ i \in 1 .. Len(prgs) |->
         [prgs[i] EXCEPT !.op = IF i = Len(prgs) THEN "run" ELSE "load"] ]

MCSessions == {
  << Prg("run", 2049, 5000) >>,                                 \* over the server
  Files(<< Prg("load", 49000, 800), Prg("load", 2049, 400) >>), \* one, then the other
  << Prg("load", 1, 60000), Given("peek") >>,                   \* nowhere to go
  << Poke(2070), Poke(2549), Poke(2550), Poke(49152) >>,
  << Fill(2551, 2600), Fill(2000, 2069), [Fill(4096, 4096) EXCEPT !.force = TRUE] >>,
  << [Bin(53000, 400) EXCEPT !.memory = 55] >>,
  << [Bin(53240, 20) EXCEPT !.memory = 55, !.bank = 0],
     [Bin(57344, 20) EXCEPT !.end = 57350] >>,
  << [Bin(2100, 300) EXCEPT !.force = TRUE], Given("jump") >>,
  << Relocate(51000), Relocate(40800), Bin(40000, 10) >>,
  << Given("reset"), On("c128", Given("ready")), On("c64", Given("ready")) >>,
  << On("c128", Prg("run", 7169, 100)) >>,
  << Given("ready"), Prg("run", 2049, 100), Given("ready") >>,
  << Given("ready"), [Prg("run", 2049, 100) EXCEPT !.force = TRUE], Given("peek"),
     Given("ready") >> }
=============================================================================
