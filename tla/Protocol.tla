------------------------------ MODULE Protocol ------------------------------
(***************************************************************************)
(* What both ends of an xlink connection agree on: bytes and addresses,    *)
(* the command codes and the shape of a request on the wire.  A request is *)
(* a record with the operation, the bytes the PC sends (the header of the  *)
(* command, then its data) and the number of bytes it expects back.        *)
(***************************************************************************)
EXTENDS Naturals, Sequences

Byte    == 0 .. 255
AddressSpace == 256 * 256
Address == 0 .. AddressSpace - 1

(* The lo(), hi() and hlo() macros, and the 16-bit address two bytes make. *)
lo(x) == x % 256
hi(x) == (x \div 256) % 256
hlo(x) == (x \div AddressSpace) % 256
Word(l, h) == l + 256 * h

(* Mutant of Wrap: the carry out of the high byte is kept. *)
WrapMutant(a) == a

(* 16-bit address arithmetic wraps. *)
Wrap(a) == a % AddressSpace

LoadCmd     == 1
SaveCmd     == 2
PokeCmd     == 3
PeekCmd     == 4
JumpCmd     == 5
RunCmd      == 6
InjectCmd   == 7
PingCmd     == 253
IdentifyCmd == 254

-----------------------------------------------------------------------------
(* Memory is a function from the cells a run cares about to bytes: reading *)
(* any other cell gives 0, writing it adds it.                             *)
IsMemory(m) == DOMAIN m \subseteq Address /\ \A a \in DOMAIN m : m[a] \in Byte
Cell(m, a) == IF a \in DOMAIN m THEN m[a] ELSE 0
Put(m, a, v) == [c \in DOMAIN m \cup {a} |-> IF c = a THEN v ELSE m[c]]
CellWord(m, a) == Word(Cell(m, a), Cell(m, Wrap(a + 1)))
PutWord(m, a, w) == Put(Put(m, a, lo(w)), Wrap(a + 1), hi(w))

-----------------------------------------------------------------------------
(* The requests of xlink.c: what is asked for (the operation, the address, *)
(* the bytes to be written or the number of bytes wanted back), and what   *)
(* is put on the wire for it, first the header, then the data.  `memory'   *)
(* and `bank' travel in every header that names an address; a jump address *)
(* is sent high byte first, an inject address is decremented beforehand.   *)
Request(op, at, writes, want, header, data) ==
  [op |-> op, at |-> at, writes |-> writes, want |-> want,
   header |-> header, data |-> data]

xlink_load(memory, bank, address, data) ==
  LET end == Wrap(address + Len(data))
  IN Request("load", address, data, 0,
             << LoadCmd, memory, bank, lo(address), hi(address), lo(end), hi(end) >>,
             data)

xlink_save(memory, bank, address, size) ==
  LET end == Wrap(address + size)
  IN Request("save", address, <<>>, size,
             << SaveCmd, memory, bank, lo(address), hi(address), lo(end), hi(end) >>,
             <<>>)

xlink_peek(memory, bank, address) ==
  Request("peek", address, <<>>, 1,
          << PeekCmd, memory, bank, lo(address), hi(address) >>, <<>>)

xlink_poke(memory, bank, address, value) ==
  Request("poke", address, << value >>, 0,
          << PokeCmd, memory, bank, lo(address), hi(address), value >>, <<>>)

xlink_jump(memory, bank, address) ==
  Request("jump", address, <<>>, 0,
          << JumpCmd, memory, bank, hi(address), lo(address) >>, <<>>)

xlink_run == Request("run", 0, <<>>, 0, << RunCmd >>, <<>>)

xlink_inject(address) ==
  LET before == Wrap(address + AddressSpace - 1)
  IN Request("inject", address, <<>>, 0, << InjectCmd, hi(before), lo(before) >>, <<>>)

xlink_identify == Request("identify", 0, <<>>, 10, << IdentifyCmd >>, <<>>)

xlink_ping == Request("ping", 0, <<>>, 0, <<>>, <<>>)

xlink_reset == Request("reset", 0, <<>>, 0, <<>>, <<>>)

NoCall == Request("none", 0, <<>>, 0, <<>>, <<>>)

(* What those calls make of their arguments, as long as a transfer is not  *)
(* larger than the memory.                                                 *)
IsRequest(r) ==
  LET memory == r.header[2]
      bank == r.header[3]
  IN CASE r.op = "load" -> /\ r = xlink_load(memory, bank, r.at, r.writes)
                           /\ Len(r.writes) <= AddressSpace
       [] r.op = "save" -> /\ r = xlink_save(memory, bank, r.at, r.want)
                           /\ r.want <= AddressSpace
       [] r.op = "peek" -> r = xlink_peek(memory, bank, r.at)
       [] r.op = "poke" -> r = xlink_poke(memory, bank, r.at, r.writes[1])
       [] r.op = "jump" -> r = xlink_jump(memory, bank, r.at)
       [] r.op = "inject" -> r = xlink_inject(r.at)
       [] OTHER -> r \in {xlink_run, xlink_identify, xlink_ping, xlink_reset}

RequestType ==
  [op     : {"load", "save", "poke", "peek", "jump", "run", "inject",
             "identify", "ping", "reset"},
   at     : Address,
   writes : Seq(Byte),
   want   : Nat,
   header : Seq(Byte),
   data   : Seq(Byte)]

Out(r) == r.header \o r.data

Receives(r) == r.op \in {"save", "peek", "identify"}

(* identify asks for one byte, then for as many as its low nibble says,    *)
(* then for nine more; every other request knows its size beforehand.      *)
Want(r, got) ==
  IF r.op = "identify" /\ got # <<>> THEN r.want + (got[1] % 16) ELSE r.want

(* A call sends its header and, if it is a load, its data, ... *)
Parts(r) == IF r.op = "load" THEN 2 ELSE 1
Part(r, n) == IF n = 1 THEN r.header ELSE r.data

(* ... and receives its reply as a whole; an identification in three parts: *)
(* the size of the name, the name and the rest.                             *)
Replies(r) == IF r.op = "identify" THEN 3 ELSE 1
ReplySize(r, n, got) ==
  IF r.op # "identify" THEN r.want
  ELSE CASE n = 1 -> 1
         [] n = 2 -> got[1] % 16
         [] n = 3 -> 9

(* The cells a request writes or reads. *)
Touched(r) ==
  IF r.op = "identify" THEN {}
  ELSE { Wrap(r.at + i - 1) : i \in 1 .. Len(r.writes) + r.want }

(* All ones in the nine bytes after the id: nobody drove the lines. *)
Unidentified(bytes) ==
  LET n == Len(bytes) IN \A i \in n - 8 .. n : bytes[i] = 255
=============================================================================
