----------------------------- MODULE Relocation -----------------------------
(***************************************************************************)
(* Where a RAM server goes when it is in the way of a load, in client.c:   *)
(* command_requires_server_relocation decides whether it is in the way,    *)
(* command_server_relocation_possible tries three areas of memory in turn, *)
(* each from its end downwards, one address at a time, and takes the first *)
(* place that is clear of the data to be loaded.                           *)
(***************************************************************************)
EXTENDS Machine

CONSTANTS
  Machines,             \* machine tables
  Datas,                \* the ranges a load may write
  Servers,              \* where a server may be
  Memtops               \* the tops of lower memory a server may report

(* Every area of a machine table is a range of memory above address zero. *)
ASSUME TableAssumption ==
  \A m \in Machines : \A r \in {m.loram, m.hiram, m.screenram} :
    r \in RangeType /\ range_valid(r) /\ r.start > 0

ASSUME LoadAssumption == Datas \subseteq RangeType

ASSUME ServerAssumption ==
  \A s \in Servers : s \in RangeType /\ s.start < s.end

ASSUME MemtopAssumption == \A top \in Memtops : top \in Nat

VARIABLES
  machine,      \* the table the client goes by
  data,         \* what is to be loaded
  server,       \* the range of addresses the server says it occupies
  rom,          \* whether it says it is in ROM
  memtop,       \* the top of lower memory it reported
  area,         \* the area being searched
  code,         \* the place being tried
  status        \* "asked", "usable" where it is, "searching",
                \* "found" a place at `code', or "failed"

vars == << machine, data, server, rom, memtop, area, code, status >>
request == << machine, data, server, rom, memtop >>

length == range_size(server)

(* Upper is loram and lower is hiram; on the C64 lower ends at memtop. *)
upper == machine.loram
screen == machine.screenram

lower(top) ==
  IF machine.type = "c64" THEN range_new(machine.hiram.start, top) ELSE machine.hiram

Area(name, top) ==
  CASE name = "upper"  -> upper
    [] name = "lower"  -> lower(top)
    [] name = "screen" -> screen

(* Mutant of AtEnd: the end of an area taken for its last address. *)
AtEndMutant(range, size) == range_new(range.end - 1 - size, range.end - 1)

AtEnd(range, size) == range_new(range.end - size, range.end)

Init ==
  /\ machine \in Machines
  /\ data \in Datas
  /\ server \in Servers
  /\ rom \in BOOLEAN
  /\ memtop \in Memtops
  /\ area = "upper"
  /\ code = server
  /\ status = "asked"

-----------------------------------------------------------------------------
Required == ~rom /\ range_overlaps(data, server)

StayPut ==
  /\ status = "asked"
  /\ ~Required
  /\ status' = "usable"
  /\ UNCHANGED << request, area, code >>

Search ==
  /\ status = "asked"
  /\ Required
  /\ status' = "searching"
  /\ code' = AtEnd(upper, length)
  /\ UNCHANGED << request, area >>

Fits == range_inside(code, Area(area, memtop))

MoveDown ==
  /\ status = "searching"
  /\ Fits
  /\ range_overlaps(code, data)
  /\ code' = range_move(code, -1)
  /\ UNCHANGED << request, area, status >>

Take ==
  /\ status = "searching"
  /\ Fits
  /\ ~range_overlaps(code, data)
  /\ status' = "found"
  /\ UNCHANGED << request, area, code >>

(* Mutant of NextArea: the lower area is skipped. *)
NextAreaMutant ==
  /\ status = "searching"
  /\ ~Fits
  /\ \/ /\ area \in {"upper", "lower"}
        /\ area' = "screen"
        /\ code' = AtEnd(screen, length)
        /\ UNCHANGED status
     \/ /\ area = "screen"
        /\ status' = "failed"
        /\ UNCHANGED << area, code >>
  /\ UNCHANGED request

NextArea ==
  /\ status = "searching"
  /\ ~Fits
  /\ \/ /\ area = "upper"
        /\ area' = "lower"
        /\ code' = AtEnd(lower(memtop), length)
        /\ UNCHANGED status
     \/ /\ area = "lower"
        /\ area' = "screen"
        /\ code' = AtEnd(screen, length)
        /\ UNCHANGED status
     \/ /\ area = "screen"
        /\ status' = "failed"
        /\ UNCHANGED << area, code >>
  /\ UNCHANGED request

Next == StayPut \/ Search \/ MoveDown \/ Take \/ NextArea

Spec == Init /\ [][Next]_vars

(* The loop runs. *)
FairSpec == Spec /\ WF_vars(Next)

-----------------------------------------------------------------------------
(* Every variable holds a value of its kind. *)
TypeOK ==
  /\ machine \in Machines
  /\ data \in Datas
  /\ server \in Servers
  /\ rom \in BOOLEAN
  /\ memtop \in Memtops
  /\ area \in {"upper", "lower", "screen"}
  /\ code \in RangeType
  /\ status \in {"asked", "usable", "searching", "found", "failed"}

(* The load is clear of the server that will receive it: of a RAM server   *)
(* that stays where it is, and of the place that was found for one that    *)
(* does not, which is inside its area and as long as the server.           *)
FoundIsFree ==
  /\ status = "usable" => rom \/ ~Share(data, server)
  /\ status = "found" =>
       /\ range_inside(code, Area(area, memtop))
       /\ range_size(code) = length
       /\ ~Share(code, data)

(* The areas searched before another one; an area where every place that   *)
(* the server fits in is in the way of the data.                           *)
Before(name) ==
  CASE name = "upper"  -> {}
    [] name = "lower"  -> {"upper"}
    [] name = "screen" -> {"upper", "lower"}

Blocked(range) ==
  \A s \in range.start .. range.end - length :
    range_overlaps(range_new(s, s + length), data)

(* The areas searched before, and every place above the one being tried,   *)
(* are in the way of the data: the search misses no place, and takes the   *)
(* one closest to the end of its area.                                     *)
ClosestToEnd == status \in {"searching", "found", "failed"} =>
  /\ \A name \in Before(area) : Blocked(Area(name, memtop))
  /\ \A s \in code.start + 1 .. Area(area, memtop).end - length :
        range_overlaps(range_new(s, s + length), data)

(* It gives up only if every place of the three areas is in the way. *)
FailsOnlyIfBlocked ==
  status = "failed" =>
    \A name \in {"upper", "lower", "screen"} : Blocked(Area(name, memtop))

(* The search comes out where Place says. *)
FindsPlace ==
  LET place == Place(<< upper, lower(memtop), screen >>, length, data)
  IN /\ status = "found" => code.start = place
     /\ status = "failed" => place = NoPlace

(* The search comes to an end. *)
Terminates == <>(status \in {"usable", "found", "failed"})
=============================================================================
