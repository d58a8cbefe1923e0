------------------------------ MODULE Machine ------------------------------
(***************************************************************************)
(* machine.c: what the client knows of the two machines; and the place the *)
(* search of client.c finds for a RAM server (the search itself is         *)
(* Relocation, see FindsPlace there).                                      *)
(***************************************************************************)
EXTENDS Range, Sequences

c64 == [
  type                |-> "c64",
  memory              |-> 55,
  bank                |-> 0,
  safe_memory         |-> 51,
  safe_bank           |-> 0,
  default_basic_start |-> 2049,
  io                  |-> range_new_from_int(53248, 57344),
  screenram           |-> range_new_from_int(1024, 2023),
  loram               |-> range_new_from_int(2049, 2560),
  hiram               |-> range_new_from_int(49152, 53248),
  lorom               |-> range_new_from_int(40960, 49152),
  hirom               |-> range_new_from_int(57344, 0) ]

c128 == [
  type                |-> "c128",
  memory              |-> 0,
  bank                |-> 15,
  safe_memory         |-> 1,
  safe_bank           |-> 14,
  default_basic_start |-> 7169,
  io                  |-> range_new_from_int(53248, 57344),
  screenram           |-> range_new_from_int(1024, 2023),
  loram               |-> range_new_from_int(4864, 7169),
  hiram               |-> range_new_from_int(7169, 16384),
  lorom               |-> range_new_from_int(16384, 53248),
  hirom               |-> range_new_from_int(57344, 0) ]

-----------------------------------------------------------------------------
(* The highest place of that length in an area that is clear of the data   *)
(* ends with the area or right below the data.                             *)
Clear(range, length, data) ==
  { code \in { range_new(end - length, end) : end \in {range.end, data.start - 1} } :
      range_inside(code, range) /\ ~range_overlaps(code, data) }

NoPlace == -1

Highest(places) ==
  CHOOSE code \in places : \A other \in places : other.start <= code.start

Possible(areas, length, data) ==
  { i \in DOMAIN areas : Clear(areas[i], length, data) # {} }

(* The highest place in the first area that has one. *)
Place(areas, length, data) ==
  LET possible == Possible(areas, length, data)
      first == CHOOSE i \in possible : \A j \in possible : i <= j
  IN IF possible = {} THEN NoPlace
     ELSE Highest(Clear(areas[first], length, data)).start
=============================================================================
