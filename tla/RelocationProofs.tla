-------------------------- MODULE RelocationProofs --------------------------
(***************************************************************************)
(* The search for a place to relocate the server to is right for every     *)
(* machine table, server length and load: what it finds is free and inside *)
(* its area, it gives up only if no place would do, and Place says where   *)
(* it comes out.                                                           *)
(***************************************************************************)
EXTENDS Relocation, TLAPS

(* Two ranges that share an address overlap in the sense of range.c. *)
LEMMA SharingOverlaps ==
  ASSUME NEW r \in RangeType, NEW s \in RangeType, Share(r, s)
  PROVE  range_overlaps(r, s)
<1>1. PICK a \in r.start .. r.end - 1 : s.start <= a /\ a < s.end
  BY DEF Share
<1>2. r.start \in Int /\ r.end \in Int /\ s.start \in Int /\ s.end \in Int
  BY DEF RangeType
<1> QED
  BY <1>1, <1>2 DEF range_overlaps

(* A move by one address downwards is exact above address zero. *)
LEMMA MoveByOne ==
  ASSUME NEW r \in RangeType, r.start > 0
  PROVE  range_move(r, -1) = range_new(r.start - 1, r.end - 1)
<1>1. r.start \in Int /\ r.end \in Int
  BY DEF RangeType
<1> QED
  BY <1>1 DEF range_move, range_new, range_min, range_max

(* Each area is a range that starts above address zero. *)
LEMMA Areas ==
  ASSUME machine \in Machines,
         NEW name \in {"upper", "lower", "screen"}, NEW top \in Memtops
  PROVE  Area(name, top) \in RangeType /\ Area(name, top).start > 0
<1>1. lower(top) \in RangeType /\ lower(top).start > 0
  BY TableAssumption, MemtopAssumption DEF TableAssumption, MemtopAssumption,
     lower, RangeType, range_new
<1> QED
  BY <1>1, TableAssumption DEF TableAssumption, Area, upper, screen

(* The server has a length, and occupies a range of addresses. *)
LEMMA Lengths ==
  ASSUME TypeOK
  PROVE  server \in RangeType /\ length \in Nat
  BY ServerAssumption DEF ServerAssumption, TypeOK, length, range_size, RangeType

-----------------------------------------------------------------------------
(* The place being tried is as long as the server and does not stick out   *)
(* of the end of its area, so that it leaves the area at its start only.   *)
Placed == status \in {"searching", "found", "failed"} =>
  /\ code.end = code.start + length
  /\ code.end <= Area(area, memtop).end

Inv ==
  /\ TypeOK
  /\ Placed
  /\ ClosestToEnd
  /\ status = "asked" => area = "upper"
  /\ status = "usable" => ~Required
  /\ status = "found" => Fits /\ ~range_overlaps(code, data)
  /\ status = "failed" => area = "screen" /\ ~Fits

(* A place that no longer fits has left its area behind: all of it is      *)
(* blocked.                                                                *)
LEMMA AreaExhausted ==
  ASSUME TypeOK, Placed, ClosestToEnd, ~Fits, status \in {"searching", "failed"}
  PROVE  Blocked(Area(area, memtop))
<1> DEFINE A == Area(area, memtop)
<1>1. A.start \in Int /\ A.end \in Int
  BY Areas DEF TypeOK, RangeType
<1>2. code.start \in Int /\ code.end \in Int /\ length \in Int
  BY Lengths DEF TypeOK, RangeType
<1>3. code.start < A.start
  BY <1>1, <1>2 DEF Fits, range_inside, range_equals, Placed
<1> SUFFICES ASSUME NEW s \in A.start .. A.end - length
             PROVE  range_overlaps(range_new(s, s + length), data)
  BY DEF Blocked
<1>4. s \in code.start + 1 .. A.end - length
  BY <1>1, <1>2, <1>3
<1> QED
  BY <1>4 DEF ClosestToEnd

LEMMA InitInv == Init => Inv
<1> SUFFICES ASSUME Init PROVE Inv
  OBVIOUS
<1>1. code \in RangeType
  BY ServerAssumption DEF ServerAssumption, Init
<1> QED
  BY <1>1 DEF Init, Inv, TypeOK, Placed, ClosestToEnd

(* Entering an area: nothing of it is above its end. *)
LEMMA EnterArea ==
  ASSUME NEW A \in RangeType, NEW n \in Nat
  PROVE  /\ AtEnd(A, n) \in RangeType
         /\ AtEnd(A, n).start = A.end - n
         /\ AtEnd(A, n).end = A.end
         /\ \A s \in AtEnd(A, n).start + 1 .. A.end - n : FALSE
  BY DEF AtEnd, range_new, RangeType

LEMMA StepInv == Inv /\ [Next]_vars => Inv'
<1> SUFFICES ASSUME Inv, [Next]_vars PROVE Inv'
  OBVIOUS
<1> USE DEF Inv
<1>0. /\ length \in Nat
      /\ code.start \in Int /\ code.end \in Int
      /\ Area(area, memtop) \in RangeType
      /\ Area(area, memtop).start > 0
  BY Lengths, Areas DEF TypeOK, RangeType
<1>1. CASE MoveDown
  <2>1. /\ UNCHANGED << machine, data, server, rom, memtop, area, status >>
        /\ status = "searching"
        /\ length' = length
    BY <1>1 DEF MoveDown, request, length
  <2>2. code.start > 0
    BY <1>0, <1>1 DEF MoveDown, Fits, range_inside, range_equals, RangeType
  <2>3. code' = range_new(code.start - 1, code.end - 1)
    BY <1>1, <2>2, MoveByOne DEF MoveDown, TypeOK
  <2>4. code' \in RangeType /\ code'.start = code.start - 1 /\ code'.end = code.end - 1
    BY <1>0, <2>3 DEF range_new, RangeType
  <2>5. TypeOK'
    BY <2>1, <2>4 DEF TypeOK
  <2>6. Area(area, memtop)' = Area(area, memtop)
    BY <2>1 DEF Area, upper, lower, screen
  <2>7. Placed'
    BY <1>0, <2>1, <2>4, <2>6 DEF Placed, RangeType
  <2>8. code = range_new(code.start, code.start + length)
    BY <2>1 DEF Placed, TypeOK, RangeType, range_new
  <2>9. \A s \in code'.start + 1 .. Area(area, memtop).end - length :
          range_overlaps(range_new(s, s + length), data)
    <3> SUFFICES ASSUME NEW s \in code'.start + 1 .. Area(area, memtop).end - length
                 PROVE  range_overlaps(range_new(s, s + length), data)
      OBVIOUS
    <3>1. CASE s = code.start
      BY <1>1, <2>8, <3>1 DEF MoveDown
    <3>2. CASE s # code.start
      <4>1. s \in code.start + 1 .. Area(area, memtop).end - length
        BY <1>0, <2>4, <3>2 DEF RangeType
      <4> QED
        BY <2>1, <4>1 DEF ClosestToEnd
    <3> QED
      BY <3>1, <3>2
  <2>10. ClosestToEnd'
    BY <2>1, <2>6, <2>9 DEF ClosestToEnd, Before, Blocked, Area, upper, lower, screen
  <2> QED
    BY <1>1, <2>1, <2>5, <2>7, <2>10 DEF MoveDown
<1>2. CASE Take
  BY <1>2 DEF Take, request, length, TypeOK, Placed, ClosestToEnd, Before, Blocked,
     Fits, Area, upper, lower, screen
<1>3. CASE NextArea
  <2>1. /\ UNCHANGED << machine, data, server, rom, memtop >>
        /\ status = "searching" /\ ~Fits
        /\ length' = length
    BY <1>3 DEF NextArea, request, length
  <2>2. Blocked(Area(area, memtop))
    BY <2>1, AreaExhausted
  <2>3. CASE area = "upper" /\ area' = "lower" /\ code' = AtEnd(lower(memtop), length)
             /\ status' = status
    <3>1. Area("lower", memtop) = lower(memtop) /\ Area(area, memtop)' = lower(memtop)
      BY <2>1, <2>3 DEF Area, lower
    <3>2. lower(memtop) \in RangeType
      BY <3>1, Areas DEF TypeOK
    <3>3. /\ code' \in RangeType
          /\ code'.start = lower(memtop).end - length
          /\ code'.end = lower(memtop).end
          /\ \A s \in code'.start + 1 .. lower(memtop).end - length : FALSE
      BY <1>0, <2>3, <3>2, EnterArea
    <3>4. TypeOK'
      BY <2>1, <2>3, <3>3 DEF TypeOK
    <3>5. Placed'
      BY <1>0, <2>1, <3>1, <3>2, <3>3 DEF Placed, RangeType
    <3>6. \A name \in Before(area)' : Blocked(Area(name, memtop))'
      BY <2>1, <2>2, <2>3 DEF Before, Blocked, Area, upper
    <3>7. ClosestToEnd'
      BY <2>1, <3>1, <3>3, <3>6 DEF ClosestToEnd
    <3> QED
      BY <2>1, <2>3, <3>4, <3>5, <3>7
  <2>4. CASE area = "lower" /\ area' = "screen" /\ code' = AtEnd(screen, length)
             /\ status' = status
    <3>1. Area(area, memtop)' = screen
      BY <2>1, <2>4 DEF Area, screen
    <3>2. screen \in RangeType
      BY TableAssumption DEF TableAssumption, TypeOK, screen
    <3>3. /\ code' \in RangeType
          /\ code'.start = screen.end - length
          /\ code'.end = screen.end
          /\ \A s \in code'.start + 1 .. screen.end - length : FALSE
      BY <1>0, <2>4, <3>2, EnterArea
    <3>4. TypeOK'
      BY <2>1, <2>4, <3>3 DEF TypeOK
    <3>5. Placed'
      BY <1>0, <2>1, <3>1, <3>2, <3>3 DEF Placed, RangeType
    <3>6. Blocked(Area("upper", memtop)) /\ Blocked(Area("lower", memtop))
      BY <2>1, <2>2, <2>4 DEF ClosestToEnd, Before
    <3>7. \A name \in Before(area)' : Blocked(Area(name, memtop))'
      BY <2>1, <2>4, <3>6 DEF Before, Blocked, Area, upper, lower, screen
    <3>8. ClosestToEnd'
      BY <2>1, <3>1, <3>3, <3>7 DEF ClosestToEnd
    <3> QED
      BY <2>1, <2>4, <3>4, <3>5, <3>8
  <2>5. CASE area = "screen" /\ status' = "failed" /\ UNCHANGED << area, code >>
    BY <2>1, <2>5 DEF TypeOK, Placed, ClosestToEnd, Before, Blocked, Fits, Area, upper, lower, screen
  <2> QED
    BY <1>3, <2>1, <2>3, <2>4, <2>5 DEF NextArea
<1>4. CASE Search
  <2>1. /\ UNCHANGED << machine, data, server, rom, memtop, area >>
        /\ area = "upper" /\ status' = "searching"
        /\ length' = length
    BY <1>4 DEF Search, request, length
  <2>2. upper \in RangeType /\ Area(area, memtop)' = upper
    BY <2>1, TableAssumption DEF TableAssumption, TypeOK, upper, Area
  <2>3. /\ code' \in RangeType
        /\ code'.start = upper.end - length
        /\ code'.end = upper.end
        /\ \A s \in code'.start + 1 .. upper.end - length : FALSE
    BY <1>0, <1>4, <2>2, EnterArea DEF Search
  <2>4. TypeOK'
    BY <2>1, <2>3 DEF TypeOK
  <2>5. Placed'
    BY <1>0, <2>1, <2>2, <2>3 DEF Placed, RangeType
  <2>6. ClosestToEnd'
    BY <2>1, <2>2, <2>3 DEF ClosestToEnd, Before
  <2> QED
    BY <2>1, <2>4, <2>5, <2>6
<1>5. CASE StayPut
  BY <1>5 DEF StayPut, request, TypeOK, Placed, ClosestToEnd, Required
<1>6. CASE UNCHANGED vars
  BY <1>6 DEF vars, length, TypeOK, Placed, ClosestToEnd, Before, Blocked, Fits, Area,
     upper, lower, screen, Required
<1> QED
  BY <1>1, <1>2, <1>3, <1>4, <1>5, <1>6 DEF Next

LEMMA Invariance == Spec => []Inv
  BY InitInv, StepInv, PTL DEF Spec

-----------------------------------------------------------------------------
(* The load is clear of the server: of one that is left where it is, and   *)
(* of every place that command_server_relocation_possible reports.         *)
THEOREM FoundIsFreeAlways == Spec => []FoundIsFree
<1>1. Inv => FoundIsFree
  <2> SUFFICES ASSUME Inv PROVE FoundIsFree
    OBVIOUS
  <2>1. /\ code \in RangeType /\ data \in RangeType
        /\ server \in RangeType /\ length \in Nat
    BY LoadAssumption, Lengths DEF LoadAssumption, Inv, TypeOK
  <2>2. ASSUME status = "usable" PROVE rom \/ ~Share(data, server)
    BY <2>1, <2>2, SharingOverlaps DEF Inv, Required
  <2>3. ASSUME status = "found"
        PROVE  /\ range_inside(code, Area(area, memtop))
               /\ range_size(code) = length
               /\ ~Share(code, data)
    <3>1. ~range_overlaps(code, data) /\ Fits
      BY <2>3 DEF Inv
    <3>2. ~Share(code, data)
      BY <2>1, <3>1, SharingOverlaps
    <3>3. range_size(code) = length
      BY <2>1, <2>3 DEF Inv, Placed, range_size, RangeType
    <3> QED
      BY <3>1, <3>2, <3>3 DEF Fits
  <2> QED
    BY <2>2, <2>3 DEF FoundIsFree
<1> QED
  BY <1>1, Invariance, PTL

(* It skips no place: whatever it is trying, everything it passed over is  *)
(* in the way of the load.                                                 *)
THEOREM ClosestToEndAlways == Spec => []ClosestToEnd
<1>1. Inv => ClosestToEnd
  BY DEF Inv
<1> QED
  BY <1>1, Invariance, PTL

(* It reports failure only when no place of its three areas would do. *)
THEOREM FailsOnlyIfBlockedAlways == Spec => []FailsOnlyIfBlocked
<1>1. Inv => FailsOnlyIfBlocked
  <2> SUFFICES ASSUME Inv, status = "failed",
                      NEW name \in {"upper", "lower", "screen"}
               PROVE  Blocked(Area(name, memtop))
    BY DEF FailsOnlyIfBlocked
  <2>1. /\ area = "screen" /\ status = "failed"
        /\ ~Fits /\ ClosestToEnd /\ TypeOK /\ Placed
    BY DEF Inv
  <2>2. CASE name = "screen"
    BY <2>1, <2>2, AreaExhausted
  <2>3. CASE name \in {"upper", "lower"}
    BY <2>1, <2>3 DEF ClosestToEnd, Before
  <2> QED
    BY <2>2, <2>3
<1> QED
  BY <1>1, Invariance, PTL

-----------------------------------------------------------------------------
(* Place, which the commands go by, is where the search comes out.         *)

(* The place of `size' addresses in range A that ends at e. *)
EndingAt(e, size) == range_new(e - size, e)

(* What range_overlaps says of a place and of data that is not turned      *)
(* round.                                                                  *)
LEMMA Apart ==
  ASSUME NEW s \in Int, NEW size \in Nat, NEW d \in RangeType, d.start <= d.end
  PROVE  range_overlaps(range_new(s, s + size), d) <=> (s <= d.end /\ d.start <= s + size)
<1>1. d.start \in Int /\ d.end \in Int
  BY DEF RangeType
<1> QED
  BY <1>1 DEF range_overlaps, range_equals, range_new

LEMMA Candidates ==
  ASSUME NEW A \in RangeType, NEW size \in Nat, NEW d \in RangeType, d.start <= d.end,
         NEW e \in {A.end, d.start - 1}
  PROVE  EndingAt(e, size) \in Clear(A, size, d)
           <=> (/\ A.start <= e - size /\ e <= A.end
                /\ d.end < e - size \/ e < d.start)
<1>1. /\ A.start \in Int /\ A.end \in Int /\ d.start \in Int /\ d.end \in Int
      /\ e \in Int /\ e - size \in Int /\ (e - size) + size = e
  BY DEF RangeType
<1>2. range_overlaps(EndingAt(e, size), d) <=> (e - size <= d.end /\ d.start <= e)
  BY <1>1, Apart DEF EndingAt
<1>3. range_inside(EndingAt(e, size), A) <=> (A.start <= e - size /\ e <= A.end)
  BY <1>1 DEF range_inside, range_equals, range_new, EndingAt
<1>4. EndingAt(e, size) \in { range_new(end - size, end) : end \in {A.end, d.start - 1} }
  BY DEF EndingAt
<1>5. (e - size <= d.end /\ d.start <= e) <=> ~(d.end < e - size \/ e < d.start)
  BY <1>1
<1> QED
  BY <1>2, <1>3, <1>4, <1>5 DEF Clear

(* A place that is clear has one of the two that Clear looks at above it,  *)
(* or is one of them.                                                      *)
LEMMA ClearAbove ==
  ASSUME NEW A \in RangeType, NEW size \in Nat, NEW d \in RangeType, d.start <= d.end,
         NEW s \in A.start .. A.end - size, ~range_overlaps(range_new(s, s + size), d)
  PROVE  \E place \in Clear(A, size, d) : s <= place.start
<1>1. /\ A.start \in Int /\ A.end \in Int /\ d.start \in Int /\ d.end \in Int /\ s \in Int
      /\ A.start <= s /\ s <= A.end - size
  BY DEF RangeType
<1>2. d.end < s \/ s + size < d.start
  <2>1. ~(s <= d.end /\ d.start <= s + size)
    BY <1>1, Apart
  <2> QED
    BY <1>1, <2>1
<1>3. CASE d.end < s \/ A.end < d.start
  <2>1. EndingAt(A.end, size) \in Clear(A, size, d)
    BY <1>1, <1>3, Candidates
  <2>2. EndingAt(A.end, size).start = A.end - size
    BY DEF EndingAt, range_new
  <2> QED
    BY <1>1, <2>1, <2>2
<1>4. CASE s + size < d.start /\ d.start <= A.end
  <2>1. EndingAt(d.start - 1, size) \in Clear(A, size, d)
    BY <1>1, <1>4, Candidates
  <2>2. EndingAt(d.start - 1, size).start = d.start - 1 - size
    BY DEF EndingAt, range_new
  <2> QED
    BY <1>1, <1>4, <2>1, <2>2
<1> QED
  BY <1>1, <1>2, <1>3, <1>4

LEMMA ClearPlaces ==
  ASSUME NEW A \in RangeType, NEW size \in Nat, NEW d \in RangeType,
         NEW place \in Clear(A, size, d)
  PROVE  /\ place.start \in A.start .. A.end - size
         /\ place = range_new(place.start, place.start + size)
         /\ ~range_overlaps(place, d)
<1>1. A.start \in Int /\ A.end \in Int /\ d.start \in Int
  BY DEF RangeType
<1>2. PICK e \in {A.end, d.start - 1} : place = range_new(e - size, e)
  BY DEF Clear
<1>3. e \in Int
  BY <1>1
<1>4. place.start = e - size /\ place.end = e /\ place = range_new(e - size, (e - size) + size)
  BY <1>2, <1>3 DEF range_new
<1>5. range_inside(place, A) /\ ~range_overlaps(place, d)
  BY DEF Clear
<1>6. A.start <= place.start /\ place.end <= A.end
  BY <1>1, <1>5 DEF range_inside, range_equals
<1> QED
  BY <1>1, <1>3, <1>4, <1>5, <1>6

(* An area has no clear place just if Clear has none. *)
LEMMA NothingClear ==
  ASSUME TypeOK, data \in RangeType, data.start <= data.end,
         NEW A \in RangeType, Blocked(A)
  PROVE  Clear(A, length, data) = {}
<1>1. length \in Nat
  BY Lengths
<1> SUFFICES ASSUME NEW place \in Clear(A, length, data) PROVE FALSE
  OBVIOUS
<1> QED
  BY <1>1, ClearPlaces DEF Blocked

(* The clear place that has none above it is the highest of Clear. *)
LEMMA HighestClear ==
  ASSUME TypeOK, data \in RangeType, data.start <= data.end,
         NEW A \in RangeType, NEW s \in A.start .. A.end - length,
         ~range_overlaps(range_new(s, s + length), data),
         \A t \in s + 1 .. A.end - length : range_overlaps(range_new(t, t + length), data)
  PROVE  Clear(A, length, data) # {} /\ Highest(Clear(A, length, data)).start = s
<1>1. length \in Nat /\ A.start \in Int /\ A.end \in Int /\ s \in Int
  BY Lengths DEF RangeType
<1>2. \A place \in Clear(A, length, data) : place.start \in Int /\ place.start <= s
  <2> SUFFICES ASSUME NEW place \in Clear(A, length, data)
               PROVE  place.start \in Int /\ place.start <= s
    OBVIOUS
  <2>1. /\ place.start \in A.start .. A.end - length
        /\ ~range_overlaps(range_new(place.start, place.start + length), data)
    BY <1>1, ClearPlaces
  <2>2. place.start \notin s + 1 .. A.end - length
    BY <2>1
  <2> QED
    BY <1>1, <2>1, <2>2
<1>3. PICK top \in Clear(A, length, data) : s <= top.start
  BY <1>1, ClearAbove
<1>4. top.start = s
  BY <1>1, <1>2, <1>3
<1>5. \A other \in Clear(A, length, data) : other.start <= top.start
  BY <1>2, <1>4
<1>6. /\ Highest(Clear(A, length, data)) \in Clear(A, length, data)
      /\ top.start <= Highest(Clear(A, length, data)).start
  BY <1>3, <1>5 DEF Highest
<1> QED
  BY <1>1, <1>2, <1>3, <1>4, <1>6

(* The place that command_server_relocation_possible comes out with is the *)
(* highest clear one in the first of upper, lower and screen that has any, *)
(* and it gives up just if none has, for all machine tables, servers and   *)
(* loads that do not end before they start.                                *)
THEOREM FindsPlaceAlways ==
  ASSUME \A d \in Datas : d.start <= d.end
  PROVE  Spec => []FindsPlace
<1>1. Inv => FindsPlace
  <2> SUFFICES ASSUME Inv PROVE FindsPlace
    OBVIOUS
  <2> DEFINE areas == << upper, lower(memtop), screen >>
             clear(i) == Clear(areas[i], length, data)
             possible == Possible(areas, length, data)
             first == CHOOSE i \in possible : \A j \in possible : i <= j
  <2>1. /\ TypeOK /\ data \in RangeType /\ data.start <= data.end
        /\ length \in Nat /\ code \in RangeType
    BY LoadAssumption, Lengths DEF LoadAssumption, Inv, TypeOK
  <2>2. /\ areas[1] = Area("upper", memtop)
        /\ areas[2] = Area("lower", memtop)
        /\ areas[3] = Area("screen", memtop)
        /\ DOMAIN areas = 1 .. 3
    BY DEF Area
  <2>3. areas[1] \in RangeType /\ areas[2] \in RangeType /\ areas[3] \in RangeType
    BY <2>1, <2>2, Areas DEF TypeOK
  <2> HIDE DEF areas
  <2>4. \A i \in 1 .. 3 : Blocked(areas[i]) => clear(i) = {}
    BY <2>1, <2>3, NothingClear
  <2>5. possible = {i \in 1 .. 3 : clear(i) # {}}
    BY <2>2 DEF Possible
  <2>6. ASSUME status = "failed" PROVE Place(areas, length, data) = NoPlace
    <3>1. Blocked(areas[1]) /\ Blocked(areas[2])
      BY <2>2, <2>6 DEF Inv, ClosestToEnd, Before
    <3>2. Blocked(areas[3])
      BY <2>1, <2>2, <2>6, AreaExhausted DEF Inv
    <3>3. possible = {}
      BY <2>4, <2>5, <3>1, <3>2
    <3> QED
      BY <3>3 DEF Place
  <2>7. ASSUME status = "found" PROVE code.start = Place(areas, length, data)
    <3>1. PICK k \in 1 .. 3 : /\ areas[k] = Area(area, memtop)
                              /\ \A i \in 1 .. k - 1 : Blocked(areas[i])
      <4>1. area \in {"upper", "lower", "screen"}
        BY <2>1 DEF TypeOK
      <4>2. \A name \in Before(area) : Blocked(Area(name, memtop))
        BY <2>7 DEF Inv, ClosestToEnd
      <4>3. CASE area = "upper"
        BY <2>2, <4>3
      <4>4. CASE area = "lower"
        <5>1. \A i \in 1 .. 2 - 1 : i = 1
          OBVIOUS
        <5> QED
          BY <2>2, <4>2, <4>4, <5>1 DEF Before
      <4>5. CASE area = "screen"
        <5>1. \A i \in 1 .. 3 - 1 : i = 1 \/ i = 2
          OBVIOUS
        <5> QED
          BY <2>2, <4>2, <4>5, <5>1 DEF Before
      <4> QED
        BY <4>1, <4>3, <4>4, <4>5
    <3>2. /\ code.end = code.start + length /\ code.end <= areas[k].end
          /\ Fits /\ ~range_overlaps(code, data)
          /\ \A s \in code.start + 1 .. areas[k].end - length :
               range_overlaps(range_new(s, s + length), data)
      BY <2>7, <3>1 DEF Inv, Placed, ClosestToEnd
    <3>3. /\ areas[k] \in RangeType /\ areas[k].start \in Int /\ areas[k].end \in Int
          /\ code.start \in Int /\ code.end \in Int
          /\ code = range_new(code.start, code.start + length)
      BY <2>1, <2>3, <3>2 DEF RangeType, range_new
    <3>4. code.start \in areas[k].start .. areas[k].end - length
      BY <2>1, <3>1, <3>2, <3>3 DEF Fits, range_inside, range_equals
    <3>5. clear(k) # {} /\ Highest(clear(k)).start = code.start
      BY <2>1, <3>2, <3>3, <3>4, HighestClear
    <3>6. k \in possible /\ \A i \in possible : k <= i
      BY <2>4, <2>5, <3>1, <3>5
    <3>7. first = k
      <4>1. first \in possible /\ \A j \in possible : first <= j
        BY <3>6
      <4> QED
        BY <2>5, <3>6, <4>1
    <3> QED
      BY <3>5, <3>6, <3>7 DEF Place
  <2> QED
    BY <2>6, <2>7 DEF FindsPlace, areas
<1> QED
  BY <1>1, Invariance, PTL
=============================================================================
