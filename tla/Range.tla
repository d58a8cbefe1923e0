------------------------------- MODULE Range -------------------------------
(***************************************************************************)
(* range.c: ranges of addresses.  `start' is the first address of a range, *)
(* `end' the one after its last; both are C ints that may leave the        *)
(* address space, which is what `min' and `max' are for.                   *)
(***************************************************************************)
EXTENDS Integers

range_min == 0
range_max == 65536

RangeType == [start : Int, end : Int]

range_new(start, end) == [start |-> start, end |-> end]

(* The machine tables pack a range into 32 bits; an end of 0 is the top. *)
range_new_from_int(start, end) ==
  range_new(start, IF end = 0 THEN range_max ELSE end)

range_valid(self) ==
  /\ range_min <= self.start /\ self.start <= range_max
  /\ range_min <= self.end /\ self.end <= range_max
  /\ self.start <= self.end

range_size(self) == self.end - self.start

range_equals(self, range) == self.start = range.start /\ self.end = range.end

(* Mutant of range_move: the clamp compares with the wrong bound. *)
range_move_mutant(self, amount) ==
  LET a == CASE amount > 0 /\ self.end + amount > range_max ->
                  amount - ((self.end + amount) - range_max)
             [] amount < 0 /\ self.start + amount < range_max -> 0
             [] OTHER -> amount
  IN range_new(self.start + a, self.end + a)

(* A move past the end of memory, or below its start, stops there. *)
range_move(self, amount) ==
  LET a == CASE amount > 0 /\ self.end + amount > range_max ->
                  amount - ((self.end + amount) - range_max)
             [] amount < 0 /\ self.start + amount < range_min ->
                  amount - (self.start + amount)
             [] OTHER -> amount
  IN range_new(self.start + a, self.end + a)

range_inside(self, range) ==
  \/ range_equals(self, range)
  \/ self.start >= range.start /\ self.end <= range.end

(* Mutant of range_overlaps: a range inside `self' goes unnoticed. *)
range_overlaps_mutant(self, range) ==
  \/ range_equals(self, range)
  \/ self.start >= range.start /\ self.start <= range.end
  \/ self.end >= range.start /\ self.end <= range.end

(* Ranges that only touch count as overlapping: all comparisons are `<='. *)
range_overlaps(self, range) ==
  \/ range_equals(self, range)
  \/ self.start >= range.start /\ self.start <= range.end
  \/ self.end >= range.start /\ self.end <= range.end
  \/ range.start >= self.start /\ range.start <= self.end
  \/ range.end >= self.start /\ range.end <= self.end

-----------------------------------------------------------------------------
(* What range_overlaps is asked for: do two ranges share an address? *)
Share(r, s) == \E a \in r.start .. r.end - 1 : s.start <= a /\ a < s.end
=============================================================================
