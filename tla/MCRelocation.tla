--------------------------- MODULE MCRelocation ---------------------------
(* The machine tables of machine.c, with loads that block none of the      *)
(* areas, the first, the first two, or all three.                          *)
EXTENDS Relocation

MCMachines == {c64, c128}

MCDatas == {
  range_new(32768, 32769),      \* far away
  range_new(1500, 2100),        \* the end of the screen and the start of loram
  range_new(1024, 2560),        \* on the C64, screen and loram
  range_new(2049, 15000),       \* a long program: all but the end of hiram
  range_new(5000, 7000),        \* the middle of loram
  range_new(5000, 7384),        \* touches the only places for the longest server
  range_new(8000, 16384) }      \* most of hiram

(* One server in the screen, two in a long program; the longest fits into  *)
(* the hiram of the C128 only, which has 216 places for it.                *)
MCServers == { range_new(1300, 1700), range_new(6900, 7890), range_new(6900, 15900) }

MCMemtops == {40960}
=============================================================================
