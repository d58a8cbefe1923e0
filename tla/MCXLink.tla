------------------------------ MODULE MCXLink ------------------------------
(* Small instances of XLink for TLC. *)
EXTENDS XLink, TLC

(* BASIC starts at $0801 and ends at $0803; lower memory ends at $a000. *)
MCInitMem ==
  (bstart :> 1) @@ ((bstart + 1) :> 8) @@ (bend :> 3) @@ ((bend + 1) :> 8)
  @@ ((memtop + 1) :> 160)

(* Two drivers at the same lines: the lower level wins, or noise. *)
MCContention == {0, 254}
MCLowWins == {0}

(* Every operation; a load that relinks BASIC, and one whose last byte is  *)
(* at the top of memory, so that its end address wraps to zero.            *)
MCCalls == {
  xlink_load(55, 0, 2049, << 7, 9 >>),
  xlink_load(55, 0, 65535, << 5 >>),
  xlink_save(55, 0, 2049, 2),
  xlink_peek(55, 0, 46),
  xlink_poke(55, 0, 2050, 9),
  xlink_jump(55, 0, 2064),
  xlink_inject(49152),
  xlink_identify,
  xlink_run,
  xlink_ping }

(* Requests whose bytes, once out of step, read as commands and headers:   *)
(* the low byte of $0801 is the load command.                              *)
MCPokes == { xlink_poke(55, 0, 2049, 1), xlink_reset }
MCPeek == { xlink_peek(55, 0, 2049) }
MCShort == { xlink_poke(55, 0, 2049, 1), xlink_peek(55, 0, 2049), xlink_run }
=============================================================================
