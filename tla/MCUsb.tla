------------------------------- MODULE MCUsb -------------------------------
(* A small instance of UsbXLink for TLC. *)
EXTENDS UsbXLink, TLC

(* BASIC starts at $0801 and ends at $0803; lower memory ends at $a000. *)
MCInitMem ==
  (bstart :> 1) @@ ((bstart + 1) :> 8) @@ (bend :> 3) @@ ((bend + 1) :> 8)
  @@ ((memtop + 1) :> 160)

MCLowWins == {0}

(* The seven bytes of a header go in three transfers, the first two of     *)
(* which take two packets each; the four bytes of the save come back in    *)
(* two transfers.                                                          *)
MCCalls == {
  xlink_load(55, 0, 2049, << 7 >>),
  xlink_save(55, 0, 2049, 4),
  xlink_reset }
=============================================================================
