------------------------------- MODULE MCUart -------------------------------
(* A small instance of Uart for TLC: rings of six bytes.  The two rings    *)
(* share nothing but the program, so that one that reads and flushes and   *)
(* one that writes show what each of them does.                            *)
EXTENDS Uart

MCPrograms == {{"read", "flush"}, {"write"}}
=============================================================================
