--------------------------- MODULE MCSharedMemory ---------------------------
(* Small instances of SharedMemory for TLC. *)
EXTENDS SharedMemory

(* A request without a reply, one with a reply of two bytes. *)
MCCalls == { [out |-> << 3, 4 >>, in |-> <<>>],
             [out |-> << 4, 3 >>, in |-> << 5, 6 >>] }
=============================================================================
