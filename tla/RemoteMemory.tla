---------------------------- MODULE RemoteMemory ----------------------------
(***************************************************************************)
(* What xlink promises to the caller of xlink.h: a remote memory that can  *)
(* be written and read, and a processor that can be sent to an address,    *)
(* by one call at a time.  Nothing is said about cables, handshakes or     *)
(* processes.  `trusted' tells whether the promise holds: after a fault    *)
(* the remote side is in an unknown state until a call starts with both    *)
(* ends in step again, and from then on the promise holds for that call.   *)
(***************************************************************************)
EXTENDS Protocol

CONSTANTS
  Calls,                \* the requests that are made
  Identification(_),    \* what a server identifies itself with
  InitStore

VARIABLES
  store,        \* the memory of the remote machine
  entry,        \* where its processor was sent last
  basic,        \* is the request a load to where BASIC programs start?
  call,         \* the request in progress
  done,         \* cells written, or control transfers made, for it
  reply,        \* bytes returned to it
  outcome,      \* whether the last call succeeded
  trusted

vars == << store, entry, basic, call, done, reply, outcome, trusted >>

Init ==
  /\ store = InitStore
  /\ entry = [kind |-> "none", at |-> 0]
  /\ basic = FALSE
  /\ call = NoCall
  /\ done = 0
  /\ reply = <<>>
  /\ outcome = FALSE
  /\ trusted = TRUE

Begin ==
  /\ call' \in Calls
  /\ basic' = (call'.op = "load" /\ call'.at = CellWord(store, 43))
  /\ done' = 0
  /\ reply' = <<>>
  /\ outcome' = FALSE
  /\ UNCHANGED << store, entry >>

(* One cell is written; a program loaded to where BASIC programs start     *)
(* moves the end of the BASIC program with its last byte, even if the load *)
(* has written another start meanwhile.                                    *)
WriteCell ==
  /\ done < Len(call.writes)
  /\ done' = done + 1
  /\ LET written == Put(store, Wrap(call.at + done), call.writes[done'])
     IN store' = IF basic /\ done' = Len(call.writes)
                 THEN PutWord(written, 45, Wrap(call.at + done'))
                 ELSE written
  /\ UNCHANGED << entry, basic, call, reply, outcome >>

ReadCell ==
  /\ call.op \in {"save", "peek"}
  /\ Len(reply) < call.want
  /\ reply' = Append(reply, Cell(store, Wrap(call.at + Len(reply))))
  /\ UNCHANGED << store, entry, basic, call, done, outcome >>

ReadIdentification ==
  /\ call.op = "identify"
  /\ Len(reply) < Len(Identification(store))
  /\ reply' = Append(reply, Identification(store)[Len(reply) + 1])
  /\ UNCHANGED << store, entry, basic, call, done, outcome >>

HandControl ==
  /\ call.op \in {"jump", "inject", "run"}
  /\ done = 0
  /\ done' = 1
  /\ entry' = [kind |-> call.op, at |-> call.at]
  /\ UNCHANGED << store, basic, call, reply, outcome >>

Complete ==
  CASE call.op \in {"load", "poke"}          -> done = Len(call.writes)
    [] call.op \in {"save", "peek"}          -> Len(reply) = call.want
    [] call.op = "identify"                  -> Len(reply) = Len(Identification(store))
    [] call.op \in {"jump", "inject", "run"} -> done = 1
    [] OTHER                                 -> TRUE

Return(ok) ==
  /\ call # NoCall
  /\ IF ok THEN Complete ELSE done = 0 /\ reply = <<>>
  /\ outcome' = ok
  /\ call' = NoCall
  /\ basic' = FALSE
  /\ done' = 0
  /\ reply' = <<>>
  /\ UNCHANGED << store, entry >>

Proceed ==
  \/ call = NoCall /\ Begin
  \/ WriteCell \/ ReadCell \/ ReadIdentification \/ HandControl
  \/ \E ok \in BOOLEAN : Return(ok)

Next ==
  \/ trusted /\ trusted' /\ Proceed
  \/ ~trusted /\ trusted' /\ Begin
  \/ ~trusted'

Spec == Init /\ [][Next]_vars
=============================================================================
