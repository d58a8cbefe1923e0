------------------------------- MODULE Queues -------------------------------
(***************************************************************************)
(* What a UART library promises to a program: two queues of bytes, one     *)
(* that the line fills and the program empties, one the other way round.   *)
(* Bytes are numbered by the order they come in.                           *)
(* `trusted' tells whether the promise holds.                              *)
(***************************************************************************)
EXTENDS Naturals, Sequences

CONSTANT Crowd  \* so many bytes in the receive queue strain it

VARIABLES
  received,     \* bytes the program has yet to take
  arriving,     \* the number of the next byte to arrive
  taken,        \* the byte the program took last
  sending,      \* bytes the line has yet to take
  next,         \* the number of the next byte the program will send
  sent,         \* the byte the line took last
  trusted

vars == << received, arriving, taken, sending, next, sent, trusted >>

Init ==
  /\ received = <<>>
  /\ arriving = 1
  /\ taken = 0
  /\ sending = <<>>
  /\ next = 1
  /\ sent = 0
  /\ trusted = TRUE

Crowded == Len(received) >= Crowd

(* Nothing is lost on arrival unless the queue is crowded. *)
Arrive ==
  /\ arriving' = arriving + 1
  /\ \/ received' = Append(received, arriving)
     \/ Crowded /\ UNCHANGED received
  /\ UNCHANGED << taken, sending, next, sent >>

Take ==
  /\ received # <<>>
  /\ taken' = Head(received)
  /\ received' = Tail(received)
  /\ UNCHANGED << arriving, sending, next, sent >>

(* A program that looks into a crowded queue may take it for an empty one. *)
Misread ==
  /\ Crowded
  /\ taken' = 0
  /\ UNCHANGED << received, arriving, sending, next, sent >>

Put ==
  /\ sending' = Append(sending, next)
  /\ next' = next + 1
  /\ UNCHANGED << received, arriving, taken, sent >>

Transmit ==
  /\ sending # <<>>
  /\ sent' = Head(sending)
  /\ sending' = Tail(sending)
  /\ UNCHANGED << received, arriving, taken, next >>

Flush ==
  /\ received' = <<>>
  /\ UNCHANGED << arriving, taken, sending, next, sent >>

Next ==
  \/ trusted' /\ (Arrive \/ Take \/ Misread \/ Put \/ Transmit \/ Flush)
  \/ ~trusted'

Spec == Init /\ [][Next]_vars
=============================================================================
