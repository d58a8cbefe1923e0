------------------------------ MODULE UsbXLink ------------------------------
(***************************************************************************)
(* A PC, an at90usb162 board and a C64: the client of the USB driver, the  *)
(* firmware and the server composed, with what the environment may do to   *)
(* them.  It implements the same RemoteMemory as the parallel port does.   *)
(***************************************************************************)
EXTENDS UsbClient, Server

CONSTANT MaxBudget  \* bound on faults, resets and calls made out of step

ASSUME BudgetAssumption == MaxBudget \in Nat

ASSUME RequestAssumption == \A r \in Calls : IsRequest(r) /\ LeavesServer(r)

VARIABLES
  clean,    \* the current call found everything in step, and no fault since
  done,     \* writes and control transfers the server committed for this call
  budget    \* faults, resets and calls out of step that are still allowed

vars == << userport, board, client, server, clean, done, budget >>

(* The board is free, and the level of PA2 is the one it saw last. *)
InStep == ServerReady /\ transfer = "none" /\ ~Answered

Init ==
  /\ UserportInit
  /\ BoardInit
  /\ ClientInit
  /\ ServerInit
  /\ clean = TRUE
  /\ done = 0
  /\ budget = MaxBudget

-----------------------------------------------------------------------------
Spend == budget > 0 /\ budget' = budget - 1

(* The user starts a call: within the budget if it is a reset, or if the   *)
(* ends are out of step.                                                   *)
NewCall ==
  /\ Call
  /\ clean' = InStep
  /\ done' = 0
  /\ IF InStep /\ req'.op # "reset" THEN UNCHANGED budget ELSE Spend
  /\ UNCHANGED server

ClientProceeds ==
  /\ ClientStep
  /\ UNCHANGED << server, clean, done, budget >>

(* CMD_RESET pulls the reset line of the C64. *)
ResetTransfer ==
  /\ pc = "reset"
  /\ handle
  /\ transfer = "none"
  /\ pc' = "closeInput"
  /\ result' = TRUE
  /\ ResetMachine
  /\ clean' = FALSE
  /\ UNCHANGED << board, req, part, moved, got, done, budget >>

(* A ping gives up on a server that will not answer. *)
PingGivesUp ==
  /\ GiveUp
  /\ ServerBlocked
  /\ ~Answered
  /\ clean' = (clean /\ ~flag)
  /\ UNCHANGED << server, done, budget >>

BoardProceeds ==
  /\ BoardStep
  /\ UNCHANGED << client, server, clean, done, budget >>

(* A transfer gives up on a server that will not answer; the PC may be     *)
(* told that it succeeded.                                                 *)
BoardGivesUp ==
  /\ SendTimeout \/ ReceiveTimeout
  /\ ServerBlocked
  /\ ~Answered
  /\ clean' = (clean /\ ~flag /\ bpc' = "done" /\ count' # size)
  /\ UNCHANGED << client, server, done, budget >>

ServerProceeds ==
  /\ ServerStep
  /\ done' = IF Commits THEN done + 1 ELSE done
  /\ UNCHANGED << board, client, clean, budget >>

-----------------------------------------------------------------------------
(* Faults. *)
LateAnswer ==
  /\ "late" \in Environment
  /\ \/ (SendTimeout \/ ReceiveTimeout) /\ UNCHANGED client
     \/ GiveUp
  /\ Spend
  /\ clean' = FALSE
  /\ UNCHANGED << server, done >>

(* libusb gives up on a transfer as a whole. *)
TransferTimeout ==
  /\ "late" \in Environment
  /\ pc \in {"ask", "sending", "receiving"}
  /\ Abandoned
  /\ pc' = "closeInput"
  /\ Spend
  /\ clean' = FALSE
  /\ UNCHANGED << call, server, done >>

(* The process is killed, in the middle of a transfer or between two. *)
Killed ==
  /\ "kill" \in Environment
  /\ pc # "idle"
  /\ Over
  /\ result' = FALSE
  /\ \/ Abandoned
     \/ transfer = "none" /\ UNCHANGED << userport, board >>
  /\ Spend
  /\ clean' = FALSE
  /\ UNCHANGED << req, server, done >>

(* The board is unplugged, or its port loses power, and is plugged in again. *)
Replugged ==
  /\ "power" \in Environment
  /\ PowerUp
  /\ Spend
  /\ clean' = FALSE
  /\ UNCHANGED << client, server, done >>

Fault == LateAnswer \/ TransferTimeout \/ Killed \/ Replugged

Next ==
  \/ NewCall \/ ClientProceeds \/ ResetTransfer \/ PingGivesUp
  \/ BoardProceeds \/ BoardGivesUp \/ ServerProceeds
  \/ Fault

Spec == Init /\ [][Next]_vars

(* The process of a call, the main loop of the firmware, its watchdog and  *)
(* the server keep running.  A ping asks 25 times and no more, and the     *)
(* timer of the firmware runs whatever the server does: whoever finds the  *)
(* server blocked again and again gives up in the end.                     *)
Fairness ==
  /\ WF_vars(ClientProceeds \/ ResetTransfer)
  /\ WF_vars(BoardProceeds)
  /\ SF_vars(PingGivesUp \/ BoardGivesUp)
  /\ WF_vars(ServerProceeds)

FairSpec == Spec /\ Fairness

-----------------------------------------------------------------------------
(* Every variable holds a value of its kind. *)
TypeOK ==
  /\ UserportTypeOK
  /\ BoardTypeOK
  /\ ClientTypeOK
  /\ ServerTypeOK
  /\ clean \in BOOLEAN
  /\ done \in Nat
  /\ budget \in 0 .. MaxBudget

(* While everything is in step, the board and the C64 drive the data lines *)
(* at the same time only at the end of a reply, as on the parallel port.   *)
BusDiscipline ==
  clean /\ pcDriving /\ ciaDriving => EndingReply

(* Without faults, resets and the like nothing gets out of step: between   *)
(* two calls the board is free, what it remembers of PA2 is true, and the  *)
(* server is where the next call needs it.                                 *)
NeverOutOfStep ==
  budget = MaxBudget => clean /\ (pc = "idle" => InStep)

(* While everything is in step, a strobe of the board merges with an       *)
(* earlier one only at the end of a reply, where it costs a ping.          *)
NoStrobeLost ==
  [][ clean /\ flag /\ (PingStrobe \/ Turn \/ SendStrobe \/ ReceiveStrobe)
      => PingStrobe /\ spc = "wrWait" /\ LastByte ]_vars

(* Every call returns, even if the board needs its watchdog for it. *)
CallsReturn == (pc # "idle") ~> (pc = "idle")

Remote == INSTANCE RemoteMemory WITH
  Identification <- Info,
  InitStore <- InitMem,
  store   <- Store,
  entry   <- Entry,
  basic   <- (pc # "idle" /\ LoadsBasic(req, done)),
  call    <- IF pc = "idle" THEN NoCall ELSE req,
  done    <- IF pc = "idle" THEN 0 ELSE done,
  reply   <- IF transfer = "receive" /\ host THEN got \o bytes ELSE got,
  outcome <- (pc = "idle" /\ result),
  trusted <- clean

(* Over USB, too, each call does to the C64 what its caller asked for and  *)
(* nothing else, as long as everything is in step.                         *)
Implements == Remote!Spec
=============================================================================
