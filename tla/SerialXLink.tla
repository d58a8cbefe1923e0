---------------------------- MODULE SerialXLink ----------------------------
(***************************************************************************)
(* A PC, a servant64 board and a C64: the client of the serial driver, the *)
(* firmware and the server composed, with what the environment may do to   *)
(* them.  It implements the same RemoteMemory as the parallel port does.   *)
(***************************************************************************)
EXTENDS SerialClient, Server

CONSTANT MaxBudget  \* bound on faults and on calls made out of step

ASSUME BudgetAssumption == MaxBudget \in Nat

ASSUME RequestAssumption == \A r \in Calls : IsRequest(r) /\ LeavesServer(r)

(* The bound on sizes cuts off nothing that a call sends or wants.         *)
ASSUME SizeAssumption ==
  \A r \in Calls : /\ Len(r.header) <= MaxSize /\ Len(r.data) <= MaxSize
                   /\ (IF r.op = "identify" THEN 15 ELSE r.want) <= MaxSize

VARIABLES
  clean,    \* the current call found everything in step, and no fault since
  done,     \* writes and control transfers the server committed for this call
  budget    \* faults and calls out of step that are still allowed

vars == << userport, rx, tx, firmware, client, server, clean, done, budget >>

(* The firmware is between two commands and has nothing to do but, perhaps,*)
(* to release the lines after the call before; no answer is on its way.    *)
FirmwareReady ==
  /\ fpc = "frame"
  /\ rx \in {<<>>, InputFrame}
  /\ initialized => tx = <<>>
  /\ ~Answered

InStep == ServerReady /\ FirmwareReady

Init ==
  /\ UserportInit
  /\ ServantInit
  /\ ClientInit
  /\ ServerInit
  /\ clean = TRUE
  /\ done = 0
  /\ budget = MaxBudget

-----------------------------------------------------------------------------
Spend == budget > 0 /\ budget' = budget - 1

(* The user starts a call, within the budget if the ends are out of step. *)
NewCall ==
  /\ Call
  /\ clean' = InStep
  /\ done' = 0
  /\ IF InStep THEN UNCHANGED budget ELSE Spend
  /\ UNCHANGED server

ClientProceeds ==
  /\ ClientStep
  /\ UNCHANGED << server, clean, done, budget >>

(* A ping gives up on a server that will not answer. *)
PingGivesUp ==
  /\ GiveUp
  /\ ServerBlocked
  /\ ~Answered
  /\ clean' = (clean /\ ~flag)
  /\ UNCHANGED << server, done, budget >>

NextProcess == NewProcess /\ UNCHANGED << server, clean, done, budget >>

FirmwareProceeds ==
  /\ FwStep
  /\ UNCHANGED << client, server, clean, done, budget >>

(* Reset() pulls the reset line of the C64. *)
FirmwareResets ==
  /\ Takes(CMD_RESET)
  /\ ResetMachine
  /\ clean' = FALSE
  /\ UNCHANGED << tx, firmware, client, done, budget >>

(* A transfer gives up on a server that will not answer.  If that happens  *)
(* at its last byte the PC is told that it succeeded; if the PC is still   *)
(* writing, what is left will be taken for commands.                       *)
FirmwareGivesUp ==
  /\ FwSendTimeout \/ FwRecvTimeout
  /\ ServerBlocked
  /\ ~Answered
  /\ clean' = (clean /\ ~flag /\ count + 1 # size /\ pc # "data")
  /\ UNCHANGED << client, server, done, budget >>

ServerProceeds ==
  /\ ServerStep
  /\ done' = IF Commits THEN done + 1 ELSE done
  /\ UNCHANGED << rx, tx, firmware, client, clean, budget >>

others == << rx, tx, firmware, client, clean, done, budget >>

UserInstalls == Install /\ UNCHANGED others

ForegroundRuns == Foreground /\ UNCHANGED others

-----------------------------------------------------------------------------
(* Faults. *)
LateAnswer ==
  /\ "late" \in Environment
  /\ \/ FwSendTimeout /\ UNCHANGED client
     \/ FwRecvTimeout /\ UNCHANGED client
     \/ GiveUp
  /\ Spend
  /\ clean' = FALSE
  /\ UNCHANGED << server, done >>

(* The process is killed: what it has written is on its way. *)
Killed ==
  /\ "kill" \in Environment
  /\ pc # "idle"
  /\ Spend
  /\ pc' = "idle"
  /\ part' = 1
  /\ moved' = 0
  /\ got' = <<>>
  /\ initialized' = FALSE
  /\ result' = FALSE
  /\ clean' = FALSE
  /\ UNCHANGED << userport, rx, tx, firmware, req, server, done >>

(* The C64 is switched off and on; the board has its power from the PC. *)
PowerCycle ==
  /\ "power" \in Environment
  /\ Spend
  /\ ResetMachine
  /\ clean' = FALSE
  /\ UNCHANGED << rx, tx, firmware, client, done >>

Fault == LateAnswer \/ Killed \/ PowerCycle

Next ==
  \/ NewCall \/ ClientProceeds \/ PingGivesUp \/ NextProcess
  \/ FirmwareProceeds \/ FirmwareResets \/ FirmwareGivesUp
  \/ ServerProceeds \/ UserInstalls \/ ForegroundRuns
  \/ Fault

Spec == Init /\ [][Next]_vars

(* The process of a call, the main loop of the firmware and the server     *)
(* keep running.  A ping asks 25 times and no more, and the timer of the   *)
(* firmware runs whatever the server does: whoever finds the server        *)
(* blocked again and again gives up in the end.                            *)
Fairness ==
  /\ WF_vars(ClientProceeds)
  /\ SF_vars(PingGivesUp)
  /\ WF_vars(FirmwareProceeds \/ FirmwareResets)
  /\ SF_vars(FirmwareGivesUp)
  /\ WF_vars(ServerProceeds)

FairSpec == Spec /\ Fairness

-----------------------------------------------------------------------------
(* Every variable holds a value of its kind. *)
TypeOK ==
  /\ UserportTypeOK
  /\ ServantTypeOK
  /\ ClientTypeOK
  /\ ServerTypeOK
  /\ clean \in BOOLEAN
  /\ done \in Nat
  /\ budget \in 0 .. MaxBudget

(* While everything is in step, the board and the C64 drive the data lines *)
(* at the same time only at the end of a reply, as on the parallel port.   *)
BusDiscipline ==
  clean /\ pcDriving /\ ciaDriving => EndingReply

(* What the firmware has yet to take are whole commands, unless the driver *)
(* is in the middle of the data of one: the two always agree on where a    *)
(* command begins, although nothing on the line says so.                   *)
InFrame ==
  fpc = "frame" /\ pc \notin {"data", "sendReport"} => Len(rx) % FrameLength = 0

(* While everything is in step, the bytes on the line to the PC are those  *)
(* of the answer it waits for, or will as soon as it finds that it has     *)
(* nothing to send: none is left over for the next one.  (The first open   *)
(* of a process discards what an earlier one has left there.)              *)
AnswersMatch ==
  clean /\ initialized /\ tx # <<>> =>
    \/ pc \in {"answer", "sendReport", "read", "receiveReport"}
    \/ pc = "data" /\ moved = Len(Sending)

(* Without faults, and with a server that is always there, nothing gets    *)
(* out of step: between two calls firmware and server are where the next   *)
(* call needs them.                                                        *)
NeverOutOfStep == clean /\ (pc = "idle" => InStep)

(* While everything is in step, a strobe of the board merges with an       *)
(* earlier one only at the end of a reply, where it costs a ping.          *)
NoStrobeLost ==
  [][ clean /\ (FwStrobe \/ FwSendStrobe \/ FwRecvStrobe) /\ flag
      => FwStrobe /\ spc = "wrWait" /\ LastByte ]_vars

(* Every call returns. *)
CallsReturn == (pc # "idle") ~> (pc = "idle")

Remote == INSTANCE RemoteMemory WITH
  Identification <- Info,
  InitStore <- InitMem,
  store   <- Store,
  entry   <- Entry,
  basic   <- (pc # "idle" /\ LoadsBasic(req, done)),
  call    <- IF pc = "idle" THEN NoCall ELSE req,
  done    <- IF pc = "idle" THEN 0 ELSE done,
  reply   <- got,
  outcome <- (pc = "idle" /\ result),
  trusted <- clean

(* Over the serial line, too, each call does to the C64 what its caller    *)
(* asked for and nothing else, as long as everything is in step.           *)
Implements == Remote!Spec
=============================================================================
