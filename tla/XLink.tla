------------------------------- MODULE XLink -------------------------------
(***************************************************************************)
(* A PC and a C64 at the two ends of a cable: the client's calls composed  *)
(* with the server, and with what the environment may do to them: a user   *)
(* who resets the C64 or starts the server, a PC process that ends or is   *)
(* killed, a program on the C64 that masks interrupts, an answer that      *)
(* comes after the PC has given up.                                        *)
(***************************************************************************)
EXTENDS Client, Server

CONSTANT MaxBudget  \* bound on faults and on calls made out of step

ASSUME BudgetAssumption == MaxBudget \in Nat

ASSUME RequestAssumption == \A r \in Calls : IsRequest(r) /\ LeavesServer(r)

VARIABLES
  clean,    \* the current call found the two ends in step, and no fault since
  done,     \* writes and control transfers the server committed for this call
  budget    \* faults and calls out of step that are still allowed

vars == << userport, client, server, clean, done, budget >>

(* The two ends are in step: the server is ready for a command, and the PC *)
(* knows the level of PA2.                                                 *)
InStep == ServerReady /\ (initialized => last = pa2)

Init ==
  /\ UserportInit
  /\ ClientInit
  /\ ServerInit
  /\ clean = TRUE
  /\ done = 0
  /\ budget = MaxBudget

-----------------------------------------------------------------------------
Spend == budget > 0 /\ budget' = budget - 1

(* The user starts a call, within the budget if the ends are out of step. *)
NewCall ==
  /\ Call
  /\ clean' = InStep
  /\ done' = 0
  /\ IF InStep THEN UNCHANGED budget ELSE Spend
  /\ UNCHANGED server

ClientProceeds ==
  /\ ClientStep
  /\ UNCHANGED << server, clean, done, budget >>

(* driver_parport_reset pulls the reset line of the C64. *)
ResetPulse ==
  /\ pc = "init"
  /\ ResetMachine
  /\ pc' = "closeInput"
  /\ result' = TRUE
  /\ clean' = FALSE
  /\ UNCHANGED << req, nsent, got, last, initialized, done, budget >>

(* A wait gives up on a server that will not answer.  If a strobe is still *)
(* pending the answer may yet come.                                        *)
GiveUp ==
  /\ Timeout
  /\ ServerBlocked
  /\ clean' = (clean /\ ~flag)
  /\ UNCHANGED << server, done, budget >>

NextProcess == NewProcess /\ UNCHANGED << server, clean, done, budget >>

ServerProceeds ==
  /\ ServerStep
  /\ done' = IF Commits THEN done + 1 ELSE done
  /\ UNCHANGED << client, clean, budget >>

UserInstalls == Install /\ UNCHANGED << client, clean, done, budget >>

-----------------------------------------------------------------------------
(* Faults. *)
LateAnswer ==
  /\ "late" \in Environment
  /\ Timeout
  /\ Spend
  /\ clean' = FALSE
  /\ UNCHANGED << server, done >>

(* The process is killed: the port keeps its direction and its data. *)
Killed ==
  /\ "kill" \in Environment
  /\ pc # "idle"
  /\ Spend
  /\ pc' = "idle"
  /\ initialized' = FALSE
  /\ result' = FALSE
  /\ nsent' = 0
  /\ got' = <<>>
  /\ clean' = FALSE
  /\ UNCHANGED << userport, req, last, server, done >>

PowerCycle ==
  /\ "power" \in Environment
  /\ Spend
  /\ ResetMachine
  /\ clean' = FALSE
  /\ UNCHANGED << client, done >>

ForegroundRuns == Foreground /\ UNCHANGED << client, clean, done, budget >>

Fault == LateAnswer \/ Killed \/ PowerCycle

Next ==
  \/ NewCall \/ ClientProceeds \/ ResetPulse \/ GiveUp \/ NextProcess
  \/ ServerProceeds \/ UserInstalls \/ ForegroundRuns
  \/ Fault

Spec == Init /\ [][Next]_vars

(* A call in progress goes on, and so does the server: its wait loops and  *)
(* the interrupt that looks at FLAG sixty times a second keep running.     *)
(* The clock of a wait runs whatever the server does, so a wait that finds *)
(* the server blocked again and again gives up in the end: the fairness of *)
(* the client is strong.  Nothing is assumed of the user, of faults or of  *)
(* programs in the foreground.                                             *)
Fairness ==
  /\ SF_vars(ClientProceeds \/ ResetPulse \/ GiveUp)
  /\ WF_vars(ServerProceeds)

FairSpec == Spec /\ Fairness

-----------------------------------------------------------------------------
(* Every variable holds a value of its kind. *)
TypeOK ==
  /\ UserportTypeOK
  /\ ClientTypeOK
  /\ ServerTypeOK
  /\ clean \in BOOLEAN
  /\ done \in Nat
  /\ budget \in 0 .. MaxBudget

(* While the ends are in step, PC and C64 drive the data lines at the same *)
(* time only at the end of a reply: the last strobe of a receive is not    *)
(* answered, so the PC may turn its port around for the next ping before   *)
(* the server has executed its input macro.                                *)
BusDiscipline ==
  clean /\ pcDriving /\ ciaDriving => EndingReply

(* While the ends are in step, a strobe merges with an earlier one that    *)
(* the server has not seen only at the end of a reply, where it costs a    *)
(* ping: no byte of a command and none of a transfer is ever lost.         *)
NoStrobeLost ==
  [][ clean /\ (Strobe \/ Turn \/ Received \/ PingStrobe) /\ flag
      => PingStrobe /\ spc = "wrWait" /\ LastByte ]_vars

(* Without faults, and with a server that is always there, the two ends    *)
(* never get out of step: between two calls, failed ones included, the     *)
(* server is where the next call needs it.                                 *)
NeverOutOfStep == clean /\ (pc = "idle" => InStep)

(* The interrupt vector holds the server's handler or the system's, as     *)
(* `install' and `uninstall' are there to ensure.                          *)
SaneVector == vector \in {Handler, sysirq}

(* Every call returns, whatever happened to the other end. *)
CallsReturn == (pc # "idle") ~> (pc = "idle")

Remote == INSTANCE RemoteMemory WITH
  Identification <- Info,
  InitStore <- InitMem,
  store   <- Store,
  entry   <- Entry,
  basic   <- (pc # "idle" /\ LoadsBasic(req, done)),
  call    <- IF pc = "idle" THEN NoCall ELSE req,
  done    <- IF pc = "idle" THEN 0 ELSE done,
  reply   <- got,
  outcome <- (pc = "idle" /\ result),
  trusted <- clean

(* As long as the ends are in step, each call does to the C64 what its     *)
(* caller asked for and nothing else, byte by byte; it reports success     *)
(* only when all of it is done and failure only when nothing is.           *)
Implements == Remote!Spec
=============================================================================
