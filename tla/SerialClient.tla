---------------------------- MODULE SerialClient ----------------------------
(***************************************************************************)
(* The PC with a servant64 board: the calls of xlink.c on top of the       *)
(* serial driver (driver/serial.c).  The driver writes commands for the    *)
(* firmware without waiting for them to be done, unless they are answered; *)
(* it then reads until the answer is complete, for as long as that takes.  *)
(* One action is one write to the serial line or one read from it.         *)
(***************************************************************************)
EXTENDS Servant

CONSTANTS
  Calls,        \* the requests the PC makes
  Chunk         \* bytes written at once

ASSUME CallsAssumption == Calls \subseteq RequestType /\ Calls # {}
ASSUME ChunkAssumption == Chunk \in Nat \ {0}

VARIABLES
  pc,           \* where the call is
  req,          \* the request being made
  part,         \* which send, or which receive, of the call it is in
  moved,        \* bytes of that send written, or of that receive read
  got,          \* bytes received
  initialized,  \* has this process opened the serial line before?
  result        \* what the call will return

client == << pc, req, part, moved, got, initialized, result >>

ClientTypeOK ==
  /\ pc \in {"idle", "open", "reset", "pingOutput", "pingWrite", "pingStrobe",
             "ask", "answer", "again", "output", "send", "data", "sendReport",
             "input", "turn", "receive", "read", "receiveReport", "close"}
  /\ req \in Calls
  /\ part \in 1 .. 3
  /\ moved \in Nat
  /\ got \in Seq(Byte)
  /\ initialized \in BOOLEAN
  /\ result \in BOOLEAN

ClientInit ==
  /\ pc = "idle"
  /\ req = CHOOSE r \in Calls : TRUE
  /\ part = 1
  /\ moved = 0
  /\ got = <<>>
  /\ initialized = FALSE
  /\ result = FALSE

(* cmd(): a command of nine bytes. *)
Frame(cmd, arg1, arg2) == << cmd >> \o Wide(arg1) \o Wide(arg2)

InputFrame == Frame(CMD_INPUT, 0, 0)

(* The driver writes bytes and goes on. *)
Writes(from, bytes, to) ==
  /\ pc = from
  /\ rx' = rx \o bytes
  /\ pc' = to
  /\ UNCHANGED << userport, firmware >>

(* The driver reads n bytes once they are there. *)
Reads(from, n) ==
  /\ pc = from
  /\ Len(tx) >= n
  /\ tx' = SubSeq(tx, n + 1, Len(tx))
  /\ UNCHANGED << userport, rx, firmware >>

ServantTimeout == 2

-----------------------------------------------------------------------------
Call ==
  /\ pc = "idle"
  /\ req' \in Calls
  /\ pc' = "open"
  /\ result' = FALSE
  /\ UNCHANGED << userport, rx, tx, firmware, part, moved, got, initialized >>

(* driver_serial_open: the first one of a process discards what is unread. *)
Open ==
  /\ Writes("open", InputFrame, IF req.op = "reset" THEN "reset" ELSE "pingOutput")
  /\ tx' = IF initialized THEN tx ELSE <<>>
  /\ initialized' = TRUE
  /\ UNCHANGED << req, part, moved, got, result >>

OpenFails ==
  /\ pc = "open"
  /\ ~initialized
  /\ pc' = "idle"
  /\ UNCHANGED << userport, rx, tx, firmware, req, part, moved, got, initialized, result >>

Reset ==
  /\ Writes("reset", Frame(CMD_RESET, 0, 0), "close")
  /\ result' = TRUE
  /\ UNCHANGED << tx, req, part, moved, got, initialized >>

rest == << tx, req, part, moved, got, initialized, result >>

(* driver_serial_ping. *)
PingOutput == Writes("pingOutput", Frame(CMD_OUTPUT, 0, 0), "pingWrite") /\ UNCHANGED rest
PingWrite  == Writes("pingWrite", Frame(CMD_WRITE, PingCmd, 0), "pingStrobe") /\ UNCHANGED rest
PingStrobe == Writes("pingStrobe", Frame(CMD_STROBE, 0, 0), "ask") /\ UNCHANGED rest

(* driver_serial_wait asks every ten milliseconds. *)
Ask == Writes("ask", Frame(CMD_ACKED, 0, 0), "answer") /\ UNCHANGED rest

Answer ==
  /\ Reads("answer", 1)
  /\ \/ tx[1] = Yes /\ req.op = "ping" /\ pc' = "close" /\ result' = TRUE
     \/ tx[1] = Yes /\ req.op # "ping" /\ pc' = "output" /\ UNCHANGED result
     \/ tx[1] # Yes /\ pc' = "again" /\ UNCHANGED result
  /\ UNCHANGED << req, part, moved, got, initialized >>

AskAgain == Writes("again", Frame(CMD_ACKED, 0, 0), "answer") /\ UNCHANGED rest

(* The wait is over after 250 milliseconds. *)
GiveUp ==
  /\ pc = "again"
  /\ pc' = "close"
  /\ UNCHANGED << userport, rx, firmware, rest >>

Output == Writes("output", Frame(CMD_OUTPUT, 0, 0), "send") /\ UNCHANGED rest

-----------------------------------------------------------------------------
(* driver_serial_send: of the header, and for a load of the data. *)
Sending == Part(req, part)

Send ==
  /\ Writes("send", Frame(CMD_SEND, Len(Sending), ServantTimeout), "data")
  /\ moved' = 0
  /\ UNCHANGED << tx, req, part, got, initialized, result >>

SendData ==
  LET n == IF Len(Sending) - moved > Chunk THEN Chunk ELSE Len(Sending) - moved IN
  /\ Writes("data", SubSeq(Sending, moved + 1, moved + n),
            IF moved + n = Len(Sending) THEN "sendReport" ELSE "data")
  /\ moved' = moved + n
  /\ UNCHANGED << tx, req, part, got, initialized, result >>

(* The PC compares the number that comes back with its own. *)
Reported == Narrow(SubSeq(tx, 1, 4))

(* Mutant of SendReport: the driver does not read the report. *)
SendReportMutant ==
  /\ pc = "sendReport"
  /\ \/ /\ part < Parts(req)
        /\ part' = part + 1
        /\ pc' = "send"
        /\ UNCHANGED result
     \/ /\ part = Parts(req)
        /\ part' = 1
        /\ pc' = IF Receives(req) THEN "input" ELSE "close"
        /\ result' = ~Receives(req)
  /\ UNCHANGED << userport, rx, tx, firmware, req, moved, got, initialized >>

SendReport ==
  /\ Reads("sendReport", 4)
  /\ \/ /\ Reported # Len(Sending)
        /\ pc' = "close"
        /\ UNCHANGED << part, result >>
     \/ /\ Reported = Len(Sending)
        /\ part < Parts(req)
        /\ part' = part + 1
        /\ pc' = "send"
        /\ UNCHANGED result
     \/ /\ Reported = Len(Sending)
        /\ part = Parts(req)
        /\ part' = 1
        /\ pc' = IF Receives(req) THEN "input" ELSE "close"
        /\ result' = ~Receives(req)
  /\ UNCHANGED << req, moved, got, initialized >>

-----------------------------------------------------------------------------
Input == Writes("input", InputFrame, "turn") /\ UNCHANGED rest
Turn  == Writes("turn", Frame(CMD_STROBE, 0, 0), "receive") /\ UNCHANGED rest

(* driver_serial_receive. *)
Wanted == ReplySize(req, part, got)

Receive ==
  /\ Writes("receive", Frame(CMD_RECEIVE, Wanted, ServantTimeout),
            IF Wanted = 0 THEN "receiveReport" ELSE "read")
  /\ moved' = 0
  /\ UNCHANGED << tx, req, part, got, initialized, result >>

Read ==
  /\ Reads("read", 1)
  /\ got' = Append(got, tx[1])
  /\ moved' = moved + 1
  /\ pc' = IF moved' = Wanted THEN "receiveReport" ELSE "read"
  /\ UNCHANGED << req, part, initialized, result >>

(* Mutant of ReceiveReport: one receive too many. *)
ReceiveReportMutant ==
  /\ Reads("receiveReport", 4)
  /\ \/ /\ Reported # Wanted
        /\ pc' = "close"
        /\ UNCHANGED << part, result >>
     \/ /\ Reported = Wanted
        /\ part <= Replies(req)
        /\ part' = part + 1
        /\ pc' = "receive"
        /\ UNCHANGED result
  /\ UNCHANGED << req, moved, got, initialized >>

ReceiveReport ==
  /\ Reads("receiveReport", 4)
  /\ \/ /\ Reported # Wanted
        /\ pc' = "close"
        /\ UNCHANGED << part, result >>
     \/ /\ Reported = Wanted
        /\ part < Replies(req)
        /\ part' = part + 1
        /\ pc' = "receive"
        /\ UNCHANGED result
     \/ /\ Reported = Wanted
        /\ part = Replies(req)
        /\ pc' = "close"
        /\ result' = (req.op = "identify" => ~Unidentified(got))
        /\ UNCHANGED part
  /\ UNCHANGED << req, moved, got, initialized >>

-----------------------------------------------------------------------------
(* _driver_close releases the lines; the serial line stays open. *)
Close ==
  /\ Writes("close", InputFrame, "idle")
  /\ part' = 1
  /\ moved' = 0
  /\ got' = <<>>
  /\ UNCHANGED << tx, req, initialized, result >>

NewProcess ==
  /\ pc = "idle"
  /\ initialized
  /\ initialized' = FALSE
  /\ UNCHANGED << userport, rx, tx, firmware, pc, req, part, moved, got, result >>

ClientStep ==
  \/ Open \/ OpenFails \/ Reset
  \/ PingOutput \/ PingWrite \/ PingStrobe \/ Ask \/ Answer \/ AskAgain
  \/ Output \/ Send \/ SendData \/ SendReport
  \/ Input \/ Turn \/ Receive \/ Read \/ ReceiveReport
  \/ Close
=============================================================================
