----------------------------- MODULE UsbClient -----------------------------
(***************************************************************************)
(* The PC with an at90usb162 board: the calls of xlink.c on top of the USB *)
(* driver (driver/usb.c).  One action is one control transfer: the driver  *)
(* waits for it to be over, and the board does one at a time.              *)
(***************************************************************************)
EXTENDS UsbBoard

CONSTANTS
  Calls,        \* the requests the PC makes
  Payload       \* MAX_PAYLOAD_SIZE: bytes of a transfer

ASSUME CallsAssumption == Calls \subseteq RequestType /\ Calls # {}
ASSUME PayloadAssumption == Payload \in Nat \ {0}

VARIABLES
  pc,           \* where the call is
  req,          \* the request being made
  part,         \* which send, or which receive, of the call it is in
  moved,        \* bytes of it that are transferred
  got,          \* bytes received
  result        \* what the call will return

client == << pc, req, part, moved, got, result >>
call   == << req, part, moved, got, result >>

ClientTypeOK ==
  /\ pc \in {"idle", "open", "reset", "pingOutput", "pingWrite", "pingStrobe", "ask",
             "output", "send", "sending", "input", "turn", "receive", "receiving",
             "closeInput", "close"}
  /\ req \in Calls
  /\ part \in 1 .. 3
  /\ moved \in Nat
  /\ got \in Seq(Byte)
  /\ result \in BOOLEAN

ClientInit ==
  /\ pc = "idle"
  /\ req = CHOOSE r \in Calls : TRUE
  /\ part = 1
  /\ moved = 0
  /\ got = <<>>
  /\ result = FALSE

(* A transfer without data, which the board is free to do. *)
Control(from, to) ==
  /\ pc = from
  /\ handle
  /\ transfer = "none"
  /\ pc' = to
  /\ UNCHANGED << pa2, ciaData, ciaDriving, call, board >>

InputTransfer(from, to)  == Control(from, to) /\ input /\ pcData' = 255 /\ UNCHANGED flag
OutputTransfer(from, to) == Control(from, to) /\ output /\ UNCHANGED << flag, pcData >>
StrobeTransfer(from, to) == Control(from, to) /\ strobe /\ UNCHANGED << pcData, pcDriving >>

-----------------------------------------------------------------------------
Call ==
  /\ pc = "idle"
  /\ req' \in Calls
  /\ pc' = "open"
  /\ result' = FALSE
  /\ UNCHANGED << userport, board, part, moved, got >>

Open ==
  /\ pc = "open"
  /\ transfer = "none"
  /\ handle' = TRUE
  /\ input
  /\ pcData' = 255
  /\ pc' = IF req.op = "reset" THEN "reset" ELSE "pingOutput"
  /\ UNCHANGED << flag, pa2, ciaData, ciaDriving, transfer, bpc, bytes, size, count,
                  host, last, call >>

OpenFails ==
  /\ pc = "open"
  /\ pc' = "idle"
  /\ UNCHANGED << userport, board, call >>

(* driver_usb_ping: no answer to the question whether PA2 has changed is   *)
(* an answer of no.                                                        *)
PingOutput == OutputTransfer("pingOutput", "pingWrite")

PingWrite ==
  /\ Control("pingWrite", "pingStrobe")
  /\ pcData' = PingCmd
  /\ UNCHANGED << flag, pcDriving >>

PingStrobe == StrobeTransfer("pingStrobe", "ask")

Acked ==
  /\ pc = "ask"
  /\ handle
  /\ transfer = "none"
  /\ Answered
  /\ last' = pa2
  /\ result' = (req.op = "ping")
  /\ pc' = IF req.op = "ping" THEN "closeInput" ELSE "output"
  /\ UNCHANGED << userport, transfer, bpc, bytes, size, count, host, handle, req, part, moved, got >>

(* driver_usb_wait asks every ten milliseconds, for 250 of them. *)
GiveUp ==
  /\ pc = "ask"
  /\ handle
  /\ transfer = "none"
  /\ pc' = "closeInput"
  /\ UNCHANGED << userport, board, call >>

Output == OutputTransfer("output", "send")

-----------------------------------------------------------------------------
Fits(n) == IF n > Payload THEN Payload ELSE n

(* driver_usb_send, one chunk. *)
Sending == Part(req, part)

(* Mutant of Send: every chunk begins where the first one did. *)
SendMutant ==
  /\ pc = "send"
  /\ handle
  /\ transfer = "none"
  /\ LET n == Fits(Len(Sending) - moved)
     IN Begin("send", SubSeq(Sending, 1, n), n)
  /\ pc' = "sending"
  /\ UNCHANGED << userport, call >>

Send ==
  /\ pc = "send"
  /\ handle
  /\ transfer = "none"
  /\ LET n == Fits(Len(Sending) - moved)
     IN Begin("send", SubSeq(Sending, moved + 1, moved + n), n)
  /\ pc' = "sending"
  /\ UNCHANGED << userport, call >>

SendReport ==
  /\ pc = "sending"
  /\ transfer = "send"
  /\ bpc = "done"
  /\ Release
  /\ LET all == moved + size = Len(Sending) IN
     \/ /\ count # size
        /\ pc' = "closeInput"
        /\ UNCHANGED << part, moved, result >>
     \/ /\ count = size /\ ~all
        /\ moved' = moved + size
        /\ pc' = "send"
        /\ UNCHANGED << part, result >>
     \/ /\ count = size /\ all
        /\ part < Parts(req)
        /\ part' = part + 1
        /\ moved' = 0
        /\ pc' = "send"
        /\ UNCHANGED result
     \/ /\ count = size /\ all
        /\ part = Parts(req)
        /\ part' = 1
        /\ moved' = 0
        /\ pc' = IF Receives(req) THEN "input" ELSE "closeInput"
        /\ result' = ~Receives(req)
  /\ UNCHANGED << userport, last, handle, req, got >>

-----------------------------------------------------------------------------
Input == InputTransfer("input", "turn")
Turn  == StrobeTransfer("turn", "receive")

(* driver_usb_receive, one chunk. *)
Wanted == ReplySize(req, part, got) - moved

Receive ==
  /\ pc = "receive"
  /\ handle
  /\ transfer = "none"
  /\ Begin("receive", <<>>, Fits(Wanted))
  /\ pc' = "receiving"
  /\ UNCHANGED << userport, call >>

ReceiveReport ==
  /\ pc = "receiving"
  /\ transfer = "receive"
  /\ bpc = "done"
  /\ Release
  /\ got' = got \o bytes
  /\ \/ /\ count # size
        /\ pc' = "closeInput"
        /\ UNCHANGED << part, moved, result >>
     \/ /\ count = size
        /\ size < Wanted
        /\ moved' = moved + size
        /\ pc' = "receive"
        /\ UNCHANGED << part, result >>
     \/ /\ count = size
        /\ size = Wanted
        /\ part < Replies(req)
        /\ part' = part + 1
        /\ moved' = 0
        /\ pc' = "receive"
        /\ UNCHANGED result
     \/ /\ count = size
        /\ size = Wanted
        /\ part = Replies(req)
        /\ pc' = "closeInput"
        /\ result' = (req.op = "identify" => ~Unidentified(got'))
        /\ UNCHANGED << part, moved >>
  /\ UNCHANGED << userport, last, handle, req >>

-----------------------------------------------------------------------------
(* _driver_close releases the lines before the device is closed. *)
CloseInput == InputTransfer("closeInput", "close")

(* Every variable of the call but its result. *)
Over ==
  /\ pc' = "idle"
  /\ part' = 1
  /\ moved' = 0
  /\ got' = <<>>

Close ==
  /\ pc = "close"
  /\ Over
  /\ UNCHANGED << userport, board, req, result >>

(* Every transfer fails on a device that is gone: the call is soon over.   *)
(* Nobody asks whether a reset has reached the board.                      *)
Gone ==
  /\ pc \notin {"idle", "open", "close"}
  /\ ~handle
  /\ Over
  /\ result' = (result \/ pc = "reset")
  /\ UNCHANGED << userport, board, req >>

ClientStep ==
  \/ Open \/ OpenFails
  \/ PingOutput \/ PingWrite \/ PingStrobe \/ Acked
  \/ Output \/ Send \/ SendReport
  \/ Input \/ Turn \/ Receive \/ ReceiveReport
  \/ CloseInput \/ Close \/ Gone
=============================================================================
