------------------------------- MODULE Client -------------------------------
(***************************************************************************)
(* The PC: the calls of xlink.c on top of the parallel port driver.  Every *)
(* call opens the device, pings the server, sends its bytes one at a time, *)
(* turns the port around if it expects a reply, and closes the device.     *)
(* One action is one access to the port.                                   *)
(***************************************************************************)
EXTENDS Userport

CONSTANT Calls      \* the requests the PC makes

ASSUME CallsAssumption == Calls \subseteq RequestType /\ Calls # {}

(* All but two of the requests begin with a command code.  A ping has none, *)
(* its byte is the driver's; a reset is not sent at all.                    *)
ASSUME HeaderAssumption ==
  \A r \in Calls : r.op \notin {"ping", "reset"} => r.header # <<>>

VARIABLES
  pc,           \* where the call is
  req,          \* the request being made
  nsent,        \* bytes of Out(req) sent and acknowledged
  got,          \* bytes received
  last,         \* _driver_parport_last_status
  initialized,  \* _driver_parport_initialized: did this process read it yet?
  result        \* what the call will return

client == << pc, req, nsent, got, last, initialized, result >>

ClientPC == {"idle", "open", "pingOut", "pingWrite", "pingStrobe", "pingWait",
             "out", "write", "strobe", "wait", "input", "turn", "rwait", "rread",
             "rstrobe", "init", "closeInput", "close"}

ClientTypeOK ==
  /\ pc \in ClientPC
  /\ req \in Calls
  /\ nsent \in Nat
  /\ got \in Seq(Byte)
  /\ last \in {0, 1}
  /\ initialized \in BOOLEAN
  /\ result \in BOOLEAN

ClientInit ==
  /\ pc = "idle"
  /\ req = CHOOSE r \in Calls : TRUE
  /\ nsent = 0
  /\ got = <<>>
  /\ last = 0
  /\ initialized = FALSE
  /\ result = FALSE

-----------------------------------------------------------------------------
Call ==
  /\ pc = "idle"
  /\ req' \in Calls
  /\ pc' = "open"
  /\ result' = FALSE
  /\ UNCHANGED << userport, nsent, got, last, initialized >>

(* Mutant of Open: the level of PA2 is never read. *)
OpenMutant ==
  /\ pc = "open"
  /\ input
  /\ last' = last
  /\ initialized' = TRUE
  /\ pc' = IF req.op = "reset" THEN "init" ELSE "pingOut"
  /\ UNCHANGED << flag, pa2, pcData, ciaData, ciaDriving, req, nsent, got, result >>

(* driver_parport_open: the first open of a process reads the level of PA2, *)
(* later ones rely on what the last wait saw.                               *)
Open ==
  /\ pc = "open"
  /\ input
  /\ last' = IF initialized THEN last ELSE pa2
  /\ initialized' = TRUE
  /\ pc' = IF req.op = "reset" THEN "init" ELSE "pingOut"
  /\ UNCHANGED << flag, pa2, pcData, ciaData, ciaDriving, req, nsent, got, result >>

(* Another process has claimed the port: the call fails without a close. *)
OpenFails ==
  /\ pc = "open"
  /\ pc' = "idle"
  /\ UNCHANGED << userport, req, nsent, got, last, initialized, result >>

-----------------------------------------------------------------------------
(* driver_parport_ping. *)
PingOutput ==
  /\ pc = "pingOut"
  /\ output
  /\ pc' = "pingWrite"
  /\ UNCHANGED << flag, pa2, pcData, ciaData, ciaDriving, req, nsent, got, last,
                  initialized, result >>

PingWrite ==
  /\ pc = "pingWrite"
  /\ pcData' = PingCmd
  /\ pc' = "pingStrobe"
  /\ UNCHANGED << flag, pa2, pcDriving, ciaData, ciaDriving, req, nsent, got, last,
                  initialized, result >>

PingStrobe ==
  /\ pc = "pingStrobe"
  /\ strobe
  /\ pc' = "pingWait"
  /\ UNCHANGED << pa2, bus, req, nsent, got, last, initialized, result >>

(* driver_parport_wait: any level but the last one is the answer. *)
Acknowledged == pa2 # last

PingAnswered ==
  /\ pc = "pingWait"
  /\ Acknowledged
  /\ last' = pa2
  /\ \/ /\ req.op = "ping"
        /\ result' = TRUE
        /\ pc' = "closeInput"
     \/ /\ req.op # "ping"
        /\ pc' = "out"
        /\ UNCHANGED result
  /\ UNCHANGED << userport, req, nsent, got, initialized >>

-----------------------------------------------------------------------------
Output ==
  /\ pc = "out"
  /\ output
  /\ pc' = "write"
  /\ UNCHANGED << flag, pa2, pcData, ciaData, ciaDriving, req, nsent, got, last,
                  initialized, result >>

(* driver_parport_send, one byte. *)
Write ==
  /\ pc = "write"
  /\ pcData' = Out(req)[nsent + 1]
  /\ pc' = "strobe"
  /\ UNCHANGED << flag, pa2, pcDriving, ciaData, ciaDriving, req, nsent, got, last,
                  initialized, result >>

Strobe ==
  /\ pc = "strobe"
  /\ strobe
  /\ pc' = "wait"
  /\ UNCHANGED << pa2, bus, req, nsent, got, last, initialized, result >>

(* Mutant of Sent: bytes are sent without waiting for each to be taken. *)
SentMutant ==
  /\ pc = "wait"
  /\ last' = pa2
  /\ nsent' = nsent + 1
  /\ \/ /\ nsent' < Len(Out(req))
        /\ pc' = "write"
        /\ UNCHANGED result
     \/ /\ nsent' = Len(Out(req))
        /\ Receives(req)
        /\ pc' = "input"
        /\ UNCHANGED result
     \/ /\ nsent' = Len(Out(req))
        /\ ~Receives(req)
        /\ pc' = "closeInput"
        /\ result' = TRUE
  /\ UNCHANGED << userport, req, got, initialized >>

(* After the last byte a call that expects a reply turns the port around,  *)
(* any other one is done: successfully, unless it was a load without data, *)
(* for which the second send returns false.                                *)
Sent ==
  /\ pc = "wait"
  /\ Acknowledged
  /\ last' = pa2
  /\ nsent' = nsent + 1
  /\ \/ /\ nsent' < Len(Out(req))
        /\ pc' = "write"
        /\ UNCHANGED result
     \/ /\ nsent' = Len(Out(req))
        /\ Receives(req)
        /\ pc' = "input"
        /\ UNCHANGED result
     \/ /\ nsent' = Len(Out(req))
        /\ ~Receives(req)
        /\ pc' = "closeInput"
        /\ result' = (req.op = "load" => req.data # <<>>)
  /\ UNCHANGED << userport, req, got, initialized >>

-----------------------------------------------------------------------------
(* driver->input(); driver->strobe(): the server may drive the lines now. *)
Input ==
  /\ pc = "input"
  /\ input
  /\ pc' = "turn"
  /\ UNCHANGED << flag, pa2, pcData, ciaData, ciaDriving, req, nsent, got, last,
                  initialized, result >>

Turn ==
  /\ pc = "turn"
  /\ strobe
  /\ pc' = IF req.want = 0 THEN "closeInput" ELSE "rwait"
  /\ UNCHANGED << pa2, bus, req, nsent, got, last, initialized, result >>

(* driver_parport_receive, one byte. *)
Offered ==
  /\ pc = "rwait"
  /\ Acknowledged
  /\ last' = pa2
  /\ pc' = "rread"
  /\ UNCHANGED << userport, req, nsent, got, initialized, result >>

Read ==
  /\ pc = "rread"
  /\ \E b \in BusValues : got' = Append(got, b)
  /\ pc' = "rstrobe"
  /\ UNCHANGED << userport, req, nsent, last, initialized, result >>

(* receive(id, 0) returns false, too. *)
Nameless == req.op = "identify" /\ Len(got) = 1 /\ got[1] % 16 = 0

Received ==
  /\ pc = "rstrobe"
  /\ strobe
  /\ \/ /\ Nameless
        /\ pc' = "closeInput"
        /\ UNCHANGED result
     \/ /\ ~Nameless
        /\ Len(got) < Want(req, got)
        /\ pc' = "rwait"
        /\ UNCHANGED result
     \/ /\ Len(got) >= Want(req, got)
        /\ pc' = "closeInput"
        /\ result' = (req.op = "identify" => ~Unidentified(got))
  /\ UNCHANGED << pa2, bus, req, nsent, got, last, initialized >>

-----------------------------------------------------------------------------
(* Mutant of Waiting: a receive waits without a timeout. *)
WaitingMutant == pc \in {"pingWait", "wait"}

(* The wait of a ping, a send or a receive gives up. *)
Waiting == pc \in {"pingWait", "wait", "rwait"}

Timeout ==
  /\ Waiting
  /\ ~Acknowledged
  /\ pc' = "closeInput"
  /\ UNCHANGED << userport, req, nsent, got, last, initialized, result >>

(* _driver_close releases the lines before the device is closed. *)
CloseInput ==
  /\ pc = "closeInput"
  /\ input
  /\ pc' = "close"
  /\ UNCHANGED << flag, pa2, pcData, ciaData, ciaDriving, req, nsent, got, last,
                  initialized, result >>

Close ==
  /\ pc = "close"
  /\ pc' = "idle"
  /\ nsent' = 0
  /\ got' = <<>>
  /\ UNCHANGED << userport, req, last, initialized, result >>

(* The process ends between two calls; the next one starts afresh. *)
NewProcess ==
  /\ pc = "idle"
  /\ initialized
  /\ initialized' = FALSE
  /\ UNCHANGED << userport, pc, req, nsent, got, last, result >>

ClientStep ==
  \/ Open \/ OpenFails
  \/ PingOutput \/ PingWrite \/ PingStrobe \/ PingAnswered
  \/ Output \/ Write \/ Strobe \/ Sent
  \/ Input \/ Turn \/ Offered \/ Read \/ Received
  \/ CloseInput \/ Close
=============================================================================
