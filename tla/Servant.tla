------------------------------ MODULE Servant ------------------------------
(***************************************************************************)
(* The servant64 firmware (driver/servant64/xlink.c): a microcontroller on *)
(* a serial line that works the user port for the PC.  The PC sends it     *)
(* commands of nine bytes, some followed by data, some answered by data.   *)
(* Nothing on the line tells a command from data: the firmware knows by    *)
(* counting.  One action is one access to the user port; a command that    *)
(* has not arrived as a whole waits in `rx'.                               *)
(***************************************************************************)
EXTENDS Userport

CONSTANT MaxSize    \* bound: a larger size in a command counts as this one

ASSUME MaxSizeAssumption == MaxSize \in Nat

CMD_RESET   == 1
CMD_STROBE  == 2
CMD_ACKED   == 3
CMD_INPUT   == 4
CMD_OUTPUT  == 5
CMD_READ    == 6
CMD_WRITE   == 7
CMD_SEND    == 8
CMD_RECEIVE == 9

Yes == 85       \* 0x55: PA2 has changed
No  == 170      \* 0xaa: it has not

VARIABLES
  rx,       \* bytes on their way to the firmware, its receive buffer included
  tx,       \* bytes on their way to the PC
  fpc,      \* where the firmware is
  size,     \* how many bytes it is to send or receive
  timed,    \* does it give up after a while?
  count,    \* how many of them it has
  last      \* the level of PA2 it saw last

firmware == << fpc, size, timed, count, last >>

FrameLength == 9

ServantTypeOK ==
  /\ rx \in Seq(Byte)
  /\ tx \in Seq(Byte)
  /\ fpc \in {"frame", "sendByte", "sendStrobe", "sendWait",
              "recvWait", "recvRead", "recvStrobe"}
  /\ size \in 0 .. MaxSize
  /\ timed \in BOOLEAN
  /\ count \in Nat
  /\ last \in {0, 1}

ServantInit ==
  /\ rx = <<>>
  /\ tx = <<>>
  /\ fpc = "frame"
  /\ size = 0
  /\ timed = FALSE
  /\ count = 0
  /\ last = pa2

(* A 32-bit number, low byte first, on the line. *)
Wide(n) == << lo(n), hi(n), hlo(n), 0 >>
Narrow(bytes) ==
  LET n == Word(bytes[1], bytes[2]) + AddressSpace * bytes[3]
  IN IF bytes[4] # 0 \/ n > MaxSize THEN MaxSize ELSE n

-----------------------------------------------------------------------------
(* The main loop takes nine bytes and does what the first one says. *)
Takes(cmd) ==
  /\ fpc = "frame"
  /\ Len(rx) >= FrameLength
  /\ rx[1] = cmd
  /\ rx' = SubSeq(rx, FrameLength + 1, Len(rx))

FwStrobe ==
  /\ Takes(CMD_STROBE)
  /\ strobe
  /\ UNCHANGED << pa2, bus, tx, firmware >>

FwAcked ==
  /\ Takes(CMD_ACKED)
  /\ tx' = Append(tx, IF last # pa2 THEN Yes ELSE No)
  /\ last' = pa2
  /\ UNCHANGED << userport, fpc, size, timed, count >>

(* Input() also switches pull-ups on, and Output() drives what they left. *)
FwInput ==
  /\ Takes(CMD_INPUT)
  /\ input
  /\ pcData' = 255
  /\ UNCHANGED << flag, pa2, ciaData, ciaDriving, tx, firmware >>

FwOutput ==
  /\ Takes(CMD_OUTPUT)
  /\ output
  /\ UNCHANGED << flag, pa2, pcData, ciaData, ciaDriving, tx, firmware >>

FwRead ==
  /\ Takes(CMD_READ)
  /\ \E b \in BusValues : tx' = Append(tx, b)
  /\ UNCHANGED << userport, firmware >>

FwWrite ==
  /\ Takes(CMD_WRITE)
  /\ pcData' = rx[2]
  /\ UNCHANGED << flag, pa2, pcDriving, ciaData, ciaDriving, tx, firmware >>

FwUnknown ==
  /\ Takes(rx[1])
  /\ rx[1] \notin CMD_RESET .. CMD_RECEIVE
  /\ UNCHANGED << userport, tx, firmware >>

(* Send() and Receive() begin; with nothing to do they report at once. *)
FwTransfer(cmd, first) ==
  LET n == Narrow(SubSeq(rx, 2, 5)) IN
  /\ Takes(cmd)
  /\ size' = n
  /\ timed' = (SubSeq(rx, 6, 9) # << 0, 0, 0, 0 >>)
  /\ count' = 0
  /\ IF n = 0
     THEN tx' = tx \o Wide(0) /\ UNCHANGED fpc
     ELSE fpc' = first /\ UNCHANGED tx
  /\ UNCHANGED << userport, last >>

FwSend    == FwTransfer(CMD_SEND, "sendByte")
FwReceive == FwTransfer(CMD_RECEIVE, "recvWait")

-----------------------------------------------------------------------------
(* Send(): each byte is read from the line, written, strobed, and waited for. *)
FwSendByte ==
  /\ fpc = "sendByte"
  /\ rx # <<>>
  /\ pcData' = Head(rx)
  /\ rx' = Tail(rx)
  /\ fpc' = "sendStrobe"
  /\ UNCHANGED << flag, pa2, pcDriving, ciaData, ciaDriving, tx, size, timed, count, last >>

FwSendStrobe ==
  /\ fpc = "sendStrobe"
  /\ strobe
  /\ fpc' = "sendWait"
  /\ UNCHANGED << pa2, bus, rx, tx, size, timed, count, last >>

Answered == pa2 # last

(* Mutant of FwSent: a byte counts as sent before it is acknowledged. *)
FwSentMutant ==
  /\ fpc = "sendWait"
  /\ last' = pa2
  /\ count' = count + 1
  /\ IF count' = size
     THEN tx' = tx \o Wide(size) /\ fpc' = "frame"
     ELSE fpc' = "sendByte" /\ UNCHANGED tx
  /\ UNCHANGED << userport, rx, size, timed >>

(* Mutant of FwSent: the loop ends one byte early. *)
FwSentEarlyMutant ==
  /\ fpc = "sendWait"
  /\ Answered
  /\ last' = pa2
  /\ count' = count + 1
  /\ IF count' + 1 >= size
     THEN tx' = tx \o Wide(size) /\ fpc' = "frame"
     ELSE fpc' = "sendByte" /\ UNCHANGED tx
  /\ UNCHANGED << userport, rx, size, timed >>

FwSent ==
  /\ fpc = "sendWait"
  /\ Answered
  /\ last' = pa2
  /\ count' = count + 1
  /\ IF count' = size
     THEN tx' = tx \o Wide(size) /\ fpc' = "frame"
     ELSE fpc' = "sendByte" /\ UNCHANGED tx
  /\ UNCHANGED << userport, rx, size, timed >>

(* Mutant of FwSendTimeout: what has arrived of the rest is kept. *)
FwSendTimeoutMutant ==
  /\ fpc = "sendWait"
  /\ timed
  /\ tx' = tx \o Wide(count + 1)
  /\ fpc' = "frame"
  /\ UNCHANGED << userport, rx, size, timed, count, last >>

(* On a timeout the byte that was not taken is reported as sent, and what  *)
(* has arrived of the rest is thrown away.                                 *)
FwSendTimeout ==
  /\ fpc = "sendWait"
  /\ timed
  /\ rx' = <<>>
  /\ tx' = tx \o Wide(count + 1)
  /\ fpc' = "frame"
  /\ UNCHANGED << userport, size, timed, count, last >>

(* Receive(): each byte is waited for, read, passed on, and strobed for. *)
FwOffered ==
  /\ fpc = "recvWait"
  /\ Answered
  /\ last' = pa2
  /\ fpc' = "recvRead"
  /\ UNCHANGED << userport, rx, tx, size, timed, count >>

FwRecvRead ==
  /\ fpc = "recvRead"
  /\ \E b \in BusValues : tx' = Append(tx, b)
  /\ fpc' = "recvStrobe"
  /\ UNCHANGED << userport, rx, size, timed, count, last >>

FwRecvStrobe ==
  /\ fpc = "recvStrobe"
  /\ strobe
  /\ count' = count + 1
  /\ IF count' = size
     THEN tx' = tx \o Wide(size) /\ fpc' = "frame"
     ELSE fpc' = "recvWait" /\ UNCHANGED tx
  /\ UNCHANGED << pa2, bus, rx, size, timed, last >>

(* On a timeout the PC gets as many bytes as it asked for all the same. *)
FwRecvTimeout ==
  /\ fpc = "recvWait"
  /\ timed
  /\ tx' = tx \o [i \in 1 .. size - count |-> 255] \o Wide(count + 1)
  /\ fpc' = "frame"
  /\ UNCHANGED << userport, rx, size, timed, count, last >>

FwStep ==
  \/ FwStrobe \/ FwAcked \/ FwInput \/ FwOutput \/ FwRead \/ FwWrite \/ FwUnknown
  \/ FwSend \/ FwReceive
  \/ FwSendByte \/ FwSendStrobe \/ FwSent
  \/ FwOffered \/ FwRecvRead \/ FwRecvStrobe
=============================================================================
