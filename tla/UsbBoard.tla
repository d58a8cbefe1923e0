------------------------------ MODULE UsbBoard ------------------------------
(***************************************************************************)
(* The at90usb162 firmware (driver/at90usb162/xlink.c): a microcontroller  *)
(* that works the user port for a PC, one USB control transfer at a time.  *)
(* Strobes, writes, turns of the port and questions are transfers that are *)
(* over at once: they are actions of UsbClient.  A send or a receive keeps *)
(* the firmware busy; its data comes and goes in packets, for which it     *)
(* waits without a timeout until the watchdog restarts it.                 *)
(***************************************************************************)
EXTENDS Userport

CONSTANT Packet     \* FIXED_CONTROL_ENDPOINT_SIZE: bytes of a packet

ASSUME PacketAssumption == Packet \in Nat \ {0}

VARIABLES
  transfer, \* what the firmware works on
  bpc,      \* where it is with it
  bytes,    \* the bytes to be sent, or those received
  size,     \* how many it is to send or receive
  count,    \* how many the PC will be told have been
  host,     \* is the PC still there for the transfer?
  last,     \* the level of PA2 the firmware saw last
  handle    \* is the handle of the PC still one of this device?

board == << transfer, bpc, bytes, size, count, host, last, handle >>

BoardTypeOK ==
  /\ transfer \in {"none", "send", "receive", "acked"}
  /\ bpc \in {"byte", "strobe", "wait", "done", "stuck"}
  /\ bytes \in Seq(Byte)
  /\ size \in Nat
  /\ count \in 0 .. size
  /\ host \in BOOLEAN
  /\ last \in {0, 1}
  /\ handle \in BOOLEAN

BoardInit ==
  /\ transfer = "none"
  /\ bpc = "done"
  /\ bytes = <<>>
  /\ size = 0
  /\ count = 0
  /\ host = TRUE
  /\ last = pa2
  /\ handle = FALSE

Answered == pa2 # last

(* A transfer is over, and its variables are gone. *)
Release ==
  /\ transfer' = "none"
  /\ bpc' = "done"
  /\ bytes' = <<>>
  /\ size' = 0
  /\ count' = 0
  /\ host' = TRUE

(* At the end of a packet the firmware waits for the PC. *)
PacketEnd(n) == n % Packet = 0 \/ n = size

(* The PC hands over a transfer. *)
Begin(op, data, n) ==
  /\ transfer' = op
  /\ bytes' = data
  /\ size' = n
  /\ count' = 0
  /\ host' = TRUE
  /\ bpc' = IF n = 0 THEN "done" ELSE IF op = "send" THEN "byte" ELSE "wait"
  /\ UNCHANGED << last, handle >>

-----------------------------------------------------------------------------
(* Send(): each byte of a packet is written, strobed and waited for. *)
SendByte ==
  /\ transfer = "send"
  /\ bpc = "byte"
  /\ pcData' = bytes[count + 1]
  /\ bpc' = "strobe"
  /\ UNCHANGED << flag, pa2, pcDriving, ciaData, ciaDriving,
                  transfer, bytes, size, count, host, last, handle >>

SendStrobe ==
  /\ transfer = "send"
  /\ bpc = "strobe"
  /\ strobe
  /\ bpc' = "wait"
  /\ UNCHANGED << pa2, bus, transfer, bytes, size, count, host, last, handle >>

(* Mutant of SendAcked: the next byte does not wait for an acknowledge. *)
SendAckedMutant ==
  /\ transfer = "send"
  /\ bpc = "wait"
  /\ last' = pa2
  /\ count' = count + 1
  /\ bpc' = CASE count' = size -> "done"
              [] count' # size /\ PacketEnd(count') /\ ~host -> "stuck"
              [] OTHER -> "byte"
  /\ UNCHANGED << userport, transfer, bytes, size, host, handle >>

SendAcked ==
  /\ transfer = "send"
  /\ bpc = "wait"
  /\ Answered
  /\ last' = pa2
  /\ count' = count + 1
  /\ bpc' = CASE count' = size -> "done"
              [] count' # size /\ PacketEnd(count') /\ ~host -> "stuck"
              [] OTHER -> "byte"
  /\ UNCHANGED << userport, transfer, bytes, size, host, handle >>

(* A byte that is not acknowledged ends the transfer.  If it was in the    *)
(* last packet, the USB controller has taken all of them by then, and the  *)
(* PC may be told so; otherwise the firmware waits for the PC to ask how   *)
(* it went, while the PC still waits to be rid of the next packet.         *)
InLastPacket == size - (count - (count % Packet)) <= Packet

SendTimeout ==
  /\ transfer = "send"
  /\ bpc = "wait"
  /\ bpc' = IF InLastPacket THEN "done" ELSE "stuck"
  /\ count' \in IF InLastPacket THEN {count, size} ELSE {count}
  /\ UNCHANGED << userport, transfer, bytes, size, host, last, handle >>

(* Receive(): each byte is waited for, read, and strobed for. *)
Offered ==
  /\ transfer = "receive"
  /\ bpc = "wait"
  /\ Answered
  /\ last' = pa2
  /\ bpc' = "byte"
  /\ UNCHANGED << userport, transfer, bytes, size, count, host, handle >>

ReceiveByte ==
  /\ transfer = "receive"
  /\ bpc = "byte"
  /\ \E b \in BusValues : bytes' = Append(bytes, b)
  /\ bpc' = "strobe"
  /\ UNCHANGED << userport, transfer, size, count, host, last, handle >>

(* Mutant of ReceiveStrobe: a transfer ends with its first packet. *)
ReceiveStrobeMutant ==
  /\ transfer = "receive"
  /\ bpc = "strobe"
  /\ strobe
  /\ count' = count + 1
  /\ bpc' = CASE PacketEnd(count') /\ ~host -> "stuck"
              [] PacketEnd(count') /\ host -> "done"
              [] OTHER -> "wait"
  /\ UNCHANGED << pa2, bus, transfer, bytes, size, host, last, handle >>

(* Mutant of ReceiveStrobe: a transfer ends one byte late. *)
ReceiveLateMutant ==
  /\ transfer = "receive"
  /\ bpc = "strobe"
  /\ strobe
  /\ count' = count + 1
  /\ bpc' = CASE PacketEnd(count') /\ ~host -> "stuck"
              [] count' > size /\ host -> "done"
              [] OTHER -> "wait"
  /\ UNCHANGED << pa2, bus, transfer, bytes, size, host, last, handle >>

ReceiveStrobe ==
  /\ transfer = "receive"
  /\ bpc = "strobe"
  /\ strobe
  /\ count' = count + 1
  /\ bpc' = CASE PacketEnd(count') /\ ~host -> "stuck"
              [] count' = size /\ host -> "done"
              [] OTHER -> "wait"
  /\ UNCHANGED << pa2, bus, transfer, bytes, size, host, last, handle >>

ReceiveTimeout ==
  /\ transfer = "receive"
  /\ bpc = "wait"
  /\ bpc' = IF host THEN "done" ELSE "stuck"
  /\ UNCHANGED << userport, transfer, bytes, size, count, host, last, handle >>

(* A send needs nobody to acknowledge that it is over. *)
Forget ==
  /\ transfer = "send"
  /\ bpc = "done"
  /\ ~host
  /\ Release
  /\ UNCHANGED << userport, last, handle >>

-----------------------------------------------------------------------------
(* The PC gives up on the transfer, or is killed: the firmware goes on for *)
(* the rest of the packet it has, or waits for a packet, or for the status *)
(* of a receive or of a question, that will not come.                      *)
Abandoned ==
  \/ /\ transfer # "none"
     /\ host' = FALSE
     /\ bpc' \in CASE transfer = "send" /\ bpc = "byte" /\ count % Packet = 0
                        -> {"byte", "stuck"}
                   [] transfer = "receive" /\ bpc = "done" -> {"stuck"}
                   [] OTHER -> {bpc}
     /\ UNCHANGED << userport, transfer, bytes, size, count, last, handle >>
  \/ /\ transfer = "none"
     /\ transfer' = "acked"
     /\ bpc' = "stuck"
     /\ host' = FALSE
     /\ UNCHANGED << userport, bytes, size, count, last, handle >>

(* SetupHardware: STROBE is an output before it is high, which the C64 may *)
(* see as a strobe.  For the PC the board is another device from then on.  *)
PowerUp ==
  /\ flag' \in {flag, TRUE}
  /\ input
  /\ pcData' = 255
  /\ last' = pa2
  /\ handle' = FALSE
  /\ Release
  /\ UNCHANGED << pa2, ciaData, ciaDriving >>

(* Mutant of WatchdogReset: waiting for the PC resets the watchdog, too. *)
WatchdogResetMutant == FALSE /\ PowerUp

WatchdogReset == bpc = "stuck" /\ transfer # "none" /\ PowerUp

BoardStep ==
  \/ SendByte \/ SendStrobe \/ SendAcked
  \/ Offered \/ ReceiveByte \/ ReceiveStrobe
  \/ Forget \/ WatchdogReset
=============================================================================
