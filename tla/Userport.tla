------------------------------ MODULE Userport ------------------------------
(***************************************************************************)
(* The cable: the parallel port of the PC on one side, CIA2 of the C64 on  *)
(* the other.  A strobe of the PC is a falling edge on FLAG, which the CIA *)
(* latches until $dd0d is read; the C64 answers by flipping PA2, which the *)
(* PC compares with the level it saw last.  Both ends drive the same eight *)
(* data lines, and nothing but the protocol keeps them from doing so at    *)
(* the same time.                                                          *)
(***************************************************************************)
EXTENDS Protocol

CONSTANT ContentionBytes    \* what may be read while both ends drive the bus

ASSUME ContentionAssumption ==
  ContentionBytes \subseteq Byte /\ ContentionBytes # {}

VARIABLES
  flag,         \* the FLAG bit latched in CIA2's interrupt control register
  pa2,          \* the level of PA2
  pcData,       \* the data register of the parallel port
  pcDriving,    \* its direction bit: is the PC driving the data lines?
  ciaData,      \* CIA2 port B
  ciaDriving    \* its direction register $dd03: all outputs or all inputs

bus == << pcData, pcDriving, ciaData, ciaDriving >>
userport == << flag, pa2, pcData, pcDriving, ciaData, ciaDriving >>

UserportTypeOK ==
  /\ flag \in BOOLEAN
  /\ pa2 \in {0, 1}
  /\ pcData \in Byte
  /\ pcDriving \in BOOLEAN
  /\ ciaData \in Byte
  /\ ciaDriving \in BOOLEAN

UserportInit ==
  /\ flag = FALSE
  /\ pa2 \in {0, 1}
  /\ pcData = 255
  /\ pcDriving = FALSE
  /\ ciaData = 255
  /\ ciaDriving = FALSE

(* Bytes that a read of the data lines can give; they float high. *)
BusValues ==
  CASE pcDriving /\ ciaDriving /\ pcData # ciaData -> ContentionBytes
    [] pcDriving /\ (ciaDriving => pcData = ciaData) -> {pcData}
    [] ~pcDriving /\ ciaDriving -> {ciaData}
    [] OTHER -> {255}

(* driver->strobe(): a second edge before $dd0d is read leaves no trace. *)
strobe == flag' = TRUE

(* The ack macro. *)
ack == pa2' = 1 - pa2

(* The wait macro falls through: FLAG was latched, and reading clears it. *)
TakeFlag == flag /\ flag' = FALSE

(* driver->input() and driver->output(). *)
input  == pcDriving' = FALSE
output == pcDriving' = TRUE
=============================================================================
