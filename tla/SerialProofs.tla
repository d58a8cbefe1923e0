---------------------------- MODULE SerialProofs ----------------------------
(***************************************************************************)
(* The servant64 board and the serial driver do together, byte by byte,    *)
(* what the driver of the parallel port does: with the view of             *)
(* SerialLineProofs, what XLinkProofs proves of the parallel port holds    *)
(* over the serial line, for every size of a write, all requests, memories *)
(* and servers.                                                            *)
(***************************************************************************)
EXTENDS SerialLineProofs

(* While the current call is in step, the line holds what it should, and   *)
(* board and driver stand to the server as the parallel port does.         *)
Standing == Line /\ Naming /\ Port!Together

SerialInv == KindInv /\ (clean => Standing)

(* A step of the parallel port, or one that it would not see. *)
LEMMA Follows ==
  ASSUME Port!Together,
         Port!ClientStep \/ UNCHANGED << At, Sent, Got, Result, last, req, userport >>,
         UNCHANGED << server, done, clean, budget >>
  PROVE  Port!Together'
<1>1. Port!Inv /\ Port!Lines /\ Port!Progress /\ Port!Paired
  BY DEF Port!Together
<1>2. UNCHANGED << Port!server, done, clean, budget >>
  BY DEF Port!server, server
<1>3. CASE Port!ClientStep
  <2>1. Port!ClientProceeds
    BY <1>2, <1>3, Zenon DEF Port!ClientProceeds
  <2>2. [Port!Next]_(Port!vars)
    BY <2>1 DEF Port!Next
  <2>3. Port!Inv'
    BY <1>1, <2>2, Assumptions, Port!StepInv DEF Port!StepInv, Assumed
  <2>4. Port!Lines' /\ Port!Progress'
    BY <1>1, <2>2, Assumptions, Port!StepEnds DEF Port!StepEnds, Assumed
  <2>5. Port!Paired'
    BY <1>2, <1>3, Assumptions, Port!ClientPaired DEF Port!ClientPaired, Assumed
  <2> QED
    BY <2>3, <2>4, <2>5 DEF Port!Together
<1>4. CASE UNCHANGED << At, Sent, Got, Result, last, req, userport >>
  <2>1. UNCHANGED Port!client /\ UNCHANGED Port!userport
    BY <1>4 DEF Port!client, Port!userport, userport
  <2>2. UNCHANGED Port!vars
    BY <1>2, <2>1 DEF Port!vars
  <2>3. Port!Inv'
    BY <1>1, <2>2, Assumptions, Port!StepInv DEF Port!StepInv, Assumed
  <2>4. Port!Lines' /\ Port!Progress'
    BY <1>1, <2>2, Assumptions, Port!StepEnds DEF Port!StepEnds, Assumed
  <2>5. Port!Paired'
    BY <1>1, <1>2, <2>1, Assumptions, Port!Frame DEF Port!Frame, Assumed
  <2> QED
    BY <2>3, <2>4, <2>5 DEF Port!Together
<1> QED
  BY <1>3, <1>4

(* The driver writes on.                                                   *)
LEMMA WritesOnStands ==
  ASSUME KindInv, Standing, WritesOn, UNCHANGED << server, done, clean, budget >>
  PROVE  Line' /\ Naming' /\ Port!Together'
<1>1. CASE PingOutput \/ PingWrite \/ PingStrobe \/ Ask \/ AskAgain
  <2>1. /\ Ahead' = Ahead
        /\ pc \in PingPlaces \ {"answer"} /\ pc' \in PingPlaces \ {"again"}
        /\ UNCHANGED << userport, firmware, tx, req, part, got, initialized, result >>
    BY <1>1, PingRunsAhead
  <2>2. PingLine /\ initialized
    BY <2>1 DEF Standing, Line, PingPlaces
  <2>3. tx = <<>> /\ fpc = "frame"
        /\ Ahead \in {AskFrame, FromStrobe, FromWrite, FromOutput,
                      InputFrame \o FromOutput, InputFrame \o (InputFrame \o FromOutput)}
    BY <2>1, <2>2 DEF PingLine
  <2>4. PingLine'
    BY <2>1, <2>3 DEF PingLine, firmware
  <2>5. Line'
    BY <2>1, <2>2, <2>4 DEF Line, PingPlaces, SendPlaces, ReceivePlaces
  <2>6. ~Found /\ ~Found'
    BY <2>1, <2>3 DEF Found
  <2>7. UNCHANGED << At, Sent, Got, Result >>
    BY <2>1, <2>6, SameView
  <2>8. Port!Together'
    BY <2>1, <2>7, Follows DEF Standing, firmware
  <2>9. Naming'
    BY <2>1 DEF Naming, PingPlaces, ReceivePlaces
  <2> QED
    BY <2>5, <2>8, <2>9
<1>2. CASE Output \/ Send \/ SendData
  <2>1. /\ Ahead' = Ahead
        /\ pc \in SendPlaces \ {"sendReport"} /\ pc' \in SendPlaces
        /\ UNCHANGED << userport, firmware, tx, req, part, got, initialized, result >>
    BY <1>2, SendRunsAhead
  <2>2. SendLine /\ initialized
    BY <2>1 DEF Standing, Line, SendPlaces
  <2>3. /\ FromSend' = FromSend /\ Sending' = Sending
        /\ UNCHANGED << fpc, size, count, tx, part, Ahead, pcData >>
    BY <2>1 DEF FromSend, SendFrame, Sending, firmware, userport
  <2>4. SendLine'
    BY <2>2, <2>3 DEF SendLine
  <2>5. Line'
    BY <2>1, <2>2, <2>4 DEF Line, PingPlaces, SendPlaces, ReceivePlaces
  <2>6. ~Found /\ ~Found'
    BY <2>1 DEF Found, SendPlaces
  <2>7. UNCHANGED << At, Sent, Got, Result >>
    BY <2>1, <2>6, SameView
  <2>8. Port!Together'
    BY <2>1, <2>7, Follows DEF Standing, firmware
  <2>9. Naming'
    BY <2>1 DEF Naming, SendPlaces, ReceivePlaces
  <2> QED
    BY <2>5, <2>8, <2>9
<1>3. CASE Input \/ Turn \/ Receive
  <2>1. /\ Ahead' = Ahead
        /\ pc \in {"input", "turn", "receive"} /\ pc' \in ReceivePlaces
        /\ UNCHANGED << userport, firmware, tx, req, part, got, initialized, result >>
        /\ pc # "receive" => UNCHANGED moved
        /\ Left >= 9
    BY <1>3, ReceiveRunsAhead
  <2>2. pc \in ReceivePlaces
    BY <2>1 DEF ReceivePlaces
  <2>3. ReceiveLine /\ initialized
    BY <2>1, <2>2 DEF Standing, Line, ReceivePlaces
  <2>4. Ahead # <<>>
    BY <2>1 DEF Left
  <2>5. fpc = "frame" /\ tx = <<>>
        /\ \/ Ahead \in {FromInput, FromTurn} /\ part = 1 /\ got = <<>>
           \/ Ahead = ReceiveFrame /\ Len(got) = Prior
    BY <2>3, <2>4 DEF ReceiveLine
  <2>6. /\ FromInput' = FromInput /\ FromTurn' = FromTurn /\ ReceiveFrame' = ReceiveFrame
        /\ Prior' = Prior
        /\ UNCHANGED << fpc, tx, part, Ahead, got >>
    BY <2>1 DEF FromInput, FromTurn, ReceiveFrame, Wanted, Prior, firmware
  <2>7. ReceiveLine'
    BY <2>5, <2>6 DEF ReceiveLine
  <2>8. Line'
    BY <2>1, <2>3, <2>7 DEF Line, PingPlaces, SendPlaces, ReceivePlaces
  <2>9. ~Found /\ ~Found'
    BY <2>1 DEF Found, ReceivePlaces
  <2>10. UNCHANGED << At, Sent, Got, Result >>
    BY <2>1, <2>2, <2>9, SameView
  <2>11. Port!Together'
    BY <2>1, <2>10, Follows DEF Standing, firmware
  <2>12. Naming'
    BY <2>1, <2>2, <2>10 DEF Standing, Naming, Port!Identified
  <2> QED
    BY <2>8, <2>11, <2>12
<1> QED
  BY <1>1, <1>2, <1>3 DEF WritesOn


-----------------------------------------------------------------------------
(* The same by what is ahead, so that it can be said of the next state.    *)
RestSeen ==
  /\ At = (IF pc = "reset" THEN "open" ELSE IF pc = "close" THEN "closeInput" ELSE pc)
  /\ Sent = 0 /\ Got = got /\ Result = result /\ Due = <<>> /\ Ahead = rx

PingSeen ==
  /\ Sent = 0 /\ Got = got /\ got = <<>>
  /\ Found => At = IF req.op = "ping" THEN "closeInput" ELSE "out"
  /\ Found => Result = (req.op = "ping")
  /\ ~Found =>
       /\ Ahead \in {InputFrame \o FromOutput, InputFrame \o (InputFrame \o FromOutput)}
            => At = "open"
       /\ Ahead = FromOutput => At = "pingOut"
       /\ Ahead = FromWrite => At = "pingWrite"
       /\ Ahead = FromStrobe => At = "pingStrobe"
       /\ Ahead \in {AskFrame, <<>>} => At = "pingWait"
       /\ Result = FALSE

SendSeen ==
  /\ Got = got /\ got = <<>>
  /\ fpc = "frame" /\ Ahead = OutputFrame \o FromSend /\ part = 1 =>
       At = "out" /\ Sent = 0 /\ Result = FALSE
  /\ fpc = "frame" /\ Ahead = FromSend =>
       /\ At = IF Base = Whole THEN "closeInput" ELSE "write"
       /\ Sent = Base /\ Result = FALSE
  /\ fpc \in {"sendByte", "sendStrobe", "sendWait"} /\ size = Len(Sending) =>
       /\ At = (IF fpc = "sendByte" THEN "write"
                ELSE IF fpc = "sendStrobe" THEN "strobe" ELSE "wait")
       /\ Sent = Base + count /\ Sent < Whole /\ Result = FALSE
  /\ fpc = "frame" /\ Ahead = <<>> /\ size = Len(Sending) /\ count = size =>
       /\ At = IF Base + size # Whole THEN "write"
               ELSE IF Receives(req) THEN "input" ELSE "closeInput"
       /\ Sent = Base + size
       /\ Result = (Base + size = Whole /\ ~Receives(req)
                    /\ (req.op = "load" => req.data # <<>>))
  /\ fpc = "frame" /\ Ahead = <<>> /\ size = Len(Sending) /\ count + 1 < size =>
       At = "closeInput" /\ Sent = Base + count /\ Result = FALSE

Filled == Len(Got) = Total

ReceiveSeen ==
  /\ Sent = Whole /\ Got = got \o Data
  /\ fpc = "frame" /\ Ahead = FromInput => At = "input" /\ Result = FALSE
  /\ fpc = "frame" /\ Ahead = FromTurn => At = "turn" /\ Result = FALSE
  /\ fpc = "frame" /\ Ahead \in {ReceiveFrame, <<>>} =>
       /\ At = IF Filled THEN "closeInput" ELSE "rwait"
       /\ Result = (Filled /\ req.want # 0 /\ (req.op = "identify" => ~Unidentified(Got)))
  /\ fpc \in {"recvWait", "recvRead", "recvStrobe"} /\ Ahead = <<>> =>
       /\ At = (IF fpc = "recvWait" THEN "rwait"
                ELSE IF fpc = "recvRead" THEN "rread" ELSE "rstrobe")
       /\ Result = FALSE

LEMMA SeesSend ==
  ASSUME KindInv, pc \in SendPlaces
  PROVE  SendSeen
<1>1. /\ At = WhileSending /\ Sent = SentNow /\ Got = got /\ got = <<>> /\ ~result
      /\ AllSent <=> SentNow = Whole
      /\ Result = (AllSent /\ ~Receives(req) /\ (req.op = "load" => req.data # <<>>))
  BY SendView
<1>2. /\ Whole \in Nat /\ Base \in Nat /\ Base + Len(Sending) <= Whole /\ Whole > 0
      /\ Base + Len(Sending) = Whole <=> part = Parts(req) \/ req.data = <<>>
      /\ part = 1 => Base = 0 /\ Len(Sending) > 0
      /\ Sending = <<>> => part = 2 /\ req.op = "load" /\ req.data = <<>>
  BY SendCounts
<1>3. /\ Sending \in Seq(Byte) /\ Len(Sending) \in Nat
      /\ Len(FromSend) = 9 + Len(Sending) /\ Len(OutputFrame \o FromSend) = 18 + Len(Sending)
  BY SendLengths
<1>4. /\ count \in Nat /\ size \in Nat /\ (fpc # "frame" => count < size)
  BY MaxSizeAssumption DEF KindInv, TypeOK, ServantTypeOK, BoardInv, MaxSizeAssumption
<1>5. ASSUME fpc = "frame" /\ Ahead = OutputFrame \o FromSend /\ part = 1
      PROVE  At = "out" /\ Sent = 0 /\ Result = FALSE
  <2>1. Left = 18 + Len(Sending)
    BY <1>3, <1>5 DEF Left
  <2>2. SentNow = 0 /\ ~AllSent
    BY <1>1, <1>2, <1>3, <1>5, <2>1 DEF SentNow, Begun
  <2>3. At = "out"
    BY <1>1, <1>3, <1>5, <2>1, <2>2 DEF WhileSending
  <2> QED
    BY <1>1, <2>2, <2>3
<1>6. ASSUME fpc = "frame" /\ Ahead = FromSend
      PROVE  /\ At = IF Base = Whole THEN "closeInput" ELSE "write"
             /\ Sent = Base /\ Result = FALSE
  <2>1. Left = 9 + Len(Sending)
    BY <1>3, <1>6 DEF Left
  <2>2. SentNow = Base
    BY <1>2, <1>3, <1>6, <2>1 DEF SentNow, Begun
  <2>3. Base = Whole => req.op = "load" /\ req.data = <<>>
    <3>1. Base = Whole => Len(Sending) = 0
      BY <1>2, <1>3
    <3> QED
      BY <1>2, <1>3, <3>1, EmptySeq
  <2>4. At = IF Base = Whole THEN "closeInput" ELSE "write"
    BY <1>1, <1>3, <1>6, <2>1, <2>2, <2>3 DEF WhileSending, Receives
  <2> QED
    BY <1>1, <2>2, <2>3, <2>4
<1>7. ASSUME fpc \in {"sendByte", "sendStrobe", "sendWait"} /\ size = Len(Sending)
      PROVE  /\ At = (IF fpc = "sendByte" THEN "write"
                      ELSE IF fpc = "sendStrobe" THEN "strobe" ELSE "wait")
             /\ Sent = Base + count /\ Sent < Whole /\ Result = FALSE
  <2>1. SentNow = Base + count /\ SentNow < Whole
    BY <1>2, <1>3, <1>4, <1>7 DEF SentNow, Begun
  <2>2. ~AllSent
    BY <1>1, <1>2, <2>1
  <2>3. At = (IF fpc = "sendByte" THEN "write"
              ELSE IF fpc = "sendStrobe" THEN "strobe" ELSE "wait")
    BY <1>1, <1>7, <2>2 DEF WhileSending
  <2> QED
    BY <1>1, <2>1, <2>2, <2>3
<1>8. ASSUME fpc = "frame" /\ Ahead = <<>> /\ size = Len(Sending)
      PROVE  /\ count = size =>
                  /\ At = IF Base + size # Whole THEN "write"
                          ELSE IF Receives(req) THEN "input" ELSE "closeInput"
                  /\ Sent = Base + size
                  /\ Result = (Base + size = Whole /\ ~Receives(req)
                               /\ (req.op = "load" => req.data # <<>>))
             /\ count + 1 < size =>
                  At = "closeInput" /\ Sent = Base + count /\ Result = FALSE
  <2>1. Left = 0
    BY <1>8 DEF Left
  <2>2. SentNow = Base + count
    BY <2>1 DEF SentNow, Begun
  <2>3. ASSUME count = size
        PROVE  /\ At = IF Base + size # Whole THEN "write"
                       ELSE IF Receives(req) THEN "input" ELSE "closeInput"
               /\ Sent = Base + size
               /\ Result = (Base + size = Whole /\ ~Receives(req)
                            /\ (req.op = "load" => req.data # <<>>))
    <3>1. At = IF Base + size # Whole THEN "write"
               ELSE IF Receives(req) THEN "input" ELSE "closeInput"
      BY <1>1, <1>3, <1>8, <2>1, <2>2, <2>3 DEF WhileSending
    <3> QED
      BY <1>1, <2>2, <2>3, <3>1
  <2>4. ASSUME count + 1 < size
        PROVE  At = "closeInput" /\ Sent = Base + count /\ Result = FALSE
    <3>1. SentNow # Whole
      BY <1>2, <1>3, <1>4, <1>8, <2>2, <2>4
    <3>2. count # size
      BY <1>4, <2>4
    <3>3. At = "closeInput"
      BY <1>1, <1>3, <1>8, <2>1, <3>1, <3>2 DEF WhileSending
    <3> QED
      BY <1>1, <2>2, <3>1, <3>3
  <2> QED
    BY <2>3, <2>4
<1> QED
  BY <1>1, <1>5, <1>6, <1>7, <1>8, Zenon DEF SendSeen


LEMMA SeesReceive ==
  ASSUME KindInv, pc \in ReceivePlaces
  PROVE  ReceiveSeen
<1>1. /\ At = WhileReceiving /\ Sent = Whole /\ Got = got \o Data /\ ~result
      /\ AllGot <=> Left <= 9 /\ fpc = "frame" /\ Len(Got) = Total
      /\ Result = (AllGot /\ req.want # 0
                   /\ (req.op = "identify" => ~Unidentified(Got)))
  BY ReceiveView
<1>2. Len(FromInput) = 27 /\ Len(FromTurn) = 18 /\ Len(ReceiveFrame) = 9
  BY ReceiveLengths
<1>3. ASSUME fpc = "frame" /\ Ahead = FromInput
      PROVE  At = "input" /\ Result = FALSE
  <2>1. Left = 27
    BY <1>2, <1>3 DEF Left
  <2>2. ~AllGot
    BY <1>1, <2>1
  <2>3. fpc = "frame" /\ fpc # "recvRead" /\ fpc # "recvStrobe" /\ Left = 27 /\ Left # 18
    BY <1>3, <2>1
  <2>4. WhileReceiving = "input"
    BY <2>2, <2>3 DEF WhileReceiving
  <2>5. Result = FALSE
    BY <1>1, <2>2
  <2> QED
    BY <1>1, <2>4, <2>5
<1>4. ASSUME fpc = "frame" /\ Ahead = FromTurn
      PROVE  At = "turn" /\ Result = FALSE
  <2>1. Left = 18
    BY <1>2, <1>4 DEF Left
  <2>2. ~AllGot
    BY <1>1, <2>1
  <2>3. fpc = "frame" /\ fpc # "recvRead" /\ fpc # "recvStrobe" /\ Left = 18 /\ Left # 27
    BY <1>4, <2>1
  <2>4. WhileReceiving = "turn"
    BY <2>2, <2>3 DEF WhileReceiving
  <2>5. Result = FALSE
    BY <1>1, <2>2
  <2> QED
    BY <1>1, <2>4, <2>5
<1>5. ASSUME fpc = "frame" /\ Ahead \in {ReceiveFrame, <<>>}
      PROVE  /\ At = IF Filled THEN "closeInput" ELSE "rwait"
             /\ Result = (Filled /\ req.want # 0
                          /\ (req.op = "identify" => ~Unidentified(Got)))
  <2>1. Left \in {0, 9}
    BY <1>2, <1>5 DEF Left
  <2>2. AllGot <=> Filled
    BY <1>1, <1>5, <2>1 DEF Filled
  <2>3. At = IF Filled THEN "closeInput" ELSE "rwait"
    BY <1>1, <1>5, <2>1, <2>2 DEF WhileReceiving
  <2> QED
    BY <1>1, <2>2, <2>3
<1>6. ASSUME fpc \in {"recvWait", "recvRead", "recvStrobe"} /\ Ahead = <<>>
      PROVE  /\ At = (IF fpc = "recvWait" THEN "rwait"
                      ELSE IF fpc = "recvRead" THEN "rread" ELSE "rstrobe")
             /\ Result = FALSE
  <2>1. ~AllGot
    BY <1>1, <1>6
  <2> QED
    BY <1>1, <1>6, <2>1 DEF WhileReceiving
<1> QED
  BY <1>1, <1>3, <1>4, <1>5, <1>6, Zenon DEF ReceiveSeen

LEMMA SeesPing ==
  ASSUME KindInv, pc \in PingPlaces
  PROVE  PingSeen
<1>1. /\ Sent = 0 /\ Got = got /\ got = <<>>
      /\ Result = (Found /\ req.op = "ping")
  BY PingView
<1>2. ASSUME Found
      PROVE  At = IF req.op = "ping" THEN "closeInput" ELSE "out"
  BY <1>2, FoundAt
<1>3. ASSUME ~Found
      PROVE  /\ Ahead \in {InputFrame \o FromOutput, InputFrame \o (InputFrame \o FromOutput)}
                  => At = "open"
             /\ Ahead = FromOutput => At = "pingOut"
             /\ Ahead = FromWrite => At = "pingWrite"
             /\ Ahead = FromStrobe => At = "pingStrobe"
             /\ Ahead \in {AskFrame, <<>>} => At = "pingWait"
  BY <1>3, PingAt
<1>4. /\ Found => Result = (req.op = "ping")
      /\ ~Found => Result = FALSE
  BY <1>1
<1> QED
  BY <1>1, <1>2, <1>3, <1>4, Zenon DEF PingSeen

Resting == pc \in {"idle", "open", "reset", "close"}

LEMMA SeesRest ==
  ASSUME KindInv, Resting
  PROVE  RestSeen
<1>1. pc \notin PingPlaces \cup SendPlaces \cup ReceivePlaces
  BY DEF Resting, PingPlaces, SendPlaces, ReceivePlaces
<1>2. /\ At = (IF pc = "reset" THEN "open" ELSE IF pc = "close" THEN "closeInput" ELSE pc)
      /\ Sent = 0 /\ Got = got /\ Result = result /\ Due = <<>> /\ Ahead = rx
  BY <1>1, RestView
<1> QED
  BY <1>2 DEF RestSeen

(* At rest it takes little to stand as the parallel port does. *)
RestingWell ==
  /\ pc \in {"open", "reset"} => Port!Resting
  /\ pc = "close" => Port!Outcome
  /\ pc \in {"idle", "close"} => Port!InStep \/ Port!Stuck

LEMMA RestsTogether ==
  ASSUME KindInv, Resting, RestingWell
  PROVE  Port!Together
<1>1. /\ At = (IF pc = "reset" THEN "open" ELSE IF pc = "close" THEN "closeInput" ELSE pc)
      /\ Sent = 0 /\ Got = got /\ Result = result
  BY SeesRest DEF RestSeen
<1>2. At \in {"idle", "open", "closeInput"}
  BY <1>1 DEF Resting
<1>3. /\ got \in Seq(Byte) /\ result \in BOOLEAN /\ req \in Calls /\ last \in {0, 1}
      /\ clean \in BOOLEAN /\ done \in Nat /\ budget \in 0 .. MaxBudget
      /\ UserportTypeOK /\ ServerTypeOK
      /\ pc # "close" => got = <<>>
      /\ pc \notin {"idle", "close"} => ~result
  BY DEF KindInv, TypeOK, ClientTypeOK, ServantTypeOK, CallInv, Preparing, Resting
<1>4. Port!UserportTypeOK /\ Port!ServerTypeOK /\ Port!Byte = Byte
  BY <1>3, SameCable, SameServer
<1>5. Port!ClientTypeOK
  BY <1>1, <1>2, <1>3, <1>4 DEF Port!ClientTypeOK, Port!ClientPC
<1>6. Port!TypeOK
  BY <1>3, <1>4, <1>5 DEF Port!TypeOK
<1>7. Port!ClientInv
  BY <1>1, <1>2 DEF Port!ClientInv
<1>8. Port!Inv
  BY <1>6, <1>7 DEF Port!Inv, KindInv
<1>9. Port!Lines
  BY <1>2 DEF Port!Lines, KindInv
<1>10. pc # "close" <=> At # "closeInput"
  BY <1>1 DEF Resting
<1>11. At = "open" => ~Result
  BY <1>1, <1>3 DEF Resting
<1>12. Port!Progress
  BY <1>1, <1>2, <1>3, <1>10, <1>11
  DEF Port!Progress, Port!Before, Port!Sending, Port!Receiving, Port!After
<1>13. Port!Paired
  <2>1. /\ At = "open" => pc \in {"open", "reset"}
        /\ At = "closeInput" => pc = "close"
        /\ At = "idle" => pc = "idle"
    BY <1>1 DEF Resting
  <2>2. CASE At = "open"
    BY <2>1, <2>2 DEF RestingWell, Port!Paired, Port!Before, Port!Receiving, Port!After
  <2>3. CASE At = "closeInput"
    BY <2>1, <2>3 DEF RestingWell, Port!Paired, Port!Before, Port!Receiving, Port!After
  <2>4. CASE At = "idle"
    BY <2>1, <2>4 DEF RestingWell, Port!Paired, Port!Before, Port!Receiving, Port!After
  <2> QED
    BY <1>2, <2>2, <2>3, <2>4
<1> QED
  BY <1>8, <1>9, <1>12, <1>13 DEF Port!Together

(* ... and after a step. *)
LEMMA SeenNext ==
  /\ (KindInv /\ Resting => RestSeen)'
  /\ (KindInv /\ pc \in PingPlaces => PingSeen)'
  /\ (KindInv /\ pc \in SendPlaces => SendSeen)'
  /\ (KindInv /\ pc \in ReceivePlaces => ReceiveSeen)'
  /\ (KindInv /\ Resting /\ RestingWell => Port!Together)'
  /\ (KindInv => Due \in Seq(Byte) /\ rx \in Seq(Byte) /\ tx \in Seq(Byte))'
<1>1. KindInv /\ Resting => RestSeen
  BY SeesRest
<1>2. KindInv /\ pc \in PingPlaces => PingSeen
  BY SeesPing
<1>3. KindInv /\ pc \in SendPlaces => SendSeen
  BY SeesSend
<1>4. KindInv /\ pc \in ReceivePlaces => ReceiveSeen
  BY SeesReceive
<1>5. KindInv /\ Resting /\ RestingWell => Port!Together
  BY RestsTogether
<1>6. KindInv => Due \in Seq(Byte) /\ rx \in Seq(Byte) /\ tx \in Seq(Byte)
  BY DueBytes
<1> QED
  BY <1>1, <1>2, <1>3, <1>4, <1>5, <1>6, PTL


-----------------------------------------------------------------------------
(* Steps of the driver between two calls and before a send.                *)
LEMMA RestLasts ==
  ASSUME UNCHANGED << server, flag, pa2, last, req, done >>, pcDriving' => pcDriving
  PROVE  /\ Port!InStep => Port!InStep'
         /\ Port!Stuck => Port!Stuck'
         /\ Port!Resting => Port!Resting'
<1>1. Port!InStep => Port!InStep'
  BY DEF Port!InStep, Port!ServerReady, Port!EndingReply, Port!EndingCommand, Port!LastByte,
     Port!TransferEnd, Port!Listening, Port!Handler, server
<1>2. Port!Stuck => Port!Stuck'
  BY DEF Port!Stuck, Port!Empty, server
<1> QED
  BY <1>1, <1>2 DEF Port!Resting

LEMMA CommandBytes ==
  /\ InputFrame \in Seq(Byte) /\ ResetFrame \in Seq(Byte)
  /\ <<>> \o InputFrame = InputFrame /\ <<>> \o ResetFrame = ResetFrame
  /\ (InputFrame \o InputFrame) \o ResetFrame = InputFrame \o (InputFrame \o ResetFrame)
  /\ <<>> \o FromOutput = FromOutput
  /\ (InputFrame \o InputFrame) \o FromOutput = InputFrame \o (InputFrame \o FromOutput)
<1>1. InputFrame \in Seq(Byte) /\ ResetFrame \in Seq(Byte) /\ FromOutput \in Seq(Byte)
  BY BasicFrames, PingLengths
<1>2. /\ <<>> \o InputFrame = InputFrame /\ <<>> \o ResetFrame = ResetFrame
      /\ <<>> \o FromOutput = FromOutput
  BY <1>1, WholeSeq
<1>3. (InputFrame \o InputFrame) \o ResetFrame = InputFrame \o (InputFrame \o ResetFrame)
  BY <1>1, ConcatAssociative
<1>4. (InputFrame \o InputFrame) \o FromOutput = InputFrame \o (InputFrame \o FromOutput)
  BY <1>1, ConcatAssociative
<1> QED
  BY <1>1, <1>2, <1>3, <1>4

LEMMA OpenStands ==
  ASSUME KindInv, KindInv', Standing, Open, UNCHANGED << server, done, clean, budget >>
  PROVE  Line' /\ Naming' /\ Port!Together'
<1> DEFINE to == IF req.op = "reset" THEN "reset" ELSE "pingOutput"
<1>1. /\ pc = "open" /\ pc' = to /\ rx' = rx \o InputFrame
      /\ tx' = (IF initialized THEN tx ELSE <<>>) /\ initialized' = TRUE
      /\ UNCHANGED << userport, firmware, req, part, got, result >>
  BY DEF Open, Writes
<1>2. fpc = "frame" /\ (initialized => tx = <<>>) /\ rx \in {<<>>, InputFrame}
  BY <1>1 DEF Standing, Line, BetweenCalls
<1>3. tx' = <<>> /\ fpc' = "frame" /\ rx' \in {InputFrame, InputFrame \o InputFrame}
  BY <1>1, <1>2, CommandBytes DEF firmware
<1>4. RestSeen
  BY <1>1, SeesRest DEF Resting
<1>5. At = "open" /\ Sent = 0 /\ Got = got /\ Result = result
  BY <1>1, <1>4 DEF RestSeen
<1>6. Naming'
  BY <1>1 DEF Naming, ReceivePlaces
<1>7. CASE req.op = "reset"
  <2>1. pc' = "reset"
    BY <1>1, <1>7
  <2>2. Line'
    BY <1>1, <1>3, <2>1 DEF Line, BetweenCalls, PingPlaces, SendPlaces, ReceivePlaces
  <2>3. RestSeen'
    BY <2>1, SeenNext DEF Resting
  <2>4. UNCHANGED << At, Sent, Got, Result >>
    BY <1>1, <1>5, <2>1, <2>3 DEF RestSeen
  <2>5. Port!Together'
    BY <1>1, <2>4, Follows DEF Standing, firmware
  <2> QED
    BY <1>6, <2>2, <2>5
<1>8. CASE req.op # "reset"
  <2>1. pc' = "pingOutput"
    BY <1>1, <1>8
  <2>2. Ahead' = rx' \o FromOutput
    BY <2>1 DEF Ahead, Due
  <2>3. Ahead' \in {InputFrame \o FromOutput, InputFrame \o (InputFrame \o FromOutput)}
    BY <1>3, <2>2, CommandBytes
  <2>4. PingLine'
    BY <1>3, <2>1, <2>3 DEF PingLine
  <2>5. Line'
    BY <1>1, <2>1, <2>4 DEF Line, PingPlaces, SendPlaces, ReceivePlaces
  <2>6. PingSeen' /\ ~Found'
    BY <2>1, SeenNext DEF PingPlaces, Found
  <2>7. ~result /\ result \in BOOLEAN
    BY <1>1 DEF KindInv, TypeOK, ClientTypeOK, CallInv
  <2>8. UNCHANGED << At, Sent, Got, Result >>
    BY <1>1, <1>5, <2>3, <2>6, <2>7 DEF PingSeen
  <2>9. Port!Together'
    BY <1>1, <2>8, Follows DEF Standing, firmware
  <2> QED
    BY <1>6, <2>5, <2>9
<1> QED
  BY <1>7, <1>8

LEMMA OpenFailsStands ==
  ASSUME KindInv, KindInv', Standing, OpenFails, UNCHANGED << server, done, clean, budget >>
  PROVE  Line' /\ Naming' /\ Port!Together'
<1>1. /\ pc = "open" /\ pc' = "idle" /\ ~initialized
      /\ UNCHANGED << userport, rx, tx, firmware, req, part, moved, got, initialized, result >>
  BY DEF OpenFails
<1>2. fpc = "frame" /\ rx \in {<<>>, InputFrame}
  BY <1>1 DEF Standing, Line, BetweenCalls
<1>3. Line'
  BY <1>1, <1>2 DEF Line, BetweenCalls, PingPlaces, SendPlaces, ReceivePlaces, firmware
<1>4. RestSeen /\ RestSeen'
  BY <1>1, SeesRest, SeenNext DEF Resting
<1>5. At = "open" /\ At' = "idle" /\ UNCHANGED << Sent, Got, Result >>
  BY <1>1, <1>4 DEF RestSeen
<1>6. Port!OpenFails
  BY <1>1, <1>5 DEF Port!OpenFails, Port!userport, userport, firmware
<1>7. Port!Together'
  BY <1>6, Follows DEF Standing, Port!ClientStep
<1>8. Naming'
  BY <1>1 DEF Naming, ReceivePlaces
<1> QED
  BY <1>3, <1>7, <1>8

LEMMA ResetStands ==
  ASSUME KindInv, KindInv', Standing, Reset, UNCHANGED << server, done, clean, budget >>
  PROVE  Line' /\ Naming' /\ Port!Together'
<1>1. /\ pc = "reset" /\ pc' = "close" /\ rx' = rx \o ResetFrame /\ result' = TRUE
      /\ UNCHANGED << userport, firmware, tx, req, part, got, initialized >>
  BY DEF Reset, Writes, ResetFrame
<1>2. /\ fpc = "frame" /\ (initialized => tx = <<>>)
      /\ rx \in {<<>>, InputFrame, InputFrame \o InputFrame} /\ initialized
  BY <1>1 DEF Standing, Line, BetweenCalls
<1>3. req.op = "reset" /\ got = <<>>
  BY <1>1 DEF KindInv, CallInv, Preparing
<1>4. rx' \in OnceReset
  BY <1>1, <1>2, CommandBytes DEF OnceReset
<1>5. Line'
  BY <1>1, <1>2, <1>3, <1>4
  DEF Line, BetweenCalls, PingPlaces, SendPlaces, ReceivePlaces, firmware
<1>6. RestSeen /\ RestSeen'
  BY <1>1, SeesRest, SeenNext DEF Resting
<1>7. At = "open" /\ Result' = TRUE
  BY <1>1, <1>6 DEF RestSeen
<1>8. Port!Resting
  BY <1>7 DEF Standing, Port!Together, Port!Paired, Port!Before
<1>9. Port!Resting'
  BY <1>1, <1>8, RestLasts DEF userport, firmware
<1>10. Port!Outcome'
  BY <1>1, <1>3, <1>7 DEF Port!Outcome, Port!Achieved
<1>11. RestingWell' /\ Resting'
  BY <1>1, <1>9, <1>10 DEF RestingWell, Resting, Port!Resting
<1>12. Port!Together'
  BY <1>11, SeenNext
<1>13. Naming'
  BY <1>1 DEF Naming, ReceivePlaces
<1> QED
  BY <1>5, <1>12, <1>13

LEMMA CloseStands ==
  ASSUME KindInv, KindInv', Standing, Close, UNCHANGED << server, done, clean, budget >>
  PROVE  Line' /\ Naming' /\ Port!Together'
<1>1. /\ pc = "close" /\ pc' = "idle" /\ rx' = rx \o InputFrame
      /\ UNCHANGED << userport, firmware, tx, req, initialized >>
  BY DEF Close, Writes
<1>2. /\ fpc = "frame" /\ (initialized => tx = <<>>)
      /\ rx = <<>> \/ (req.op = "reset" /\ rx \in OnceReset)
      /\ initialized
  BY <1>1 DEF Standing, Line, BetweenCalls
<1>3. rx' = InputFrame \/ (req.op = "reset" /\ \E f \in OnceReset : rx' = f \o InputFrame)
  BY <1>1, <1>2, CommandBytes
<1>4. Line'
  BY <1>1, <1>2, <1>3
  DEF Line, BetweenCalls, PingPlaces, SendPlaces, ReceivePlaces, firmware
<1>5. RestSeen
  BY <1>1, SeesRest DEF Resting
<1>6. At = "closeInput"
  BY <1>1, <1>5 DEF RestSeen
<1>7. Port!InStep \/ Port!Stuck
  BY <1>6 DEF Standing, Port!Together, Port!Paired, Port!After
<1>8. Port!InStep' \/ Port!Stuck'
  BY <1>1, <1>7, RestLasts DEF userport, firmware
<1>9. RestingWell' /\ Resting'
  BY <1>1, <1>8 DEF RestingWell, Resting
<1>10. Port!Together'
  BY <1>9, SeenNext
<1>11. Naming'
  BY <1>1 DEF Naming, ReceivePlaces
<1> QED
  BY <1>4, <1>10, <1>11

LEMMA AnswerStands ==
  ASSUME KindInv, KindInv', Standing, Answer, UNCHANGED << server, done, clean, budget >>
  PROVE  Line' /\ Naming' /\ Port!Together'
<1>1. /\ pc = "answer" /\ Len(tx) >= 1 /\ tx' = SubSeq(tx, 2, Len(tx))
      /\ UNCHANGED << userport, rx, firmware, req, part, moved, got, initialized >>
  BY DEF Answer, Reads
<1>2. PingLine /\ initialized
  BY <1>1 DEF Standing, Line, PingPlaces
<1>3. tx # <<>>
  BY <1>1
<1>4. fpc = "frame" /\ tx \in {<< Yes >>, << No >>} /\ rx = <<>>
  BY <1>2, <1>3 DEF PingLine
<1>5. tx' = <<>> /\ (tx = << Yes >> => tx[1] = Yes) /\ (tx = << No >> => tx[1] = No)
  BY <1>1, <1>4
<1>6. Yes # No
  BY DEF Yes, No
<1>7. /\ part = 1 /\ got = <<>> /\ ~result /\ result \in BOOLEAN /\ req.op # "reset"
      /\ req \in Calls
  BY <1>1 DEF KindInv, TypeOK, ClientTypeOK, CallInv, Preparing, PingPlaces
<1>8. PingSeen
  BY <1>1, SeesPing DEF PingPlaces
<1>9. CASE tx = << Yes >> /\ req.op = "ping"
  <2>1. pc' = "close" /\ result' = TRUE
    BY <1>5, <1>9 DEF Answer
  <2>2. Line'
    BY <1>1, <1>2, <1>4, <1>5, <2>1
    DEF Line, BetweenCalls, PingPlaces, SendPlaces, ReceivePlaces, firmware
  <2>3. Found
    BY <1>1, <1>9 DEF Found
  <2>4. At = "closeInput" /\ Sent = 0 /\ Got = got /\ Result = TRUE
    BY <1>8, <1>9, <2>3 DEF PingSeen
  <2>5. RestSeen'
    BY <2>1, SeenNext DEF Resting
  <2>6. UNCHANGED << At, Sent, Got, Result >>
    BY <1>1, <2>1, <2>4, <2>5 DEF RestSeen
  <2>7. Port!Together'
    BY <1>1, <2>6, Follows DEF Standing, firmware
  <2>8. Naming'
    BY <2>1 DEF Naming, ReceivePlaces
  <2> QED
    BY <2>2, <2>7, <2>8
<1>10. CASE tx = << Yes >> /\ req.op # "ping"
  <2>1. pc' = "output" /\ result' = result
    BY <1>5, <1>10 DEF Answer
  <2>2. Ahead' = OutputFrame \o FromSend'
    <3>1. Ahead' = <<>> \o Due'
      BY <1>1, <1>4 DEF Ahead
    <3>2. Due' = OutputFrame \o FromSend'
      BY <2>1 DEF Due
    <3>3. Due' \in Seq(Byte)
      BY SeenNext
    <3> QED
      BY <3>1, <3>2, <3>3, WholeSeq
  <2>3. SendLine'
    BY <1>1, <1>4, <1>5, <1>7, <2>2 DEF SendLine, firmware
  <2>4. Line'
    BY <1>1, <1>2, <2>1, <2>3
    DEF Line, BetweenCalls, PingPlaces, SendPlaces, ReceivePlaces
  <2>5. Found
    BY <1>1, <1>10 DEF Found
  <2>6. At = "out" /\ Sent = 0 /\ Got = got /\ Result = FALSE
    BY <1>8, <1>10, <2>5 DEF PingSeen
  <2>7. SendSeen'
    BY <2>1, SeenNext DEF SendPlaces
  <2>8. fpc' = "frame" /\ part' = 1
    BY <1>1, <1>4, <1>7 DEF firmware
  <2>9. At' = "out" /\ Sent' = 0 /\ Result' = FALSE /\ Got' = got'
    BY <2>2, <2>7, <2>8 DEF SendSeen
  <2>10. UNCHANGED << At, Sent, Got, Result >>
    BY <1>1, <2>6, <2>9
  <2>11. Port!Together'
    BY <1>1, <2>10, Follows DEF Standing, firmware
  <2>12. Naming'
    BY <2>1 DEF Naming, ReceivePlaces
  <2> QED
    BY <2>4, <2>11, <2>12
<1>11. CASE tx = << No >>
  <2>1. pc' = "again" /\ result' = result
    BY <1>5, <1>6, <1>11 DEF Answer
  <2>2. Ahead' = AskFrame
    <3>1. Ahead' = <<>> \o AskFrame
      BY <1>1, <1>4, <2>1 DEF Ahead, Due
    <3> QED
      BY <3>1, BasicFrames, WholeSeq
  <2>3. PingLine'
    BY <1>1, <1>4, <1>5, <2>2 DEF PingLine, firmware
  <2>4. Line'
    BY <1>1, <1>2, <2>1, <2>3
    DEF Line, BetweenCalls, PingPlaces, SendPlaces, ReceivePlaces
  <2>5. ~Found /\ ~Found'
    BY <1>6, <1>11, <2>1, <1>5 DEF Found
  <2>6. Ahead = <<>>
    <3>1. Due = <<>>
      BY <1>1 DEF Due
    <3>2. <<>> \in Seq(Byte)
      OBVIOUS
    <3> QED
      BY <1>4, <3>1, <3>2, WholeSeq DEF Ahead
  <2>7. PingSeen'
    BY <2>1, SeenNext DEF PingPlaces
  <2>8. UNCHANGED << At, Sent, Got, Result >>
    BY <1>1, <1>8, <2>2, <2>5, <2>6, <2>7 DEF PingSeen
  <2>9. Port!Together'
    BY <1>1, <2>8, Follows DEF Standing, firmware
  <2>10. Naming'
    BY <2>1 DEF Naming, ReceivePlaces
  <2> QED
    BY <2>4, <2>9, <2>10
<1> QED
  BY <1>4, <1>9, <1>10, <1>11


-----------------------------------------------------------------------------
(* Bytes of a reply, one by one.                                           *)
LEMMA Behead ==
  ASSUME NEW x \in Byte, NEW s \in Seq(Byte)
  PROVE  /\ << x >> \o s \in Seq(Byte) /\ Len(<< x >> \o s) = 1 + Len(s)
         /\ (<< x >> \o s)[1] = x
         /\ SubSeq(<< x >> \o s, 2, Len(<< x >> \o s)) = s
<1> DEFINE c == << x >>
           t == c \o s
<1>1. c \in Seq(Byte) /\ Len(c) = 1 /\ c[1] = x
  OBVIOUS
<1> HIDE DEF c
<1>2. /\ t \in Seq(Byte) /\ Len(t) = Len(c) + Len(s) /\ Len(s) \in Nat
      /\ \A i \in 1 .. Len(c) : t[i] = c[i]
      /\ \A i \in 1 .. Len(s) : t[Len(c) + i] = s[i]
  BY <1>1, Join
<1> HIDE DEF t
<1>3. Len(t) = 1 + Len(s) /\ t[1] = x /\ \A i \in 1 .. Len(s) : t[1 + i] = s[i]
  BY <1>1, <1>2
<1>4. /\ SubSeq(t, 2, Len(t)) \in Seq(Byte)
      /\ Len(SubSeq(t, 2, Len(t))) = IF 2 <= Len(t) THEN Len(t) - 2 + 1 ELSE 0
      /\ \A i \in 1 .. Len(t) - 2 + 1 : SubSeq(t, 2, Len(t))[i] = t[2 + i - 1]
  <2>1. \A i \in 2 .. Len(t) : t[i] \in Byte
    BY <1>2, ElementOfSeq
  <2> QED
    BY <1>2, <1>3, <2>1, SubSeqProperties
<1>5. Len(SubSeq(t, 2, Len(t))) = Len(s)
  BY <1>2, <1>3, <1>4
<1>6. \A i \in 1 .. Len(s) : SubSeq(t, 2, Len(t))[i] = s[i]
  <2> TAKE i \in 1 .. Len(s)
  <2>1. i \in 1 .. Len(t) - 2 + 1 /\ 2 + i - 1 = 1 + i
    BY <1>2, <1>3
  <2>2. SubSeq(t, 2, Len(t))[i] = t[2 + i - 1]
    BY <1>4, <2>1
  <2> QED
    BY <1>3, <2>1, <2>2
<1>7. SubSeq(t, 2, Len(t)) = s
  BY <1>4, <1>5, <1>6, SeqEqual, SMTT(30)
<1> QED
  BY <1>2, <1>3, <1>7 DEF t, c

LEMMA Heads ==
  ASSUME NEW d \in Seq(Byte), d # <<>>
  PROVE  \E x \in Byte, r \in Seq(Byte) : d = << x >> \o r
<1>1. Len(d) \in Nat /\ Len(d) >= 1
  BY EmptySeq
<1>2. d[1] \in Byte
  BY <1>1, ElementOfSeq
<1> DEFINE z == 0
           o == 1
<1>3. z \in Nat /\ o \in Nat /\ z + o <= Len(d) /\ z + 1 = 1 /\ z + o = 1 /\ z + o + 1 = 2
  BY <1>1
<1> HIDE DEF z, o
<1>4. /\ SubSeq(d, 1, 1) \in Seq(Byte)
      /\ SubSeq(d, 2, Len(d)) \in Seq(Byte)
      /\ SubSeq(d, 1, 1) \o SubSeq(d, 2, Len(d)) = SubSeq(d, 1, Len(d))
  <2>1. /\ SubSeq(d, z + 1, z + o) \in Seq(Byte)
        /\ SubSeq(d, z + o + 1, Len(d)) \in Seq(Byte)
        /\ SubSeq(d, z + 1, z + o) \o SubSeq(d, z + o + 1, Len(d)) = SubSeq(d, z + 1, Len(d))
    BY <1>3, Cut
  <2> QED
    BY <1>3, <2>1
<1>5. SubSeq(d, 1, Len(d)) = d
  BY WholeSeq
<1>6. SubSeq(d, 1, 1) = << d[1] >>
  <2>1. /\ Len(SubSeq(d, 1, 1)) = IF 1 <= 1 THEN 1 - 1 + 1 ELSE 0
        /\ \A i \in 1 .. 1 - 1 + 1 : SubSeq(d, 1, 1)[i] = d[1 + i - 1]
    <3>1. \A i \in 1 .. 1 : d[i] \in Byte
      BY <1>2
    <3> QED
      BY <3>1, SubSeqProperties
  <2>2. << d[1] >> \in Seq(Byte) /\ Len(<< d[1] >>) = 1 /\ << d[1] >>[1] = d[1]
    BY <1>2
  <2> DEFINE one == << d[1] >>
  <2> HIDE DEF one
  <2>3. Len(SubSeq(d, 1, 1)) = 1
    BY <2>1
  <2>4. SubSeq(d, 1, 1)[1] = d[1]
    BY <2>1
  <2>5. \A i \in 1 .. 1 : SubSeq(d, 1, 1)[i] = one[i]
    BY <2>2, <2>4 DEF one
  <2>6. one \in Seq(Byte) /\ Len(one) = 1
    BY <2>2 DEF one
  <2>7. SubSeq(d, 1, 1) = one
    BY <1>4, <2>3, <2>5, <2>6, SeqEqual
  <2> QED
    BY <2>7 DEF one
<1> QED
  BY <1>2, <1>4, <1>5, <1>6

LEMMA Front ==
  ASSUME NEW d \in Seq(Byte), NEW w \in Seq(Byte), Len(w) = 4
  PROVE  SubSeq(d \o w, 1, Len(d \o w) - 4) = d
<1> DEFINE t == d \o w
<1>1. t \in Seq(Byte) /\ Len(t) = Len(d) + Len(w) /\ Len(d) \in Nat
      /\ \A i \in 1 .. Len(d) : t[i] = d[i]
  BY Join
<1> HIDE DEF t
<1>2. Len(t) - 4 = Len(d)
  BY <1>1
<1>3. \A i \in 1 .. Len(d) : t[i] \in Byte
  BY <1>1, ElementOfSeq
<1>4. /\ SubSeq(t, 1, Len(d)) \in Seq(Byte)
      /\ Len(SubSeq(t, 1, Len(d))) = IF 1 <= Len(d) THEN Len(d) - 1 + 1 ELSE 0
      /\ \A i \in 1 .. Len(d) - 1 + 1 : SubSeq(t, 1, Len(d))[i] = t[1 + i - 1]
  BY <1>1, <1>3, SubSeqProperties
<1>5. Len(SubSeq(t, 1, Len(d))) = Len(d)
  BY <1>1, <1>4
<1>6. \A i \in 1 .. Len(d) : SubSeq(t, 1, Len(d))[i] = d[i]
  <2> TAKE i \in 1 .. Len(d)
  <2>1. i \in 1 .. Len(d) - 1 + 1 /\ 1 + i - 1 = i
    BY <1>1
  <2> QED
    BY <1>1, <1>4, <2>1
<1>7. SubSeq(t, 1, Len(d)) = d
  BY <1>4, <1>5, <1>6, SeqEqual
<1> QED
  BY <1>2, <1>7 DEF t

LEMMA AppendJoins ==
  ASSUME NEW s \in Seq(Byte), NEW x \in Byte, NEW r \in Seq(Byte)
  PROVE  /\ s \o (<< x >> \o r) = Append(s, x) \o r
         /\ Append(s, x) \in Seq(Byte)
         /\ s \o Append(r, x) = Append(s \o r, x)
<1>1. << x >> \in Seq(Byte) /\ Append(s, x) \in Seq(Byte)
  OBVIOUS
<1>2. Append(s, x) = s \o << x >> /\ Append(r, x) = r \o << x >>
  BY AppendIsConcat
<1>3. s \o r \in Seq(Byte)
  BY Join
<1>4. Append(s \o r, x) = (s \o r) \o << x >>
  BY <1>3, AppendIsConcat
<1>5. s \o (<< x >> \o r) = (s \o << x >>) \o r
  BY <1>1, ConcatAssociative
<1>6. (s \o r) \o << x >> = s \o (r \o << x >>)
  BY <1>1, ConcatAssociative
<1> QED
  BY <1>1, <1>2, <1>4, <1>5, <1>6

(* A report, read back. *)
LEMMA ReportRead ==
  ASSUME NEW n \in Nat, n <= AddressSpace, n <= MaxSize, tx = Wide(n), NEW from, Reads(from, 4)
  PROVE  Reported = n /\ tx' = <<>>
<1>1. Wide(n) \in Seq(Byte) /\ Len(Wide(n)) = 4
  BY WideBytes
<1>2. /\ SubSeq(tx, 1, Len(tx)) = tx
      /\ SubSeq(tx, Len(tx) + 1, Len(tx)) = <<>>
  BY <1>1, WholeSeq
<1>3. Len(tx) = 4 /\ Len(tx) + 1 = 5 /\ 4 + 1 = 5
  BY <1>1
<1>4. tx' = SubSeq(tx, 4 + 1, Len(tx))
  BY DEF Reads
<1>5. tx' = <<>>
  BY <1>2, <1>3, <1>4
<1>6. SubSeq(tx, 1, 4) = Wide(n)
  BY <1>2, <1>3
<1>7. Reported = n
  BY <1>6, NarrowWide DEF Reported
<1> QED
  BY <1>5, <1>7

LEMMA DataBytes ==
  ASSUME KindInv
  PROVE  Data \in Seq(Byte)
<1>1. tx \in Seq(Byte) /\ Len(tx) \in Nat
  BY DueBytes
<1>2. CASE fpc = "frame" /\ Len(tx) >= 4
  <2>1. \A i \in 1 .. Len(tx) - 4 : tx[i] \in Byte
    BY <1>1, <1>2, ElementOfSeq
  <2>2. SubSeq(tx, 1, Len(tx) - 4) \in Seq(Byte)
    BY <1>1, <1>2, <2>1, SubSeqProperties
  <2> QED
    BY <1>2, <2>2 DEF Data
<1>3. CASE ~(fpc = "frame" /\ Len(tx) >= 4)
  BY <1>1, <1>3 DEF Data
<1> QED
  BY <1>2, <1>3

(* The parts of a reply, given that an identification is the server's.     *)
LEMMA ReceiveCounts ==
  ASSUME KindInv, pc \in ReceivePlaces, Naming
  PROVE  /\ got \in Seq(Byte) /\ Data \in Seq(Byte) /\ Got = got \o Data /\ Got \in Seq(Byte)
         /\ Len(Got) = Len(got) + Len(Data) /\ Len(got) \in Nat /\ Len(Data) \in Nat
         /\ Total \in Nat /\ Wanted \in Nat
         /\ Total = 0 <=> req.want = 0
         /\ Got # <<>> => Want(req, Got) = Total /\ ~Port!Nameless
         /\ req.op \in {"save", "peek", "identify"} /\ req \in Calls
         /\ req.op = "identify" => req.want = 10
         /\ pc \in {"receive", "read", "receiveReport"} =>
              /\ Prior + Wanted <= Total
              /\ Prior + Wanted = Total <=> part = Replies(req)
              /\ Prior \in Nat
              /\ Len(got) = Prior + IF pc = "receive" THEN 0 ELSE moved
<1>1. /\ req \in Calls /\ part \in 1 .. 3 /\ Receives(req) /\ got \in Seq(Byte)
      /\ Wanted \in Nat /\ Prior \in Nat /\ Len(got) \in Nat
      /\ part >= 2 => got # <<>> /\ req.op = "identify"
  BY ReceiveLengths
<1>2. req.op \in {"save", "peek", "identify"}
  BY <1>1 DEF Receives
<1>3. req.want \in Nat /\ (req.op = "identify" => req.want = 10)
  BY <1>1, <1>2, RequestFields, RequestSizes
<1>4. Data \in Seq(Byte)
  BY DataBytes
<1>5. Got = got \o Data
  BY DEF Got
<1>6. Got \in Seq(Byte) /\ Len(Got) = Len(got) + Len(Data) /\ Len(Data) \in Nat
      /\ \A i \in 1 .. Len(got) : Got[i] = got[i]
  BY <1>1, <1>4, <1>5, Join
<1>7. Total \in Nat /\ (Total = 0 <=> req.want = 0)
  BY <1>3 DEF Total
<1>8. req.op = "identify" /\ Len(Got) >= 1 => Got[1] = 5
  BY DEF Naming, Port!Identified
<1>9. Got # <<>> => Len(Got) >= 1
  BY <1>6, EmptySeq
<1>10. Got # <<>> => Want(req, Got) = Total /\ ~Port!Nameless
  <2> SUFFICES ASSUME Got # <<>> PROVE Want(req, Got) = Total /\ ~Port!Nameless
    OBVIOUS
  <2>1. CASE req.op = "identify"
    <3>1. Got[1] = 5 /\ 5 % 16 = 5
      BY <1>8, <1>9, <2>1
    <3>2. Got[1] % 16 = 5
      BY <3>1
    <3>3. Want(req, Got) = 15 /\ Total = 15
      BY <1>3, <2>1, <3>2 DEF Want, Total
    <3> QED
      BY <3>2, <3>3 DEF Port!Nameless
  <2>2. CASE req.op # "identify"
    BY <2>2 DEF Want, Total, Port!Nameless
  <2> QED
    BY <2>1, <2>2
<1>11. ASSUME pc \in {"receive", "read", "receiveReport"}
       PROVE  /\ Prior + Wanted <= Total
              /\ Prior + Wanted = Total <=> part = Replies(req)
              /\ Len(got) = Prior + IF pc = "receive" THEN 0 ELSE moved
  <2>1. /\ part <= Replies(req)
        /\ Len(got) = Prior + IF pc = "receive" THEN 0 ELSE moved
    BY <1>11 DEF KindInv, CallInv
  <2>2. CASE req.op # "identify"
    <3>1. part = 1 /\ Prior = 0 /\ Wanted = req.want /\ Total = req.want /\ Replies(req) = 1
      BY <1>1, <2>2 DEF Prior, Wanted, ReplySize, Total, Replies
    <3> QED
      BY <1>3, <2>1, <3>1
  <2>3. CASE req.op = "identify"
    <3>1. Total = 15 /\ Replies(req) = 3
      BY <2>3 DEF Total, Replies
    <3>2. part >= 2 => got[1] % 16 = 5
      <4> SUFFICES ASSUME part >= 2 PROVE got[1] % 16 = 5
        OBVIOUS
      <4>1. Len(got) >= 1
        BY <1>1, EmptySeq
      <4>2. got[1] = Got[1] /\ Len(Got) >= 1
        BY <1>1, <1>6, <4>1
      <4>3. got[1] = 5 /\ 5 % 16 = 5
        BY <1>8, <2>3, <4>2
      <4> QED
        BY <4>3
    <3>3. /\ part = 1 => Prior = 0 /\ Wanted = 1
          /\ part = 2 => Prior = 1 /\ Wanted = 5
          /\ part = 3 => Prior = 6 /\ Wanted = 9
      BY <2>3, <3>2 DEF Prior, Wanted, ReplySize
    <3> QED
      BY <1>1, <2>1, <3>1, <3>3
  <2> QED
    BY <2>2, <2>3
<1> QED
  BY <1>1, <1>2, <1>3, <1>4, <1>5, <1>6, <1>7, <1>10, <1>11


-----------------------------------------------------------------------------
(* The driver reads how many bytes the board has sent.                     *)
LEMMA SendReportStands ==
  ASSUME KindInv, KindInv', Standing, SendReport, UNCHANGED << server, done, clean, budget >>
  PROVE  /\ Line' /\ Naming' /\ Port!Together'
         /\ pc' = "input" => Got' = <<>>
<1>1. /\ pc = "sendReport" /\ Len(tx) >= 4 /\ Reads("sendReport", 4)
      /\ UNCHANGED << userport, rx, firmware, req, moved, got, initialized >>
  BY DEF SendReport, Reads
<1>2. pc \in SendPlaces
  BY <1>1 DEF SendPlaces
<1>3. SendLine /\ initialized
  BY <1>1, <1>2 DEF Standing, Line
<1>4. tx # <<>>
  BY <1>1
<1>5. /\ fpc = "frame" /\ Ahead = <<>> /\ size = Len(Sending)
      /\ \/ count = size /\ tx = Wide(size)
         \/ count + 1 < size /\ tx = Wide(count + 1)
  BY <1>3, <1>4 DEF SendLine
<1>6. rx' = <<>>
  <2>1. rx \in Seq(Byte) /\ Ahead = rx \o Due
    BY DueBytes
  <2>2. Due = <<>>
    BY <1>1 DEF Due
  <2> QED
    BY <1>1, <1>5, <2>1, <2>2, WholeSeq
<1>7. /\ req \in Calls /\ req.op \notin {"ping", "reset"} /\ part \in {1, 2}
      /\ size \in Nat /\ size <= AddressSpace /\ size <= MaxSize
  BY <1>2, <1>5, SendLengths, SendCounts
<1>8. count \in Nat /\ result = FALSE /\ got = <<>>
  BY <1>1, <1>2 DEF KindInv, TypeOK, ServantTypeOK, ClientTypeOK, CallInv
<1>9. SendSeen
  BY <1>2, SeesSend
<1>10. fpc' = "frame" /\ got' = <<>>
  BY <1>1, <1>5, <1>8 DEF firmware
<1>11. At = "closeInput" => Port!Outcome /\ (Port!InStep \/ Port!Stuck)
  BY DEF Standing, Port!Together, Port!Paired, Port!After
<1>12. Port!InStep \/ Port!Stuck => Port!InStep' \/ Port!Stuck'
  BY <1>1, RestLasts DEF userport, firmware
<1>13. CASE count = size /\ tx = Wide(size)
  <2>1. Reported = size /\ tx' = <<>>
    BY <1>1, <1>7, <1>13, ReportRead
  <2>2. /\ At = IF Base + size # Whole THEN "write"
                ELSE IF Receives(req) THEN "input" ELSE "closeInput"
        /\ Sent = Base + size /\ Got = <<>>
        /\ Result = (Base + size = Whole /\ ~Receives(req)
                     /\ (req.op = "load" => req.data # <<>>))
    BY <1>5, <1>8, <1>9, <1>13 DEF SendSeen
  <2>3. /\ Base + size = Whole <=> part = Parts(req) \/ req.data = <<>>
        /\ part < Parts(req) => req.op = "load" /\ part = 1 /\ Base + size = Len(req.header)
    BY <1>2, <1>5, SendCounts
  <2>4. part <= Parts(req) /\ Parts(req) \in Nat
    BY <1>2, SendCounts DEF Parts
  <2>5. CASE part < Parts(req)
    <3>1. pc' = "send" /\ part' = 2 /\ result' = result
      BY <1>5, <2>1, <2>3, <2>5 DEF SendReport
    <3>2. Ahead' = FromSend'
      <4>1. Ahead' = <<>> \o Due' /\ Due' = FromSend'
        BY <1>6, <3>1 DEF Ahead, Due
      <4>2. Due' \in Seq(Byte)
        BY SeenNext
      <4> QED
        BY <4>1, <4>2, WholeSeq
    <3>3. Line'
      BY <1>1, <1>3, <1>10, <2>1, <3>1, <3>2
      DEF Line, SendLine, PingPlaces, SendPlaces, ReceivePlaces
    <3>4. SendSeen'
      BY <3>1, SeenNext DEF SendPlaces
    <3>5. /\ At' = IF Base' = Whole' THEN "closeInput" ELSE "write"
          /\ Sent' = Base' /\ Got' = <<>> /\ Result' = FALSE
      BY <1>10, <3>2, <3>4 DEF SendSeen
    <3>6. Base' = Base + size /\ Whole' = Whole
      BY <1>1, <2>3, <2>5, <3>1 DEF Base, Whole
    <3>7. ~Receives(req) /\ part # Parts(req)
      BY <1>7, <2>3, <2>5 DEF Receives, Parts
    <3>8. UNCHANGED << At, Sent, Got, Result >>
      BY <2>2, <2>3, <2>5, <3>5, <3>6, <3>7
    <3>9. Port!Together'
      BY <1>1, <3>8, Follows DEF Standing, firmware
    <3>10. Naming'
      BY <3>1 DEF Naming, ReceivePlaces
    <3> QED
      BY <3>1, <3>3, <3>9, <3>10
  <2>6. CASE part = Parts(req) /\ Receives(req)
    <3>1. pc' = "input" /\ part' = 1
      <4>1. ~(part < Parts(req)) /\ ~(Reported # Len(Sending))
        BY <1>5, <1>7, <2>1, <2>6, <2>4
      <4> QED
        BY <2>6, <4>1 DEF SendReport
    <3>2. Ahead' = FromInput'
      <4>1. Ahead' = <<>> \o Due' /\ Due' = FromInput'
        BY <1>6, <3>1 DEF Ahead, Due
      <4>2. Due' \in Seq(Byte)
        BY SeenNext
      <4> QED
        BY <4>1, <4>2, WholeSeq
    <3>3. Line'
      BY <1>1, <1>3, <1>10, <2>1, <3>1, <3>2
      DEF Line, ReceiveLine, PingPlaces, SendPlaces, ReceivePlaces
    <3>4. ReceiveSeen'
      BY <3>1, SeenNext DEF ReceivePlaces
    <3>5. At' = "input" /\ Sent' = Whole' /\ Got' = got' \o Data' /\ Result' = FALSE
      BY <1>10, <3>2, <3>4 DEF ReceiveSeen
    <3>6. Data' = <<>>
      BY <2>1 DEF Data
    <3>7. Got' = <<>>
      BY <1>10, <3>5, <3>6
    <3>8. Whole' = Whole
      BY <1>1 DEF Whole
    <3>9. UNCHANGED << At, Sent, Got, Result >>
      BY <2>2, <2>3, <2>6, <3>5, <3>7, <3>8
    <3>10. Port!Together'
      BY <1>1, <3>9, Follows DEF Standing, firmware
    <3>11. Naming'
      BY <3>7 DEF Naming, Port!Identified
    <3> QED
      BY <3>3, <3>7, <3>10, <3>11
  <2>7. CASE part = Parts(req) /\ ~Receives(req)
    <3>1. pc' = "close" /\ result' = TRUE
      <4>1. ~(part < Parts(req)) /\ ~(Reported # Len(Sending))
        BY <1>5, <1>7, <2>1, <2>7, <2>4
      <4> QED
        BY <2>7, <4>1 DEF SendReport
    <3>2. Line'
      BY <1>1, <1>3, <1>6, <1>10, <2>1, <3>1
      DEF Line, BetweenCalls, PingPlaces, SendPlaces, ReceivePlaces
    <3>3. RestSeen'
      BY <3>1, SeenNext DEF Resting
    <3>4. Result' = TRUE /\ Got' = <<>>
      BY <1>10, <3>1, <3>3 DEF RestSeen
    <3>5. At = "closeInput" /\ Result = (req.op = "load" => req.data # <<>>)
      BY <2>2, <2>3, <2>7
    <3>6. req.op \in {"load", "poke", "jump", "run", "inject"}
      BY <1>7, <2>7, RequestFields DEF Receives
    <3>7. req.op = "load" => req.data = req.writes
      BY <1>7, RequestSizes
    <3>8. Port!Achieved'
      <4>1. CASE Result
        BY <1>1, <1>11, <3>5, <3>6, <4>1 DEF Port!Outcome, Port!Achieved
      <4>2. CASE ~Result
        <5>1. req.op = "load" /\ req.writes = <<>> /\ done = 0
          BY <1>11, <3>5, <3>7, <4>2 DEF Port!Outcome
        <5> QED
          BY <1>1, <5>1 DEF Port!Achieved
      <4> QED
        BY <4>1, <4>2
    <3>9. RestingWell' /\ Resting'
      BY <1>11, <1>12, <3>1, <3>4, <3>5, <3>8 DEF RestingWell, Resting, Port!Outcome
    <3>10. Port!Together'
      BY <3>9, SeenNext
    <3>11. Naming'
      BY <3>1 DEF Naming, ReceivePlaces
    <3> QED
      BY <3>1, <3>2, <3>10, <3>11
  <2> QED
    BY <1>7, <2>5, <2>6, <2>7, <2>4
<1>14. CASE count + 1 < size /\ tx = Wide(count + 1)
  <2>1. count + 1 \in Nat /\ count + 1 <= AddressSpace /\ count + 1 <= MaxSize
    BY <1>7, <1>8, <1>14, MaxSizeAssumption DEF AddressSpace
  <2>2. Reported = count + 1 /\ tx' = <<>>
    BY <1>1, <1>14, <2>1, ReportRead
  <2>3. pc' = "close" /\ result' = FALSE
    BY <1>5, <1>7, <1>8, <1>14, <2>2 DEF SendReport
  <2>4. Line'
    BY <1>1, <1>3, <1>6, <1>10, <2>2, <2>3
    DEF Line, BetweenCalls, PingPlaces, SendPlaces, ReceivePlaces
  <2>5. RestSeen'
    BY <2>3, SeenNext DEF Resting
  <2>6. Result' = FALSE /\ Got' = <<>>
    BY <1>10, <2>3, <2>5 DEF RestSeen
  <2>7. At = "closeInput" /\ Result = FALSE
    BY <1>5, <1>9, <1>14 DEF SendSeen
  <2>8. Port!Outcome'
    BY <1>11, <2>6, <2>7 DEF Port!Outcome
  <2>9. RestingWell' /\ Resting'
    BY <1>11, <1>12, <2>3, <2>7, <2>8 DEF RestingWell, Resting
  <2>10. Port!Together'
    BY <2>9, SeenNext
  <2>11. Naming'
    BY <2>3 DEF Naming, ReceivePlaces
  <2> QED
    BY <2>3, <2>4, <2>10, <2>11
<1> QED
  BY <1>5, <1>13, <1>14

-----------------------------------------------------------------------------
(* The driver reads a byte of the reply: it is one that has been on its    *)
(* way and is now there.                                                   *)
LEMMA SameParts ==
  ASSUME KindInv, pc \in ReceivePlaces, NEW x \in Byte, got' = Append(got, x),
         UNCHANGED << req, part >>
  PROVE  Wanted' = Wanted
<1>1. part \in 1 .. 3 /\ got \in Seq(Byte) /\ (part >= 2 => got # <<>>)
  BY ReceiveLengths
<1>2. CASE part = 2
  <2>1. Len(got) >= 1
    BY <1>1, <1>2, EmptySeq
  <2>2. got'[1] = got[1]
    BY <1>1, <2>1
  <2> QED
    BY <1>2, <2>2 DEF Wanted, ReplySize
<1>3. CASE part # 2
  <2>1. part \in {1, 3}
    BY <1>1, <1>3
  <2> QED
    BY <2>1 DEF Wanted, ReplySize
<1> QED
  BY <1>2, <1>3

LEMMA ReadStands ==
  ASSUME KindInv, KindInv', Standing, Read, UNCHANGED << server, done, clean, budget >>
  PROVE  Line' /\ Naming' /\ Port!Together' /\ Got' = Got
<1>1. /\ pc = "read" /\ Len(tx) >= 1 /\ tx' = SubSeq(tx, 2, Len(tx))
      /\ got' = Append(got, tx[1]) /\ moved' = moved + 1
      /\ pc' \in {"read", "receiveReport"}
      /\ UNCHANGED << userport, rx, firmware, req, part, initialized, result >>
  BY DEF Read, Reads
<1>2. pc \in ReceivePlaces /\ pc' \in ReceivePlaces
  BY <1>1 DEF ReceivePlaces
<1>3. ReceiveLine /\ initialized
  BY <1>1, <1>2 DEF Standing, Line
<1>4. tx # <<>>
  BY <1>1
<1>5. \/ /\ fpc \in {"recvWait", "recvRead", "recvStrobe"}
         /\ Ahead = <<>> /\ size = Wanted
         /\ moved + Len(tx) = IF fpc = "recvStrobe" THEN count + 1 ELSE count
      \/ /\ fpc = "frame" /\ Ahead = <<>> /\ size = Wanted
         /\ Len(tx) >= 4 /\ tx = Data \o Wide(size) /\ moved + Len(Data) = size
  BY <1>3, <1>4 DEF ReceiveLine
<1>6. Ahead' = <<>>
  <2>1. Due = <<>> /\ Due' = <<>>
    BY <1>1 DEF Due
  <2> QED
    BY <1>1, <1>5, <2>1 DEF Ahead
<1>7. /\ tx \in Seq(Byte) /\ Data \in Seq(Byte) /\ got \in Seq(Byte) /\ Got = got \o Data
      /\ moved \in Nat /\ size \in Nat /\ count \in Nat
  <2>1. Naming
    BY DEF Standing
  <2>2. Data \in Seq(Byte) /\ got \in Seq(Byte) /\ Got = got \o Data
    BY <1>2, <2>1, ReceiveCounts
  <2>3. tx \in Seq(Byte) /\ moved \in Nat /\ size \in Nat /\ count \in Nat
    BY DEF KindInv, TypeOK, ServantTypeOK, ClientTypeOK
  <2> QED
    BY <2>2, <2>3
<1>8. ReceiveSeen /\ ReceiveSeen'
  BY <1>2, SeesReceive, SeenNext
<1>9. Whole' = Whole /\ Total' = Total
  BY <1>1 DEF Whole, Total
<1>10. ASSUME Got' = Got, ReceiveLine'
       PROVE  Line' /\ Naming' /\ Port!Together'
  <2>1. Line'
    BY <1>1, <1>2, <1>3, <1>10 DEF Line, PingPlaces, SendPlaces, ReceivePlaces
  <2>2. Filled' = Filled
    BY <1>9, <1>10 DEF Filled
  <2>3. fpc' = fpc
    BY <1>1 DEF firmware
  <2>4. At' = At /\ Result' = Result
    <3>1. CASE fpc = "frame"
      BY <1>1, <1>5, <1>6, <1>8, <1>10, <2>2, <2>3, <3>1 DEF ReceiveSeen
    <3>2. CASE fpc # "frame"
      BY <1>5, <1>6, <1>8, <2>3, <3>2 DEF ReceiveSeen
    <3> QED
      BY <3>1, <3>2
  <2>5. Sent' = Sent
    BY <1>8, <1>9 DEF ReceiveSeen
  <2>6. Port!Together'
    BY <1>1, <1>10, <2>4, <2>5, Follows DEF Standing, firmware
  <2>7. Naming'
    BY <1>1, <1>2, <1>10 DEF Standing, Naming, Port!Identified
  <2> QED
    BY <2>1, <2>6, <2>7
<1>11. CASE fpc \in {"recvWait", "recvRead", "recvStrobe"}
  <2>1. PICK x \in Byte, r \in Seq(Byte) : tx = << x >> \o r
    BY <1>4, <1>7, Heads
  <2>2. Len(tx) = 1 + Len(r) /\ tx[1] = x /\ tx' = r /\ Len(r) \in Nat
    BY <1>1, <2>1, Behead
  <2>3. Data = tx /\ Data' = tx'
    BY <1>1, <1>11 DEF Data, firmware
  <2>4. Got' = got' \o Data'
    BY <1>8 DEF ReceiveSeen
  <2>5. Got' = Got
    <3>1. got' = Append(got, x) /\ Got' = got' \o r /\ Got = got \o (<< x >> \o r)
      BY <1>1, <1>7, <2>1, <2>2, <2>3, <2>4
    <3> QED
      BY <1>7, <3>1, AppendJoins
  <2>6. Wanted' = Wanted
    BY <1>1, <1>2, <2>2, SameParts
  <2>7. moved' + Len(tx') = moved + Len(tx)
    <3>1. Len(tx') = Len(r) /\ moved' = moved + 1
      BY <1>1, <2>2
    <3> QED
      BY <1>7, <2>2, <3>1
  <2>8. ReceiveLine'
    BY <1>1, <1>5, <1>6, <1>11, <2>6, <2>7 DEF ReceiveLine, firmware
  <2> QED
    BY <1>10, <2>5, <2>8
<1>12. CASE fpc = "frame"
  <2>1. /\ size = Wanted /\ Len(tx) >= 4
        /\ tx = Data \o Wide(size) /\ moved + Len(Data) = size
    BY <1>5, <1>12
  <2>2. moved < Wanted
    BY <1>1 DEF KindInv, CallInv
  <2>3. Data # <<>>
    BY <1>7, <2>1, <2>2
  <2>4. PICK x \in Byte, r \in Seq(Byte) : Data = << x >> \o r
    BY <1>7, <2>3, Heads
  <2> DEFINE w == Wide(size)
             s == r \o w
  <2>5. w \in Seq(Byte) /\ Len(w) = 4
    BY <1>7, WideBytes
  <2> HIDE DEF w
  <2>6. s \in Seq(Byte) /\ Len(s) = Len(r) + 4 /\ Len(r) \in Nat
    <3>1. s \in Seq(Byte) /\ Len(s) = Len(r) + Len(w) /\ Len(r) \in Nat
      BY <2>5, Join
    <3> QED
      BY <2>5, <3>1
  <2>7. tx = << x >> \o s
    <3>1. << x >> \in Seq(Byte)
      OBVIOUS
    <3>2. tx = (<< x >> \o r) \o w
      BY <2>1, <2>4 DEF w
    <3> QED
      BY <2>5, <3>1, <3>2, ConcatAssociative
  <2> HIDE DEF s
  <2>8. tx[1] = x /\ tx' = s
    BY <1>1, <2>6, <2>7, Behead
  <2>9. Len(Data) = 1 + Len(r)
    BY <2>4, Behead
  <2>10. Data' = r
    <3>1. fpc' = "frame" /\ Len(tx') >= 4
      BY <1>1, <1>12, <2>6, <2>8 DEF firmware
    <3>2. Data' = SubSeq(s, 1, Len(s) - 4)
      BY <2>8, <3>1 DEF Data
    <3> QED
      BY <2>5, <3>2, Front DEF s
  <2>11. Got' = got' \o Data'
    BY <1>8 DEF ReceiveSeen
  <2>12. Got' = Got
    BY <1>1, <1>7, <2>4, <2>8, <2>10, <2>11, AppendJoins, SMTT(30)
  <2>13. Wanted' = Wanted
    BY <1>1, <1>2, <2>8, SameParts
  <2>14. moved' + Len(Data') = size /\ Len(tx') >= 4
    BY <1>1, <1>7, <2>1, <2>6, <2>8, <2>9, <2>10
  <2>15. tx' = Data' \o Wide(size)
    BY <2>8, <2>10 DEF s, w
  <2>16. ReceiveLine'
    BY <1>1, <1>6, <1>12, <2>1, <2>13, <2>14, <2>15 DEF ReceiveLine, firmware
  <2> QED
    BY <1>10, <2>12, <2>16
<1> QED
  BY <1>5, <1>11, <1>12

(* The driver reads the report of a receive.                               *)
LEMMA ReceiveReportStands ==
  ASSUME KindInv, KindInv', Standing, ReceiveReport,
         UNCHANGED << server, done, clean, budget >>
  PROVE  Line' /\ Naming' /\ Port!Together' /\ (pc' = "receive" => Got' = Got)
<1>1. /\ pc = "receiveReport" /\ Len(tx) >= 4 /\ Reads("receiveReport", 4)
      /\ UNCHANGED << userport, rx, firmware, req, moved, got, initialized >>
  BY DEF ReceiveReport, Reads
<1>2. pc \in ReceivePlaces
  BY <1>1 DEF ReceivePlaces
<1>3. ReceiveLine /\ initialized /\ Naming
  BY <1>1, <1>2 DEF Standing, Line
<1>4. tx # <<>> /\ moved = Wanted
  BY <1>1 DEF KindInv, CallInv
<1>5. /\ moved \in Nat /\ size \in Nat /\ count \in Nat /\ tx \in Seq(Byte)
      /\ fpc # "frame" => count < size
  BY DEF KindInv, TypeOK, ServantTypeOK, ClientTypeOK, BoardInv
<1>6. /\ got \in Seq(Byte) /\ Data \in Seq(Byte) /\ Got = got \o Data
      /\ Len(Data) \in Nat /\ Len(got) \in Nat /\ Total \in Nat /\ Wanted \in Nat
      /\ req.op \in {"save", "peek", "identify"} /\ req \in Calls
      /\ Prior + Wanted = Total <=> part = Replies(req)
      /\ Prior \in Nat /\ Len(got) = Prior + moved
      /\ req.op = "identify" => req.want = 10
  BY <1>1, <1>2, <1>3, ReceiveCounts
<1>7. /\ fpc = "frame" /\ Ahead = <<>> /\ size = Wanted
      /\ Len(tx) >= 4 /\ tx = Data \o Wide(size) /\ moved + Len(Data) = size
  BY <1>1, <1>3, <1>4, <1>5 DEF ReceiveLine
<1>8. Data = <<>>
  <2>1. Len(Data) = 0
    BY <1>4, <1>5, <1>6, <1>7
  <2> QED
    BY <1>6, <2>1, EmptySeq
<1>9. tx = Wide(size) /\ Got = got
  <2>1. Wide(size) \in Seq(Byte)
    BY <1>5, WideBytes
  <2> QED
    BY <1>6, <1>7, <1>8, <2>1, WholeSeq
<1>10. size <= AddressSpace /\ size <= MaxSize
  BY <1>2, <1>7, ReceiveLengths
<1>11. Reported = Wanted /\ tx' = <<>>
  BY <1>1, <1>5, <1>7, <1>9, <1>10, ReportRead
<1>12. rx' = <<>>
  <2>1. rx \in Seq(Byte) /\ Ahead = rx \o Due
    BY DueBytes
  <2>2. Due = <<>>
    BY <1>1 DEF Due
  <2> QED
    BY <1>1, <1>7, <2>1, <2>2, WholeSeq
<1>13. ReceiveSeen
  BY <1>2, SeesReceive
<1>14. /\ At = IF Filled THEN "closeInput" ELSE "rwait"
       /\ Result = (Filled /\ req.want # 0 /\ (req.op = "identify" => ~Unidentified(got)))
       /\ Sent = Whole
  BY <1>7, <1>9, <1>13 DEF ReceiveSeen
<1>15. fpc' = "frame" /\ got' = got
  BY <1>1, <1>7 DEF firmware
<1>16. part < Replies(req) \/ part = Replies(req)
  <2>1. part <= Replies(req) /\ part \in 1 .. 3 /\ Replies(req) \in Nat
    BY <1>1 DEF KindInv, TypeOK, ClientTypeOK, CallInv, Replies
  <2> QED
    BY <2>1
<1>17. CASE part < Replies(req)
  <2>1. part # Replies(req)
    BY <1>17 DEF Replies
  <2>2. pc' = "receive" /\ part' = part + 1 /\ result' = result
    BY <1>11, <1>17, <2>1 DEF ReceiveReport
  <2>3. pc' \in ReceivePlaces
    BY <2>2 DEF ReceivePlaces
  <2>4. Ahead' = ReceiveFrame'
    <3>1. Ahead' = <<>> \o Due' /\ Due' = ReceiveFrame'
      BY <1>12, <2>2 DEF Ahead, Due
    <3>2. Due' \in Seq(Byte)
      BY SeenNext
    <3> QED
      BY <3>1, <3>2, WholeSeq
  <2>5. Len(got') = Prior'
    <3>1. Len(got') = Prior' + 0
      BY <2>2 DEF KindInv, CallInv
    <3>2. Prior' \in Nat
      <4>1. part' \in 2 .. 3 /\ req.op = "identify"
        BY <1>16, <1>17, <2>2 DEF Replies, KindInv, TypeOK, ClientTypeOK
      <4>2. got # <<>>
        BY <2>2, <4>1, <1>15 DEF KindInv, CallInv
      <4>3. got[1] \in Byte
        BY <1>6, <4>2, EmptySeq, ElementOfSeq
      <4>4. got[1] % 16 \in Nat
        BY <4>3 DEF Byte
      <4> QED
        BY <1>15, <4>1, <4>4 DEF Prior
    <3>3. \A n \in Nat : n + 0 = n
      OBVIOUS
    <3> QED
      BY <3>1, <3>2, <3>3, Zenon
  <2>6. Line'
    BY <1>1, <1>3, <1>11, <1>15, <2>2, <2>4, <2>5
    DEF Line, ReceiveLine, PingPlaces, SendPlaces, ReceivePlaces
  <2>7. ReceiveSeen'
    BY <2>3, SeenNext
  <2>8. Data' = <<>>
    BY <1>11 DEF Data
  <2>9. Got' = Got
    <3>1. Got' = got' \o Data'
      BY <2>7 DEF ReceiveSeen
    <3> QED
      BY <1>6, <1>8, <1>15, <2>8, <3>1
  <2>10. Whole' = Whole /\ Filled' = Filled
    BY <1>1, <2>9 DEF Whole, Filled, Total
  <2>11. /\ At' = IF Filled' THEN "closeInput" ELSE "rwait"
         /\ Result' = (Filled' /\ req'.want # 0 /\ (req'.op = "identify" => ~Unidentified(Got')))
         /\ Sent' = Whole'
    BY <1>15, <2>4, <2>7 DEF ReceiveSeen
  <2>12. UNCHANGED << At, Sent, Got, Result >>
    BY <1>1, <1>9, <1>14, <2>9, <2>10, <2>11
  <2>13. Port!Together'
    BY <1>1, <2>12, Follows DEF Standing, firmware
  <2>14. Naming'
    BY <1>1, <1>3, <1>2, <2>9 DEF Naming, Port!Identified
  <2> QED
    BY <2>6, <2>9, <2>13, <2>14
<1>18. CASE part = Replies(req)
  <2>1. ~(part < Replies(req))
    BY <1>18 DEF Replies
  <2>2. pc' = "close" /\ result' = (req.op = "identify" => ~Unidentified(got))
    BY <1>11, <1>18, <2>1 DEF ReceiveReport
  <2>3. Line'
    BY <1>1, <1>3, <1>11, <1>12, <1>15, <2>2
    DEF Line, BetweenCalls, PingPlaces, SendPlaces, ReceivePlaces
  <2>4. Filled
    BY <1>4, <1>6, <1>9, <1>18 DEF Filled
  <2>5. At = "closeInput"
    BY <1>14, <2>4
  <2>6. Port!Outcome /\ (Port!InStep \/ Port!Stuck)
    BY <2>5 DEF Standing, Port!Together, Port!Paired, Port!After
  <2>7. Port!InStep' \/ Port!Stuck'
    BY <1>1, <2>6, RestLasts DEF userport, firmware
  <2>8. RestSeen'
    BY <2>2, SeenNext DEF Resting
  <2>9. Result' = result' /\ Got' = Got
    BY <1>9, <1>15, <2>8 DEF RestSeen
  <2>10. Port!Outcome'
    <3>1. CASE req.want # 0
      <4>1. Result' = Result
        BY <1>14, <2>2, <2>4, <2>9, <3>1
      <4> QED
        BY <1>1, <2>6, <2>9, <4>1 DEF Port!Outcome, Port!Achieved
    <3>2. CASE req.want = 0
      <4>1. req.op \in {"save", "peek"} /\ Result = FALSE
        <5>1. req.op # "identify"
          BY <1>6, <3>2
        <5>2. Result = FALSE
          BY <1>14, <3>2
        <5> QED
          BY <1>6, <5>1, <5>2
      <4>2. Result' = TRUE
        BY <2>2, <2>9, <4>1
      <4>3. Got = <<>>
        BY <2>6, <4>1 DEF Port!Outcome
      <4>4. Len(Got') = req.want
        BY <2>9, <3>2, <4>3
      <4> QED
        BY <1>1, <4>1, <4>2, <4>4 DEF Port!Outcome, Port!Achieved
    <3> QED
      BY <3>1, <3>2
  <2>11. RestingWell' /\ Resting'
    BY <2>2, <2>7, <2>10 DEF RestingWell, Resting
  <2>12. Port!Together'
    BY <2>11, SeenNext
  <2>13. Naming'
    BY <2>2 DEF Naming, ReceivePlaces
  <2> QED
    BY <2>2, <2>3, <2>12, <2>13
<1> QED
  BY <1>16, <1>17, <1>18

-----------------------------------------------------------------------------
(* Steps of the board.  What the driver has yet to write stays; ...        *)
LEMMA ClientKept ==
  ASSUME UNCHANGED client
  PROVE  /\ UNCHANGED << pc, req, part, moved, got, initialized, result >>
         /\ Sending' = Sending /\ Wanted' = Wanted
         /\ FromSend' = FromSend /\ FromInput' = FromInput /\ FromTurn' = FromTurn
         /\ ReceiveFrame' = ReceiveFrame
         /\ Due' = Due
         /\ Whole' = Whole /\ Base' = Base /\ Total' = Total /\ Prior' = Prior
<1>1. UNCHANGED << pc, req, part, moved, got, initialized, result >>
  BY DEF client
<1>2. Sending' = Sending /\ Wanted' = Wanted
  BY <1>1 DEF Sending, Wanted
<1>3. /\ FromSend' = FromSend /\ ReceiveFrame' = ReceiveFrame
  BY <1>2 DEF FromSend, SendFrame, ReceiveFrame
<1>4. FromTurn' = FromTurn /\ FromInput' = FromInput
  BY <1>3 DEF FromTurn, FromInput
<1>5. Due' = Due
  BY <1>1, <1>2, <1>3, <1>4 DEF Due
<1>6. Whole' = Whole /\ Base' = Base /\ Total' = Total /\ Prior' = Prior
  BY <1>1 DEF Whole, Base, Total, Prior
<1> QED
  BY <1>1, <1>2, <1>3, <1>4, <1>5, <1>6

(* ... and where the data register does not matter, it takes little to     *)
(* stand as the parallel port does.                                        *)
Released ==
  /\ At \in {"open", "pingOut", "turn"}
  /\ Sent = (IF At = "turn" THEN Whole ELSE 0)
  /\ Got = <<>> /\ Result = FALSE /\ req.op # "reset"
  /\ At # "open" => ~pcDriving
  /\ At = "turn" => Receives(req)
  /\ Port!Paired

LEMMA Assembles ==
  ASSUME KindInv, Released
  PROVE  Port!Together
<1>1. /\ req \in Calls /\ last \in {0, 1}
      /\ clean \in BOOLEAN /\ done \in Nat /\ budget \in 0 .. MaxBudget
      /\ UserportTypeOK /\ ServerTypeOK
  BY DEF KindInv, TypeOK, ClientTypeOK, ServantTypeOK
<1>2. Port!UserportTypeOK /\ Port!ServerTypeOK /\ Port!Byte = Byte
  BY <1>1, SameCable, SameServer
<1>3. Whole \in Nat
  <2>1. req.header \in Seq(Byte) /\ req.data \in Seq(Byte)
    BY <1>1, RequestFields
  <2>2. req.header \o req.data \in Seq(Byte)
    BY <2>1, Join
  <2>3. Len(req.header \o req.data) \in Nat
    BY <2>2, \A s \in Seq(Byte) : Len(s) \in Nat, Zenon
  <2> QED
    BY <2>3 DEF Whole, Out
<1>4. Sent \in Nat /\ Got \in Seq(Byte) /\ Result \in BOOLEAN
  <2>1. Sent = Whole \/ Sent = 0
    BY DEF Released
  <2>2. Got = <<>> /\ Result = FALSE
    BY DEF Released
  <2>3. 0 \in Nat /\ <<>> \in Seq(Byte) /\ FALSE \in BOOLEAN
    OBVIOUS
  <2> QED
    BY <1>3, <2>1, <2>2, <2>3, Zenon
<1>5. Port!ClientTypeOK
  BY <1>1, <1>2, <1>4 DEF Port!ClientTypeOK, Port!ClientPC, Released
<1>6. Port!TypeOK
  BY <1>1, <1>2, <1>5 DEF Port!TypeOK
<1>7. Port!ClientInv
  BY DEF Port!ClientInv, Released
<1>8. Port!Inv
  BY <1>6, <1>7 DEF Port!Inv, KindInv
<1>9. Port!Lines
  BY DEF Port!Lines, KindInv, Released
<1>10. Port!Progress
  BY DEF Port!Progress, Port!Before, Port!Sending, Port!Receiving, Port!After, Released, Whole,
     Port!Receives, Receives, Port!Out, Out
<1> QED
  BY <1>8, <1>9, <1>10 DEF Port!Together, Released

LEMMA AssemblesNext == (KindInv /\ Released => Port!Together)'
<1>1. KindInv /\ Released => Port!Together
  BY Assembles
<1> QED
  BY <1>1, PTL

(* Between two calls the board finds at most that it is to release the     *)
(* lines, or to reset the C64.                                             *)
RestsOn(r) ==
  /\ pc = "idle" => \/ r \in {<<>>, InputFrame}
                    \/ req.op = "reset" /\ \E f \in OnceReset : r = f \o InputFrame
  /\ pc = "open" => r \in {<<>>, InputFrame}
  /\ pc = "reset" => r \in {<<>>, InputFrame, InputFrame \o InputFrame}
  /\ pc = "close" => r = <<>> \/ (req.op = "reset" /\ r \in OnceReset)

LEMMA RestCommand ==
  ASSUME KindInv, Line, Resting
  PROVE  /\ fpc = "frame" /\ (initialized => tx = <<>>) /\ Ahead = rx
         /\ \/ rx = <<>>
            \/ \E r \in Seq(Byte) : rx = ResetFrame \o r
            \/ \E r \in Seq(Byte) : rx = InputFrame \o r /\ RestsOn(r)
<1>1. fpc = "frame" /\ (initialized => tx = <<>>) /\ RestsOn(rx)
  BY DEF Line, BetweenCalls, Resting, RestsOn
<1>2. Ahead = rx
  BY SeesRest DEF RestSeen
<1>3. /\ InputFrame \in Seq(Byte) /\ ResetFrame \in Seq(Byte) /\ <<>> \in Seq(Byte)
      /\ InputFrame \o <<>> = InputFrame /\ ResetFrame \o <<>> = ResetFrame
      /\ InputFrame \o ResetFrame \in Seq(Byte)
      /\ ResetFrame \o InputFrame \in Seq(Byte)
      /\ (InputFrame \o ResetFrame) \o InputFrame \in Seq(Byte)
  BY BasicFrames, WholeSeq, Join
<1>4. /\ (InputFrame \o ResetFrame) \o InputFrame = InputFrame \o (ResetFrame \o InputFrame)
      /\ (InputFrame \o (InputFrame \o ResetFrame)) \o InputFrame
           = InputFrame \o ((InputFrame \o ResetFrame) \o InputFrame)
  BY <1>3, ConcatAssociative
<1>5. pc \in {"idle", "open", "reset", "close"}
  BY DEF Resting
<1>6. CASE pc = "idle"
  <2>1. \/ rx = <<>> \/ rx = InputFrame
        \/ req.op = "reset" /\ \/ rx = ResetFrame \o InputFrame
                               \/ rx = (InputFrame \o ResetFrame) \o InputFrame
                               \/ rx = (InputFrame \o (InputFrame \o ResetFrame)) \o InputFrame
    BY <1>1, <1>6 DEF RestsOn, OnceReset
  <2>2. RestsOn(<<>>)
    BY <1>6 DEF RestsOn
  <2>3. req.op = "reset" => /\ RestsOn(ResetFrame \o InputFrame)
                            /\ RestsOn((InputFrame \o ResetFrame) \o InputFrame)
    BY <1>6 DEF RestsOn, OnceReset
  <2>4. CASE rx = <<>>
    BY <1>1, <1>2, <2>4
  <2>5. CASE rx = InputFrame
    BY <1>1, <1>2, <1>3, <2>2, <2>5
  <2>6. CASE req.op = "reset" /\ rx = ResetFrame \o InputFrame
    BY <1>1, <1>2, <1>3, <2>6
  <2>7. CASE req.op = "reset" /\ rx = (InputFrame \o ResetFrame) \o InputFrame
    BY <1>1, <1>2, <1>3, <1>4, <2>3, <2>7
  <2>8. CASE req.op = "reset" /\ rx = (InputFrame \o (InputFrame \o ResetFrame)) \o InputFrame
    BY <1>1, <1>2, <1>3, <1>4, <2>3, <2>8
  <2> QED
    BY <2>1, <2>4, <2>5, <2>6, <2>7, <2>8
<1>7. CASE pc = "open"
  <2>1. rx \in {<<>>, InputFrame} /\ RestsOn(<<>>)
    BY <1>1, <1>7 DEF RestsOn
  <2> QED
    BY <1>1, <1>2, <1>3, <2>1
<1>8. CASE pc = "reset"
  <2>1. /\ rx \in {<<>>, InputFrame, InputFrame \o InputFrame}
        /\ RestsOn(<<>>) /\ RestsOn(InputFrame)
    BY <1>1, <1>8 DEF RestsOn
  <2> QED
    BY <1>1, <1>2, <1>3, <2>1
<1>9. CASE pc = "close"
  <2>1. \/ rx = <<>>
        \/ req.op = "reset" /\ \/ rx = ResetFrame \/ rx = InputFrame \o ResetFrame
                               \/ rx = InputFrame \o (InputFrame \o ResetFrame)
    BY <1>1, <1>9 DEF RestsOn, OnceReset
  <2>2. req.op = "reset" => RestsOn(ResetFrame) /\ RestsOn(InputFrame \o ResetFrame)
    BY <1>9 DEF RestsOn, OnceReset
  <2> QED
    BY <1>1, <1>2, <1>3, <2>1, <2>2
<1> QED
  BY <1>5, <1>6, <1>7, <1>8, <1>9

-----------------------------------------------------------------------------
(* The board does what the next command says, and nothing without one.     *)
LEMMA FirstCommand ==
  ASSUME KindInv, NEW f \in Seq(Byte), Len(f) = 9, NEW r \in Seq(Byte), Ahead = f \o r,
         fpc = "frame", FwStep, Due' = Due
  PROVE  /\ Ahead' = r /\ rx[2] = f[2] /\ SubSeq(rx, 2, 5) = SubSeq(f, 2, 5)
         /\ Len(rx) >= 9
         /\ f[1] # CMD_RESET
         /\ f[1] = CMD_STROBE => FwStrobe
         /\ f[1] = CMD_ACKED => FwAcked
         /\ f[1] = CMD_INPUT => FwInput
         /\ f[1] = CMD_OUTPUT => FwOutput
         /\ f[1] = CMD_WRITE => FwWrite
         /\ f[1] = CMD_SEND => FwSend
         /\ f[1] = CMD_RECEIVE => FwReceive
<1>1. \/ FwStrobe \/ FwAcked \/ FwInput \/ FwOutput \/ FwRead \/ FwWrite \/ FwUnknown
      \/ FwSend \/ FwReceive
  BY DEF FwStep, FwSendByte, FwSendStrobe, FwSent, FwOffered, FwRecvRead, FwRecvStrobe
<1>2. /\ FwStrobe => Takes(CMD_STROBE)
      /\ FwAcked => Takes(CMD_ACKED)
      /\ FwInput => Takes(CMD_INPUT)
      /\ FwOutput => Takes(CMD_OUTPUT)
      /\ FwRead => Takes(CMD_READ)
      /\ FwWrite => Takes(CMD_WRITE)
      /\ FwUnknown => Takes(rx[1]) /\ rx[1] \notin CMD_RESET .. CMD_RECEIVE
      /\ FwSend => Takes(CMD_SEND)
      /\ FwReceive => Takes(CMD_RECEIVE)
  BY Zenon DEF FwStrobe, FwAcked, FwInput, FwOutput, FwRead, FwWrite, FwUnknown, FwSend,
     FwReceive, FwTransfer
<1>3. ASSUME NEW cmd, Takes(cmd)
      PROVE  /\ cmd = f[1] /\ rx[1] = cmd /\ Ahead' = r /\ rx[2] = f[2]
             /\ SubSeq(rx, 2, 5) = SubSeq(f, 2, 5) /\ Len(rx) >= 9
  <2>1. rx[1] = cmd
    BY <1>3 DEF Takes
  <2> QED
    BY <1>3, <2>1, NextFrame
<1>4. rx[1] = f[1] /\ Ahead' = r /\ rx[2] = f[2] /\ SubSeq(rx, 2, 5) = SubSeq(f, 2, 5)
      /\ Len(rx) >= 9
  BY <1>1, <1>2, <1>3
<1>5. /\ FwStrobe => f[1] = CMD_STROBE
      /\ FwAcked => f[1] = CMD_ACKED
      /\ FwInput => f[1] = CMD_INPUT
      /\ FwOutput => f[1] = CMD_OUTPUT
      /\ FwRead => f[1] = CMD_READ
      /\ FwWrite => f[1] = CMD_WRITE
      /\ FwUnknown => f[1] \notin CMD_RESET .. CMD_RECEIVE
      /\ FwSend => f[1] = CMD_SEND
      /\ FwReceive => f[1] = CMD_RECEIVE
  BY <1>2, <1>3, <1>4
<1>6. /\ f[1] # CMD_RESET
      /\ f[1] = CMD_STROBE => FwStrobe
      /\ f[1] = CMD_ACKED => FwAcked
      /\ f[1] = CMD_INPUT => FwInput
      /\ f[1] = CMD_OUTPUT => FwOutput
      /\ f[1] = CMD_WRITE => FwWrite
      /\ f[1] = CMD_SEND => FwSend
      /\ f[1] = CMD_RECEIVE => FwReceive
  BY <1>1, <1>5 DEF CMD_RESET, CMD_STROBE, CMD_ACKED, CMD_INPUT, CMD_OUTPUT, CMD_READ,
     CMD_WRITE, CMD_SEND, CMD_RECEIVE
<1> QED
  BY <1>4, <1>6

LEMMA NoCommand ==
  ASSUME KindInv, Left < 9, fpc = "frame", FwStep
  PROVE  FALSE
<1>1. \/ FwStrobe \/ FwAcked \/ FwInput \/ FwOutput \/ FwRead \/ FwWrite \/ FwUnknown
      \/ FwSend \/ FwReceive
  BY DEF FwStep, FwSendByte, FwSendStrobe, FwSent, FwOffered, FwRecvRead, FwRecvStrobe
<1>2. \E cmd : Takes(cmd)
  BY <1>1 DEF FwStrobe, FwAcked, FwInput, FwOutput, FwRead, FwWrite, FwUnknown, FwSend,
     FwReceive, FwTransfer
<1> QED
  BY <1>2, NoFrame

(* Between two calls the board releases the lines.                         *)
LEMMA RestFirmwareStands ==
  ASSUME KindInv, KindInv', Standing, Resting, FwStep,
         UNCHANGED << client, server, done, clean, budget >>
  PROVE  Line' /\ Naming' /\ Port!Together'
<1>1. /\ fpc = "frame" /\ (initialized => tx = <<>>) /\ Ahead = rx
      /\ \/ rx = <<>>
         \/ \E r \in Seq(Byte) : rx = ResetFrame \o r
         \/ \E r \in Seq(Byte) : rx = InputFrame \o r /\ RestsOn(r)
  BY RestCommand DEF Standing
<1>2. Due' = Due /\ UNCHANGED << pc, req, part, got, initialized, result >>
  BY ClientKept
<1>3. rx # <<>>
  <2>1. rx = <<>> => Left < 9
    BY <1>1 DEF Left
  <2> QED
    BY <1>1, <2>1, NoCommand
<1>4. ~ \E r \in Seq(Byte) : rx = ResetFrame \o r
  BY <1>1, <1>2, BasicFrames, FirstCommand
<1>5. PICK r \in Seq(Byte) : rx = InputFrame \o r /\ RestsOn(r)
  BY <1>1, <1>3, <1>4
<1>6. FwInput /\ Ahead' = r
  BY <1>1, <1>2, <1>5, BasicFrames, FirstCommand
<1>7. /\ pcDriving' = FALSE
      /\ UNCHANGED << flag, pa2, ciaData, ciaDriving, tx, firmware >>
  BY <1>6 DEF FwInput, input
<1>8. Resting' /\ RestSeen'
  <2>1. Resting'
    BY <1>2 DEF Resting
  <2> QED
    BY <2>1, SeenNext
<1>9. rx' = r
  BY <1>6, <1>8 DEF RestSeen
<1>10. Line'
  <2>1. RestsOn(r) /\ UNCHANGED << pc, req, initialized, fpc, tx >>
    BY <1>2, <1>5, <1>7 DEF firmware
  <2>2. /\ BetweenCalls'
        /\ pc \notin {"idle", "open"} => initialized
    BY <1>1, <1>7, <2>1 DEF BetweenCalls, Standing, Line
  <2>3. pc' \notin PingPlaces \cup SendPlaces \cup ReceivePlaces
    BY <1>8 DEF Resting, PingPlaces, SendPlaces, ReceivePlaces
  <2> QED
    BY <1>9, <2>1, <2>2, <2>3 DEF Line, RestsOn
<1>11. Naming'
  BY <1>8 DEF Naming, Resting, ReceivePlaces
<1>12. RestSeen
  BY SeesRest
<1>13. /\ pc \in {"open", "reset"} => Port!Resting
       /\ pc = "close" => Port!Outcome
       /\ pc \in {"idle", "close"} => Port!InStep \/ Port!Stuck
  BY <1>12 DEF RestSeen, Standing, Port!Together, Port!Paired, Port!Before, Port!After
<1>14. /\ Port!InStep => Port!InStep'
       /\ Port!Stuck => Port!Stuck'
       /\ Port!Resting => Port!Resting'
  BY <1>2, <1>7, RestLasts DEF firmware
<1>15. Port!Outcome => Port!Outcome'
  <2>1. UNCHANGED << Result, Got, req, done >>
    BY <1>2, <1>8, <1>12 DEF RestSeen
  <2> QED
    BY <2>1 DEF Port!Outcome, Port!Achieved
<1>16. RestingWell'
  BY <1>2, <1>13, <1>14, <1>15 DEF RestingWell
<1> QED
  BY <1>8, <1>10, <1>11, <1>16, SeenNext

-----------------------------------------------------------------------------
(* The board pings the server.                                             *)
LEMMA PingFirmwareStands ==
  ASSUME KindInv, KindInv', Standing, pc \in PingPlaces, FwStep,
         UNCHANGED << client, server, done, clean, budget >>
  PROVE  Line' /\ Naming' /\ Port!Together'
<1>1. PingLine /\ initialized /\ fpc = "frame"
  BY DEF Standing, Line, PingLine, PingPlaces
<1>2. Due' = Due /\ UNCHANGED << pc, req, part, got, initialized, result >>
  BY ClientKept
<1>3. tx = <<>> /\ Ahead \in {AskFrame, FromStrobe, FromWrite, FromOutput,
                              InputFrame \o FromOutput,
                              InputFrame \o (InputFrame \o FromOutput)}
  <2>1. ASSUME rx = <<>>, pc = "answer" PROVE FALSE
    <3>1. Due = <<>>
      BY <2>1 DEF Due
    <3>2. Left = 0
      BY <2>1, <3>1, DueBytes
    <3>3. Left < 9
      BY <3>2
    <3> QED
      BY <1>1, <3>3, NoCommand
  <2> QED
    BY <1>1, <2>1 DEF PingLine
<1>4. ~Found /\ Yes # No
  BY <1>3 DEF Found, Yes, No
<1>5. PingSeen /\ PingSeen' /\ pc' \in PingPlaces
  BY <1>2, SeesPing, SeenNext
<1>6. /\ req \in Calls /\ req.op # "reset" /\ got = <<>>
  BY PingView
<1>7. Sent = 0 /\ Got = got /\ Result = FALSE /\ Sent' = 0 /\ Got' = got
  BY <1>2, <1>4, <1>5 DEF PingSeen
<1>8. Naming'
  BY <1>2 DEF Naming, PingPlaces, ReceivePlaces
<1>9. ASSUME Len(rx) >= 9, UNCHANGED << fpc, tx >>,
             Ahead' \in {AskFrame, FromStrobe, FromWrite, FromOutput,
                         InputFrame \o FromOutput}
      PROVE  Line' /\ ~Found' /\ Result' = FALSE
  <2>1. rx # <<>>
    BY <1>9
  <2>2. pc # "again"
    BY <1>1, <1>3, <2>1 DEF PingLine
  <2>3. PingLine'
    BY <1>1, <1>2, <1>3, <1>9, <2>2 DEF PingLine
  <2>4. Line'
    BY <1>1, <1>2, <2>3 DEF Line, PingPlaces, SendPlaces, ReceivePlaces
  <2>5. ~Found'
    BY <1>3, <1>9 DEF Found
  <2> QED
    BY <1>5, <2>4, <2>5 DEF PingSeen
<1>10. ASSUME NEW r \in {FromOutput, InputFrame \o FromOutput}, Ahead = InputFrame \o r
       PROVE  Line' /\ Port!Together'
  <2>1. FwInput /\ Ahead' = r /\ Len(rx) >= 9
    BY <1>1, <1>2, <1>10, BasicFrames, PingLengths, FirstCommand, ZenonT(60)
  <2>2. pcDriving' = FALSE /\ UNCHANGED << flag, pa2, ciaData, ciaDriving, tx, firmware >>
    BY <2>1 DEF FwInput, input
  <2>3. Line' /\ ~Found' /\ Result' = FALSE
    BY <1>9, <1>10, <2>1, <2>2 DEF firmware
  <2>4. At = "open"
    BY <1>4, <1>5, <1>10 DEF PingSeen
  <2>5. At' \in {"open", "pingOut"}
    BY <1>5, <1>10, <2>1, <2>3 DEF PingSeen
  <2>6. Port!Resting
    BY <2>4 DEF Standing, Port!Together, Port!Paired, Port!Before
  <2>7. Port!Resting'
    BY <1>2, <2>2, <2>6, RestLasts DEF firmware
  <2>8. Port!Paired'
    BY <2>5, <2>7 DEF Port!Paired, Port!Before, Port!Receiving, Port!After
  <2>9. Released'
    BY <1>2, <1>6, <1>7, <2>2, <2>3, <2>5, <2>8 DEF Released
  <2> QED
    BY <2>3, <2>9, AssemblesNext
<1>11. CASE Ahead = FromOutput
  <2>1. FwOutput /\ Ahead' = FromWrite /\ Len(rx) >= 9
    BY <1>1, <1>2, <1>11, BasicFrames, PingLengths, FirstCommand DEF FromOutput
  <2>2. pcDriving' = TRUE /\ UNCHANGED << flag, pa2, pcData, ciaData, ciaDriving, tx, firmware >>
    BY <2>1 DEF FwOutput, output
  <2>3. Line' /\ ~Found' /\ Result' = FALSE
    BY <1>9, <2>1, <2>2 DEF firmware
  <2>4. At = "pingOut" /\ At' = "pingWrite"
    BY <1>4, <1>5, <1>11, <2>1, <2>3 DEF PingSeen
  <2>5. Port!PingOutput
    BY <1>2, <1>7, <2>2, <2>3, <2>4 DEF Port!PingOutput, Port!output, firmware
  <2>6. Port!Together'
    BY <2>5, Follows DEF Port!ClientStep, Standing
  <2> QED
    BY <1>8, <2>3, <2>6
<1>12. CASE Ahead = FromWrite
  <2>1. FwWrite /\ Ahead' = FromStrobe /\ Len(rx) >= 9 /\ rx[2] = PingFrame[2]
    BY <1>1, <1>2, <1>12, BasicFrames, PingLengths, FirstCommand DEF FromWrite
  <2>2. pcData' = PingCmd
        /\ UNCHANGED << flag, pa2, pcDriving, ciaData, ciaDriving, tx, firmware >>
    BY <2>1, BasicFrames DEF FwWrite
  <2>3. Line' /\ ~Found' /\ Result' = FALSE
    BY <1>9, <2>1, <2>2 DEF firmware
  <2>4. At = "pingWrite" /\ At' = "pingStrobe"
    BY <1>4, <1>5, <1>12, <2>1, <2>3 DEF PingSeen
  <2>5. Port!PingWrite
    BY <1>2, <1>7, <2>2, <2>3, <2>4 DEF Port!PingWrite, Port!PingCmd, PingCmd, firmware
  <2>6. Port!Together'
    BY <2>5, Follows DEF Port!ClientStep, Standing
  <2> QED
    BY <1>8, <2>3, <2>6
<1>13. CASE Ahead = FromStrobe
  <2>1. FwStrobe /\ Ahead' = AskFrame /\ Len(rx) >= 9
    BY <1>1, <1>2, <1>13, BasicFrames, PingLengths, FirstCommand DEF FromStrobe
  <2>2. flag' = TRUE /\ UNCHANGED << pa2, bus, tx, firmware >>
    BY <2>1 DEF FwStrobe, strobe
  <2>3. Line' /\ ~Found' /\ Result' = FALSE
    BY <1>9, <2>1, <2>2 DEF firmware
  <2>4. At = "pingStrobe" /\ At' = "pingWait"
    BY <1>4, <1>5, <1>13, <2>1, <2>3 DEF PingSeen
  <2>5. Port!PingStrobe
    BY <1>2, <1>7, <2>2, <2>3, <2>4 DEF Port!PingStrobe, Port!strobe, Port!bus, bus, firmware
  <2>6. Port!Together'
    BY <2>5, Follows DEF Port!ClientStep, Standing
  <2> QED
    BY <1>8, <2>3, <2>6
<1>14. CASE Ahead = AskFrame
  <2>1. AskFrame = AskFrame \o <<>> /\ <<>> \in Seq(Byte)
    BY BasicFrames, WholeSeq
  <2>2. FwAcked /\ Ahead' = <<>> /\ Len(rx) >= 9
    BY <1>1, <1>2, <1>14, <2>1, BasicFrames, FirstCommand
  <2>3. /\ tx' = << IF last # pa2 THEN Yes ELSE No >> /\ last' = pa2
        /\ UNCHANGED << userport, fpc, size, timed, count >>
    BY <1>3, <2>2 DEF FwAcked
  <2>4. pc # "again" /\ rx # <<>>
    BY <1>1, <1>3, <2>2 DEF PingLine
  <2>5. Due = <<>> /\ rx' = <<>>
    <3>1. Due' \in Seq(Byte) /\ rx' \in Seq(Byte)
      BY SeenNext
    <3>2. rx' \o Due' = <<>>
      BY <2>2 DEF Ahead
    <3> QED
      BY <1>2, <3>1, <3>2
  <2>6. pc = "answer"
    <3>1. FromOutput # <<>> /\ FromWrite # <<>> /\ FromStrobe # <<>> /\ AskFrame # <<>>
      BY BasicFrames, PingLengths
    <3> QED
      BY <2>5, <3>1 DEF Due, PingPlaces
  <2>7. PingLine'
    BY <1>1, <1>2, <2>3, <2>5, <2>6 DEF PingLine
  <2>8. Line'
    BY <1>1, <1>2, <2>7 DEF Line, PingPlaces, SendPlaces, ReceivePlaces
  <2>9. At = "pingWait"
    BY <1>4, <1>5, <1>14 DEF PingSeen
  <2>10. CASE last # pa2
    <3>1. Found'
      BY <1>2, <2>3, <2>6, <2>10 DEF Found
    <3>2. /\ At' = IF req.op = "ping" THEN "closeInput" ELSE "out"
          /\ Result' = (req.op = "ping")
      BY <1>2, <1>5, <3>1 DEF PingSeen
    <3>3. Port!PingAnswered
      BY <1>2, <1>7, <2>3, <2>9, <2>10, <3>2
      DEF Port!PingAnswered, Port!Acknowledged, Port!userport, userport
    <3>4. Port!Together'
      BY <3>3, Follows DEF Port!ClientStep, Standing
    <3> QED
      BY <1>8, <2>8, <3>4
  <2>11. CASE last = pa2
    <3>1. << No >> # << Yes >>
      BY <1>4
    <3>2. ~Found'
      BY <2>3, <2>11, <3>1 DEF Found
    <3>3. At' = "pingWait" /\ Result' = FALSE
      BY <1>5, <2>2, <3>2 DEF PingSeen
    <3>4. UNCHANGED << At, Sent, Got, Result, last, req, userport >>
      BY <1>2, <1>7, <2>3, <2>9, <2>11, <3>3
    <3>5. Port!Together'
      BY <3>4, Follows DEF Standing
    <3> QED
      BY <1>8, <2>8, <3>5
  <2> QED
    BY <2>10, <2>11
<1> QED
  BY <1>3, <1>8, <1>10, <1>11, <1>12, <1>13, <1>14

-----------------------------------------------------------------------------
(* The bytes of a send, one by one.                                        *)
LEMMA Heading ==
  ASSUME NEW x \in Byte, NEW y \in Byte, NEW a \in Seq(Byte), NEW b \in Seq(Byte),
         << x >> \o a = << y >> \o b
  PROVE  x = y /\ a = b
<1>1. /\ (<< x >> \o a)[1] = x /\ (<< y >> \o b)[1] = y
      /\ SubSeq(<< x >> \o a, 2, Len(<< x >> \o a)) = a
      /\ SubSeq(<< y >> \o b, 2, Len(<< y >> \o b)) = b
  BY Behead
<1> QED
  BY <1>1, Zenon

LEMMA NextSent ==
  ASSUME NEW s \in Seq(Byte), NEW n \in Nat, n < Len(s)
  PROVE  /\ s[n + 1] \in Byte /\ SubSeq(s, n + 2, Len(s)) \in Seq(Byte)
         /\ SubSeq(s, n + 1, Len(s)) = << s[n + 1] >> \o SubSeq(s, n + 2, Len(s))
<1> DEFINE o == 1
<1>1. o \in Nat /\ n + o <= Len(s) /\ n + o = n + 1 /\ n + o + 1 = n + 2 /\ Len(s) \in Nat
      /\ n + 1 \in 1 .. Len(s) /\ n + 1 - (n + 1) + 1 = 1
  OBVIOUS
<1> HIDE DEF o
<1>2. s[n + 1] \in Byte
  BY <1>1, ElementOfSeq
<1>3. /\ SubSeq(s, n + 1, n + 1) \in Seq(Byte)
      /\ SubSeq(s, n + 2, Len(s)) \in Seq(Byte)
      /\ SubSeq(s, n + 1, n + 1) \o SubSeq(s, n + 2, Len(s)) = SubSeq(s, n + 1, Len(s))
  <2>1. /\ SubSeq(s, n + 1, n + o) \in Seq(Byte)
        /\ SubSeq(s, n + o + 1, Len(s)) \in Seq(Byte)
        /\ SubSeq(s, n + 1, n + o) \o SubSeq(s, n + o + 1, Len(s)) = SubSeq(s, n + 1, Len(s))
    BY <1>1, Cut
  <2> QED
    BY <1>1, <2>1
<1>4. SubSeq(s, n + 1, n + 1) = << s[n + 1] >>
  <2> DEFINE part1 == SubSeq(s, n + 1, n + 1)
             one == << s[n + 1] >>
  <2>1. /\ Len(part1) = IF n + 1 <= n + 1 THEN n + 1 - (n + 1) + 1 ELSE 0
        /\ \A i \in 1 .. n + 1 - (n + 1) + 1 : part1[i] = s[n + 1 + i - 1]
    <3>1. \A i \in n + 1 .. n + 1 : s[i] \in Byte
      BY <1>2
    <3> QED
      BY <3>1, SubSeqProperties
  <2>2. Len(part1) = 1 /\ part1[1] = s[n + 1]
    BY <2>1
  <2>3. one \in Seq(Byte) /\ Len(one) = 1 /\ one[1] = s[n + 1]
    BY <1>2
  <2>4. part1 \in Seq(Byte)
    BY <1>3
  <2> HIDE DEF part1, one
  <2>5. \A i \in 1 .. 1 : part1[i] = one[i]
    BY <2>2, <2>3
  <2>6. part1 = one
    BY <2>2, <2>3, <2>4, <2>5, SeqEqual
  <2> QED
    BY <2>6 DEF part1, one
<1> QED
  BY <1>2, <1>3, <1>4

LEMMA HeadAndTail ==
  ASSUME NEW s \in Seq(Byte), s # <<>>
  PROVE  Head(s) \in Byte /\ Tail(s) \in Seq(Byte) /\ s = << Head(s) >> \o Tail(s)
<1>1. PICK x \in Byte, r \in Seq(Byte) : s = << x >> \o r
  BY Heads
<1>2. s[1] = x /\ SubSeq(s, 2, Len(s)) = r
  BY <1>1, Behead
<1>3. Head(s) = s[1] /\ Tail(s) = SubSeq(s, 2, Len(s))
  <2>1. Head(s) = s[1]
    OBVIOUS
  <2>2. Tail(s) = SubSeq(s, 2, Len(s))
    BY TailIsSubSeq
  <2> QED
    BY <2>1, <2>2
<1> QED
  BY <1>1, <1>2, <1>3

(* The board sends to the server.                                          *)
LEMMA SendFirmwareStands ==
  ASSUME KindInv, KindInv', Standing, pc \in SendPlaces, FwStep,
         UNCHANGED << client, server, done, clean, budget >>
  PROVE  Line' /\ Naming' /\ Port!Together'
<1>1. SendLine /\ initialized
  BY DEF Standing, Line, SendPlaces
<1>2. /\ Due' = Due /\ UNCHANGED << pc, req, part, got, initialized, result >>
      /\ Sending' = Sending /\ FromSend' = FromSend /\ Base' = Base /\ Whole' = Whole
  BY ClientKept
<1>3. pc' \in SendPlaces /\ SendSeen /\ SendSeen'
  BY <1>2, SeesSend, SeenNext
<1>4. /\ req \in Calls /\ req.op \notin {"ping", "reset"}
      /\ Sending \in Seq(Byte) /\ Len(Sending) \in Nat
      /\ Len(Sending) <= AddressSpace /\ Len(Sending) <= MaxSize
      /\ SendFrame \in Seq(Byte) /\ Len(SendFrame) = 9 /\ SendFrame[1] = CMD_SEND
      /\ SubSeq(SendFrame, 2, 5) = Wide(Len(Sending))
      /\ FromSend \in Seq(Byte)
  BY SendLengths
<1>5. /\ Whole \in Nat /\ Base \in Nat /\ Base + Len(Sending) <= Whole /\ Whole > 0
      /\ Base + Len(Sending) = Whole <=> part = Parts(req) \/ req.data = <<>>
      /\ part = 1 => Base = 0 /\ Len(Sending) > 0
      /\ \A i \in 1 .. Len(Sending) : Out(req)[Base + i] = Sending[i]
      /\ Sending = <<>> => part = 2 /\ req.op = "load" /\ req.data = <<>>
  BY SendCounts
<1>6. /\ rx \in Seq(Byte) /\ Due \in Seq(Byte) /\ Ahead = rx \o Due /\ rx' \in Seq(Byte)
      /\ Ahead' = rx' \o Due
  BY <1>2, DueBytes, SeenNext DEF Ahead
<1>7. /\ count \in Nat /\ size \in Nat
      /\ fpc # "frame" => count < size
      /\ last \in {0, 1} /\ pa2 \in {0, 1}
  BY DEF KindInv, TypeOK, ServantTypeOK, BoardInv, UserportTypeOK
<1>8. Got = <<>> /\ Got' = <<>>
  BY <1>3 DEF SendSeen
<1>9. SendLine' => Line' /\ Naming'
  BY <1>1, <1>2 DEF Line, Naming, PingPlaces, SendPlaces, ReceivePlaces
<1>10. CASE fpc = "frame" /\ tx = <<>> /\ Ahead = OutputFrame \o FromSend /\ part = 1
  <2>1. FwOutput /\ Ahead' = FromSend
    BY <1>2, <1>4, <1>10, BasicFrames, FirstCommand
  <2>2. pcDriving' = TRUE /\ UNCHANGED << flag, pa2, pcData, ciaData, ciaDriving, tx, firmware >>
    BY <2>1 DEF FwOutput, output
  <2>3. fpc' = "frame" /\ tx' = <<>>
    BY <1>10, <2>2 DEF firmware
  <2>4. SendLine'
    BY <1>2, <2>1, <2>3 DEF SendLine
  <2>5. At = "out" /\ Sent = 0 /\ Result = FALSE
    BY <1>3, <1>10 DEF SendSeen
  <2>6. At' = "write" /\ Sent' = 0 /\ Result' = FALSE
    <3>1. Base' # Whole' /\ Base' = 0
      BY <1>2, <1>5, <1>10
    <3> QED
      BY <1>2, <1>3, <2>1, <2>3, <3>1 DEF SendSeen
  <2>7. Port!Output
    BY <1>2, <1>8, <2>2, <2>5, <2>6 DEF Port!Output, Port!output, firmware
  <2>8. Port!Together'
    BY <2>7, Follows DEF Port!ClientStep, Standing
  <2> QED
    BY <1>9, <2>4, <2>8
<1>11. CASE fpc = "frame" /\ tx = <<>> /\ Ahead = FromSend
  <2>1. FwSend /\ Ahead' = Sending /\ SubSeq(rx, 2, 5) = Wide(Len(Sending))
    <3>1. Ahead = SendFrame \o Sending /\ CMD_SEND # CMD_STROBE
      BY <1>11 DEF FromSend, CMD_SEND, CMD_STROBE
    <3> QED
      BY <1>2, <1>4, <1>11, <3>1, FirstCommand
  <2>2. Narrow(SubSeq(rx, 2, 5)) = Len(Sending)
    BY <1>4, <2>1, NarrowWide
  <2>3. /\ size' = Len(Sending) /\ count' = 0
        /\ IF Len(Sending) = 0 THEN tx' = tx \o Wide(0) /\ fpc' = fpc
                               ELSE fpc' = "sendByte" /\ tx' = tx
        /\ UNCHANGED << userport, last >>
    BY <2>1, <2>2 DEF FwSend, FwTransfer
  <2>4. /\ At = IF Base = Whole THEN "closeInput" ELSE "write"
        /\ Sent = Base /\ Result = FALSE
    BY <1>3, <1>11 DEF SendSeen
  <2>5. CASE Len(Sending) = 0
    <3>1. fpc' = "frame" /\ tx' = Wide(0) /\ size' = Len(Sending') /\ count' = size' /\ size' = 0
      <4>1. Wide(0) \in Seq(Byte)
        BY WideBytes
      <4>2. <<>> \o Wide(0) = Wide(0)
        BY <4>1, WholeSeq
      <4> QED
        BY <1>2, <1>11, <2>3, <2>5, <4>2
    <3>2. Sending = <<>>
      BY <1>4, <2>5, EmptySeq
    <3>3. Ahead' = <<>>
      BY <2>1, <3>2
    <3>4. SendLine'
      BY <3>1, <3>3 DEF SendLine
    <3>5. Base = Whole /\ ~Receives(req) /\ req.op = "load" /\ req.data = <<>>
      BY <1>5, <2>5, <3>2 DEF Receives
    <3>6. Base' + size' = Whole'
      BY <1>2, <1>5, <3>1, <3>5
    <3>7. At' = "closeInput" /\ Sent' = Base /\ Result' = FALSE
      <4>1. /\ At' = IF Base' + size' # Whole' THEN "write"
                     ELSE IF Receives(req') THEN "input" ELSE "closeInput"
            /\ Sent' = Base' + size'
            /\ Result' = (Base' + size' = Whole' /\ ~Receives(req')
                          /\ (req'.op = "load" => req'.data # <<>>))
        BY <1>3, <3>1, <3>3 DEF SendSeen
      <4> QED
        BY <1>2, <3>5, <3>6, <4>1
    <3>8. UNCHANGED << At, Sent, Got, Result, last, req, userport >>
      BY <1>2, <1>8, <2>3, <2>4, <3>5, <3>7
    <3>9. Port!Together'
      BY <3>8, Follows DEF Standing
    <3> QED
      BY <1>9, <3>4, <3>9
  <2>6. CASE Len(Sending) # 0
    <3>1. fpc' = "sendByte" /\ tx' = <<>> /\ size' = Len(Sending') /\ count' = 0
      BY <1>2, <1>11, <2>3, <2>6
    <3>2. Ahead' = SubSeq(Sending', count' + 1, size')
      <4>1. SubSeq(Sending, 1, Len(Sending)) = Sending /\ 0 + 1 = 1
        BY <1>4, WholeSeq
      <4> QED
        BY <1>2, <2>1, <3>1, <4>1
    <3>3. SendLine'
      BY <3>1, <3>2 DEF SendLine
    <3>4. Base # Whole
      BY <1>4, <1>5, <2>6
    <3>5. At' = "write" /\ Sent' = Base' + count' /\ Result' = FALSE
      BY <1>3, <3>1 DEF SendSeen
    <3>6. Sent' = Base
      BY <1>2, <1>5, <3>1, <3>5
    <3>7. UNCHANGED << At, Sent, Got, Result, last, req, userport >>
      BY <1>2, <1>8, <2>3, <2>4, <3>4, <3>5, <3>6
    <3>8. Port!Together'
      BY <3>7, Follows DEF Standing
    <3> QED
      BY <1>9, <3>3, <3>8
  <2> QED
    BY <2>5, <2>6
<1>12. CASE /\ fpc = "sendByte" /\ tx = <<>>
            /\ size = Len(Sending) /\ Ahead = SubSeq(Sending, count + 1, size)
  <2>1. FwSendByte
    BY <1>12 DEF FwStep, FwStrobe, FwAcked, FwInput, FwOutput, FwRead, FwWrite, FwUnknown,
       FwSend, FwReceive, FwTransfer, Takes, FwSendStrobe, FwSent, FwOffered, FwRecvRead,
       FwRecvStrobe
  <2>2. /\ rx # <<>> /\ pcData' = Head(rx) /\ rx' = Tail(rx) /\ fpc' = "sendStrobe"
        /\ UNCHANGED << flag, pa2, pcDriving, ciaData, ciaDriving, tx, size, timed, count, last >>
    BY <2>1 DEF FwSendByte
  <2>3. Head(rx) \in Byte /\ Tail(rx) \in Seq(Byte) /\ rx = << Head(rx) >> \o Tail(rx)
    BY <1>6, <2>2, HeadAndTail
  <2>4. Ahead = << Head(rx) >> \o (Tail(rx) \o Due)
    <3>1. << Head(rx) >> \in Seq(Byte)
      BY <2>3
    <3>2. (<< Head(rx) >> \o Tail(rx)) \o Due = << Head(rx) >> \o (Tail(rx) \o Due)
      BY <1>6, <2>3, <3>1, ConcatAssociative
    <3> QED
      BY <1>6, <2>3, <3>2
  <2>5. count < Len(Sending)
    BY <1>7, <1>12
  <2>6. /\ Sending[count + 1] \in Byte /\ SubSeq(Sending, count + 2, size) \in Seq(Byte)
        /\ Ahead = << Sending[count + 1] >> \o SubSeq(Sending, count + 2, size)
    BY <1>4, <1>7, <1>12, <2>5, NextSent
  <2>7. Head(rx) = Sending[count + 1] /\ Tail(rx) \o Due = SubSeq(Sending, count + 2, size)
    <3>1. Tail(rx) \o Due \in Seq(Byte)
      BY <1>6, <2>3, Join
    <3>2. << Head(rx) >> \o (Tail(rx) \o Due)
            = << Sending[count + 1] >> \o SubSeq(Sending, count + 2, size)
      BY <2>4, <2>6
    <3> DEFINE d == Tail(rx) \o Due
               e == SubSeq(Sending, count + 2, size)
               x == Head(rx)
               y == Sending[count + 1]
    <3>3. x \in Byte /\ y \in Byte /\ d \in Seq(Byte) /\ e \in Seq(Byte)
          /\ << x >> \o d = << y >> \o e
      BY <2>3, <2>6, <3>1, <3>2
    <3> HIDE DEF d, e, x, y
    <3>4. x = y /\ d = e
      BY <3>3, Heading
    <3> QED
      BY <3>4 DEF d, e, x, y
  <2>8. SendLine'
    BY <1>2, <1>6, <1>12, <2>2, <2>7 DEF SendLine
  <2>9. At = "write" /\ Sent = Base + count /\ Result = FALSE
    BY <1>3, <1>12 DEF SendSeen
  <2>10. At' = "strobe" /\ Sent' = Base + count /\ Result' = FALSE
    BY <1>2, <1>3, <1>12, <2>2 DEF SendSeen
  <2>11. pcData' = Out(req)[Sent + 1]
    <3>1. count + 1 \in 1 .. Len(Sending)
      BY <1>4, <1>7, <2>5
    <3>2. Out(req)[Base + (count + 1)] = Sending[count + 1]
      BY <1>5, <3>1
    <3>3. Base + (count + 1) = Sent + 1
      BY <1>5, <1>7, <2>9
    <3> QED
      BY <2>2, <2>7, <3>2, <3>3
  <2>12. Port!Write
    BY <1>2, <1>8, <2>2, <2>9, <2>10, <2>11 DEF Port!Write, Port!Out, Out
  <2>13. Port!Together'
    BY <2>12, Follows DEF Port!ClientStep, Standing
  <2> QED
    BY <1>9, <2>8, <2>13
<1>13. CASE /\ fpc \in {"sendStrobe", "sendWait"} /\ tx = <<>>
            /\ size = Len(Sending) /\ Ahead = SubSeq(Sending, count + 2, size)
            /\ pcData = Sending[count + 1]
  <2>1. At = (IF fpc = "sendStrobe" THEN "strobe" ELSE "wait")
        /\ Sent = Base + count /\ Result = FALSE
    BY <1>3, <1>13 DEF SendSeen
  <2>2. CASE fpc = "sendStrobe"
    <3>1. FwSendStrobe
      BY <2>2 DEF FwStep, FwStrobe, FwAcked, FwInput, FwOutput, FwRead, FwWrite, FwUnknown,
         FwSend, FwReceive, FwTransfer, Takes, FwSendByte, FwSent, FwOffered, FwRecvRead,
         FwRecvStrobe
    <3>2. flag' = TRUE /\ fpc' = "sendWait"
          /\ UNCHANGED << pa2, bus, rx, tx, size, timed, count, last >>
      BY <3>1 DEF FwSendStrobe, strobe
    <3>3. SendLine'
      BY <1>2, <1>6, <1>13, <3>2 DEF SendLine, bus
    <3>4. At' = "wait" /\ Sent' = Base + count /\ Result' = FALSE
      BY <1>2, <1>3, <1>13, <3>2 DEF SendSeen
    <3>5. Port!Strobe
      BY <1>2, <1>8, <2>1, <2>2, <3>2, <3>4 DEF Port!Strobe, Port!strobe, Port!bus, bus
    <3>6. Port!Together'
      BY <3>5, Follows DEF Port!ClientStep, Standing
    <3> QED
      BY <1>9, <3>3, <3>6
  <2>3. CASE fpc = "sendWait"
    <3>1. FwSent
      BY <2>3 DEF FwStep, FwStrobe, FwAcked, FwInput, FwOutput, FwRead, FwWrite, FwUnknown,
         FwSend, FwReceive, FwTransfer, Takes, FwSendByte, FwSendStrobe, FwOffered, FwRecvRead,
         FwRecvStrobe
    <3>2. /\ pa2 # last /\ last' = pa2 /\ count' = count + 1
          /\ IF count + 1 = size THEN tx' = tx \o Wide(size) /\ fpc' = "frame"
                                 ELSE fpc' = "sendByte" /\ tx' = tx
          /\ UNCHANGED << userport, rx, size, timed >>
      BY <3>1 DEF FwSent, Answered
    <3>3. Ahead' = Ahead /\ At = "wait"
      BY <1>6, <2>1, <2>3, <3>2
    <3>4. CASE count + 1 = size
      <4>1. fpc' = "frame" /\ tx' = Wide(size') /\ size' = Len(Sending') /\ count' = size'
        <5>1. Wide(size) \in Seq(Byte)
          BY <1>7, WideBytes
        <5>2. <<>> \o Wide(size) = Wide(size)
          BY <5>1, WholeSeq
        <5> QED
          BY <1>2, <1>13, <3>2, <3>4, <5>2
      <4>2. Ahead' = <<>>
        <5>1. count + 2 = Len(Sending) + 1
          BY <1>7, <1>13, <3>4
        <5>2. SubSeq(Sending, Len(Sending) + 1, Len(Sending)) = <<>>
          BY <1>4, WholeSeq
        <5> QED
          BY <1>13, <3>3, <5>1, <5>2
      <4>3. SendLine'
        BY <4>1, <4>2 DEF SendLine
      <4>4. /\ At' = IF Base' + size' # Whole' THEN "write"
                     ELSE IF Receives(req') THEN "input" ELSE "closeInput"
            /\ Sent' = Base' + size'
            /\ Result' = (Base' + size' = Whole' /\ ~Receives(req')
                          /\ (req'.op = "load" => req'.data # <<>>))
        BY <1>3, <4>1, <4>2 DEF SendSeen
      <4>5. Sent' = Base + size /\ Sent' = Sent + 1 /\ Sent' <= Whole
        <5>1. /\ Sent' = Base + size /\ Sent = Base + count /\ size = Len(Sending)
              /\ Base + Len(Sending) <= Whole
          BY <1>2, <1>5, <1>13, <2>1, <3>2, <4>4
        <5> QED
          BY <1>5, <1>7, <3>4, <5>1
      <4>6. Port!Sent
        <5>1. Sent' < Whole \/ Sent' = Whole
          BY <1>5, <1>7, <4>5
        <5>2. CASE Sent' < Whole
          <6>1. At' = "write" /\ Result' = Result
            <7>1. Base' + size' # Whole'
              BY <1>2, <1>5, <4>4, <4>5, <5>2
            <7> QED
              BY <2>1, <4>4, <7>1
          <6> QED
            BY <1>2, <1>8, <3>2, <3>3, <4>5, <5>2, <6>1
            DEF Port!Sent, Port!Acknowledged, Port!userport, userport, Port!Out, Out, Whole
        <5>3. CASE Sent' = Whole
          <6>1. /\ At' = IF Receives(req) THEN "input" ELSE "closeInput"
                /\ Result' = (~Receives(req) /\ (req.op = "load" => req.data # <<>>))
            BY <1>2, <4>4, <5>3
          <6> QED
            BY <1>2, <1>8, <2>1, <3>2, <3>3, <4>5, <5>3, <6>1
            DEF Port!Sent, Port!Acknowledged, Port!userport, userport, Port!Out, Out, Whole,
                Port!Receives, Receives
        <5> QED
          BY <5>1, <5>2, <5>3
      <4>7. Port!Together'
        BY <4>6, Follows DEF Port!ClientStep, Standing
      <4> QED
        BY <1>9, <4>3, <4>7
    <3>5. CASE count + 1 # size
      <4>1. fpc' = "sendByte" /\ tx' = <<>> /\ size' = Len(Sending') /\ count' = count + 1
        BY <1>2, <1>13, <3>2, <3>5
      <4>2. Ahead' = SubSeq(Sending', count' + 1, size')
        <5>1. count + 1 + 1 = count + 2
          BY <1>7
        <5> QED
          BY <1>2, <1>13, <3>2, <3>3, <4>1, <5>1
      <4>3. SendLine'
        BY <4>1, <4>2 DEF SendLine
      <4>4. At' = "write" /\ Sent' = Base' + count' /\ Sent' < Whole' /\ Result' = FALSE
        BY <1>3, <4>1 DEF SendSeen
      <4>5. Sent' = Sent + 1 /\ Sent' < Whole
        BY <1>2, <1>5, <1>7, <2>1, <4>1, <4>4
      <4>6. Port!Sent
        BY <1>2, <1>8, <2>1, <3>2, <3>3, <4>4, <4>5
        DEF Port!Sent, Port!Acknowledged, Port!userport, userport, Port!Out, Out, Whole
      <4>7. Port!Together'
        BY <4>6, Follows DEF Port!ClientStep, Standing
      <4> QED
        BY <1>9, <4>3, <4>7
    <3> QED
      BY <3>4, <3>5
  <2> QED
    BY <1>13, <2>2, <2>3
<1>14. ASSUME fpc = "frame", Ahead = <<>>
       PROVE  FALSE
  <2>1. Left < 9
    BY <1>14 DEF Left
  <2> QED
    BY <1>14, <2>1, NoCommand
<1> QED
  BY <1>1, <1>10, <1>11, <1>12, <1>13, <1>14 DEF SendLine

-----------------------------------------------------------------------------
(* The board receives from the server.                                     *)
LEMMA ReceiveFirmwareStands ==
  ASSUME KindInv, KindInv', Standing, pc \in ReceivePlaces, FwStep,
         UNCHANGED << client, server, done, clean, budget >>
  PROVE  /\ Line' /\ Naming' /\ Port!Together'
         /\ Got' = Got \/ Port!Read
<1>1. ReceiveLine /\ initialized /\ Naming
  BY DEF Standing, Line, ReceivePlaces
<1>2. /\ Due' = Due /\ UNCHANGED << pc, req, part, moved, got, initialized, result >>
      /\ Wanted' = Wanted /\ FromInput' = FromInput /\ FromTurn' = FromTurn
      /\ ReceiveFrame' = ReceiveFrame
      /\ Whole' = Whole /\ Total' = Total /\ Prior' = Prior
  BY ClientKept
<1>3. pc' \in ReceivePlaces /\ ReceiveSeen /\ ReceiveSeen'
  BY <1>2, SeesReceive, SeenNext
<1>4. Sent = Whole /\ Sent' = Sent /\ Got = got \o Data /\ Got' = got \o Data'
  BY <1>2, <1>3 DEF ReceiveSeen
<1>5. /\ part \in 1 .. 3 /\ Receives(req)
      /\ Wanted \in Nat /\ Wanted <= AddressSpace /\ Wanted <= MaxSize
      /\ ReceiveFrame \in Seq(Byte) /\ Len(ReceiveFrame) = 9
      /\ ReceiveFrame[1] = CMD_RECEIVE /\ SubSeq(ReceiveFrame, 2, 5) = Wide(Wanted)
      /\ FromTurn \in Seq(Byte) /\ Len(FromTurn) = 18
      /\ FromInput \in Seq(Byte) /\ Len(FromInput) = 27
  BY ReceiveLengths
<1>6. /\ got \in Seq(Byte) /\ Data \in Seq(Byte) /\ Got \in Seq(Byte)
      /\ Len(Got) = Len(got) + Len(Data) /\ Len(got) \in Nat /\ Len(Data) \in Nat
      /\ Total \in Nat /\ (Total = 0 <=> req.want = 0)
      /\ Got # <<>> => Want(req, Got) = Total /\ ~Port!Nameless
      /\ req.op \in {"save", "peek", "identify"} /\ req \in Calls
      /\ pc \in {"receive", "read", "receiveReport"} =>
           /\ Prior + Wanted <= Total
           /\ Prior \in Nat
           /\ Len(got) = Prior + IF pc = "receive" THEN 0 ELSE moved
  BY <1>1, ReceiveCounts
<1>7. /\ rx \in Seq(Byte) /\ Due \in Seq(Byte) /\ tx \in Seq(Byte) /\ Ahead = rx \o Due
      /\ rx' \in Seq(Byte) /\ Ahead' = rx' \o Due
  BY <1>2, DueBytes, SeenNext DEF Ahead
<1>8. /\ count \in Nat /\ size \in Nat /\ moved \in Nat
      /\ fpc # "frame" => count < size
  BY DEF KindInv, TypeOK, ServantTypeOK, ClientTypeOK, BoardInv
<1>9. ASSUME ReceiveLine' PROVE Line'
  BY <1>1, <1>2, <1>9 DEF Line, PingPlaces, SendPlaces, ReceivePlaces
<1>10. ASSUME Got' = Got PROVE Naming'
  BY <1>1, <1>2, <1>10 DEF Naming, Port!Identified
<1>11. ASSUME Ahead = <<>> \/ Ahead' = <<>>
       PROVE  pc \in {"read", "receiveReport"} /\ Due = <<>>
  <2>1. Due = <<>>
    BY <1>7, <1>11
  <2>2. Len(FromInput) # 0 /\ Len(FromTurn) # 0 /\ Len(ReceiveFrame) # 0
    BY <1>5
  <2>3. Len(<<>>) = 0
    OBVIOUS
  <2>4. FromInput # <<>> /\ FromTurn # <<>> /\ ReceiveFrame # <<>>
    BY <2>2, <2>3, Zenon
  <2> QED
    BY <2>1, <2>4 DEF Due, ReceivePlaces
<1>12. CASE fpc = "frame" /\ tx = <<>> /\ Ahead = FromInput /\ part = 1 /\ got = <<>>
  <2>1. FwInput /\ Ahead' = FromTurn
    BY <1>2, <1>5, <1>12, BasicFrames, FirstCommand DEF FromInput
  <2>2. pcDriving' = FALSE /\ UNCHANGED << flag, pa2, ciaData, ciaDriving, tx, firmware >>
    BY <2>1 DEF FwInput, input
  <2>3. fpc' = "frame" /\ tx' = <<>>
    BY <1>12, <2>2 DEF firmware
  <2>4. ReceiveLine'
    BY <1>2, <1>12, <2>1, <2>3 DEF ReceiveLine
  <2>5. Data = <<>> /\ Data' = <<>>
    BY <1>12, <2>3 DEF Data
  <2>6. Got = <<>> /\ Got' = <<>>
    BY <1>4, <1>12, <2>5
  <2>7. At = "input" /\ Result = FALSE /\ At' = "turn" /\ Result' = FALSE
    BY <1>2, <1>3, <1>12, <2>1, <2>3 DEF ReceiveSeen
  <2>8. Port!Paired'
    <3>1. Port!Together /\ UNCHANGED << req, Got, flag, pa2, last, server, done >>
      BY <1>2, <2>2, <2>6 DEF Standing, firmware
    <3>2. UNCHANGED << req, Got, flag, pa2, last, Port!server, done >>
      BY <3>1 DEF Port!server, server
    <3> QED
      BY <2>7, <3>1, <3>2, Assumptions, Port!InputPaired DEF Port!InputPaired, Assumed
  <2>9. Released'
    BY <1>2, <1>4, <1>5, <1>6, <2>2, <2>6, <2>7, <2>8 DEF Released
  <2> QED
    BY <1>9, <1>10, <2>4, <2>6, <2>9, AssemblesNext
<1>13. CASE fpc = "frame" /\ tx = <<>> /\ Ahead = FromTurn /\ part = 1 /\ got = <<>>
  <2>1. FwStrobe /\ Ahead' = ReceiveFrame
    BY <1>2, <1>5, <1>13, BasicFrames, FirstCommand DEF FromTurn
  <2>2. flag' = TRUE /\ UNCHANGED << pa2, bus, tx, firmware >>
    BY <2>1 DEF FwStrobe, strobe
  <2>3. fpc' = "frame" /\ tx' = <<>>
    BY <1>13, <2>2 DEF firmware
  <2>4. Prior = 0 /\ Len(got) = 0
    BY <1>13 DEF Prior
  <2>5. ReceiveLine'
    BY <1>2, <1>13, <2>1, <2>3, <2>4 DEF ReceiveLine
  <2>6. Data = <<>> /\ Data' = <<>>
    BY <1>13, <2>3 DEF Data
  <2>7. Got = <<>> /\ Got' = <<>>
    BY <1>4, <1>13, <2>6
  <2>8. At = "turn" /\ Result = FALSE
    BY <1>3, <1>13 DEF ReceiveSeen
  <2>9. Filled' <=> req.want = 0
    <3>1. Filled' <=> 0 = Total
      BY <1>2, <2>7 DEF Filled
    <3> QED
      BY <1>6, <3>1
  <2>10. At' = (IF req.want = 0 THEN "closeInput" ELSE "rwait") /\ Result' = FALSE
    BY <1>2, <1>3, <2>1, <2>3, <2>9 DEF ReceiveSeen
  <2>11. Port!Turn
    BY <1>2, <1>4, <2>2, <2>7, <2>8, <2>10 DEF Port!Turn, Port!strobe, Port!bus, bus, firmware
  <2>12. Port!Together'
    BY <2>11, Follows DEF Port!ClientStep, Standing
  <2> QED
    BY <1>9, <1>10, <2>5, <2>7, <2>12
<1>14. CASE fpc = "frame" /\ tx = <<>> /\ Ahead = ReceiveFrame /\ Len(got) = Prior
  <2>1. ReceiveFrame = ReceiveFrame \o <<>> /\ <<>> \in Seq(Byte)
    BY <1>5, WholeSeq
  <2>2. FwReceive /\ Ahead' = <<>> /\ SubSeq(rx, 2, 5) = Wide(Wanted)
    BY <1>2, <1>5, <1>14, <2>1, FirstCommand
  <2>3. Narrow(SubSeq(rx, 2, 5)) = Wanted
    BY <1>5, <2>2, NarrowWide
  <2>4. /\ size' = Wanted /\ count' = 0
        /\ IF Wanted = 0 THEN tx' = tx \o Wide(0) /\ fpc' = fpc
                         ELSE fpc' = "recvWait" /\ tx' = tx
        /\ UNCHANGED << userport, last >>
    BY <2>2, <2>3 DEF FwReceive, FwTransfer
  <2>5. pc \in {"read", "receiveReport"}
    BY <1>11, <2>2
  <2>6. moved = 0
    BY <1>6, <1>8, <1>14, <2>5
  <2>7. Data = <<>>
    BY <1>14 DEF Data
  <2>8. /\ At = IF Filled THEN "closeInput" ELSE "rwait"
        /\ Result = (Filled /\ req.want # 0 /\ (req.op = "identify" => ~Unidentified(Got)))
    BY <1>3, <1>14 DEF ReceiveSeen
  <2>9. CASE Wanted = 0
    <3> DEFINE w == Wide(0)
    <3>1. w \in Seq(Byte) /\ Len(w) = 4
      BY WideBytes
    <3> HIDE DEF w
    <3>2. fpc' = "frame" /\ tx' = <<>> \o w /\ <<>> \o w = w
      BY <1>14, <2>4, <2>9, <3>1, WholeSeq DEF w
    <3>3. Data' = <<>>
      <4>1. tx' = <<>> \o w /\ Len(tx') = 4
        BY <3>1, <3>2
      <4>2. Len(tx') >= 4
        BY <4>1
      <4>3. Data' = SubSeq(tx', 1, Len(tx') - 4)
        BY <3>2, <4>2 DEF Data
      <4> QED
        BY <2>1, <3>1, <4>1, <4>3, Front
    <3>4. tx' = Data' \o Wide(size') /\ Len(tx') >= 4 /\ moved' + Len(Data') = size'
      <4>1. size' = 0 /\ moved' = 0 /\ Len(<<>>) = 0
        BY <1>2, <2>4, <2>6, <2>9
      <4>2. tx' = Data' \o Wide(size')
        BY <2>4, <2>9, <3>2, <3>3 DEF w
      <4>3. Len(tx') = 4
        BY <3>1, <3>2
      <4>4. moved' + Len(Data') = size'
        BY <3>3, <4>1
      <4> QED
        BY <4>2, <4>3, <4>4
    <3>5. ReceiveLine'
      BY <1>2, <2>2, <2>4, <3>2, <3>4 DEF ReceiveLine
    <3>6. Got' = Got
      BY <1>4, <2>7, <3>3
    <3>7. Filled' = Filled
      BY <1>2, <3>6 DEF Filled
    <3>8. At' = At /\ Result' = Result
      BY <1>2, <1>3, <2>2, <2>8, <3>2, <3>6, <3>7 DEF ReceiveSeen
    <3>9. Port!Together'
      BY <1>2, <1>4, <2>4, <3>6, <3>8, Follows DEF Standing
    <3> QED
      BY <1>9, <1>10, <3>5, <3>6, <3>9
  <2>10. CASE Wanted # 0
    <3>1. fpc' = "recvWait" /\ tx' = <<>> /\ Data' = <<>>
      BY <1>14, <2>4, <2>10 DEF Data
    <3>2. moved' + Len(tx') = count'
      BY <1>2, <2>4, <2>6, <3>1
    <3>3. ReceiveLine'
      BY <1>2, <2>2, <2>4, <3>1, <3>2 DEF ReceiveLine
    <3>4. Got' = Got
      BY <1>4, <2>7, <3>1
    <3>5. ~Filled
      <4>1. Len(Got) = Len(got) + 0
        BY <1>6, <2>7
      <4>2. Len(Got) < Total
        BY <1>5, <1>6, <1>14, <2>5, <2>10, <4>1, SMTT(30)
      <4> QED
        BY <1>6, <4>2 DEF Filled
    <3>6. At' = At /\ Result' = Result
      BY <1>3, <2>2, <2>8, <3>1, <3>5 DEF ReceiveSeen
    <3>7. Port!Together'
      BY <1>2, <1>4, <2>4, <3>4, <3>6, Follows DEF Standing
    <3> QED
      BY <1>9, <1>10, <3>3, <3>4, <3>7
  <2> QED
    BY <2>9, <2>10
<1>15. CASE /\ fpc \in {"recvWait", "recvRead", "recvStrobe"}
            /\ Ahead = <<>> /\ size = Wanted
            /\ moved + Len(tx) = IF fpc = "recvStrobe" THEN count + 1 ELSE count
  <2>1. pc \in {"read", "receiveReport"} /\ Due = <<>>
    BY <1>11, <1>15
  <2>2. /\ At = (IF fpc = "recvWait" THEN "rwait"
                 ELSE IF fpc = "recvRead" THEN "rread" ELSE "rstrobe")
        /\ Result = FALSE
    BY <1>3, <1>15 DEF ReceiveSeen
  <2>3. Data = tx
    BY <1>15 DEF Data
  <2>4. rx' = rx => Ahead' = <<>>
    BY <1>7, <1>15
  <2>5. CASE fpc = "recvWait"
    <3>1. FwOffered
      BY <2>5 DEF FwStep, FwStrobe, FwAcked, FwInput, FwOutput, FwRead, FwWrite, FwUnknown,
         FwSend, FwReceive, FwTransfer, Takes, FwSendByte, FwSendStrobe, FwSent, FwRecvRead,
         FwRecvStrobe
    <3>2. /\ pa2 # last /\ last' = pa2 /\ fpc' = "recvRead"
          /\ UNCHANGED << userport, rx, tx, size, timed, count >>
      BY <3>1 DEF FwOffered, Answered
    <3>3. ReceiveLine'
      BY <1>2, <1>15, <2>4, <2>5, <3>2 DEF ReceiveLine
    <3>4. Data' = Data /\ Got' = Got
      BY <1>4, <2>3, <3>2 DEF Data
    <3>5. At' = "rread" /\ Result' = FALSE
      BY <1>3, <2>4, <3>2 DEF ReceiveSeen
    <3>6. Port!Offered
      BY <1>2, <1>4, <2>2, <2>5, <3>2, <3>4, <3>5
      DEF Port!Offered, Port!Acknowledged, Port!userport, userport
    <3>7. Port!Together'
      BY <3>6, Follows DEF Port!ClientStep, Standing
    <3> QED
      BY <1>9, <1>10, <3>3, <3>4, <3>7
  <2>6. CASE fpc = "recvRead"
    <3>1. FwRecvRead
      BY <2>6 DEF FwStep, FwStrobe, FwAcked, FwInput, FwOutput, FwRead, FwWrite, FwUnknown,
         FwSend, FwReceive, FwTransfer, Takes, FwSendByte, FwSendStrobe, FwSent, FwOffered,
         FwRecvStrobe
    <3>2. PICK b \in BusValues : tx' = Append(tx, b)
      BY <3>1 DEF FwRecvRead
    <3>3. fpc' = "recvStrobe" /\ UNCHANGED << userport, rx, size, timed, count, last >>
      BY <3>1 DEF FwRecvRead
    <3>4. b \in Byte
      <4>1. UserportTypeOK
        BY DEF KindInv, TypeOK
      <4> QED
        BY <4>1, BusBytesHere
    <3>5. Len(tx') = Len(tx) + 1 /\ Len(tx) \in Nat
      BY <1>7, <3>2, <3>4
    <3>6. moved' + Len(tx') = count' + 1
      BY <1>2, <1>8, <1>15, <2>6, <3>3, <3>5
    <3>7. ReceiveLine'
      BY <1>2, <1>15, <2>4, <3>3, <3>6 DEF ReceiveLine
    <3>8. Data' = Append(tx, b)
      BY <3>2, <3>3 DEF Data
    <3>9. Got' = Append(Got, b)
      <4>1. Got = got \o tx /\ Got' = got \o Append(tx, b)
        BY <1>4, <2>3, <3>8
      <4>2. Append(got \o tx, b) = got \o Append(tx, b)
        BY <1>6, <1>7, <3>4, AppendJoins, ZenonT(60)
      <4> QED
        BY <4>1, <4>2
    <3>10. At' = "rstrobe" /\ Result' = FALSE
      BY <1>3, <2>4, <3>3 DEF ReceiveSeen
    <3>11. Port!Read
      <4>1. Port!BusValues = BusValues
        BY SameCable
      <4> QED
        BY <1>2, <1>4, <2>2, <2>6, <3>3, <3>9, <3>10, <4>1
        DEF Port!Read, Port!userport, userport
    <3>12. Port!Together'
      BY <3>11, Follows DEF Port!ClientStep, Standing
    <3>13. Naming'
      BY <3>10, <3>12 DEF Naming, Port!Together, Port!Paired, Port!Receiving
    <3> QED
      BY <1>9, <3>7, <3>11, <3>12, <3>13
  <2>7. CASE fpc = "recvStrobe"
    <3>1. FwRecvStrobe
      BY <2>7 DEF FwStep, FwStrobe, FwAcked, FwInput, FwOutput, FwRead, FwWrite, FwUnknown,
         FwSend, FwReceive, FwTransfer, Takes, FwSendByte, FwSendStrobe, FwSent, FwOffered,
         FwRecvRead
    <3>2. /\ flag' = TRUE /\ count' = count + 1
          /\ IF count + 1 = size THEN tx' = tx \o Wide(size) /\ fpc' = "frame"
                                 ELSE fpc' = "recvWait" /\ tx' = tx
          /\ UNCHANGED << pa2, bus, rx, size, timed, last >>
      BY <3>1 DEF FwRecvStrobe, strobe
    <3>3. Ahead' = <<>>
      BY <2>4, <3>2
    <3>4. At = "rstrobe"
      BY <2>2, <2>7
    <3>5. Len(Got) \in 1 .. Total
      BY <3>4 DEF Standing, Port!Together, Port!Paired, Port!Releasing, Port!Total, Total
    <3>6. Want(req, Got) = Total /\ ~Port!Nameless /\ req.want # 0
      <4>1. Got # <<>>
        BY <1>6, <3>5, EmptySeq
      <4> QED
        BY <1>6, <3>5, <4>1
    <3>7. Port!Want(req, Got) = Want(req, Got)
          /\ (Port!Unidentified(Got) <=> Unidentified(Got))
      BY DEF Port!Want, Want, Port!Unidentified, Unidentified
    <3>8. CASE count + 1 = size
      <4> DEFINE w == Wide(size)
      <4>1. w \in Seq(Byte) /\ Len(w) = 4
        BY <1>8, WideBytes
      <4> HIDE DEF w
      <4>2. fpc' = "frame" /\ tx' = tx \o w /\ size' = size
        BY <3>2, <3>8 DEF w
      <4>3. Len(tx') >= 4
        <5>1. Len(tx') = Len(tx) + Len(w) /\ Len(tx) \in Nat
          BY <1>7, <4>1, <4>2, Join
        <5> QED
          BY <4>1, <5>1
      <4>4. Data' = tx
        <5>1. Data' = SubSeq(tx', 1, Len(tx') - 4)
          BY <4>2, <4>3 DEF Data
        <5> QED
          BY <1>7, <4>1, <4>2, <5>1, Front
      <4>5. moved' + Len(Data') = size'
        BY <1>2, <1>15, <2>7, <3>8, <4>2, <4>4
      <4>6. ReceiveLine'
        BY <1>2, <1>15, <3>3, <4>2, <4>3, <4>4, <4>5 DEF ReceiveLine, w
      <4>7. Got' = Got
        BY <1>4, <2>3, <4>4
      <4>8. Filled' = Filled
        BY <1>2, <4>7 DEF Filled
      <4>9. /\ At' = IF Filled THEN "closeInput" ELSE "rwait"
            /\ Result' = (Filled /\ (req.op = "identify" => ~Unidentified(Got)))
        BY <1>2, <1>3, <3>3, <3>6, <4>2, <4>7, <4>8 DEF ReceiveSeen
      <4>10. CASE Filled
        <5>1. Len(Got) >= Want(req, Got)
          BY <1>6, <3>6, <4>10 DEF Filled
        <5>2. Port!Received
          BY <1>2, <1>4, <2>2, <2>7, <3>2, <3>7, <4>7, <4>9, <4>10, <5>1
          DEF Port!Received, Port!strobe, Port!bus, bus
        <5>3. Port!Together'
          BY <5>2, Follows DEF Port!ClientStep, Standing
        <5> QED
          BY <1>9, <1>10, <4>6, <4>7, <5>3
      <4>11. CASE ~Filled
        <5>1. Len(Got) < Want(req, Got)
          BY <1>6, <3>5, <3>6, <4>11 DEF Filled
        <5>2. Port!Received
          BY <1>2, <1>4, <2>2, <2>7, <3>2, <3>6, <3>7, <4>7, <4>9, <4>11, <5>1
          DEF Port!Received, Port!strobe, Port!bus, bus
        <5>3. Port!Together'
          BY <5>2, Follows DEF Port!ClientStep, Standing
        <5> QED
          BY <1>9, <1>10, <4>6, <4>7, <5>3
      <4> QED
        BY <4>10, <4>11
    <3>9. CASE count + 1 # size
      <4>1. fpc' = "recvWait" /\ tx' = tx /\ size' = size /\ count' = count + 1
        BY <3>2, <3>9
      <4>2. ReceiveLine'
        BY <1>2, <1>15, <2>7, <3>3, <4>1 DEF ReceiveLine
      <4>3. Data' = Data /\ Got' = Got
        BY <1>4, <2>3, <4>1 DEF Data
      <4>4. At' = "rwait" /\ Result' = FALSE
        BY <1>3, <3>3, <4>1 DEF ReceiveSeen
      <4>5. Len(Got) < Want(req, Got)
        <5>1. /\ Len(Got) = Len(got) + Len(tx) /\ Len(got) = Prior + moved
              /\ moved + Len(tx) = count + 1 /\ count < size /\ size = Wanted
              /\ Prior + Wanted <= Total /\ Prior \in Nat /\ Len(tx) \in Nat
          BY <1>6, <1>8, <1>15, <2>1, <2>3, <2>7
        <5>2. Len(Got) < Total
          BY <1>5, <1>6, <1>8, <3>9, <5>1
        <5> QED
          BY <3>6, <5>2
      <4>6. Port!Received
        BY <1>2, <1>4, <2>2, <2>7, <3>2, <3>6, <3>7, <4>3, <4>4, <4>5
        DEF Port!Received, Port!strobe, Port!bus, bus
      <4>7. Port!Together'
        BY <4>6, Follows DEF Port!ClientStep, Standing
      <4> QED
        BY <1>9, <1>10, <4>2, <4>3, <4>7
    <3> QED
      BY <3>8, <3>9
  <2> QED
    BY <1>15, <2>5, <2>6, <2>7
<1>16. ASSUME fpc = "frame", Ahead = <<>>
       PROVE  FALSE
  <2>1. Left < 9
    BY <1>16 DEF Left
  <2> QED
    BY <1>16, <2>1, NoCommand
<1> QED
  BY <1>1, <1>12, <1>13, <1>14, <1>15, <1>16 DEF ReceiveLine

-----------------------------------------------------------------------------
(* Every step of the driver ... *)
LEMMA ClientStands ==
  ASSUME KindInv, KindInv', Standing, ClientStep, UNCHANGED << server, done, clean, budget >>
  PROVE  Standing'
<1>1. \/ WritesOn \/ Open \/ OpenFails \/ Reset \/ Close \/ Answer \/ SendReport \/ Read
      \/ ReceiveReport
  BY DEF ClientStep, WritesOn
<1>2. Line' /\ Naming' /\ Port!Together'
  BY <1>1, WritesOnStands, OpenStands, OpenFailsStands, ResetStands, CloseStands, AnswerStands,
     SendReportStands, ReadStands, ReceiveReportStands
<1> QED
  BY <1>2 DEF Standing

LEMMA Places ==
  ASSUME KindInv
  PROVE  Resting \/ pc \in PingPlaces \/ pc \in SendPlaces \/ pc \in ReceivePlaces
BY DEF KindInv, TypeOK, ClientTypeOK, Resting, PingPlaces, SendPlaces, ReceivePlaces

(* ... and of the board keeps them together, ... *)
LEMMA FirmwareStands ==
  ASSUME KindInv, KindInv', Standing, FwStep,
         UNCHANGED << client, server, done, clean, budget >>
  PROVE  Standing'
<1>1. Line' /\ Naming' /\ Port!Together'
  BY Places, RestFirmwareStands, PingFirmwareStands, SendFirmwareStands, ReceiveFirmwareStands
<1> QED
  BY <1>1 DEF Standing

(* ... and so does any other that the parallel port could take. *)
LEMMA PortFollows ==
  ASSUME Port!Together, Port!Next, clean'
  PROVE  Port!Together'
<1>1. Port!IndInv /\ [Port!Next]_(Port!vars)
  BY DEF Port!Together, Port!IndInv
<1>2. Port!IndInv'
  BY <1>1, Assumptions, Port!StepIndInv DEF Port!StepIndInv, Assumed
<1> QED
  BY <1>2 DEF Port!Together, Port!IndInv

LEMMA PingGivesUpStands ==
  ASSUME KindInv, KindInv', Standing, clean, PingGivesUp, clean'
  PROVE  Standing'
<1>1. /\ pc = "again" /\ pc' = "close" /\ ServerBlocked /\ ~Answered
      /\ UNCHANGED << userport, rx, firmware, tx, req, part, moved, got, initialized, result,
                      server, done, budget >>
  BY DEF PingGivesUp, GiveUp, rest
<1>2. clean' = (clean /\ ~flag)
  BY DEF PingGivesUp
<1>3. pc \in PingPlaces /\ fpc = "frame" /\ initialized
  BY <1>1 DEF Standing, Line, PingPlaces, PingLine
<1>4. tx = <<>> /\ rx = <<>>
  BY <1>1, <1>3 DEF Standing, Line, PingLine
<1>5. Ahead = AskFrame
  BY <1>1, <1>4, BasicFrames, WholeSeq DEF Ahead, Due
<1>6. ~Found /\ PingSeen
  BY <1>1, <1>3, SeesPing DEF Found
<1>7. At = "pingWait" /\ Sent = 0 /\ Got = got /\ Result = FALSE
  BY <1>5, <1>6 DEF PingSeen
<1>8. ~result
  BY <1>1 DEF KindInv, CallInv
<1>9. Resting' /\ RestSeen'
  <2>1. Resting'
    BY <1>1 DEF Resting
  <2> QED
    BY <2>1, SeenNext
<1>10. result \in BOOLEAN
  BY DEF KindInv, TypeOK, ClientTypeOK
<1>11. At' = "closeInput" /\ Sent' = Sent /\ Got' = Got /\ Result' = Result
  BY <1>1, <1>7, <1>8, <1>9, <1>10 DEF RestSeen
<1>12. Port!Timeout
  BY <1>1, <1>7, <1>11
  DEF Port!Timeout, Port!Waiting, Port!Acknowledged, Answered, Port!userport, userport, firmware
<1>13. Port!ServerBlocked /\ UNCHANGED << Port!server, done, budget >>
  BY <1>1, SameServer DEF Port!server, server
<1>14. Port!GiveUp
  BY <1>2, <1>12, <1>13 DEF Port!GiveUp
<1>15. Port!Together'
  BY <1>14, PortFollows DEF Standing, Port!Next
<1>16. Line'
  BY <1>1, <1>3, <1>4
  DEF Line, BetweenCalls, PingPlaces, SendPlaces, ReceivePlaces, firmware
<1>17. Naming'
  BY <1>1 DEF Naming, ReceivePlaces
<1> QED
  BY <1>15, <1>16, <1>17 DEF Standing

(* A send gives up before its last byte, and when all of it is on the      *)
(* line: then the report is that it failed, and nothing is left over.      *)
LEMMA SendGivesUpStands ==
  ASSUME KindInv, KindInv', Standing, clean, FirmwareGivesUp, FwSendTimeout, clean'
  PROVE  Standing'
<1>1. /\ fpc = "sendWait" /\ fpc' = "frame" /\ rx' = <<>> /\ tx' = tx \o Wide(count + 1)
      /\ UNCHANGED << userport, size, timed, count, last >>
  BY DEF FwSendTimeout
<1>2. /\ ServerBlocked /\ ~Answered /\ UNCHANGED << client, server, done, budget >>
      /\ clean' = (clean /\ ~flag /\ count + 1 # size /\ pc # "data")
  BY DEF FirmwareGivesUp
<1>3. ~flag /\ count + 1 # size /\ pc # "data"
  BY <1>2, Zenon
<1>4. pc \in SendPlaces /\ SendLine /\ initialized
  BY <1>1, Places DEF Standing, Line, Resting, BetweenCalls, PingLine, ReceiveLine, SendPlaces
<1>5. tx = <<>> /\ size = Len(Sending) /\ Ahead = SubSeq(Sending, count + 2, size)
  BY <1>1, <1>4 DEF SendLine
<1>6. count \in Nat /\ size \in Nat /\ count < size
  BY <1>1 DEF KindInv, TypeOK, ServantTypeOK, BoardInv
<1>7. Left <= size
  <2>1. Sending \in Seq(Byte)
    BY <1>4, SendLengths
  <2>2. Len(SubSeq(Sending, (count + 1) + 1, Len(Sending))) = Len(Sending) - (count + 1)
    <3>1. count + 1 \in Nat /\ count + 1 <= Len(Sending)
      BY <1>5, <1>6
    <3> QED
      BY <2>1, <3>1, Remaining
  <2>3. (count + 1) + 1 = count + 2
    BY <1>6
  <2>4. Left = size - (count + 1)
    BY <1>5, <2>2, <2>3 DEF Left
  <2> QED
    BY <1>6, <2>4
<1>8. pc = "sendReport"
  <2>1. Left >= Len(Due)
    BY DueBytes
  <2>2. Len(FromSend) = 9 + size /\ Len(OutputFrame \o FromSend) = 18 + size
    BY <1>4, <1>5, SendLengths
  <2>3. pc # "output"
    <3>1. pc = "output" => Due = OutputFrame \o FromSend
      BY DEF Due
    <3> QED
      BY <1>6, <1>7, <2>1, <2>2, <3>1, DueBytes
  <2>4. pc # "send"
    <3>1. pc = "send" => Due = FromSend
      BY DEF Due
    <3> QED
      BY <1>6, <1>7, <2>1, <2>2, <3>1, DueBytes
  <2> QED
    BY <1>3, <1>4, <2>3, <2>4 DEF SendPlaces
<1>9. /\ Due' = Due /\ UNCHANGED << pc, req, part, moved, got, initialized, result >>
      /\ Sending' = Sending /\ Base' = Base /\ Whole' = Whole
  BY <1>2, ClientKept
<1>10. Due = <<>> /\ Ahead' = <<>>
  <2>1. Due = <<>>
    BY <1>8 DEF Due
  <2>2. Ahead' = <<>> \o <<>>
    BY <1>1, <1>9, <2>1 DEF Ahead
  <2> QED
    BY <2>1, <2>2
<1>11. tx' = Wide(count + 1) /\ count + 1 < size
  <2>1. Wide(count + 1) \in Seq(Byte)
    <3>1. count + 1 \in Nat
      BY <1>6
    <3> QED
      BY <3>1, WideBytes
  <2>2. tx' = <<>> \o Wide(count + 1)
    BY <1>1, <1>5
  <2> QED
    BY <1>3, <1>6, <2>1, <2>2, WholeSeq
<1>12. Line'
  <2>1. SendLine'
    BY <1>1, <1>5, <1>9, <1>10, <1>11 DEF SendLine
  <2> QED
    BY <1>4, <1>8, <1>9, <2>1 DEF Line, PingPlaces, SendPlaces, ReceivePlaces
<1>13. Naming'
  BY <1>8, <1>9 DEF Naming, ReceivePlaces
<1>14. SendSeen /\ SendSeen'
  <2>1. pc' \in SendPlaces
    BY <1>4, <1>9
  <2> QED
    BY <1>4, <2>1, SeesSend, SeenNext
<1>15. At = "wait" /\ Sent = Base + count /\ Result = FALSE /\ Got = got
  BY <1>1, <1>5, <1>14 DEF SendSeen
<1>16. At' = "closeInput" /\ Sent' = Base + count /\ Result' = FALSE /\ Got' = got
  BY <1>1, <1>5, <1>9, <1>10, <1>11, <1>14 DEF SendSeen
<1>17. Port!Timeout
  BY <1>1, <1>2, <1>9, <1>15, <1>16
  DEF Port!Timeout, Port!Waiting, Port!Acknowledged, Answered, Port!userport, userport
<1>18. Port!ServerBlocked /\ UNCHANGED << Port!server, done, budget >>
  BY <1>2, SameServer DEF Port!server, server
<1>19. clean' = (clean /\ ~flag)
  BY <1>2, <1>3, Zenon
<1>20. Port!GiveUp
  BY <1>17, <1>18, <1>19 DEF Port!GiveUp
<1>21. Port!Together'
  BY <1>20, PortFollows DEF Standing, Port!Next
<1> QED
  BY <1>12, <1>13, <1>21 DEF Standing

(* No receive gives up on a server that it is in step with.                *)
LEMMA ReceiveGoesOn ==
  ASSUME KindInv, Standing, FirmwareGivesUp, FwRecvTimeout, clean'
  PROVE  FALSE
<1>1. /\ fpc = "recvWait" /\ ServerBlocked /\ ~Answered
      /\ clean' = (clean /\ ~flag /\ count + 1 # size /\ pc # "data")
  BY DEF FirmwareGivesUp, FwRecvTimeout
<1>2. ~flag
  BY <1>1, Zenon
<1>3. pc \in ReceivePlaces /\ ReceiveLine
  BY <1>1, Places DEF Standing, Line, Resting, BetweenCalls, PingLine, SendLine
<1>4. Ahead = <<>>
  BY <1>1, <1>3 DEF ReceiveLine
<1>5. At = "rwait"
  BY <1>1, <1>3, <1>4, SeesReceive DEF ReceiveSeen
<1>6. Port!Waiting /\ Port!Level /\ Port!ServerBlocked
  BY <1>1, <1>5, SameServer DEF Port!Waiting, Port!Level, Answered
<1>7. At = "pingWait" \/ At = "wait"
  BY <1>2, <1>6, Assumptions, Port!Unheard DEF Port!Unheard, Assumed, Standing
<1> QED
  BY <1>5, <1>7

(* What the PC and the board see does not change with the server. *)
LEMMA ViewKept ==
  ASSUME UNCHANGED << rx, tx, firmware, client >>
  PROVE  UNCHANGED << Ahead, Data, At, Sent, Got, Result, req, last >>
<1>1. /\ Due' = Due /\ UNCHANGED << pc, req, part, moved, got, initialized, result >>
      /\ Sending' = Sending /\ Whole' = Whole /\ Base' = Base /\ Total' = Total
  BY ClientKept
<1>2. Ahead' = Ahead /\ UNCHANGED << fpc, size, timed, count, last, rx, tx >>
  BY <1>1 DEF Ahead, firmware
<1>3. Left' = Left /\ Data' = Data /\ Found' = Found
  BY <1>1, <1>2 DEF Left, Data, Found
<1>4. Got' = Got /\ SentNow' = SentNow
  BY <1>1, <1>2, <1>3 DEF Got, SentNow, Begun
<1>5. AllSent' = AllSent /\ AllGot' = AllGot
  BY <1>1, <1>2, <1>3, <1>4 DEF AllSent, AllGot
<1>6. At' = At
  BY <1>1, <1>2, <1>3, <1>5 DEF At, WhilePinging, WhileSending, WhileReceiving
<1>7. Sent' = Sent /\ Result' = Result
  BY <1>1, <1>3, <1>4, <1>5 DEF Sent, Result
<1> QED
  BY <1>1, <1>2, <1>3, <1>4, <1>6, <1>7

LEMMA LineKept ==
  ASSUME Line, Naming, UNCHANGED << rx, tx, firmware, client, pcData >>
  PROVE  Line' /\ Naming'
<1>1. /\ UNCHANGED << pc, req, part, moved, got, initialized, result >>
      /\ Sending' = Sending /\ Wanted' = Wanted /\ Prior' = Prior
      /\ FromSend' = FromSend /\ FromInput' = FromInput /\ FromTurn' = FromTurn
      /\ ReceiveFrame' = ReceiveFrame
  BY ClientKept
<1>2. UNCHANGED << Ahead, Data, Got, req, rx, tx, fpc, size, timed, count, last, pcData >>
  BY ViewKept DEF firmware
<1>3. (BetweenCalls' <=> BetweenCalls) /\ (PingLine' <=> PingLine)
  BY <1>1, <1>2 DEF BetweenCalls, PingLine
<1>4. SendLine' <=> SendLine
  BY <1>1, <1>2 DEF SendLine
<1>5. ReceiveLine' <=> ReceiveLine
  BY <1>1, <1>2 DEF ReceiveLine
<1>6. Line'
  BY <1>1, <1>2, <1>3, <1>4, <1>5 DEF Line
<1>7. Naming'
  BY <1>1, <1>2 DEF Naming, Port!Identified
<1> QED
  BY <1>6, <1>7

(* The server and its user keep to their end of the cable, ... *)
LEMMA ServerStands ==
  ASSUME Standing, ServerProceeds \/ UserInstalls \/ ForegroundRuns, clean'
  PROVE  Standing'
<1>1. /\ ServerStep \/ Install \/ Foreground
      /\ UNCHANGED << rx, tx, firmware, client, clean, budget >>
  BY DEF ServerProceeds, UserInstalls, ForegroundRuns, others
<1>2. pcData' = pcData
  BY <1>1 DEF ServerStep, SrvIrq, SrvFetch, SrvReadWait, SrvReadLatch, SrvPokeStore, SrvLoadWait,
     SrvLoadStore, SrvLoadAck, SrvLoadNext, SrvOutWait, SrvOutDir, SrvPut, SrvWriteStrobe,
     SrvWriteWait, SrvInput, SrvLeave, SrvReadAck, SrvAck, SrvBoot, Install, Foreground,
     TakeFlag, ack, userport, bus
<1>3. Line' /\ Naming'
  BY <1>1, <1>2, LineKept DEF Standing
<1>4. UNCHANGED << Port!client, clean, budget >>
  BY <1>1, ViewKept DEF Port!client
<1>5. Port!Next
  <2>1. CASE ServerProceeds
    <3>1. Port!ServerProceeds
      BY <1>4, <2>1, SameSteps DEF ServerProceeds, Port!ServerProceeds
    <3> QED
      BY <3>1 DEF Port!Next
  <2>2. CASE UserInstalls
    <3>1. Install /\ done' = done
      BY <2>2 DEF UserInstalls, others
    <3>2. Port!Install
      BY <3>1, SameServer DEF Install, Port!Install
    <3>3. Port!UserInstalls
      BY <1>4, <3>1, <3>2 DEF Port!UserInstalls
    <3> QED
      BY <3>3 DEF Port!Next
  <2>3. CASE ForegroundRuns
    <3>1. Foreground /\ done' = done
      BY <2>3 DEF ForegroundRuns, others
    <3>2. Port!Foreground
      BY <3>1, SameCable DEF Foreground, Port!Foreground, userport, Port!userport
    <3>3. Port!ForegroundRuns
      BY <1>4, <3>1, <3>2 DEF Port!ForegroundRuns
    <3> QED
      BY <3>3 DEF Port!Next
  <2> QED
    BY <2>1, <2>2, <2>3
<1>6. Port!Together'
  BY <1>5, PortFollows DEF Standing
<1> QED
  BY <1>3, <1>6 DEF Standing

(* ... a call that begins while both ends are ready begins in step, ...    *)
LEMMA CallStands ==
  ASSUME KindInv, KindInv', NewCall, clean'
  PROVE  Standing'
<1>1. InStep
  BY Zenon DEF NewCall
<1>2. /\ pc = "idle" /\ pc' = "open" /\ done' = 0
      /\ UNCHANGED << userport, rx, tx, firmware, server, part, moved, got, initialized >>
  BY DEF NewCall, Call
<1>3. fpc = "frame" /\ rx \in {<<>>, InputFrame} /\ (initialized => tx = <<>>) /\ ~Answered
  BY <1>1 DEF InStep, FirmwareReady
<1>4. Line' /\ Naming'
  BY <1>2, <1>3
  DEF Line, Naming, BetweenCalls, PingPlaces, SendPlaces, ReceivePlaces, firmware
<1>5. Port!InStep
  BY <1>1, <1>3, SameServer DEF InStep, Answered, Port!InStep
<1>6. Port!InStep'
  BY <1>2, <1>5, Assumptions, Port!ReadyStays
  DEF Port!ReadyStays, server, Port!server, userport, firmware, Assumed
<1>7. Resting' /\ RestingWell'
  BY <1>2, <1>6 DEF Resting, RestingWell, Port!Resting
<1> QED
  BY <1>4, <1>7, SeenNext DEF Standing

(* ... and a new process finds what the one before it has left.            *)
LEMMA ProcessStands ==
  ASSUME KindInv, KindInv', Standing, NextProcess
  PROVE  Standing'
<1>1. /\ pc = "idle" /\ pc' = "idle" /\ initialized' = FALSE
      /\ UNCHANGED << userport, rx, tx, firmware, server, req, part, moved, got, result, done >>
  BY DEF NextProcess, NewProcess
<1>2. fpc = "frame" /\ Resting
  BY <1>1 DEF Standing, Line, BetweenCalls, Resting
<1>3. Line'
  <2>1. \/ rx \in {<<>>, InputFrame}
        \/ req.op = "reset" /\ \E f \in OnceReset : rx = f \o InputFrame
    BY <1>1 DEF Standing, Line
  <2>2. BetweenCalls'
    BY <1>1, <1>2 DEF BetweenCalls, firmware
  <2> QED
    BY <1>1, <2>1, <2>2 DEF Line, PingPlaces, SendPlaces, ReceivePlaces
<1>4. Naming'
  BY <1>1 DEF Naming, ReceivePlaces
<1>5. At = "idle"
  BY <1>1, <1>2, SeesRest DEF RestSeen
<1>6. Port!InStep \/ Port!Stuck
  BY <1>5 DEF Standing, Port!Together, Port!Paired, Port!After
<1>7. Port!InStep' \/ Port!Stuck'
  BY <1>1, <1>6, RestLasts DEF userport, firmware
<1>8. Resting' /\ RestingWell'
  BY <1>1, <1>7 DEF Resting, RestingWell
<1> QED
  BY <1>3, <1>4, <1>8, SeenNext DEF Standing

LEMMA StaysAsIs ==
  ASSUME Standing, UNCHANGED vars
  PROVE  Standing'
<1>1. UNCHANGED << userport, rx, tx, firmware, client, server, clean, done, budget >>
  BY DEF vars
<1>2. Line' /\ Naming'
  BY <1>1, LineKept DEF Standing, userport
<1>3. UNCHANGED << At, Sent, Got, Result, last, req, userport >>
  BY <1>1, ViewKept
<1>4. Port!Together'
  BY <1>1, <1>3, Follows DEF Standing
<1> QED
  BY <1>2, <1>4 DEF Standing

LEMMA StepStands ==
  ASSUME SerialInv, [Next]_vars, clean'
  PROVE  Standing'
<1>1. KindInv /\ KindInv'
  BY StepKinds DEF SerialInv
<1>2. CASE NewCall
  BY <1>1, <1>2, CallStands
<1>3. CASE ~NewCall
  <2>1. ~FirmwareResets /\ ~Fault
    BY DEF FirmwareResets, Fault, LateAnswer, Killed, PowerCycle
  <2>2. clean
    <3>1. CASE PingGivesUp \/ FirmwareGivesUp
      BY <3>1, Zenon DEF PingGivesUp, FirmwareGivesUp
    <3>2. CASE ~PingGivesUp /\ ~FirmwareGivesUp
      BY <1>3, <2>1, <3>2 DEF Next, ClientProceeds, NextProcess, FirmwareProceeds, ServerProceeds,
         UserInstalls, ForegroundRuns, others, vars
    <3> QED
      BY <3>1, <3>2
  <2>3. Standing
    BY <2>2 DEF SerialInv
  <2>4. CASE ClientProceeds
    BY <1>1, <2>3, <2>4, ClientStands DEF ClientProceeds
  <2>5. CASE FirmwareProceeds
    BY <1>1, <2>3, <2>5, FirmwareStands DEF FirmwareProceeds
  <2>6. CASE ServerProceeds \/ UserInstalls \/ ForegroundRuns
    BY <2>3, <2>6, ServerStands
  <2>7. CASE PingGivesUp
    BY <1>1, <2>2, <2>3, <2>7, PingGivesUpStands
  <2>8. CASE FirmwareGivesUp
    BY <1>1, <2>2, <2>3, <2>8, SendGivesUpStands, ReceiveGoesOn DEF FirmwareGivesUp
  <2>9. CASE NextProcess
    BY <1>1, <2>3, <2>9, ProcessStands
  <2>10. CASE UNCHANGED vars
    BY <2>3, <2>10, StaysAsIs
  <2> QED
    BY <1>3, <2>1, <2>4, <2>5, <2>6, <2>7, <2>8, <2>9, <2>10 DEF Next
<1> QED
  BY <1>2, <1>3

LEMMA InitStands ==
  ASSUME Init
  PROVE  SerialInv
<1>1. KindInv
  BY InitKinds
<1>2. /\ pc = "idle" /\ fpc = "frame" /\ rx = <<>> /\ tx = <<>> /\ last = pa2 /\ done = 0
      /\ spc = "main" /\ got = <<>> /\ flag = FALSE
  BY DEF Init, ClientInit, ServantInit, ServerInit, UserportInit
<1>3. Line /\ Naming
  BY <1>2 DEF Line, BetweenCalls, Naming, PingPlaces, SendPlaces, ReceivePlaces
<1>4. Port!InStep
  BY <1>2 DEF Port!InStep, Port!ServerReady
<1>5. Resting /\ RestingWell
  BY <1>2, <1>4 DEF Resting, RestingWell
<1>6. Port!Together
  BY <1>1, <1>5, RestsTogether
<1> QED
  BY <1>1, <1>3, <1>6 DEF SerialInv, Standing

LEMMA SerialInvariance == Spec => []SerialInv
<1>1. Init => SerialInv
  BY InitStands
<1>2. SerialInv /\ [Next]_vars => SerialInv'
  BY StepKinds, StepStands DEF SerialInv
<1> QED
  BY <1>1, <1>2, PTL DEF Spec

(* For every size of a write, all requests, memories, servers and faults:  *)
(* as long as the current call began in step and nothing has happened to   *)
(* it, the board and the C64 drive the data lines at the same time only    *)
(* where the board turns its port around for a ping and the server ends    *)
(* its last reply.                                                         *)
THEOREM SerialDrivenFromOneEnd == Spec => []BusDiscipline
<1>1. SerialInv => BusDiscipline
  <2> SUFFICES ASSUME Standing, pcDriving, ciaDriving PROVE EndingReply
    BY DEF SerialInv, BusDiscipline
  <2>1. Port!EndingReply
    BY Assumptions, Port!BothDrive DEF Port!BothDrive, Assumed, Standing
  <2> QED
    BY <2>1, SameServer
<1> QED
  BY <1>1, SerialInvariance, PTL

-----------------------------------------------------------------------------
(* The board strobes where the parallel port does, and resets the C64 only *)
(* when it is asked to.                                                    *)
LEMMA FirstByte ==
  ASSUME KindInv, NEW f \in Seq(Byte), Len(f) = 9, NEW r \in Seq(Byte), Ahead = f \o r,
         Len(rx) >= 9
  PROVE  rx[1] = f[1]
<1>1. rx \in Seq(Byte) /\ Due \in Seq(Byte) /\ rx \o Due = f \o r /\ 9 <= Len(rx)
  BY DueBytes
<1>2. NineOff(rx, Due, f, r)
  BY <1>1, TakesNine
<1> QED
  BY <1>2 DEF NineOff

LEMMA RestTakes ==
  ASSUME KindInv, Line, Resting, Len(rx) >= 9
  PROVE  /\ rx[1] \in {CMD_INPUT, CMD_RESET}
         /\ rx[1] = CMD_RESET => req.op = "reset"
<1>1. /\ fpc = "frame" /\ Ahead = rx
      /\ \/ rx = <<>>
         \/ \E r \in Seq(Byte) : rx = ResetFrame \o r
         \/ \E r \in Seq(Byte) : rx = InputFrame \o r
  BY RestCommand
<1>2. rx # <<>>
  <2>1. Len(<<>>) = 0
    OBVIOUS
  <2> QED
    BY <2>1
<1>3. rx[1] \in {CMD_INPUT, CMD_RESET}
  <2>1. CASE \E r \in Seq(Byte) : rx = ResetFrame \o r
    BY <1>1, <2>1, BasicFrames, FirstByte
  <2>2. CASE \E r \in Seq(Byte) : rx = InputFrame \o r
    BY <1>1, <2>2, BasicFrames, FirstByte
  <2> QED
    BY <1>1, <1>2, <2>1, <2>2
<1>4. ASSUME req.op # "reset" PROVE rx[1] = CMD_INPUT
  <2>1. pc \in {"idle", "open", "close"}
    BY <1>4 DEF Resting, KindInv, CallInv
  <2>2. rx = InputFrame
    BY <1>2, <1>4, <2>1 DEF Line
  <2> QED
    BY <2>2, BasicFrames
<1> QED
  BY <1>3, <1>4 DEF CMD_INPUT, CMD_RESET

LEMMA PingTakes ==
  ASSUME KindInv, Line, pc \in PingPlaces, Len(rx) >= 9
  PROVE  /\ rx[1] \in {CMD_INPUT, CMD_OUTPUT, CMD_WRITE, CMD_STROBE, CMD_ACKED}
         /\ rx[1] = CMD_STROBE => At = "pingStrobe"
<1>1. rx # <<>>
  <2>1. Len(<<>>) = 0
    OBVIOUS
  <2> QED
    BY <2>1
<1>2. tx = <<>> /\ Ahead \in {AskFrame, FromStrobe, FromWrite, FromOutput,
                              InputFrame \o FromOutput,
                              InputFrame \o (InputFrame \o FromOutput)}
  BY <1>1 DEF Line, PingLine
<1>3. ~Found /\ PingSeen
  BY <1>2, SeesPing DEF Found, Yes
<1>4. CASE Ahead = AskFrame
  <2>1. AskFrame = AskFrame \o <<>> /\ <<>> \in Seq(Byte)
    BY BasicFrames, WholeSeq
  <2>2. rx[1] = CMD_ACKED
    BY <1>4, <2>1, BasicFrames, FirstByte
  <2> QED
    BY <2>2 DEF CMD_ACKED, CMD_STROBE
<1>5. CASE Ahead = FromStrobe
  <2>1. rx[1] = CMD_STROBE
    BY <1>5, BasicFrames, FirstByte DEF FromStrobe
  <2>2. At = "pingStrobe"
    BY <1>3, <1>5 DEF PingSeen
  <2> QED
    BY <2>1, <2>2
<1>6. CASE Ahead = FromWrite
  <2>1. rx[1] = CMD_WRITE
    BY <1>6, BasicFrames, PingLengths, FirstByte DEF FromWrite
  <2> QED
    BY <2>1 DEF CMD_WRITE, CMD_STROBE
<1>7. CASE Ahead = FromOutput
  <2>1. rx[1] = CMD_OUTPUT
    BY <1>7, BasicFrames, PingLengths, FirstByte DEF FromOutput
  <2> QED
    BY <2>1 DEF CMD_OUTPUT, CMD_STROBE
<1>8. CASE Ahead \in {InputFrame \o FromOutput, InputFrame \o (InputFrame \o FromOutput)}
  <2>1. rx[1] = CMD_INPUT
    BY <1>8, BasicFrames, PingLengths, FirstByte
  <2> QED
    BY <2>1 DEF CMD_INPUT, CMD_STROBE
<1> QED
  BY <1>2, <1>4, <1>5, <1>6, <1>7, <1>8

LEMMA SendTakes ==
  ASSUME KindInv, Line, pc \in SendPlaces, Len(rx) >= 9, fpc = "frame"
  PROVE  rx[1] \in {CMD_OUTPUT, CMD_SEND}
<1>1. SendLine
  BY DEF Line
<1>2. Ahead # <<>>
  <2>1. Left >= 9
    BY DueBytes
  <2>2. Len(<<>>) = 0
    OBVIOUS
  <2> QED
    BY <2>1, <2>2 DEF Left
<1>3. Ahead \in {OutputFrame \o FromSend, FromSend}
  BY <1>1, <1>2 DEF SendLine
<1>4. CASE Ahead = OutputFrame \o FromSend
  BY <1>4, BasicFrames, SendLengths, FirstByte
<1>5. CASE Ahead = FromSend
  <2>1. rx[1] = SendFrame[1]
    BY <1>5, SendLengths, FirstByte DEF FromSend
  <2> QED
    BY <2>1, SendLengths
<1> QED
  BY <1>3, <1>4, <1>5

LEMMA ReceiveTakes ==
  ASSUME KindInv, Line, pc \in ReceivePlaces, Len(rx) >= 9, fpc = "frame"
  PROVE  /\ rx[1] \in {CMD_INPUT, CMD_STROBE, CMD_RECEIVE}
         /\ rx[1] = CMD_STROBE => At = "turn"
<1>1. ReceiveLine /\ ReceiveSeen
  BY SeesReceive DEF Line
<1>2. Ahead # <<>>
  <2>1. Left >= 9
    BY DueBytes
  <2>2. Len(<<>>) = 0
    OBVIOUS
  <2> QED
    BY <2>1, <2>2 DEF Left
<1>3. Ahead \in {FromInput, FromTurn, ReceiveFrame}
  BY <1>1, <1>2 DEF ReceiveLine
<1>4. CASE Ahead = FromInput
  <2>1. rx[1] = CMD_INPUT
    BY <1>4, BasicFrames, ReceiveLengths, FirstByte DEF FromInput
  <2> QED
    BY <2>1 DEF CMD_INPUT, CMD_STROBE
<1>5. CASE Ahead = FromTurn
  <2>1. rx[1] = CMD_STROBE
    BY <1>5, BasicFrames, ReceiveLengths, FirstByte DEF FromTurn
  <2>2. At = "turn"
    BY <1>1, <1>5 DEF ReceiveSeen
  <2> QED
    BY <2>1, <2>2
<1>6. CASE Ahead = ReceiveFrame
  <2>1. ReceiveFrame = ReceiveFrame \o <<>> /\ <<>> \in Seq(Byte)
    BY ReceiveLengths, WholeSeq
  <2>2. rx[1] = CMD_RECEIVE
    BY <1>6, <2>1, ReceiveLengths, FirstByte
  <2> QED
    BY <2>2 DEF CMD_RECEIVE, CMD_STROBE
<1> QED
  BY <1>3, <1>4, <1>5, <1>6

LEMMA Taken ==
  ASSUME KindInv, Standing, NEW cmd, Takes(cmd)
  PROVE  /\ cmd = CMD_STROBE => At \in {"pingStrobe", "turn"}
         /\ cmd = CMD_RESET => req.op = "reset"
<1>1. Len(rx) >= 9 /\ rx[1] = cmd /\ fpc = "frame" /\ Line
  BY DEF Takes, FrameLength, Standing
<1>2. CASE Resting
  BY <1>1, <1>2, RestTakes DEF CMD_STROBE, CMD_INPUT, CMD_RESET
<1>3. CASE pc \in PingPlaces
  BY <1>1, <1>3, PingTakes
  DEF CMD_RESET, CMD_INPUT, CMD_OUTPUT, CMD_WRITE, CMD_STROBE, CMD_ACKED
<1>4. CASE pc \in SendPlaces
  BY <1>1, <1>4, SendTakes DEF CMD_RESET, CMD_OUTPUT, CMD_SEND, CMD_STROBE
<1>5. CASE pc \in ReceivePlaces
  BY <1>1, <1>5, ReceiveTakes DEF CMD_RESET, CMD_INPUT, CMD_STROBE, CMD_RECEIVE
<1> QED
  BY <1>2, <1>3, <1>4, <1>5, Places

(* In the middle of a transfer the board is where the parallel port is.    *)
LEMMA Transferring ==
  ASSUME KindInv, Standing
  PROVE  /\ fpc = "sendStrobe" => At = "strobe"
         /\ fpc = "sendWait" => At = "wait"
         /\ fpc = "recvWait" => At = "rwait"
         /\ fpc = "recvStrobe" => At = "rstrobe"
<1>1. fpc \in {"sendStrobe", "sendWait"} => pc \in SendPlaces /\ SendLine
  BY Places DEF Standing, Line, Resting, BetweenCalls, PingLine, ReceiveLine
<1>2. fpc \in {"recvWait", "recvStrobe"} => pc \in ReceivePlaces /\ ReceiveLine
  BY Places DEF Standing, Line, Resting, BetweenCalls, PingLine, SendLine
<1>3. CASE fpc \in {"sendStrobe", "sendWait"}
  <2>1. size = Len(Sending)
    BY <1>1, <1>3 DEF SendLine
  <2>2. SendSeen
    BY <1>1, <1>3, SeesSend
  <2> QED
    BY <1>3, <2>1, <2>2 DEF SendSeen
<1>4. CASE fpc \in {"recvWait", "recvStrobe"}
  <2>1. Ahead = <<>>
    BY <1>2, <1>4 DEF ReceiveLine
  <2>2. ReceiveSeen
    BY <1>2, <1>4, SeesReceive
  <2> QED
    BY <1>4, <2>1, <2>2 DEF ReceiveSeen
<1> QED
  BY <1>3, <1>4

(* As long as the current call began in step, no strobe of the board meets *)
(* one that the server has not seen, so that no byte of a transfer is lost *)
(* between the two, but for the ping after a reply.                        *)
THEOREM SerialStrobesAreSeen == Spec => NoStrobeLost
<1>1. SerialInv => (clean /\ (FwStrobe \/ FwSendStrobe \/ FwRecvStrobe) /\ flag
                     => FwStrobe /\ spc = "wrWait" /\ LastByte)
  <2> SUFFICES ASSUME KindInv, Standing, flag, FwStrobe \/ FwSendStrobe \/ FwRecvStrobe
               PROVE  FwStrobe /\ spc = "wrWait" /\ LastByte
    BY DEF SerialInv
  <2>1. FwStrobe => At \in {"pingStrobe", "turn"}
    BY Taken DEF FwStrobe
  <2>2. FwSendStrobe => At = "strobe"
    BY Transferring DEF FwSendStrobe
  <2>3. FwRecvStrobe => At = "rstrobe"
    BY Transferring DEF FwRecvStrobe
  <2>4. At = "pingStrobe" /\ spc = "wrWait" /\ Port!LastByte
    BY <2>1, <2>2, <2>3, Assumptions, Port!StrobesMeet
    DEF Port!StrobesMeet, Assumed, Standing
  <2> QED
    BY <2>1, <2>2, <2>3, <2>4, SameServer
<1> QED
  BY <1>1, SerialInvariance, PTL DEF NoStrobeLost

-----------------------------------------------------------------------------
(* What is on the line belongs to the call that is being made.             *)
LEMMA NothingAhead ==
  ASSUME KindInv, Ahead = <<>>
  PROVE  Len(rx) = 0 /\ Len(Due) = 0
<1>1. Left = 0
  BY DEF Left
<1> QED
  BY <1>1, DueBytes

LEMMA MatchingAnswers ==
  ASSUME KindInv, Line, initialized, tx # <<>>
  PROVE  \/ pc \in {"answer", "sendReport", "read", "receiveReport"}
         \/ pc = "data" /\ moved = Len(Sending)
<1>1. ~Resting
  BY DEF Line, BetweenCalls, Resting
<1>2. CASE pc \in PingPlaces
  BY <1>2 DEF Line, PingLine
<1>3. CASE pc \in SendPlaces
  <2>1. Ahead = <<>>
    BY <1>3 DEF Line, SendLine
  <2>2. Len(Due) = 0
    BY <2>1, NothingAhead
  <2>3. pc # "output"
    <3>1. pc = "output" => Len(Due) = 18 + Len(Sending)
      BY <1>3, SendLengths DEF Due
    <3> QED
      BY <1>3, <2>2, <3>1, SendLengths
  <2>4. pc # "send"
    <3>1. pc = "send" => Len(Due) = 9 + Len(Sending)
      BY <1>3, SendLengths DEF Due
    <3> QED
      BY <1>3, <2>2, <3>1, SendLengths
  <2>5. pc = "data" => moved = Len(Sending)
    <3> SUFFICES ASSUME pc = "data" PROVE moved = Len(Sending)
      OBVIOUS
    <3>1. moved \in Nat /\ moved <= Len(Sending) /\ Sending \in Seq(Byte) /\ Len(Sending) \in Nat
      BY <1>3, SendLengths DEF KindInv, TypeOK, ClientTypeOK, CallInv
    <3>2. Len(SubSeq(Sending, moved + 1, Len(Sending))) = Len(Sending) - moved
      BY <3>1, Remaining
    <3>3. Due = SubSeq(Sending, moved + 1, Len(Sending))
      BY DEF Due
    <3>4. Len(Sending) - moved = 0
      BY <2>2, <3>2, <3>3
    <3> QED
      BY <3>1, <3>4
  <2> QED
    BY <1>3, <2>3, <2>4, <2>5 DEF SendPlaces
<1>4. CASE pc \in ReceivePlaces
  <2>1. Ahead = <<>>
    BY <1>4 DEF Line, ReceiveLine
  <2>2. Len(Due) = 0
    BY <2>1, NothingAhead
  <2>3. pc \in {"input", "turn", "receive"} => Len(Due) \in {27, 18, 9}
    BY <1>4, ReceiveLengths DEF Due
  <2> QED
    BY <1>4, <2>2, <2>3 DEF ReceivePlaces
<1> QED
  BY <1>1, <1>2, <1>3, <1>4, Places

(* Nothing but a length says which answer bytes on the line to the PC      *)
(* belong to.  As long as the current call began in step, they are those   *)
(* of the answer that the driver waits for, whatever the sizes of the      *)
(* writes and whoever gives up when.                                       *)
THEOREM SerialAnswersMatch == Spec => []AnswersMatch
<1>1. SerialInv => AnswersMatch
  BY MatchingAnswers DEF SerialInv, Standing, AnswersMatch
<1> QED
  BY <1>1, SerialInvariance, PTL

LEMMA RestFrames ==
  ASSUME Line, Resting
  PROVE  Len(rx) \in {0, 9, 18, 27, 36}
<1>1. Len(<<>>) = 0
  OBVIOUS
<1>2. InputFrame \in Seq(Byte) /\ ResetFrame \in Seq(Byte)
      /\ Len(InputFrame) = 9 /\ Len(ResetFrame) = 9
  BY BasicFrames
<1>3. /\ InputFrame \o InputFrame \in Seq(Byte) /\ Len(InputFrame \o InputFrame) = 9 + 9
      /\ InputFrame \o ResetFrame \in Seq(Byte) /\ Len(InputFrame \o ResetFrame) = 9 + 9
      /\ ResetFrame \o InputFrame \in Seq(Byte) /\ Len(ResetFrame \o InputFrame) = 9 + 9
  <2>1. \A f, g \in Seq(Byte) : f \o g \in Seq(Byte) /\ Len(f \o g) = Len(f) + Len(g)
    BY Join
  <2> QED
    BY <1>2, <2>1
<1>4. /\ Len(InputFrame \o InputFrame) = 18 /\ Len(InputFrame \o ResetFrame) = 18
      /\ Len(ResetFrame \o InputFrame) = 18
  BY <1>3
<1>5. /\ InputFrame \o (InputFrame \o ResetFrame) \in Seq(Byte)
      /\ Len(InputFrame \o (InputFrame \o ResetFrame)) = 9 + 18
      /\ Len((InputFrame \o ResetFrame) \o InputFrame) = 18 + 9
  BY <1>2, <1>3, <1>4, Join
<1>6. /\ Len(InputFrame \o (InputFrame \o ResetFrame)) = 27
      /\ Len((InputFrame \o ResetFrame) \o InputFrame) = 27
  BY <1>5
<1>7. Len((InputFrame \o (InputFrame \o ResetFrame)) \o InputFrame) = 27 + 9
  BY <1>2, <1>5, <1>6, Join
<1>8. Len((InputFrame \o (InputFrame \o ResetFrame)) \o InputFrame) = 36
  BY <1>7
<1>9. \A f \in OnceReset : Len(f) \in {9, 18, 27} /\ Len(f \o InputFrame) \in {18, 27, 36}
  BY <1>2, <1>4, <1>6, <1>8 DEF OnceReset
<1>10. \/ rx \in {<<>>, InputFrame, InputFrame \o InputFrame}
       \/ rx \in OnceReset
       \/ \E f \in OnceReset : rx = f \o InputFrame
  BY DEF Line, Resting
<1>11. CASE rx \in {<<>>, InputFrame, InputFrame \o InputFrame}
  BY <1>1, <1>2, <1>4, <1>11
<1>12. CASE rx \in OnceReset
  BY <1>9, <1>12
<1>13. CASE \E f \in OnceReset : rx = f \o InputFrame
  BY <1>9, <1>13
<1> QED
  BY <1>10, <1>11, <1>12, <1>13

LEMMA PingFrames ==
  ASSUME KindInv, Line, pc \in PingPlaces
  PROVE  Len(rx) \in {0, 9, 18, 27, 36, 45, 54}
<1>1. CASE rx = <<>>
  BY <1>1
<1>2. CASE rx # <<>>
  <2>1. Left \in {9, 18, 27, 36, 45, 54}
    <3>1. Ahead \in {AskFrame, FromStrobe, FromWrite, FromOutput, InputFrame \o FromOutput,
                     InputFrame \o (InputFrame \o FromOutput)}
      BY <1>2 DEF Line, PingLine
    <3> QED
      BY <3>1, PingLengths, BasicFrames DEF Left
  <2>2. Len(Due) \in {36, 27, 18, 9, 0}
    BY PingLengths, BasicFrames DEF Due, PingPlaces
  <2>3. Left = Len(rx) + Len(Due) /\ Len(rx) \in Nat
    BY DueBytes
  <2> DEFINE n == Len(rx)  m == Len(Due)
  <2>4. n + m \in {9, 18, 27, 36, 45, 54} /\ m \in {36, 27, 18, 9, 0} /\ n \in Nat
    BY <2>1, <2>2, <2>3
  <2> HIDE DEF n, m
  <2>5. n \in {0, 9, 18, 27, 36, 45, 54}
    BY <2>4
  <2> QED
    BY <2>5 DEF n
<1> QED
  BY <1>1, <1>2

LEMMA SendFrames ==
  ASSUME KindInv, Line, pc \in {"output", "send"}, fpc = "frame"
  PROVE  Len(rx) \in {0, 9}
<1>1. pc \in SendPlaces /\ SendLine
  BY DEF Line, SendPlaces
<1>2. Left \in {18 + Len(Sending), 9 + Len(Sending), 0}
  <2>1. Ahead \in {OutputFrame \o FromSend, FromSend, <<>>}
    BY <1>1 DEF SendLine
  <2>2. Ahead = OutputFrame \o FromSend => Left = 18 + Len(Sending)
    BY <1>1, SendLengths DEF Left
  <2>3. Ahead = FromSend => Left = 9 + Len(Sending)
    BY <1>1, SendLengths DEF Left
  <2>4. Ahead = <<>> => Left = 0
    BY DEF Left
  <2> QED
    BY <2>1, <2>2, <2>3, <2>4
<1>3. Len(Due) = IF pc = "output" THEN 18 + Len(Sending) ELSE 9 + Len(Sending)
  <2>1. pc = "output" => Due = OutputFrame \o FromSend
    BY DEF Due
  <2>2. pc = "send" => Due = FromSend
    BY DEF Due
  <2>3. Len(OutputFrame \o FromSend) = 18 + Len(Sending) /\ Len(FromSend) = 9 + Len(Sending)
    BY <1>1, SendLengths
  <2> QED
    BY <2>1, <2>2, <2>3
<1>4. Len(Sending) \in Nat /\ Left = Len(rx) + Len(Due) /\ Len(rx) \in Nat
  BY <1>1, SendLengths, DueBytes
<1>5. \A a, b, c, n \in Nat :
        /\ a \in {18 + n, 9 + n, 0}
        /\ b = 18 + n \/ b = 9 + n
        /\ a = c + b
        => c \in {0, 9}
  OBVIOUS
<1>6. Left \in Nat /\ Len(Due) \in Nat
  BY DueBytes
<1>7. Len(Due) = 18 + Len(Sending) \/ Len(Due) = 9 + Len(Sending)
  BY <1>3
<1> QED
  BY <1>2, <1>4, <1>5, <1>6, <1>7

LEMMA ReceiveFrames ==
  ASSUME KindInv, Line, pc \in ReceivePlaces, fpc = "frame"
  PROVE  Len(rx) \in {0, 9, 18, 27}
<1>1. Left \in {27, 18, 9, 0}
  <2>1. Ahead \in {FromInput, FromTurn, ReceiveFrame, <<>>}
    BY DEF Line, ReceiveLine
  <2> QED
    BY <2>1, ReceiveLengths DEF Left
<1>2. Len(Due) \in {27, 18, 9, 0}
  BY ReceiveLengths DEF Due, ReceivePlaces
<1>3. Left = Len(rx) + Len(Due) /\ Len(rx) \in Nat
  BY DueBytes
<1>4. \A a \in {27, 18, 9, 0}, b \in {27, 18, 9, 0}, c \in Nat :
        a = c + b => c \in {0, 9, 18, 27}
  OBVIOUS
<1> QED
  BY <1>1, <1>2, <1>3, <1>4, Zenon

LEMMA Framed ==
  ASSUME KindInv, Line, fpc = "frame", pc \notin {"data", "sendReport"}
  PROVE  Len(rx) % FrameLength = 0
<1>1. Len(rx) \in {0, 9, 18, 27, 36, 45, 54}
  <2>1. CASE Resting
    BY <2>1, RestFrames
  <2>2. CASE pc \in PingPlaces
    BY <2>2, PingFrames
  <2>3. CASE pc \in SendPlaces
    <3>1. pc \in {"output", "send"}
      BY <2>3 DEF SendPlaces
    <3> QED
      BY <3>1, SendFrames
  <2>4. CASE pc \in ReceivePlaces
    BY <2>4, ReceiveFrames
  <2> QED
    BY <2>1, <2>2, <2>3, <2>4, Places
<1>2. \A n \in {0, 9, 18, 27, 36, 45, 54} : n % 9 = 0
  OBVIOUS
<1> QED
  BY <1>1, <1>2 DEF FrameLength

(* A command and the data after it look alike on the line.  As long as the *)
(* current call began in step, the board never takes one for the other,    *)
(* faults and calls out of step before it included.                        *)
THEOREM SerialFramed == Spec => [](clean => InFrame)
<1>1. SerialInv => (clean => InFrame)
  BY Framed DEF SerialInv, Standing, InFrame
<1> QED
  BY <1>1, SerialInvariance, PTL

-----------------------------------------------------------------------------
(* Nothing gets in the way: no fault, no reset, no transfer of no bytes,   *)
(* and a server in a ROM, which nobody installs anew in the middle of a    *)
(* command.                                                                *)
Undisturbed ==
  /\ Environment = {}
  /\ ServerType = "rom"
  /\ \A r \in Calls : r.op # "reset" /\ ~Port!Empty(r)

(* Then the server listens, and the strobe that begins a command is        *)
(* pending until it sees it.                                               *)
Kept == clean /\ Port!Attending /\ Port!FirstPending

LEMMA Heard ==
  ASSUME Standing, Port!Attending, ServerBlocked
  PROVE  ~flag
<1>1. Port!ServerBlocked /\ spc # "boot"
  BY SameServer, Assumptions, Port!NotBooting DEF Port!NotBooting, Assumed, Standing
<1> QED
  BY <1>1 DEF Port!ServerBlocked, Port!Listening, Port!Attending

LEMMA BoardWaits ==
  ASSUME KindInv, Standing, Port!Attending, Port!FirstPending, FwSendTimeout \/ FwRecvTimeout,
         ServerBlocked, ~Answered
  PROVE  FALSE
<1>1. Port!Together /\ Port!ServerBlocked /\ ~flag /\ Port!Level
  BY SameServer, Heard DEF Answered, Port!Level, Standing
<1>2. At \in {"wait", "rwait"}
  BY Transferring DEF FwSendTimeout, FwRecvTimeout
<1>3. Port!Waiting
  BY <1>2 DEF Port!Waiting
<1>4. spc = "main" /\ At = "wait" /\ Sent = 0
  BY <1>1, <1>2, <1>3, Assumptions, Port!Unheard DEF Port!Unheard, Assumed
<1> QED
  BY <1>1, <1>4 DEF Port!FirstPending

LEMMA Awaits ==
  ASSUME KindInv, At = "wait"
  PROVE  pc \in SendPlaces /\ fpc = "sendWait"
<1>1. CASE Resting
  BY <1>1, SeesRest DEF RestSeen, Resting
<1>2. CASE pc \in PingPlaces
  BY <1>2, PingView DEF WhilePinging
<1>3. CASE pc \in SendPlaces
  BY <1>3, SendView DEF WhileSending
<1>4. CASE pc \in ReceivePlaces
  BY <1>4, ReceiveView DEF WhileReceiving
<1> QED
  BY <1>1, <1>2, <1>3, <1>4, Places

LEMMA AwaitsNext == (KindInv /\ At = "wait" => pc \in SendPlaces /\ fpc = "sendWait")'
<1>1. KindInv /\ At = "wait" => pc \in SendPlaces /\ fpc = "sendWait"
  BY Awaits
<1> QED
  BY <1>1, PTL

LEMMA ReadyBetween ==
  ASSUME Undisturbed, KindInv, Standing, pc = "idle"
  PROVE  InStep
<1>1. Resting /\ req \in Calls
  BY DEF Resting, KindInv, TypeOK, ClientTypeOK
<1>2. At = "idle"
  BY <1>1, SeesRest DEF RestSeen
<1>3. ~Port!Stuck
  BY <1>1 DEF Undisturbed, Port!Stuck
<1>4. Port!InStep
  BY <1>2, <1>3 DEF Standing, Port!Together, Port!Paired, Port!After
<1>5. ServerReady /\ ~Answered
  BY <1>4, SameServer DEF Port!InStep, Answered
<1>6. fpc = "frame" /\ (initialized => tx = <<>>) /\ rx \in {<<>>, InputFrame}
  BY <1>1 DEF Undisturbed, Standing, Line, BetweenCalls
<1> QED
  BY <1>5, <1>6 DEF InStep, FirmwareReady

LEMMA ClientKeeps ==
  ASSUME KindInv, KindInv', Standing, Port!FirstPending, ClientStep, UNCHANGED server
  PROVE  Port!FirstPending'
<1>1. SUFFICES ASSUME At' = "wait" PROVE Port!FirstPending'
  BY DEF Port!FirstPending
<1>2. pc' \in SendPlaces /\ fpc' = "sendWait"
  BY <1>1, AwaitsNext
<1>3. UNCHANGED << userport, firmware >>
  BY DEF ClientStep, Open, OpenFails, Reset, PingOutput, PingWrite, PingStrobe, Ask, Answer,
     AskAgain, Output, Send, SendData, SendReport, Input, Turn, Receive, Read, ReceiveReport,
     Close, Writes, Reads
<1>4. fpc = "sendWait"
  BY <1>2, <1>3 DEF firmware
<1>5. pc \in SendPlaces /\ tx = <<>>
  BY <1>4, Places DEF Standing, Line, Resting, BetweenCalls, PingLine, SendLine, ReceiveLine
<1>6. ~SendReport
  <2>1. Len(<<>>) = 0
    OBVIOUS
  <2> QED
    BY <1>5, <2>1 DEF SendReport, Reads
<1>7. Output \/ Send \/ SendData
  BY <1>5, <1>6 DEF ClientStep, Open, OpenFails, Reset, PingOutput, PingWrite, PingStrobe, Ask,
     Answer, AskAgain, Input, Turn, Receive, Read, ReceiveReport, Close, Writes, Reads, SendPlaces
<1>8. /\ Ahead' = Ahead
      /\ UNCHANGED << firmware, tx, req, part, got, result >>
  BY <1>7, SendRunsAhead
<1>9. Found' <=> Found
  BY <1>2, <1>5 DEF Found, SendPlaces
<1>10. UNCHANGED << At, Sent >>
  BY <1>2, <1>5, <1>8, <1>9, SameView
<1>11. UNCHANGED << flag, spc, pa2, last >>
  BY <1>3 DEF userport, firmware, server
<1> QED
  BY <1>10, <1>11 DEF Port!FirstPending, Port!Level

LEMMA BoardKeeps ==
  ASSUME KindInv', FwStep
  PROVE  Port!FirstPending'
<1>1. SUFFICES ASSUME At' = "wait" PROVE flag'
  BY DEF Port!FirstPending
<1>2. fpc' = "sendWait"
  BY <1>1, AwaitsNext
<1>3. FwSendStrobe
  BY <1>2 DEF FwStep, FwStrobe, FwAcked, FwInput, FwOutput, FwRead, FwWrite, FwUnknown, FwSend,
     FwReceive, FwTransfer, Takes, FwSendByte, FwSent, FwOffered, FwRecvRead, FwRecvStrobe,
     firmware
<1> QED
  BY <1>3 DEF FwSendStrobe, strobe

LEMMA ServerKeepsUp ==
  ASSUME Undisturbed, KindInv, Standing, Port!Attending, Port!FirstPending, ServerProceeds
  PROVE  Port!Attending' /\ Port!FirstPending'
<1>1. /\ ServerStep /\ done' = IF Commits THEN done + 1 ELSE done
      /\ UNCHANGED << rx, tx, firmware, client, clean, budget >>
  BY DEF ServerProceeds
<1>2. Port!Keeping
  <2>1. UNCHANGED << At, Sent, Got, Result, req, last >>
    BY <1>1, ViewKept
  <2>2. done' = IF Port!Commits THEN done + 1 ELSE done
    BY <1>1, SameSteps
  <2> QED
    BY <2>1, <2>2 DEF Port!Keeping, Port!client
<1>3. Port!ServerStep /\ Port!Together
  BY <1>1, SameSteps DEF Standing
<1>4. "mask" \notin Environment /\ (ServerType = "ram" => req.op # "run")
  BY DEF Undisturbed
<1>5. Port!Attending'
  BY <1>2, <1>3, <1>4, Assumptions, Port!StepAttending DEF Port!StepAttending, Assumed
<1>6. Port!FirstPending'
  BY <1>2, <1>3, Assumptions, Port!StaysPending DEF Port!StaysPending, Assumed
<1> QED
  BY <1>5, <1>6

LEMMA StepKept ==
  ASSUME Undisturbed, SerialInv, Kept, [Next]_vars
  PROVE  Kept'
<1>1. KindInv /\ KindInv' /\ Standing /\ clean /\ Port!Attending /\ Port!FirstPending
  BY StepKinds DEF SerialInv, Kept
<1>2. ASSUME UNCHANGED server PROVE Port!Attending'
  BY <1>1, <1>2 DEF Port!Attending, Port!Handler, server
<1>3. ASSUME At' # "wait" PROVE Port!FirstPending'
  BY <1>3 DEF Port!FirstPending
<1>4. ASSUME pc' \notin SendPlaces PROVE Port!FirstPending'
  BY <1>1, <1>3, <1>4, AwaitsNext
<1>5. CASE NewCall
  <2>1. clean' = InStep /\ pc = "idle" /\ pc' = "open" /\ UNCHANGED server
    BY <1>5, Zenon DEF NewCall, Call
  <2>2. InStep
    BY <1>1, <2>1, ReadyBetween
  <2> QED
    BY <1>2, <1>4, <2>1, <2>2 DEF Kept, SendPlaces
<1>6. CASE ClientProceeds
  BY <1>1, <1>2, <1>6, ClientKeeps DEF ClientProceeds, Kept
<1>7. CASE FirmwareProceeds
  BY <1>1, <1>2, <1>7, BoardKeeps DEF FirmwareProceeds, Kept
<1>8. CASE PingGivesUp
  <2>1. ~flag /\ pc' = "close" /\ UNCHANGED server
    BY <1>1, <1>8, Heard DEF PingGivesUp, GiveUp
  <2>2. clean' = (clean /\ ~flag)
    BY <1>8 DEF PingGivesUp
  <2>3. clean'
    BY <1>1, <2>1, <2>2, Zenon
  <2> QED
    BY <1>2, <1>4, <2>1, <2>3 DEF Kept, SendPlaces
<1>9. CASE NextProcess
  BY <1>1, <1>2, <1>4, <1>9 DEF NextProcess, NewProcess, Kept, SendPlaces
<1>10. CASE ServerProceeds
  BY <1>1, <1>10, ServerKeepsUp DEF ServerProceeds, Kept
<1>11. CASE UNCHANGED vars
  <2>1. UNCHANGED << userport, rx, tx, firmware, client, server, clean >>
    BY <1>11 DEF vars
  <2>2. UNCHANGED << At, Sent, spc, pa2, last, flag >>
    BY <2>1, ViewKept DEF userport, server
  <2> QED
    BY <1>1, <1>2, <2>1, <2>2 DEF Kept, Port!FirstPending, Port!Level
<1>12. ~FirmwareGivesUp
  BY <1>1, BoardWaits DEF FirmwareGivesUp
<1>13. ~FirmwareResets
  <2>1. req \in Calls
    BY <1>1 DEF KindInv, TypeOK, ClientTypeOK
  <2> QED
    BY <1>1, <2>1, Taken DEF FirmwareResets, Undisturbed
<1>14. ~UserInstalls /\ ~ForegroundRuns /\ ~Fault
  BY DEF Undisturbed, UserInstalls, Install, ForegroundRuns, Foreground, Fault, LateAnswer,
     Killed, PowerCycle
<1> QED
  BY <1>5, <1>6, <1>7, <1>8, <1>9, <1>10, <1>11, <1>12, <1>13, <1>14 DEF Next

LEMMA InitKept == Init => Kept
<1> SUFFICES ASSUME Init PROVE Kept
  OBVIOUS
<1>1. /\ pc = "idle" /\ clean /\ vector = Handler /\ ~masked /\ spc = "main"
  BY DEF Init, ClientInit, ServerInit
<1>2. At # "wait"
  BY <1>1, InitKinds, Awaits DEF SendPlaces
<1> QED
  BY <1>1, <1>2, SameServer DEF Kept, Port!Attending, Port!FirstPending

(* For any sequence of calls, failed ones included: if nothing gets in the *)
(* way, the server is where the next call needs it, the line is empty but  *)
(* for a command to release the cable, and the board and the C64 agree on  *)
(* PA2.  No timeout of the board ends a transfer.                          *)
THEOREM SerialStaysInStep ==
  ASSUME Undisturbed
  PROVE  Spec => []NeverOutOfStep
<1>1. Init => Kept
  BY InitKept
<1>2. SerialInv /\ Kept /\ [Next]_vars => Kept'
  BY StepKept
<1>3. SerialInv /\ Kept => NeverOutOfStep
  BY ReadyBetween DEF SerialInv, Kept, NeverOutOfStep
<1> QED
  BY <1>1, <1>2, <1>3, SerialInvariance, PTL DEF Spec

(* Then the board takes commands and data for what they are, all the time. *)
THEOREM SerialStaysFramed ==
  ASSUME Undisturbed
  PROVE  Spec => []InFrame
<1>1. Init => Kept
  BY InitKept
<1>2. SerialInv /\ Kept /\ [Next]_vars => Kept'
  BY StepKept
<1>3. SerialInv /\ Kept => InFrame
  BY Framed DEF SerialInv, Standing, Kept, InFrame
<1> QED
  BY <1>1, <1>2, <1>3, SerialInvariance, PTL DEF Spec

-----------------------------------------------------------------------------
(* What a caller sees of the two ends is the same, seen from either driver. *)
LEMMA SameStore ==
  /\ Port!Store = Store /\ Port!Entry = Entry
  /\ \A r, n : Port!LoadsBasic(r, n) <=> LoadsBasic(r, n)
  /\ Port!NoCall = NoCall
<1>1. Port!RelinkDue <=> RelinkDue
  BY SameHelpers, SameServer DEF Port!RelinkDue, RelinkDue
<1>2. Port!Store = Store
  BY <1>1, SameHelpers, SameServer DEF Port!Store, Store, Port!bend, bend
<1>3. Port!Entry = Entry
  BY SameServer DEF Port!Entry, Entry
<1>4. \A r, n : Port!LoadsBasic(r, n) <=> LoadsBasic(r, n)
  BY <1>2, SameHelpers DEF Port!LoadsBasic, LoadsBasic, Port!bstart, bstart
<1>5. Port!NoCall = NoCall
  BY DEF Port!NoCall, NoCall, Port!Request, Request
<1> QED
  BY <1>2, <1>3, <1>4, <1>5

LEMMA SameStoreNext == (Port!Store = Store /\ Port!Entry = Entry)'
<1>1. Port!Store = Store /\ Port!Entry = Entry
  BY SameStore
<1> QED
  BY <1>1, PTL

LEMMA StoreStays ==
  ASSUME UNCHANGED server
  PROVE  Store' = Store /\ Entry' = Entry /\ isBasic' = isBasic
BY DEF server, Store, RelinkDue, TransferEnd, Entry

LEMMA UserLeavesStore ==
  ASSUME Install \/ Foreground
  PROVE  Store' = Store /\ Entry' = Entry /\ isBasic' = isBasic
<1>1. CASE Install
  BY <1>1 DEF Install, Store, RelinkDue, Entry
<1>2. CASE Foreground
  BY <1>2 DEF Foreground, Store, RelinkDue, Entry
<1> QED
  BY <1>1, <1>2

(* The driver reads a byte of the reply later than the board, and has to   *)
(* remember what it was: whatever the PC has got or has on its way, is     *)
(* what the server holds there.                                            *)
ReplyOf(i) ==
  IF req.op = "identify" THEN Info(Store)[i] ELSE Cell(Store, Wrap(req.at + (i - 1)))

Replied == pc \in ReceivePlaces => \A i \in 1 .. Len(Got) : Got[i] = ReplyOf(i)

LEMMA ReplyKept ==
  ASSUME Replied, pc \in ReceivePlaces, Got' = Got, req' = req, Store' = Store
  PROVE  Replied'
<1>1. \A i : ReplyOf(i)' = ReplyOf(i)
  BY DEF ReplyOf
<1> QED
  BY <1>1 DEF Replied

LEMMA ReplyGrows ==
  ASSUME KindInv, Standing, Replied, pc \in ReceivePlaces, Port!Read,
         UNCHANGED << server, done, req >>
  PROVE  Replied'
<1>1. Port!Together /\ Port!Reading /\ At \in Port!Receiving /\ spc = "wrWait"
  BY DEF Standing, Port!Together, Port!Paired, Port!Read, Port!Reading, Port!Receiving
<1>2. Got' = Append(Got, NextByte)
  <2>1. UNCHANGED << Port!server, done >>
    BY SameCable DEF Port!server, server
  <2>2. Got' = Append(Got, Port!NextByte)
    BY <1>1, <2>1, Assumptions, Port!ReadPaired DEF Port!ReadPaired, Assumed
  <2> QED
    BY <2>2, SameServer
<1>3. /\ req.op = "identify" => NextByte = Info(mem)[Len(Got) + 1]
      /\ req.op # "identify" => NextByte = Cell(mem, Wrap(req.at + Len(Got)))
  <2>1. /\ req.op = "identify" => Port!NextByte = Port!Info(mem)[Len(Got) + 1]
        /\ req.op # "identify" => Port!NextByte = Port!Cell(mem, Port!Wrap(req.at + Len(Got)))
    BY <1>1, Assumptions, Port!ReplyByte DEF Port!ReplyByte, Assumed
  <2> QED
    BY <2>1, SameServer, SameHelpers
<1>4. Store = mem /\ \A i : ReplyOf(i)' = ReplyOf(i)
  <2>1. Store' = Store
    BY StoreStays
  <2> QED
    BY <1>1, <2>1 DEF Store, RelinkDue, ReplyOf
<1>5. Got \in Seq(Byte) /\ Len(Got) \in Nat
  BY ReceiveCounts DEF Standing
<1>6. /\ Len(Got') = Len(Got) + 1
      /\ \A i \in 1 .. Len(Got) : Got'[i] = Got[i]
      /\ Got'[Len(Got) + 1] = NextByte
  BY <1>2, <1>5
<1>7. NextByte = ReplyOf(Len(Got) + 1)
  <2>1. (Len(Got) + 1) - 1 = Len(Got)
    BY <1>5
  <2> QED
    BY <1>3, <1>4, <2>1 DEF ReplyOf
<1>8. \A i \in 1 .. Len(Got) : Got[i] = ReplyOf(i)
  BY DEF Replied
<1>9. \A i \in 1 .. Len(Got') : i \in 1 .. Len(Got) \/ i = Len(Got) + 1
  BY <1>5, <1>6
<1>10. \A i \in 1 .. Len(Got') : Got'[i] = ReplyOf(i)'
  BY <1>4, <1>6, <1>7, <1>8, <1>9
<1> QED
  BY <1>10 DEF Replied

(* The server commits nothing while the PC receives.                       *)
LEMMA NothingCommitted ==
  ASSUME KindInv, Standing, clean, pc \in ReceivePlaces, ServerProceeds
  PROVE  Store' = Store /\ Entry' = Entry /\ done' = done
<1>1. /\ ServerStep /\ done' = IF Commits THEN done + 1 ELSE done
      /\ UNCHANGED << rx, tx, firmware, client, clean, budget >>
  BY DEF ServerProceeds
<1>2. At \notin {"pingWait", "wait"}
  BY ReceiveView DEF WhileReceiving
<1>3. ~Port!Commits
  <2> SUFFICES ASSUME Port!Commits PROVE FALSE
    OBVIOUS
  <2>1. spc \in {"ack", "rdAck", "ldLatch"}
    BY DEF Port!Commits, Port!SrvLoadStore, Port!SrvReadAck, Port!SrvAck
  <2> QED
    BY <1>2, <2>1, Assumptions, Port!Arriving DEF Port!Arriving, Assumed, Standing
<1>4. Port!IndInv /\ Port!ServerStep
  BY <1>1, SameSteps DEF Standing, Port!Together, Port!IndInv
<1>5. done' = done
  BY <1>1, <1>3, SameSteps
<1>6. Port!Keeping
  <2>1. UNCHANGED << At, Sent, Got, Result, req, last >>
    BY <1>1, ViewKept
  <2> QED
    BY <1>3, <1>5, <2>1 DEF Port!Keeping, Port!client
<1>7. UNCHANGED Port!Remote!vars
  BY <1>1, <1>3, <1>4, <1>6, Assumptions, Port!ServerHides DEF Port!ServerHides, Assumed
<1>8. Port!Store' = Port!Store /\ Port!Entry' = Port!Entry
  BY <1>7 DEF Port!Remote!vars
<1> QED
  BY <1>5, <1>8, SameStore, SameStoreNext

LEMMA ClientReplied ==
  ASSUME KindInv, KindInv', Standing, Replied, ClientStep, pc' \in ReceivePlaces,
         UNCHANGED << server, done, clean, budget >>
  PROVE  Replied'
<1>1. \/ SendReport \/ Input \/ Turn \/ Receive \/ Read \/ ReceiveReport
  BY DEF ClientStep, Open, OpenFails, Reset, PingOutput, PingWrite, PingStrobe, Ask, Answer,
     AskAgain, Output, Send, SendData, Close, Writes, Reads, ReceivePlaces
<1>2. Store' = Store
  BY StoreStays
<1>3. CASE SendReport
  <2>1. Got' = <<>>
    <3>1. pc' = "input"
      BY <1>3 DEF SendReport, ReceivePlaces
    <3> QED
      BY <1>3, <3>1, SendReportStands
  <2>2. 1 .. Len(<<>>) = {}
    OBVIOUS
  <2> QED
    BY <2>1, <2>2 DEF Replied
<1>4. CASE Input \/ Turn \/ Receive
  <2>1. /\ Ahead' = Ahead /\ pc \in {"input", "turn", "receive"}
        /\ UNCHANGED << userport, firmware, tx, req, part, got, initialized, result >>
    BY <1>4, ReceiveRunsAhead
  <2>2. pc \in ReceivePlaces /\ ~Found /\ ~Found'
    BY <2>1 DEF ReceivePlaces, Found
  <2>3. Got' = Got
    BY <2>1, <2>2, SameView
  <2> QED
    BY <1>2, <2>1, <2>2, <2>3, ReplyKept
<1>5. CASE Read
  <2>1. pc \in ReceivePlaces /\ req' = req
    BY <1>5 DEF Read, Reads, ReceivePlaces
  <2>2. Got' = Got
    BY <1>5, ReadStands
  <2> QED
    BY <1>2, <2>1, <2>2, ReplyKept
<1>6. CASE ReceiveReport
  <2>1. pc \in ReceivePlaces /\ req' = req /\ pc' = "receive"
    BY <1>6 DEF ReceiveReport, Reads, ReceivePlaces
  <2>2. Got' = Got
    BY <1>6, <2>1, ReceiveReportStands
  <2> QED
    BY <1>2, <2>1, <2>2, ReplyKept
<1> QED
  BY <1>1, <1>3, <1>4, <1>5, <1>6

LEMMA StepReplied ==
  ASSUME SerialInv, clean => Replied, [Next]_vars
  PROVE  clean' => Replied'
<1>1. SUFFICES ASSUME clean', pc' \in ReceivePlaces PROVE Replied'
  BY DEF Replied
<1>2. KindInv /\ KindInv'
  BY StepKinds DEF SerialInv
<1>3. ASSUME clean' = clean PROVE Standing /\ Replied /\ clean
  <2>1. clean
    BY <1>1, <1>3, Zenon
  <2> QED
    BY <2>1 DEF SerialInv
<1>4. ~NewCall /\ ~PingGivesUp /\ ~NextProcess
  BY <1>1 DEF NewCall, Call, PingGivesUp, GiveUp, NextProcess, NewProcess, ReceivePlaces
<1>5. ~FirmwareResets /\ ~Fault
  BY <1>1 DEF FirmwareResets, Fault, LateAnswer, Killed, PowerCycle
<1>6. CASE ClientProceeds
  BY <1>1, <1>2, <1>3, <1>6, ClientReplied DEF ClientProceeds
<1>7. CASE FirmwareProceeds
  <2>1. /\ FwStep /\ UNCHANGED << client, server, clean, done, budget >>
    BY <1>7 DEF FirmwareProceeds
  <2>2. pc' = pc /\ req' = req
    BY <2>1 DEF client
  <2>3. Got' = Got \/ Port!Read
    BY <1>1, <1>2, <1>3, <2>1, <2>2, ReceiveFirmwareStands
  <2>4. Store' = Store
    BY <2>1, StoreStays
  <2> QED
    BY <1>1, <1>2, <1>3, <2>1, <2>2, <2>3, <2>4, ReplyKept, ReplyGrows
<1>8. ~FirmwareGivesUp
  <2> SUFFICES ASSUME FirmwareGivesUp PROVE FALSE
    OBVIOUS
  <2>1. pc' = pc
    BY DEF FirmwareGivesUp, client
  <2>2. clean' = (clean /\ ~flag /\ count + 1 # size /\ pc # "data")
    BY DEF FirmwareGivesUp
  <2>3. clean
    BY <1>1, <2>2, Zenon
  <2>4. Standing /\ ReceiveLine
    BY <1>1, <2>1, <2>3 DEF SerialInv, Standing, Line
  <2>5. ~FwSendTimeout
    BY <2>4 DEF ReceiveLine, FwSendTimeout
  <2>6. FwRecvTimeout
    BY <2>5 DEF FirmwareGivesUp
  <2> QED
    BY <1>1, <1>2, <2>4, <2>6, ReceiveGoesOn
<1>9. CASE ServerProceeds \/ UserInstalls \/ ForegroundRuns \/ UNCHANGED vars
  <2>1. UNCHANGED << rx, tx, firmware, client, clean >>
    BY <1>9 DEF ServerProceeds, UserInstalls, ForegroundRuns, others, vars
  <2>2. Got' = Got /\ req' = req /\ pc' = pc
    BY <2>1, ViewKept DEF client
  <2>3. Standing /\ Replied /\ clean
    BY <1>3, <2>1
  <2>4. Store' = Store
    <3>1. CASE ServerProceeds
      BY <1>1, <1>2, <2>2, <2>3, <3>1, NothingCommitted
    <3>2. CASE UserInstalls \/ ForegroundRuns
      BY <3>2, UserLeavesStore DEF UserInstalls, ForegroundRuns
    <3>3. CASE UNCHANGED vars
      BY <3>3, StoreStays DEF vars
    <3> QED
      BY <1>9, <3>1, <3>2, <3>3
  <2> QED
    BY <1>1, <2>2, <2>3, <2>4, ReplyKept
<1> QED
  BY <1>4, <1>5, <1>6, <1>7, <1>8, <1>9 DEF Next

-----------------------------------------------------------------------------
(* The variables of RemoteMemory as the serial line maps them; the         *)
(* parallel port maps all but the reply alike.                             *)
BasicNow == pc # "idle" /\ LoadsBasic(req, done)
CallNow  == IF pc = "idle" THEN NoCall ELSE req
DoneNow  == IF pc = "idle" THEN 0 ELSE done
Outcome  == pc = "idle" /\ result

SeenAlike ==
  /\ Port!Store = Store /\ Port!Entry = Entry
  /\ (At # "idle" /\ Port!LoadsBasic(req, done)) = BasicNow
  /\ (IF At = "idle" THEN Port!NoCall ELSE req) = CallNow
  /\ (IF At = "idle" THEN 0 ELSE done) = DoneNow

LEMMA CallSeen ==
  ASSUME KindInv
  PROVE  SeenAlike
<1>1. At = "idle" <=> pc = "idle"
  <2>1. CASE Resting
    BY <2>1, SeesRest DEF RestSeen, Resting
  <2>2. CASE pc \in PingPlaces
    BY <2>2, PingView DEF WhilePinging, PingPlaces
  <2>3. CASE pc \in SendPlaces
    BY <2>3, SendView DEF WhileSending, SendPlaces
  <2>4. CASE pc \in ReceivePlaces
    BY <2>4, ReceiveView DEF WhileReceiving, ReceivePlaces
  <2> QED
    BY <2>1, <2>2, <2>3, <2>4, Places
<1>2. (At # "idle" /\ Port!LoadsBasic(req, done)) = BasicNow
  BY <1>1, SameStore, Zenon DEF BasicNow
<1> QED
  BY <1>1, <1>2, SameStore DEF SeenAlike, CallNow, DoneNow

LEMMA CallSeenNext == (KindInv => SeenAlike)'
<1>1. KindInv => SeenAlike
  BY CallSeen
<1> QED
  BY <1>1, PTL

(* All three specifications mean the same by a request and by a memory.    *)
LEMMA SameMemory ==
  /\ Remote!NoCall = NoCall
  /\ \A a : Remote!Wrap(a) = Wrap(a)
  /\ \A m, a : Remote!Cell(m, a) = Cell(m, a)
  /\ \A m, a : Remote!CellWord(m, a) = CellWord(m, a)
  /\ \A a : Port!Remote!Wrap(a) = Remote!Wrap(a)
  /\ \A m, a, v : Port!Remote!Put(m, a, v) = Remote!Put(m, a, v)
  /\ \A m, a, w : Port!Remote!PutWord(m, a, w) = Remote!PutWord(m, a, w)
<1>1. Remote!NoCall = NoCall
  BY DEF Remote!NoCall, NoCall, Remote!Request, Request
<1>2. \A a : Remote!Wrap(a) = Wrap(a)
  BY DEF Remote!Wrap, Wrap, Remote!AddressSpace, AddressSpace
<1>3. \A m, a : Remote!Cell(m, a) = Cell(m, a)
  BY DEF Remote!Cell, Cell
<1>4. \A m, a : Remote!CellWord(m, a) = CellWord(m, a)
  BY <1>2, <1>3 DEF Remote!CellWord, CellWord, Remote!Word, Word
<1>5. \A a : Port!Remote!Wrap(a) = Remote!Wrap(a)
  BY DEF Port!Remote!Wrap, Remote!Wrap, Port!Remote!AddressSpace, Remote!AddressSpace
<1>6. \A m, a, v : Port!Remote!Put(m, a, v) = Remote!Put(m, a, v)
  BY DEF Port!Remote!Put, Remote!Put
<1>7. \A w : Port!Remote!lo(w) = Remote!lo(w) /\ Port!Remote!hi(w) = Remote!hi(w)
  BY DEF Port!Remote!lo, Remote!lo, Port!Remote!hi, Remote!hi
<1>8. \A m, a, w : Port!Remote!PutWord(m, a, w) = Remote!PutWord(m, a, w)
  BY <1>5, <1>6, <1>7 DEF Port!Remote!PutWord, Remote!PutWord
<1> QED
  BY <1>1, <1>2, <1>3, <1>4, <1>5, <1>6, <1>8

(* What a caller would not notice, but perhaps for a byte of its reply. *)
LEMMA CallHides ==
  ASSUME pc # "idle", pc' # "idle", UNCHANGED << req, server, done >>
  PROVE  UNCHANGED << Store, Entry, BasicNow, CallNow, DoneNow, Outcome >>
<1>1. Store' = Store /\ Entry' = Entry /\ isBasic' = isBasic
  BY StoreStays
<1>2. LoadsBasic(req, done)' <=> LoadsBasic(req, done)
  BY <1>1 DEF LoadsBasic
<1>3. BasicNow' = BasicNow
  BY <1>2, Zenon DEF BasicNow
<1>4. Outcome' = Outcome
  BY Zenon DEF Outcome
<1> QED
  BY <1>1, <1>3, <1>4 DEF CallNow, DoneNow

LEMMA NothingShown ==
  ASSUME UNCHANGED << Store, Entry, BasicNow, CallNow, DoneNow, got, Outcome, clean >>
  PROVE  UNCHANGED Remote!vars
BY DEF Remote!vars, BasicNow, CallNow, DoneNow, Outcome

LEMMA InitPromised == Init => Remote!Init
<1> SUFFICES ASSUME Init PROVE Remote!Init
  OBVIOUS
<1>1. spc = "main" /\ pc = "idle" /\ got = <<>> /\ result = FALSE
  BY DEF Init, ClientInit, ServerInit
<1>2. Store = InitMem /\ Entry = [kind |-> "none", at |-> 0]
  BY <1>1 DEF Init, ServerInit, Store, RelinkDue, Entry
<1>3. (pc # "idle" /\ LoadsBasic(req, done)) = FALSE /\ (pc = "idle" /\ result) = FALSE
  BY <1>1, Zenon
<1> QED
  BY <1>1, <1>2, <1>3, SameMemory DEF Remote!Init, Init

(* A call begins, ... *)
LEMMA CallPromised ==
  ASSUME KindInv, NewCall
  PROVE  Remote!Begin /\ CallNow = Remote!NoCall
<1>1. /\ pc = "idle" /\ pc' = "open" /\ req' \in Calls /\ done' = 0
      /\ got' = <<>> /\ UNCHANGED server
  BY DEF NewCall, Call, KindInv, CallInv, Preparing
<1>2. Store' = Store /\ Entry' = Entry
  BY <1>1, StoreStays
<1>3. BasicNow' = (req'.op = "load" /\ req'.at = Remote!CellWord(Store, 43))
  <2>1. LoadsBasic(req, done)' <=> (req'.op = "load" /\ req'.at = Remote!CellWord(Store, 43))
    BY <1>1, <1>2, SameMemory DEF LoadsBasic, bstart
  <2> QED
    BY <1>1, <2>1, Zenon DEF BasicNow
<1>4. Outcome' = FALSE
  BY <1>1, Zenon DEF Outcome
<1>5. CallNow' = req' /\ DoneNow' = 0 /\ CallNow = Remote!NoCall
  BY <1>1, SameMemory DEF CallNow, DoneNow
<1>6. Remote!Begin
  BY <1>1, <1>2, <1>3, <1>4, <1>5 DEF Remote!Begin, BasicNow, CallNow, DoneNow, Outcome
<1> QED
  BY <1>5, <1>6

(* ... and ends: with success when all of it is done, with failure when    *)
(* nothing is.                                                             *)
LEMMA ReturnPromised ==
  ASSUME KindInv, Standing, OpenFails \/ Close, UNCHANGED << server, done >>
  PROVE  Remote!Proceed
<1>1. /\ pc \in {"open", "close"} /\ pc' = "idle" /\ got' = <<>> /\ result' = result
      /\ result \in BOOLEAN /\ req \in Calls
  <2>1. CASE OpenFails
    BY <2>1 DEF OpenFails, KindInv, TypeOK, ClientTypeOK, CallInv, Preparing
  <2>2. CASE Close
    BY <2>2 DEF Close, Writes, KindInv, TypeOK, ClientTypeOK
  <2> QED
    BY <2>1, <2>2
<1>2. At = (IF pc = "close" THEN "closeInput" ELSE pc) /\ Got = got /\ Result = result
  BY <1>1, SeesRest DEF RestSeen, Resting
<1>3. Port!Outcome
  <2>1. CASE pc = "open"
    <3>1. ~result /\ got = <<>>
      BY <2>1 DEF KindInv, CallInv, Preparing
    <3>2. done = 0
      BY <1>2, <2>1 DEF Standing, Port!Together, Port!Paired, Port!Before, Port!Resting
    <3> QED
      BY <1>2, <3>1, <3>2 DEF Port!Outcome
  <2>2. CASE pc = "close"
    BY <1>2, <2>2 DEF Standing, Port!Together, Port!Paired
  <2> QED
    BY <1>1, <2>1, <2>2
<1>4. CallNow = req /\ DoneNow = done
  BY <1>1 DEF CallNow, DoneNow
<1>5. CallNow # Remote!NoCall
  <2>1. req.op # "none"
    BY <1>1, CallsAssumption DEF CallsAssumption, RequestType
  <2>2. NoCall.op = "none"
    BY DEF NoCall, Request
  <2> QED
    BY <1>4, <2>1, <2>2, SameMemory
<1>6. result => Remote!Complete
  <2>1. Len(Info(Store)) = 15
    BY DEF Info
  <2> QED
    BY <1>2, <1>3, <1>4, <2>1
    DEF Remote!Complete, Port!Outcome, Port!Achieved, CallNow, DoneNow
<1>7. ~result => DoneNow = 0 /\ got = <<>>
  BY <1>2, <1>3, <1>4 DEF Port!Outcome
<1>8. Store' = Store /\ Entry' = Entry
  BY StoreStays
<1>9. CallNow' = Remote!NoCall /\ DoneNow' = 0
  BY <1>1, SameMemory DEF CallNow, DoneNow
<1>10. BasicNow' = FALSE /\ Outcome' = result
  BY <1>1, Zenon DEF BasicNow, Outcome
<1>11. Remote!Return(result)
  BY <1>1, <1>5, <1>6, <1>7, <1>8, <1>9, <1>10
  DEF Remote!Return, BasicNow, CallNow, DoneNow, Outcome
<1> QED
  BY <1>1, <1>11 DEF Remote!Proceed

LEMMA DataNext == (KindInv => Data \in Seq(Byte))'
<1>1. KindInv => Data \in Seq(Byte)
  BY DataBytes
<1> QED
  BY <1>1, PTL

(* A byte that the driver reads is the next one of what was asked for, ... *)
LEMMA ReadPromised ==
  ASSUME KindInv, KindInv', Standing, Replied, Read,
         UNCHANGED << server, done, clean, budget >>
  PROVE  Remote!Proceed
<1>1. /\ pc = "read" /\ pc' \in ReceivePlaces /\ moved < Wanted
      /\ got' = Append(got, tx[1]) /\ Len(tx) >= 1
      /\ UNCHANGED << firmware, req >>
  BY DEF Read, Reads, KindInv, CallInv, ReceivePlaces
<1>2. pc \in ReceivePlaces /\ Naming
  BY <1>1 DEF ReceivePlaces, Standing
<1>3. /\ got \in Seq(Byte) /\ Len(got) \in Nat /\ Len(got) = Prior + moved
      /\ Prior + Wanted <= Total /\ Prior \in Nat /\ Wanted \in Nat /\ Total \in Nat
      /\ req.op \in {"save", "peek", "identify"}
  BY <1>1, <1>2, ReceiveCounts
<1>4. Len(got) < Total
  <2>1. moved \in Nat
    BY DEF KindInv, TypeOK, ClientTypeOK
  <2> QED
    BY <1>1, <1>3, <2>1
<1>5. Got = got' \o Data'
  <2>1. Got' = Got
    BY ReadStands
  <2>2. Got' = got' \o Data'
    BY <1>1, SeenNext DEF ReceiveSeen
  <2> QED
    BY <2>1, <2>2
<1>6. /\ got' \in Seq(Byte) /\ Len(got') = Len(got) + 1
      /\ got'[Len(got) + 1] = tx[1]
  <2>1. got' \in Seq(Byte)
    BY DEF KindInv, TypeOK, ClientTypeOK
  <2> QED
    BY <1>1, <1>3, <2>1
<1>7. Len(got) + 1 \in 1 .. Len(Got) /\ Got[Len(got) + 1] = tx[1]
  <2>1. Data' \in Seq(Byte)
    BY DataNext
  <2> QED
    BY <1>3, <1>5, <1>6, <2>1
<1>8. tx[1] = ReplyOf(Len(got) + 1)
  BY <1>2, <1>7 DEF Replied
<1>9. UNCHANGED << Store, Entry, BasicNow, CallNow, DoneNow, Outcome >> /\ CallNow = req
  <2>1. pc # "idle" /\ pc' # "idle"
    BY <1>1 DEF ReceivePlaces
  <2> QED
    BY <1>1, <2>1, CallHides DEF CallNow
<1>10. CASE req.op = "identify"
  <2>1. got' = Append(got, Info(Store)[Len(got) + 1])
    BY <1>1, <1>8, <1>10 DEF ReplyOf
  <2>2. Len(got) < Len(Info(Store))
    <3>1. Len(Info(Store)) = 15
      BY DEF Info
    <3> QED
      BY <1>4, <1>10, <3>1 DEF Total
  <2>3. Remote!ReadIdentification
    BY <1>9, <1>10, <2>1, <2>2
    DEF Remote!ReadIdentification, BasicNow, CallNow, DoneNow, Outcome
  <2> QED
    BY <2>3 DEF Remote!Proceed
<1>11. CASE req.op \in {"save", "peek"}
  <2>1. got' = Append(got, Remote!Cell(Store, Remote!Wrap(req.at + Len(got))))
    <3>1. (Len(got) + 1) - 1 = Len(got)
      BY <1>3
    <3>2. ReplyOf(Len(got) + 1) = Cell(Store, Wrap(req.at + Len(got)))
      BY <1>11, <3>1 DEF ReplyOf
    <3> QED
      BY <1>1, <1>8, <3>2, SameMemory
  <2>2. Len(got) < req.want
    BY <1>4, <1>11 DEF Total
  <2>3. Remote!ReadCell
    BY <1>9, <1>11, <2>1, <2>2 DEF Remote!ReadCell, BasicNow, CallNow, DoneNow, Outcome
  <2> QED
    BY <2>3 DEF Remote!Proceed
<1> QED
  BY <1>3, <1>10, <1>11

(* ... and nothing else that the driver does is seen by its caller.        *)
LEMMA ClientPromised ==
  ASSUME KindInv, KindInv', Standing, Replied, ClientProceeds
  PROVE  [Remote!Proceed]_(Remote!vars)
<1>1. ClientStep /\ UNCHANGED << server, clean, done, budget >>
  BY DEF ClientProceeds
<1>2. CASE OpenFails \/ Close
  BY <1>1, <1>2, ReturnPromised
<1>3. CASE Read
  BY <1>1, <1>3, ReadPromised
<1>4. CASE ~OpenFails /\ ~Close /\ ~Read
  <2>1. pc # "idle" /\ pc' # "idle" /\ UNCHANGED << req, got >>
    BY <1>1, <1>4 DEF ClientStep, Open, Reset, PingOutput, PingWrite, PingStrobe, Ask, Answer,
       AskAgain, Output, Send, SendData, SendReport, Input, Turn, Receive, ReceiveReport, Writes,
       Reads, rest
  <2> QED
    BY <1>1, <2>1, CallHides, NothingShown
<1> QED
  BY <1>2, <1>3, <1>4

(* A step of the server does what the parallel port promises.              *)
LEMMA ServerPromised ==
  ASSUME KindInv, KindInv', Standing, clean, ServerProceeds
  PROVE  [Remote!Proceed]_(Remote!vars)
<1>1. /\ ServerStep /\ done' = IF Commits THEN done + 1 ELSE done
      /\ UNCHANGED << rx, tx, firmware, client, clean, budget >>
  BY DEF ServerProceeds
<1>2. Port!IndInv /\ Port!ServerStep /\ clean' = clean
  BY <1>1, SameSteps DEF Standing, Port!Together, Port!IndInv
<1>3. Port!Keeping
  <2>1. UNCHANGED << At, Sent, Got, Result, req, last >>
    BY <1>1, ViewKept
  <2>2. done' = IF Port!Commits THEN done + 1 ELSE done
    BY <1>1, SameSteps
  <2> QED
    BY <2>1, <2>2 DEF Port!Keeping, Port!client
<1>4. SeenAlike /\ SeenAlike'
  BY CallSeen, CallSeenNext
<1>5. UNCHANGED << pc, req, got, result, clean >> /\ Outcome' = Outcome
  <2>1. UNCHANGED << pc, req, got, result, clean >>
    BY <1>1 DEF client
  <2> QED
    BY <2>1, Zenon DEF Outcome
<1>6. CASE ~Port!Commits
  <2>1. UNCHANGED Port!Remote!vars
    BY <1>2, <1>3, <1>6, Assumptions, Port!ServerHides DEF Port!ServerHides, Assumed
  <2>2. UNCHANGED << Store, Entry, BasicNow, CallNow, DoneNow >>
    BY <1>4, <2>1 DEF Port!Remote!vars, SeenAlike
  <2> QED
    BY <1>5, <2>2, NothingShown
<1> DEFINE Written == Remote!Put(Store, Remote!Wrap(CallNow.at + DoneNow), CallNow.writes[DoneNow'])
<1>7. CASE Port!Remote!WriteCell
  <2>1. /\ DoneNow < Len(CallNow.writes) /\ DoneNow' = DoneNow + 1
        /\ Store' = IF BasicNow /\ DoneNow' = Len(CallNow.writes)
                    THEN Remote!PutWord(Written, 45, Remote!Wrap(CallNow.at + DoneNow'))
                    ELSE Written
        /\ UNCHANGED << Entry, BasicNow, CallNow >>
    BY <1>4, <1>7, SameMemory DEF Port!Remote!WriteCell, SeenAlike
  <2>2. Remote!WriteCell
    BY <1>5, <2>1 DEF Remote!WriteCell, BasicNow, CallNow, DoneNow, Outcome
  <2> QED
    BY <2>2 DEF Remote!Proceed
<1>8. CASE Port!Remote!HandControl
  <2>1. /\ CallNow.op \in {"jump", "inject", "run"} /\ DoneNow = 0 /\ DoneNow' = 1
        /\ Entry' = [kind |-> CallNow.op, at |-> CallNow.at]
        /\ UNCHANGED << Store, BasicNow, CallNow >>
    BY <1>4, <1>8 DEF Port!Remote!HandControl, SeenAlike
  <2>2. Remote!HandControl
    BY <1>5, <2>1 DEF Remote!HandControl, BasicNow, CallNow, DoneNow, Outcome
  <2> QED
    BY <2>2 DEF Remote!Proceed
<1>9. CASE Port!Commits
  <2>1. CASE Port!SrvLoadStore
    BY <1>2, <1>3, <1>7, <2>1, Assumptions, Port!LoadStep DEF Port!LoadStep, Assumed
  <2>2. CASE Port!SrvReadAck
    BY <1>2, <1>3, <1>7, <1>8, <1>9, <2>2, Assumptions, Port!HeaderStep
    DEF Port!HeaderStep, Assumed
  <2>3. CASE Port!SrvAck
    BY <1>2, <1>3, <1>8, <1>9, <2>3, Assumptions, Port!RunStep DEF Port!RunStep, Assumed
  <2> QED
    BY <1>9, <2>1, <2>2, <2>3 DEF Port!Commits
<1> QED
  BY <1>6, <1>9

(* What goes on around a call does not change what its caller sees.        *)
LEMMA AroundHides ==
  ASSUME UNCHANGED << pc, req, got, result, done, clean >>,
         Store' = Store, Entry' = Entry, isBasic' = isBasic
  PROVE  UNCHANGED Remote!vars
<1>1. LoadsBasic(req, done)' <=> LoadsBasic(req, done)
  BY DEF LoadsBasic
<1>2. BasicNow' = BasicNow /\ Outcome' = Outcome
  BY <1>1, Zenon DEF BasicNow, Outcome
<1>3. CallNow' = CallNow /\ DoneNow' = DoneNow
  BY DEF CallNow, DoneNow
<1> QED
  BY <1>2, <1>3, NothingShown

LEMMA StepPromised ==
  ASSUME SerialInv, clean => Replied, [Next]_vars
  PROVE  [Remote!Next]_(Remote!vars)
<1>1. CASE ~clean'
  BY <1>1 DEF Remote!Next
<1>2. KindInv /\ KindInv'
  BY StepKinds DEF SerialInv
<1>3. CASE NewCall /\ clean'
  <2>1. Remote!Begin /\ CallNow = Remote!NoCall
    BY <1>2, <1>3, CallPromised
  <2> QED
    BY <1>3, <2>1 DEF Remote!Next, Remote!Proceed, CallNow
<1>4. CASE ~NewCall /\ clean'
  <2>1. \/ ClientProceeds \/ PingGivesUp \/ NextProcess \/ FirmwareProceeds \/ FirmwareGivesUp
        \/ ServerProceeds \/ UserInstalls \/ ForegroundRuns \/ UNCHANGED vars
    BY <1>4 DEF Next, FirmwareResets, Fault, LateAnswer, Killed, PowerCycle
  <2>2. clean /\ clean' = clean
    <3>1. PingGivesUp \/ FirmwareGivesUp => clean
      BY <1>4, Zenon DEF PingGivesUp, FirmwareGivesUp
    <3>2. clean \in BOOLEAN /\ clean' \in BOOLEAN
      BY <1>2 DEF KindInv, TypeOK
    <3>3. ClientProceeds \/ NextProcess \/ FirmwareProceeds \/ ServerProceeds \/ UserInstalls
          \/ ForegroundRuns \/ UNCHANGED vars => clean' = clean
      BY DEF ClientProceeds, NextProcess, FirmwareProceeds, ServerProceeds, UserInstalls,
         ForegroundRuns, others, vars
    <3>4. clean
      BY <1>4, <2>1, <3>1, <3>3, Zenon
    <3> QED
      BY <1>4, <3>2, <3>4, Zenon
  <2>3. Standing /\ Replied
    BY <2>2 DEF SerialInv
  <2>4. [Remote!Proceed]_(Remote!vars) => [Remote!Next]_(Remote!vars)
    BY <2>2 DEF Remote!Next
  <2>5. CASE ClientProceeds
    BY <1>2, <2>3, <2>5, <2>4, ClientPromised
  <2>6. CASE ServerProceeds
    BY <1>2, <2>2, <2>3, <2>6, <2>4, ServerPromised
  <2>7. CASE PingGivesUp
    <3>1. UNCHANGED << req, got, server, done >> /\ pc # "idle" /\ pc' # "idle"
      BY <2>7 DEF PingGivesUp, GiveUp, rest
    <3> QED
      BY <2>2, <3>1, CallHides, NothingShown
  <2>8. CASE NextProcess \/ FirmwareProceeds \/ FirmwareGivesUp \/ UserInstalls \/ ForegroundRuns
             \/ UNCHANGED vars
    <3>1. UNCHANGED << pc, req, got, result, done >>
      BY <2>8 DEF NextProcess, NewProcess, FirmwareProceeds, FirmwareGivesUp, UserInstalls,
         ForegroundRuns, others, vars, client
    <3>2. Store' = Store /\ Entry' = Entry /\ isBasic' = isBasic
      BY <2>8, StoreStays, UserLeavesStore
      DEF NextProcess, FirmwareProceeds, FirmwareGivesUp, UserInstalls, ForegroundRuns, vars
    <3> QED
      BY <2>2, <3>1, <3>2, AroundHides
  <2> QED
    BY <1>4, <2>1, <2>2, <2>5, <2>6, <2>7, <2>8 DEF Remote!Next
<1> QED
  BY <1>1, <1>3, <1>4

(* For every size of a write, for all requests and all memories, whatever  *)
(* the board, the server and their surroundings do: as long as the current *)
(* call began in step and nothing has happened to it, each step writes the *)
(* next cell, reads the next byte of the reply, hands control over, begins *)
(* or ends a call, or changes nothing a caller can see, although the       *)
(* driver writes ahead of the board and reads after it.                    *)
THEOREM SerialImplementation == Spec => Implements
<1>1. Init => Remote!Init
  BY InitPromised
<1>2. Init => (clean => Replied)
  BY DEF Init, ClientInit, Replied, ReceivePlaces
<1>3. SerialInv /\ (clean => Replied) /\ [Next]_vars => (clean => Replied)'
  BY StepReplied
<1>4. SerialInv /\ (clean => Replied) /\ [Next]_vars => [Remote!Next]_(Remote!vars)
  BY StepPromised
<1> QED
  BY <1>1, <1>2, <1>3, <1>4, SerialInvariance, PTL DEF Spec, Implements, Remote!Spec
=============================================================================
