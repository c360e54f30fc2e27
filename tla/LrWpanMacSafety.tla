---------------------------- MODULE LrWpanMacSafety ----------------------------
(***************************************************************************)
(* TLAPS proofs that the MAC, its CSMA-CA and its PHY never disagree: no   *)
(* assertion fails, one CSMA-CA round runs at a time, and what a confirm   *)
(* removes from the queue is what was sent.                                *)
(*                                                                         *)
(* The MAC is not robust against every environment: the theorems are about *)
(* behaviours up to the first mishap, which the variable orderly records.  *)
(* None of the conditions under which orderly stays TRUE can be left out:  *)
(* without any one of them TLC finds a failing assertion or a second round,*)
(* except for a frame of the device's own, or a foreign one, that is cut   *)
(* off by the end of a slot.                                               *)
(***************************************************************************)
EXTENDS LrWpanMacProofs

-----------------------------------------------------------------------------
(* What holds at every point of every handler *)

\* A turnaround is the only pending change of the transceiver, and no energy
\* detection, stale EndTx event or cancelled reception is about.
Radio ==
  /\ ~aborted /\ ~edRequest /\ staleEndTx = 0 /\ ~isRxCanceled
  /\ IF setTRXState
       THEN \/ trxStatePending = "RX_ON" /\ trxState \in {"TRX_OFF", "TX_ON"}
            \/ trxStatePending = "TX_ON" /\ trxState = "RX_ON"
       ELSE trxStatePending = "IDLE"

\* The receiver is busy exactly while it is locked on a signal, and what it
\* receives suits the period.
Reception ==
  /\ trxState = "BUSY_RX" <=> currentRxPacket.first # NONE
  /\ trxState = "BUSY_RX" => gts # "TX"
  /\ currentRxPacket.first \in Beacons => ~cap /\ gts = NONE /\ ~endCapEvent

\* The frame on the air is the MAC's, and has not been aborted.
Transmission ==
  /\ pdDataRequest => trxState = "BUSY_TX" /\ currentTxPacket.first = txPkt
  /\ trxState = "BUSY_TX" => ~currentTxPacket.second

Periods ==
  /\ cap => gts = NONE
  /\ ~cap /\ gts = NONE => ifsEvent = NONE
  /\ gts = "RX" /\ macState = "MAC_GTS_SENDING" /\ setMacState = NONE => ifsEvent = NONE
  /\ startCap => setMacState = "MAC_IDLE" /\ ~cap /\ gts = NONE /\ ~endCapEvent

\* A CSMA-CA round runs in the CAP, for a MAC that waits for it with the
\* receiver on; a deferred one ends before another CAP starts.
NoRound == csmaEvent = NONE /\ ~ccaRequest /\ ~ccaRequestRunning
Round ==
  /\ ~NoRound => /\ macState = "MAC_CSMA" /\ setMacState = NONE
                 /\ cap /\ ~endCapEvent
                 /\ ~setTRXState /\ trxState \in {"RX_ON", "BUSY_RX"}
  /\ ccaRequest => ccaRequestRunning
  /\ ccaRequestRunning => csmaEvent = NONE
  /\ endCapEvent /\ cap => macState = "MAC_CSMA" /\ setMacState = NONE
  /\ endCapEvent /\ macState = "MAC_CSMA" => ~setTRXState

\* Where the packet of the MAC comes from.
Packet ==
  /\ txPkt # NONE => txPkt \in AckPackets \/ HeadOfQueue
  /\ macState \in {"MAC_CSMA", "MAC_SENDING"} /\ setMacState = NONE => HeadOfQueue
  /\ setMacState = "MAC_CSMA" => macState = "MAC_IDLE" /\ cap /\ HeadOfQueue
  /\ macState = "MAC_GTS_SENDING" /\ setMacState = NONE => txPkt # NONE

Global == Radio /\ Reception /\ Transmission /\ Periods /\ Round /\ Packet

-----------------------------------------------------------------------------
(* What holds between two calls: one predicate per content of the stack *)

Steady(x) == trxState = x /\ ~setTRXState
Listening == trxState \in {"RX_ON", "BUSY_RX"} /\ ~setTRXState
NotBusy == trxState \in {"RX_ON", "TX_ON", "TRX_OFF"}

\* The MAC is prepared for a confirm that the transceiver is in state x.
Awaits(x) ==
  /\ setMacState = NONE
  /\ \/ macState = "MAC_IDLE" /\ x \in {"RX_ON", "TRX_OFF"} /\ gts = NONE
     \/ macState = "MAC_CSMA" /\ x = "RX_ON" /\ cap /\ NoRound /\ ~endCapEvent
     \/ macState = "MAC_ACK_PENDING" /\ x = "RX_ON" /\ (cap \/ gts # NONE)
     \/ macState = "MAC_GTS" /\ x = "RX_ON" /\ gts # NONE
     \/ macState = "MAC_GTS" /\ x = "TX_ON" /\ gts = "TX"
     \/ macState = "MAC_GTS_SENDING" /\ x = "TX_ON" /\ gts # NONE
     \/ macState = "MAC_SENDING" /\ x = "TX_ON" /\ cap

\* The MAC has a frame for the transmitter, which is on.
HasFrame ==
  \/ macState = "MAC_SENDING" /\ cap
  \/ macState = "MAC_GTS_SENDING" /\ gts # NONE

\* The state of the MAC and the steady transceiver fit together.
Rests ==
  \/ macState = "MAC_IDLE" /\ gts = NONE /\ trxState \in {"RX_ON", "BUSY_RX", "TRX_OFF"}
  \/ macState = "MAC_IDLE" /\ gts = "RX" /\ Listening
  \/ macState = "MAC_CSMA" /\ gts = NONE /\ Listening
  \/ macState = "MAC_ACK_PENDING" /\ Listening
  \/ macState = "MAC_GTS" /\ gts # NONE /\ Listening
  \/ macState = "MAC_GTS" /\ gts = "TX" /\ trxState = "TX_ON"
  \/ macState = "MAC_SENDING" /\ gts = NONE /\ trxState = "TX_ON"
  \/ macState = "MAC_GTS_SENDING" /\ gts # NONE /\ trxState = "TX_ON"
  \/ HasFrame /\ trxState = "BUSY_TX" /\ pdDataRequest

\* A change of the MAC's state is due.
ChangeDue ==
  \/ setMacState = "MAC_IDLE" /\ gts = NONE
  \/ setMacState = "MAC_ACK_PENDING" /\ HasFrame
  \/ setMacState = "MAC_GTS" /\ gts # NONE

Settled ==
  /\ ccaRequestRunning => ccaRequest
  /\ currentRxPacket.first # NONE => currentRxPacket.first \in signals

AtRest ==
  /\ calls = <<>> /\ Settled
  /\ \/ setMacState \in {NONE, "MAC_CSMA"} /\ ~setTRXState /\ Rests
     \/ setTRXState /\ Awaits(trxStatePending)
     \/ setMacState = "MAC_CSMA" /\ setTRXState
     \/ ChangeDue /\ ~setTRXState /\ NotBusy

\* A request to the transceiver, and its confirm.
Turning ==
  \E x \in {"RX_ON", "TX_ON", "TRX_OFF"} :
    /\ calls = Turn(x) /\ Settled /\ Awaits(x) /\ NoRound
    /\ NotBusy \/ (x = "RX_ON" /\ trxState = "BUSY_RX")

Turned ==
  \E x \in {"RX_ON", "TX_ON", "TRX_OFF"} :
    /\ calls = Confirm(x) /\ Settled /\ Awaits(x) /\ NoRound
    /\ Steady(x) \/ (x = "RX_ON" /\ Steady("BUSY_RX"))

\* PdDataRequest, the refusal of a packet that is too long, and EndTx.
Requesting ==
  /\ calls = <<Call("PdDataRequest", txPkt)>> /\ Settled
  /\ setMacState = NONE /\ HasFrame /\ Steady("TX_ON")

Refused ==
  /\ calls = <<Call("PdDataConfirm", "UNSPECIFIED")>> /\ Settled
  /\ setMacState = NONE /\ HasFrame /\ Steady("TX_ON")

Sent ==
  /\ calls = <<Call("PdDataConfirm", "SUCCESS"), Call("EndTxTail", NONE)>> /\ Settled
  /\ setMacState = NONE /\ HasFrame /\ Steady("BUSY_TX") /\ ~pdDataRequest
  /\ currentTxPacket.first = txPkt

SendingStops ==
  /\ calls = <<Call("EndTxTail", NONE)>> /\ Settled
  /\ (setMacState = NONE /\ HasFrame) \/ ChangeDue
  /\ Steady("BUSY_TX") /\ ~pdDataRequest

\* EndRx: the indication, what a beacon makes the MAC do, and the rest.
Receives == Steady("BUSY_RX") /\ (ccaRequestRunning => ccaRequest)

Indicating ==
  /\ calls = <<Call("PdDataIndication", currentRxPacket.first), Call("EndRxTail", NONE)>>
  /\ Receives /\ setMacState = NONE /\ Rests

BeaconTaken ==
  /\ calls = <<Call("CcaCancel", NONE), Call("EndRxTail", NONE)>>
  /\ Receives /\ setMacState = "MAC_IDLE" /\ gts = NONE

ReceptionStops ==
  /\ calls = <<Call("EndRxTail", NONE)>>
  /\ Receives
  /\ \/ setMacState = NONE /\ Rests
     \/ setMacState = "MAC_IDLE" /\ gts = NONE
     \/ setMacState = "MAC_GTS" /\ gts # NONE

\* A CCA of the round.
SensesNow ==
  /\ ccaRequestRunning /\ ~ccaRequest
  /\ currentRxPacket.first # NONE => currentRxPacket.first \in signals

Sensing == calls = <<Call("PlmeCcaRequest", NONE)>> /\ SensesNow

Sensed ==
  \E status \in {"IDLE", "BUSY"} :
    /\ calls = <<Call("PlmeCcaConfirm", status)>> /\ SensesNow
    /\ status = "IDLE" => trxState = "RX_ON"

\* StartGTS: the hop, a turnaround that it breaks off, the state of the slot,
\* and the packet left over from the CAP.
SlotState == IF gts = "TX" THEN "TX_ON" ELSE "RX_ON"

HopsIn ==
  /\ Settled /\ NoRound /\ NotBusy
  /\ setMacState = NONE /\ gts # NONE /\ ifsEvent = NONE
  /\ macState \in {"MAC_IDLE", "MAC_CSMA", "MAC_ACK_PENDING", "MAC_SENDING"}
  /\ setTRXState => macState = "MAC_IDLE"

Entering ==
  /\ HopsIn
  /\ \/ calls = <<Call("EnterGts", NONE)>>
     \/ \E c \in Tunable :
          calls = <<Call("PlmeSetAttributeRequest", c), Call("EnterGts", NONE)>>
     \/ calls = <<Call("PlmeSetAttributeConfirm", "SUCCESS"), Call("EnterGts", NONE)>>
     \/ /\ calls = <<Call("PlmeSetTRXStateConfirm", "TRX_OFF"),
                     Call("PlmeSetAttributeConfirm", "SUCCESS"), Call("EnterGts", NONE)>>
        /\ macState = "MAC_IDLE"

Begins ==
  /\ Settled /\ NoRound /\ NotBusy
  /\ setMacState = NONE /\ gts # NONE /\ ifsEvent = NONE
  /\ macState = "MAC_GTS"

Beginning ==
  /\ Begins
  /\ \/ calls = <<Call("PlmeSetTRXStateRequest", SlotState), Call("ContinueSending", NONE)>>
     \/ /\ calls = <<Call("PlmeSetTRXStateConfirm", SlotState), Call("ContinueSending", NONE)>>
        /\ Steady(SlotState)
     \/ /\ calls = <<Call("ContinueSending", NONE)>>
        /\ Steady(SlotState) \/ (setTRXState /\ trxStatePending = SlotState)

\* EndGTS: the hop back, and the cancellation of a transmission.
Leaves ==
  /\ Settled /\ NoRound /\ NotBusy /\ ~setTRXState
  /\ gts = NONE /\ ~cap

Leaving ==
  /\ Leaves /\ setMacState = NONE /\ macState \notin {"MAC_CSMA", "MAC_SENDING"}
  /\ \/ calls = <<Call("LeaveGts", NONE)>>
     \/ \E c \in Tunable :
          calls = <<Call("PlmeSetAttributeRequest", c), Call("LeaveGts", NONE)>>
     \/ calls = <<Call("PlmeSetAttributeConfirm", "SUCCESS"), Call("LeaveGts", NONE)>>

Cancelling ==
  /\ Leaves /\ setMacState = "MAC_IDLE"
  /\ calls = <<Call("CancelPdDataRequest", NONE)>>

Phase ==
  \/ AtRest \/ Turning \/ Turned
  \/ Requesting \/ Refused \/ Sent \/ SendingStops
  \/ Indicating \/ BeaconTaken \/ ReceptionStops
  \/ Sensing \/ Sensed
  \/ Entering \/ Beginning \/ Leaving \/ Cancelling

\* All that the proof maintains besides MacInv.
SafeInv == Global /\ Phase

-----------------------------------------------------------------------------
(* Stacks of at most three calls *)

LEMMA Concat1 == ASSUME NEW a, NEW b PROVE <<a>> \o <<b>> = <<a, b>>
<1> DEFINE s == <<a>> \o <<b>>
           t == <<a, b>>
<1>1. <<a>> \in Seq({a, b}) /\ <<b>> \in Seq({a, b}) /\ t \in Seq({a, b})
  OBVIOUS
<1>2. /\ s \in Seq({a, b}) /\ Len(s) = 2
      /\ s[1] = a /\ s[2] = b
  BY <1>1, ConcatProperties
<1>3. Len(t) = 2 /\ t[1] = a /\ t[2] = b
  OBVIOUS
<1> HIDE DEF s, t
<1>4. \A i \in 1..Len(s) : s[i] = t[i]
  <2>1. \A i \in 1..2 : i = 1 \/ i = 2
    OBVIOUS
  <2> QED
    BY <1>2, <1>3, <2>1
<1>5. s = t
  BY <1>1, <1>2, <1>3, <1>4, SeqEqual
<1> QED
  BY <1>5 DEF s, t

LEMMA Stack1 ==
  ASSUME NEW a, calls = <<a>>
  PROVE  /\ calls # <<>> /\ Head(calls) = a
         /\ Returns(<<>>) => calls' = <<>>
         /\ \A x : Returns(<<x>>) => calls' = <<x>>
         /\ \A x, y : Returns(<<x, y>>) => calls' = <<x, y>>
BY DEF Returns

LEMMA Stack2 ==
  ASSUME NEW a, NEW b, calls = <<a, b>>
  PROVE  /\ calls # <<>> /\ Head(calls) = a
         /\ Returns(<<>>) => calls' = <<b>>
         /\ \A x : Returns(<<x>>) => calls' = <<x, b>>
         /\ \A x, y : Returns(<<x, y>>) => calls' = <<x, y, b>>
BY DEF Returns

LEMMA Stack3 ==
  ASSUME NEW a, NEW b, NEW c, calls = <<a, b, c>>
  PROVE  /\ calls # <<>> /\ Head(calls) = a
         /\ Returns(<<>>) => calls' = <<b, c>>
BY DEF Returns

\* The call that runs tells the phase.
LEMMA PhaseCalls ==
  /\ AtRest => calls = <<>>
  /\ Turning => calls # <<>> /\ Head(calls).op = "PlmeSetTRXStateRequest"
  /\ Turned => calls # <<>> /\ Head(calls).op = "PlmeSetTRXStateConfirm"
  /\ Requesting => calls # <<>> /\ Head(calls).op = "PdDataRequest"
  /\ Refused => calls # <<>> /\ Head(calls).op = "PdDataConfirm"
  /\ Sent => calls # <<>> /\ Head(calls).op = "PdDataConfirm"
  /\ SendingStops => calls # <<>> /\ Head(calls).op = "EndTxTail"
  /\ Indicating => calls # <<>> /\ Head(calls).op = "PdDataIndication"
  /\ BeaconTaken => calls # <<>> /\ Head(calls).op = "CcaCancel"
  /\ ReceptionStops => calls # <<>> /\ Head(calls).op = "EndRxTail"
  /\ Sensing => calls # <<>> /\ Head(calls).op = "PlmeCcaRequest"
  /\ Sensed => calls # <<>> /\ Head(calls).op = "PlmeCcaConfirm"
  /\ Entering => calls # <<>> /\ Head(calls).op \in {"EnterGts", "PlmeSetAttributeRequest",
                                 "PlmeSetAttributeConfirm", "PlmeSetTRXStateConfirm"}
  /\ Beginning => calls # <<>> /\ Head(calls).op \in {"PlmeSetTRXStateRequest",
                                 "PlmeSetTRXStateConfirm", "ContinueSending"}
  /\ Leaving => calls # <<>> /\ Head(calls).op \in {"LeaveGts", "PlmeSetAttributeRequest",
                                 "PlmeSetAttributeConfirm"}
  /\ Cancelling => calls # <<>> /\ Head(calls).op = "CancelPdDataRequest"
<1>1. AtRest => calls = <<>>
  BY DEF AtRest
<1>2. Turning => calls # <<>> /\ Head(calls).op = "PlmeSetTRXStateRequest"
  BY Stack1 DEF Turning, Turn, Call
<1>3. Turned => calls # <<>> /\ Head(calls).op = "PlmeSetTRXStateConfirm"
  BY Stack1 DEF Turned, Confirm, Call
<1>4. Requesting => calls # <<>> /\ Head(calls).op = "PdDataRequest"
  BY Stack1 DEF Requesting, Call
<1>5. Refused => calls # <<>> /\ Head(calls).op = "PdDataConfirm"
  BY Stack1 DEF Refused, Call
<1>6. Sent => calls # <<>> /\ Head(calls).op = "PdDataConfirm"
  BY Stack2 DEF Sent, Call
<1>7. SendingStops => calls # <<>> /\ Head(calls).op = "EndTxTail"
  BY Stack1 DEF SendingStops, Call
<1>8. Indicating => calls # <<>> /\ Head(calls).op = "PdDataIndication"
  BY Stack2 DEF Indicating, Call
<1>9. BeaconTaken => calls # <<>> /\ Head(calls).op = "CcaCancel"
  BY Stack2 DEF BeaconTaken, Call
<1>10. ReceptionStops => calls # <<>> /\ Head(calls).op = "EndRxTail"
  BY Stack1 DEF ReceptionStops, Call
<1>11. Sensing => calls # <<>> /\ Head(calls).op = "PlmeCcaRequest"
  BY Stack1 DEF Sensing, Call
<1>12. Sensed => calls # <<>> /\ Head(calls).op = "PlmeCcaConfirm"
  BY Stack1 DEF Sensed, Call
<1>13. Entering => calls # <<>> /\ Head(calls).op \in {"EnterGts", "PlmeSetAttributeRequest",
                                 "PlmeSetAttributeConfirm", "PlmeSetTRXStateConfirm"}
  BY Stack1, Stack2, Stack3 DEF Entering, Call
<1>14. Beginning => calls # <<>> /\ Head(calls).op \in {"PlmeSetTRXStateRequest",
                                 "PlmeSetTRXStateConfirm", "ContinueSending"}
  BY Stack1, Stack2 DEF Beginning, Call
<1>15. Leaving => calls # <<>> /\ Head(calls).op \in {"LeaveGts", "PlmeSetAttributeRequest",
                                 "PlmeSetAttributeConfirm"}
  BY Stack1, Stack2 DEF Leaving, Call
<1>16. Cancelling => calls # <<>> /\ Head(calls).op = "CancelPdDataRequest"
  BY Stack1 DEF Cancelling, Call
<1> QED
  BY <1>1, <1>2, <1>3, <1>4, <1>5, <1>6, <1>7, <1>8, <1>9, <1>10, <1>11, <1>12, <1>13,
     <1>14, <1>15, <1>16

LEMMA PhaseOf ==
  ASSUME Phase
  PROVE  /\ calls = <<>> => AtRest
         /\ Running("PlmeSetTRXStateRequest") => Turning \/ Beginning
         /\ Running("PlmeSetTRXStateConfirm") => Turned \/ Entering \/ Beginning
         /\ Running("PdDataRequest") => Requesting
         /\ Running("PdDataConfirm") => Refused \/ Sent
         /\ Running("EndTxTail") => SendingStops
         /\ Running("PdDataIndication") => Indicating
         /\ Running("CcaCancel") => BeaconTaken
         /\ Running("EndRxTail") => ReceptionStops
         /\ Running("PlmeCcaRequest") => Sensing
         /\ Running("PlmeCcaConfirm") => Sensed
         /\ Running("PlmeEdRequest") => FALSE
         /\ Running("PlmeSetAttributeRequest") => Entering \/ Leaving
         /\ Running("PlmeSetAttributeConfirm") => Entering \/ Leaving
         /\ Running("EnterGts") => Entering
         /\ Running("ContinueSending") => Beginning
         /\ Running("LeaveGts") => Leaving
         /\ Running("CancelPdDataRequest") => Cancelling
BY PhaseCalls DEF Phase, Running

-----------------------------------------------------------------------------
(* A request to the transceiver *)

\* A request that finds the transceiver neither sending nor, unless it asks for
\* the receiver, receiving: the turnaround starts or goes on, or the confirm comes
\* at once.
TurnStarts(x) ==
  /\ Returns(<<>>)
  /\ setTRXState' /\ trxStatePending' = x /\ x # "TRX_OFF"
  /\ trxState' \in {"RX_ON", "TX_ON", "TRX_OFF"}
TurnDone(x) ==
  /\ Returns(Confirm(x))
  /\ ~setTRXState'
  /\ trxState' = x \/ (x = "RX_ON" /\ trxState' = "BUSY_RX")

LEMMA TurnStep ==
  ASSUME PhyTypeOK, Radio, trxState = "BUSY_RX" <=> currentRxPacket.first # NONE,
         NEW x \in {"RX_ON", "TX_ON", "TRX_OFF"}, Arg = x,
         NotBusy \/ (x = "RX_ON" /\ trxState = "BUSY_RX"),
         x = "TX_ON" => ~ccaRequest,
         PlmeSetTRXStateRequest
  PROVE  /\ UNCHANGED <<rxVars, txVars, senseVars, currentChannel>>
         /\ Radio'
         /\ trxState' = "BUSY_RX" <=> trxState = "BUSY_RX"
         /\ TurnStarts(x) \/ TurnDone(x)
<1> DEFINE Same == UNCHANGED <<rxVars, txVars, senseVars, currentChannel, aborted>>
           Radio1 == IF setTRXState'
                       THEN \/ trxStatePending' = "RX_ON" /\ trxState' \in {"TRX_OFF", "TX_ON"}
                            \/ trxStatePending' = "TX_ON" /\ trxState' = "RX_ON"
                       ELSE trxStatePending' = "IDLE"
           Goal == /\ Same /\ Radio1
                   /\ trxState' = "BUSY_RX" <=> trxState = "BUSY_RX"
                   /\ TurnStarts(x) \/ TurnDone(x)
<1>1. /\ ~edRequest /\ ~isRxCanceled /\ ~aborted
      /\ edRequest \in BOOLEAN /\ isRxCanceled \in BOOLEAN /\ ccaRequest \in BOOLEAN
      /\ currentRxPacket \in [first : Signals \cup {NONE}, second : BOOLEAN]
      /\ IF setTRXState
           THEN \/ trxStatePending = "RX_ON" /\ trxState \in {"TRX_OFF", "TX_ON"}
                \/ trxStatePending = "TX_ON" /\ trxState = "RX_ON"
           ELSE trxStatePending = "IDLE"
  BY DEF Radio, PhyTypeOK
<1> SUFFICES Goal
  BY <1>1 DEF Radio, rxVars, txVars, senseVars
<1>2. /\ \A s : CancelEd(s) = <<>>
      /\ \A s : <<>> \o Confirm(s) = Confirm(s)
      /\ <<>> \o <<>> = <<>>
  BY <1>1 DEF CancelEd, Confirm
<1>3. CASE KeepSwitching
  BY <1>1, <1>3 DEF KeepSwitching, TurnStarts, radioVars
<1>4. CASE SameState
  BY <1>1, <1>4 DEF SameState, TurnDone
<1>5. CASE DeferUntilEndTx
  BY <1>1, <1>5 DEF DeferUntilEndTx, NotBusy
<1>6. CASE DeferUntilEndRx
  BY <1>1, <1>6 DEF DeferUntilEndRx, NotBusy
<1>7. CASE SwitchOff
  <2>1. UNCHANGED edRequest
    BY <1>1, <1>7 DEF SwitchOff
  <2> QED
    BY <1>1, <1>2, <1>7, <2>1 DEF SwitchOff, TurnDone, senseVars
<1>8. CASE ForceTransmitter
  <2>1. currentRxPacket.first = NONE /\ ~ccaRequest /\ trxState = "RX_ON" /\ x = "TX_ON"
    BY <1>8 DEF ForceTransmitter, NotBusy
  <2>2. UNCHANGED <<edRequest, ccaRequest, isRxCanceled>>
    BY <1>1, <1>8, <2>1 DEF ForceTransmitter
  <2>3. UNCHANGED currentRxPacket
    BY <1>1, <1>8, <2>1 DEF ForceTransmitter
  <2>4. Returns(<<>>)
    BY <1>2, <1>8, <2>1 DEF ForceTransmitter
  <2>5. Same
    BY <1>8, <2>2, <2>3 DEF ForceTransmitter, senseVars, rxVars
  <2>6. TurnStarts(x)
    BY <1>8, <2>1, <2>4 DEF ForceTransmitter, TurnStarts
  <2> QED
    BY <1>8, <2>1, <2>5, <2>6 DEF ForceTransmitter
<1>9. CASE TransmitterAlreadyOn
  BY <1>1, <1>9 DEF TransmitterAlreadyOn, NotBusy
<1>10. CASE TransmitterFromOff
  <2>1. UNCHANGED edRequest
    BY <1>1, <1>10 DEF TransmitterFromOff
  <2> QED
    BY <1>1, <1>2, <1>10, <2>1 DEF TransmitterFromOff, TurnDone, senseVars
<1>11. CASE ForceOff
  BY <1>11 DEF ForceOff
<1>12. CASE TurnToReceiver
  BY <1>1, <1>12 DEF TurnToReceiver, TurnStarts
<1>13. CASE ReceiverAlreadyBusy
  BY <1>1, <1>13 DEF ReceiverAlreadyBusy, TurnDone
<1>14. CASE UnexpectedTransition
  BY <1>14 DEF UnexpectedTransition, NotBusy
<1> QED
  BY <1>3, <1>4, <1>5, <1>6, <1>7, <1>8, <1>9, <1>10, <1>11, <1>12, <1>13, <1>14
     DEF PlmeSetTRXStateRequest

\* A change of the transceiver outside a round, with no frame on the air.
LEMMA GlobalRadio ==
  ASSUME Global, NoRound, ~pdDataRequest, Radio',
         UNCHANGED <<macVars, rxVars, txVars, senseVars>>,
         trxState' = "BUSY_RX" <=> trxState = "BUSY_RX", trxState' # "BUSY_TX",
         endCapEvent /\ macState = "MAC_CSMA" => ~setTRXState'
  PROVE  Global'
<1> USE DEF macVars, queueVars, frameVars, csmaVars, rxVars, txVars, senseVars
<1>1. Reception' /\ Transmission'
  BY DEF Global, Reception, Transmission
<1>2. Periods' /\ Packet'
  BY DEF Global, Periods, Packet, HeadOfQueue
<1>3. Round'
  BY DEF Global, Round, NoRound
<1> QED
  BY <1>1, <1>2, <1>3 DEF Global

LEMMA RequestSafe ==
  ASSUME MacInv, SafeInv, PlmeSetTRXStateRequest, UNCHANGED macVars
  PROVE  SafeInv'
<1>1. /\ PhyTypeOK /\ Radio /\ Global
      /\ trxState = "BUSY_RX" <=> currentRxPacket.first # NONE
      /\ pdDataRequest => trxState = "BUSY_TX"
  BY DEF MacInv, SafeInv, Global, Reception, Transmission
<1>2. CASE Turning
  <2>1. PICK x \in {"RX_ON", "TX_ON", "TRX_OFF"} :
          /\ calls = Turn(x) /\ Settled /\ Awaits(x) /\ NoRound
          /\ NotBusy \/ (x = "RX_ON" /\ trxState = "BUSY_RX")
    BY <1>2 DEF Turning
  <2>2. Arg = x
    BY <2>1, Stack1 DEF Turn, Call, Arg
  <2>3. /\ UNCHANGED <<rxVars, txVars, senseVars, currentChannel>>
        /\ Radio'
        /\ trxState' = "BUSY_RX" <=> trxState = "BUSY_RX"
        /\ TurnStarts(x) \/ TurnDone(x)
    BY <1>1, <2>1, <2>2, TurnStep DEF NoRound
  <2>4. /\ trxState' # "BUSY_TX" /\ ~pdDataRequest
        /\ endCapEvent /\ macState = "MAC_CSMA" => ~setTRXState'
    BY <1>1, <2>1, <2>3 DEF TurnStarts, TurnDone, Awaits, NotBusy
  <2>5. Global'
    BY <1>1, <2>1, <2>3, <2>4, GlobalRadio
  <2>6. Settled' /\ Awaits(x)' /\ NoRound'
    BY <2>1, <2>3 DEF Settled, Awaits, NoRound, macVars, frameVars, csmaVars, rxVars, senseVars
  <2>7. CASE TurnStarts(x)
    <3>1. calls' = <<>>
      BY <2>1, <2>7, Stack1 DEF Turn, TurnStarts
    <3>2. setTRXState' /\ Awaits(trxStatePending)'
      BY <2>6, <2>7 DEF TurnStarts, Awaits
    <3> QED
      BY <2>5, <2>6, <3>1, <3>2 DEF SafeInv, Phase, AtRest
  <2>8. CASE TurnDone(x)
    <3>1. calls' = Confirm(x)
      BY <2>1, <2>8, Stack1 DEF Turn, TurnDone, Confirm
    <3>2. (Steady(x) \/ (x = "RX_ON" /\ Steady("BUSY_RX")))'
      BY <2>8 DEF TurnDone, Steady
    <3>3. Turned'
      BY <2>6, <3>1, <3>2 DEF Turned, Confirm
    <3> QED
      BY <2>5, <3>3 DEF SafeInv, Phase
  <2> QED
    BY <2>3, <2>7, <2>8
<1>3. CASE Beginning
  <2> DEFINE x == SlotState
             rest == Call("ContinueSending", NONE)
  <2>1. Begins /\ calls = <<Call("PlmeSetTRXStateRequest", x), rest>>
    BY <1>3, Stack1, Stack2 DEF Beginning, PlmeSetTRXStateRequest, Running, Call
  <2>2. x \in {"RX_ON", "TX_ON", "TRX_OFF"} /\ x # "TRX_OFF" /\ x' = x
    BY DEF SlotState, macVars, frameVars
  <2> HIDE DEF x, rest
  <2>3. Arg = x
    BY <2>1, Stack2 DEF Call, Arg
  <2>4. /\ UNCHANGED <<rxVars, txVars, senseVars, currentChannel>>
        /\ Radio'
        /\ trxState' = "BUSY_RX" <=> trxState = "BUSY_RX"
        /\ TurnStarts(x) \/ TurnDone(x)
    BY <1>1, <2>1, <2>2, <2>3, TurnStep DEF NoRound, Begins
  <2>5. /\ trxState' # "BUSY_TX" /\ trxState' # "BUSY_RX" /\ ~pdDataRequest
        /\ endCapEvent /\ macState = "MAC_CSMA" => ~setTRXState'
        /\ trxState' = x \/ TurnStarts(x)
    BY <1>1, <2>1, <2>2, <2>4 DEF TurnStarts, TurnDone, Begins, NotBusy
  <2>6. Global'
    BY <1>1, <2>1, <2>4, <2>5, GlobalRadio DEF Begins
  <2>7. Begins'
    BY <2>1, <2>2, <2>4, <2>5
       DEF Begins, Settled, NoRound, NotBusy, macVars, frameVars, csmaVars, rxVars,
           senseVars, TurnStarts, TurnDone
  <2>8. CASE TurnStarts(x)
    <3>1. calls' = <<rest>> /\ setTRXState' /\ trxStatePending' = x'
      BY <2>1, <2>2, <2>8, Stack2 DEF TurnStarts
    <3>2. Beginning'
      BY <2>7, <3>1 DEF Beginning, x, rest
    <3> QED
      BY <2>6, <3>2 DEF SafeInv, Phase
  <2>9. CASE TurnDone(x)
    <3>1. calls' = <<Call("PlmeSetTRXStateConfirm", x'), rest>>
      BY <2>1, <2>2, <2>9, Stack2 DEF TurnDone, Confirm
    <3>2. Steady(SlotState)'
      BY <2>2, <2>5, <2>9 DEF TurnDone, Steady, x
    <3>3. Beginning'
      BY <2>7, <3>1, <3>2 DEF Beginning, x, rest
    <3> QED
      BY <2>6, <3>3 DEF SafeInv, Phase
  <2> QED
    BY <2>4, <2>8, <2>9
<1> QED
  BY <1>2, <1>3, PhaseOf DEF SafeInv, PlmeSetTRXStateRequest

-----------------------------------------------------------------------------
(* The confirm of the transceiver *)

\* The null pointer is no state, no event, no direction and no IFS.
LEMMA NoneApart ==
  /\ NONE # "MAC_IDLE" /\ NONE # "MAC_CSMA" /\ NONE # "MAC_ACK_PENDING" /\ NONE # "MAC_GTS"
  /\ NONE # "RX" /\ NONE # "TX" /\ NONE # "SIFS" /\ NONE # "LIFS"
  /\ NONE # "randomBackoff" /\ NONE # "canProceed" /\ NONE # "requestCca"
BY MacConstants DEF MacStates, CsmaEvents

LEMMA QueuedPacket ==
  ASSUME MacInv, HeadOfQueue
  PROVE  txPkt # NONE
<1>1. txQueue \in Seq(Packets) /\ NONE \notin Packets
  BY PhyConstants DEF MacInv, MacLocal
<1> QED
  BY <1>1 DEF HeadOfQueue

\* The radio and the reception do not change while only the MAC acts.
LEMMA PhyKept ==
  ASSUME Global, UNCHANGED <<phyState, frameVars, endCapEvent, aborted>>
  PROVE  Radio' /\ Reception'
BY DEF Global, Radio, Reception, phyState, radioVars, rxVars, txVars, senseVars, frameVars

LEMMA ConfirmSafe ==
  ASSUME MacInv, SafeInv, PlmeSetTRXStateConfirm
  PROVE  SafeInv'
<1> USE DEF phyState, radioVars, rxVars, txVars, senseVars, frameVars, csmaVars, queueVars
<1>1. /\ Global /\ UNCHANGED <<phyState, macState, ifsEvent, frameVars>>
      /\ pdDataRequest => trxState = "BUSY_TX"
      /\ cap => gts = NONE
  BY DEF SafeInv, Global, Transmission, Periods, PlmeSetTRXStateConfirm
<1>2. CASE Turned
  <2>1. PICK x \in {"RX_ON", "TX_ON", "TRX_OFF"} :
          /\ calls = Confirm(x) /\ Settled /\ Awaits(x) /\ NoRound
          /\ Steady(x) \/ (x = "RX_ON" /\ Steady("BUSY_RX"))
    BY <1>2 DEF Turned
  <2>2. /\ Arg = x
        /\ Returns(<<>>) => calls' = <<>>
        /\ \A y : Returns(<<y>>) => calls' = <<y>>
    BY <2>1, Stack1 DEF Confirm, Call, Arg
  <2>3. ~pdDataRequest /\ trxState # "BUSY_TX" /\ setMacState = NONE /\ ~setTRXState
    BY <1>1, <2>1 DEF Steady, Awaits
  <2>4. CASE SendPacket
    <3>1. x = "TX_ON" /\ HasFrame /\ Steady("TX_ON")
      BY <2>1, <2>2, <2>4 DEF SendPacket, HasFrame, Awaits, Steady
    <3>2. txPkt # NONE
      BY <1>1, <2>3, <3>1, QueuedPacket DEF HasFrame, Global, Packet
    <3>3. /\ calls' = <<Call("PdDataRequest", txPkt)>>
          /\ UNCHANGED <<aborted, queueVars, setMacState, csmaVars>>
      BY <2>2, <2>4, <3>2 DEF SendPacket
    <3>4. Global'
      BY <1>1, <3>3, PhyKept DEF Global, Transmission, Periods, Round, NoRound, Packet, HeadOfQueue
    <3>5. Requesting'
      BY <1>1, <2>1, <2>3, <3>1, <3>3 DEF Requesting, Settled, HasFrame, Steady
    <3> QED
      BY <3>4, <3>5 DEF SafeInv, Phase
  <2>5. CASE StartCsma
    <3>1. macState = "MAC_CSMA" /\ cap /\ ~endCapEvent /\ Listening /\ x = "RX_ON"
      BY <2>1, <2>5 DEF StartCsma, Awaits, Steady, Listening
    <3>2. /\ calls' = <<>> /\ csmaEvent' = "randomBackoff"
          /\ UNCHANGED <<aborted, queueVars, setMacState, endCapEvent, ccaRequestRunning>>
      BY <2>2, <2>5 DEF StartCsma
    <3>3. Round'
      BY <1>1, <2>1, <2>3, <3>1, <3>2 DEF Round, NoRound, Listening
    <3>4. Global'
      BY <1>1, <3>2, <3>3, PhyKept DEF Global, Transmission, Periods, Packet, HeadOfQueue
    <3>5. Rests'
      BY <1>1, <3>1, <3>2 DEF Rests, Listening
    <3>6. AtRest'
      BY <1>1, <2>1, <2>3, <3>2, <3>5 DEF AtRest, Settled
    <3> QED
      BY <3>4, <3>6 DEF SafeInv, Phase
  <2>6. CASE IdleAgain
    <3>1. macState = "MAC_IDLE" /\ gts = NONE /\ x \in {"RX_ON", "TRX_OFF"}
      BY <2>1, <2>6 DEF IdleAgain, Awaits
    <3>2. calls' = <<>> /\ UNCHANGED <<aborted, txQueue, csmaVars>>
      BY <2>2, <2>6, <3>1 DEF IdleAgain
    <3>3. \/ UNCHANGED <<txPkt, setMacState>>
          \/ cap /\ txQueue # <<>> /\ txPkt' = Head(txQueue) /\ setMacState' = "MAC_CSMA"
      BY <2>6 DEF IdleAgain, CheckQueue, MayServe
    <3>4. Round'
      BY <1>1, <2>1, <3>2, <3>1, <3>3 DEF Global, Round, NoRound
    <3>5. Transmission' /\ Packet'
      BY <1>1, <2>3, <3>1, <3>2, <3>3 DEF Global, Transmission, Packet, HeadOfQueue
    <3>6. Periods'
      BY <1>1, <2>3, <3>1, <3>2, <3>3, MacConstants DEF Global, Periods
    <3>7. Global'
      BY <1>1, <3>2, <3>4, <3>5, <3>6, PhyKept DEF Global
    <3>8. Rests'
      BY <1>1, <2>1, <3>1, <3>2 DEF Rests, Steady
    <3>9. AtRest'
      BY <1>1, <2>1, <2>3, <3>2, <3>3, <3>8 DEF AtRest, Settled
    <3> QED
      BY <3>7, <3>9 DEF SafeInv, Phase
  <2>7. CASE NothingToDo
    <3>1. /\ macState \in {"MAC_ACK_PENDING", "MAC_GTS"} /\ Expected
          /\ \/ macState = "MAC_ACK_PENDING" /\ x = "RX_ON"
             \/ macState = "MAC_GTS" /\ x = "RX_ON" /\ gts # NONE
             \/ macState = "MAC_GTS" /\ x = "TX_ON" /\ gts = "TX"
      BY <2>1, <2>2, <2>7 DEF NothingToDo, Awaits, Expected
    <3>2. calls' = <<>> /\ UNCHANGED <<aborted, queueVars, setMacState, csmaVars>>
      BY <2>2, <2>7, <3>1 DEF NothingToDo
    <3>3. Global'
      BY <1>1, <3>2, PhyKept DEF Global, Transmission, Periods, Round, NoRound, Packet, HeadOfQueue
    <3>4. Rests'
      BY <1>1, <2>1, <3>1, <3>2 DEF Rests, Steady, Listening
    <3>5. AtRest'
      BY <1>1, <2>1, <2>3, <3>2, <3>4 DEF AtRest, Settled
    <3> QED
      BY <3>3, <3>5 DEF SafeInv, Phase
  <2> QED
    BY <2>4, <2>5, <2>6, <2>7 DEF PlmeSetTRXStateConfirm
<1>3. CASE Entering
  <2> DEFINE a == Call("PlmeSetAttributeConfirm", "SUCCESS")
             b == Call("EnterGts", NONE)
  <2>1. /\ HopsIn /\ macState = "MAC_IDLE"
        /\ calls = <<Call("PlmeSetTRXStateConfirm", "TRX_OFF"), a, b>>
    BY <1>3, Stack1, Stack2 DEF Entering, PlmeSetTRXStateConfirm, Running, Call
  <2> HIDE DEF a, b
  <2>2. Arg = "TRX_OFF" /\ (Returns(<<>>) => calls' = <<a, b>>)
    BY <2>1, Stack3 DEF Call, Arg
  <2>3. IdleAgain
    BY <2>1 DEF PlmeSetTRXStateConfirm, SendPacket, StartCsma, NothingToDo
  <2>4. calls' = <<a, b>> /\ UNCHANGED <<aborted, queueVars, setMacState, csmaVars>>
    BY <2>2, <2>3 DEF IdleAgain
  <2>5. Global'
    BY <1>1, <2>4, PhyKept DEF Global, Transmission, Periods, Round, NoRound, Packet, HeadOfQueue
  <2>6. HopsIn'
    BY <1>1, <2>1, <2>4 DEF HopsIn, Settled, NoRound, NotBusy
  <2>7. Entering'
    BY <2>4, <2>6 DEF Entering, a, b
  <2> QED
    BY <2>5, <2>7 DEF SafeInv, Phase
<1>4. CASE Beginning
  <2> DEFINE b == Call("ContinueSending", NONE)
  <2>1. /\ Begins /\ Steady(SlotState)
        /\ calls = <<Call("PlmeSetTRXStateConfirm", SlotState), b>>
    BY <1>4, Stack1, Stack2 DEF Beginning, PlmeSetTRXStateConfirm, Running, Call
  <2> HIDE DEF b
  <2>2. Arg = SlotState /\ SlotState \in {"RX_ON", "TX_ON"} /\ (Returns(<<>>) => calls' = <<b>>)
    BY <2>1, Stack2 DEF Call, Arg, SlotState
  <2>3. NothingToDo /\ Expected
    BY <2>1, <2>2 DEF PlmeSetTRXStateConfirm, SendPacket, StartCsma, IdleAgain, Expected, Begins
  <2>4. calls' = <<b>> /\ UNCHANGED <<aborted, queueVars, setMacState, csmaVars>>
    BY <2>2, <2>3 DEF NothingToDo
  <2>5. Global'
    BY <1>1, <2>4, PhyKept DEF Global, Transmission, Periods, Round, NoRound, Packet, HeadOfQueue
  <2>6. Begins'
    BY <1>1, <2>1, <2>4 DEF Begins, Settled, NoRound, NotBusy
  <2>7. Steady(SlotState)'
    BY <1>1, <2>1 DEF Steady, SlotState
  <2>8. Beginning'
    BY <2>4, <2>6, <2>7 DEF Beginning, b
  <2> QED
    BY <2>5, <2>8 DEF SafeInv, Phase
<1> QED
  BY <1>2, <1>3, <1>4, PhaseOf DEF SafeInv, PlmeSetTRXStateConfirm

-----------------------------------------------------------------------------
(* The other calls of the PHY *)

LEMMA DataRequestSafe ==
  ASSUME MacInv, SafeInv, PdDataRequest, UNCHANGED macVars
  PROVE  SafeInv'
<1> USE DEF macVars, radioVars, rxVars, txVars, senseVars, frameVars, csmaVars, queueVars
<1>1. Global /\ Requesting
  BY PhaseOf DEF SafeInv, PdDataRequest
<1>2. /\ ~setTRXState /\ trxState = "TX_ON" /\ ~pdDataRequest /\ staleEndTx = 0
      /\ HasFrame /\ setMacState = NONE /\ ~aborted
      /\ Arg = txPkt
  BY <1>1, Stack1 DEF Requesting, Steady, Global, Transmission, Radio, Arg, Call
<1>3. /\ Returns(<<>>) => calls' = <<>>
      /\ \A y : Returns(<<y>>) => calls' = <<y>>
  BY <1>1, Stack1 DEF Requesting
<1>4. CASE BeginTransmission
  <2>1. /\ trxState' = "BUSY_TX" /\ pdDataRequest' /\ staleEndTx' = 0
        /\ currentTxPacket' = [first |-> txPkt, second |-> FALSE]
        /\ calls' = <<>>
        /\ UNCHANGED <<trxStatePending, setTRXState, rxVars, senseVars, aborted>>
    BY <1>2, <1>3, <1>4 DEF BeginTransmission
  <2>2. Radio' /\ Reception' /\ Transmission'
    BY <1>1, <1>2, <2>1 DEF Global, Radio, Reception, Transmission
  <2>3. Periods' /\ Packet'
    BY <1>1 DEF Global, Periods, Packet, HeadOfQueue
  <2>4. Round'
    BY <1>1, <1>2, <2>1 DEF Global, Round, NoRound, HasFrame
  <2>5. AtRest'
    BY <1>1, <1>2, <2>1 DEF AtRest, Settled, Rests, HasFrame, Requesting
  <2> QED
    BY <2>2, <2>3, <2>4, <2>5 DEF SafeInv, Global, Phase
<1>5. CASE RefuseTransmission
  <2>1. /\ calls' = <<Call("PdDataConfirm", "UNSPECIFIED")>>
        /\ UNCHANGED <<radioVars, rxVars, txVars, senseVars, aborted>>
    BY <1>2, <1>3, <1>5 DEF RefuseTransmission
  <2>2. Global'
    BY <1>1, <2>1 DEF Global, Radio, Reception, Transmission, Periods, Packet, HeadOfQueue,
                      Round, NoRound
  <2>3. Refused'
    BY <1>1, <2>1 DEF Requesting, Refused, Settled, HasFrame, Steady
  <2> QED
    BY <2>2, <2>3 DEF SafeInv, Phase
<1>6. CASE TransmitWhileReceiving
  BY <1>2, <1>6 DEF TransmitWhileReceiving
<1> QED
  BY <1>4, <1>5, <1>6 DEF PdDataRequest

LEMMA EndTxTailSafe ==
  ASSUME MacInv, SafeInv, EndTxTail, UNCHANGED macVars
  PROVE  SafeInv'
<1> USE DEF macVars, radioVars, rxVars, txVars, senseVars, frameVars, csmaVars, queueVars
<1>1. Global /\ SendingStops
  BY PhaseOf DEF SafeInv, EndTxTail
<1>2. /\ ~setTRXState /\ trxState = "BUSY_TX" /\ ~pdDataRequest /\ trxStatePending = "IDLE"
      /\ (setMacState = NONE /\ HasFrame) \/ ChangeDue
  BY <1>1 DEF SendingStops, Steady, Global, Radio
<1>3. /\ trxState' = "TX_ON" /\ calls' = <<>>
      /\ UNCHANGED <<trxStatePending, setTRXState, pdDataRequest, staleEndTx, rxVars,
                     senseVars, aborted>>
  BY <1>1, <1>2, Stack1 DEF EndTxTail, SendingStops
<1>4. Radio' /\ Reception' /\ Transmission'
  BY <1>1, <1>2, <1>3 DEF Global, Radio, Reception, Transmission
<1>5. Periods' /\ Packet'
  BY <1>1 DEF Global, Periods, Packet, HeadOfQueue
<1>6. Round'
  BY <1>1, <1>2, <1>3 DEF Global, Round, NoRound
<1>7. CASE setMacState = NONE /\ HasFrame
  <2>1. Rests'
    BY <1>1, <1>3, <1>7 DEF Rests, HasFrame, Global, Periods
  <2>2. AtRest'
    BY <1>1, <1>2, <1>3, <1>7, <2>1 DEF AtRest, Settled, SendingStops
  <2> QED
    BY <1>4, <1>5, <1>6, <2>2 DEF SafeInv, Global, Phase
<1>8. CASE ChangeDue
  <2>1. AtRest'
    BY <1>1, <1>2, <1>3, <1>8 DEF AtRest, Settled, SendingStops, ChangeDue, NotBusy, HasFrame
  <2> QED
    BY <1>4, <1>5, <1>6, <2>1 DEF SafeInv, Global, Phase
<1> QED
  BY <1>2, <1>7, <1>8

LEMMA EndRxTailSafe ==
  ASSUME MacInv, SafeInv, EndRxTail, UNCHANGED macVars
  PROVE  SafeInv'
<1> USE DEF macVars, radioVars, rxVars, txVars, senseVars, frameVars, csmaVars, queueVars
<1>1. Global /\ ReceptionStops
  BY PhaseOf DEF SafeInv, EndRxTail
<1>2. /\ ~setTRXState /\ trxState = "BUSY_RX" /\ trxStatePending = "IDLE" /\ ~isRxCanceled
      /\ (setMacState = NONE /\ Rests) \/ ChangeDue
  BY <1>1 DEF ReceptionStops, ChangeDue, Receives, Steady, Global, Radio
<1>3. /\ trxState' = "RX_ON" /\ calls' = <<>> /\ isRxCanceled' = FALSE
      /\ currentRxPacket' = [first |-> NONE, second |-> TRUE]
      /\ UNCHANGED <<trxStatePending, setTRXState, signals, txVars, senseVars, aborted>>
  BY <1>1, <1>2, Stack1 DEF EndRxTail, ReceptionStops
<1>4. Radio' /\ Transmission'
  BY <1>1, <1>2, <1>3 DEF Global, Radio, Transmission
<1>5. Reception'
  BY <1>3, PhyConstants, MacConstants DEF Reception
<1>6. Periods' /\ Packet'
  BY <1>1 DEF Global, Periods, Packet, HeadOfQueue
<1>7. Round'
  BY <1>1, <1>2, <1>3 DEF Global, Round, NoRound
<1>8. Settled'
  BY <1>1, <1>3 DEF Settled, ReceptionStops, Receives
<1>9. CASE setMacState = NONE /\ Rests
  <2>1. Rests'
    BY <1>2, <1>3, <1>9 DEF Rests, HasFrame, Listening
  <2>2. AtRest'
    BY <1>2, <1>3, <1>8, <1>9, <2>1 DEF AtRest
  <2> QED
    BY <1>4, <1>5, <1>6, <1>7, <2>2 DEF SafeInv, Global, Phase
<1>10. CASE ChangeDue
  <2>1. ChangeDue' /\ ~setTRXState' /\ NotBusy'
    BY <1>2, <1>3, <1>10 DEF ChangeDue, NotBusy, HasFrame
  <2>2. AtRest'
    BY <1>3, <1>8, <2>1 DEF AtRest
  <2> QED
    BY <1>4, <1>5, <1>6, <1>7, <2>2 DEF SafeInv, Global, Phase
<1> QED
  BY <1>2, <1>9, <1>10

LEMMA CcaCallsSafe ==
  ASSUME MacInv, SafeInv, PlmeCcaRequest \/ CcaCancel \/ CancelPdDataRequest,
         UNCHANGED macVars
  PROVE  SafeInv'
<1> USE DEF macVars, radioVars, rxVars, txVars, senseVars, frameVars, csmaVars, queueVars
<1>1. CASE PlmeCcaRequest
  <2>1. Global /\ Sensing
    BY <1>1, PhaseOf DEF SafeInv, PlmeCcaRequest
  <2>2. /\ ccaRequestRunning /\ ~ccaRequest /\ macState = "MAC_CSMA" /\ setMacState = NONE
        /\ cap /\ gts = NONE /\ ~endCapEvent
        /\ ~setTRXState /\ trxState \in {"RX_ON", "BUSY_RX"}
        /\ currentRxPacket.first # NONE => currentRxPacket.first \in signals
    BY <2>1 DEF Sensing, SensesNow, Global, Round, NoRound, Periods
  <2>3. /\ ccaRequest' /\ calls' = <<>>
        /\ UNCHANGED <<radioVars, rxVars, txVars, edRequest, aborted>>
    BY <1>1, <2>1, <2>2, Stack1 DEF PlmeCcaRequest, Sensing
  <2>4. Radio' /\ Reception' /\ Transmission' /\ Periods' /\ Packet'
    BY <2>1, <2>3 DEF Global, Radio, Reception, Transmission, Periods, Packet, HeadOfQueue
  <2>5. Round'
    BY <2>1, <2>2, <2>3 DEF Global, Round, NoRound
  <2>6. AtRest'
    BY <2>2, <2>3 DEF AtRest, Settled, Rests, Listening
  <2> QED
    BY <2>4, <2>5, <2>6 DEF SafeInv, Global, Phase
<1>2. CASE CcaCancel
  <2>1. Global /\ BeaconTaken
    BY <1>2, PhaseOf DEF SafeInv, CcaCancel
  <2>2. ~ccaRequest /\ ~ccaRequestRunning
    BY <2>1, NoneApart DEF BeaconTaken, Global, Round, NoRound
  <2>3. /\ ~ccaRequest' /\ calls' = <<Call("EndRxTail", NONE)>>
        /\ UNCHANGED <<radioVars, rxVars, txVars, edRequest, aborted>>
    BY <1>2, <2>1, Stack2 DEF CcaCancel, BeaconTaken
  <2>4. Radio' /\ Reception' /\ Transmission' /\ Periods' /\ Packet'
    BY <2>1, <2>3 DEF Global, Radio, Reception, Transmission, Periods, Packet, HeadOfQueue
  <2>5. Round'
    BY <2>1, <2>2, <2>3 DEF Global, Round, NoRound
  <2>6. ReceptionStops'
    BY <2>1, <2>2, <2>3 DEF BeaconTaken, ReceptionStops, Receives, Steady
  <2> QED
    BY <2>4, <2>5, <2>6 DEF SafeInv, Global, Phase
<1>3. CASE CancelPdDataRequest
  <2>1. Global /\ Cancelling
    BY <1>3, PhaseOf DEF SafeInv, CancelPdDataRequest
  <2>2. /\ ~pdDataRequest' /\ calls' = <<>>
        /\ UNCHANGED <<radioVars, rxVars, currentTxPacket, staleEndTx, senseVars, aborted>>
    BY <1>3, <2>1, Stack1 DEF CancelPdDataRequest, Cancelling
  <2>3. Radio' /\ Reception' /\ Transmission' /\ Periods' /\ Packet'
    BY <2>1, <2>2 DEF Global, Radio, Reception, Transmission, Periods, Packet, HeadOfQueue
  <2>4. Round'
    BY <2>1, <2>2 DEF Global, Round, NoRound
  <2>5. AtRest'
    BY <2>1, <2>2 DEF AtRest, Settled, Cancelling, Leaves, ChangeDue, NotBusy
  <2> QED
    BY <2>3, <2>4, <2>5 DEF SafeInv, Global, Phase
<1> QED
  BY <1>1, <1>2, <1>3

\* A change of the channel finds neither a reception nor a transmission, and
\* breaks off at most a turnaround.
LEMMA HopSafe ==
  ASSUME Global, NoRound, NotBusy, PhyTypeOK, Arg \in Tunable, PlmeSetAttributeRequest,
         UNCHANGED macVars
  PROVE  /\ Global' /\ NotBusy' /\ NoRound' /\ UNCHANGED <<rxVars, senseVars>>
         /\ setTRXState' => setTRXState
         /\ \/ Returns(<<Call("PlmeSetAttributeConfirm", "SUCCESS")>>)
            \/ /\ setTRXState
               /\ Returns(<<Call("PlmeSetTRXStateConfirm", "TRX_OFF"),
                            Call("PlmeSetAttributeConfirm", "SUCCESS")>>)
<1> USE DEF macVars, radioVars, rxVars, txVars, senseVars, frameVars, csmaVars, queueVars
<1>1. /\ currentRxPacket \in [first : Signals \cup {NONE}, second : BOOLEAN]
      /\ currentRxPacket.first = NONE /\ ~pdDataRequest
      /\ ~aborted /\ ~edRequest /\ staleEndTx = 0 /\ ~isRxCanceled
      /\ setTRXState \in BOOLEAN /\ (~setTRXState <=> trxStatePending = "IDLE")
  BY DEF PhyTypeOK, NotBusy, Global, Reception, Transmission, Radio
<1>2. CASE Retune
  <2>1. UNCHANGED currentRxPacket
    BY <1>1, <1>2 DEF Retune
  <2>2. /\ UNCHANGED <<rxVars, txVars, senseVars, aborted>>
        /\ ~setTRXState' /\ trxStatePending' = "IDLE" /\ trxState' = "TRX_OFF"
    BY <1>1, <1>2, <2>1 DEF Retune
  <2>3. Radio'
    BY <1>1, <2>2 DEF Radio
  <2>4. Global'
    <3>1. /\ trxState' = "BUSY_RX" <=> trxState = "BUSY_RX"
          /\ trxState' # "BUSY_TX"
          /\ endCapEvent /\ macState = "MAC_CSMA" => ~setTRXState'
      BY <2>2 DEF NotBusy
    <3> QED
      BY <1>1, <2>2, <2>3, <3>1, GlobalRadio
  <2>5. CASE setTRXState
    <3>1. Confirm("TRX_OFF") \o <<Call("PlmeSetAttributeConfirm", "SUCCESS")>> =
            <<Call("PlmeSetTRXStateConfirm", "TRX_OFF"),
              Call("PlmeSetAttributeConfirm", "SUCCESS")>>
      BY Concat1 DEF Confirm
    <3>2. Returns(<<Call("PlmeSetTRXStateConfirm", "TRX_OFF"),
                    Call("PlmeSetAttributeConfirm", "SUCCESS")>>)
      BY <1>1, <1>2, <2>5, <3>1 DEF Retune
    <3> QED
      BY <2>2, <2>4, <2>5, <3>2 DEF NotBusy, NoRound
  <2>6. CASE ~setTRXState
    <3>1. <<>> \o <<Call("PlmeSetAttributeConfirm", "SUCCESS")>> =
            <<Call("PlmeSetAttributeConfirm", "SUCCESS")>>
      OBVIOUS
    <3>2. Returns(<<Call("PlmeSetAttributeConfirm", "SUCCESS")>>)
      BY <1>1, <1>2, <2>6, <3>1 DEF Retune
    <3> QED
      BY <2>2, <2>4, <3>2 DEF NotBusy, NoRound
  <2> QED
    BY <2>5, <2>6
<1>3. CASE KeepChannel
  <2>1. /\ UNCHANGED <<radioVars, rxVars, txVars, senseVars, aborted>>
        /\ Returns(<<Call("PlmeSetAttributeConfirm", "SUCCESS")>>)
    BY <1>3 DEF KeepChannel
  <2>2. Global'
    BY <2>1 DEF Global, Radio, Reception, Transmission, Periods, Packet, HeadOfQueue,
                Round, NoRound
  <2> QED
    BY <2>1, <2>2 DEF NotBusy, NoRound
<1>4. CASE RetuneOutOfBand
  BY <1>4 DEF RetuneOutOfBand
<1> QED
  BY <1>2, <1>3, <1>4 DEF PlmeSetAttributeRequest

LEMMA AttributeRequestSafe ==
  ASSUME MacInv, SafeInv, PlmeSetAttributeRequest, UNCHANGED macVars
  PROVE  SafeInv'
<1> USE DEF macVars, frameVars, csmaVars, queueVars, rxVars, senseVars
<1> DEFINE ok == Call("PlmeSetAttributeConfirm", "SUCCESS")
           off == Call("PlmeSetTRXStateConfirm", "TRX_OFF")
<1>1. Global /\ PhyTypeOK /\ Running("PlmeSetAttributeRequest")
  BY DEF SafeInv, MacInv, PlmeSetAttributeRequest
<1>2. CASE Entering
  <2>1. PICK c \in Tunable :
          calls = <<Call("PlmeSetAttributeRequest", c), Call("EnterGts", NONE)>>
    BY <1>1, <1>2, Stack1, Stack2, Stack3 DEF Entering, Running, Call
  <2>2. HopsIn
    BY <1>2 DEF Entering
  <2>3. Arg \in Tunable
    BY <2>1, Stack2 DEF Arg, Call
  <2>4. /\ Global' /\ NotBusy' /\ NoRound' /\ UNCHANGED <<rxVars, senseVars>>
        /\ setTRXState' => setTRXState
        /\ Returns(<<ok>>) \/ (setTRXState /\ Returns(<<off, ok>>))
    BY <1>1, <2>2, <2>3, HopSafe DEF HopsIn
  <2>5. HopsIn'
    BY <2>2, <2>4 DEF HopsIn, Settled
  <2>6. \/ calls' = <<ok, Call("EnterGts", NONE)>>
        \/ calls' = <<off, ok, Call("EnterGts", NONE)>> /\ macState' = "MAC_IDLE"
    BY <2>1, <2>2, <2>4, Stack2 DEF HopsIn
  <2>7. Entering'
    BY <2>5, <2>6 DEF Entering
  <2> QED
    BY <2>4, <2>7 DEF SafeInv, Phase
<1>3. CASE Leaving
  <2>1. PICK c \in Tunable :
          calls = <<Call("PlmeSetAttributeRequest", c), Call("LeaveGts", NONE)>>
    BY <1>1, <1>3, Stack1, Stack2 DEF Leaving, Running, Call
  <2>2. Leaves
    BY <1>3 DEF Leaving
  <2>3. Arg \in Tunable
    BY <2>1, Stack2 DEF Arg, Call
  <2>4. /\ Global' /\ NotBusy' /\ NoRound' /\ UNCHANGED <<rxVars, senseVars>>
        /\ ~setTRXState' /\ Returns(<<ok>>)
    BY <1>1, <2>2, <2>3, HopSafe DEF Leaves
  <2>5. Leaves'
    BY <2>2, <2>4 DEF Leaves, Settled
  <2>6. calls' = <<ok, Call("LeaveGts", NONE)>>
    BY <2>1, <2>4, Stack2
  <2>7. Leaving'
    BY <1>3, <2>5, <2>6 DEF Leaving
  <2> QED
    BY <2>4, <2>7 DEF SafeInv, Phase
<1> QED
  BY <1>1, <1>2, <1>3, PhaseOf DEF SafeInv

LEMMA PhyCallsSafe ==
  ASSUME MacInv, SafeInv, PhyCalls, UNCHANGED macVars
  PROVE  SafeInv'
<1>1. CASE PlmeEdRequest
  BY <1>1, PhaseOf DEF SafeInv, PlmeEdRequest
<1> QED
  BY <1>1, RequestSafe, DataRequestSafe, CcaCallsSafe, AttributeRequestSafe, EndTxTailSafe,
     EndRxTailSafe DEF PhyCalls

-----------------------------------------------------------------------------
(* The slots *)

LEMMA AttributeConfirmSafe ==
  ASSUME MacInv, SafeInv, PlmeSetAttributeConfirm
  PROVE  SafeInv'
<1> USE DEF phyState, macVars, radioVars, rxVars, txVars, senseVars, frameVars, csmaVars,
            queueVars
<1>1. /\ Global /\ UNCHANGED <<phyState, aborted, macVars>> /\ Returns(<<>>)
      /\ Running("PlmeSetAttributeConfirm")
  BY DEF SafeInv, PlmeSetAttributeConfirm
<1>2. Global'
  BY <1>1 DEF Global, Radio, Reception, Transmission, Periods, Packet, HeadOfQueue, Round,
              NoRound
<1>3. CASE Entering
  <2>1. HopsIn'
    BY <1>1, <1>3 DEF Entering, HopsIn, Settled, NoRound, NotBusy
  <2>2. calls = <<Call("PlmeSetAttributeConfirm", "SUCCESS"), Call("EnterGts", NONE)>>
    BY <1>1, <1>3, Stack1, Stack2, Stack3 DEF Entering, Running, Call
  <2>3. calls' = <<Call("EnterGts", NONE)>>
    BY <1>1, <2>2, Stack2
  <2>4. Entering'
    BY <2>1, <2>3 DEF Entering
  <2> QED
    BY <1>2, <2>4 DEF SafeInv, Phase
<1>4. CASE Leaving
  <2>1. Leaves' /\ setMacState' = NONE /\ macState' \notin {"MAC_CSMA", "MAC_SENDING"}
    BY <1>1, <1>4 DEF Leaving, Leaves, Settled, NoRound, NotBusy
  <2>2. calls = <<Call("PlmeSetAttributeConfirm", "SUCCESS"), Call("LeaveGts", NONE)>>
    BY <1>1, <1>4, Stack1, Stack2 DEF Leaving, Running, Call
  <2>3. calls' = <<Call("LeaveGts", NONE)>>
    BY <1>1, <2>2, Stack2
  <2>4. Leaving'
    BY <2>1, <2>3 DEF Leaving
  <2> QED
    BY <1>2, <2>4 DEF SafeInv, Phase
<1> QED
  BY <1>1, <1>3, <1>4, PhaseOf DEF SafeInv

LEMMA EnterGtsSafe ==
  ASSUME MacInv, SafeInv, EnterGts
  PROVE  SafeInv'
<1> USE DEF phyState, radioVars, rxVars, txVars, senseVars, frameVars, csmaVars, queueVars
<1>1. /\ Global /\ Entering /\ HopsIn /\ macState' = "MAC_GTS"
      /\ UNCHANGED <<phyState, aborted, queueVars, setMacState, ifsEvent, frameVars, csmaVars>>
  BY PhaseOf DEF SafeInv, EnterGts, Entering
<1>2. calls = <<Call("EnterGts", NONE)>>
  BY <1>1, Stack2, Stack3 DEF Entering, EnterGts, Running, Call
<1>3. calls' = <<Call("PlmeSetTRXStateRequest", SlotState'), Call("ContinueSending", NONE)>>
  <2>1. Turn(SlotState) \o <<Call("ContinueSending", NONE)>> =
          <<Call("PlmeSetTRXStateRequest", SlotState), Call("ContinueSending", NONE)>>
    BY Concat1 DEF Turn
  <2>2. Returns(<<Call("PlmeSetTRXStateRequest", SlotState), Call("ContinueSending", NONE)>>)
    BY <2>1 DEF EnterGts, SlotState
  <2>3. SlotState' = SlotState
    BY <1>1 DEF SlotState
  <2> QED
    BY <1>2, <2>2, <2>3, Stack1
<1>4. Radio' /\ Reception'
  BY <1>1, PhyKept
<1>5. Transmission' /\ Periods' /\ Packet'
  BY <1>1 DEF Global, Transmission, Periods, Packet, HeadOfQueue, HopsIn
<1>6. Round'
  BY <1>1 DEF Global, Round, NoRound, HopsIn, Periods
<1>7. Begins'
  BY <1>1 DEF Begins, HopsIn, Settled, NoRound, NotBusy
<1>8. Beginning'
  BY <1>3, <1>7 DEF Beginning
<1> QED
  BY <1>4, <1>5, <1>6, <1>8 DEF SafeInv, Global, Phase

LEMMA ContinueSendingSafe ==
  ASSUME MacInv, SafeInv, ContinueSending
  PROVE  SafeInv'
<1> USE DEF phyState, radioVars, rxVars, txVars, senseVars, frameVars, csmaVars, queueVars
<1>1. /\ Global /\ Beginning /\ Begins
      /\ UNCHANGED <<phyState, aborted, txQueue, setMacState, ifsEvent, frameVars, csmaVars>>
      /\ gts \in {"RX", "TX", NONE}
  BY PhaseOf DEF SafeInv, ContinueSending, Beginning, MacInv, MacLocal
<1>2. /\ calls = <<Call("ContinueSending", NONE)>>
      /\ Steady(SlotState) \/ (setTRXState /\ trxStatePending = SlotState)
  BY <1>1, Stack2 DEF Beginning, ContinueSending, Running, Call
<1>3. /\ macState = "MAC_GTS" /\ setMacState = NONE /\ gts # NONE /\ ifsEvent = NONE /\ ~cap
      /\ ~pdDataRequest /\ NoRound /\ Settled /\ NotBusy
  BY <1>1 DEF Begins, NotBusy, Global, Transmission, Periods
<1>4. \/ txPkt' = txPkt
      \/ txQueue # <<>> /\ txPkt' = Head(txQueue)
  BY DEF ContinueSending
<1>5. Radio' /\ Reception'
  BY <1>1, PhyKept
<1>6. CASE ContinueFromCap /\ txPkt' # NONE
  <2>1. macState' = "MAC_GTS_SENDING" /\ calls' = Turn("TX_ON")
    BY <1>2, <1>6, Stack1 DEF ContinueSending, Turn
  <2>2. Transmission' /\ Periods'
    BY <1>1, <1>3, <2>1 DEF Global, Transmission, Periods
  <2>3. Packet'
    BY <1>1, <1>3, <1>4, <1>6, <2>1, NoneApart DEF Global, Packet, HeadOfQueue
  <2>4. Round'
    BY <1>1, <1>3, <2>1 DEF Global, Round, NoRound
  <2>5. Settled' /\ NoRound' /\ NotBusy'
    BY <1>1, <1>3 DEF Settled, NoRound, NotBusy
  <2>6. Awaits("TX_ON")'
    BY <1>1, <1>3, <2>1 DEF Awaits
  <2>7. Turning'
    BY <2>1, <2>5, <2>6 DEF Turning, Turn
  <2> QED
    BY <1>5, <2>2, <2>3, <2>4, <2>7 DEF SafeInv, Global, Phase
<1>7. CASE ~(ContinueFromCap /\ txPkt' # NONE)
  <2>1. UNCHANGED macState /\ calls' = <<>>
    BY <1>2, <1>7, Stack1 DEF ContinueSending
  <2>2. Transmission' /\ Periods'
    BY <1>1, <1>3, <2>1 DEF Global, Transmission, Periods
  <2>3. Packet'
    BY <1>1, <1>3, <1>4, <2>1, NoneApart DEF Global, Packet, HeadOfQueue
  <2>4. Round'
    BY <1>1, <1>3, <2>1 DEF Global, Round, NoRound
  <2>5. Settled' /\ NoRound'
    BY <1>1, <1>3 DEF Settled, NoRound
  <2>6. AtRest'
    <3>1. CASE Steady(SlotState)
      <4>1. Rests' /\ ~setTRXState'
        BY <1>1, <1>3, <2>1, <3>1 DEF Rests, Steady, SlotState, Listening
      <4> QED
        BY <1>1, <1>3, <2>1, <2>5, <4>1 DEF AtRest
    <3>2. CASE setTRXState /\ trxStatePending = SlotState
      <4>1. Awaits(trxStatePending)' /\ setTRXState'
        BY <1>1, <1>3, <2>1, <3>2 DEF Awaits, SlotState
      <4> QED
        BY <2>1, <2>5, <4>1 DEF AtRest
    <3> QED
      BY <1>2, <3>1, <3>2
  <2> QED
    BY <1>5, <2>2, <2>3, <2>4, <2>6 DEF SafeInv, Global, Phase
<1> QED
  BY <1>6, <1>7

LEMMA LeaveGtsSafe ==
  ASSUME MacInv, SafeInv, LeaveGts
  PROVE  SafeInv'
<1> USE DEF phyState, radioVars, rxVars, txVars, senseVars, frameVars, csmaVars, queueVars
<1>1. /\ Global /\ Leaving /\ Leaves
      /\ UNCHANGED <<phyState, aborted, macState, txQueue, ifsEvent, frameVars, csmaVars>>
      /\ setMacState' = "MAC_IDLE" /\ txPkt' = NONE
  BY PhaseOf DEF SafeInv, LeaveGts, Leaving
<1>2. calls = <<Call("LeaveGts", NONE)>>
  BY <1>1, Stack2 DEF Leaving, LeaveGts, Running, Call
<1>3. calls' = <<Call("CancelPdDataRequest", NONE)>>
  BY <1>2, Stack1 DEF LeaveGts
<1>4. Radio' /\ Reception'
  BY <1>1, PhyKept
<1>5. Transmission' /\ Periods'
  BY <1>1, NoneApart DEF Global, Transmission, Periods, Leaves, NotBusy
<1>6. Packet'
  BY <1>1, NoneApart DEF Packet
<1>7. Round'
  BY <1>1 DEF Global, Round, NoRound, Leaves
<1>8. Leaves'
  BY <1>1 DEF Leaves, Settled, NoRound, NotBusy
<1>9. Cancelling'
  BY <1>1, <1>3, <1>8 DEF Cancelling
<1> QED
  BY <1>4, <1>5, <1>6, <1>7, <1>9 DEF SafeInv, Global, Phase

-----------------------------------------------------------------------------
(* The callbacks of a transmission, a reception and a CCA *)

LEMMA DataConfirmSafe ==
  ASSUME MacInv, SafeInv, PdDataConfirm
  PROVE  SafeInv'
<1> USE DEF phyState, radioVars, rxVars, txVars, senseVars, frameVars, csmaVars, queueVars
<1>1. /\ Global /\ UNCHANGED <<phyState, macState, frameVars, csmaVars>>
      /\ Refused \/ Sent
  BY PhaseOf DEF SafeInv, PdDataConfirm
<1>2. /\ HasFrame /\ setMacState = NONE /\ ~setTRXState /\ ~pdDataRequest /\ Settled
      /\ gts \in {"RX", "TX", NONE}
      /\ macState = "MAC_SENDING" => cap /\ gts = NONE
  BY <1>1 DEF Refused, Sent, Steady, Global, Transmission, Periods, HasFrame, MacInv, MacLocal
<1>3. /\ txPkt # NONE
      /\ txPkt \notin AckPackets => HeadOfQueue
  BY <1>1, <1>2, QueuedPacket DEF Global, Packet, HasFrame
<1>4. /\ ~ConfirmFails /\ UNCHANGED aborted /\ Returns(<<>>)
      /\ SentWithAckReq \/ SentWithoutAckReq \/ NotSent
  <2>1. ~ConfirmFails
    BY <1>2, <1>3 DEF ConfirmFails, HasFrame, HeadOfQueue
  <2> QED
    BY <2>1 DEF PdDataConfirm
<1>5. Radio' /\ Reception'
  BY <1>1, <1>4, PhyKept
<1>6. Transmission'
  BY <1>1, <1>2 DEF Global, Transmission
<1>7. Round'
  <2>1. NoRound /\ macState # "MAC_CSMA"
    BY <1>1, <1>2 DEF HasFrame, Global, Round
  <2> QED
    BY <1>1, <1>2, <2>1 DEF Global, Round, NoRound
<1>8. /\ Periods' /\ Packet'
      /\ (setMacState' = NONE /\ HasFrame') \/ ChangeDue'
      /\ Arg = "UNSPECIFIED" => ChangeDue'
  <2>1. CASE SentWithAckReq
    <3>1. /\ setMacState' \in {NONE, "MAC_ACK_PENDING"} /\ UNCHANGED queueVars
          /\ setMacState' = NONE => ifsEvent' = ifsEvent
          /\ Arg = "SUCCESS"
      BY <2>1, NoneApart DEF SentWithAckReq
    <3>2. Periods'
      BY <1>1, <1>2, <3>1 DEF Global, Periods, HasFrame
    <3>3. Packet'
      BY <1>1, <1>2, <3>1 DEF Global, Packet, HeadOfQueue, HasFrame
    <3>4. (setMacState' = NONE /\ HasFrame') \/ ChangeDue'
      BY <1>1, <1>2, <3>1 DEF ChangeDue, HasFrame
    <3> QED
      BY <3>1, <3>2, <3>3, <3>4
  <2>2. CASE SentWithoutAckReq \/ NotSent
    <3>1. setMacState' = IF gts # NONE THEN "MAC_GTS" ELSE "MAC_IDLE"
      BY <2>2 DEF SentWithoutAckReq, NotSent, BackToPeriod
    <3>2. txPkt' = NONE \/ UNCHANGED queueVars
      BY <2>2 DEF SentWithoutAckReq, NotSent, RemoveFirstTxQElement
    <3>3. Periods'
      BY <1>1, <1>2, <3>1, NoneApart DEF Global, Periods, HasFrame
    <3>4. Packet'
      BY <1>1, <3>1, <3>2, NoneApart DEF Global, Packet, HeadOfQueue
    <3>5. ChangeDue'
      BY <1>1, <1>2, <3>1 DEF ChangeDue, HasFrame
    <3> QED
      BY <3>3, <3>4, <3>5
  <2> QED
    BY <1>4, <2>1, <2>2
<1>9. Global' /\ Settled'
  BY <1>1, <1>2, <1>5, <1>6, <1>7, <1>8 DEF Global, Settled
<1>10. CASE Refused
  <2>1. calls' = <<>> /\ Arg = "UNSPECIFIED"
    BY <1>4, <1>10, Stack1 DEF Refused, Arg, Call
  <2>2. AtRest'
    BY <1>1, <1>2, <1>8, <1>9, <1>10, <2>1 DEF AtRest, Refused, Steady, NotBusy
  <2> QED
    BY <1>9, <2>2 DEF SafeInv, Phase
<1>11. CASE Sent
  <2>1. calls' = <<Call("EndTxTail", NONE)>>
    BY <1>4, <1>11, Stack2 DEF Sent
  <2>2. Steady("BUSY_TX")' /\ ~pdDataRequest'
    BY <1>1, <1>11 DEF Sent, Steady
  <2>3. SendingStops'
    BY <1>8, <1>9, <2>1, <2>2 DEF SendingStops
  <2> QED
    BY <1>9, <2>3 DEF SafeInv, Phase
<1> QED
  BY <1>1, <1>10, <1>11

LEMMA DataIndicationSafe ==
  ASSUME MacInv, SafeInv, PdDataIndication, orderly'
  PROVE  SafeInv'
<1> USE DEF phyState, radioVars, rxVars, txVars, senseVars, frameVars, csmaVars, queueVars
<1>1. /\ Global /\ Indicating
      /\ UNCHANGED <<phyState, txQueue, cap, gts, endCapEvent, csmaNB, csmaCW,
                     ccaRequestRunning>>
      /\ Arg \in AckSignals => macState # "MAC_CSMA"
  BY PhaseOf DEF SafeInv, PdDataIndication, Keeps
<1>2. /\ trxState = "BUSY_RX" /\ ~setTRXState /\ setMacState = NONE /\ Rests
      /\ ccaRequestRunning => ccaRequest
      /\ Arg = currentRxPacket.first
      /\ ~pdDataRequest /\ gts # "TX" /\ gts \in {"RX", "TX", NONE}
      /\ cap => gts = NONE
  BY <1>1, Stack2 DEF Indicating, Receives, Steady, Arg, Call, Global, Reception, Transmission,
                      Periods, MacInv, MacLocal
<1>3. macState \in {"MAC_IDLE", "MAC_ACK_PENDING", "MAC_CSMA", "MAC_GTS"}
  BY <1>2 DEF Rests, HasFrame
<1>4. /\ UNCHANGED aborted
      /\ BeaconReceived \/ AckReqReceived \/ GackReceived \/ OtherReceived
  BY <1>3 DEF PdDataIndication
<1>5. Radio' /\ Reception'
  BY <1>1, <1>4 DEF Global, Radio, Reception
<1>6. Transmission'
  BY <1>1, <1>2 DEF Global, Transmission
<1>7. /\ Returns(<<>>) => calls' = <<Call("EndRxTail", NONE)>>
      /\ \A x : Returns(<<x>>) => calls' = <<x, Call("EndRxTail", NONE)>>
  BY <1>1, Stack2 DEF Indicating
<1>8. CASE BeaconReceived
  <2>1. /\ ~cap /\ gts = NONE /\ ~endCapEvent
        /\ csmaEvent' = NONE /\ startCap' = TRUE /\ setMacState' = "MAC_IDLE"
        /\ UNCHANGED <<macState, txPkt, ifsEvent>>
        /\ calls' = <<Call("CcaCancel", NONE), Call("EndRxTail", NONE)>>
    BY <1>1, <1>2, <1>7, <1>8 DEF BeaconReceived, Global, Reception
  <2>2. ~ccaRequest /\ ~ccaRequestRunning
    BY <1>1, <2>1 DEF Global, Round, NoRound
  <2>3. Periods' /\ Packet' /\ Round'
    BY <1>1, <2>1, <2>2, NoneApart DEF Global, Periods, Packet, HeadOfQueue, Round, NoRound
  <2>4. BeaconTaken'
    BY <1>1, <1>2, <2>1, <2>2 DEF BeaconTaken, Receives, Steady
  <2> QED
    BY <1>5, <1>6, <2>3, <2>4 DEF SafeInv, Global, Phase
<1>9. CASE AckReqReceived
  <2>1. /\ macState' = IF GroupAck /\ gts # NONE THEN "MAC_GTS" ELSE "MAC_IDLE"
        /\ setMacState' = NONE /\ macState # "MAC_CSMA"
        /\ UNCHANGED <<txPkt, ifsEvent, csmaEvent, startCap>>
        /\ calls' = <<Call("EndRxTail", NONE)>>
    BY <1>1, <1>7, <1>9 DEF AckReqReceived
  <2>2. NoRound /\ ~(endCapEvent /\ cap)
    BY <1>1, <2>1 DEF Global, Round
  <2>3. Periods' /\ Packet' /\ Round'
    BY <1>1, <1>2, <2>1, <2>2, NoneApart DEF Global, Periods, Packet, HeadOfQueue, Round, NoRound
  <2>4. Rests' /\ Receives'
    BY <1>1, <1>2, <2>1, NoneApart DEF Rests, Listening, Receives, Steady
  <2>5. ReceptionStops'
    BY <2>1, <2>4 DEF ReceptionStops
  <2> QED
    BY <1>5, <1>6, <2>3, <2>5 DEF SafeInv, Global, Phase
<1>10. CASE OtherReceived
  <2>1. /\ UNCHANGED <<macState, txPkt, setMacState, ifsEvent, csmaEvent, startCap>>
        /\ calls' = <<Call("EndRxTail", NONE)>>
    BY <1>7, <1>10 DEF OtherReceived
  <2>2. Periods' /\ Packet' /\ Round'
    BY <1>1, <2>1 DEF Global, Periods, Packet, HeadOfQueue, Round, NoRound
  <2>3. Rests' /\ Receives'
    BY <1>1, <1>2, <2>1 DEF Rests, Listening, HasFrame, Receives, Steady
  <2>4. ReceptionStops'
    BY <1>2, <2>1, <2>3 DEF ReceptionStops
  <2> QED
    BY <1>5, <1>6, <2>2, <2>4 DEF SafeInv, Global, Phase
<1>11. CASE GackReceived
  <2>1. /\ gts = "RX" /\ txPkt' = NONE /\ setMacState' = "MAC_GTS"
        /\ UNCHANGED <<macState, csmaEvent, startCap>>
        /\ calls' = <<Call("EndRxTail", NONE)>>
    BY <1>2, <1>7, <1>11 DEF GackReceived
  <2>2. ~cap /\ NoRound /\ ~startCap
    BY <1>1, <1>2, <2>1, NoneApart DEF Global, Periods, Round
  <2>3. Periods' /\ Packet' /\ Round'
    BY <1>1, <1>2, <2>1, <2>2, NoneApart DEF Global, Periods, Packet, Round, NoRound
  <2>4. Receives'
    BY <1>1, <1>2 DEF Receives, Steady
  <2>5. ReceptionStops'
    BY <1>1, <2>1, <2>4, NoneApart DEF ReceptionStops
  <2> QED
    BY <1>5, <1>6, <2>3, <2>5 DEF SafeInv, Global, Phase
<1> QED
  BY <1>4, <1>8, <1>9, <1>10, <1>11

LEMMA CcaConfirmSafe ==
  ASSUME MacInv, SafeInv, PlmeCcaConfirm
  PROVE  SafeInv'
<1> USE DEF phyState, radioVars, rxVars, txVars, senseVars, frameVars, csmaVars, queueVars
<1>1. /\ Global /\ Sensed
      /\ ccaRequestRunning' = FALSE
      /\ UNCHANGED <<phyState, aborted, queueVars, setMacState, ifsEvent, frameVars, endCapEvent>>
  BY PhaseOf DEF SafeInv, PlmeCcaConfirm
<1>2. PICK status \in {"IDLE", "BUSY"} :
        /\ calls = <<Call("PlmeCcaConfirm", status)>> /\ SensesNow
        /\ status = "IDLE" => trxState = "RX_ON"
  BY <1>1 DEF Sensed
<1>3. /\ macState = "MAC_CSMA" /\ setMacState = NONE /\ cap /\ gts = NONE /\ ~endCapEvent
      /\ ~setTRXState /\ trxState \in {"RX_ON", "BUSY_RX"} /\ ~pdDataRequest
      /\ csmaEvent = NONE /\ ccaRequestRunning /\ ~ccaRequest
  BY <1>1, <1>2 DEF SensesNow, Global, Round, NoRound, Periods, Transmission
<1>4. /\ Arg = status
      /\ Returns(<<>>) => calls' = <<>>
      /\ \A x : Returns(<<x>>) => calls' = <<x>>
  BY <1>2, Stack1 DEF Arg, Call
<1>5. Radio' /\ Reception'
  BY <1>1, PhyKept
<1>6. Transmission'
  BY <1>1, <1>3 DEF Global, Transmission
<1>7. Settled'
  BY <1>1, <1>2, <1>3 DEF Settled, SensesNow
<1>8. CASE ChannelIdle
  <2>1. /\ macState' = "MAC_SENDING" /\ calls' = Turn("TX_ON") /\ csmaEvent' = NONE
        /\ trxState = "RX_ON"
    BY <1>2, <1>3, <1>4, <1>8 DEF ChannelIdle, Turn
  <2>2. Packet' /\ Round' /\ Periods'
    BY <1>1, <1>3, <2>1, NoneApart DEF Global, Packet, HeadOfQueue, Round, NoRound, Periods
  <2>3. Awaits("TX_ON")' /\ NoRound' /\ NotBusy'
    BY <1>1, <1>3, <2>1 DEF Awaits, NoRound, NotBusy
  <2>4. Turning'
    BY <1>7, <2>1, <2>3 DEF Turning, Turn
  <2> QED
    BY <1>5, <1>6, <2>2, <2>4 DEF SafeInv, Global, Phase
<1>9. CASE CcaAgain \/ ChannelBusy \/ CcaIgnored
  <2>1. UNCHANGED macState /\ calls' = <<>>
    BY <1>4, <1>9 DEF CcaAgain, ChannelBusy, CcaIgnored
  <2>2. Packet' /\ Round' /\ Periods'
    BY <1>1, <1>3, <2>1 DEF Global, Packet, HeadOfQueue, Round, NoRound, Periods
  <2>3. Rests'
    BY <1>1, <1>3, <2>1 DEF Rests, Listening
  <2>4. AtRest'
    BY <1>1, <1>3, <1>7, <2>1, <2>3 DEF AtRest
  <2> QED
    BY <1>5, <1>6, <2>2, <2>4 DEF SafeInv, Global, Phase
<1> QED
  BY <1>8, <1>9 DEF PlmeCcaConfirm

-----------------------------------------------------------------------------
(* The events of the present instant, and the end of the CAP *)

LEMMA SetMacStateSafe ==
  ASSUME MacInv, SafeInv, SetLrWpanMacState
  PROVE  SafeInv'
<1> USE DEF phyState, radioVars, rxVars, txVars, senseVars, frameVars, csmaVars, queueVars
<1>1. /\ Global /\ AtRest /\ setMacState # NONE /\ ~startCap
      /\ UNCHANGED <<phyState, queueVars, ifsEvent, frameVars, csmaVars>>
      /\ gts \in {"RX", "TX", NONE}
  BY PhaseOf DEF SafeInv, SetLrWpanMacState, Dispatch, MacInv, MacLocal
<1>2. setMacState = "MAC_CSMA" => macState = "MAC_IDLE" /\ cap /\ HeadOfQueue /\ ~endCapEvent
  BY <1>1 DEF Global, Packet, Round
<1>3. /\ macState' = setMacState /\ setMacState' = NONE /\ UNCHANGED aborted
      /\ calls' = Turn(CASE setMacState = "MAC_IDLE" -> IdleState
                         [] setMacState = "MAC_GTS" /\ gts = "TX" -> "TX_ON"
                         [] OTHER -> "RX_ON")
  BY <1>2 DEF SetLrWpanMacState
<1>4. NoRound /\ ~(endCapEvent /\ cap) /\ Settled
  BY <1>1 DEF Global, Round, AtRest
<1>5. \/ setMacState = "MAC_CSMA" /\ trxState # "BUSY_TX"
      \/ ChangeDue /\ ~setTRXState /\ NotBusy
  <2>1. CASE setTRXState
    BY <1>1, <2>1 DEF AtRest, Awaits, Global, Radio
  <2>2. CASE ~setTRXState
    BY <1>1, <1>2, <2>2 DEF AtRest, Rests, HasFrame, Listening
  <2> QED
    BY <2>1, <2>2
<1>6. ~pdDataRequest
  BY <1>1, <1>5 DEF NotBusy, Global, Transmission
<1>7. Radio' /\ Reception'
  BY <1>1, <1>3, PhyKept
<1>8. setMacState \in {"MAC_IDLE", "MAC_CSMA", "MAC_ACK_PENDING", "MAC_GTS"}
  BY <1>5 DEF ChangeDue
<1>9. Transmission' /\ Periods' /\ Packet'
  BY <1>1, <1>2, <1>3, <1>8, NoneApart
     DEF Global, Transmission, Periods, Packet, HeadOfQueue
<1>10. Round'
  BY <1>1, <1>2, <1>3, <1>4, <1>5, <1>8 DEF Global, Round, NoRound
<1>11. Settled' /\ NoRound'
  BY <1>1, <1>3, <1>4 DEF Settled, NoRound
<1>12. PICK x \in {"RX_ON", "TX_ON", "TRX_OFF"} :
         x = CASE setMacState = "MAC_IDLE" -> IdleState
               [] setMacState = "MAC_GTS" /\ gts = "TX" -> "TX_ON"
               [] OTHER -> "RX_ON"
  BY DEF IdleState
<1>13. Awaits(x)'
  <2>1. CASE setMacState = "MAC_IDLE"
    <3>1. x \in {"RX_ON", "TRX_OFF"} /\ gts = NONE
      BY <1>5, <1>12, <2>1 DEF IdleState, ChangeDue
    <3> QED
      BY <1>1, <1>3, <2>1, <3>1 DEF Awaits
  <2>2. CASE setMacState = "MAC_CSMA"
    <3>1. x = "RX_ON"
      BY <1>12, <2>2
    <3> QED
      BY <1>1, <1>2, <1>3, <1>11, <2>2, <3>1 DEF Awaits
  <2>3. CASE setMacState = "MAC_ACK_PENDING"
    <3>1. x = "RX_ON" /\ (cap \/ gts # NONE)
      BY <1>5, <1>12, <2>3 DEF ChangeDue, HasFrame
    <3> QED
      BY <1>1, <1>3, <2>3, <3>1 DEF Awaits
  <2>4. CASE setMacState = "MAC_GTS"
    <3>1. gts # NONE /\ x = IF gts = "TX" THEN "TX_ON" ELSE "RX_ON"
      BY <1>5, <1>12, <2>4 DEF ChangeDue
    <3> QED
      BY <1>1, <1>3, <2>4, <3>1 DEF Awaits
  <2> QED
    BY <1>8, <2>1, <2>2, <2>3, <2>4
<1>14. NotBusy' \/ (x = "RX_ON" /\ trxState' = "BUSY_RX")
  <2>1. trxState \in TrxStates
    BY DEF MacInv, PhyTypeOK
  <2> QED
    BY <1>1, <1>5, <1>12, <2>1 DEF NotBusy, TrxStates
<1>15. calls' = Turn(x)
  BY <1>3, <1>12
<1>16. Turning'
  BY <1>11, <1>12, <1>13, <1>14, <1>15 DEF Turning, Turn
<1> QED
  BY <1>7, <1>9, <1>10, <1>16 DEF SafeInv, Global, Phase

LEMMA StartCapSafe ==
  ASSUME MacInv, SafeInv, StartCAP
  PROVE  SafeInv'
<1> USE DEF phyVars, radioVars, rxVars, txVars, senseVars, csmaVars, queueVars
<1>1. /\ Global /\ AtRest /\ startCap
      /\ startCap' = FALSE /\ cap' = TRUE
      /\ UNCHANGED <<phyVars, macState, queueVars, setMacState, ifsEvent, gts, csmaVars>>
  BY PhaseOf DEF SafeInv, StartCAP, Dispatch
<1>2. /\ setMacState = "MAC_IDLE" /\ ~cap /\ gts = NONE /\ ~endCapEvent
  BY <1>1 DEF Global, Periods
<1>3. ChangeDue /\ ~setTRXState /\ NotBusy /\ NoRound /\ Settled
  BY <1>1, <1>2, NoneApart DEF AtRest, Awaits, Global, Round
<1>4. Radio' /\ Transmission'
  BY <1>1 DEF Global, Radio, Transmission
<1>5. Reception'
  BY <1>1, <1>3, PhyConstants, MacConstants DEF Global, Reception, NotBusy
<1>6. Periods' /\ Packet' /\ Round'
  BY <1>1, <1>2, <1>3, NoneApart DEF Global, Periods, Packet, HeadOfQueue, Round, NoRound
<1>7. AtRest'
  BY <1>1, <1>2, <1>3 DEF AtRest, Settled, ChangeDue, NotBusy
<1> QED
  BY <1>4, <1>5, <1>6, <1>7 DEF SafeInv, Global, Phase

LEMMA HandlerSafe ==
  ASSUME MacInv, SafeInv, Handler, orderly'
  PROVE  SafeInv'
BY PhyCallsSafe, ConfirmSafe, AttributeConfirmSafe, DataConfirmSafe, DataIndicationSafe,
   CcaConfirmSafe, EnterGtsSafe, ContinueSendingSafe, LeaveGtsSafe, SetMacStateSafe,
   StartCapSafe DEF Handler

-----------------------------------------------------------------------------
(* The timers of the MAC and the requests of the higher layer *)

\* What an event finds.
LEMMA EventFinds ==
  ASSUME SafeInv, Event
  PROVE  /\ Global /\ AtRest /\ setMacState = NONE /\ ~startCap /\ ~aborted
         /\ calls = <<>>
         /\ (~setTRXState /\ Rests) \/ (setTRXState /\ Awaits(trxStatePending))
<1>1. Global /\ AtRest /\ setMacState = NONE /\ ~startCap /\ calls = <<>> /\ ~aborted
  BY PhaseOf DEF SafeInv, Event, Dispatch, Now
<1> QED
  BY <1>1, NoneApart DEF AtRest, ChangeDue

\* CheckQueue lets the MAC begin a round, or changes nothing.
LEMMA CheckQueueSafe ==
  ASSUME NEW q, NEW ifs, CheckQueue(q, ifs)
  PROVE  \/ UNCHANGED <<txPkt, setMacState>>
         \/ /\ macState = "MAC_IDLE" /\ setMacState = NONE /\ cap
            /\ q # <<>> /\ txPkt' = Head(q) /\ setMacState' = "MAC_CSMA"
BY DEF CheckQueue, MayServe

LEMMA CsmaTimersSafe ==
  ASSUME MacInv, SafeInv, RandomBackoffDelay \/ CanProceed \/ RequestCCA
  PROVE  SafeInv'
<1> USE DEF phyVars, phyState, radioVars, rxVars, txVars, senseVars, csmaVars, queueVars,
            frameVars
<1>1. /\ Event /\ csmaEvent # NONE
      /\ UNCHANGED <<phyState, macState, queueVars, setMacState, ifsEvent, frameVars,
                     csmaNB, csmaCW>>
  BY NoneApart DEF RandomBackoffDelay, CanProceed, RequestCCA
<1>2. Global /\ AtRest /\ setMacState = NONE /\ ~aborted /\ calls = <<>> /\ Settled
  BY <1>1, EventFinds DEF AtRest
<1>3. /\ macState = "MAC_CSMA" /\ cap /\ gts = NONE /\ ~endCapEvent /\ ~ccaRequest
      /\ ~ccaRequestRunning
      /\ ~setTRXState /\ trxState \in {"RX_ON", "BUSY_RX"} /\ ~startCap
  BY <1>1, <1>2 DEF Global, Round, NoRound, Periods, Event, Now
<1>4. txPkt # NONE
  BY <1>2, <1>3, QueuedPacket DEF Global, Packet
<1>5. /\ UNCHANGED aborted
      /\ \/ calls' = <<>> /\ UNCHANGED ccaRequestRunning
            /\ (UNCHANGED endCapEvent \/ (endCapEvent' = TRUE /\ csmaEvent' = NONE))
         \/ /\ calls' = <<Call("PlmeCcaRequest", NONE)>> /\ ccaRequestRunning' = TRUE
            /\ csmaEvent' = NONE /\ UNCHANGED endCapEvent
  BY <1>2, <1>4 DEF RandomBackoffDelay, CanProceed, RequestCCA
<1>6. Radio' /\ Transmission' /\ Packet'
  BY <1>1, <1>2, <1>5 DEF Global, Radio, Transmission, Packet, HeadOfQueue
<1>7. Periods' /\ Reception'
  BY <1>1, <1>2, <1>3, <1>5 DEF Global, Periods, Reception
<1>8. Round'
  BY <1>1, <1>2, <1>3, <1>5 DEF Global, Round, NoRound
<1>9. CASE calls' = <<>> /\ UNCHANGED ccaRequestRunning
  <2>1. AtRest'
    BY <1>1, <1>2, <1>3, <1>9 DEF AtRest, Settled, Rests, Listening
  <2> QED
    BY <1>6, <1>7, <1>8, <2>1 DEF SafeInv, Global, Phase
<1>10. CASE calls' = <<Call("PlmeCcaRequest", NONE)>> /\ ccaRequestRunning' = TRUE
  <2>1. Sensing'
    BY <1>1, <1>2, <1>3, <1>10 DEF Sensing, SensesNow, Settled
  <2> QED
    BY <1>6, <1>7, <1>8, <2>1 DEF SafeInv, Global, Phase
<1> QED
  BY <1>5, <1>9, <1>10

LEMMA DeferSafe ==
  ASSUME MacInv, SafeInv, DeferCsmaTimeout
  PROVE  SafeInv'
<1> USE DEF phyVars, radioVars, rxVars, txVars, senseVars, csmaVars, queueVars, frameVars
<1>1. /\ Event /\ endCapEvent /\ endCapEvent' = FALSE
      /\ UNCHANGED <<phyVars, txQueue, setMacState, ifsEvent, frameVars, csmaEvent, csmaNB,
                     csmaCW, ccaRequestRunning>>
  BY DEF DeferCsmaTimeout
<1>2. /\ Global /\ AtRest /\ setMacState = NONE /\ ~aborted /\ calls = <<>> /\ Settled
      /\ (~setTRXState /\ Rests) \/ (setTRXState /\ Awaits(trxStatePending))
  BY <1>1, EventFinds DEF AtRest
<1>3. NoRound /\ (macState = "MAC_CSMA" => ~setTRXState)
  BY <1>1, <1>2 DEF Global, Round
<1>4. CASE macState = "MAC_CSMA"
  <2>1. macState' = "MAC_IDLE" /\ txPkt' = NONE
    BY <1>4 DEF DeferCsmaTimeout
  <2>2. gts = NONE /\ Listening
    BY <1>2, <1>3, <1>4 DEF Rests, HasFrame
  <2>3. Radio' /\ Reception' /\ Transmission'
    BY <1>1, <1>2, <2>2 DEF Global, Radio, Reception, Transmission, Listening
  <2>4. Periods' /\ Round'
    BY <1>1, <1>2, <1>3, <2>1, <2>2 DEF Global, Periods, Round, NoRound
  <2>5. Packet'
    BY <1>1, <1>2, <2>1, NoneApart DEF Packet
  <2>6. AtRest'
    BY <1>1, <1>2, <2>1, <2>2 DEF AtRest, Settled, Rests, Listening
  <2> QED
    BY <2>3, <2>4, <2>5, <2>6 DEF SafeInv, Global, Phase
<1>5. CASE macState # "MAC_CSMA"
  <2>1. UNCHANGED <<macState, txPkt>>
    BY <1>5 DEF DeferCsmaTimeout
  <2>2. Radio' /\ Reception' /\ Transmission'
    BY <1>1, <1>2, <2>1 DEF Global, Radio, Reception, Transmission
  <2>3. Periods' /\ Round' /\ Packet'
    BY <1>1, <1>2, <1>3, <1>5, <2>1
       DEF Global, Periods, Round, NoRound, Packet, HeadOfQueue
  <2>4. Settled' /\ calls' = <<>> /\ setMacState' = NONE
    BY <1>1, <1>2 DEF Settled
  <2>5. (~setTRXState /\ Rests)' \/ (setTRXState /\ Awaits(trxStatePending))'
    BY <1>1, <1>2, <1>5, <2>1 DEF Rests, Listening, HasFrame, Awaits
  <2>6. AtRest'
    BY <2>4, <2>5 DEF AtRest
  <2> QED
    BY <2>2, <2>3, <2>6 DEF SafeInv, Global, Phase
<1> QED
  BY <1>4, <1>5

\* The end of the IFS is used to forward the first packet of the queue.
Back == gts = "RX" \/ (gts = "TX" /\ macState = "MAC_ACK_PENDING")
Forwards ==
  /\ ifsEvent = "LIFS" /\ Forwarding /\ txQueue # <<>>
  /\ Back \/ (gts = "TX" /\ macState = "MAC_GTS")

LEMMA IfsForwardSafe ==
  ASSUME MacInv, SafeInv, IfsWaitTimeout, Forwards, gts = "TX"
  PROVE  SafeInv'
<1> USE DEF phyState, radioVars, rxVars, txVars, senseVars, csmaVars, queueVars, frameVars
<1> DEFINE small == Head(txQueue) \in Forwardable
<1>1. /\ Event /\ ifsEvent' = NONE
      /\ UNCHANGED <<phyState, aborted, txQueue, setMacState, frameVars, csmaVars>>
      /\ txPkt' = Head(txQueue)
      /\ macState' = IF small THEN "MAC_GTS_SENDING" ELSE "MAC_GTS"
      /\ calls' = IF small THEN Turn("TX_ON") ELSE <<>>
  BY DEF IfsWaitTimeout, Forwards, Back
<1>2. /\ Global /\ AtRest /\ setMacState = NONE /\ ~startCap /\ ~aborted /\ Settled
      /\ (~setTRXState /\ Rests) \/ (setTRXState /\ Awaits(trxStatePending))
  BY <1>1, EventFinds DEF AtRest
<1>3. macState \in {"MAC_ACK_PENDING", "MAC_GTS"} /\ txQueue # <<>> /\ ~cap /\ NoRound
  BY <1>2, NoneApart DEF Forwards, Back, Global, Periods, Round
<1>4. NotBusy /\ ~pdDataRequest /\ trxState # "BUSY_RX"
  <2>1. trxState # "BUSY_RX"
    BY <1>2 DEF Global, Reception
  <2>2. CASE ~setTRXState /\ Rests
    BY <1>2, <1>3, <2>1, <2>2, NoneApart
       DEF Rests, HasFrame, Listening, NotBusy, Global, Transmission
  <2>3. CASE setTRXState /\ Awaits(trxStatePending)
    BY <1>2, <2>1, <2>3 DEF Global, Radio, NotBusy, Transmission
  <2> QED
    BY <1>2, <2>1, <2>2, <2>3
<1>5. txPkt' # NONE
  <2>1. txQueue \in Seq(Packets) /\ NONE \notin Packets
    BY PhyConstants DEF MacInv, MacLocal
  <2> QED
    BY <1>1, <1>3, <2>1
<1>6. Radio' /\ Reception'
  BY <1>1, <1>2, PhyKept
<1>7. Transmission' /\ Periods' /\ Packet'
  BY <1>1, <1>2, <1>3, <1>4, <1>5, NoneApart
     DEF Global, Transmission, Periods, Packet, HeadOfQueue
<1>8. Round'
  BY <1>1, <1>2, <1>3 DEF Global, Round, NoRound
<1>9. Settled' /\ NoRound' /\ NotBusy'
  BY <1>1, <1>2, <1>3, <1>4 DEF Settled, NoRound, NotBusy
<1>10. CASE small
  <2>1. Awaits("TX_ON")'
    BY <1>1, <1>2, <1>10, NoneApart DEF Awaits
  <2>2. calls' = Turn("TX_ON")
    BY <1>1, <1>10
  <2>3. Turning'
    BY <1>9, <2>1, <2>2 DEF Turning, Turn
  <2> QED
    BY <1>6, <1>7, <1>8, <2>3 DEF SafeInv, Global, Phase
<1>11. CASE ~small
  <2>1. /\ macState' = "MAC_GTS" /\ calls' = <<>> /\ gts' = "TX" /\ setMacState' = NONE
        /\ UNCHANGED radioVars
    BY <1>1, <1>2, <1>11
  <2>2. (~setTRXState /\ Rests)' \/ (setTRXState /\ Awaits(trxStatePending))'
    <3>1. CASE ~setTRXState /\ Rests
      <4>1. Listening \/ trxState = "TX_ON"
        BY <1>3, <3>1, NoneApart DEF Rests, HasFrame
      <4> QED
        BY <2>1, <3>1, <4>1, NoneApart DEF Rests, Listening
    <3>2. CASE setTRXState /\ Awaits(trxStatePending)
      BY <1>3, <2>1, <3>2, NoneApart DEF Awaits
    <3> QED
      BY <1>2, <3>1, <3>2
  <2>3. AtRest'
    BY <1>9, <2>1, <2>2 DEF AtRest
  <2> QED
    BY <1>6, <1>7, <1>8, <2>3 DEF SafeInv, Global, Phase
<1> QED
  BY <1>10, <1>11

LEMMA IfsEndsSafe ==
  ASSUME MacInv, SafeInv, IfsWaitTimeout, ~Forwards
  PROVE  SafeInv'
<1> USE DEF phyState, radioVars, rxVars, txVars, senseVars, csmaVars, queueVars, frameVars
<1> DEFINE again == Back
<1>1. /\ Event /\ ifsEvent # NONE /\ ifsEvent' = NONE
      /\ UNCHANGED <<phyState, aborted, txQueue, frameVars, csmaVars>>
      /\ macState' = IF again THEN "MAC_GTS" ELSE macState
      /\ CheckQueue(txQueue, NONE) /\ UNCHANGED calls
  BY DEF IfsWaitTimeout, Forwards, Back
<1> USE DEF Back
<1>2. /\ Global /\ AtRest /\ setMacState = NONE /\ ~startCap /\ ~aborted /\ calls = <<>>
      /\ Settled
      /\ (~setTRXState /\ Rests) \/ (setTRXState /\ Awaits(trxStatePending))
  BY <1>1, EventFinds DEF AtRest
<1>3. \/ UNCHANGED <<txPkt, setMacState>>
      \/ /\ macState = "MAC_IDLE" /\ setMacState = NONE /\ cap
         /\ txQueue # <<>> /\ txPkt' = Head(txQueue) /\ setMacState' = "MAC_CSMA"
  BY <1>1, CheckQueueSafe
<1>4. Radio' /\ Reception'
  BY <1>1, <1>2, PhyKept
<1>5. Settled' /\ calls' = <<>>
  BY <1>1, <1>2 DEF Settled
<1>6. CASE again
  <2>1. /\ gts # NONE /\ ~cap /\ UNCHANGED <<txPkt, setMacState>> /\ macState' = "MAC_GTS"
    BY <1>1, <1>2, <1>3, <1>6, NoneApart DEF Global, Periods
  <2>2. macState \in {"MAC_IDLE", "MAC_ACK_PENDING", "MAC_GTS"}
    BY <1>1, <1>2, <1>6, <2>1 DEF Rests, HasFrame, Awaits, Global, Periods
  <2>3. Transmission' /\ Periods' /\ Packet'
    BY <1>1, <1>2, <2>1 DEF Global, Transmission, Periods, Packet, HeadOfQueue
  <2>4. Round'
    BY <1>1, <1>2, <2>1, <2>2 DEF Global, Round, NoRound
  <2>5. (~setTRXState /\ Rests)' \/ (setTRXState /\ Awaits(trxStatePending))'
    <3>1. CASE ~setTRXState /\ Rests
      <4>1. Listening \/ (gts = "TX" /\ trxState = "TX_ON")
        BY <2>1, <2>2, <3>1 DEF Rests, HasFrame
      <4> QED
        BY <1>1, <2>1, <3>1, <4>1 DEF Rests, Listening
    <3>2. CASE setTRXState /\ Awaits(trxStatePending)
      BY <1>1, <1>2, <2>1, <2>2, <3>2 DEF Awaits
    <3> QED
      BY <1>2, <3>1, <3>2
  <2>6. AtRest'
    BY <1>2, <1>5, <2>1, <2>5 DEF AtRest
  <2> QED
    BY <1>4, <2>3, <2>4, <2>6 DEF SafeInv, Global, Phase
<1>7. CASE ~again
  <2>1. UNCHANGED macState
    BY <1>1, <1>7
  <2>2. macState = "MAC_IDLE" => ~pdDataRequest /\ trxState # "BUSY_TX" /\ NoRound
    <3>1. CASE ~setTRXState /\ Rests
      BY <1>2, <3>1 DEF Rests, HasFrame, Listening, Global, Transmission, Round
    <3>2. CASE setTRXState /\ Awaits(trxStatePending)
      BY <1>2, <3>2 DEF Global, Radio, Transmission, Round
    <3> QED
      BY <1>2, <3>1, <3>2
  <2>3. Transmission' /\ Periods'
    BY <1>1, <1>2, <1>3, <2>1, <2>2 DEF Global, Transmission, Periods
  <2>4. Packet'
    BY <1>1, <1>2, <1>3, <2>1, NoneApart DEF Global, Packet, HeadOfQueue
  <2>5. Round'
    BY <1>1, <1>2, <1>3, <2>1, <2>2 DEF Global, Round, NoRound
  <2>6. AtRest'
    <3>1. CASE ~setTRXState /\ Rests
      <4>1. Rests' /\ ~setTRXState' /\ setMacState' \in {NONE, "MAC_CSMA"}
        BY <1>1, <1>2, <1>3, <2>1, <3>1 DEF Rests, Listening, HasFrame
      <4> QED
        BY <1>5, <4>1 DEF AtRest
    <3>2. CASE setTRXState /\ Awaits(trxStatePending)
      <4>1. setTRXState' /\ (Awaits(trxStatePending)' \/ setMacState' = "MAC_CSMA")
        BY <1>1, <1>3, <2>1, <3>2 DEF Awaits, NoRound
      <4> QED
        BY <1>5, <4>1 DEF AtRest
    <3> QED
      BY <1>2, <3>1, <3>2
  <2> QED
    BY <1>4, <2>3, <2>4, <2>5, <2>6 DEF SafeInv, Global, Phase
<1> QED
  BY <1>6, <1>7

LEMMA IfsSafe ==
  ASSUME MacInv, SafeInv, IfsWaitTimeout, orderly'
  PROVE  SafeInv'
<1>1. Forwards => gts = "TX"
  BY DEF IfsWaitTimeout, Keeps, Forwards, Back
<1> QED
  BY <1>1, IfsForwardSafe, IfsEndsSafe

LEMMA DirectSafe ==
  ASSUME MacInv, SafeInv, NEW p \in Packets, McpsDataRequestDirect(p)
  PROVE  SafeInv'
<1> USE DEF phyVars, phyState, radioVars, rxVars, txVars, senseVars, csmaVars, frameVars
<1>1. /\ Event /\ CheckQueue(txQueue', ifsEvent)
      /\ UNCHANGED <<phyVars, macState, ifsEvent, frameVars, csmaVars>>
      /\ txQueue' = Append(txQueue, p) \/ txQueue' = txQueue
  BY DEF McpsDataRequestDirect, EnqueueTxQElement
<1>2. /\ Global /\ AtRest /\ setMacState = NONE /\ ~startCap /\ ~aborted /\ calls = <<>>
      /\ Settled
      /\ (~setTRXState /\ Rests) \/ (setTRXState /\ Awaits(trxStatePending))
  BY <1>1, EventFinds DEF AtRest
<1>3. \/ UNCHANGED <<txPkt, setMacState>>
      \/ /\ macState = "MAC_IDLE" /\ setMacState = NONE /\ cap
         /\ txQueue' # <<>> /\ txPkt' = Head(txQueue') /\ setMacState' = "MAC_CSMA"
  BY <1>1, CheckQueueSafe
<1>4. txQueue # <<>> => txQueue' # <<>> /\ Head(txQueue') = Head(txQueue)
  BY <1>1 DEF MacInv, MacLocal
<1>5. Radio' /\ Reception'
  BY <1>1, <1>2, PhyKept
<1>6. Settled' /\ calls' = <<>>
  BY <1>1, <1>2 DEF Settled
<1>7. macState = "MAC_IDLE" => ~pdDataRequest /\ trxState # "BUSY_TX" /\ NoRound
  <2>1. CASE ~setTRXState /\ Rests
    BY <1>2, <2>1 DEF Rests, HasFrame, Listening, Global, Transmission, Round
  <2>2. CASE setTRXState /\ Awaits(trxStatePending)
    BY <1>2, <2>2 DEF Global, Radio, Transmission, Round
  <2> QED
    BY <1>2, <2>1, <2>2
<1>8. Transmission' /\ Periods'
  BY <1>1, <1>2, <1>3, <1>7 DEF Global, Transmission, Periods
<1>9. Packet'
  <2>1. CASE UNCHANGED <<txPkt, setMacState>>
    BY <1>1, <1>2, <1>4, <2>1 DEF Global, Packet, HeadOfQueue
  <2>2. CASE /\ macState = "MAC_IDLE" /\ cap /\ setMacState' = "MAC_CSMA"
             /\ txQueue' # <<>> /\ txPkt' = Head(txQueue')
    BY <1>1, <2>2, NoneApart DEF Packet, HeadOfQueue
  <2> QED
    BY <1>3, <2>1, <2>2
<1>10. Round'
  BY <1>1, <1>2, <1>3, <1>7 DEF Global, Round, NoRound
<1>11. AtRest'
  <2>1. CASE ~setTRXState /\ Rests
    <3>1. Rests' /\ ~setTRXState' /\ setMacState' \in {NONE, "MAC_CSMA"}
      BY <1>1, <1>2, <1>3, <2>1 DEF Rests, Listening, HasFrame
    <3> QED
      BY <1>6, <3>1 DEF AtRest
  <2>2. CASE setTRXState /\ Awaits(trxStatePending)
    <3>1. setTRXState' /\ (Awaits(trxStatePending)' \/ setMacState' = "MAC_CSMA")
      BY <1>1, <1>3, <2>2 DEF Awaits, NoRound
    <3> QED
      BY <1>6, <3>1 DEF AtRest
  <2> QED
    BY <1>2, <2>1, <2>2
<1> QED
  BY <1>5, <1>8, <1>9, <1>10, <1>11 DEF SafeInv, Global, Phase

LEMMA GtsRequestSafe ==
  ASSUME MacInv, SafeInv, NEW p \in Packets, McpsDataRequestGts(p), orderly'
  PROVE  SafeInv'
<1> USE DEF phyState, radioVars, rxVars, txVars, senseVars, csmaVars, frameVars
<1>1. /\ Event /\ gts = "TX" /\ macState = "MAC_GTS" /\ p \in AckPackets
      /\ txPkt' = p /\ macState' = "MAC_GTS_SENDING" /\ calls' = Turn("TX_ON")
      /\ UNCHANGED <<phyState, aborted, txQueue, setMacState, ifsEvent, frameVars, csmaVars>>
  BY DEF McpsDataRequestGts, Keeps
<1>2. /\ Global /\ AtRest /\ setMacState = NONE /\ ~startCap /\ ~aborted /\ Settled
      /\ (~setTRXState /\ Rests) \/ (setTRXState /\ Awaits(trxStatePending))
  BY <1>1, EventFinds DEF AtRest
<1>3. NotBusy /\ ~pdDataRequest /\ NoRound /\ ~cap /\ p # NONE
  <2>1. trxState # "BUSY_RX" /\ NoRound /\ ~cap
    BY <1>1, <1>2, NoneApart DEF Global, Reception, Round, Periods
  <2>2. CASE ~setTRXState /\ Rests
    BY <1>1, <1>2, <2>1, <2>2, PhyConstants
       DEF Rests, HasFrame, Listening, NotBusy, Global, Transmission
  <2>3. CASE setTRXState /\ Awaits(trxStatePending)
    BY <1>2, <2>1, <2>3, PhyConstants DEF Global, Radio, NotBusy, Transmission
  <2> QED
    BY <1>2, <2>2, <2>3
<1>4. Radio' /\ Reception'
  BY <1>1, <1>2, PhyKept
<1>5. Transmission' /\ Periods' /\ Packet'
  BY <1>1, <1>2, <1>3, NoneApart DEF Global, Transmission, Periods, Packet, HeadOfQueue
<1>6. Round'
  BY <1>1, <1>2, <1>3 DEF Global, Round, NoRound
<1>7. Settled' /\ NoRound' /\ NotBusy'
  BY <1>1, <1>2, <1>3 DEF Settled, NoRound, NotBusy
<1>8. Awaits("TX_ON")'
  BY <1>1, <1>2, NoneApart DEF Awaits
<1>9. Turning'
  BY <1>1, <1>7, <1>8 DEF Turning, Turn
<1> QED
  BY <1>4, <1>5, <1>6, <1>9 DEF SafeInv, Global, Phase

-----------------------------------------------------------------------------
(* The superframe *)

LEMMA StartCfpSafe ==
  ASSUME MacInv, SafeInv, StartCFP, orderly'
  PROVE  SafeInv'
<1> USE DEF phyVars, radioVars, rxVars, txVars, senseVars, csmaVars, queueVars
<1>1. /\ Event /\ cap /\ TransactionOver /\ cap' = FALSE
      /\ UNCHANGED <<phyVars, macState, queueVars, setMacState, ifsEvent, startCap, gts,
                     csmaVars>>
  BY DEF StartCFP, Keeps
<1>2. /\ Global /\ AtRest /\ setMacState = NONE /\ ~startCap /\ ~aborted /\ calls = <<>>
      /\ Settled /\ ~setTRXState /\ Rests
  BY <1>1, EventFinds DEF AtRest, TransactionOver
<1>3. NoRound /\ ~pdDataRequest /\ ifsEvent = NONE /\ gts = NONE
  BY <1>1, <1>2 DEF TransactionOver, NoRound, Settled, Global, Periods
<1>4. Radio' /\ Transmission'
  BY <1>1, <1>2 DEF Global, Radio, Transmission
<1>5. Reception'
  BY <1>1, <1>2 DEF Global, Reception
<1>6. Periods' /\ Packet' /\ Round'
  BY <1>1, <1>2, <1>3, NoneApart DEF Global, Periods, Packet, HeadOfQueue, Round, NoRound
<1>7. Rests'
  BY <1>1, <1>2, <1>3 DEF Rests, Listening, HasFrame
<1>8. AtRest'
  BY <1>1, <1>2, <1>7 DEF AtRest, Settled
<1> QED
  BY <1>4, <1>5, <1>6, <1>8 DEF SafeInv, Global, Phase

LEMMA StartGtsSafe ==
  ASSUME MacInv, SafeInv, NEW slot \in Slots, StartGTS(slot), orderly'
  PROVE  SafeInv'
<1> USE DEF phyState, radioVars, rxVars, txVars, senseVars, csmaVars, queueVars
<1>1. /\ Event /\ ~cap /\ gts = NONE /\ signals = {} /\ gts' = slot[1]
      /\ calls' = <<Call("PlmeSetAttributeRequest", slot[2]), Call("EnterGts", NONE)>>
      /\ UNCHANGED <<phyState, aborted, macState, queueVars, setMacState, ifsEvent, cap,
                     startCap, csmaVars>>
  BY DEF StartGTS, Keeps
<1>2. slot[1] \in {"RX", "TX"} /\ slot[2] \in Tunable
  BY MacConstants
<1>3. /\ Global /\ AtRest /\ setMacState = NONE /\ ~startCap /\ ~aborted /\ Settled
      /\ (~setTRXState /\ Rests) \/ (setTRXState /\ Awaits(trxStatePending))
  BY <1>1, EventFinds DEF AtRest
<1>4. /\ currentRxPacket.first = NONE /\ trxState # "BUSY_RX" /\ ifsEvent = NONE
      /\ NoRound
  BY <1>1, <1>3 DEF Settled, Global, Reception, Periods, Round
<1>5. /\ NotBusy /\ (setTRXState => macState = "MAC_IDLE")
      /\ macState \in {"MAC_IDLE", "MAC_CSMA", "MAC_ACK_PENDING", "MAC_SENDING"}
  <2>1. CASE ~setTRXState /\ Rests
    BY <1>1, <1>4, <2>1, NoneApart DEF Rests, HasFrame, Listening, NotBusy
  <2>2. CASE setTRXState /\ Awaits(trxStatePending)
    BY <1>1, <1>3, <1>4, <2>2, NoneApart DEF Awaits, Global, Radio, NotBusy
  <2> QED
    BY <1>3, <2>1, <2>2
<1>6. Radio' /\ Transmission' /\ Packet'
  BY <1>1, <1>3 DEF Global, Radio, Transmission, Packet, HeadOfQueue
<1>7. Reception'
  BY <1>1, <1>3, <1>4, PhyConstants, MacConstants DEF Global, Reception
<1>8. Periods' /\ Round'
  BY <1>1, <1>3, <1>4 DEF Global, Periods, Round, NoRound
<1>9. HopsIn'
  BY <1>1, <1>2, <1>3, <1>4, <1>5, NoneApart DEF HopsIn, Settled, NoRound, NotBusy
<1>10. Entering'
  BY <1>1, <1>2, <1>9 DEF Entering
<1> QED
  BY <1>6, <1>7, <1>8, <1>10 DEF SafeInv, Global, Phase

LEMMA EndGtsSafe ==
  ASSUME MacInv, SafeInv, EndGTS, orderly'
  PROVE  SafeInv'
<1> USE DEF phyState, radioVars, rxVars, txVars, senseVars, csmaVars, queueVars
<1>1. /\ Event /\ gts # NONE /\ ~pdDataRequest /\ ifsEvent = NONE /\ ~setTRXState
      /\ signals = {} /\ gts' = NONE
      /\ calls' = <<Call("PlmeSetAttributeRequest", CapChannel), Call("LeaveGts", NONE)>>
      /\ UNCHANGED <<phyState, aborted, macState, queueVars, setMacState, ifsEvent, cap,
                     startCap, csmaVars>>
  BY DEF EndGTS, Keeps, SlotFree
<1>2. /\ Global /\ AtRest /\ setMacState = NONE /\ ~startCap /\ ~aborted /\ Settled /\ Rests
  BY <1>1, EventFinds DEF AtRest
<1>3. /\ currentRxPacket.first = NONE /\ trxState # "BUSY_RX" /\ ~cap /\ NoRound
  BY <1>1, <1>2 DEF Settled, Global, Reception, Periods, Round
<1>4. NotBusy /\ macState \notin {"MAC_CSMA", "MAC_SENDING"}
  BY <1>1, <1>2, <1>3 DEF Rests, HasFrame, Listening, NotBusy
<1>5. Radio' /\ Transmission' /\ Packet'
  BY <1>1, <1>2 DEF Global, Radio, Transmission, Packet, HeadOfQueue
<1>6. Reception'
  BY <1>1, <1>2, <1>3, PhyConstants, MacConstants DEF Global, Reception
<1>7. Periods' /\ Round'
  BY <1>1, <1>2, <1>3, NoneApart DEF Global, Periods, Round, NoRound
<1>8. Leaves'
  BY <1>1, <1>2, <1>3, <1>4 DEF Leaves, Settled, NoRound, NotBusy
<1>9. CapChannel \in Tunable
  BY MacConstants
<1>10. Leaving'
  BY <1>1, <1>2, <1>4, <1>8, <1>9 DEF Leaving
<1> QED
  BY <1>5, <1>6, <1>7, <1>10 DEF SafeInv, Global, Phase

-----------------------------------------------------------------------------
(* The timers of the PHY, and the signals on the air *)

LEMMA EndTurnSafe ==
  ASSUME MacInv, SafeInv, Now, EndSetTRXState, UNCHANGED macVars
  PROVE  SafeInv'
<1> USE DEF macVars, rxVars, txVars, senseVars, csmaVars, queueVars, frameVars
<1>1. /\ Global /\ AtRest /\ Settled /\ setTRXState /\ Awaits(trxStatePending) /\ ~aborted
  BY EventFinds DEF Event, EndSetTRXState, AtRest
<1>2. PICK x \in {"RX_ON", "TX_ON"} : x = trxStatePending
  BY <1>1 DEF Global, Radio
<1>3. /\ ~setTRXState' /\ trxState' = x /\ trxStatePending' = "IDLE" /\ calls' = Confirm(x)
      /\ UNCHANGED <<rxVars, txVars, senseVars, aborted>>
  BY <1>1, <1>2 DEF EndSetTRXState
<1>4. NoRound /\ ~pdDataRequest /\ trxState # "BUSY_RX"
  BY <1>1 DEF Global, Round, Transmission, Radio
<1>5. Radio'
  BY <1>1, <1>3 DEF Global, Radio
<1>6. /\ trxState' = "BUSY_RX" <=> trxState = "BUSY_RX"
      /\ trxState' # "BUSY_TX"
      /\ endCapEvent /\ macState = "MAC_CSMA" => ~setTRXState'
  BY <1>2, <1>3, <1>4
<1>7. Global'
  BY <1>1, <1>3, <1>4, <1>5, <1>6, GlobalRadio
<1>8. Settled' /\ NoRound' /\ Awaits(x)' /\ Steady(x)'
  BY <1>1, <1>2, <1>3, <1>4 DEF Settled, NoRound, Awaits, Steady
<1>9. Turned'
  BY <1>3, <1>8 DEF Turned, Confirm
<1> QED
  BY <1>7, <1>9 DEF SafeInv, Phase

LEMMA EndCcaSafe ==
  ASSUME MacInv, SafeInv, Now, EndCca, UNCHANGED macVars
  PROVE  SafeInv'
<1> USE DEF macVars, radioVars, rxVars, txVars, senseVars, csmaVars, queueVars, frameVars
<1>1. Global /\ AtRest /\ Settled /\ ccaRequest /\ ~aborted
  BY EventFinds DEF Event, EndCca, AtRest
<1>2. /\ ~setTRXState /\ trxState \in {"RX_ON", "BUSY_RX"} /\ ccaRequestRunning
  BY <1>1 DEF Global, Round, NoRound
<1>3. PICK status \in {"IDLE", "BUSY"} :
        /\ trxState = "BUSY_RX" => status = "BUSY"
        /\ calls' = <<Call("PlmeCcaConfirm", status)>>
  BY DEF EndCca, PhyIsBusy
<1>4. ~ccaRequest' /\ UNCHANGED <<radioVars, rxVars, txVars, edRequest, aborted>>
  BY DEF EndCca
<1>5. Radio' /\ Reception' /\ Transmission' /\ Periods' /\ Packet'
  BY <1>1, <1>4 DEF Global, Radio, Reception, Transmission, Periods, Packet, HeadOfQueue
<1>6. Round'
  BY <1>1, <1>2, <1>4 DEF Global, Round, NoRound
<1>7. SensesNow' /\ (status = "IDLE" => trxState' = "RX_ON")
  BY <1>1, <1>2, <1>3, <1>4 DEF SensesNow, Settled
<1>8. Sensed'
  BY <1>3, <1>7 DEF Sensed
<1> QED
  BY <1>5, <1>6, <1>8 DEF SafeInv, Global, Phase

LEMMA EndTxSafe ==
  ASSUME MacInv, SafeInv, Now, EndTx, UNCHANGED macVars
  PROVE  SafeInv'
<1> USE DEF macVars, radioVars, rxVars, txVars, senseVars, csmaVars, queueVars, frameVars
<1>1. /\ Global /\ AtRest /\ Settled /\ ~aborted /\ setMacState = NONE
      /\ (~setTRXState /\ Rests) \/ (setTRXState /\ Awaits(trxStatePending))
  BY EventFinds DEF Event, EndTx, AtRest
<1>2. /\ pdDataRequest /\ pdDataRequest' = FALSE /\ UNCHANGED staleEndTx
      /\ UNCHANGED <<rxVars, senseVars>>
  BY <1>1 DEF EndTx, EndTxFires, Global, Radio
<1>3. /\ trxState = "BUSY_TX" /\ currentTxPacket.first = txPkt /\ ~currentTxPacket.second
  BY <1>1, <1>2 DEF Global, Transmission
<1>4. HasFrame /\ ~setTRXState
  BY <1>1, <1>3 DEF Rests, Listening, Global, Radio
<1>5. /\ UNCHANGED <<radioVars, currentTxPacket>> /\ ~aborted'
      /\ calls' = <<Call("PdDataConfirm", "SUCCESS"), Call("EndTxTail", NONE)>>
  BY <1>3 DEF EndTx, EndTxIgnored, EndTxReported
<1>6. Radio' /\ Reception' /\ Transmission' /\ Periods' /\ Packet'
  BY <1>1, <1>2, <1>3, <1>5
     DEF Global, Radio, Reception, Transmission, Periods, Packet, HeadOfQueue
<1>7. Round'
  BY <1>1, <1>2, <1>5 DEF Global, Round, NoRound
<1>8. Sent'
  BY <1>1, <1>2, <1>3, <1>4, <1>5 DEF Sent, Settled, HasFrame, Steady
<1> QED
  BY <1>6, <1>7, <1>8 DEF SafeInv, Global, Phase

LEMMA ArrivesSafe ==
  ASSUME MacInv, SafeInv, NEW s \in Signals, Arrives(s), orderly'
  PROVE  SafeInv'
<1> USE DEF macVars, rxVars, txVars, senseVars, csmaVars, queueVars, frameVars
<1>1. /\ Event /\ StartRx(s) /\ gts # "TX"
      /\ s \in Beacons => ~cap /\ gts = NONE /\ ~endCapEvent
      /\ signals' = signals \cup {s}
      /\ UNCHANGED <<macVars, trxStatePending, setTRXState, isRxCanceled, txVars, senseVars,
                     calls>>
  BY DEF Arrives, StartRx, Event, Keeps
<1>2. /\ Global /\ AtRest /\ Settled /\ ~aborted /\ setMacState = NONE /\ calls = <<>>
      /\ (~setTRXState /\ Rests) \/ (setTRXState /\ Awaits(trxStatePending))
  BY <1>1, EventFinds DEF AtRest
<1>3. s # NONE /\ currentRxPacket \in [first : Signals \cup {NONE}, second : BOOLEAN]
  BY PhyConstants DEF MacInv, PhyTypeOK
<1>4. /\ UNCHANGED aborted
      /\ \/ /\ trxState = "RX_ON" /\ ~setTRXState /\ trxState' = "BUSY_RX"
            /\ currentRxPacket'.first = s
         \/ UNCHANGED trxState /\ currentRxPacket'.first = currentRxPacket.first
  <2>1. CASE LockOn(s)
    BY <2>1 DEF LockOn
  <2>2. CASE Collide
    <3>1. currentRxPacket.first # NONE
      BY <1>2, <2>2 DEF Collide, Global, Reception
    <3> QED
      BY <1>3, <2>2, <3>1 DEF Collide
  <2>3. CASE IgnoreSignal
    BY <2>3 DEF IgnoreSignal
  <2> QED
    BY <1>1, <2>1, <2>2, <2>3 DEF StartRx
<1>5. Radio' /\ Transmission' /\ Periods' /\ Packet'
  BY <1>1, <1>2, <1>4 DEF Global, Radio, Transmission, Periods, Packet, HeadOfQueue
<1>6. Reception'
  BY <1>1, <1>2, <1>3, <1>4 DEF Global, Reception
<1>7. Round'
  BY <1>1, <1>2, <1>4 DEF Global, Round, NoRound
<1>8. Settled' /\ calls' = <<>> /\ setMacState' = NONE
  BY <1>1, <1>2, <1>4 DEF Settled
<1>9. CASE ~setTRXState /\ Rests
  <2>1. Rests' /\ ~setTRXState'
    BY <1>1, <1>4, <1>9 DEF Rests, Listening, HasFrame
  <2>2. AtRest'
    BY <1>8, <2>1 DEF AtRest
  <2> QED
    BY <1>5, <1>6, <1>7, <2>2 DEF SafeInv, Global, Phase
<1>10. CASE setTRXState /\ Awaits(trxStatePending)
  <2>1. setTRXState' /\ Awaits(trxStatePending)'
    BY <1>1, <1>10 DEF Awaits, NoRound
  <2>2. AtRest'
    BY <1>8, <2>1 DEF AtRest
  <2> QED
    BY <1>5, <1>6, <1>7, <2>2 DEF SafeInv, Global, Phase
<1> QED
  BY <1>2, <1>9, <1>10

LEMMA SignalEndsSafe ==
  ASSUME MacInv, SafeInv, SignalEnds
  PROVE  SafeInv'
<1> USE DEF macVars, radioVars, txVars, senseVars, csmaVars, queueVars, frameVars
<1>1. PICK s \in Signals : EndRx(s)
  BY DEF SignalEnds
<1>2. /\ Event /\ s \in signals /\ signals' = signals \ {s}
      /\ UNCHANGED <<macVars, radioVars, isRxCanceled, txVars, senseVars, aborted>>
  BY <1>1 DEF EndRx, SignalEnds, Event
<1>3. /\ Global /\ AtRest /\ Settled /\ ~aborted /\ setMacState = NONE /\ calls = <<>>
      /\ (~setTRXState /\ Rests) \/ (setTRXState /\ Awaits(trxStatePending))
  BY <1>2, EventFinds DEF AtRest
<1>4. s # NONE /\ currentRxPacket \in [first : Signals \cup {NONE}, second : BOOLEAN]
  BY PhyConstants DEF MacInv, PhyTypeOK
<1>5. /\ currentRxPacket'.first = currentRxPacket.first
      /\ \/ currentRxPacket.first # s /\ UNCHANGED calls
         \/ currentRxPacket.first = s /\ calls' = <<Call("EndRxTail", NONE)>>
         \/ /\ currentRxPacket.first = s
            /\ calls' = <<Call("PdDataIndication", s), Call("EndRxTail", NONE)>>
  <2>1. CASE currentRxPacket.first = s
    <3>1. PICK destroyed \in BOOLEAN :
            /\ currentRxPacket' = [currentRxPacket EXCEPT !.second = @ \/ destroyed]
            /\ calls' = (IF currentRxPacket'.second THEN <<>>
                         ELSE <<Call("PdDataIndication", s)>>)
                          \o <<Call("EndRxTail", NONE)>>
      BY <1>1, <2>1 DEF EndRx
    <3>2. currentRxPacket'.first = currentRxPacket.first
      BY <1>4, <3>1
    <3>3. /\ <<>> \o <<Call("EndRxTail", NONE)>> = <<Call("EndRxTail", NONE)>>
          /\ <<Call("PdDataIndication", s)>> \o <<Call("EndRxTail", NONE)>> =
               <<Call("PdDataIndication", s), Call("EndRxTail", NONE)>>
      BY Concat1
    <3> QED
      BY <2>1, <3>1, <3>2, <3>3
  <2>2. CASE currentRxPacket.first # s
    BY <1>1, <2>2 DEF EndRx
  <2> QED
    BY <2>1, <2>2
<1>6. Radio' /\ Reception' /\ Transmission' /\ Periods' /\ Packet'
  BY <1>2, <1>3, <1>5
     DEF Global, Radio, Reception, Transmission, Periods, Packet, HeadOfQueue
<1>7. Round'
  BY <1>2, <1>3 DEF Global, Round, NoRound
<1>8. CASE currentRxPacket.first # s /\ UNCHANGED calls
  <2>1. Settled' /\ calls' = <<>>
    BY <1>2, <1>3, <1>5, <1>8 DEF Settled
  <2>2. (~setTRXState /\ Rests)' \/ (setTRXState /\ Awaits(trxStatePending))'
    BY <1>2, <1>3 DEF Rests, Listening, HasFrame, Awaits, NoRound
  <2>3. AtRest'
    BY <1>2, <1>3, <2>1, <2>2 DEF AtRest
  <2> QED
    BY <1>6, <1>7, <2>3 DEF SafeInv, Global, Phase
<1>9. CASE currentRxPacket.first = s
  <2>1. trxState = "BUSY_RX" /\ ~setTRXState /\ Rests
    BY <1>3, <1>4, <1>9 DEF Global, Reception, Radio
  <2>2. Receives' /\ Rests' /\ setMacState' = NONE
    BY <1>2, <1>3, <2>1 DEF Receives, Steady, Settled, Rests, Listening, HasFrame
  <2>3. \/ calls' = <<Call("EndRxTail", NONE)>>
        \/ calls' = <<Call("PdDataIndication", currentRxPacket'.first), Call("EndRxTail", NONE)>>
    BY <1>5, <1>9
  <2>4. ReceptionStops' \/ Indicating'
    BY <2>2, <2>3 DEF ReceptionStops, Indicating
  <2> QED
    BY <1>6, <1>7, <2>4 DEF SafeInv, Global, Phase
<1> QED
  BY <1>5, <1>8, <1>9

-----------------------------------------------------------------------------
(* The theorems *)

LEMMA SafeInvInit == Init => SafeInv
<1> SUFFICES ASSUME Init PROVE SafeInv
  OBVIOUS
<1>1. /\ trxState = "TRX_OFF" /\ trxStatePending = "IDLE" /\ setTRXState = FALSE
      /\ currentRxPacket = [first |-> NONE, second |-> TRUE] /\ isRxCanceled = FALSE
      /\ pdDataRequest = FALSE /\ staleEndTx = 0 /\ ccaRequest = FALSE /\ edRequest = FALSE
      /\ aborted = FALSE
      /\ macState = "MAC_IDLE" /\ txPkt = NONE /\ setMacState = NONE /\ ifsEvent = NONE
      /\ startCap = FALSE /\ gts = NONE
      /\ csmaEvent = NONE /\ endCapEvent = FALSE /\ ccaRequestRunning = FALSE
      /\ calls = Turn(IdleState)
  BY DEF Init, PhyInit
<1>2. Radio /\ Transmission
  BY <1>1 DEF Radio, Transmission
<1>3. Reception
  BY <1>1, PhyConstants, MacConstants DEF Reception
<1>4. Periods /\ Round /\ Packet
  BY <1>1, NoneApart DEF Periods, Round, NoRound, Packet
<1>5. Turning
  <2>1. PICK x \in {"RX_ON", "TRX_OFF"} : x = IdleState
    BY DEF IdleState
  <2>2. Settled /\ Awaits(x) /\ NoRound /\ NotBusy /\ calls = Turn(x)
    BY <1>1, <2>1 DEF Settled, Awaits, NoRound, NotBusy
  <2> QED
    BY <2>2 DEF Turning
<1> QED
  BY <1>2, <1>3, <1>4, <1>5 DEF SafeInv, Global, Phase

LEMMA SafeInvStep ==
  ASSUME MacInv, SafeInv, [Next]_vars, orderly'
  PROVE  SafeInv'
<1>1. CASE Handler
  BY <1>1, HandlerSafe
<1>2. CASE RadioTimer
  BY <1>2, EndTurnSafe, EndCcaSafe, EndTxSafe DEF RadioTimer
<1>3. CASE MacTimer
  BY <1>3, CsmaTimersSafe, DeferSafe, IfsSafe DEF MacTimer, CsmaTimer
<1>4. CASE SignalEnds
  BY <1>4, SignalEndsSafe
<1>5. CASE HigherLayer
  BY <1>5, DirectSafe, GtsRequestSafe DEF HigherLayer
<1>6. CASE Superframe
  BY <1>6, StartCfpSafe, StartGtsSafe, EndGtsSafe DEF Superframe
<1>7. CASE \E s \in Signals : Arrives(s)
  BY <1>7, ArrivesSafe
<1>8. CASE UNCHANGED vars
  <2> USE <1>8 DEF vars, macVars, phyVars, queueVars, frameVars, csmaVars, radioVars, rxVars,
                   txVars, senseVars
  <2>1. Global'
    BY DEF SafeInv, Global, Radio, Reception, Transmission, Periods, Round, NoRound, Packet,
           HeadOfQueue
  <2>2. /\ Settled' = Settled /\ NoRound' = NoRound /\ HasFrame' = HasFrame
        /\ Rests' = Rests /\ ChangeDue' = ChangeDue /\ NotBusy' = NotBusy
        /\ Receives' = Receives /\ SensesNow' = SensesNow /\ SlotState' = SlotState
        /\ \A x : Awaits(x)' = Awaits(x) /\ Steady(x)' = Steady(x)
        /\ Awaits(trxStatePending)' = Awaits(trxStatePending)
        /\ Steady(SlotState)' = Steady(SlotState)
    BY DEF Settled, NoRound, HasFrame, Rests, Listening, ChangeDue, NotBusy, Receives, Steady,
           SensesNow, SlotState, Awaits
  <2>3. HopsIn' = HopsIn /\ Begins' = Begins /\ Leaves' = Leaves
    BY <2>2 DEF HopsIn, Begins, Leaves
  <2>4. Phase'
    BY <2>2, <2>3
       DEF SafeInv, Phase, AtRest, Turning, Turned, Requesting, Refused, Sent, SendingStops,
           Indicating, BeaconTaken, ReceptionStops, Sensing, Sensed, Entering, Beginning,
           Leaving, Cancelling, Turn, Confirm
  <2> QED
    BY <2>1, <2>4 DEF SafeInv
<1> QED
  BY <1>1, <1>2, <1>3, <1>4, <1>5, <1>6, <1>7, <1>8 DEF Next, Stopped

\* A mishap is not forgotten.
LEMMA OrderlyStays == ASSUME [Next]_vars, orderly' PROVE orderly
BY DEF Next, Stopped, vars, Handler, PdDataIndication, RadioTimer, SignalEnds, MacTimer,
       CsmaTimer, IfsWaitTimeout, HigherLayer, McpsDataRequestDirect, McpsDataRequestGts,
       Superframe, StartCFP, StartGTS, EndGTS, Arrives, Keeps

\* The inductive invariant: what the MAC, its CSMA-CA and its PHY know of each
\* other at every point of every chain of calls, up to the first mishap.
OrderlyInv == orderly => SafeInv

THEOREM MacSafeInvariant == Spec => []OrderlyInv
<1>1. Init => OrderlyInv
  BY SafeInvInit DEF OrderlyInv
<1>2. MacInv /\ OrderlyInv /\ [Next]_vars => OrderlyInv'
  BY SafeInvStep, OrderlyStays DEF OrderlyInv
<1> QED
  BY <1>1, <1>2, MacInvariant, PTL DEF Spec

\* Every NS_ASSERT, NS_FATAL_ERROR or null packet that is reached in a handler of
\* the MAC or of the PHY is preceded by one of the mishaps: a transaction that
\* outlives the CAP or its slot, a foreign signal at the start of a slot or in a
\* TX slot, data sent in an RX slot or without the AckReq bit in a TX slot, or
\* data with the AckReq bit received while the MAC contends.
THEOREM MacNoAssertionFails == Spec => []NoAssertionFails
<1>1. OrderlyInv => NoAssertionFails
  BY DEF OrderlyInv, SafeInv, Global, Radio, NoAssertionFails
<1> QED
  BY <1>1, MacSafeInvariant, PTL

\* Up to the first mishap a CSMA-CA round runs only for a MAC in MAC_CSMA, with no
\* confirm on its way that would start a second one.
THEOREM MacOneRound == Spec => []OneRound
<1>1. ASSUME SafeInv, RoundRuns
      PROVE  /\ macState = "MAC_CSMA" /\ ~setTRXState
             /\ \A i \in DOMAIN calls : calls[i].op # "PlmeSetTRXStateConfirm"
  <2>1. ~NoRound /\ macState = "MAC_CSMA" /\ setMacState = NONE /\ ~setTRXState
    BY <1>1 DEF SafeInv, Global, Round, NoRound, RoundRuns
  <2>2. AtRest \/ Indicating \/ ReceptionStops \/ Sensing \/ Sensed
    BY <1>1, <2>1, NoneApart
       DEF SafeInv, Phase, Turning, Turned, Requesting, Refused, Sent, SendingStops, HasFrame,
           ChangeDue, BeaconTaken, Entering, HopsIn, Beginning, Begins, Leaving, Leaves,
           Cancelling
  <2>3. \A i \in DOMAIN calls : calls[i].op # "PlmeSetTRXStateConfirm"
    <3>1. CASE AtRest
      BY <3>1 DEF AtRest
    <3>2. CASE Indicating
      BY <3>2 DEF Indicating, Call
    <3>3. CASE ReceptionStops
      BY <3>3 DEF ReceptionStops, Call
    <3>4. CASE Sensing \/ Sensed
      BY <3>4 DEF Sensing, Sensed, Call
    <3> QED
      BY <2>2, <3>1, <3>2, <3>3, <3>4
  <2> QED
    BY <2>1, <2>3
<1>2. OrderlyInv => OneRound
  BY <1>1 DEF OneRound, OrderlyInv
<1> QED
  BY <1>2, MacSafeInvariant, PTL

\* Up to the first mishap a slot never hops away from a frame that is being sent or
\* received, which the PHY would not notice.
THEOREM MacHopsBetweenFrames == Spec => []HopsBetweenFrames
<1>1. ASSUME SafeInv, Running("PlmeSetAttributeRequest")
      PROVE  ~pdDataRequest /\ trxState \notin {"BUSY_TX", "BUSY_RX"}
  <2>1. calls # <<>> /\ Head(calls).op = "PlmeSetAttributeRequest"
    BY <1>1 DEF Running
  <2>2. Entering \/ Leaving
    <3>1. ~(AtRest \/ Turning \/ Turned)
      BY <2>1 DEF AtRest, Turning, Turned, Turn, Confirm, Call
    <3>2. ~(Requesting \/ Refused \/ Sent \/ SendingStops)
      BY <2>1 DEF Requesting, Refused, Sent, SendingStops, Call
    <3>3. ~(Indicating \/ BeaconTaken \/ ReceptionStops \/ Sensing \/ Sensed)
      BY <2>1 DEF Indicating, BeaconTaken, ReceptionStops, Sensing, Sensed, Call
    <3>4. ~(Beginning \/ Cancelling)
      BY <2>1 DEF Beginning, Cancelling, Call
    <3> QED
      BY <1>1, <3>1, <3>2, <3>3, <3>4 DEF SafeInv, Phase
  <2>3. trxState \in {"RX_ON", "TX_ON", "TRX_OFF"}
    BY <2>2 DEF Entering, HopsIn, Leaving, Leaves, NotBusy
  <2>4. pdDataRequest => trxState = "BUSY_TX"
    BY <1>1 DEF SafeInv, Global, Transmission
  <2> QED
    BY <2>3, <2>4
<1>2. OrderlyInv => HopsBetweenFrames
  BY <1>1 DEF HopsBetweenFrames, OrderlyInv
<1> QED
  BY <1>2, MacSafeInvariant, PTL

\* Only PdDataConfirm takes a packet out of the queue.
LEMMA QueueShrinks ==
  ASSUME MacInv, [Next]_vars, Len(txQueue') < Len(txQueue)
  PROVE  PdDataConfirm /\ SentWithoutAckReq
<1>1. txQueue \in Seq(Packets) /\ txQueue' # txQueue
  <2>1. txQueue \in Seq(Packets)
    BY DEF MacInv, MacLocal
  <2>2. Len(txQueue) \in Nat
    BY <2>1
  <2> QED
    BY <2>1, <2>2
<1> USE DEF vars, macVars, queueVars
<1>2. ~UNCHANGED vars /\ Next
  BY <1>1
<1>3. ~HigherLayer
  <2>1. ASSUME NEW p \in Packets, McpsDataRequestDirect(p) PROVE FALSE
    BY <1>1, <2>1 DEF McpsDataRequestDirect, EnqueueTxQElement
  <2>2. ASSUME NEW p \in Packets, McpsDataRequestGts(p) PROVE FALSE
    BY <1>1, <2>2 DEF McpsDataRequestGts
  <2> QED
    BY <2>1, <2>2 DEF HigherLayer
<1>4. ~RadioTimer /\ ~SignalEnds /\ ~\E s \in Signals : Arrives(s)
  BY <1>1 DEF RadioTimer, SignalEnds, Arrives
<1>5. ~MacTimer
  BY <1>1 DEF MacTimer, CsmaTimer, RandomBackoffDelay, CanProceed, RequestCCA, DeferCsmaTimeout,
              IfsWaitTimeout
<1>6. ~Superframe
  BY <1>1 DEF Superframe, StartCFP, StartGTS, EndGTS
<1>7. PdDataConfirm
  <2>1. Handler
    BY <1>2, <1>3, <1>4, <1>5, <1>6 DEF Next, Stopped
  <2>2. ~PlmeSetTRXStateConfirm
    BY <1>1 DEF PlmeSetTRXStateConfirm, SendPacket, StartCsma, IdleAgain, NothingToDo
  <2>3. ~(PhyCalls /\ UNCHANGED macVars) /\ ~PlmeSetAttributeConfirm /\ ~PdDataIndication
    BY <1>1 DEF PlmeSetAttributeConfirm, PdDataIndication
  <2>4. ~PlmeCcaConfirm /\ ~EnterGts /\ ~ContinueSending /\ ~LeaveGts
    BY <1>1 DEF PlmeCcaConfirm, EnterGts, ContinueSending, LeaveGts
  <2>5. ~SetLrWpanMacState /\ ~StartCAP
    BY <1>1 DEF SetLrWpanMacState, StartCAP
  <2> QED
    BY <2>1, <2>2, <2>3, <2>4, <2>5 DEF Handler
<1> QED
  BY <1>1, <1>7 DEF PdDataConfirm, SentWithAckReq, NotSent

\* Up to the first mishap the packet that leaves the queue, and is confirmed to the
\* higher layer with SUCCESS, is the one that was on the air.
THEOREM MacOrderlyConfirms == Spec => OrderlyConfirms
<1>1. ASSUME MacInv, SafeInv, [Next]_vars, Len(txQueue') < Len(txQueue)
      PROVE  Head(txQueue) = currentTxPacket.first
  <2>1. PdDataConfirm /\ SentWithoutAckReq
    BY <1>1, QueueShrinks
  <2>2. Refused \/ Sent
    BY <1>1, <2>1, PhaseOf DEF SafeInv, PdDataConfirm
  <2>3. Arg = "SUCCESS" /\ txPkt \notin AckPackets
    BY <2>1 DEF SentWithoutAckReq
  <2>4. Sent
    BY <2>2, <2>3, Stack1 DEF Refused, Arg, Call
  <2>5. txPkt # NONE
    BY <1>1, <2>4, QueuedPacket DEF SafeInv, Global, Packet, Sent, HasFrame
  <2>6. HeadOfQueue
    BY <1>1, <2>3, <2>5 DEF SafeInv, Global, Packet
  <2> QED
    BY <2>4, <2>6 DEF Sent, HeadOfQueue
<1>2. MacInv /\ OrderlyInv /\ [Next]_vars =>
        [orderly /\ Len(txQueue') < Len(txQueue) =>
           Head(txQueue) = currentTxPacket.first]_vars
  BY <1>1 DEF OrderlyInv
<1> QED
  BY <1>2, MacInvariant, MacSafeInvariant, PTL DEF Spec, OrderlyConfirms
===============================================================================
