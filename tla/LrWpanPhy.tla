------------------------------ MODULE LrWpanPhy ------------------------------
(***************************************************************************)
(* The transceiver of one node (lr-wpan-phy.cc): the state machine behind  *)
(* the PD and PLME service access points.                                  *)
(*                                                                         *)
(* ns-3 runs one event at a time; inside an event, requests to the PHY and *)
(* confirms to the MAC are plain C++ calls that nest.  The variable calls  *)
(* is that call stack: its head is the call that runs next, and an event   *)
(* is dispatched only when it is empty.  A PHY function takes its own call *)
(* off the stack and puts the callbacks it makes in its place.             *)
(***************************************************************************)
EXTENDS Naturals, Sequences

CONSTANTS
  Packets,   \* MPDUs handed down by the MAC
  Oversized, \* those longer than aMaxPhyPacketSize
  Signals,   \* transmissions of other nodes that reach this antenna
  Channels,  \* channel numbers a caller may ask for
  Tunable,   \* the channels 11..26 that have a power spectral density
  NONE       \* the null pointer

ASSUME PhyConstants ==
  /\ Oversized \subseteq Packets
  /\ Tunable \subseteq Channels
  /\ Tunable # {}
  /\ NONE \notin Packets \cup Signals

VARIABLES
  trxState,        \* m_trxState
  trxStatePending, \* m_trxStatePending; "IDLE" when nothing is pending
  setTRXState,     \* m_setTRXState: a turnaround is running
  currentRxPacket, \* m_currentRxPacket: the signal locked on, and "corrupted"
  isRxCanceled,    \* m_isRxCanceled
  currentTxPacket, \* m_currentTxPacket: the packet on the air, and "aborted"
  pdDataRequest,   \* m_pdDataRequest: the EndTx event last scheduled runs
  staleEndTx,      \* EndTx events that m_pdDataRequest no longer tracks
  ccaRequest,      \* m_ccaRequest runs
  edRequest,       \* m_edRequest runs
  currentChannel,  \* phyCurrentChannel
  signals,         \* signals on the air, each with its EndRx event scheduled
  calls,           \* the synchronous calls in progress, innermost first
  aborted          \* an assertion failed, or NS_FATAL_ERROR was reached

radioVars == <<trxState, trxStatePending, setTRXState>>
rxVars == <<currentRxPacket, isRxCanceled, signals>>
txVars == <<currentTxPacket, pdDataRequest, staleEndTx>>
senseVars == <<ccaRequest, edRequest>>
phyVars == <<radioVars, rxVars, txVars, senseVars, currentChannel, calls, aborted>>

-----------------------------------------------------------------------------
(* Types *)

TrxStates == {"TRX_OFF", "RX_ON", "TX_ON", "BUSY_RX", "BUSY_TX"}
PendingStates == {"IDLE", "TRX_OFF", "RX_ON", "TX_ON"}
TrxRequests == {"RX_ON", "TX_ON", "TRX_OFF", "FORCE_TRX_OFF"}
Statuses == TrxStates \cup {"SUCCESS", "UNSPECIFIED", "BUSY", "IDLE"}

\* The calls into the PHY, the callbacks out of it, and the parts of EndTx and
\* EndRx that run after their callback has returned.
PhyRequests == {"PlmeSetTRXStateRequest", "PdDataRequest", "PlmeCcaRequest",
                "PlmeEdRequest", "PlmeSetAttributeRequest", "CcaCancel",
                "CancelPdDataRequest"}
PhyCallbacks == {"PlmeSetTRXStateConfirm", "PdDataConfirm", "PdDataIndication",
                 "PlmeCcaConfirm", "PlmeEdConfirm", "PlmeSetAttributeConfirm"}
PhyInternal == {"EndTxTail", "EndRxTail"}

CallArgs == TrxRequests \cup Statuses \cup Packets \cup Signals \cup Channels
              \cup {NONE}
Call(op, arg) == [op |-> op, arg |-> arg]

PhyTypeOK ==
  /\ trxState \in TrxStates
  /\ trxStatePending \in PendingStates
  /\ setTRXState \in BOOLEAN
  /\ currentRxPacket \in [first : Signals \cup {NONE}, second : BOOLEAN]
  /\ isRxCanceled \in BOOLEAN
  /\ currentTxPacket \in [first : Packets \cup {NONE}, second : BOOLEAN]
  /\ pdDataRequest \in BOOLEAN
  /\ staleEndTx \in Nat
  /\ ccaRequest \in BOOLEAN
  /\ edRequest \in BOOLEAN
  /\ currentChannel \in Tunable
  /\ signals \subseteq Signals
  /\ aborted \in BOOLEAN

\* The constructor, after SetPhyOption has cleared both packets.
PhyInit ==
  /\ trxState = "TRX_OFF"
  /\ trxStatePending = "IDLE"
  /\ setTRXState = FALSE
  /\ currentRxPacket = [first |-> NONE, second |-> TRUE]
  /\ isRxCanceled = FALSE
  /\ currentTxPacket = [first |-> NONE, second |-> TRUE]
  /\ pdDataRequest = FALSE
  /\ staleEndTx = 0
  /\ ccaRequest = FALSE
  /\ edRequest = FALSE
  /\ currentChannel \in Tunable
  /\ signals = {}
  /\ aborted = FALSE

-----------------------------------------------------------------------------
(* The call stack *)

Running(op) == ~aborted /\ calls # <<>> /\ Head(calls).op = op
Arg == Head(calls).arg
Dispatch == ~aborted /\ calls = <<>>

\* The running call is replaced by the calls it makes.
Returns(made) == calls' = made \o Tail(calls)
Confirm(status) == <<Call("PlmeSetTRXStateConfirm", status)>>

Abort == aborted' = TRUE /\ UNCHANGED calls

-----------------------------------------------------------------------------
(* PLME-SET-TRX-STATE.request *)

\* CancelEd: a running energy detection is confirmed with the new state.
CancelEd(state) ==
  IF edRequest THEN <<Call("PlmeEdConfirm", state)>> ELSE <<>>

\* The turnaround already under way is the one asked for.
KeepSwitching ==
  /\ setTRXState /\ Arg = trxStatePending
  /\ Returns(<<>>)
  /\ UNCHANGED <<radioVars, rxVars, txVars, senseVars, currentChannel, aborted>>

\* Every other request first cancels a running turnaround.
Overrides == ~(setTRXState /\ Arg = trxStatePending)

SameState ==
  /\ Overrides
  /\ Arg = trxState
  /\ setTRXState' = FALSE /\ trxStatePending' = "IDLE"
  /\ Returns(Confirm(Arg))
  /\ UNCHANGED <<trxState, rxVars, txVars, senseVars, currentChannel, aborted>>

DeferUntilEndTx ==
  /\ Overrides
  /\ trxState = "BUSY_TX" /\ Arg \in {"RX_ON", "TRX_OFF"}
  /\ setTRXState' = FALSE /\ trxStatePending' = Arg
  /\ Returns(<<>>)
  /\ UNCHANGED <<trxState, rxVars, txVars, senseVars, currentChannel, aborted>>

DeferUntilEndRx ==
  /\ Overrides
  /\ Arg = "TRX_OFF" /\ trxState = "BUSY_RX"
  /\ currentRxPacket.first # NONE /\ ~currentRxPacket.second
  /\ setTRXState' = FALSE /\ trxStatePending' = "TRX_OFF"
  /\ edRequest' = FALSE
  /\ Returns(CancelEd(Arg))
  /\ UNCHANGED <<trxState, rxVars, txVars, ccaRequest, currentChannel, aborted>>

SwitchOff ==
  /\ Overrides
  /\ Arg = "TRX_OFF" /\ trxState \in {"RX_ON", "TX_ON"}
  /\ trxState' = "TRX_OFF"
  /\ setTRXState' = FALSE /\ trxStatePending' = "IDLE"
  /\ edRequest' = FALSE
  /\ Returns(CancelEd(Arg) \o Confirm("TRX_OFF"))
  /\ UNCHANGED <<rxVars, txVars, ccaRequest, currentChannel, aborted>>

\* TX_ON breaks off a reception and a CCA, then takes the turnaround time.
ForceTransmitter ==
  /\ Overrides
  /\ Arg = "TX_ON" /\ trxState \in {"BUSY_RX", "RX_ON"}
  /\ currentRxPacket' = [currentRxPacket EXCEPT !.second = @ \/ currentRxPacket.first # NONE]
  /\ isRxCanceled' = (isRxCanceled \/ currentRxPacket.first # NONE)
  /\ setTRXState' = TRUE /\ trxStatePending' = "TX_ON"
  /\ edRequest' = FALSE /\ ccaRequest' = FALSE
  /\ Returns(CancelEd(Arg) \o IF ccaRequest THEN <<Call("PlmeCcaConfirm", "BUSY")>> ELSE <<>>)
  /\ UNCHANGED <<trxState, signals, txVars, currentChannel, aborted>>

TransmitterAlreadyOn ==
  /\ Overrides
  /\ Arg = "TX_ON" /\ trxState = "BUSY_TX"
  /\ setTRXState' = FALSE /\ trxStatePending' = "IDLE"
  /\ edRequest' = FALSE
  /\ Returns(CancelEd(Arg) \o Confirm("TX_ON"))
  /\ UNCHANGED <<trxState, rxVars, txVars, ccaRequest, currentChannel, aborted>>

TransmitterFromOff ==
  /\ Overrides
  /\ Arg = "TX_ON" /\ trxState = "TRX_OFF"
  /\ trxState' = "TX_ON"
  /\ setTRXState' = FALSE /\ trxStatePending' = "IDLE"
  /\ edRequest' = FALSE
  /\ Returns(CancelEd(Arg) \o Confirm("TX_ON"))
  /\ UNCHANGED <<rxVars, txVars, ccaRequest, currentChannel, aborted>>

\* Faulty variant of ForceOff: the state becomes the request itself.
ForceOffKeepsRequest ==
  /\ Overrides
  /\ Arg = "FORCE_TRX_OFF"
  /\ setTRXState' = FALSE /\ trxStatePending' = "IDLE"
  /\ trxState' = Arg
  /\ Returns(Confirm("SUCCESS"))
  /\ UNCHANGED <<rxVars, txVars, senseVars, currentChannel, aborted>>

ForceOff ==
  /\ Overrides
  /\ Arg = "FORCE_TRX_OFF"
  /\ setTRXState' = FALSE /\ trxStatePending' = "IDLE"
  /\ trxState' = "TRX_OFF"
  /\ IF trxState # "TRX_OFF" /\ currentRxPacket.first # NONE
       THEN /\ currentRxPacket' = [currentRxPacket EXCEPT !.second = TRUE]
            /\ isRxCanceled' = TRUE
       ELSE UNCHANGED <<currentRxPacket, isRxCanceled>>
  /\ currentTxPacket' = [currentTxPacket EXCEPT !.second = @ \/ trxState = "BUSY_TX"]
  /\ Returns(Confirm("SUCCESS"))
  /\ UNCHANGED <<signals, pdDataRequest, staleEndTx, senseVars, currentChannel, aborted>>

TurnToReceiver ==
  /\ Overrides
  /\ Arg = "RX_ON" /\ trxState \in {"TX_ON", "TRX_OFF"}
  /\ setTRXState' = TRUE /\ trxStatePending' = "RX_ON"
  /\ Returns(<<>>)
  /\ UNCHANGED <<trxState, rxVars, txVars, senseVars, currentChannel, aborted>>

ReceiverAlreadyBusy ==
  /\ Overrides
  /\ Arg = "RX_ON" /\ trxState = "BUSY_RX"
  /\ setTRXState' = FALSE /\ trxStatePending' = "IDLE"
  /\ Returns(Confirm("RX_ON"))
  /\ UNCHANGED <<trxState, rxVars, txVars, senseVars, currentChannel, aborted>>

\* What is left over: TRX_OFF while BUSY_RX holds no valid packet.
UnexpectedTransition ==
  /\ Overrides
  /\ Arg = "TRX_OFF" /\ trxState = "BUSY_RX"
  /\ currentRxPacket.first = NONE \/ currentRxPacket.second
  /\ Abort
  /\ UNCHANGED <<radioVars, rxVars, txVars, senseVars, currentChannel>>

PlmeSetTRXStateRequest ==
  /\ Running("PlmeSetTRXStateRequest")
  /\ \/ KeepSwitching        \/ SameState          \/ DeferUntilEndTx
     \/ DeferUntilEndRx      \/ SwitchOff          \/ ForceTransmitter
     \/ TransmitterAlreadyOn \/ TransmitterFromOff \/ ForceOff
     \/ TurnToReceiver       \/ ReceiverAlreadyBusy
     \/ UnexpectedTransition

\* The turnaround is over.
EndSetTRXState ==
  /\ Dispatch /\ setTRXState
  /\ setTRXState' = FALSE
  /\ IF trxStatePending \in {"RX_ON", "TX_ON"}
       THEN /\ trxState' = trxStatePending
            /\ trxStatePending' = "IDLE"
            /\ calls' = Confirm(trxStatePending)
            /\ UNCHANGED aborted
       ELSE Abort /\ UNCHANGED <<trxState, trxStatePending>>
  /\ UNCHANGED <<rxVars, txVars, senseVars, currentChannel>>

-----------------------------------------------------------------------------
(* PD-DATA.request and the end of a transmission *)

\* Faulty variant of BeginTransmission: the mark of an earlier abort is kept.
BeginTransmissionStillAborted ==
  /\ Arg \notin Oversized
  /\ ~setTRXState /\ trxState = "TX_ON"
  /\ trxState' = "BUSY_TX"
  /\ currentTxPacket' = [currentTxPacket EXCEPT !.first = Arg]
  /\ pdDataRequest' = TRUE
  /\ staleEndTx' = staleEndTx + (IF pdDataRequest THEN 1 ELSE 0)
  /\ Returns(<<>>)
  /\ UNCHANGED <<trxStatePending, setTRXState, rxVars, senseVars, currentChannel, aborted>>

\* StartTx on the channel; a previous EndTx event, if any, runs on untracked.
BeginTransmission ==
  /\ Arg \notin Oversized
  /\ ~setTRXState /\ trxState = "TX_ON"
  /\ trxState' = "BUSY_TX"
  /\ currentTxPacket' = [first |-> Arg, second |-> FALSE]
  /\ pdDataRequest' = TRUE
  /\ staleEndTx' = staleEndTx + (IF pdDataRequest THEN 1 ELSE 0)
  /\ Returns(<<>>)
  /\ UNCHANGED <<trxStatePending, setTRXState, rxVars, senseVars, currentChannel, aborted>>

\* The packet is dropped; the status is the transceiver state or UNSPECIFIED.
RefuseTransmission ==
  /\ \/ Arg \in Oversized
     \/ setTRXState
     \/ trxState \in {"RX_ON", "TRX_OFF", "BUSY_TX"}
  /\ Returns(<<Call("PdDataConfirm",
                    IF Arg \in Oversized \/ setTRXState THEN "UNSPECIFIED" ELSE trxState)>>)
  /\ UNCHANGED <<radioVars, rxVars, txVars, senseVars, currentChannel, aborted>>

TransmitWhileReceiving ==
  /\ Arg \notin Oversized /\ ~setTRXState /\ trxState = "BUSY_RX"
  /\ Abort
  /\ UNCHANGED <<radioVars, rxVars, txVars, senseVars, currentChannel>>

PdDataRequest ==
  /\ Running("PdDataRequest")
  /\ BeginTransmission \/ RefuseTransmission \/ TransmitWhileReceiving

\* CancelPdDataRequest stops the EndTx event and nothing else.
CancelPdDataRequest ==
  /\ Running("CancelPdDataRequest")
  /\ pdDataRequest' = FALSE
  /\ Returns(<<>>)
  /\ UNCHANGED <<radioVars, rxVars, currentTxPacket, staleEndTx, senseVars,
                 currentChannel, aborted>>

\* An EndTx event fires: the tracked one, or one that was overtaken.
EndTxFires ==
  \/ pdDataRequest /\ pdDataRequest' = FALSE /\ UNCHANGED staleEndTx
  \/ staleEndTx > 0 /\ staleEndTx' = staleEndTx - 1 /\ UNCHANGED pdDataRequest

\* The transceiver has left BUSY_TX for RX_ON or TX_ON: EndTx returns.
EndTxIgnored ==
  /\ trxState \notin {"BUSY_TX", "TRX_OFF"}
  /\ UNCHANGED <<radioVars, currentTxPacket, calls, aborted>>

\* An aborted packet is reported with the transceiver state, which must then
\* be TRX_OFF.
EndTxReported ==
  /\ trxState \in {"BUSY_TX", "TRX_OFF"}
  /\ aborted' = (currentTxPacket.second /\ trxState # "TRX_OFF")
  /\ calls' = <<Call("PdDataConfirm", IF currentTxPacket.second THEN trxState ELSE "SUCCESS"),
                Call("EndTxTail", NONE)>>
  /\ UNCHANGED <<radioVars, currentTxPacket>>

EndTx ==
  /\ Dispatch
  /\ EndTxFires
  /\ EndTxIgnored \/ EndTxReported
  /\ UNCHANGED <<rxVars, senseVars, currentChannel>>

\* The rest of EndTx, after the confirm has been handled: a pending state
\* change is applied, otherwise the transmitter stays on.
EndTxTail ==
  /\ Running("EndTxTail")
  /\ currentTxPacket' = [first |-> NONE, second |-> FALSE]
  /\ IF trxStatePending # "IDLE"
       THEN IF setTRXState
              THEN Returns(<<>>) /\ UNCHANGED <<trxState, trxStatePending>>
              ELSE /\ trxState' = trxStatePending
                   /\ trxStatePending' = "IDLE"
                   /\ Returns(Confirm("SUCCESS"))
       ELSE /\ trxState' = IF trxState = "TRX_OFF" THEN "TRX_OFF" ELSE "TX_ON"
            /\ Returns(<<>>)
            /\ UNCHANGED trxStatePending
  /\ UNCHANGED <<setTRXState, pdDataRequest, staleEndTx, rxVars, senseVars,
                 currentChannel, aborted>>

-----------------------------------------------------------------------------
(* Reception *)

\* Enough SINR: the receiver locks on the signal.
LockOn(s) ==
  /\ trxState = "RX_ON" /\ ~setTRXState
  /\ trxState' = "BUSY_RX"
  /\ currentRxPacket' = [first |-> s, second |-> FALSE]
  /\ UNCHANGED aborted

\* CheckInterference at the arrival of a second signal may destroy the first;
\* with no packet to check it follows a null pointer.
Collide ==
  /\ trxState = "BUSY_RX"
  /\ IF currentRxPacket.first = NONE
       THEN aborted' = TRUE /\ UNCHANGED currentRxPacket
       ELSE /\ \E destroyed \in BOOLEAN :
                 currentRxPacket' = [currentRxPacket EXCEPT !.second = @ \/ destroyed]
            /\ UNCHANGED aborted
  /\ UNCHANGED trxState

\* Too weak, or the transceiver does not receive.
IgnoreSignal ==
  /\ trxState # "BUSY_RX"
  /\ UNCHANGED <<trxState, currentRxPacket, aborted>>

StartRx(s) ==
  /\ Dispatch
  /\ s \notin signals
  /\ signals' = signals \cup {s}
  /\ LockOn(s) \/ Collide \/ IgnoreSignal
  /\ UNCHANGED <<trxStatePending, setTRXState, isRxCanceled, txVars, senseVars,
                 currentChannel, calls>>

\* The signal ends.  The frame locked on goes up unless it was destroyed by
\* interference, now or before, or by the post-reception error model.
EndRx(s) ==
  /\ Dispatch
  /\ s \in signals
  /\ signals' = signals \ {s}
  /\ IF currentRxPacket.first = s
       THEN \E destroyed \in BOOLEAN :
              /\ currentRxPacket' = [currentRxPacket EXCEPT !.second = @ \/ destroyed]
              /\ calls' = (IF currentRxPacket'.second THEN <<>>
                           ELSE <<Call("PdDataIndication", s)>>)
                            \o <<Call("EndRxTail", NONE)>>
       ELSE UNCHANGED <<currentRxPacket, calls>>
  /\ UNCHANGED <<radioVars, isRxCanceled, txVars, senseVars, currentChannel, aborted>>

\* The rest of EndRx, after the indication has been handled.
EndRxTail ==
  /\ Running("EndRxTail")
  /\ currentRxPacket' = [first |-> NONE, second |-> TRUE]
  /\ isRxCanceled' = FALSE
  /\ IF isRxCanceled \/ (trxStatePending # "IDLE" /\ setTRXState)
       THEN Returns(<<>>) /\ UNCHANGED radioVars
       ELSE /\ trxState' = IF trxStatePending = "IDLE" THEN "RX_ON" ELSE trxStatePending
            /\ trxStatePending' = "IDLE"
            /\ Returns(IF trxStatePending = "IDLE" THEN <<>> ELSE Confirm("SUCCESS"))
            /\ UNCHANGED setTRXState
  /\ UNCHANGED <<signals, txVars, senseVars, currentChannel, aborted>>

-----------------------------------------------------------------------------
(* Channel sensing and the channel number *)

PlmeCcaRequest ==
  /\ Running("PlmeCcaRequest")
  /\ IF trxState \in {"RX_ON", "BUSY_RX"}
       THEN ccaRequest' = TRUE /\ Returns(<<>>)
       ELSE /\ Returns(<<Call("PlmeCcaConfirm",
                              IF trxState = "TRX_OFF" THEN "TRX_OFF" ELSE "BUSY")>>)
            /\ UNCHANGED ccaRequest
  /\ UNCHANGED <<radioVars, rxVars, txVars, edRequest, currentChannel, aborted>>

CcaCancel ==
  /\ Running("CcaCancel")
  /\ ccaRequest' = FALSE
  /\ Returns(<<>>)
  /\ UNCHANGED <<radioVars, rxVars, txVars, edRequest, currentChannel, aborted>>

PhyIsBusy == trxState \in {"BUSY_TX", "BUSY_RX"}

\* A receiver that is not busy may still measure power above the threshold.
EndCca ==
  /\ Dispatch /\ ccaRequest
  /\ ccaRequest' = FALSE
  /\ \E sensed \in {"IDLE", "BUSY"} :
       /\ PhyIsBusy => sensed = "BUSY"
       /\ calls' = <<Call("PlmeCcaConfirm", sensed)>>
  /\ UNCHANGED <<radioVars, rxVars, txVars, edRequest, currentChannel, aborted>>

PlmeEdRequest ==
  /\ Running("PlmeEdRequest")
  /\ IF trxState \in {"RX_ON", "BUSY_RX"}
       THEN edRequest' = TRUE /\ Returns(<<>>)
       ELSE /\ Returns(<<Call("PlmeEdConfirm",
                              IF trxState = "BUSY_TX" THEN "TX_ON" ELSE trxState)>>)
            /\ UNCHANGED edRequest
  /\ UNCHANGED <<radioVars, rxVars, txVars, ccaRequest, currentChannel, aborted>>

EndEd ==
  /\ Dispatch /\ edRequest
  /\ edRequest' = FALSE
  /\ calls' = <<Call("PlmeEdConfirm", "SUCCESS")>>
  /\ UNCHANGED <<radioVars, rxVars, txVars, ccaRequest, currentChannel, aborted>>

\* Faulty variants of Retune: the running turnaround, or the frame in reception,
\* is forgotten.
RetuneKeepsTurnaround ==
  /\ Arg # currentChannel /\ Arg \in Tunable
  /\ currentChannel' = Arg
  /\ trxState' = "TRX_OFF" /\ trxStatePending' = "IDLE"
  /\ Returns(<<Call("PlmeSetAttributeConfirm", "SUCCESS")>>)
  /\ UNCHANGED <<setTRXState, rxVars, txVars, senseVars, aborted>>

RetuneKeepsReception ==
  /\ Arg # currentChannel /\ Arg \in Tunable
  /\ currentChannel' = Arg
  /\ trxState' = "TRX_OFF" /\ trxStatePending' = "IDLE"
  /\ setTRXState' = (setTRXState /\ trxStatePending = "IDLE")
  /\ Returns(<<Call("PlmeSetAttributeConfirm", "SUCCESS")>>)
  /\ UNCHANGED <<rxVars, txVars, senseVars, aborted>>

\* A new channel switches the transceiver off before the test for a packet in
\* transmission, which therefore never finds one: txVars do not change.
Retune ==
  /\ Arg # currentChannel /\ Arg \in Tunable
  /\ currentChannel' = Arg
  /\ trxState' = "TRX_OFF" /\ trxStatePending' = "IDLE"
  /\ setTRXState' = (setTRXState /\ trxStatePending = "IDLE")
  /\ currentRxPacket' = [currentRxPacket EXCEPT !.second = @ \/ currentRxPacket.first # NONE]
  /\ Returns((IF trxStatePending = "IDLE" THEN <<>> ELSE Confirm("TRX_OFF"))
               \o <<Call("PlmeSetAttributeConfirm", "SUCCESS")>>)
  /\ UNCHANGED <<isRxCanceled, signals, txVars, senseVars, aborted>>

\* The channel is the current one.
KeepChannel ==
  /\ Arg = currentChannel
  /\ Returns(<<Call("PlmeSetAttributeConfirm", "SUCCESS")>>)
  /\ UNCHANGED <<radioVars, rxVars, txVars, senseVars, currentChannel, aborted>>

\* INVALID_PARAMETER is noted but the channel is set all the same, and the
\* helper that computes its power spectral density asserts 11..26.
RetuneOutOfBand ==
  /\ Arg \notin Tunable
  /\ Abort
  /\ UNCHANGED <<radioVars, rxVars, txVars, senseVars, currentChannel>>

PlmeSetAttributeRequest ==
  /\ Running("PlmeSetAttributeRequest")
  /\ Retune \/ KeepChannel \/ RetuneOutOfBand

-----------------------------------------------------------------------------
\* The steps of the PHY: a call that was made, or an event that fires.
PhyCalls ==
  \/ PlmeSetTRXStateRequest \/ PdDataRequest \/ CancelPdDataRequest
  \/ PlmeCcaRequest \/ CcaCancel \/ PlmeEdRequest \/ PlmeSetAttributeRequest
  \/ EndTxTail \/ EndRxTail

PhyEvents ==
  \/ EndSetTRXState \/ EndTx \/ EndCca \/ EndEd
  \/ \E s \in Signals : StartRx(s) \/ EndRx(s)

PhyNext == PhyCalls \/ PhyEvents
=============================================================================
