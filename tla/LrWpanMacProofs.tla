---------------------------- MODULE LrWpanMacProofs ----------------------------
(***************************************************************************)
(* TLAPS proofs about LrWpanMac that need nothing of the environment: the  *)
(* types, the channel the device is on outside its slots, and the packet   *)
(* for which it seeks the channel, for every traffic, every allocation of  *)
(* slots and every order of events.                                        *)
(***************************************************************************)
EXTENDS LrWpanMac, SequenceTheorems, TLAPS

\* A CSMA-CA round that has given up has no event and no CCA left, so m_NB is
\* never incremented beyond m_macMaxCSMABackoffs + 1.
GivenUp == csmaNB > MaxCSMABackoffs => csmaEvent = NONE /\ ~ccaRequestRunning

\* The request to change the channel.
Hop == "PlmeSetAttributeRequest"

\* A hop runs as soon as it is requested: it is never below another call.
HopRunsFirst == \A i \in 2..Len(calls) : calls[i].op # Hop

\* Outside the slots the channel is the one of the CAP, or about to be.
ChannelInv ==
  /\ HopRunsFirst
  /\ gts = NONE =>
       IF calls # <<>> /\ Head(calls).op = Hop THEN Arg = CapChannel
       ELSE currentChannel = CapChannel

\* Calls other than a hop.
Others == {c \in MacCalls : c.op # Hop}

-----------------------------------------------------------------------------
(* The call stack *)

\* The running call is replaced by calls other than a hop.
LEMMA StackStep ==
  ASSUME calls \in Seq(MacCalls), calls # <<>>, HopRunsFirst,
         NEW made \in Seq(Others), Returns(made)
  PROVE  /\ calls' \in Seq(MacCalls) /\ HopRunsFirst'
         /\ calls' # <<>> => Head(calls').op # Hop
<1>1. Tail(calls) \in Seq(MacCalls) /\ Len(Tail(calls)) = Len(calls) - 1
  BY HeadTailProperties
<1>2. made \in Seq(MacCalls)
  BY DEF Others
<1>3. /\ made \o Tail(calls) \in Seq(MacCalls)
      /\ Len(made \o Tail(calls)) = Len(made) + Len(Tail(calls))
  BY <1>1, <1>2, ConcatProperties
<1>4. ASSUME NEW i \in 1..Len(made \o Tail(calls))
      PROVE  (made \o Tail(calls))[i].op # Hop
  <2>1. CASE i <= Len(made)
    <3>1. made[i] \in Others
      BY <2>1, <1>3
    <3> QED
      BY <2>1, <3>1, <1>1, <1>2 DEF Others
  <2>2. CASE i > Len(made)
    <3>1. i - Len(made) \in 1..Len(Tail(calls))
      BY <2>2, <1>1, <1>2, <1>3
    <3>2. (made \o Tail(calls))[i] = calls[i - Len(made) + 1]
      BY <2>2, <1>1, <1>2, <3>1, ConcatProperties, HeadTailProperties
    <3>3. i - Len(made) + 1 \in 2..Len(calls)
      BY <3>1, <1>1, <1>2
    <3> QED
      BY <3>2, <3>3 DEF HopRunsFirst
  <2> QED
    BY <2>1, <2>2, <1>2
<1>5. calls' = made \o Tail(calls)
  BY DEF Returns
<1>6. HopRunsFirst'
  BY <1>3, <1>4, <1>5 DEF HopRunsFirst
<1>7. ASSUME calls' # <<>> PROVE Head(calls').op # Hop
  <2>1. calls' \in Seq(MacCalls) /\ Len(calls') >= 1 /\ Head(calls') = calls'[1]
    BY <1>3, <1>5, <1>7
  <2> QED
    BY <2>1, <1>4, <1>5
<1> QED
  BY <1>3, <1>5, <1>6, <1>7

\* The running call has an operation and an argument of the interface.
LEMMA HeadType ==
  ASSUME calls \in Seq(MacCalls), calls # <<>>
  PROVE  /\ Head(calls) \in MacCalls /\ Arg \in CallArgs
         /\ Head(calls).op = "PdDataRequest" => Arg \in Packets
<1>1. Head(calls) \in MacCalls
  BY HeadTailProperties
<1> QED
  BY <1>1 DEF MacCalls, Arg

\* A list of one request or callback that is not a hop.
LEMMA OneCall ==
  ASSUME NEW op \in (PhyRequests \cup PhyCallbacks \cup PhyInternal \cup MacInternal) \ {Hop},
         NEW arg \in CallArgs, op = "PdDataRequest" => arg \in Packets
  PROVE  Call(op, arg) \in Others /\ <<Call(op, arg)>> \in Seq(Others)
<1>1. Call(op, arg) \in Others
  BY DEF Call, Others, MacCalls
<1> QED
  BY <1>1

\* CancelEd, Confirm and Turn produce such lists.
LEMMA SmallLists ==
  /\ <<>> \in Seq(Others)
  /\ \A s \in TrxRequests : CancelEd(s) \in Seq(Others)
  /\ \A s \in Statuses : Confirm(s) \in Seq(Others)
  /\ \A s \in TrxRequests : Turn(s) \in Seq(Others)
<1>1. <<>> \in Seq(Others)
  OBVIOUS
<1>2. ASSUME NEW s \in TrxRequests PROVE CancelEd(s) \in Seq(Others)
  BY OneCall, <1>1 DEF CancelEd, PhyCallbacks, CallArgs, Hop
<1>3. ASSUME NEW s \in Statuses PROVE Confirm(s) \in Seq(Others)
  BY OneCall DEF Confirm, PhyCallbacks, CallArgs, Hop
<1>4. ASSUME NEW s \in TrxRequests PROVE Turn(s) \in Seq(Others)
  BY OneCall DEF Turn, PhyRequests, CallArgs, Hop
<1> QED
  BY <1>1, <1>2, <1>3, <1>4

\* What a call other than a hop does to the stack and to the channel.
CallStep ==
  /\ UNCHANGED currentChannel
  /\ UNCHANGED calls \/ \E made \in Seq(Others) : Returns(made)

\* Such a step keeps the type of the stack and the channel of the period.
LEMMA CallStepChannel ==
  ASSUME calls \in Seq(MacCalls), calls # <<>>, Head(calls).op # Hop, ChannelInv,
         CallStep, UNCHANGED gts
  PROVE  calls' \in Seq(MacCalls) /\ ChannelInv'
<1>1. CASE UNCHANGED calls
  BY <1>1 DEF ChannelInv, HopRunsFirst, CallStep, Arg
<1>2. CASE \E made \in Seq(Others) : Returns(made)
  <2>1. PICK made \in Seq(Others) : Returns(made)
    BY <1>2
  <2>2. /\ calls' \in Seq(MacCalls) /\ HopRunsFirst'
        /\ calls' # <<>> => Head(calls').op # Hop
    BY <2>1, StackStep DEF ChannelInv
  <2> QED
    BY <2>2 DEF ChannelInv, CallStep
<1> QED
  BY <1>1, <1>2 DEF CallStep

\* An event that makes the calls of the list made, none of them a hop.
LEMMA EventChannel ==
  ASSUME calls = <<>>, ChannelInv, calls' \in Seq(Others), UNCHANGED <<currentChannel, gts>>
  PROVE  calls' \in Seq(MacCalls) /\ ChannelInv'
<1>1. calls' \in Seq(MacCalls)
  BY DEF Others
<1>2. \A i \in 1..Len(calls') : calls'[i].op # Hop
  BY DEF Others
<1>3. HopRunsFirst'
  BY <1>1, <1>2 DEF HopRunsFirst
<1>4. ASSUME calls' # <<>> PROVE Head(calls').op # Hop
  <2>1. Len(calls') >= 1 /\ Head(calls') = calls'[1]
    BY <1>1, <1>4
  <2> QED
    BY <2>1, <1>1, <1>2
<1> QED
  BY <1>1, <1>3, <1>4 DEF ChannelInv

-----------------------------------------------------------------------------
(* The steps of the PHY *)

\* PLME-SET-TRX-STATE.request keeps the types, whatever its branch.
LEMMA SetTRXTypes ==
  ASSUME PhyTypeOK, calls \in Seq(MacCalls), PlmeSetTRXStateRequest
  PROVE  PhyTypeOK' /\ CallStep
<1> USE DEF PhyTypeOK, CallStep
<1>0. calls # <<>> /\ Arg \in CallArgs
  BY HeadType DEF PlmeSetTRXStateRequest, Running
<1> USE DEF radioVars, rxVars, txVars, senseVars, TrxStates, PendingStates
<1>1. CASE KeepSwitching
  <2>1. PhyTypeOK'
    BY <1>1 DEF KeepSwitching
  <2> QED
    BY <1>1, <2>1, SmallLists DEF KeepSwitching
<1>2. CASE SameState
  <2>1. Confirm(Arg) \in Seq(Others)
    BY <1>2, SmallLists DEF SameState, Statuses
  <2> QED
    BY <1>2, <2>1 DEF SameState
<1>3. CASE DeferUntilEndTx
  BY <1>3, SmallLists DEF DeferUntilEndTx
<1>4. CASE DeferUntilEndRx
  <2>1. CancelEd(Arg) \in Seq(Others)
    BY <1>4, SmallLists DEF DeferUntilEndRx, TrxRequests
  <2> QED
    BY <1>4, <2>1 DEF DeferUntilEndRx
<1>5. CASE SwitchOff
  <2>1. CancelEd(Arg) \o Confirm("TRX_OFF") \in Seq(Others)
    BY <1>5, SmallLists, ConcatProperties DEF SwitchOff, TrxRequests, Statuses
  <2> QED
    BY <1>5, <2>1 DEF SwitchOff
<1>6. CASE ForceTransmitter
  <2> DEFINE cca == IF ccaRequest THEN <<Call("PlmeCcaConfirm", "BUSY")>> ELSE <<>>
  <2>1. cca \in Seq(Others)
    BY SmallLists, OneCall DEF PhyCallbacks, CallArgs, Statuses, Hop
  <2>2. CancelEd(Arg) \in Seq(Others)
    BY <1>6, SmallLists DEF ForceTransmitter, TrxRequests
  <2>3. CancelEd(Arg) \o cca \in Seq(Others)
    BY <2>1, <2>2, ConcatProperties
  <2>4. Returns(CancelEd(Arg) \o cca)
    BY <1>6 DEF ForceTransmitter
  <2> HIDE DEF cca
  <2> QED
    BY <1>6, <2>3, <2>4 DEF ForceTransmitter
<1>7. CASE TransmitterAlreadyOn
  <2>1. CancelEd(Arg) \o Confirm("TX_ON") \in Seq(Others)
    BY <1>7, SmallLists, ConcatProperties DEF TransmitterAlreadyOn, TrxRequests, Statuses
  <2> QED
    BY <1>7, <2>1 DEF TransmitterAlreadyOn
<1>8. CASE TransmitterFromOff
  <2>1. CancelEd(Arg) \o Confirm("TX_ON") \in Seq(Others)
    BY <1>8, SmallLists, ConcatProperties DEF TransmitterFromOff, TrxRequests, Statuses
  <2> QED
    BY <1>8, <2>1 DEF TransmitterFromOff
<1>9. CASE ForceOff
  <2>1. Confirm("SUCCESS") \in Seq(Others)
    BY SmallLists DEF Statuses
  <2> QED
    BY <1>9, <2>1 DEF ForceOff
<1>10. CASE TurnToReceiver
  BY <1>10, SmallLists DEF TurnToReceiver
<1>11. CASE ReceiverAlreadyBusy
  <2>1. Confirm("RX_ON") \in Seq(Others)
    BY SmallLists DEF Statuses
  <2> QED
    BY <1>11, <2>1 DEF ReceiverAlreadyBusy
<1>12. CASE UnexpectedTransition
  BY <1>12 DEF UnexpectedTransition, Abort
<1> QED
  BY <1>1, <1>2, <1>3, <1>4, <1>5, <1>6, <1>7, <1>8, <1>9, <1>10, <1>11, <1>12
  DEF PlmeSetTRXStateRequest

\* So do the requests to send a packet and to stop sending it.
LEMMA PdDataTypes ==
  ASSUME PhyTypeOK, calls \in Seq(MacCalls), PdDataRequest \/ CancelPdDataRequest
  PROVE  PhyTypeOK' /\ CallStep
<1> USE DEF PhyTypeOK, CallStep
<1>0. calls # <<>> /\ Arg \in CallArgs
  BY HeadType DEF PdDataRequest, CancelPdDataRequest, Running
<1> USE DEF radioVars, rxVars, txVars, senseVars, TrxStates, PendingStates
<1>1. CASE PdDataRequest /\ BeginTransmission
  <2>1. Arg \in Packets
    BY <1>0, <1>1, HeadType DEF PdDataRequest, Running
  <2>2. currentTxPacket' \in [first : Packets \cup {NONE}, second : BOOLEAN]
    BY <1>1, <2>1 DEF BeginTransmission
  <2>3. staleEndTx' \in Nat
    BY <1>1 DEF BeginTransmission
  <2> QED
    BY <1>1, <2>2, <2>3, SmallLists DEF BeginTransmission
<1>2. CASE PdDataRequest /\ RefuseTransmission
  <2> DEFINE status == IF Arg \in Oversized \/ setTRXState THEN "UNSPECIFIED" ELSE trxState
  <2>1. status \in CallArgs
    BY DEF CallArgs, Statuses
  <2>2. <<Call("PdDataConfirm", status)>> \in Seq(Others)
    BY <2>1, OneCall DEF PhyCallbacks, Hop
  <2>3. Returns(<<Call("PdDataConfirm", status)>>)
    BY <1>2 DEF RefuseTransmission
  <2> HIDE DEF status
  <2>4. PhyTypeOK'
    BY <1>2 DEF RefuseTransmission
  <2> QED
    BY <1>2, <2>2, <2>3, <2>4 DEF RefuseTransmission
<1>3. CASE PdDataRequest /\ TransmitWhileReceiving
  BY <1>3 DEF TransmitWhileReceiving, Abort
<1>4. CASE CancelPdDataRequest
  <2>1. /\ pdDataRequest' = FALSE /\ Returns(<<>>)
        /\ UNCHANGED <<radioVars, rxVars, currentTxPacket, staleEndTx, senseVars,
                       currentChannel, aborted>>
    BY <1>4 DEF CancelPdDataRequest
  <2>2. pdDataRequest' \in BOOLEAN
    BY <2>1
  <2>3. PhyTypeOK'
    BY <2>1, <2>2
  <2> QED
    BY <2>1, <2>3, SmallLists
<1> QED
  BY <1>1, <1>2, <1>3, <1>4 DEF PdDataRequest

\* The requests to sense the channel.
LEMMA SenseTypes ==
  ASSUME PhyTypeOK, calls \in Seq(MacCalls), PlmeCcaRequest \/ CcaCancel \/ PlmeEdRequest
  PROVE  PhyTypeOK' /\ CallStep
<1> USE DEF PhyTypeOK, CallStep
<1> USE DEF radioVars, rxVars, txVars, senseVars, TrxStates, PendingStates
<1>1. CASE PlmeCcaRequest
  <2> DEFINE status == IF trxState = "TRX_OFF" THEN "TRX_OFF" ELSE "BUSY"
  <2>1. status \in CallArgs
    BY DEF CallArgs, Statuses
  <2>2. <<Call("PlmeCcaConfirm", status)>> \in Seq(Others)
    BY <2>1, OneCall DEF PhyCallbacks, Hop
  <2>3. Returns(<<>>) \/ Returns(<<Call("PlmeCcaConfirm", status)>>)
    BY <1>1 DEF PlmeCcaRequest
  <2> HIDE DEF status
  <2>4. ccaRequest' \in BOOLEAN
    BY <1>1 DEF PlmeCcaRequest
  <2>5. PhyTypeOK'
    BY <1>1, <2>4 DEF PlmeCcaRequest
  <2> QED
    BY <1>1, <2>2, <2>3, <2>5, SmallLists DEF PlmeCcaRequest
<1>2. CASE CcaCancel
  <2>1. ccaRequest' \in BOOLEAN
    BY <1>2 DEF CcaCancel
  <2>2. PhyTypeOK'
    BY <1>2, <2>1 DEF CcaCancel
  <2> QED
    BY <1>2, <2>2, SmallLists DEF CcaCancel
<1>3. CASE PlmeEdRequest
  <2> DEFINE status == IF trxState = "BUSY_TX" THEN "TX_ON" ELSE trxState
  <2>1. status \in CallArgs
    BY DEF CallArgs, Statuses
  <2>2. <<Call("PlmeEdConfirm", status)>> \in Seq(Others)
    BY <2>1, OneCall DEF PhyCallbacks, Hop
  <2>3. Returns(<<>>) \/ Returns(<<Call("PlmeEdConfirm", status)>>)
    BY <1>3 DEF PlmeEdRequest
  <2> HIDE DEF status
  <2>4. edRequest' \in BOOLEAN
    BY <1>3 DEF PlmeEdRequest
  <2>5. PhyTypeOK'
    BY <1>3, <2>4 DEF PlmeEdRequest
  <2> QED
    BY <1>3, <2>2, <2>3, <2>5, SmallLists DEF PlmeEdRequest
<1> QED
  BY <1>1, <1>2, <1>3

\* The rest of EndTx and of EndRx.
LEMMA TailTypes ==
  ASSUME PhyTypeOK, calls \in Seq(MacCalls), EndTxTail \/ EndRxTail
  PROVE  PhyTypeOK' /\ CallStep
<1> USE DEF PhyTypeOK, CallStep
<1> USE DEF radioVars, rxVars, txVars, senseVars, TrxStates, PendingStates
<1>0. Confirm("SUCCESS") \in Seq(Others)
  BY SmallLists DEF Statuses
<1>1. CASE EndTxTail
  <2>1. Returns(<<>>) \/ Returns(Confirm("SUCCESS"))
    BY <1>1 DEF EndTxTail
  <2>2. PhyTypeOK'
    BY <1>1 DEF EndTxTail
  <2> QED
    BY <1>0, <1>1, <2>1, <2>2, SmallLists DEF EndTxTail
<1>2. CASE EndRxTail
  <2>1. Returns(<<>>) \/ Returns(Confirm("SUCCESS"))
    BY <1>2 DEF EndRxTail
  <2>2. PhyTypeOK'
    BY <1>2 DEF EndRxTail
  <2> QED
    BY <1>0, <1>2, <2>1, <2>2, SmallLists DEF EndRxTail
<1> QED
  BY <1>1, <1>2

\* A change of the channel: the running call is the only hop, and when it has
\* returned the channel is the one it asked for.
LEMMA HopStep ==
  ASSUME PhyTypeOK, calls \in Seq(MacCalls), ChannelInv, PlmeSetAttributeRequest,
         UNCHANGED gts
  PROVE  PhyTypeOK' /\ calls' \in Seq(MacCalls) /\ ChannelInv'
<1> USE DEF radioVars, rxVars, txVars, senseVars, TrxStates, PendingStates
<1>0. /\ calls # <<>> /\ Head(calls).op = Hop
      /\ gts = NONE => Arg = CapChannel
  BY DEF PlmeSetAttributeRequest, Running, ChannelInv, Hop
<1> DEFINE success == <<Call("PlmeSetAttributeConfirm", "SUCCESS")>>
<1>1. success \in Seq(Others) /\ Confirm("TRX_OFF") \in Seq(Others)
  BY OneCall, SmallLists DEF PhyCallbacks, CallArgs, Statuses, Hop
<1>2. CASE Retune \/ KeepChannel
  <2> DEFINE off == IF trxStatePending = "IDLE" THEN <<>> ELSE Confirm("TRX_OFF")
  <2>1. off \in Seq(Others)
    BY <1>1, SmallLists
  <2>2. off \o success \in Seq(Others)
    BY <1>1, <2>1, ConcatProperties
  <2>3. Returns(off \o success) \/ Returns(success)
    BY <1>2 DEF Retune, KeepChannel
  <2> HIDE DEF off, success
  <2>4. /\ calls' \in Seq(MacCalls) /\ HopRunsFirst'
        /\ calls' # <<>> => Head(calls').op # Hop
    BY <1>0, <1>1, <2>2, <2>3, StackStep DEF ChannelInv
  <2>5. currentChannel' = Arg
    BY <1>2 DEF Retune, KeepChannel
  <2>6. ChannelInv'
    BY <1>0, <2>4, <2>5 DEF ChannelInv
  <2>7. PhyTypeOK'
    BY <1>2 DEF Retune, KeepChannel, PhyTypeOK
  <2> QED
    BY <2>4, <2>6, <2>7
<1>3. CASE RetuneOutOfBand
  BY <1>3 DEF RetuneOutOfBand, Abort, PhyTypeOK, ChannelInv, HopRunsFirst, Arg
<1> QED
  BY <1>2, <1>3 DEF PlmeSetAttributeRequest

\* Every call of the PHY.
LEMMA PhyCallsTypes ==
  ASSUME PhyTypeOK, calls \in Seq(MacCalls), ChannelInv, PhyCalls, UNCHANGED gts
  PROVE  PhyTypeOK' /\ calls' \in Seq(MacCalls) /\ ChannelInv'
<1>1. CASE PlmeSetAttributeRequest
  BY <1>1, HopStep
<1>2. CASE ~PlmeSetAttributeRequest
  <2>1. PhyTypeOK' /\ CallStep
    BY <1>2, SetTRXTypes, PdDataTypes, SenseTypes, TailTypes DEF PhyCalls
  <2>2. calls # <<>> /\ Head(calls).op # Hop
    BY <1>2 DEF PhyCalls, PlmeSetTRXStateRequest, PdDataRequest, CancelPdDataRequest,
                PlmeCcaRequest, CcaCancel, PlmeEdRequest, EndTxTail, EndRxTail, Running, Hop
  <2> QED
    BY <2>1, <2>2, CallStepChannel
<1> QED
  BY <1>1, <1>2

\* The events of the PHY's timers.
LEMMA TimerTypes ==
  ASSUME PhyTypeOK, EndSetTRXState \/ EndCca \/ EndTx
  PROVE  /\ PhyTypeOK' /\ calls = <<>> /\ calls' \in Seq(Others)
         /\ UNCHANGED currentChannel
<1> USE DEF PhyTypeOK
<1> USE DEF radioVars, rxVars, txVars, senseVars, TrxStates, PendingStates, Dispatch
<1>0. <<>> \in Seq(Others)
  OBVIOUS
<1>1. CASE EndSetTRXState
  <2>1. calls' = <<>> \/ (trxStatePending \in {"RX_ON", "TX_ON"}
                          /\ calls' = Confirm(trxStatePending))
    BY <1>1 DEF EndSetTRXState, Abort
  <2>2. calls' \in Seq(Others)
    BY <1>0, <2>1, SmallLists DEF Statuses
  <2>3. PhyTypeOK'
    BY <1>1, ZenonT(60) DEF EndSetTRXState, Abort
  <2> QED
    BY <1>1, <2>2, <2>3 DEF EndSetTRXState
<1>2. CASE EndCca
  <2>1. PICK sensed \in {"IDLE", "BUSY"} : calls' = <<Call("PlmeCcaConfirm", sensed)>>
    BY <1>2 DEF EndCca
  <2>2. calls' \in Seq(Others)
    BY <2>1, OneCall DEF PhyCallbacks, CallArgs, Statuses, Hop
  <2>3. ccaRequest' \in BOOLEAN
    BY <1>2 DEF EndCca
  <2>4. PhyTypeOK'
    BY <1>2, <2>3 DEF EndCca
  <2> QED
    BY <1>2, <2>2, <2>4 DEF EndCca
<1>3. CASE EndTx
  <2>1. pdDataRequest' \in BOOLEAN /\ staleEndTx' \in Nat
    <3>1. EndTxFires /\ pdDataRequest \in BOOLEAN /\ staleEndTx \in Nat
      BY <1>3 DEF EndTx
    <3>2. CASE pdDataRequest /\ pdDataRequest' = FALSE /\ UNCHANGED staleEndTx
      BY <3>1, <3>2
    <3>3. CASE staleEndTx > 0 /\ staleEndTx' = staleEndTx - 1 /\ UNCHANGED pdDataRequest
      BY <3>1, <3>3
    <3> QED
      BY <3>1, <3>2, <3>3 DEF EndTxFires
  <2>2. CASE EndTxIgnored
    BY <1>0, <1>3, <2>1, <2>2 DEF EndTx, EndTxIgnored
  <2>3. CASE EndTxReported
    <3> DEFINE status == IF currentTxPacket.second THEN trxState ELSE "SUCCESS"
    <3>1. status \in CallArgs /\ NONE \in CallArgs
      BY DEF CallArgs, Statuses
    <3>2. Call("PdDataConfirm", status) \in Others /\ Call("EndTxTail", NONE) \in Others
      BY <3>1, OneCall DEF PhyCallbacks, PhyInternal, Hop
    <3>3. calls' = <<Call("PdDataConfirm", status), Call("EndTxTail", NONE)>>
      BY <2>3 DEF EndTxReported
    <3> HIDE DEF status
    <3>4. calls' \in Seq(Others)
      BY <3>2, <3>3
    <3>5. aborted' \in BOOLEAN
      BY <2>3 DEF EndTxReported
    <3>6. PhyTypeOK'
      BY <1>3, <2>1, <2>3, <3>5 DEF EndTx, EndTxReported
    <3> QED
      BY <1>3, <3>4, <3>6 DEF EndTx
  <2> QED
    BY <1>3, <2>2, <2>3 DEF EndTx
<1> QED
  BY <1>1, <1>2, <1>3

\* A signal begins or ends.
LEMMA SignalTypes ==
  ASSUME PhyTypeOK, NEW s \in Signals, StartRx(s) \/ EndRx(s)
  PROVE  /\ PhyTypeOK' /\ calls = <<>> /\ calls' \in Seq(Others)
         /\ UNCHANGED currentChannel
<1> USE DEF PhyTypeOK
<1> USE DEF radioVars, rxVars, txVars, senseVars, TrxStates, PendingStates, Dispatch
<1>0. <<>> \in Seq(Others)
  OBVIOUS
<1>1. CASE StartRx(s)
  <2>1. calls = <<>> /\ calls' = <<>> /\ signals' \subseteq Signals
    BY <1>1 DEF StartRx
  <2>2. CASE LockOn(s)
    BY <1>0, <1>1, <2>1, <2>2 DEF StartRx, LockOn
  <2>3. CASE Collide
    BY <1>0, <1>1, <2>1, <2>3 DEF StartRx, Collide
  <2>4. CASE IgnoreSignal
    BY <1>0, <1>1, <2>1, <2>4 DEF StartRx, IgnoreSignal
  <2> QED
    BY <1>1, <2>2, <2>3, <2>4 DEF StartRx
<1>2. CASE EndRx(s) /\ currentRxPacket.first = s
  <2> DEFINE up == <<Call("PdDataIndication", s)>>
             tail == <<Call("EndRxTail", NONE)>>
  <2>1. up \in Seq(Others) /\ tail \in Seq(Others)
    BY OneCall DEF PhyCallbacks, PhyInternal, CallArgs, Hop
  <2>2. PICK destroyed \in BOOLEAN :
          /\ currentRxPacket' = [currentRxPacket EXCEPT !.second = @ \/ destroyed]
          /\ calls' = (IF currentRxPacket'.second THEN <<>> ELSE up) \o tail
    BY <1>2 DEF EndRx
  <2> HIDE DEF up, tail
  <2>3. calls' \in Seq(Others)
    <3>1. (IF currentRxPacket'.second THEN <<>> ELSE up) \in Seq(Others)
      BY <1>0, <2>1
    <3> QED
      BY <2>1, <2>2, <3>1, ConcatProperties
  <2>4. PhyTypeOK'
    BY <1>2, <2>2 DEF EndRx
  <2> QED
    BY <1>2, <2>3, <2>4 DEF EndRx
<1>3. CASE EndRx(s) /\ currentRxPacket.first # s
  BY <1>0, <1>3 DEF EndRx
<1> QED
  BY <1>1, <1>2, <1>3

-----------------------------------------------------------------------------
(* The steps of the MAC *)

\* The types of the MAC's own variables.
MacLocal ==
  /\ macState \in MacStates
  /\ txPkt \in Packets \cup {NONE}
  /\ txQueue \in Seq(Packets) /\ Len(txQueue) <= MaxTxQueueSize
  /\ setMacState \in {"MAC_IDLE", "MAC_CSMA", "MAC_ACK_PENDING", "MAC_GTS", NONE}
  /\ ifsEvent \in {"SIFS", "LIFS", NONE}
  /\ cap \in BOOLEAN /\ startCap \in BOOLEAN
  /\ gts \in {"RX", "TX", NONE}
  /\ csmaEvent \in CsmaEvents \cup {NONE}
  /\ endCapEvent \in BOOLEAN
  /\ csmaNB \in 0..MaxCSMABackoffs + 1
  /\ csmaCW \in Uint8
  /\ ccaRequestRunning \in BOOLEAN
  /\ GivenUp

\* All that the proof maintains.
MacInv == PhyTypeOK /\ calls \in Seq(MacCalls) /\ MacLocal /\ ChannelInv

\* CheckQueue sets a packet of the queue and MAC_CSMA, or nothing.
LEMMA CheckQueueTypes ==
  ASSUME MacLocal, NEW q \in Seq(Packets), NEW ifs, CheckQueue(q, ifs)
  PROVE  /\ txPkt' \in Packets \cup {NONE}
         /\ setMacState' \in {"MAC_IDLE", "MAC_CSMA", "MAC_ACK_PENDING", "MAC_GTS", NONE}
<1>1. CASE MayServe(ifs) /\ q # <<>>
  <2>1. Head(q) \in Packets
    BY <1>1, HeadTailProperties
  <2> QED
    BY <1>1, <2>1 DEF CheckQueue
<1>2. CASE ~(MayServe(ifs) /\ q # <<>>)
  BY <1>2 DEF CheckQueue, MacLocal
<1> QED
  BY <1>1, <1>2

\* A handler of a callback leaves the PHY alone and replaces its call.
LEMMA HandlerInv ==
  ASSUME MacInv, calls # <<>>, Head(calls).op # Hop, UNCHANGED <<phyState, gts>>,
         aborted' \in BOOLEAN, UNCHANGED calls \/ \E made \in Seq(Others) : Returns(made),
         MacLocal'
  PROVE  MacInv'
<1>1. CallStep
  BY DEF CallStep, phyState
<1>2. calls' \in Seq(MacCalls) /\ ChannelInv'
  BY <1>1, CallStepChannel DEF MacInv
<1>3. PhyTypeOK'
  BY DEF MacInv, PhyTypeOK, phyState, radioVars, rxVars, txVars, senseVars
<1> QED
  BY <1>2, <1>3 DEF MacInv

\* An event of the MAC leaves the PHY alone and makes calls.
LEMMA EventInv ==
  ASSUME MacInv, calls = <<>>, UNCHANGED <<phyState, gts>>,
         aborted' \in BOOLEAN, calls' \in Seq(Others), MacLocal'
  PROVE  MacInv'
<1>1. UNCHANGED <<currentChannel, gts>>
  BY DEF phyState
<1>2. calls' \in Seq(MacCalls) /\ ChannelInv'
  BY <1>1, EventChannel DEF MacInv
<1>3. PhyTypeOK'
  BY DEF MacInv, PhyTypeOK, phyState, radioVars, rxVars, txVars, senseVars
<1> QED
  BY <1>2, <1>3 DEF MacInv

\* The confirm of a change of the transceiver's state.
LEMMA SetTRXConfirmInv ==
  ASSUME MacInv, PlmeSetTRXStateConfirm
  PROVE  MacInv'
<1> USE DEF queueVars, frameVars, csmaVars
<1>0. /\ calls # <<>> /\ Head(calls).op # Hop /\ UNCHANGED <<phyState, gts>>
      /\ aborted \in BOOLEAN /\ MacLocal
  BY DEF PlmeSetTRXStateConfirm, Running, Hop, MacInv, PhyTypeOK
<1>1. UNCHANGED <<macState, ifsEvent, cap, startCap>>
  BY DEF PlmeSetTRXStateConfirm
<1>2. CASE SendPacket
  <2>1. aborted' \in BOOLEAN
    BY <1>0, <1>2 DEF SendPacket, Abort
  <2>2. UNCHANGED calls \/ \E made \in Seq(Others) : Returns(made)
    <3>1. CASE txPkt = NONE
      BY <1>2, <3>1 DEF SendPacket, Abort
    <3>2. CASE txPkt # NONE
      <4>1. <<Call("PdDataRequest", txPkt)>> \in Seq(Others)
        BY <1>0, <3>2, OneCall DEF MacLocal, PhyRequests, CallArgs, Hop
      <4> QED
        BY <1>2, <3>2, <4>1 DEF SendPacket
    <3> QED
      BY <3>1, <3>2
  <2>3. MacLocal'
    BY <1>0, <1>1, <1>2 DEF SendPacket, MacLocal, GivenUp
  <2> QED
    BY <1>0, <2>1, <2>2, <2>3, HandlerInv
<1>3. CASE StartCsma
  <2>1. aborted' \in BOOLEAN /\ Returns(<<>>)
    BY <1>0, <1>3 DEF StartCsma
  <2>2. csmaNB' \in 0..MaxCSMABackoffs + 1 /\ ~(csmaNB' > MaxCSMABackoffs)
    BY <1>3, MacConstants DEF StartCsma
  <2>3. csmaCW' \in Uint8
    BY <1>0, <1>3, SMT DEF StartCsma, MacLocal, Uint8
  <2>4. MacLocal'
    BY <1>0, <1>1, <1>3, <2>2, <2>3 DEF StartCsma, MacLocal, GivenUp, CsmaEvents
  <2> QED
    BY <1>0, <2>1, <2>4, HandlerInv, SmallLists
<1>4. CASE IdleAgain
  <2>1. aborted' \in BOOLEAN
    BY <1>0, <1>4 DEF IdleAgain, Abort
  <2>2. UNCHANGED calls \/ Returns(<<>>)
    BY <1>4 DEF IdleAgain, Abort
  <2>3. /\ txPkt' \in Packets \cup {NONE}
        /\ setMacState' \in {"MAC_IDLE", "MAC_CSMA", "MAC_ACK_PENDING", "MAC_GTS", NONE}
    <3>1. CASE CheckQueue(txQueue, ifsEvent)
      BY <1>0, <3>1, CheckQueueTypes DEF MacLocal
    <3>2. CASE UNCHANGED <<txPkt, setMacState>>
      BY <1>0, <3>2 DEF MacLocal
    <3> QED
      BY <1>4, <3>1, <3>2 DEF IdleAgain
  <2>4. MacLocal'
    BY <1>0, <1>1, <1>4, <2>3 DEF IdleAgain, MacLocal, GivenUp
  <2> QED
    BY <1>0, <2>1, <2>2, <2>4, HandlerInv, SmallLists
<1>5. CASE NothingToDo
  <2>1. aborted' \in BOOLEAN
    BY <1>0, <1>5 DEF NothingToDo, Abort
  <2>2. UNCHANGED calls \/ Returns(<<>>)
    BY <1>5 DEF NothingToDo, Abort
  <2>3. MacLocal'
    BY <1>0, <1>1, <1>5 DEF NothingToDo, MacLocal, GivenUp
  <2> QED
    BY <1>0, <2>1, <2>2, <2>3, HandlerInv, SmallLists
<1> QED
  BY <1>2, <1>3, <1>4, <1>5 DEF PlmeSetTRXStateConfirm

\* The end of a transmission: the queue only gets shorter.
LEMMA DataConfirmInv ==
  ASSUME MacInv, PdDataConfirm
  PROVE  MacInv'
<1> USE DEF queueVars, frameVars, csmaVars
<1>0. /\ calls # <<>> /\ Head(calls).op # Hop /\ UNCHANGED <<phyState, gts>>
      /\ aborted \in BOOLEAN /\ MacLocal
  BY DEF PdDataConfirm, Running, Hop, MacInv, PhyTypeOK
<1>1. UNCHANGED <<macState, cap, startCap, csmaEvent, endCapEvent, csmaNB, csmaCW,
                  ccaRequestRunning>>
  BY DEF PdDataConfirm
<1>2. CASE ConfirmFails
  <2>1. Abort /\ UNCHANGED <<txPkt, txQueue, setMacState, ifsEvent>>
    BY <1>2 DEF PdDataConfirm
  <2>2. MacLocal'
    BY <1>0, <1>1, <2>1 DEF MacLocal, GivenUp
  <2> QED
    BY <1>0, <2>1, <2>2, HandlerInv DEF Abort
<1>3. CASE ~ConfirmFails
  <2>1. Returns(<<>>) /\ aborted' \in BOOLEAN
    BY <1>0, <1>3 DEF PdDataConfirm
  <2>2. setMacState' \in {"MAC_IDLE", "MAC_CSMA", "MAC_ACK_PENDING", "MAC_GTS", NONE}
    BY <1>3 DEF PdDataConfirm, SentWithAckReq, SentWithoutAckReq, NotSent, BackToPeriod
  <2>3. ifsEvent' \in {"SIFS", "LIFS", NONE}
    BY <1>0, <1>3 DEF PdDataConfirm, SentWithAckReq, SentWithoutAckReq, NotSent, GetIfsSize,
                      MacLocal
  <2>4. /\ txPkt' \in Packets \cup {NONE} /\ txQueue' \in Seq(Packets)
        /\ Len(txQueue') <= MaxTxQueueSize
    <3>1. CASE SentWithAckReq \/ NotSent
      BY <1>0, <3>1 DEF SentWithAckReq, NotSent, MacLocal
    <3>2. CASE SentWithoutAckReq
      <4>1. txQueue \in Seq(Packets) /\ txQueue # <<>>
        BY <1>0, <1>3, <3>2 DEF ConfirmFails, SentWithoutAckReq, MacLocal
      <4>2. Tail(txQueue) \in Seq(Packets) /\ Len(Tail(txQueue)) = Len(txQueue) - 1
        BY <4>1, HeadTailProperties
      <4>3. Len(txQueue) \in Nat /\ MaxTxQueueSize \in Nat /\ Len(txQueue) <= MaxTxQueueSize
        BY <1>0, <4>1, MacConstants DEF MacLocal
      <4> QED
        BY <3>2, <4>2, <4>3 DEF SentWithoutAckReq, RemoveFirstTxQElement
    <3> QED
      BY <1>3, <3>1, <3>2 DEF PdDataConfirm
  <2>5. MacLocal'
    BY <1>0, <1>1, <2>2, <2>3, <2>4 DEF MacLocal, GivenUp
  <2> QED
    BY <1>0, <2>1, <2>5, HandlerInv, SmallLists
<1> QED
  BY <1>2, <1>3

\* The reception of a frame.
LEMMA DataIndicationInv ==
  ASSUME MacInv, PdDataIndication
  PROVE  MacInv'
<1> USE DEF queueVars
<1>0. /\ calls # <<>> /\ Head(calls).op # Hop /\ UNCHANGED <<phyState, gts>>
      /\ aborted \in BOOLEAN /\ MacLocal
  BY DEF PdDataIndication, Running, Hop, MacInv, PhyTypeOK
<1>1. UNCHANGED <<txQueue, cap, endCapEvent, csmaNB, csmaCW, ccaRequestRunning>>
  BY DEF PdDataIndication
<1>2. <<Call("CcaCancel", NONE)>> \in Seq(Others) /\ <<>> \in Seq(Others)
  BY OneCall, SmallLists DEF PhyRequests, CallArgs, Hop
<1>3. CASE BeaconReceived /\ UNCHANGED aborted
  <2>1. MacLocal'
    BY <1>0, <1>1, <1>3 DEF BeaconReceived, MacLocal, GivenUp
  <2> QED
    BY <1>0, <1>2, <1>3, <2>1, HandlerInv DEF BeaconReceived
<1>4. CASE AckReqReceived /\ UNCHANGED aborted
  <2>1. MacLocal'
    BY <1>0, <1>1, <1>4 DEF AckReqReceived, MacLocal, GivenUp, MacStates
  <2> QED
    BY <1>0, <1>2, <1>4, <2>1, HandlerInv DEF AckReqReceived
<1>5. CASE OtherReceived /\ UNCHANGED aborted
  <2>1. MacLocal'
    BY <1>0, <1>1, <1>5 DEF OtherReceived, MacLocal, GivenUp
  <2> QED
    BY <1>0, <1>2, <1>5, <2>1, HandlerInv DEF OtherReceived
<1>6. CASE Abort /\ UNCHANGED <<macState, txPkt, setMacState, ifsEvent, csmaEvent, startCap>>
  <2>1. MacLocal'
    BY <1>0, <1>1, <1>6 DEF MacLocal, GivenUp
  <2> QED
    BY <1>0, <1>6, <2>1, HandlerInv DEF Abort
<1>7. CASE GackReceived /\ UNCHANGED aborted
  <2>1. MacLocal'
    BY <1>0, <1>1, <1>7 DEF GackReceived, MacLocal, GivenUp
  <2> QED
    BY <1>0, <1>2, <1>7, <2>1, HandlerInv DEF GackReceived
<1> QED
  BY <1>3, <1>4, <1>5, <1>6, <1>7 DEF PdDataIndication

\* The confirm of a CCA: a busy channel is counted only while the round is on.
LEMMA CcaConfirmInv ==
  ASSUME MacInv, PlmeCcaConfirm
  PROVE  MacInv'
<1> USE DEF queueVars, frameVars
<1>0. /\ calls # <<>> /\ Head(calls).op # Hop /\ UNCHANGED <<phyState, gts>>
      /\ aborted' \in BOOLEAN /\ MacLocal
  BY DEF PlmeCcaConfirm, Running, Hop, MacInv, PhyTypeOK
<1>1. /\ UNCHANGED <<txPkt, txQueue, setMacState, ifsEvent, cap, startCap, endCapEvent>>
      /\ ccaRequestRunning' = FALSE
  BY DEF PlmeCcaConfirm
<1>2. <<>> \in Seq(Others) /\ Turn("TX_ON") \in Seq(Others)
  BY SmallLists DEF TrxRequests
<1>3. MaxCSMABackoffs \in Nat /\ csmaNB \in Nat /\ csmaCW \in Uint8
  BY <1>0, MacConstants, SMT DEF MacLocal
<1>4. CASE ChannelIdle
  <2>1. Returns(<<>>) \/ Returns(Turn("TX_ON"))
    BY <1>4 DEF ChannelIdle
  <2>2. macState' \in MacStates /\ csmaCW' \in Uint8 /\ UNCHANGED <<csmaEvent, csmaNB>>
    BY <1>0, <1>3, <1>4, SMT DEF ChannelIdle, MacLocal, MacStates, Uint8
  <2>3. MacLocal'
    BY <1>0, <1>1, <2>2 DEF MacLocal, GivenUp
  <2> QED
    BY <1>0, <1>2, <2>1, <2>3, HandlerInv
<1>5. CASE CcaAgain
  <2>1. csmaCW' \in Uint8
    BY <1>3, <1>5, SMT DEF CcaAgain, Uint8
  <2>2. ~(csmaNB > MaxCSMABackoffs)
    BY <1>0, <1>5 DEF CcaAgain, MacLocal, GivenUp
  <2>3. MacLocal'
    BY <1>0, <1>1, <1>5, <2>1, <2>2 DEF CcaAgain, MacLocal, GivenUp, CsmaEvents
  <2> QED
    BY <1>0, <1>2, <1>5, <2>3, HandlerInv DEF CcaAgain
<1>6. CASE ChannelBusy
  <2>1. csmaNB <= MaxCSMABackoffs
    BY <1>0, <1>3, <1>6 DEF ChannelBusy, MacLocal, GivenUp
  <2>2. csmaNB' = csmaNB + 1 /\ csmaNB' \in 0..MaxCSMABackoffs + 1
    BY <1>3, <1>6, <2>1 DEF ChannelBusy
  <2>3. csmaCW' \in Uint8
    BY <1>3, <1>6, SMT DEF ChannelBusy, Uint8
  <2>4. csmaEvent' \in CsmaEvents \cup {NONE} /\ (csmaNB' > MaxCSMABackoffs => csmaEvent' = NONE)
    BY <1>6 DEF ChannelBusy, CsmaEvents
  <2>5. MacLocal'
    BY <1>0, <1>1, <1>6, <2>2, <2>3, <2>4 DEF ChannelBusy, MacLocal, GivenUp
  <2> QED
    BY <1>0, <1>2, <1>6, <2>5, HandlerInv DEF ChannelBusy
<1>7. CASE CcaIgnored
  <2>1. MacLocal'
    BY <1>0, <1>1, <1>7 DEF CcaIgnored, MacLocal, GivenUp
  <2> QED
    BY <1>0, <1>2, <1>7, <2>1, HandlerInv DEF CcaIgnored
<1> QED
  BY <1>4, <1>5, <1>6, <1>7 DEF PlmeCcaConfirm

\* The confirm of a hop, and the parts of StartGTS and EndGTS after it.
LEMMA SlotCallsInv ==
  ASSUME MacInv, PlmeSetAttributeConfirm \/ EnterGts \/ ContinueSending \/ LeaveGts
  PROVE  MacInv'
<1> USE DEF queueVars, frameVars, csmaVars
<1>0. /\ calls # <<>> /\ Head(calls).op # Hop /\ UNCHANGED <<phyState, gts>>
      /\ aborted' \in BOOLEAN /\ MacLocal
  BY DEF PlmeSetAttributeConfirm, EnterGts, ContinueSending, LeaveGts, Running, Hop, MacInv,
         PhyTypeOK, macVars
<1>1. CASE PlmeSetAttributeConfirm
  <2>1. MacLocal'
    BY <1>0, <1>1 DEF PlmeSetAttributeConfirm, macVars, MacLocal, GivenUp
  <2> QED
    BY <1>0, <1>1, <2>1, HandlerInv, SmallLists DEF PlmeSetAttributeConfirm
<1>2. CASE EnterGts
  <2> DEFINE turn == Turn(IF gts = "TX" THEN "TX_ON" ELSE "RX_ON")
             rest == <<Call("ContinueSending", NONE)>>
  <2>1. turn \in Seq(Others)
    BY SmallLists DEF TrxRequests
  <2>2. rest \in Seq(Others)
    BY OneCall DEF MacInternal, CallArgs, Hop
  <2>3. Returns(turn \o rest)
    BY <1>2 DEF EnterGts
  <2>4. turn \o rest \in Seq(Others)
    BY <2>1, <2>2, ConcatProperties
  <2> HIDE DEF turn, rest
  <2>5. MacLocal'
    BY <1>0, <1>2 DEF EnterGts, MacLocal, GivenUp, MacStates
  <2> QED
    BY <1>0, <2>3, <2>4, <2>5, HandlerInv
<1>3. CASE ContinueSending
  <2>1. txPkt' \in Packets \cup {NONE}
    <3>1. CASE ContinueFromCap /\ txQueue # <<>>
      <4>1. Head(txQueue) \in Packets
        BY <1>0, <3>1, HeadTailProperties DEF MacLocal
      <4> QED
        BY <1>3, <3>1, <4>1 DEF ContinueSending
    <3>2. CASE ~(ContinueFromCap /\ txQueue # <<>>)
      BY <1>0, <1>3, <3>2 DEF ContinueSending, MacLocal
    <3> QED
      BY <3>1, <3>2
  <2>2. Returns(Turn("TX_ON")) \/ Returns(<<>>)
    BY <1>3 DEF ContinueSending
  <2>3. macState' \in MacStates
    BY <1>0, <1>3 DEF ContinueSending, MacLocal, MacStates
  <2>4. MacLocal'
    BY <1>0, <1>3, <2>1, <2>3 DEF ContinueSending, MacLocal, GivenUp
  <2> QED
    BY <1>0, <2>2, <2>4, HandlerInv, SmallLists DEF TrxRequests
<1>4. CASE LeaveGts
  <2>1. <<Call("CancelPdDataRequest", NONE)>> \in Seq(Others)
    BY OneCall DEF PhyRequests, CallArgs, Hop
  <2>2. MacLocal'
    BY <1>0, <1>4 DEF LeaveGts, MacLocal, GivenUp
  <2> QED
    BY <1>0, <1>4, <2>1, <2>2, HandlerInv DEF LeaveGts
<1> QED
  BY <1>1, <1>2, <1>3, <1>4

\* The events of the present instant, and the requests of the higher layer.
LEMMA NowInv ==
  ASSUME MacInv,
         \/ SetLrWpanMacState \/ StartCAP
         \/ \E p \in Packets : McpsDataRequestDirect(p) \/ McpsDataRequestGts(p)
  PROVE  MacInv'
<1> USE DEF queueVars, frameVars, csmaVars
<1>0. calls = <<>> /\ UNCHANGED <<phyState, gts>> /\ aborted \in BOOLEAN /\ MacLocal
  BY DEF SetLrWpanMacState, StartCAP, McpsDataRequestDirect, McpsDataRequestGts, Event,
         Dispatch, MacInv, PhyTypeOK, phyVars, phyState
<1>1. <<>> \in Seq(Others)
  OBVIOUS
<1>2. CASE SetLrWpanMacState
  <2> DEFINE state == CASE setMacState = "MAC_IDLE" -> IdleState
                        [] setMacState = "MAC_GTS" /\ gts = "TX" -> "TX_ON"
                        [] OTHER -> "RX_ON"
  <2>1. Turn(state) \in Seq(Others)
    <3>1. state \in TrxRequests
      BY DEF TrxRequests, IdleState
    <3> HIDE DEF state
    <3> QED
      BY <3>1, SmallLists
  <2>2. calls' = calls \/ calls' = Turn(state)
    BY <1>2 DEF SetLrWpanMacState, Abort
  <2> HIDE DEF state
  <2>3. aborted' \in BOOLEAN
    BY <1>0, <1>2 DEF SetLrWpanMacState, Abort
  <2>4. /\ macState' \in MacStates
        /\ setMacState' \in {"MAC_IDLE", "MAC_CSMA", "MAC_ACK_PENDING", "MAC_GTS", NONE}
    BY <1>0, <1>2 DEF SetLrWpanMacState, MacLocal, MacStates
  <2>5. MacLocal'
    BY <1>0, <1>2, <2>4 DEF SetLrWpanMacState, MacLocal, GivenUp
  <2> QED
    BY <1>0, <1>1, <2>1, <2>2, <2>3, <2>5, EventInv
<1>3. CASE StartCAP
  <2>1. MacLocal'
    BY <1>0, <1>3 DEF StartCAP, MacLocal, GivenUp
  <2>2. calls' = calls /\ aborted' = aborted
    BY <1>3 DEF StartCAP, phyVars
  <2> QED
    BY <1>0, <1>1, <2>1, <2>2, EventInv
<1>4. ASSUME NEW p \in Packets, McpsDataRequestDirect(p) PROVE MacInv'
  <2>1. txQueue' \in Seq(Packets) /\ Len(txQueue') <= MaxTxQueueSize
    <3>1. /\ txQueue \in Seq(Packets) /\ Len(txQueue) <= MaxTxQueueSize
          /\ MaxTxQueueSize \in Nat
      BY <1>0, MacConstants DEF MacLocal
    <3>2. /\ Append(txQueue, p) \in Seq(Packets)
          /\ Len(Append(txQueue, p)) = Len(txQueue) + 1
      BY <3>1, AppendProperties
    <3>3. Len(txQueue) \in Nat
      BY <3>1
    <3> QED
      BY <1>4, <3>1, <3>2, <3>3 DEF McpsDataRequestDirect, EnqueueTxQElement
  <2>2. CheckQueue(txQueue', ifsEvent)
    BY <1>4 DEF McpsDataRequestDirect
  <2>3. /\ txPkt' \in Packets \cup {NONE}
        /\ setMacState' \in {"MAC_IDLE", "MAC_CSMA", "MAC_ACK_PENDING", "MAC_GTS", NONE}
    BY <1>0, <2>1, <2>2, CheckQueueTypes
  <2>4. MacLocal'
    BY <1>0, <1>4, <2>1, <2>3 DEF McpsDataRequestDirect, MacLocal, GivenUp
  <2>5. calls' = calls /\ aborted' = aborted
    BY <1>4 DEF McpsDataRequestDirect, phyVars
  <2> QED
    BY <1>0, <1>1, <2>4, <2>5, EventInv
<1>5. ASSUME NEW p \in Packets, McpsDataRequestGts(p) PROVE MacInv'
  <2>1. MacLocal'
    BY <1>0, <1>5 DEF McpsDataRequestGts, MacLocal, GivenUp, MacStates
  <2>2. calls' \in Seq(Others)
    BY <1>5, SmallLists DEF McpsDataRequestGts, TrxRequests
  <2>3. aborted' = aborted
    BY <1>5 DEF McpsDataRequestGts
  <2> QED
    BY <1>0, <2>1, <2>2, <2>3, EventInv
<1> QED
  BY <1>2, <1>3, <1>4, <1>5

\* The timers of CSMA-CA and the end of an IFS.
LEMMA MacTimerInv ==
  ASSUME MacInv, MacTimer
  PROVE  MacInv'
<1> USE DEF queueVars, frameVars, csmaVars
<1>0. calls = <<>> /\ UNCHANGED <<phyState, gts>> /\ aborted \in BOOLEAN /\ MacLocal
  BY DEF MacTimer, CsmaTimer, RandomBackoffDelay, CanProceed, RequestCCA, DeferCsmaTimeout,
         IfsWaitTimeout, Event, Dispatch, MacInv, PhyTypeOK, phyVars, phyState
<1>1. <<>> \in Seq(Others)
  OBVIOUS
<1>2. CASE RandomBackoffDelay
  <2>1. NONE # "randomBackoff"
    BY MacConstants DEF CsmaEvents
  <2>2. csmaNB' = csmaNB /\ ~(csmaNB > MaxCSMABackoffs) /\ UNCHANGED ccaRequestRunning
    BY <1>0, <1>2, <2>1 DEF RandomBackoffDelay, MacLocal, GivenUp
  <2>3. csmaEvent' \in CsmaEvents \cup {NONE} /\ endCapEvent' \in BOOLEAN
    BY <1>0, <1>2 DEF RandomBackoffDelay, CsmaEvents, MacLocal
  <2>4. MacLocal'
    BY <1>0, <1>2, <2>2, <2>3 DEF RandomBackoffDelay, MacLocal, GivenUp
  <2>5. calls' = calls /\ aborted' = aborted
    BY <1>2 DEF RandomBackoffDelay, phyVars
  <2> QED
    BY <1>0, <1>1, <2>4, <2>5, EventInv
<1>3. CASE CanProceed
  <2>1. NONE # "canProceed"
    BY MacConstants DEF CsmaEvents
  <2>2. csmaNB' = csmaNB /\ ~(csmaNB > MaxCSMABackoffs) /\ UNCHANGED ccaRequestRunning
    BY <1>0, <1>3, <2>1 DEF CanProceed, MacLocal, GivenUp
  <2>3. csmaEvent' \in CsmaEvents \cup {NONE} /\ endCapEvent' \in BOOLEAN
    BY <1>0, <1>3 DEF CanProceed, CsmaEvents, MacLocal
  <2>4. MacLocal'
    BY <1>0, <1>3, <2>2, <2>3 DEF CanProceed, MacLocal, GivenUp
  <2>5. calls' = calls /\ aborted' \in BOOLEAN
    BY <1>0, <1>3 DEF CanProceed
  <2> QED
    BY <1>0, <1>1, <2>4, <2>5, EventInv
<1>4. CASE RequestCCA
  <2>1. NONE # "requestCca"
    BY MacConstants DEF CsmaEvents
  <2>2. csmaNB' = csmaNB /\ ~(csmaNB > MaxCSMABackoffs) /\ ccaRequestRunning' = TRUE
    BY <1>0, <1>4, <2>1 DEF RequestCCA, MacLocal, GivenUp
  <2>3. MacLocal'
    BY <1>0, <1>4, <2>2 DEF RequestCCA, MacLocal, GivenUp
  <2>4. calls' \in Seq(Others)
    BY <1>4, OneCall DEF RequestCCA, PhyRequests, CallArgs, Hop
  <2>5. aborted' = aborted
    BY <1>4 DEF RequestCCA
  <2> QED
    BY <1>0, <2>3, <2>4, <2>5, EventInv
<1>5. CASE DeferCsmaTimeout
  <2>1. macState' \in MacStates /\ txPkt' \in Packets \cup {NONE}
    BY <1>0, <1>5 DEF DeferCsmaTimeout, MacLocal, MacStates
  <2>2. MacLocal'
    BY <1>0, <1>5, <2>1 DEF DeferCsmaTimeout, MacLocal, GivenUp
  <2>3. calls' = calls /\ aborted' = aborted
    BY <1>5 DEF DeferCsmaTimeout, phyVars
  <2> QED
    BY <1>0, <1>1, <2>2, <2>3, EventInv
<1>6. CASE IfsWaitTimeout
  <2>1. UNCHANGED <<txQueue, cap, startCap, csmaEvent, endCapEvent, csmaNB, csmaCW,
                    ccaRequestRunning, aborted>> /\ ifsEvent' = NONE
    BY <1>6 DEF IfsWaitTimeout
  <2> DEFINE Typed ==
        /\ macState' \in MacStates /\ calls' \in Seq(Others)
        /\ txPkt' \in Packets \cup {NONE}
        /\ setMacState' \in {"MAC_IDLE", "MAC_CSMA", "MAC_ACK_PENDING", "MAC_GTS", NONE}
  <2>2. Typed
    <3>1. ASSUME CheckQueue(txQueue, NONE), UNCHANGED calls,
                 macState' = "MAC_GTS" \/ macState' = macState
          PROVE  Typed
      <4>1. /\ txPkt' \in Packets \cup {NONE}
            /\ setMacState' \in {"MAC_IDLE", "MAC_CSMA", "MAC_ACK_PENDING", "MAC_GTS", NONE}
        BY <1>0, <3>1, CheckQueueTypes DEF MacLocal
      <4>2. calls' \in Seq(Others)
        BY <1>0, <1>1, <3>1
      <4> QED
        BY <1>0, <3>1, <4>1, <4>2 DEF MacLocal, MacStates
    <3>2. ASSUME txQueue # <<>>, txPkt' = Head(txQueue), UNCHANGED setMacState,
                 macState' \in {"MAC_GTS_SENDING", "MAC_GTS"},
                 calls' = Turn("TX_ON") \/ calls' = <<>>
          PROVE  Typed
      <4>1. Head(txQueue) \in Packets
        BY <1>0, <3>2, HeadTailProperties DEF MacLocal
      <4>2. calls' \in Seq(Others)
        BY <1>1, <3>2, SmallLists DEF TrxRequests
      <4> QED
        BY <1>0, <3>2, <4>1, <4>2 DEF MacLocal, MacStates
    <3> QED
      BY <1>6, <3>1, <3>2 DEF IfsWaitTimeout
  <2>3. MacLocal'
    BY <1>0, <2>1, <2>2 DEF MacLocal, GivenUp
  <2> QED
    BY <1>0, <2>1, <2>2, <2>3, EventInv
<1> QED
  BY <1>2, <1>3, <1>4, <1>5, <1>6 DEF MacTimer, CsmaTimer

\* The CFP, its slots and their hops: StartGTS and EndGTS run with an empty
\* stack, so their request to hop is the first call on it.
LEMMA SuperframeInv ==
  ASSUME MacInv, Superframe
  PROVE  MacInv'
<1> USE DEF queueVars, frameVars, csmaVars
<1>0. calls = <<>> /\ UNCHANGED <<phyState, aborted>> /\ MacLocal
  BY DEF Superframe, StartCFP, StartGTS, EndGTS, Event, Dispatch, MacInv, phyVars, phyState
<1>1. PhyTypeOK'
  BY <1>0 DEF MacInv, PhyTypeOK, phyState, radioVars, rxVars, txVars, senseVars
<1>2. CASE StartCFP
  <2>1. MacLocal'
    BY <1>0, <1>2 DEF StartCFP, MacLocal, GivenUp
  <2>2. calls' = <<>> /\ gts' = gts /\ aborted' \in BOOLEAN
    BY <1>0, <1>1, <1>2 DEF StartCFP, phyVars, PhyTypeOK
  <2> QED
    BY <1>0, <2>1, <2>2, EventInv
<1>3. ASSUME NEW c \in Tunable, NEW op \in {"EnterGts", "LeaveGts"},
             calls' = <<Call(Hop, c), Call(op, NONE)>>, gts' = NONE => c = CapChannel
      PROVE  calls' \in Seq(MacCalls) /\ ChannelInv'
  <2> DEFINE hop == Call(Hop, c)
             rest == Call(op, NONE)
  <2>1. /\ hop \in MacCalls /\ hop.op = Hop /\ hop.arg = c
        /\ rest \in MacCalls /\ rest.op # Hop
    BY PhyConstants DEF Call, MacCalls, PhyRequests, MacInternal, CallArgs, Hop
  <2>2. calls' = <<hop, rest>>
    BY <1>3
  <2> HIDE DEF hop, rest
  <2>3. calls' \in Seq(MacCalls)
    BY <2>1, <2>2
  <2>4. Len(calls') = 2 /\ calls'[2] = rest /\ Head(calls') = hop /\ calls' # <<>>
    BY <2>2
  <2>5. HopRunsFirst'
    BY <2>1, <2>4 DEF HopRunsFirst
  <2>6. Arg' = c
    BY <2>1, <2>4 DEF Arg
  <2> QED
    BY <1>3, <2>1, <2>3, <2>4, <2>5, <2>6 DEF ChannelInv
<1>4. ASSUME NEW slot \in Slots, StartGTS(slot) PROVE MacInv'
  <2>1. slot[1] \in {"RX", "TX"} /\ slot[2] \in Tunable
    BY MacConstants
  <2>2. gts' = slot[1] /\ gts' # NONE
    BY <1>4, <2>1, MacConstants DEF StartGTS
  <2>3. calls' = <<Call(Hop, slot[2]), Call("EnterGts", NONE)>>
    BY <1>4 DEF StartGTS, Hop
  <2>4. calls' \in Seq(MacCalls) /\ ChannelInv'
    BY <1>3, <2>1, <2>2, <2>3
  <2>5. MacLocal'
    BY <1>0, <1>4, <2>1, <2>2 DEF StartGTS, MacLocal, GivenUp
  <2> QED
    BY <1>1, <2>4, <2>5 DEF MacInv
<1>5. CASE EndGTS
  <2>1. calls' = <<Call(Hop, CapChannel), Call("LeaveGts", NONE)>>
    BY <1>5 DEF EndGTS, Hop
  <2>2. calls' \in Seq(MacCalls) /\ ChannelInv'
    BY <1>3, <2>1, MacConstants
  <2>3. MacLocal'
    BY <1>0, <1>5 DEF EndGTS, MacLocal, GivenUp
  <2> QED
    BY <1>1, <2>2, <2>3 DEF MacInv
<1> QED
  BY <1>2, <1>4, <1>5 DEF Superframe

\* A step of the PHY leaves the MAC alone.
LEMMA PhyInv ==
  ASSUME MacInv, UNCHANGED macVars,
         \/ PhyCalls
         \/ EndSetTRXState \/ EndCca \/ EndTx
         \/ \E s \in Signals : StartRx(s) \/ EndRx(s)
  PROVE  MacInv'
<1> USE DEF queueVars, frameVars, csmaVars
<1>1. MacLocal' /\ UNCHANGED gts
  BY DEF MacInv, macVars, MacLocal, GivenUp
<1>2. CASE PhyCalls
  BY <1>1, <1>2, PhyCallsTypes DEF MacInv
<1>3. CASE EndSetTRXState \/ EndCca \/ EndTx
  <2>1. /\ PhyTypeOK' /\ calls = <<>> /\ calls' \in Seq(Others)
        /\ UNCHANGED currentChannel
    BY <1>3, TimerTypes DEF MacInv
  <2> QED
    BY <1>1, <2>1, EventChannel DEF MacInv
<1>4. CASE \E s \in Signals : StartRx(s) \/ EndRx(s)
  <2>1. /\ PhyTypeOK' /\ calls = <<>> /\ calls' \in Seq(Others)
        /\ UNCHANGED currentChannel
    BY <1>4, SignalTypes DEF MacInv
  <2> QED
    BY <1>1, <2>1, EventChannel DEF MacInv
<1> QED
  BY <1>2, <1>3, <1>4

-----------------------------------------------------------------------------
(* The theorems *)

LEMMA MacInvInit == Init => MacInv
<1> SUFFICES ASSUME Init PROVE MacInv
  OBVIOUS
<1>1. PhyTypeOK
  BY DEF Init, PhyInit, PhyTypeOK, TrxStates, PendingStates
<1>2. calls \in Seq(Others) /\ Len(calls) = 1 /\ calls # <<>> /\ Head(calls).op # Hop
  <2>1. IdleState \in TrxRequests
    BY DEF IdleState, TrxRequests
  <2>2. Call("PlmeSetTRXStateRequest", IdleState) \in Others
    BY <2>1, OneCall DEF PhyRequests, CallArgs, Hop
  <2>3. calls = <<Call("PlmeSetTRXStateRequest", IdleState)>>
    BY DEF Init, Turn
  <2>4. Call("PlmeSetTRXStateRequest", IdleState).op # Hop
    BY DEF Call, Hop
  <2> DEFINE c == Call("PlmeSetTRXStateRequest", IdleState)
  <2> HIDE DEF c
  <2>5. c \in Others /\ calls = <<c>> /\ c.op # Hop
    BY <2>2, <2>3, <2>4 DEF c
  <2> QED
    BY <2>5
<1>3. calls \in Seq(MacCalls)
  BY <1>2 DEF Others
<1>4. ChannelInv
  BY <1>2 DEF ChannelInv, HopRunsFirst, Init
<1>5. MacLocal
  <2>1. txQueue \in Seq(Packets) /\ Len(txQueue) = 0 /\ csmaNB = 0
    BY DEF Init
  <2>2. cap \in BOOLEAN
    BY MacConstants DEF Init
  <2>3. MaxTxQueueSize \in Nat /\ MaxCSMABackoffs \in Nat
    BY MacConstants
  <2>4. /\ Len(txQueue) <= MaxTxQueueSize
        /\ csmaNB \in 0..MaxCSMABackoffs + 1
        /\ ~(csmaNB > MaxCSMABackoffs)
    BY <2>1, <2>3
  <2>5. csmaCW \in Uint8
    BY SMT DEF Init, Uint8
  <2>6. /\ endCapEvent \in BOOLEAN /\ ccaRequestRunning \in BOOLEAN
        /\ startCap \in BOOLEAN
    BY DEF Init
  <2> QED
    BY <2>1, <2>2, <2>4, <2>5, <2>6 DEF Init, MacLocal, MacStates, GivenUp
<1> QED
  BY <1>1, <1>3, <1>4, <1>5 DEF MacInv

LEMMA MacInvStep ==
  ASSUME MacInv, [Next]_vars
  PROVE  MacInv'
<1>1. CASE Handler
  BY <1>1, PhyInv, SetTRXConfirmInv, SlotCallsInv, DataConfirmInv, DataIndicationInv,
     CcaConfirmInv, NowInv DEF Handler
<1>2. CASE RadioTimer \/ SignalEnds \/ \E s \in Signals : Arrives(s)
  BY <1>2, PhyInv DEF RadioTimer, SignalEnds, Arrives
<1>3. CASE MacTimer
  BY <1>3, MacTimerInv
<1>4. CASE HigherLayer
  BY <1>4, NowInv DEF HigherLayer
<1>5. CASE Superframe
  BY <1>5, SuperframeInv
<1>6. CASE UNCHANGED vars
  BY <1>6 DEF vars, macVars, phyVars, queueVars, frameVars, csmaVars, radioVars, rxVars,
              txVars, senseVars, MacInv, PhyTypeOK, MacLocal, GivenUp, ChannelInv,
              HopRunsFirst, Arg
<1> QED
  BY <1>1, <1>2, <1>3, <1>4, <1>5, <1>6 DEF Next, Stopped

\* The history variable is TRUE or FALSE.
LEMMA OrderlyStep ==
  ASSUME orderly \in BOOLEAN, [Next]_vars
  PROVE  orderly' \in BOOLEAN
<1>1. \A c : (orderly /\ c) \in BOOLEAN
  OBVIOUS
<1>2. CASE UNCHANGED orderly
  BY <1>2
<1>3. CASE PdDataIndication
  BY <1>1, <1>3 DEF PdDataIndication, Keeps
<1>4. CASE IfsWaitTimeout
  BY <1>1, <1>4 DEF IfsWaitTimeout, Keeps
<1>5. CASE HigherLayer
  BY <1>1, <1>2, <1>5 DEF HigherLayer, McpsDataRequestDirect, McpsDataRequestGts, Keeps
<1>6. CASE Superframe
  BY <1>1, <1>6 DEF Superframe, StartCFP, StartGTS, EndGTS, Keeps
<1>7. CASE \E s \in Signals : Arrives(s)
  BY <1>1, <1>7 DEF Arrives, Keeps
<1> QED
  BY <1>2, <1>3, <1>4, <1>5, <1>6, <1>7
     DEF Next, Stopped, vars, Handler, RadioTimer, SignalEnds, MacTimer, CsmaTimer

\* The inductive invariant: the types, the bound of m_NB, and that a hop runs as
\* soon as it is requested and, outside the slots, goes to the channel of the CAP.
THEOREM MacInvariant == Spec => []MacInv
<1>1. Init => MacInv
  BY MacInvInit
<1>2. MacInv /\ [Next]_vars => MacInv'
  BY MacInvStep
<1> QED
  BY <1>1, <1>2, PTL DEF Spec

\* The type invariant of the MAC with its CSMA-CA and its PHY: in particular the
\* queue never exceeds m_maxTxQueueSize and m_NB never m_macMaxCSMABackoffs + 1.
THEOREM MacTypesHold == Spec => []TypeOK
<1>1. Init => orderly \in BOOLEAN
  BY DEF Init
<1>2. orderly \in BOOLEAN /\ [Next]_vars => (orderly \in BOOLEAN)'
  BY OrderlyStep
<1>3. MacInv /\ orderly \in BOOLEAN => TypeOK
  BY DEF MacInv, MacLocal, TypeOK
<1> QED
  BY <1>1, <1>2, <1>3, MacInvariant, PTL DEF Spec

\* Outside its slots the device is on the channel of the CAP, however often it
\* hopped, and whatever receptions, transmissions and turnarounds a hop broke off.
THEOREM MacChannelOfPeriod == Spec => []ChannelOfPeriod
<1>1. MacInv => ChannelOfPeriod
  BY DEF MacInv, ChannelInv, ChannelOfPeriod
<1> QED
  BY <1>1, MacInvariant, PTL
-----------------------------------------------------------------------------
(* The packet for which the channel is sought *)

HeadOfQueue == txQueue # <<>> /\ txPkt = Head(txQueue)
Contending == macState \in {"MAC_CSMA", "MAC_SENDING"}

\* SendsHeadOfQueue speaks of the instants at which no change of the MAC's state
\* is scheduled.  It needs the two facts that make it true again when the change
\* has been made or cancelled: MAC_CSMA is scheduled for the head of the queue
\* alone, and a MAC that contends has lost its packet or has the head.
QueueInv ==
  /\ Contending => txPkt = NONE \/ HeadOfQueue
  /\ setMacState = "MAC_CSMA" => HeadOfQueue
  /\ SendsHeadOfQueue

\* CheckQueue schedules MAC_CSMA for the head of the queue it is given, and
\* only for a MAC that is idle.
LEMMA CheckQueueHead ==
  ASSUME NEW ifs, QueueInv, CheckQueue(txQueue', ifs), UNCHANGED macState,
         HeadOfQueue => txQueue' # <<>> /\ Head(txQueue') = Head(txQueue)
  PROVE  QueueInv'
  BY DEF QueueInv, CheckQueue, MayServe, HeadOfQueue, Contending, SendsHeadOfQueue

\* No step separates a MAC that contends from the head of its queue.
LEMMA QueueInvStep ==
  ASSUME MacInv, QueueInv, [Next]_vars
  PROVE  QueueInv'
<1> USE DEF QueueInv, HeadOfQueue, Contending, SendsHeadOfQueue
<1>1. CASE UNCHANGED <<macState, queueVars, setMacState>>
  BY <1>1 DEF queueVars
<1>2. CASE PlmeSetTRXStateConfirm
  <2>1. CASE SendPacket \/ StartCsma \/ NothingToDo
    BY <1>1, <1>2, <2>1 DEF PlmeSetTRXStateConfirm, SendPacket, StartCsma, NothingToDo
  <2>2. CASE IdleAgain
    <3>1. UNCHANGED <<macState, txQueue>>
      BY <1>2, <2>2 DEF PlmeSetTRXStateConfirm, IdleAgain
    <3>2. CheckQueue(txQueue', ifsEvent) \/ UNCHANGED <<txPkt, setMacState>>
      BY <2>2, <3>1 DEF IdleAgain
    <3> QED
      BY <3>1, <3>2, CheckQueueHead
  <2> QED
    BY <1>2, <2>1, <2>2 DEF PlmeSetTRXStateConfirm
<1>3. CASE PdDataConfirm
  <2>1. UNCHANGED macState
    BY <1>3 DEF PdDataConfirm
  <2>2. CASE ConfirmFails
    BY <1>1, <1>3, <2>2 DEF PdDataConfirm
  <2>3. CASE ~ConfirmFails /\ SentWithAckReq
    BY <2>1, <2>3, MacConstants DEF SentWithAckReq, ConfirmFails, queueVars, MacStates
  <2>4. CASE ~ConfirmFails /\ SentWithoutAckReq
    BY <2>1, <2>4, MacConstants
       DEF SentWithoutAckReq, RemoveFirstTxQElement, BackToPeriod, MacStates
  <2>5. CASE ~ConfirmFails /\ NotSent
    BY <2>1, <2>5, MacConstants DEF NotSent, BackToPeriod, queueVars, MacStates
  <2> QED
    BY <1>3, <2>2, <2>3, <2>4, <2>5 DEF PdDataConfirm
<1>4. CASE PdDataIndication
  <2>1. UNCHANGED txQueue
    BY <1>4 DEF PdDataIndication
  <2>2. CASE BeaconReceived
    BY <2>1, <2>2, MacConstants DEF BeaconReceived, MacStates
  <2>3. CASE AckReqReceived
    BY <2>1, <2>3, MacConstants DEF AckReqReceived, MacStates
  <2>4. CASE GackReceived
    BY <2>1, <2>4, MacConstants DEF GackReceived, MacStates
  <2>5. CASE UNCHANGED <<macState, txPkt, setMacState>>
    BY <2>1, <2>5, <1>1 DEF queueVars
  <2> QED
    BY <1>4, <2>2, <2>3, <2>4, <2>5 DEF PdDataIndication, OtherReceived
<1>5. CASE PlmeCcaConfirm
  BY <1>5 DEF PlmeCcaConfirm, ChannelIdle, CcaAgain, ChannelBusy, CcaIgnored, queueVars
<1>6. CASE SetLrWpanMacState
  <2>1. setMacState \in {"MAC_IDLE", "MAC_CSMA", "MAC_ACK_PENDING", "MAC_GTS", NONE}
    BY DEF MacInv, MacLocal
  <2> QED
    BY <1>6, <2>1, MacConstants DEF SetLrWpanMacState, queueVars, MacStates
<1>7. CASE EnterGts
  BY <1>7 DEF EnterGts, queueVars
<1>8. CASE ContinueSending
  BY <1>8 DEF ContinueSending
<1>9. CASE LeaveGts
  BY <1>9, MacConstants DEF LeaveGts, MacStates
<1>10. CASE DeferCsmaTimeout
  BY <1>10, MacConstants DEF DeferCsmaTimeout, Event, Now, MacStates
<1>11. CASE IfsWaitTimeout
  <2>1. setMacState = NONE /\ UNCHANGED txQueue
    BY <1>11 DEF IfsWaitTimeout, Event, Now
  <2>2. CASE txQueue # <<>> /\ txPkt' = Head(txQueue) /\ UNCHANGED setMacState
    BY <2>1, <2>2, MacConstants DEF MacStates
  <2>3. CASE macState' \in {"MAC_GTS", macState} /\ CheckQueue(txQueue, NONE)
    BY <2>1, <2>3, MacConstants DEF CheckQueue, MayServe, MacStates
  <2> QED
    BY <1>11, <2>2, <2>3 DEF IfsWaitTimeout
<1>12. ASSUME NEW p \in Packets, McpsDataRequestDirect(p) PROVE QueueInv'
  <2>1. /\ UNCHANGED macState /\ CheckQueue(txQueue', ifsEvent)
        /\ txQueue' \in {txQueue, Append(txQueue, p)}
    BY <1>12 DEF McpsDataRequestDirect, EnqueueTxQElement
  <2>2. txQueue \in Seq(Packets)
    BY DEF MacInv, MacLocal
  <2>3. txQueue # <<>> => txQueue' # <<>> /\ Head(txQueue') = Head(txQueue)
    BY <2>1, <2>2
  <2> QED
    BY <2>1, <2>3, CheckQueueHead
<1>13. ASSUME NEW p \in Packets, McpsDataRequestGts(p) PROVE QueueInv'
  BY <1>13, MacConstants DEF McpsDataRequestGts, Event, Now, MacStates
<1>14. CASE Next
  <2>1. CASE Handler
    BY <2>1, <1>1, <1>2, <1>3, <1>4, <1>5, <1>6, <1>7, <1>8, <1>9
       DEF Handler, macVars, PlmeSetAttributeConfirm, StartCAP
  <2>2. CASE RadioTimer \/ SignalEnds \/ \E s \in Signals : Arrives(s)
    BY <2>2, <1>1 DEF RadioTimer, SignalEnds, Arrives, macVars
  <2>3. CASE MacTimer
    BY <2>3, <1>1, <1>10, <1>11 DEF MacTimer, CsmaTimer, RandomBackoffDelay, CanProceed, RequestCCA
  <2>4. CASE HigherLayer
    BY <2>4, <1>12, <1>13 DEF HigherLayer
  <2>5. CASE Superframe
    BY <2>5, <1>1 DEF Superframe, StartCFP, StartGTS, EndGTS
  <2> QED
    BY <1>1, <1>14, <2>1, <2>2, <2>3, <2>4, <2>5 DEF Next, Stopped, vars, macVars
<1> QED
  BY <1>1, <1>14 DEF vars, macVars

\* What CSMA-CA contends for and what is sent in the CAP is the first packet of
\* the queue, whatever the durations and the traffic: EndGTS, a deferral and a
\* beacon take m_txPkt away only together with the state MAC_CSMA or MAC_SENDING.
THEOREM MacSendsHeadOfQueue == Spec => []SendsHeadOfQueue
<1>1. Init => QueueInv
  BY MacConstants DEF Init, QueueInv, Contending, SendsHeadOfQueue, MacStates
<1>2. MacInv /\ QueueInv /\ [Next]_vars => QueueInv'
  BY QueueInvStep
<1>3. QueueInv => SendsHeadOfQueue
  BY DEF QueueInv
<1> QED
  BY <1>1, <1>2, <1>3, MacInvariant, PTL DEF Spec
===============================================================================
