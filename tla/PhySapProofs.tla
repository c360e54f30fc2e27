----------------------------- MODULE PhySapProofs -----------------------------
(***************************************************************************)
(* Proofs about the PHY under an arbitrary user (PhySap).  The safety      *)
(* properties and the types form one inductive invariant: the type of the  *)
(* call stack needs the type of what the handlers push, and each property  *)
(* needs the others, because a turnaround, a reception and a transmission  *)
(* end by events that must find the transceiver in the state they assume.  *)
(***************************************************************************)
EXTENDS PhySap, SequenceTheorems, TLAPS

\* While EndTx waits for its confirm to return, no valid frame is being
\* received: the state change that EndTx makes afterwards cannot hit one.
NoReceptionInEndTx ==
  ~currentRxPacket.second => \A i \in 1..Len(calls) : calls[i].op # "EndTxTail"

PhyInv ==
  /\ TypeOK
  /\ SwitchHasTarget
  /\ ReceptionIntact
  /\ AbortedMeansOff
  /\ NoReceptionInEndTx

\* What a PHY function, or the user, may put on the stack.
Made == {c \in SapCalls : c.op \notin PhyInternal}

-----------------------------------------------------------------------------
(* The call stack *)

\* A list with one more call in front of one.
LEMMA ConcatOne ==
  ASSUME NEW S, NEW a \in S, NEW b \in S
  PROVE  /\ <<>> \o <<b>> = <<b>> /\ <<a>> \o <<b>> = <<a, b>>
         /\ <<b>> \in Seq(S) /\ <<a, b>> \in Seq(S)
<1>1. <<a>> \o <<b>> = <<a, b>>
  <2>1. <<a>> \in Seq(S) /\ <<b>> \in Seq(S) /\ <<a, b>> \in Seq(S)
    OBVIOUS
  <2>2. /\ <<a>> \o <<b>> \in Seq(S)
        /\ Len(<<a>> \o <<b>>) = 2
        /\ (<<a>> \o <<b>>)[1] = a /\ (<<a>> \o <<b>>)[2] = b
    BY <2>1, ConcatProperties
  <2>3. Len(<<a, b>>) = 2 /\ <<a, b>>[1] = a /\ <<a, b>>[2] = b
    OBVIOUS
  <2> DEFINE ab == <<a>> \o <<b>>
             pair == <<a, b>>
  <2>4. /\ ab \in Seq(S) /\ pair \in Seq(S) /\ Len(ab) = Len(pair)
        /\ \A i \in 1..2 : ab[i] = pair[i] /\ Len(ab) = 2
    BY <2>1, <2>2, <2>3
  <2> HIDE DEF ab, pair
  <2>5. ab = pair
    BY <2>4, SeqEqual
  <2> QED
    BY <2>5 DEF ab, pair
<1>2. <<b>> \in Seq(S)
  OBVIOUS
<1>3. <<>> \o <<b>> = <<b>>
  BY <1>2, ConcatEmptySeq
<1> QED
  BY <1>1, <1>2, <1>3

\* The stack keeps its type, and no EndTx gets onto it, when the running call
\* is replaced by requests and callbacks.
LEMMA StackStep ==
  ASSUME calls \in Seq(SapCalls), calls # <<>>, NoReceptionInEndTx,
         NEW made \in Seq(Made), Returns(made),
         currentRxPacket.second => currentRxPacket'.second
  PROVE  calls' \in Seq(SapCalls) /\ NoReceptionInEndTx'
<1>1. Tail(calls) \in Seq(SapCalls)
  BY HeadTailProperties
<1>2. made \in Seq(SapCalls)
  BY DEF Made, SapCalls
<1>3. made \o Tail(calls) \in Seq(SapCalls)
  BY <1>1, <1>2, ConcatProperties
<1>4. SUFFICES ASSUME ~currentRxPacket'.second, NEW i \in 1..Len(made \o Tail(calls))
               PROVE  (made \o Tail(calls))[i].op # "EndTxTail"
  BY <1>3 DEF Returns, NoReceptionInEndTx
<1>5. CASE i <= Len(made)
  <2>1. made[i] \in Made
    BY <1>5, <1>3
  <2> QED
    BY <1>5, <2>1, <1>1, <1>2 DEF Made, PhyInternal
<1>6. CASE i > Len(made)
  <2>1. i - Len(made) \in 1..Len(Tail(calls))
    BY <1>6, <1>1, <1>2, ConcatProperties
  <2>2. (made \o Tail(calls))[i] = calls[i - Len(made) + 1]
    BY <1>6, <1>1, <1>2, <2>1, ConcatProperties, HeadTailProperties
  <2>3. i - Len(made) + 1 \in 1..Len(calls)
    BY <2>1, HeadTailProperties
  <2> QED
    BY <1>4, <2>2, <2>3 DEF NoReceptionInEndTx
<1> QED
  BY <1>5, <1>6, <1>1, <1>2, ConcatProperties

\* One callback or request, with an argument of the interface, is such a list.
LEMMA OneCallType ==
  ASSUME NEW op \in PhyRequests \cup PhyCallbacks,
         NEW arg \in CallArgs, op = "PdDataRequest" => arg \in Packets
  PROVE  Call(op, arg) \in Made /\ <<Call(op, arg)>> \in Seq(Made)
<1>1. Call(op, arg) \in Made
  BY DEF Call, Made, SapCalls, PhyRequests, PhyCallbacks, PhyInternal
<1> QED
  BY <1>1

\* The running call has an operation and an argument of the interface.
LEMMA HeadType ==
  ASSUME calls \in Seq(SapCalls), calls # <<>>
  PROVE  /\ Head(calls) \in SapCalls /\ Arg \in CallArgs
         /\ Head(calls).op = "PdDataRequest" => Arg \in Packets
<1>1. Head(calls) \in SapCalls
  BY HeadTailProperties
<1> QED
  BY <1>1 DEF SapCalls, Arg

\* CancelEd and Confirm produce lists of callbacks.
LEMMA CallbackTypes ==
  /\ <<>> \in Seq(Made)
  /\ \A s \in TrxRequests : CancelEd(s) \in Seq(Made)
  /\ \A s \in Statuses : Confirm(s) \in Seq(Made)
<1>1. <<>> \in Seq(Made)
  OBVIOUS
<1>2. ASSUME NEW s \in TrxRequests PROVE CancelEd(s) \in Seq(Made)
  BY OneCallType, <1>1 DEF CancelEd, PhyCallbacks, CallArgs
<1>3. ASSUME NEW s \in Statuses PROVE Confirm(s) \in Seq(Made)
  BY OneCallType DEF Confirm, PhyCallbacks, CallArgs
<1> QED
  BY <1>1, <1>2, <1>3

-----------------------------------------------------------------------------
(* Every step preserves the invariant *)

\* PLME-SET-TRX-STATE.request: every branch leaves a turnaround with a target
\* and never switches under a valid reception.
LEMMA SetTRXStep ==
  ASSUME PhyInv, PlmeSetTRXStateRequest
  PROVE  PhyInv'
<1> USE DEF PhyInv, TypeOK, PhyTypeOK, SwitchHasTarget, ReceptionIntact, AbortedMeansOff
<1>0. /\ calls # <<>> /\ Arg \in CallArgs
      /\ calls \in Seq(SapCalls) /\ NoReceptionInEndTx
  BY HeadType DEF PlmeSetTRXStateRequest, Running
<1> USE DEF radioVars, rxVars, txVars, senseVars, TrxStates, PendingStates
<1>1. CASE KeepSwitching
  BY <1>0, <1>1, StackStep, CallbackTypes DEF KeepSwitching
<1>2. CASE SameState
  <2>1. calls' \in Seq(SapCalls) /\ NoReceptionInEndTx'
    BY <1>0, <1>2, StackStep, CallbackTypes DEF SameState, Statuses
  <2> QED
    BY <1>2, <2>1 DEF SameState
<1>3. CASE DeferUntilEndTx
  <2>1. calls' \in Seq(SapCalls) /\ NoReceptionInEndTx'
    BY <1>0, <1>3, StackStep, CallbackTypes DEF DeferUntilEndTx
  <2> QED
    BY <1>3, <2>1 DEF DeferUntilEndTx
<1>4. CASE DeferUntilEndRx
  <2>1. calls' \in Seq(SapCalls) /\ NoReceptionInEndTx'
    BY <1>0, <1>4, StackStep, CallbackTypes DEF DeferUntilEndRx, TrxRequests
  <2> QED
    BY <1>4, <2>1 DEF DeferUntilEndRx
<1>5. CASE SwitchOff
  <2>1. CancelEd(Arg) \o Confirm("TRX_OFF") \in Seq(Made)
    BY <1>5, CallbackTypes, ConcatProperties DEF SwitchOff, TrxRequests, Statuses
  <2>2. calls' \in Seq(SapCalls) /\ NoReceptionInEndTx'
    BY <1>0, <1>5, <2>1, StackStep DEF SwitchOff
  <2> QED
    BY <1>5, <2>2 DEF SwitchOff
<1>6. CASE ForceTransmitter
  <2> DEFINE cca == IF ccaRequest THEN <<Call("PlmeCcaConfirm", "BUSY")>> ELSE <<>>
  <2>1. cca \in Seq(Made)
    BY CallbackTypes, OneCallType DEF PhyCallbacks, CallArgs, Statuses
  <2>2. CancelEd(Arg) \in Seq(Made)
    BY <1>6, CallbackTypes DEF ForceTransmitter, TrxRequests
  <2>3. CancelEd(Arg) \o cca \in Seq(Made)
    BY <2>1, <2>2, ConcatProperties
  <2>4. Returns(CancelEd(Arg) \o cca)
    BY <1>6 DEF ForceTransmitter
  <2>5. currentRxPacket.second => currentRxPacket'.second
    BY <1>6 DEF ForceTransmitter
  <2>6. calls' \in Seq(SapCalls) /\ NoReceptionInEndTx'
    BY <1>0, <2>3, <2>4, <2>5, StackStep
  <2> HIDE DEF cca
  <2> QED
    BY <1>6, <2>6 DEF ForceTransmitter
<1>7. CASE TransmitterAlreadyOn
  <2>1. CancelEd(Arg) \o Confirm("TX_ON") \in Seq(Made)
    BY <1>7, CallbackTypes, ConcatProperties DEF TransmitterAlreadyOn, TrxRequests, Statuses
  <2>2. calls' \in Seq(SapCalls) /\ NoReceptionInEndTx'
    BY <1>0, <1>7, <2>1, StackStep DEF TransmitterAlreadyOn
  <2> QED
    BY <1>7, <2>2 DEF TransmitterAlreadyOn
<1>8. CASE TransmitterFromOff
  <2>1. CancelEd(Arg) \o Confirm("TX_ON") \in Seq(Made)
    BY <1>8, CallbackTypes, ConcatProperties DEF TransmitterFromOff, TrxRequests, Statuses
  <2>2. calls' \in Seq(SapCalls) /\ NoReceptionInEndTx'
    BY <1>0, <1>8, <2>1, StackStep DEF TransmitterFromOff
  <2> QED
    BY <1>8, <2>2 DEF TransmitterFromOff
<1>9. CASE ForceOff
  <2>1. calls' \in Seq(SapCalls) /\ NoReceptionInEndTx'
    BY <1>0, <1>9, StackStep, CallbackTypes DEF ForceOff, Statuses
  <2> QED
    BY <1>9, <2>1 DEF ForceOff
<1>10. CASE TurnToReceiver
  <2>1. calls' \in Seq(SapCalls) /\ NoReceptionInEndTx'
    BY <1>0, <1>10, StackStep, CallbackTypes DEF TurnToReceiver
  <2> QED
    BY <1>10, <2>1 DEF TurnToReceiver
<1>11. CASE ReceiverAlreadyBusy
  <2>1. calls' \in Seq(SapCalls) /\ NoReceptionInEndTx'
    BY <1>0, <1>11, StackStep, CallbackTypes DEF ReceiverAlreadyBusy, Statuses
  <2> QED
    BY <1>11, <2>1 DEF ReceiverAlreadyBusy
<1>12. CASE UnexpectedTransition
  BY <1>12 DEF UnexpectedTransition, Abort, NoReceptionInEndTx
<1> QED
  BY <1>1, <1>2, <1>3, <1>4, <1>5, <1>6, <1>7, <1>8, <1>9, <1>10, <1>11, <1>12
  DEF PlmeSetTRXStateRequest

\* The end of a turnaround: its target is RX_ON or TX_ON, and the reception it
\* interrupted was given up when the turnaround began.
LEMMA EndSetTRXStep ==
  ASSUME PhyInv, EndSetTRXState
  PROVE  PhyInv'
<1> USE DEF PhyInv, TypeOK, PhyTypeOK, SwitchHasTarget, ReceptionIntact, AbortedMeansOff
<1> USE DEF radioVars, rxVars, txVars, senseVars, TrxStates, PendingStates
<1>1. trxStatePending \in {"RX_ON", "TX_ON"}
  BY DEF EndSetTRXState
<1>2. calls' = <<Call("PlmeSetTRXStateConfirm", trxStatePending)>>
  BY <1>1 DEF EndSetTRXState, Confirm
<1>3. calls' \in Seq(SapCalls)
  <2>1. Call("PlmeSetTRXStateConfirm", trxStatePending) \in SapCalls
    BY <1>1, OneCallType DEF Made, PhyCallbacks, CallArgs, Statuses
  <2> QED
    BY <1>2, <2>1
<1>4. NoReceptionInEndTx'
  BY <1>2 DEF NoReceptionInEndTx, Call
<1> QED
  BY <1>1, <1>3, <1>4 DEF EndSetTRXState

\* PD-DATA.request starts a transmission only in TX_ON, with a fresh packet.
LEMMA PdDataStep ==
  ASSUME PhyInv, PdDataRequest \/ CancelPdDataRequest
  PROVE  PhyInv'
<1> USE DEF PhyInv, TypeOK, PhyTypeOK, SwitchHasTarget, ReceptionIntact, AbortedMeansOff
<1>0. /\ calls # <<>> /\ Arg \in CallArgs
      /\ calls \in Seq(SapCalls) /\ NoReceptionInEndTx
  BY HeadType DEF PdDataRequest, CancelPdDataRequest, Running
<1> USE DEF radioVars, rxVars, txVars, senseVars, TrxStates, PendingStates
<1>1. CASE PdDataRequest /\ BeginTransmission
  <2>1. calls' \in Seq(SapCalls) /\ NoReceptionInEndTx'
    BY <1>0, <1>1, StackStep, CallbackTypes DEF BeginTransmission
  <2>2. currentTxPacket' \in [first : Packets \cup {NONE}, second : BOOLEAN]
    BY <1>0, <1>1, HeadType DEF BeginTransmission, PdDataRequest, Running
  <2> QED
    BY <1>1, <2>1, <2>2 DEF BeginTransmission
<1>2. CASE PdDataRequest /\ RefuseTransmission
  <2> DEFINE status == IF Arg \in Oversized \/ setTRXState THEN "UNSPECIFIED" ELSE trxState
  <2>1. status \in CallArgs
    BY DEF CallArgs, Statuses
  <2>2. <<Call("PdDataConfirm", status)>> \in Seq(Made)
    BY <2>1, OneCallType DEF PhyCallbacks
  <2>3. calls' \in Seq(SapCalls) /\ NoReceptionInEndTx'
    BY <1>0, <1>2, <2>2, StackStep DEF RefuseTransmission
  <2> QED
    BY <1>2, <2>3 DEF RefuseTransmission
<1>3. CASE PdDataRequest /\ TransmitWhileReceiving
  BY <1>3 DEF TransmitWhileReceiving, Abort, NoReceptionInEndTx
<1>4. CASE CancelPdDataRequest
  <2>1. calls' \in Seq(SapCalls) /\ NoReceptionInEndTx'
    BY <1>0, <1>4, StackStep, CallbackTypes DEF CancelPdDataRequest
  <2>2. /\ pdDataRequest' = FALSE
        /\ UNCHANGED <<radioVars, rxVars, currentTxPacket, staleEndTx, senseVars,
                       currentChannel, aborted>>
    BY <1>4 DEF CancelPdDataRequest
  <2>3. pdDataRequest' \in BOOLEAN
    BY <2>2
  <2>4. PhyTypeOK'
    BY <2>2, <2>3
  <2>5. SwitchHasTarget' /\ ReceptionIntact'
    BY <2>2
  <2>6. AbortedMeansOff'
    BY <2>2
  <2> QED
    BY <2>1, <2>4, <2>5, <2>6
<1> QED
  BY <1>1, <1>2, <1>3, <1>4 DEF PdDataRequest

\* EndTx finds no valid reception, because the transceiver transmits or is off.
LEMMA EndTxStep ==
  ASSUME PhyInv, EndTx
  PROVE  PhyInv'
<1> USE DEF PhyInv, TypeOK, PhyTypeOK, SwitchHasTarget, ReceptionIntact, AbortedMeansOff
<1> USE DEF radioVars, rxVars, txVars, senseVars, TrxStates, PendingStates
<1>1. pdDataRequest' \in BOOLEAN /\ staleEndTx' \in Nat
  <2>1. EndTxFires /\ pdDataRequest \in BOOLEAN /\ staleEndTx \in Nat
    BY DEF EndTx
  <2>2. CASE pdDataRequest /\ pdDataRequest' = FALSE /\ UNCHANGED staleEndTx
    BY <2>1, <2>2
  <2>3. CASE staleEndTx > 0 /\ staleEndTx' = staleEndTx - 1 /\ UNCHANGED pdDataRequest
    BY <2>1, <2>3
  <2> QED
    BY <2>1, <2>2, <2>3 DEF EndTxFires
<1>2. CASE EndTxIgnored
  BY <1>1, <1>2 DEF EndTx, EndTxIgnored, NoReceptionInEndTx
<1>3. CASE EndTxReported
  <2> DEFINE status == IF currentTxPacket.second THEN trxState ELSE "SUCCESS"
  <2>1. status \in CallArgs /\ NONE \in CallArgs
    BY DEF CallArgs, Statuses
  <2>2. Call("PdDataConfirm", status) \in SapCalls /\ Call("EndTxTail", NONE) \in SapCalls
    BY <2>1 DEF Call, SapCalls, PhyCallbacks, PhyInternal
  <2>3. calls' \in Seq(SapCalls)
    BY <1>3, <2>2 DEF EndTxReported
  <2>4. aborted' \in BOOLEAN
    BY <1>3 DEF EndTxReported
  <2> HIDE DEF status
  <2>5. currentRxPacket'.second
    BY <1>3 DEF EndTx, EndTxReported
  <2> QED
    BY <1>1, <1>3, <2>3, <2>4, <2>5 DEF EndTx, EndTxReported, NoReceptionInEndTx
<1> QED
  BY <1>2, <1>3 DEF EndTx

\* What EndTx does after the confirm: a pending state is applied.
LEMMA EndTxTailStep ==
  ASSUME PhyInv, EndTxTail
  PROVE  PhyInv'
<1> USE DEF PhyInv, TypeOK, PhyTypeOK, SwitchHasTarget, ReceptionIntact, AbortedMeansOff
<1>0. /\ calls # <<>> /\ Arg \in CallArgs
      /\ calls \in Seq(SapCalls) /\ NoReceptionInEndTx
  BY HeadType DEF EndTxTail, Running
<1> USE DEF radioVars, rxVars, txVars, senseVars, TrxStates, PendingStates
<1>1. currentRxPacket.second
  <2>1. 1 \in 1..Len(calls) /\ Head(calls) = calls[1]
    BY <1>0
  <2> QED
    BY <1>0, <2>1 DEF EndTxTail, Running, NoReceptionInEndTx
<1>2. PICK made \in Seq(Made) : Returns(made)
  BY CallbackTypes DEF EndTxTail, Statuses
<1>3. currentRxPacket' = currentRxPacket
  BY DEF EndTxTail
<1>4. calls' \in Seq(SapCalls) /\ NoReceptionInEndTx'
  BY <1>0, <1>2, <1>3, StackStep
<1> QED
  BY <1>1, <1>4 DEF EndTxTail

\* A signal arrives: the receiver locks on it only in RX_ON.
LEMMA StartRxStep ==
  ASSUME PhyInv, NEW s \in Signals, StartRx(s)
  PROVE  PhyInv'
<1> USE DEF PhyInv, TypeOK, PhyTypeOK, SwitchHasTarget, ReceptionIntact, AbortedMeansOff
<1> USE DEF radioVars, rxVars, txVars, senseVars, TrxStates, PendingStates
<1>0. calls' = <<>> /\ signals' \subseteq Signals
  BY DEF StartRx, Dispatch
<1>1. NoReceptionInEndTx'
  BY <1>0 DEF NoReceptionInEndTx
<1>2. CASE LockOn(s)
  BY <1>0, <1>1, <1>2, PhyConstants DEF StartRx, LockOn
<1>3. CASE Collide
  BY <1>0, <1>1, <1>3 DEF StartRx, Collide
<1>4. CASE IgnoreSignal
  BY <1>0, <1>1, <1>4 DEF StartRx, IgnoreSignal
<1> QED
  BY <1>2, <1>3, <1>4 DEF StartRx

\* A signal ends: the frame goes up unless it was destroyed.
LEMMA EndRxStep ==
  ASSUME PhyInv, NEW s \in Signals, EndRx(s)
  PROVE  PhyInv'
<1> USE DEF PhyInv, TypeOK, PhyTypeOK, SwitchHasTarget, ReceptionIntact, AbortedMeansOff
<1> USE DEF radioVars, rxVars, txVars, senseVars, TrxStates, PendingStates
<1>1. CASE currentRxPacket.first = s
  <2>1. PICK destroyed \in BOOLEAN :
          /\ currentRxPacket' = [currentRxPacket EXCEPT !.second = @ \/ destroyed]
          /\ calls' = (IF currentRxPacket'.second THEN <<>>
                       ELSE <<Call("PdDataIndication", s)>>)
                        \o <<Call("EndRxTail", NONE)>>
    BY <1>1 DEF EndRx
  <2> DEFINE up == Call("PdDataIndication", s)
             tail == Call("EndRxTail", NONE)
  <2>3. /\ tail \in SapCalls /\ up \in SapCalls
        /\ tail.op = "EndRxTail" /\ up.op = "PdDataIndication"
    BY DEF Call, SapCalls, PhyCallbacks, PhyInternal, CallArgs
  <2> HIDE DEF up, tail
  <2>2. calls' = <<tail>> \/ calls' = <<up, tail>>
    <3>1. calls' = (IF currentRxPacket'.second THEN <<>> ELSE <<up>>) \o <<tail>>
      BY <2>1 DEF up, tail
    <3>2. <<>> \o <<tail>> = <<tail>> /\ <<up>> \o <<tail>> = <<up, tail>>
      BY <2>3, ConcatOne
    <3>3. CASE currentRxPacket'.second
      BY <3>1, <3>2, <3>3
    <3>4. CASE ~currentRxPacket'.second
      BY <3>1, <3>2, <3>4
    <3> QED
      BY <3>3, <3>4
  <2>4. calls' \in Seq(SapCalls)
    <3>1. <<tail>> \in Seq(SapCalls) /\ <<up, tail>> \in Seq(SapCalls)
      BY <2>3, ConcatOne
    <3> QED
      BY <2>2, <3>1
  <2>5. NoReceptionInEndTx'
    BY <2>2, <2>3 DEF NoReceptionInEndTx
  <2>6. currentRxPacket' \in [first : Signals \cup {NONE}, second : BOOLEAN]
    BY <2>1
  <2>7. ~currentRxPacket'.second => ~currentRxPacket.second
    BY <2>1
  <2>8. currentRxPacket'.first = currentRxPacket.first
    BY <2>1
  <2> QED
    BY <2>4, <2>5, <2>6, <2>7, <2>8 DEF EndRx
<1>2. CASE currentRxPacket.first # s
  BY <1>2 DEF EndRx, NoReceptionInEndTx
<1> QED
  BY <1>1, <1>2

\* What EndRx does after the indication: the packet is forgotten.
LEMMA EndRxTailStep ==
  ASSUME PhyInv, EndRxTail
  PROVE  PhyInv'
<1> USE DEF PhyInv, TypeOK, PhyTypeOK, SwitchHasTarget, ReceptionIntact, AbortedMeansOff
<1>0. /\ calls # <<>> /\ calls \in Seq(SapCalls) /\ NoReceptionInEndTx
  BY DEF EndRxTail, Running
<1> USE DEF radioVars, rxVars, txVars, senseVars, TrxStates, PendingStates
<1>1. PICK made \in Seq(Made) : Returns(made)
  BY CallbackTypes DEF EndRxTail, Statuses
<1>2. currentRxPacket' = [first |-> NONE, second |-> TRUE]
  BY DEF EndRxTail
<1>3. /\ trxState' \in TrxStates /\ trxStatePending' \in PendingStates
      /\ setTRXState' \in BOOLEAN
      /\ setTRXState' => trxStatePending' \in {"RX_ON", "TX_ON"}
  BY DEF EndRxTail
<1>4. trxState' # "BUSY_TX" \/ trxState' = trxState
  BY DEF EndRxTail
<1>5. UNCHANGED <<signals, txVars, senseVars, currentChannel, aborted>> /\ isRxCanceled' = FALSE
  BY DEF EndRxTail
<1>6. calls' \in Seq(SapCalls) /\ NoReceptionInEndTx'
  BY <1>0, <1>1, <1>2, StackStep
<1> QED
  BY <1>2, <1>3, <1>4, <1>5, <1>6

\* CCA and ED touch their own event only.
LEMMA SenseStep ==
  ASSUME PhyInv,
         PlmeCcaRequest \/ CcaCancel \/ PlmeEdRequest \/ EndCca \/ EndEd
  PROVE  PhyInv'
<1> USE DEF PhyInv, TypeOK, PhyTypeOK, SwitchHasTarget, ReceptionIntact, AbortedMeansOff
<1> USE DEF radioVars, rxVars, txVars, senseVars, TrxStates, PendingStates
<1>1. CASE PlmeCcaRequest \/ CcaCancel \/ PlmeEdRequest
  <2>0. /\ calls # <<>> /\ calls \in Seq(SapCalls) /\ NoReceptionInEndTx
    BY <1>1 DEF PlmeCcaRequest, CcaCancel, PlmeEdRequest, Running
  <2>1. \A c \in {"PlmeCcaConfirm", "PlmeEdConfirm"} : \A a \in Statuses :
          <<Call(c, a)>> \in Seq(Made)
    BY OneCallType DEF PhyCallbacks, CallArgs
  <2>2. PICK made \in Seq(Made) : Returns(made)
    <3>1. CASE PlmeCcaRequest
      BY <3>1, <2>1, CallbackTypes DEF PlmeCcaRequest, Statuses
    <3>2. CASE CcaCancel
      BY <3>2, CallbackTypes DEF CcaCancel
    <3>3. CASE PlmeEdRequest
      BY <3>3, <2>1, CallbackTypes DEF PlmeEdRequest, Statuses
    <3> QED
      BY <1>1, <3>1, <3>2, <3>3
  <2>3. currentRxPacket' = currentRxPacket
    BY <1>1 DEF PlmeCcaRequest, CcaCancel, PlmeEdRequest
  <2>4. calls' \in Seq(SapCalls) /\ NoReceptionInEndTx'
    BY <2>0, <2>2, <2>3, StackStep
  <2>5. ccaRequest' \in BOOLEAN /\ edRequest' \in BOOLEAN
    BY <1>1 DEF PlmeCcaRequest, CcaCancel, PlmeEdRequest
  <2>6. UNCHANGED <<radioVars, rxVars, txVars, currentChannel, aborted>>
    BY <1>1 DEF PlmeCcaRequest, CcaCancel, PlmeEdRequest
  <2> QED
    BY <2>4, <2>5, <2>6
<1>2. CASE EndCca \/ EndEd
  <2>1. PICK c \in {"PlmeCcaConfirm", "PlmeEdConfirm"}, a \in Statuses :
          calls' = <<Call(c, a)>>
    BY <1>2 DEF EndCca, EndEd, Statuses
  <2>2. Call(c, a) \in Made
    BY OneCallType DEF PhyCallbacks, CallArgs
  <2>3. calls' \in Seq(SapCalls)
    BY <2>1, <2>2 DEF Made
  <2>4. NoReceptionInEndTx'
    BY <2>1 DEF NoReceptionInEndTx, Call
  <2>5. ccaRequest' \in BOOLEAN /\ edRequest' \in BOOLEAN
    BY <1>2 DEF EndCca, EndEd
  <2>6. UNCHANGED <<radioVars, rxVars, txVars, currentChannel, aborted>>
    BY <1>2 DEF EndCca, EndEd
  <2> QED
    BY <2>3, <2>4, <2>5, <2>6
<1> QED
  BY <1>1, <1>2

\* A new channel gives up the reception and the turnaround.
LEMMA SetAttributeStep ==
  ASSUME PhyInv, PlmeSetAttributeRequest
  PROVE  PhyInv'
<1> USE DEF PhyInv, TypeOK, PhyTypeOK, SwitchHasTarget, ReceptionIntact, AbortedMeansOff
<1>0. /\ calls # <<>> /\ calls \in Seq(SapCalls) /\ NoReceptionInEndTx
  BY DEF PlmeSetAttributeRequest, Running
<1> USE DEF radioVars, rxVars, txVars, senseVars, TrxStates, PendingStates
<1> DEFINE done == <<Call("PlmeSetAttributeConfirm", "SUCCESS")>>
           off == IF trxStatePending = "IDLE" THEN <<>> ELSE Confirm("TRX_OFF")
<1>1. done \in Seq(Made)
  BY OneCallType DEF PhyCallbacks, CallArgs, Statuses
<1>2. off \in Seq(Made)
  BY CallbackTypes DEF Statuses
<1>3. off \o done \in Seq(Made)
  BY <1>1, <1>2, ConcatProperties
<1>4. CASE Retune
  <2>1. Returns(off \o done)
    BY <1>4 DEF Retune
  <2>2. currentRxPacket.second => currentRxPacket'.second
    BY <1>4 DEF Retune
  <2>3. calls' \in Seq(SapCalls) /\ NoReceptionInEndTx'
    BY <1>0, <1>3, <2>1, <2>2, StackStep
  <2> HIDE DEF done, off
  <2> QED
    BY <1>4, <2>3 DEF Retune
<1>5. CASE KeepChannel
  <2>1. calls' \in Seq(SapCalls) /\ NoReceptionInEndTx'
    BY <1>0, <1>1, <1>5, StackStep DEF KeepChannel
  <2> HIDE DEF done, off
  <2> QED
    BY <1>5, <2>1 DEF KeepChannel
<1>6. CASE RetuneOutOfBand
  BY <1>6 DEF RetuneOutOfBand, Abort, NoReceptionInEndTx
<1> QED
  BY <1>4, <1>5, <1>6 DEF PlmeSetAttributeRequest

\* The user only puts requests of the interface on the stack.
LEMMA UserStep ==
  ASSUME PhyInv, UserRequest \/ UserHandles
  PROVE  PhyInv'
<1> USE DEF PhyInv, TypeOK, PhyTypeOK, SwitchHasTarget, ReceptionIntact, AbortedMeansOff
<1> USE DEF radioVars, rxVars, txVars, senseVars, TrxStates, PendingStates
<1>1. UNCHANGED silent
  BY DEF UserRequest, UserHandles
<1>2. \A r \in Requests : Call(r[1], r[2]) \in Made /\ <<Call(r[1], r[2])>> \in Seq(Made)
  <2> SUFFICES ASSUME NEW r \in Requests
               PROVE  Call(r[1], r[2]) \in Made /\ <<Call(r[1], r[2])>> \in Seq(Made)
    OBVIOUS
  <2>1. /\ r[1] \in PhyRequests
        /\ r[2] \in CallArgs
        /\ r[1] = "PdDataRequest" => r[2] \in Packets
    BY SapConstants DEF PhyRequests, CallArgs
  <2> QED
    BY <2>1, OneCallType
<1>3. calls' \in Seq(SapCalls) /\ NoReceptionInEndTx'
  <2>1. CASE UserRequest
    <3>1. PICK r \in Requests : calls' = <<Call(r[1], r[2])>>
      BY <2>1 DEF UserRequest
    <3>2. Call(r[1], r[2]) \in Made
      BY <1>2
    <3>3. calls' \in Seq(SapCalls)
      BY <3>1, <3>2 DEF Made
    <3>4. NoReceptionInEndTx'
      <4> DEFINE c == Call(r[1], r[2])
      <4>1. c.op # "EndTxTail"
        BY <3>2 DEF Made, PhyInternal
      <4> HIDE DEF c
      <4>2. calls' = <<c>>
        BY <3>1 DEF c
      <4> QED
        BY <4>1, <4>2 DEF NoReceptionInEndTx
    <3> QED
      BY <3>3, <3>4
  <2>2. CASE UserHandles
    <3>1. calls # <<>> /\ calls \in Seq(SapCalls) /\ NoReceptionInEndTx
      BY <2>2 DEF UserHandles
    <3>2. PICK made \in Seq(Made) : Returns(made)
      BY <1>2, <2>2, CallbackTypes DEF UserHandles
    <3> QED
      BY <1>1, <3>1, <3>2, StackStep DEF silent
  <2> QED
    BY <2>1, <2>2
<1> QED
  BY <1>1, <1>3 DEF silent

-----------------------------------------------------------------------------
(* The theorems *)

\* The invariant is inductive: it holds when the PHY is constructed and every
\* request, callback and event of it, and every step of its user, keeps it.
THEOREM PhyInvariant == Spec => []PhyInv
<1>1. Init => PhyInv
  <2> SUFFICES ASSUME Init PROVE PhyInv
    OBVIOUS
  <2>1. calls = <<>> /\ PhyInit
    BY DEF Init
  <2>2. NoReceptionInEndTx /\ calls \in Seq(SapCalls)
    BY <2>1 DEF NoReceptionInEndTx
  <2> QED
    BY <2>1, <2>2 DEF PhyInit, PhyInv, TypeOK, PhyTypeOK, SwitchHasTarget, ReceptionIntact,
       AbortedMeansOff, TrxStates, PendingStates
<1>2. PhyInv /\ [Next]_phyVars => PhyInv'
  <2> SUFFICES ASSUME PhyInv, [Next]_phyVars PROVE PhyInv'
    OBVIOUS
  <2>1. CASE PhyNext
    BY <2>1, SetTRXStep, EndSetTRXStep, PdDataStep, EndTxStep, EndTxTailStep, StartRxStep,
       EndRxStep, EndRxTailStep, SenseStep, SetAttributeStep DEF PhyNext, PhyCalls, PhyEvents
  <2>2. CASE UserRequest \/ UserHandles
    BY <2>2, UserStep
  <2>3. CASE UNCHANGED phyVars
    BY <2>3 DEF phyVars, radioVars, rxVars, txVars, senseVars, PhyInv, TypeOK, PhyTypeOK,
       SwitchHasTarget, ReceptionIntact, AbortedMeansOff, NoReceptionInEndTx
  <2> QED
    BY <2>1, <2>2, <2>3 DEF Next
<1> QED
  BY <1>1, <1>2, PTL DEF Spec

\* Every variable of lr-wpan-phy.cc keeps its type, whatever its user does.
THEOREM PhyTypes == Spec => []TypeOK
<1>1. PhyInv => TypeOK
  BY DEF PhyInv
<1> QED
  BY <1>1, PhyInvariant, PTL

\* The NS_ABORT_IF of EndSetTRXState never fires.
THEOREM PhySwitchHasTarget == Spec => []SwitchHasTarget
<1>1. PhyInv => SwitchHasTarget
  BY DEF PhyInv
<1> QED
  BY <1>1, PhyInvariant, PTL

\* EndRx delivers only frames that were received without interruption.
THEOREM PhyReceptionIntact == Spec => []ReceptionIntact
<1>1. PhyInv => ReceptionIntact
  BY DEF PhyInv
<1> QED
  BY <1>1, PhyInvariant, PTL

\* The NS_ASSERT of EndTx holds.
THEOREM PhyAbortedMeansOff == Spec => []AbortedMeansOff
<1>1. PhyInv => AbortedMeansOff
  BY DEF PhyInv
<1> QED
  BY <1>1, PhyInvariant, PTL
=============================================================================
