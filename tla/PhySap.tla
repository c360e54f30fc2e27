-------------------------------- MODULE PhySap --------------------------------
(***************************************************************************)
(* The PHY under any user of its service access points: a MAC that issues  *)
(* requests in any order, at any time, from its own events and from inside *)
(* the callbacks it receives.  What holds here holds for every MAC.        *)
(***************************************************************************)
EXTENDS LrWpanPhy

CONSTANTS
  Requests,   \* the <<operation, argument>> pairs the user issues
  MaxStale,   \* bound on EndTx events that are no longer tracked
  MaxNesting  \* bound on the stack depth at which a callback makes a request

ASSUME SapConstants ==
  /\ Requests \subseteq
       ({"PlmeSetTRXStateRequest"} \X TrxRequests)
         \cup ({"PdDataRequest"} \X Packets)
         \cup ({"PlmeSetAttributeRequest"} \X Channels)
         \cup ({"PlmeCcaRequest", "PlmeEdRequest", "CcaCancel", "CancelPdDataRequest"}
                 \X {NONE})
  /\ MaxStale \in Nat
  /\ MaxNesting \in Nat

SapCalls ==
  {c \in [op : PhyRequests \cup PhyCallbacks \cup PhyInternal, arg : CallArgs] :
     c.op = "PdDataRequest" => c.arg \in Packets}

TypeOK == PhyTypeOK /\ calls \in Seq(SapCalls)

Init == PhyInit /\ calls = <<>>

\* A user keeps one measurement of a kind at a time, as LrWpanCsmaCa does.
Allowed(r) ==
  /\ r[1] = "PlmeCcaRequest" => ~ccaRequest
  /\ r[1] = "PlmeEdRequest" => ~edRequest
  /\ r[1] = "PdDataRequest" => staleEndTx < MaxStale

silent == <<radioVars, rxVars, txVars, senseVars, currentChannel, aborted>>

\* The user issues a request from an event of its own.
UserRequest ==
  /\ Dispatch
  /\ \E r \in Requests : Allowed(r) /\ calls' = <<Call(r[1], r[2])>>
  /\ UNCHANGED silent

\* The callbacks from which the user makes requests.  LrWpanMac and LrWpanCsmaCa
\* make none when they learn that the transceiver went off or that a
\* measurement was cut short, which the PHY tells them halfway through a call.
Answered(c) ==
  \/ c.op \in {"PdDataIndication", "PdDataConfirm", "PlmeSetAttributeConfirm"}
  \/ c.op = "PlmeSetTRXStateConfirm" /\ c.arg # "TRX_OFF"
  \/ c.op = "PlmeCcaConfirm" /\ c.arg = "IDLE"
  \/ c.op = "PlmeEdConfirm" /\ c.arg = "SUCCESS"

\* The user handles a callback, and may make a request before it returns.
UserHandles ==
  /\ ~aborted /\ calls # <<>> /\ Head(calls).op \in PhyCallbacks
  /\ \/ Returns(<<>>)
     \/ /\ Answered(Head(calls)) /\ Len(calls) <= MaxNesting
        /\ \E r \in Requests : Allowed(r) /\ Returns(<<Call(r[1], r[2])>>)
  /\ UNCHANGED silent

Next == PhyNext \/ UserRequest \/ UserHandles

Spec == Init /\ [][Next]_phyVars

-----------------------------------------------------------------------------
(* Properties *)

\* A turnaround in progress always has RX_ON or TX_ON as its target, whatever
\* requests, retunings, receptions and transmissions end in the meantime: the
\* NS_ABORT_IF at the head of EndSetTRXState never fires.
SwitchHasTarget == setTRXState => trxStatePending \in {"RX_ON", "TX_ON"}

\* A frame that still counts as valid is being received by a receiver that is
\* in BUSY_RX and is not being switched away.  So EndRx never delivers a frame
\* during which the radio transmitted, was off or changed its channel.
ReceptionIntact ==
  ~currentRxPacket.second =>
    currentRxPacket.first # NONE /\ trxState = "BUSY_RX" /\ ~setTRXState

\* A packet marked as aborted is never in transmission when EndTx reports it:
\* the assertion in EndTx ("See if this is ever entered in another state").
AbortedMeansOff == trxState = "BUSY_TX" => ~currentTxPacket.second

\* StartRx: "we use BUSY_RX to mark the period between StartRx() and EndRx()".
\* A transceiver in BUSY_RX that is not about to leave it has a packet whose
\* EndRx event is still to come or is running.
BusyRxMarksReception ==
  trxState = "BUSY_RX" /\ calls = <<>> /\ ~setTRXState => currentRxPacket.first \in signals
=============================================================================
