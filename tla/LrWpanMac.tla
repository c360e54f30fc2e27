------------------------------ MODULE LrWpanMac ------------------------------
(***************************************************************************)
(* The MAC of one device (lr-wpan-mac.cc) with its CSMA-CA and its PHY: the*)
(* transmit queue, channel access in the CAP or without beacons, the       *)
(* guaranteed time slots of the CFP on other channels, the interframe      *)
(* spacing, and what a reception does to all of them.                      *)
(*                                                                         *)
(* The handlers of the PHY's callbacks take the callback off the stack of  *)
(* calls and put their requests on it.  Durations are left out: an event   *)
(* that is scheduled may fire before any other, with three exceptions.     *)
(* What the MAC schedules with ScheduleNow runs before time passes; an IFS *)
(* is over before the next frame has been sent; and the CAP, the CFP with  *)
(* its slots, and the beacon follow one another.                           *)
(*                                                                         *)
(* The MAC is not made for every environment.  The variable orderly records*)
(* whether one of these mishaps has happened, none of which the code rules *)
(* out: a transaction of the CAP or of a slot outlives it, a foreign signal*)
(* is in the air when a slot begins or arrives in a TX slot, the device    *)
(* sends in an RX slot, it sends data without the AckReq bit in a TX slot, *)
(* or it receives data with the AckReq bit while it contends.              *)
(***************************************************************************)
EXTENDS LrWpanPhy, SequencesExt

CONSTANTS
  AckPackets,     \* the packets whose header carries the AckReq bit
  LongPackets,    \* the packets that are followed by the long IFS
  GtsPackets,     \* the packets requested with TX_OPTION_GTS; the others are DIRECT
  Beacons,        \* the signals that are beacons of this device's PAN
  AckSignals,     \* the signals that are data frames with the AckReq bit
  GackSignals,    \* the signals that are group ACKs with a bit set in their bitmap
  CapChannel,     \* m_originalChannelInCAP
  Slots,          \* the <<direction, channel>> pairs of the allocated GTSs
  Slotted,        \* m_csmaCa->IsSlottedCsmaCa
  GroupAck,       \* m_groupAckPolicy is GROUP_ACK_LEGACY or GROUP_ACK_ENHANCED
  RxOnWhenIdle,   \* m_macRxOnWhenIdle
  ContinueFromCap,\* m_gtsContinuePktSendingFromCap
  Forwarding,     \* m_enhancedGTSForwarding
  Forwardable,    \* the packets of at most 70 bytes
  MaxTxQueueSize, \* m_maxTxQueueSize
  MaxCSMABackoffs,\* m_macMaxCSMABackoffs
  Beyond          \* behaviours go on after a mishap

MacStates == {"MAC_IDLE", "MAC_CSMA", "MAC_SENDING", "MAC_ACK_PENDING",
              "MAC_GTS", "MAC_GTS_SENDING"}
CsmaEvents == {"randomBackoff", "canProceed", "requestCca"}
Uint8 == 0..255

ASSUME MacConstants ==
  /\ AckPackets \cup LongPackets \cup GtsPackets \cup Forwardable \subseteq Packets
  /\ Beacons \cup AckSignals \cup GackSignals \subseteq Signals
  /\ Beacons \cap AckSignals = {}
  /\ GackSignals \cap (Beacons \cup AckSignals) = {}
  /\ CapChannel \in Tunable
  /\ Slots \subseteq {"RX", "TX"} \X Tunable
  /\ {Slotted, GroupAck, RxOnWhenIdle, ContinueFromCap, Forwarding,
      Beyond} \subseteq BOOLEAN
  /\ {MaxTxQueueSize, MaxCSMABackoffs} \subseteq Nat
  /\ NONE \notin {"RX", "TX", "SIFS", "LIFS"} \cup MacStates \cup CsmaEvents

VARIABLES
  macState,     \* m_lrWpanMacState
  txPkt,        \* m_txPkt
  txQueue,      \* m_txQueue
  setMacState,  \* m_setMacState: the state to be set by a ScheduleNow event
  ifsEvent,     \* m_ifsEvent: the IFS that runs
  cap,          \* m_incSuperframeStatus = CAP
  startCap,     \* m_incCapEvent: StartCAP is about to run
  gts,          \* m_gtsEvent ("TX") or m_incGtsEvent ("RX") runs: a GTS is open
  csmaEvent,    \* the next event of the CSMA-CA round that runs
  endCapEvent,  \* m_endCapEvent of LrWpanCsmaCa runs
  csmaNB,       \* m_NB
  csmaCW,       \* m_CW
  ccaRequestRunning,
  orderly       \* no mishap has happened so far (history variable)

queueVars == <<txPkt, txQueue>>
frameVars == <<cap, startCap, gts>>
csmaVars == <<csmaEvent, endCapEvent, csmaNB, csmaCW, ccaRequestRunning>>
macVars == <<macState, queueVars, setMacState, ifsEvent, frameVars, csmaVars>>
phyState == <<radioVars, rxVars, txVars, senseVars, currentChannel>>
vars == <<macVars, phyVars, orderly>>

-----------------------------------------------------------------------------
(* Types *)

\* Parts of StartGTS and EndGTS that run after a call of theirs has returned.
MacInternal == {"EnterGts", "ContinueSending", "LeaveGts"}
MacCalls ==
  {c \in [op : PhyRequests \cup PhyCallbacks \cup PhyInternal \cup MacInternal,
          arg : CallArgs] :
     c.op = "PdDataRequest" => c.arg \in Packets}

TypeOK ==
  /\ PhyTypeOK
  /\ calls \in Seq(MacCalls)
  /\ macState \in MacStates
  /\ txPkt \in Packets \cup {NONE}
  /\ txQueue \in Seq(Packets) /\ Len(txQueue) <= MaxTxQueueSize
  /\ setMacState \in {"MAC_IDLE", "MAC_CSMA", "MAC_ACK_PENDING", "MAC_GTS", NONE}
  /\ ifsEvent \in {"SIFS", "LIFS", NONE}
  /\ cap \in BOOLEAN /\ startCap \in BOOLEAN
  /\ gts \in {"RX", "TX", NONE}
  /\ csmaEvent \in CsmaEvents \cup {NONE}
  /\ endCapEvent \in BOOLEAN
  /\ csmaNB \in 0..MaxCSMABackoffs + 1
  /\ csmaCW \in Uint8
  /\ ccaRequestRunning \in BOOLEAN
  /\ orderly \in BOOLEAN

-----------------------------------------------------------------------------
(* Helpers *)

\* No event of the present instant is left: time may pass.
Now == setMacState = NONE /\ ~startCap
Event == Dispatch /\ Now

Turn(state) == <<Call("PlmeSetTRXStateRequest", state)>>
IdleState == IF RxOnWhenIdle THEN "RX_ON" ELSE "TRX_OFF"
GetIfsSize(p) == IF p \in LongPackets THEN "LIFS" ELSE "SIFS"

\* The step is a mishap unless the condition holds.
Keeps(condition) == orderly' = (orderly /\ condition)

\* The constructor and DoInitialize; a device on beacons waits for the first.
Init ==
  /\ PhyInit
  /\ currentChannel = CapChannel
  /\ calls = Turn(IdleState)
  /\ macState = "MAC_IDLE"
  /\ txPkt = NONE /\ txQueue = <<>>
  /\ setMacState = NONE /\ ifsEvent = NONE
  /\ cap = ~Slotted /\ startCap = FALSE /\ gts = NONE
  /\ csmaEvent = NONE /\ endCapEvent = FALSE
  /\ csmaNB = 0 /\ csmaCW = 0 /\ ccaRequestRunning = FALSE
  /\ orderly = TRUE

\* Faulty variants of MayServe: the queue is also served while the MAC is busy, or
\* outside the CAP.
MayServeBusy(ifs) == setMacState = NONE /\ cap /\ ifs = NONE
MayServeInCfp(ifs) == macState = "MAC_IDLE" /\ setMacState = NONE /\ ifs = NONE

\* The queue is served when the MAC is idle, no change of its state is
\* scheduled, and the superframe and the IFS allow it.
MayServe(ifs) == macState = "MAC_IDLE" /\ setMacState = NONE /\ cap /\ ifs = NONE

\* Faulty variant of CheckQueue: takes the youngest packet.
CheckQueueLast(q, ifs) ==
  IF MayServe(ifs) /\ q # <<>>
    THEN txPkt' = Last(q) /\ setMacState' = "MAC_CSMA"
    ELSE UNCHANGED <<txPkt, setMacState>>

\* CheckQueue, at the end of a handler that leaves the queue q and the IFS ifs.
CheckQueue(q, ifs) ==
  IF MayServe(ifs) /\ q # <<>>
    THEN txPkt' = Head(q) /\ setMacState' = "MAC_CSMA"
    ELSE UNCHANGED <<txPkt, setMacState>>

-----------------------------------------------------------------------------
(* MCPS-DATA.request *)

\* Faulty variant of EnqueueTxQElement: the queue has no limit.
EnqueueAlways(p) == txQueue' = Append(txQueue, p)

\* A packet that finds the queue full is refused with TRANSACTION_OVERFLOW.
EnqueueTxQElement(p) ==
  txQueue' = IF Len(txQueue) < MaxTxQueueSize THEN Append(txQueue, p) ELSE txQueue

\* Direct transmission: the packet waits in the queue.
McpsDataRequestDirect(p) ==
  /\ Event
  /\ p \notin GtsPackets /\ ~Contains(txQueue, p)
  /\ EnqueueTxQElement(p)
  /\ CheckQueue(txQueue', ifsEvent)
  /\ UNCHANGED <<phyVars, macState, ifsEvent, frameVars, csmaVars, orderly>>

\* In a GTS the packet goes out at once; it is dropped without a trace, and
\* nothing changes, if no GTS is open or the MAC is busy.
McpsDataRequestGts(p) ==
  /\ Event
  /\ p \in GtsPackets
  /\ gts # NONE /\ macState = "MAC_GTS"
  /\ Keeps(gts = "TX" /\ p \in AckPackets)
  /\ txPkt' = p
  /\ macState' = "MAC_GTS_SENDING"
  /\ calls' = Turn("TX_ON")
  /\ UNCHANGED <<phyState, aborted, txQueue, setMacState, ifsEvent, frameVars, csmaVars>>

-----------------------------------------------------------------------------
(* The state of the MAC *)

\* SetLrWpanMacState and SetLrWpanMacStateToGTS, as the ScheduleNow event.
SetLrWpanMacState ==
  /\ Dispatch /\ setMacState # NONE /\ ~startCap
  /\ IF setMacState = "MAC_CSMA" /\ macState \notin {"MAC_IDLE", "MAC_ACK_PENDING"}
       THEN Abort /\ UNCHANGED <<macState, setMacState>>
       ELSE /\ macState' = setMacState
            /\ setMacState' = NONE
            /\ calls' = Turn(CASE setMacState = "MAC_IDLE" -> IdleState
                               [] setMacState = "MAC_GTS" /\ gts = "TX" -> "TX_ON"
                               [] OTHER -> "RX_ON")
            /\ UNCHANGED aborted
  /\ UNCHANGED <<phyState, queueVars, ifsEvent, frameVars, csmaVars>>

\* The transmitter is on: the packet goes down.
SendPacket ==
  /\ macState \in {"MAC_SENDING", "MAC_GTS_SENDING"}
  /\ Arg \in {"TX_ON", "SUCCESS"}
  /\ IF txPkt = NONE THEN Abort
     ELSE Returns(<<Call("PdDataRequest", txPkt)>>) /\ UNCHANGED aborted
  /\ UNCHANGED <<queueVars, setMacState, csmaVars>>

\* The receiver is on: m_csmaCa->Start.
StartCsma ==
  /\ macState = "MAC_CSMA" /\ Arg \in {"RX_ON", "SUCCESS"}
  /\ csmaEvent' = "randomBackoff"
  /\ csmaNB' = 0 /\ csmaCW' = IF Slotted THEN 1 ELSE csmaCW
  /\ Returns(<<>>)
  /\ UNCHANGED <<queueVars, setMacState, endCapEvent, ccaRequestRunning, aborted>>

IdleAgain ==
  /\ macState = "MAC_IDLE"
  /\ IF Arg \in {"RX_ON", "SUCCESS", "TRX_OFF"} THEN Returns(<<>>) /\ UNCHANGED aborted
     ELSE Abort
  /\ IF Arg \in {"RX_ON", "SUCCESS"} THEN CheckQueue(txQueue, ifsEvent)
     ELSE UNCHANGED <<txPkt, setMacState>>
  /\ UNCHANGED <<txQueue, csmaVars>>

\* Nothing to do, unless the state of the transceiver is not the expected one.
Expected ==
  \/ macState = "MAC_ACK_PENDING" /\ Arg \in {"RX_ON", "SUCCESS"}
  \/ macState = "MAC_GTS" /\ Arg \in {"RX_ON", "SUCCESS", "TX_ON"}
  \/ macState = "MAC_GTS_SENDING" /\ gts = NONE

NothingToDo ==
  /\ \/ macState \in {"MAC_ACK_PENDING", "MAC_GTS"}
     \/ macState \in {"MAC_SENDING", "MAC_GTS_SENDING"} /\ Arg \notin {"TX_ON", "SUCCESS"}
     \/ macState = "MAC_CSMA" /\ Arg \notin {"RX_ON", "SUCCESS"}
  /\ IF Expected THEN Returns(<<>>) /\ UNCHANGED aborted ELSE Abort
  /\ UNCHANGED <<queueVars, setMacState, csmaVars>>

PlmeSetTRXStateConfirm ==
  /\ Running("PlmeSetTRXStateConfirm")
  /\ SendPacket \/ StartCsma \/ IdleAgain \/ NothingToDo
  /\ UNCHANGED <<phyState, macState, ifsEvent, frameVars>>

\* A change of the channel leaves the MAC as it is.
PlmeSetAttributeConfirm ==
  /\ Running("PlmeSetAttributeConfirm")
  /\ Returns(<<>>)
  /\ UNCHANGED <<phyState, aborted, macVars>>

-----------------------------------------------------------------------------
(* The end of a transmission *)

\* After the frame the MAC returns to the period it is in.
BackToPeriod == setMacState' = IF gts # NONE THEN "MAC_GTS" ELSE "MAC_IDLE"

\* Faulty variants of SentWithAckReq: the queue is popped although the frame need
\* not come from it; the next state of the MAC is not scheduled.
SentWithAckReqDequeues ==
  /\ Arg = "SUCCESS" /\ txPkt \in AckPackets
  /\ setMacState' = IF GroupAck THEN "MAC_ACK_PENDING" ELSE NONE
  /\ ifsEvent' = IF GroupAck THEN "SIFS" ELSE ifsEvent
  /\ txQueue' = IF txQueue = <<>> THEN <<>> ELSE Tail(txQueue)
  /\ UNCHANGED txPkt

SentWithAckReqReturns ==
  /\ Arg = "SUCCESS" /\ txPkt \in AckPackets
  /\ setMacState' = NONE
  /\ UNCHANGED <<ifsEvent, queueVars>>

\* A frame with the AckReq bit stays in the queue.  Under a group ACK policy the
\* MAC waits one SIFS in MAC_ACK_PENDING; otherwise the handler just returns.
SentWithAckReq ==
  /\ Arg = "SUCCESS" /\ txPkt \in AckPackets
  /\ setMacState' = IF GroupAck THEN "MAC_ACK_PENDING" ELSE NONE
  /\ ifsEvent' = IF GroupAck THEN "SIFS" ELSE ifsEvent
  /\ UNCHANGED queueVars

RemoveFirstTxQElement == txQueue' = Tail(txQueue) /\ txPkt' = NONE

\* Any other frame is confirmed, and the first element of the queue removed.
SentWithoutAckReq ==
  /\ Arg = "SUCCESS" /\ txPkt \notin AckPackets
  /\ ifsEvent' = GetIfsSize(txPkt)
  /\ RemoveFirstTxQElement
  /\ BackToPeriod

NotSent ==
  /\ Arg # "SUCCESS"
  /\ BackToPeriod
  /\ UNCHANGED <<queueVars, ifsEvent>>

\* An assertion, a null packet, or front() of an empty queue.
ConfirmFails ==
  \/ macState \notin {"MAC_SENDING", "MAC_GTS_SENDING"}
  \/ txPkt = NONE
  \/ Arg = "SUCCESS" /\ txPkt \notin AckPackets /\ txQueue = <<>>

PdDataConfirm ==
  /\ Running("PdDataConfirm")
  /\ IF ConfirmFails THEN Abort /\ UNCHANGED <<queueVars, setMacState, ifsEvent>>
     ELSE /\ SentWithAckReq \/ SentWithoutAckReq \/ NotSent
          /\ Returns(<<>>)
          /\ UNCHANGED aborted
  /\ UNCHANGED <<phyState, macState, frameVars, csmaVars>>

\* The end of an IFS.  In an RX slot, and in a TX slot after a frame with the
\* AckReq bit, the MAC is back in MAC_GTS; after a long one it may forward the
\* first packet of the queue, even in an RX slot.
IfsWaitTimeout ==
  /\ Event /\ ifsEvent # NONE
  /\ ifsEvent' = NONE
  /\ LET again == gts = "RX" \/ (gts = "TX" /\ macState = "MAC_ACK_PENDING")
         inGts == again \/ (gts = "TX" /\ macState = "MAC_GTS")
         small == Head(txQueue) \in Forwardable
         forward == ifsEvent = "LIFS" /\ inGts /\ Forwarding /\ txQueue # <<>>
     IN /\ Keeps(forward => gts = "TX")
        /\ IF forward
             THEN /\ txPkt' = Head(txQueue)
                  /\ macState' = IF small THEN "MAC_GTS_SENDING" ELSE "MAC_GTS"
                  /\ calls' = IF small THEN Turn("TX_ON") ELSE <<>>
                  /\ UNCHANGED setMacState
             ELSE /\ macState' = IF again THEN "MAC_GTS" ELSE macState
                  /\ CheckQueue(txQueue, NONE)
                  /\ UNCHANGED calls
  /\ UNCHANGED <<phyState, aborted, txQueue, frameVars, csmaVars>>

-----------------------------------------------------------------------------
(* Reception *)

\* A beacon ends the CSMA-CA round, except for the event that waits for the end
\* of the CAP, and starts the next CAP with an idle MAC.
BeaconReceived ==
  /\ Arg \in Beacons
  /\ csmaEvent' = NONE
  /\ startCap' = TRUE
  /\ setMacState' = "MAC_IDLE"
  /\ Returns(<<Call("CcaCancel", NONE)>>)
  /\ UNCHANGED <<macState, txPkt, ifsEvent>>

\* Data with the AckReq bit cancels a scheduled change of the MAC's state and
\* makes the MAC idle, whatever it was doing; in a GTS a group ACK follows.
AckReqReceived ==
  /\ Arg \in AckSignals
  /\ macState' = IF GroupAck /\ gts # NONE THEN "MAC_GTS" ELSE "MAC_IDLE"
  /\ setMacState' = NONE
  /\ Returns(<<>>)
  /\ UNCHANGED <<txPkt, ifsEvent, csmaEvent, startCap>>

\* A group ACK with a bit set, received in a GTS: the MAC drops its packet, is to
\* be in MAC_GTS and waits for a long IFS.  (What is confirmed: see GroupAck.)
GackReceived ==
  /\ Arg \in GackSignals /\ GroupAck /\ gts # NONE
  /\ txPkt' = NONE
  /\ setMacState' = "MAC_GTS"
  /\ ifsEvent' = "LIFS"
  /\ Returns(<<>>)
  /\ UNCHANGED <<macState, csmaEvent, startCap>>

OtherReceived ==
  /\ Arg \notin Beacons \cup AckSignals
  /\ Arg \in GackSignals => ~GroupAck \/ gts = NONE
  /\ Returns(<<>>)
  /\ UNCHANGED <<macState, txPkt, setMacState, ifsEvent, csmaEvent, startCap>>

PdDataIndication ==
  /\ Running("PdDataIndication")
  /\ Keeps(Arg \in AckSignals => macState # "MAC_CSMA")
  /\ IF macState \in {"MAC_IDLE", "MAC_ACK_PENDING", "MAC_CSMA", "MAC_GTS"}
       THEN /\ BeaconReceived \/ AckReqReceived \/ GackReceived \/ OtherReceived
            /\ UNCHANGED aborted
       ELSE /\ Abort
            /\ UNCHANGED <<macState, txPkt, setMacState, ifsEvent, csmaEvent, startCap>>
  /\ UNCHANGED <<phyState, txQueue, cap, gts, endCapEvent, csmaNB, csmaCW,
                 ccaRequestRunning>>

-----------------------------------------------------------------------------
(* CSMA-CA, with its durations abstracted: see LrWpanCsmaCa *)

\* Faulty variant of RandomBackoffDelay: a round that is deferred goes on too.
DeferredGoesOn ==
  /\ Event /\ csmaEvent = "randomBackoff"
  /\ csmaEvent' = IF Slotted THEN "canProceed" ELSE "requestCca"
  /\ endCapEvent' = Slotted
  /\ UNCHANGED <<phyVars, macState, queueVars, setMacState, ifsEvent, frameVars,
                 csmaNB, csmaCW, ccaRequestRunning>>

\* After the backoff: without slots the CCA, with slots the test whether the
\* transaction fits into the CAP, unless the backoff itself does not.
RandomBackoffDelay ==
  /\ Event /\ csmaEvent = "randomBackoff"
  /\ \/ ~Slotted /\ csmaEvent' = "requestCca" /\ UNCHANGED endCapEvent
     \/ Slotted /\ csmaEvent' = "canProceed" /\ UNCHANGED endCapEvent
     \/ Slotted /\ csmaEvent' = NONE /\ endCapEvent' = TRUE
  /\ UNCHANGED <<phyVars, macState, queueVars, setMacState, ifsEvent, frameVars,
                 csmaNB, csmaCW, ccaRequestRunning>>

\* The transaction fits, or the packet waits for the next CAP.  GetTxPacketSymbols
\* asserts that there is a packet.
CanProceed ==
  /\ Event /\ csmaEvent = "canProceed"
  /\ \/ txPkt # NONE /\ csmaEvent' = "requestCca" /\ UNCHANGED <<endCapEvent, aborted>>
     \/ txPkt # NONE /\ csmaEvent' = NONE /\ endCapEvent' = TRUE /\ UNCHANGED aborted
     \/ txPkt = NONE /\ aborted' = TRUE /\ UNCHANGED <<csmaEvent, endCapEvent>>
  /\ UNCHANGED <<phyState, calls, macState, queueVars, setMacState, ifsEvent, frameVars,
                 csmaNB, csmaCW, ccaRequestRunning>>

RequestCCA ==
  /\ Event /\ csmaEvent = "requestCca"
  /\ csmaEvent' = NONE
  /\ ccaRequestRunning' = TRUE
  /\ calls' = <<Call("PlmeCcaRequest", NONE)>>
  /\ UNCHANGED <<phyState, aborted, macState, queueVars, setMacState, ifsEvent, frameVars,
                 endCapEvent, csmaNB, csmaCW>>

\* The channel is idle, with slots for the last of CW times.
ChannelIdle ==
  /\ ccaRequestRunning /\ Arg = "IDLE"
  /\ Slotted => csmaCW = 1
  /\ csmaCW' = IF Slotted THEN 0 ELSE csmaCW
  /\ IF macState = "MAC_CSMA"
       THEN macState' = "MAC_SENDING" /\ Returns(Turn("TX_ON"))
       ELSE Returns(<<>>) /\ UNCHANGED macState
  /\ UNCHANGED <<csmaEvent, csmaNB>>

CcaAgain ==
  /\ ccaRequestRunning /\ Arg = "IDLE"
  /\ Slotted /\ csmaCW # 1
  /\ csmaCW' = IF csmaCW = 0 THEN 255 ELSE csmaCW - 1
  /\ csmaEvent' = "requestCca"
  /\ Returns(<<>>)
  /\ UNCHANGED <<macState, csmaNB>>

\* Another backoff, or CHANNEL_ACCESS_FAILURE, for which SetLrWpanMacState has
\* no branch.
ChannelBusy ==
  /\ ccaRequestRunning /\ Arg # "IDLE"
  /\ csmaCW' = IF Slotted THEN 2 ELSE csmaCW
  /\ csmaNB' = csmaNB + 1
  /\ csmaEvent' = IF csmaNB' > MaxCSMABackoffs THEN NONE ELSE "randomBackoff"
  /\ Returns(<<>>)
  /\ UNCHANGED macState

CcaIgnored ==
  /\ ~ccaRequestRunning
  /\ Returns(<<>>)
  /\ UNCHANGED <<macState, csmaEvent, csmaNB, csmaCW>>

PlmeCcaConfirm ==
  /\ Running("PlmeCcaConfirm")
  /\ ChannelIdle \/ CcaAgain \/ ChannelBusy \/ CcaIgnored
  /\ ccaRequestRunning' = FALSE
  /\ UNCHANGED <<phyState, aborted, queueVars, setMacState, ifsEvent, frameVars, endCapEvent>>

\* The CAP of CSMA-CA is over: MAC_CSMA_DEFERRED.
DeferCsmaTimeout ==
  /\ Event /\ endCapEvent
  /\ endCapEvent' = FALSE
  /\ IF macState = "MAC_CSMA"
       THEN macState' = "MAC_IDLE" /\ txPkt' = NONE
       ELSE UNCHANGED <<macState, txPkt>>
  /\ UNCHANGED <<phyVars, txQueue, setMacState, ifsEvent, frameVars, csmaEvent, csmaNB,
                 csmaCW, ccaRequestRunning>>

-----------------------------------------------------------------------------
(* The superframe *)

\* CheckQueue finds the change to MAC_IDLE that the beacon scheduled.
StartCAP ==
  /\ Dispatch /\ startCap
  /\ startCap' = FALSE
  /\ cap' = TRUE
  /\ UNCHANGED <<phyVars, macState, queueVars, setMacState, ifsEvent, gts, csmaVars>>

\* A transaction that started in the CAP is over.  CanProceed is there to see to
\* it, and does not quite: the CAP it knows outlasts the MAC's by a beacon (see
\* TransactionFitsMacCap of LrWpanCsmaCa).
TransactionOver ==
  /\ csmaEvent = NONE /\ ~ccaRequest
  /\ ~pdDataRequest /\ ifsEvent = NONE /\ ~setTRXState

StartCFP ==
  /\ Event /\ Slotted /\ cap
  /\ Keeps(TransactionOver)
  /\ cap' = FALSE
  /\ UNCHANGED <<phyVars, macState, queueVars, setMacState, ifsEvent, startCap, gts, csmaVars>>

\* A GTS begins: its end is scheduled and the PHY hops to its channel.
StartGTS(slot) ==
  /\ Event /\ Slotted /\ ~cap
  /\ gts = NONE /\ signals \cap Beacons = {}
  /\ Keeps(signals = {})
  /\ gts' = slot[1]
  /\ calls' = <<Call("PlmeSetAttributeRequest", slot[2]), Call("EnterGts", NONE)>>
  /\ UNCHANGED <<phyState, aborted, macState, queueVars, setMacState, ifsEvent, cap,
                 startCap, csmaVars>>

\* SetLrWpanMacStateToGTS.
EnterGts ==
  /\ Running("EnterGts")
  /\ macState' = "MAC_GTS"
  /\ Returns(Turn(IF gts = "TX" THEN "TX_ON" ELSE "RX_ON") \o <<Call("ContinueSending", NONE)>>)
  /\ UNCHANGED <<phyState, aborted, queueVars, setMacState, ifsEvent, frameVars, csmaVars>>

\* The rest of StartGTS: a packet left over from the CAP goes out in the slot.
ContinueSending ==
  /\ Running("ContinueSending")
  /\ txPkt' = IF ContinueFromCap /\ txQueue # <<>> THEN Head(txQueue) ELSE txPkt
  /\ IF ContinueFromCap /\ txPkt' # NONE
       THEN macState' = "MAC_GTS_SENDING" /\ Returns(Turn("TX_ON"))
       ELSE Returns(<<>>) /\ UNCHANGED macState
  /\ UNCHANGED <<phyState, aborted, txQueue, setMacState, ifsEvent, frameVars, csmaVars>>

\* Nothing that began in the slot goes on at its end.
SlotFree == ~pdDataRequest /\ ifsEvent = NONE /\ ~setTRXState /\ signals = {}

\* Faulty variant of EndGTS: the PHY stays on the channel of the slot.
EndGTSKeepsChannel ==
  /\ Event /\ gts # NONE
  /\ Keeps(SlotFree)
  /\ gts' = NONE
  /\ calls' = <<Call("LeaveGts", NONE)>>
  /\ UNCHANGED <<phyState, aborted, macState, queueVars, setMacState, ifsEvent, cap,
                 startCap, csmaVars>>

\* The slot is over: back to the channel of the CAP.
EndGTS ==
  /\ Event /\ gts # NONE
  /\ Keeps(SlotFree)
  /\ gts' = NONE
  /\ calls' = <<Call("PlmeSetAttributeRequest", CapChannel), Call("LeaveGts", NONE)>>
  /\ UNCHANGED <<phyState, aborted, macState, queueVars, setMacState, ifsEvent, cap,
                 startCap, csmaVars>>

LeaveGts ==
  /\ Running("LeaveGts")
  /\ setMacState' = "MAC_IDLE"
  /\ txPkt' = NONE
  /\ Returns(<<Call("CancelPdDataRequest", NONE)>>)
  /\ UNCHANGED <<phyState, aborted, macState, txQueue, ifsEvent, frameVars, csmaVars>>

-----------------------------------------------------------------------------
(* The specification *)

\* A beacon comes at the end of the superframe, other signals at any time.
Arrives(s) ==
  /\ Now
  /\ s \in Beacons => ~cap /\ gts = NONE /\ ~endCapEvent
  /\ Keeps(gts # "TX")
  /\ StartRx(s)
  /\ UNCHANGED macVars

\* An event of the PHY's timers; a frame on the air outlasts an IFS.
RadioTimer ==
  /\ Now
  /\ EndSetTRXState \/ EndCca \/ (ifsEvent = NONE /\ EndTx)
  /\ UNCHANGED <<macVars, orderly>>

\* A group ACK too outlasts an IFS.
SignalEnds ==
  /\ Now
  /\ \E s \in Signals : EndRx(s) /\ (s \in GackSignals => ifsEvent = NONE)
  /\ UNCHANGED <<macVars, orderly>>

CsmaTimer ==
  /\ RandomBackoffDelay \/ CanProceed \/ RequestCCA \/ DeferCsmaTimeout
  /\ UNCHANGED orderly

MacTimer == CsmaTimer \/ IfsWaitTimeout

\* The calls in progress and the events of the present instant.
Handler ==
  \/ PdDataIndication
  \/ /\ \/ PhyCalls /\ UNCHANGED macVars
        \/ PlmeSetTRXStateConfirm \/ PlmeSetAttributeConfirm
        \/ PdDataConfirm \/ PlmeCcaConfirm
        \/ EnterGts \/ ContinueSending \/ LeaveGts
        \/ SetLrWpanMacState \/ StartCAP
     /\ UNCHANGED orderly

HigherLayer == \E p \in Packets : McpsDataRequestDirect(p) \/ McpsDataRequestGts(p)

Superframe == StartCFP \/ EndGTS \/ \E slot \in Slots : StartGTS(slot)

\* A failed assertion ends the simulation, and a mishap the behaviours of an
\* instance that is not to go beyond it.
GoesOn == orderly \/ Beyond
Stopped == (aborted \/ ~GoesOn) /\ UNCHANGED vars

Next ==
  \/ /\ GoesOn
     /\ \/ Handler \/ RadioTimer \/ MacTimer \/ SignalEnds
        \/ HigherLayer \/ Superframe
        \/ \E s \in Signals : Arrives(s)
  \/ Stopped

\* The simulator runs every event it has queued: a call runs to its end, and a
\* timer fires however many other events are due before it.
Fairness ==
  /\ WF_vars(GoesOn /\ Handler)
  /\ SF_vars(GoesOn /\ RadioTimer)
  /\ SF_vars(GoesOn /\ MacTimer)

Spec == Init /\ [][Next]_vars /\ Fairness

-----------------------------------------------------------------------------
(* Properties *)

\* Up to the first mishap no NS_ASSERT, NS_FATAL_ERROR or null packet is reached
\* in a handler of the MAC or of the PHY, whatever the order of receptions, group
\* ACKs, requests, slots, IFSs and confirms: an assertion that fails, fails
\* because a transaction outlived its period (StartCFP, EndGTS), because of a
\* foreign signal at the start of a slot or in a TX slot (StartGTS, Arrives),
\* because the device sent in an RX slot or sent data without the AckReq bit in a
\* slot (McpsDataRequestGts, IfsWaitTimeout), or because data with the AckReq bit
\* came while the MAC contended (PdDataIndication).
NoAssertionFails == orderly => ~aborted

\* Up to the first mishap a CSMA-CA round runs only for a MAC that waits for it in
\* MAC_CSMA, and while it runs no confirm is on its way that would call
\* m_csmaCa->Start again: there is never a second round in progress, whose events
\* nothing cancels.
RoundRuns == csmaEvent # NONE \/ ccaRequest
OneRound ==
  orderly /\ RoundRuns =>
    /\ macState = "MAC_CSMA" /\ ~setTRXState
    /\ \A i \in DOMAIN calls : calls[i].op # "PlmeSetTRXStateConfirm"

\* What CSMA-CA contends for and what is then sent in the CAP is the first
\* packet of the queue, which PdDataConfirm will remove, although EndGTS, a
\* deferral and a beacon take m_txPkt away and CheckQueue sets it anew.
SendsHeadOfQueue ==
  macState \in {"MAC_CSMA", "MAC_SENDING"} /\ setMacState = NONE =>
    txQueue # <<>> /\ txPkt = Head(txQueue)

\* Up to the first mishap a slot never hops away from a frame.  The PHY would not
\* notice: PlmeSetAttributeRequest switches the transceiver off before it looks
\* for a packet in transmission, which it then never finds, and EndTx confirms
\* with SUCCESS a frame that was broken off.
HopsBetweenFrames ==
  orderly /\ Running("PlmeSetAttributeRequest") =>
    ~pdDataRequest /\ trxState \notin {"BUSY_TX", "BUSY_RX"}

\* Outside the slots the PHY is on the channel of the CAP, so every frame of the
\* CAP and every beacon is sent and received on it.
ChannelOfPeriod == calls = <<>> /\ gts = NONE => currentChannel = CapChannel

\* PdDataConfirm: "remove the copy of the packet that was just sent".  The
\* packet that leaves the queue, and whose handle is confirmed to the higher
\* layer with SUCCESS, is the one that was on the air.
ConfirmsWhatWasSent ==
  [][Len(txQueue') < Len(txQueue) => Head(txQueue) = currentTxPacket.first]_vars

\* The same up to the first mishap, of which data sent in a slot without the
\* AckReq bit is one: EndGTS, a group ACK, a deferral, a beacon or a forwarded
\* packet never make PdDataConfirm remove a packet that was not on the air.
OrderlyConfirms ==
  [][orderly /\ Len(txQueue') < Len(txQueue) =>
       Head(txQueue) = currentTxPacket.first]_vars

\* A MAC that is sending, in the CAP or in a slot, goes on to another state unless
\* a mishap interferes: the turnaround, the EndTx event and the confirm all come.
\* A frame that the PHY refuses as too long brings the MAC out of sending too.
SendingEnds ==
  macState \in {"MAC_SENDING", "MAC_GTS_SENDING"} ~>
    macState \notin {"MAC_SENDING", "MAC_GTS_SENDING"} \/ ~orderly

\* lr-wpan.rst: "packets in the Tx queue may be dropped due to excessive
\* transmission retries or channel access failure".  A MAC whose CSMA-CA has
\* given up does not wait for it for ever.
AccessFailed == macState = "MAC_CSMA" /\ csmaNB > MaxCSMABackoffs /\ ~RoundRuns
AccessFailureEnds == AccessFailed ~> macState # "MAC_CSMA"
=============================================================================
