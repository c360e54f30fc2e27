---------------------------- MODULE LrWpanCsmaCa ----------------------------
(***************************************************************************)
(* The CSMA-CA algorithm (lr-wpan-csmaca.cc) of one node, slotted and      *)
(* unslotted, with the clock of the superframe.                            *)
(*                                                                         *)
(* Time is counted in symbols (an instance may scale all durations).  The  *)
(* clock elapsed runs from the beacon reference m_macBeaconRxTime or       *)
(* m_macBeaconTxTime.  The code means that to be the start of the beacon,  *)
(* but takes MilliSeconds of a number of seconds below 1, which truncates  *)
(* to 0: the reference is the END of the beacon.  The MAC's own CAP, which *)
(* StartCAP ends BeaconSymbols earlier, is MacCapEnd.                      *)
(***************************************************************************)
EXTENDS Naturals

CONSTANTS
  MinBE, MaxBE,     \* m_macMinBE, m_macMaxBE
  MaxCSMABackoffs,  \* m_macMaxCSMABackoffs
  MaxDraw,          \* the largest number of periods drawn: GetValue(0, 7) is below 7
  UnitBackoffPeriod,\* m_aUnitBackoffPeriod
  CcaSymbols,       \* duration of one CCA
  TurnaroundTime,   \* aTurnaroundTime
  AckWaitDuration,  \* GetMacAckWaitDuration
  Frames,           \* frames to send: tx and ifs in symbols, ack requested
  CapSymbols,       \* beacon and CAP, from the start of the superframe
  BeaconSymbols,    \* duration of the beacon
  BeaconInterval,   \* from the end of a beacon to the end of the next
  StopWhileDeferring, \* MLME-START may turn beacons off while a round waits
                      \* for the end of the CAP
  NONE

ASSUME CsmaConstants ==
  /\ {MinBE, MaxBE, MaxCSMABackoffs, MaxDraw, CcaSymbols, TurnaroundTime, AckWaitDuration}
       \subseteq Nat
  /\ MinBE <= MaxBE
  /\ UnitBackoffPeriod \in Nat \ {0}
  /\ Frames \subseteq [tx : Nat, ifs : Nat, ack : BOOLEAN]
  /\ {CapSymbols, BeaconSymbols, BeaconInterval} \subseteq Nat
  /\ CapSymbols % UnitBackoffPeriod = 0
  /\ TurnaroundTime < BeaconSymbols
  /\ BeaconSymbols < CapSymbols
  /\ CapSymbols < BeaconInterval
  /\ StopWhileDeferring \in BOOLEAN
  /\ NONE \notin Frames

VARIABLES
  mode,       \* "searching" for beacons, "beacon", or "nonbeacon" (BO = 15)
  battLifeExt,\* m_macBattLifeExt
  NB, CW, BE, \* m_NB, m_CW, m_BE
  randomBackoffPeriodsLeft,
  ccaRequestRunning,
  timer,      \* the scheduled events, each with the symbols until it fires
  elapsed,    \* symbols since the beacon reference, in beacon mode
  frame,      \* the frame of the round in progress (m_txPkt), or NONE
  verdict,    \* the last report to the MAC through m_lrWpanMacStateCallback
  aborted     \* Simulator::Schedule was called with a negative delay

csmaVars == <<NB, CW, BE, randomBackoffPeriodsLeft, ccaRequestRunning>>
roundVars == <<frame, verdict>>
clockVars == <<mode, battLifeExt, elapsed>>
vars == <<csmaVars, roundVars, clockVars, timer, aborted>>

-----------------------------------------------------------------------------
(* Types *)

Modes == {"searching", "beacon", "nonbeacon"}
Verdicts == {"NONE", "CHANNEL_IDLE", "CHANNEL_ACCESS_FAILURE", "MAC_CSMA_DEFERRED"}

\* m_randomBackoffEvent, m_canProceedEvent, m_requestCcaEvent, m_endCapEvent,
\* and the CCA that the PHY carries out.
Events == {"randomBackoff", "canProceed", "requestCca", "endCap", "endCca"}

\* The bound on randomBackoffPeriodsLeft says that taking off the periods used
\* in a CAP never wraps around the unsigned counter.
TypeOK ==
  /\ mode \in Modes
  /\ battLifeExt \in BOOLEAN
  /\ NB \in 0..MaxCSMABackoffs + 1
  /\ CW \in 0..2
  /\ BE \in 0..MaxBE
  /\ randomBackoffPeriodsLeft \in 0..MaxDraw
  /\ ccaRequestRunning \in BOOLEAN
  /\ DOMAIN timer \subseteq Events
  /\ \A e \in DOMAIN timer : timer[e] \in Nat
  /\ elapsed \in 0..BeaconInterval
  /\ frame \in Frames \cup {NONE}
  /\ verdict \in Verdicts
  /\ aborted \in BOOLEAN

Init ==
  /\ mode = "searching"
  /\ battLifeExt = FALSE
  /\ NB = 0 /\ CW = 2 /\ BE = MinBE
  /\ randomBackoffPeriodsLeft = 0
  /\ ccaRequestRunning = FALSE
  /\ timer = <<>>
  /\ elapsed = 0
  /\ frame = NONE
  /\ verdict = "NONE"
  /\ aborted = FALSE

-----------------------------------------------------------------------------
(* Helpers *)

IsSlotted == mode = "beacon"

Without(events) == [e \in DOMAIN timer \ events |-> timer[e]]
With(events, next, delay) ==
  [e \in DOMAIN events \cup {next} |-> IF e = next THEN delay ELSE events[e]]
Fires(e) == ~aborted /\ e \in DOMAIN timer /\ timer[e] = 0
\* The event that fires is gone; another may be scheduled.
Consume(e) == timer' = Without({e})
Reschedule(e, next, delay) == timer' = With(Without({e}), next, delay)

Minimum(a, b) == IF a < b THEN a ELSE b

\* GetTimeToNextSlot: to the next backoff boundary, a whole period on one.
TimeToNextSlot == UnitBackoffPeriod - (elapsed % UnitBackoffPeriod)

\* The superframe of the MAC, and the CAP as GetTimeLeftInCap sees it.
MacCapEnd == CapSymbols - BeaconSymbols
CapIsOver == elapsed > CapSymbols
TimeLeftInCap == CapSymbols - elapsed

\* The rest of the transaction once the channel was found idle.
Exchange(f) ==
  f.tx + (IF f.ack THEN AckWaitDuration ELSE 2 * TurnaroundTime) + f.ifs
\* Faulty variant of TransactionSymbols: the assessments are not counted.
ExchangeOnly(f) == Exchange(f)

TransactionSymbols(f) == CcaSymbols * CW + Exchange(f)

-----------------------------------------------------------------------------
(* The algorithm *)

\* The MAC starts a round when the receiver is on: at once, or a turnaround
\* after CheckQueue found the superframe in its CAP.
Start(f) ==
  /\ ~aborted /\ frame = NONE
  /\ IsSlotted => elapsed < MacCapEnd + TurnaroundTime
  /\ frame' = f /\ verdict' = "NONE"
  /\ NB' = 0
  /\ IF IsSlotted
       THEN /\ CW' = 1
            /\ BE' = IF battLifeExt THEN Minimum(2, MinBE) ELSE MinBE
            /\ timer' = With(timer, "randomBackoff", TimeToNextSlot)
       ELSE /\ BE' = MinBE
            /\ timer' = With(timer, "randomBackoff", 0)
            /\ UNCHANGED CW
  /\ UNCHANGED <<randomBackoffPeriodsLeft, ccaRequestRunning, clockVars, aborted>>

\* The periods to wait: drawn anew unless a deferral left some over.
Backoff(drawn) ==
  IF randomBackoffPeriodsLeft = 0 \/ ~IsSlotted THEN drawn ELSE randomBackoffPeriodsLeft

UnslottedBackoff(periods) ==
  /\ ~IsSlotted
  /\ randomBackoffPeriodsLeft' = periods
  /\ Reschedule("randomBackoff", "requestCca", periods * UnitBackoffPeriod)
  /\ UNCHANGED aborted

\* Faulty variants of BackoffBeyondCap: all periods of the CAP are taken off; the
\* deferral is rounded down to whole periods.
BackoffBeyondWholeCap(periods) ==
  /\ IsSlotted /\ ~CapIsOver
  /\ periods * UnitBackoffPeriod >= TimeLeftInCap
  /\ randomBackoffPeriodsLeft' = periods - (CapSymbols \div UnitBackoffPeriod)
  /\ Reschedule("randomBackoff", "endCap", TimeLeftInCap)
  /\ UNCHANGED aborted

BackoffBeyondCapInPeriods(periods) ==
  /\ IsSlotted /\ ~CapIsOver
  /\ periods * UnitBackoffPeriod >= TimeLeftInCap
  /\ randomBackoffPeriodsLeft' = periods - (TimeLeftInCap \div UnitBackoffPeriod)
  /\ Reschedule("randomBackoff", "endCap",
                (TimeLeftInCap \div UnitBackoffPeriod) * UnitBackoffPeriod)
  /\ UNCHANGED aborted

\* The backoff does not end within the CAP: wait for the end of the CAP and
\* keep the periods that were not used.
BackoffBeyondCap(periods) ==
  /\ IsSlotted /\ ~CapIsOver
  /\ periods * UnitBackoffPeriod >= TimeLeftInCap
  /\ randomBackoffPeriodsLeft' = periods - (TimeLeftInCap \div UnitBackoffPeriod)
  /\ Reschedule("randomBackoff", "endCap", TimeLeftInCap)
  /\ UNCHANGED aborted

BackoffWithinCap(periods) ==
  /\ IsSlotted /\ ~CapIsOver
  /\ periods * UnitBackoffPeriod < TimeLeftInCap
  /\ randomBackoffPeriodsLeft' = periods
  /\ Reschedule("randomBackoff", "canProceed", periods * UnitBackoffPeriod)
  /\ UNCHANGED aborted

RandomBackoffDelay ==
  /\ Fires("randomBackoff")
  /\ IF IsSlotted /\ CapIsOver
       THEN aborted' = TRUE /\ UNCHANGED <<timer, randomBackoffPeriodsLeft>>
       ELSE \E drawn \in 0..MaxDraw :
              \/ UnslottedBackoff(Backoff(drawn))
              \/ BackoffBeyondCap(Backoff(drawn))
              \/ BackoffWithinCap(Backoff(drawn))
  /\ UNCHANGED <<NB, CW, BE, ccaRequestRunning, roundVars, clockVars>>

\* Faulty variant of CanProceed: the rest of the CAP is not looked at.
ProceedAlways ==
  /\ Fires("canProceed")
  /\ randomBackoffPeriodsLeft' = 0
  /\ Reschedule("canProceed", "requestCca", 0)
  /\ UNCHANGED <<NB, CW, BE, ccaRequestRunning, roundVars, clockVars, aborted>>

\* Proceed to the CCA only if the whole transaction fits in the CAP.
CanProceed ==
  /\ Fires("canProceed")
  /\ randomBackoffPeriodsLeft' = 0
  /\ IF TransactionSymbols(frame) > TimeLeftInCap
       THEN Reschedule("canProceed", "endCap", TimeLeftInCap)
       ELSE Reschedule("canProceed", "requestCca", 0)
  /\ UNCHANGED <<NB, CW, BE, ccaRequestRunning, roundVars, clockVars, aborted>>

DeferCsmaTimeout ==
  /\ Fires("endCap")
  /\ Consume("endCap")
  /\ frame' = NONE /\ verdict' = "MAC_CSMA_DEFERRED"
  /\ UNCHANGED <<csmaVars, clockVars, aborted>>

\* PlmeCcaConfirm(IDLE): in slotted mode CW assessments in a row are needed.
ChannelSensedIdle ==
  /\ CW' = IF IsSlotted THEN CW - 1 ELSE CW
  /\ IF IsSlotted /\ CW' # 0
       THEN Reschedule("endCca", "requestCca", 0) /\ UNCHANGED roundVars
       ELSE Consume("endCca") /\ frame' = NONE /\ verdict' = "CHANNEL_IDLE"
  /\ UNCHANGED <<NB, BE>>

\* Faulty variant of ChannelSensedBusy: gives up one assessment too early.
GivesUpEarly(e) ==
  /\ CW' = IF IsSlotted THEN 2 ELSE CW
  /\ BE' = Minimum(BE + 1, MaxBE)
  /\ NB' = NB + 1
  /\ IF NB' >= MaxCSMABackoffs
       THEN Consume(e) /\ frame' = NONE /\ verdict' = "CHANNEL_ACCESS_FAILURE"
       ELSE Reschedule(e, "randomBackoff", 0) /\ UNCHANGED roundVars

\* PlmeCcaConfirm with any other status, inside the event e.
ChannelSensedBusy(e) ==
  /\ CW' = IF IsSlotted THEN 2 ELSE CW
  /\ BE' = Minimum(BE + 1, MaxBE)
  /\ NB' = NB + 1
  /\ IF NB' > MaxCSMABackoffs
       THEN Consume(e) /\ frame' = NONE /\ verdict' = "CHANNEL_ACCESS_FAILURE"
       ELSE Reschedule(e, "randomBackoff", 0) /\ UNCHANGED roundVars

\* The end of the CCA.  Its result is ignored if none is awaited.
PlmeCcaConfirm ==
  /\ Fires("endCca")
  /\ IF ccaRequestRunning
       THEN ccaRequestRunning' = FALSE /\ (ChannelSensedIdle \/ ChannelSensedBusy("endCca"))
       ELSE Consume("endCca") /\ UNCHANGED <<NB, CW, BE, ccaRequestRunning, roundVars>>
  /\ UNCHANGED <<randomBackoffPeriodsLeft, clockVars, aborted>>

\* The PHY carries out the CCA, or, when it does not receive, answers at once
\* with a status that is not IDLE.
RequestCCA ==
  /\ Fires("requestCca")
  /\ \/ /\ ccaRequestRunning' = TRUE
        /\ Reschedule("requestCca", "endCca", CcaSymbols)
        /\ UNCHANGED <<NB, CW, BE, roundVars>>
     \/ ccaRequestRunning' = FALSE /\ ChannelSensedBusy("requestCca")
  /\ UNCHANGED <<randomBackoffPeriodsLeft, clockVars, aborted>>

-----------------------------------------------------------------------------
(* The MAC around it *)

\* Cancel: all events but the end of the CAP, and the CCA of the PHY.
Cancel ==
  /\ timer' = Without({"randomBackoff", "requestCca", "canProceed", "endCca"})
  /\ frame' = NONE

\* A beacon of the PAN cancels CSMA-CA and starts a superframe.
Beacon ==
  /\ ~aborted
  /\ \/ mode = "searching"
     \/ mode = "beacon" /\ elapsed = BeaconInterval
  /\ mode' = "beacon" /\ elapsed' = 0
  /\ battLifeExt' \in BOOLEAN
  /\ Cancel
  /\ UNCHANGED <<csmaVars, verdict, aborted>>

\* MLME-START with beacon order 15 (EndStartRequest).
StopBeacons ==
  /\ ~aborted /\ mode = "beacon"
  /\ StopWhileDeferring \/ "endCap" \notin DOMAIN timer
  /\ mode' = "nonbeacon" /\ elapsed' = 0
  /\ Cancel
  /\ UNCHANGED <<csmaVars, battLifeExt, verdict, aborted>>

\* One symbol passes: no event is due.
Tick ==
  /\ ~aborted
  /\ \A e \in DOMAIN timer : timer[e] > 0
  /\ IsSlotted \/ timer # <<>>
  /\ timer' = [e \in DOMAIN timer |-> timer[e] - 1]
  /\ IF IsSlotted THEN elapsed < BeaconInterval /\ elapsed' = elapsed + 1
                  ELSE UNCHANGED elapsed
  /\ UNCHANGED <<csmaVars, roundVars, mode, battLifeExt, aborted>>

Step == RandomBackoffDelay \/ CanProceed \/ RequestCCA \/ DeferCsmaTimeout
          \/ PlmeCcaConfirm \/ Tick

Next == Step \/ Beacon \/ StopBeacons \/ \E f \in Frames : Start(f)

\* The simulator executes every scheduled event in the order of time.
Spec == Init /\ [][Next]_vars /\ WF_vars(Step)

-----------------------------------------------------------------------------
(* Properties *)

\* The CSMA-CA implements the contract that LrWpanMac relies on.
Contract == INSTANCE CsmaContract WITH
  phase <- IF frame = NONE THEN "IDLE" ELSE "RUNNING",
  busy <- NB

\* Start, then exactly one report, and nothing after Cancel; failure after
\* exactly MaxCSMABackoffs + 1 busy assessments; every round ends.
ImplementsContract == Contract!Spec

\* No event is scheduled in the past: Start may come after the end of the
\* MAC's CAP, by the turnaround of the transceiver, yet never after the end of
\* the CAP as GetTimeLeftInCap computes it (DefaultSimulatorImpl::Schedule
\* asserts "Negative delay").
NoNegativeDelay == ~aborted

FoundIdle == IsSlotted /\ frame # NONE /\ verdict' = "CHANNEL_IDLE"

\* When the channel is reported idle in slotted mode, the frame, its
\* acknowledgement and the IFS still fit in the CAP, whatever second
\* assessments and further backoffs came after CanProceed.
TransactionFits == [][FoundIdle => elapsed + Exchange(frame) <= CapSymbols]_vars

\* RandomBackoffDelay: "We must make sure there is enough time left in the CAP,
\* otherwise we continue in the CAP of the next superframe": the transaction is
\* over when the MAC ends its CAP and starts the CFP.
TransactionFitsMacCap == [][FoundIdle => elapsed + Exchange(frame) <= MacCapEnd]_vars

\* A report that defers comes at the end of the CAP and not in the middle, so
\* the next round of the packet belongs to the next CAP.
DeferredAtCapEnd ==
  [][verdict # "MAC_CSMA_DEFERRED" /\ verdict' = "MAC_CSMA_DEFERRED" =>
       elapsed = CapSymbols]_vars

\* EndStartRequest: "Cancel any ongoing events and CSMA-CA process".  Nothing
\* is reported of a round that was cancelled.
CancelledRoundIsSilent == [][frame = NONE => verdict' \in {verdict, "NONE"}]_vars
=============================================================================
