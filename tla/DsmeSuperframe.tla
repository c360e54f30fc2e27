--------------------------- MODULE DsmeSuperframe ---------------------------
(***************************************************************************)
(* The time structure of a DSME PAN in lr-wpan-mac.cc: a PAN coordinator,  *)
(* coordinators and devices, each with its own MAC, kept together only by  *)
(* enhanced beacons that may get lost.  The module composes the MACs'      *)
(* timers: beacons, CAP and CFP periods, multisuperframes, GTSs, group ACK *)
(* slots and beacon tracking.  Every node has the PAN coordinator for its  *)
(* parent, as in scratch/dsme-EGACK-tree.cc.                               *)
(*                                                                         *)
(* A step runs the first event of the simulator's queue: events run in the *)
(* order of time and, at the same time, in the order in which they were    *)
(* scheduled.  A ScheduleNow that only sets the MAC state is part of the   *)
(* handler that schedules it.                                              *)
(*                                                                         *)
(* Data frames, CSMA-CA and the transceiver are in LrWpanMac and LrWpanPhy.*)
(* Here a node hears a beacon when its receiver is on and tuned to the     *)
(* channel of the CAP at the beacon's first symbol, and it is not retuned  *)
(* before the last one.                                                    *)
(***************************************************************************)
EXTENDS Integers, Sequences, FiniteSets, SequencesExt

CONSTANTS
  PanC,            \* the PAN coordinator, address 00:01
  Coords,          \* the other coordinators, m_coord
  Devices,         \* the devices without a superframe of their own
  SdIndex,         \* m_choosedSDIndexToSendBcn of each coordinator
  Boot,            \* the requests of the higher layer at time 0, in order
  Tables,          \* allocation tables, for CAP reduction off and on
  LateEntries,     \* entries that the higher layer may add later
  Callbacks,       \* what a higher layer does about a loss of synchronisation
  Lossy,           \* the nodes that may miss a beacon
  FlagsAtStart,    \* contents of the two flags of each MAC that are never initialised
  NumChannels,     \* m_numOfChannels
  \* lengths of time
  SD,              \* m_superframeDuration, 16 slots
  NumSuperframes,  \* superframes in a multisuperframe
  NumMultis,       \* m_numOfMultisuperframes
  Base,            \* aBaseSuperframeDuration
  Second,          \* one second
  Turnaround,      \* aTurnaroundTime, before the beacon's first symbol
  BeaconLen,       \* m_rxBeaconSymbols
  GackDelay,       \* the 3 ms before a group ACK
  GackLen,         \* its transmission
  EndEarly,        \* the 1 ns or 10 ns by which EndGTS comes early
  StopTime         \* bound: Simulator::Stop

Nodes == {PanC} \cup Coords \cup Devices
Slot == SD \div 16
MultiLen == NumSuperframes * SD
BI == NumMultis * MultiLen
FnlCapSlot == 8
CfpSlots == 15 - FnlCapSlot
CapLen == (FnlCapSlot + 1) * Slot          \* slot of the beacon included
BeaconDelay == Turnaround + BeaconLen      \* from SendOneEnhancedBeacon to reception
CapChannel == 11                           \* m_originalChannelInCAP
GackSlots == {6, 14}                       \* ENHANCED_GROUP_ACK_FIRST/SECOND_SLOT
aMaxLostBeacons == 4

\* An allocated GTS: its superframe, slot, direction and channel offset.
Entries == [sf : 0..NumSuperframes - 1, slot : 0..14, rx : BOOLEAN, ofs : 0..NumChannels - 1]

ASSUME DsmeConstants ==
  /\ IsFiniteSet(Nodes)
  /\ PanC \notin Coords \cup Devices /\ Coords \cap Devices = {}
  /\ SdIndex \in [Coords -> 1..NumSuperframes * NumMultis - 1]
  /\ \A c, d \in Coords : c # d => SdIndex[c] # SdIndex[d]
  /\ Boot \in Seq([node : Nodes, do : {"StartRequest", "SyncRequest"}])
  /\ \A i \in DOMAIN Boot : Boot[i].do = "StartRequest" => Boot[i].node \notin Devices
  /\ \A reduced \in BOOLEAN : Tables[reduced] \subseteq [Nodes -> Seq(Entries)]
  /\ \A late \in LateEntries : late.node \in Nodes /\ late.entry \in Entries
  /\ Callbacks \subseteq {"null", "report", "resync"}
  /\ Lossy \subseteq Nodes
  /\ FlagsAtStart \subseteq [Nodes -> [out : BOOLEAN, inc : BOOLEAN]]

ASSUME DsmeDurations ==
  /\ {SD, NumSuperframes, NumMultis, NumChannels, Base, Second, Turnaround, BeaconLen,
      GackDelay, GackLen, EndEarly, StopTime} \subseteq Nat
  /\ SD % 16 = 0 /\ SD > 0 /\ NumSuperframes > 0 /\ NumMultis > 0
  /\ NumChannels > 0 /\ Second > 0
  /\ Base > 0 /\ BI <= 2^15 * Base             \* the beacon order is below 15
  /\ Turnaround > 0 /\ BeaconLen > 0 /\ BeaconDelay < Slot
  /\ EndEarly > 0 /\ EndEarly < Slot

VARIABLES
  now,           \* Simulator::Now
  queue,         \* the events that are scheduled
  capReduction,  \* m_macCAPReductionFlag of the PAN
  callback,      \* m_mlmeSyncLossIndicationCallback of every node
  mac,           \* the state of each MAC
  act,           \* m_macDsmeACT: the GTSs of each node, in the order of its loops
  hearing,       \* the nodes that receive the beacon on the air
  \* history
  missed,        \* beacons of the PAN coordinator since the node heard a beacon
  heardAt,       \* when the node last heard a beacon, and
  heardFrom,     \* from whom
  fresh,         \* the nodes that heard the PAN coordinator's last beacon
  joined,        \* the nodes that have heard the PAN coordinator
  misled         \* when the CFP ends that a flag nobody has set gives a node;
                 \* 0 if there is none, and again with a beacon after its end

config == <<capReduction, callback>>
history == <<missed, heardAt, heardFrom, fresh, joined, misled>>
vars == <<now, queue, config, mac, act, hearing, history>>

-----------------------------------------------------------------------------
(* The simulator *)

\* An event of a GTS, and any other event.
GtsEvent(t, n, handler, i) == [at |-> t, node |-> n, do |-> handler, arg |-> "OUT", gts |-> i]
Event(t, n, handler, arg) == [at |-> t, node |-> n, do |-> handler, arg |-> arg, gts |-> 0]

\* The place of the last event that is scheduled for time t among those of t.
LastUid(q, t) == Max({0} \cup {f.uid : f \in {g \in q : g.at = t}})

\* m_uid, of which only the order of events at the same time is kept.
Numbered(e, uid) ==
  [at |-> e.at, node |-> e.node, do |-> e.do, arg |-> e.arg, gts |-> e.gts, uid |-> uid]

\* The events of es are scheduled, in the order of their indices.
ScheduleAll(q, es) == q \cup {Numbered(es[k], LastUid(q, es[k].at) + k) : k \in DOMAIN es}

Cancel(q, n, handler) == {f \in q : f.node # n \/ f.do # handler}

IsRunning(n, handler) == \E f \in queue : f.node = n /\ f.do = handler

\* The event that the simulator takes next.
First(ev) == \A f \in queue : f.at > ev.at \/ (f.at = ev.at /\ f.uid >= ev.uid)

\* The event is one of this handler: its time comes.
Runs(ev, handler) ==
  /\ ev.do = handler
  /\ ev.at <= StopTime
  /\ now' = ev.at

\* The events left, and those that the handler schedules.
Then(ev, es) == queue' = ScheduleAll(queue \ {ev}, es)

\* The state lasts until the time of the next event.
Settled == \A f \in queue : f.at > now

When(condition, es) == IF condition THEN es ELSE <<>>

-----------------------------------------------------------------------------
(* GTSs *)

\* Faulty variant of GtsOffset: late by one slot.
LateByASlot(e) == e.sf * SD + (IF capReduction THEN 2 * Slot ELSE CapLen + Slot) + e.slot * Slot

\* The time from the call of ScheduleGts to the start of a GTS.  A device
\* subtracts Now - m_macBeaconRxTime, in which the airtime of the beacon is
\* truncated to zero milliseconds.
GtsOffset(e) == e.sf * SD + (IF capReduction THEN Slot ELSE CapLen) + e.slot * Slot

\* Faulty variant of ToSchedule: m_allocated is not looked at.
AllAnew(n) == DOMAIN act[n]

\* The entries whose m_allocated is not set.
ToSchedule(n) == DOMAIN act[n] \ mac[n].allocated

\* The early returns of ScheduleGts(indication), and the call for a beacon from
\* the parent.
SchedulesGts(n, indication) == n # PanC /\ ~(n \in Coords /\ indication)

\* Faulty variant of IndicatesGts: beacons of other coordinators count too.
SchedulesForAny(n, from) == SchedulesGts(n, TRUE)

IndicatesGts(n, from) == from = PanC /\ SchedulesGts(n, TRUE)

\* What ScheduleGts schedules at time t.
ScheduleGts(n, t) ==
  [i \in ToSchedule(n) |-> GtsEvent(t + GtsOffset(act[n][i]), n, "StartGTS", i)]

Hop(n, e) ==
  LET slots == IF capReduction /\ e.sf # 0 THEN 15 ELSE 7
  IN ((e.sf * slots + e.slot + e.ofs + mac[n].bsn) % NumChannels) + 11

\* PlmeSetAttributeRequest(phyCurrentChannel) corrupts what is being received.
Retune(n, channel) ==
  hearing' = IF channel = mac[n].channel THEN hearing ELSE hearing \ {n}

\* Faulty variants of EndGtsTime and of GackTime: EndGTS comes at the end of the
\* slot, the group ACK at its start.
EndsWithSlot == Slot
GackAtOnce == 0

\* EndGTS comes early, and a group ACK after the start of its slot.
EndGtsTime == Slot - EndEarly
GackTime == GackDelay

StartGTS(ev) ==
  /\ Runs(ev, "StartGTS")
  /\ LET n == ev.node
         e == act[n][ev.gts]
     IN /\ mac' = [mac EXCEPT ![n].channel = Hop(n, e), ![n].state = "GTS", ![n].rxOn = e.rx,
                              ![n].gts = ev.gts]
        /\ Retune(n, Hop(n, e))
        /\ Then(ev, <<GtsEvent(now' + MultiLen, n, "StartGTS", ev.gts),
                  GtsEvent(now' + EndGtsTime, n, "EndGTS", ev.gts)>>
                \o When(e.slot \in GackSlots /\ ~e.rx,
                        <<GtsEvent(now' + GackTime, n, "SendGack", ev.gts)>>))
  /\ UNCHANGED <<config, act, history>>

EndGTS(ev) ==
  /\ Runs(ev, "EndGTS")
  /\ LET n == ev.node
     IN /\ mac' = [mac EXCEPT ![n].channel = CapChannel, ![n].state = "IDLE", ![n].rxOn = TRUE]
        /\ Retune(n, CapChannel)
  /\ Then(ev, <<>>)
  /\ UNCHANGED <<config, act, history>>

\* SendEnhancedGroupAck, and PdDataConfirm at the end of its transmission.
SendGack(ev) ==
  /\ Runs(ev, "SendGack")
  /\ mac' = [mac EXCEPT ![ev.node].state = "GTS_SENDING"]
  /\ Then(ev, <<GtsEvent(now' + GackLen, ev.node, "GackSent", ev.gts)>>)
  /\ UNCHANGED <<config, act, hearing, history>>

GackSent(ev) ==
  /\ Runs(ev, "GackSent")
  /\ mac' = [mac EXCEPT ![ev.node].state = "GTS"]
  /\ Then(ev, <<>>)
  /\ UNCHANGED <<config, act, hearing, history>>

\* The higher layer adds an entry at any time; no beacon schedules it before
\* the next call of ScheduleGts.  The code takes an entry again and again: that
\* the higher layer adds each of its entries once is assumed of it, and bounds
\* the tables.
AddDsmeACTEntity(n, e) ==
  /\ [node |-> n, entry |-> e] \in LateEntries
  /\ \A i \in DOMAIN act[n] : act[n][i] # e
  /\ e.sf < NumSuperframes
  /\ e.slot < IF capReduction THEN 15 ELSE 7
  /\ act' = [act EXCEPT ![n] = Append(@, e)]
  /\ UNCHANGED <<now, queue, config, mac, hearing, history>>

-----------------------------------------------------------------------------
(* The periods of a superframe; "OUT" is the node's own, "IN" its parent's *)

\* Faulty variant of IncomingCap: the beacon is not taken off.
WholeCap == CapLen

\* The rest of an incoming CAP when the beacon has been received.
IncomingCap == CapLen - BeaconLen

StartCAP(ev) ==
  /\ Runs(ev, "StartCAP")
  /\ LET n == ev.node
     IN IF ev.arg = "OUT"
        THEN /\ mac' = [mac EXCEPT ![n].out = "CAP"]
             /\ Then(ev, <<Event(mac[n].bcnStart + CapLen, n, "StartCFP", "OUT")>>)
        ELSE /\ mac' = [mac EXCEPT ![n].inc = "CAP"]
             /\ Then(ev, <<Event(now' + IncomingCap, n, "StartCFP", "IN")>>)
  /\ UNCHANGED <<config, act, hearing, history>>

\* Without a CAP the CFP has two parts, of which the first stands for the CAP.
\* m_firstCFP and m_incomingFirstCFP tell the parts apart.  Neither is ever
\* initialised: a flag that is set at the start turns the CFP of the first
\* superframe that has a CAP into a first part, and a second part follows that
\* lasts into the next superframe.
StartCFP(ev) ==
  /\ Runs(ev, "StartCFP")
  /\ LET n == ev.node
         cfp == now' + CfpSlots * Slot
     IN IF ev.arg = "OUT"
        THEN /\ mac' = [mac EXCEPT ![n].out = "CFP", ![n].firstCFP = FALSE]
             /\ Then(ev, IF mac[n].firstCFP
                     THEN <<Event(now' + CapLen - BeaconDelay, n, "StartCFP", "OUT")>>
                     ELSE <<Event(cfp, n, "StartRemainingPeriod", "OUT")>>)
             /\ UNCHANGED misled
        ELSE /\ mac' = [mac EXCEPT ![n].inc = "CFP", ![n].incFirstCFP = FALSE]
             /\ Then(ev, IF mac[n].incFirstCFP
                     THEN <<Event(now' + IncomingCap, n, "StartCFP", "IN")>>
                     ELSE <<Event(cfp, n, "StartRemainingPeriod", "IN")>>)
             /\ misled' = IF mac[n].incFirstCFP /\ now' > heardAt[n]
                          THEN [misled EXCEPT ![n] = cfp + IncomingCap] ELSE misled
  /\ UNCHANGED <<config, act, hearing, missed, heardAt, heardFrom, fresh, joined>>

\* Faulty variant of NextBeacon: the last beacon's end is its start.
NextBeaconAfterPeriod(n, t) == t + BI - SD + BeaconDelay

\* The time of a node's next beacon after the one of this superframe.
NextBeacon(n, t) == t + BI - (t - mac[n].bcnStart)

\* Of an outgoing superframe the rest is REMAINING only if it lasts a second.
StartRemainingPeriod(ev) ==
  /\ Runs(ev, "StartRemainingPeriod")
  /\ LET n == ev.node
         next == NextBeacon(n, now')
     IN IF ev.arg = "OUT"
        THEN /\ mac' = [mac EXCEPT ![n].out =
                          IF (next - now') \div Second > 0 THEN "REMAINING" ELSE @]
             /\ Then(ev, <<Event(next, n, "SendBeacon", "OUT")>>)
        ELSE /\ mac' = [mac EXCEPT ![n].inc = IF BI > SD THEN "REMAINING" ELSE @]
             /\ Then(ev, <<Event(now' + BI - SD, n, "AwaitBeacon", "IN")>>)
  /\ UNCHANGED <<config, act, hearing, history>>

AwaitBeacon(ev) ==
  /\ Runs(ev, "AwaitBeacon")
  /\ mac' = [mac EXCEPT ![ev.node].inc = "BEACON"]
  /\ Then(ev, <<>>)
  /\ UNCHANGED <<config, act, hearing, history>>

\* Faulty variant of IdxGrows: m_isFirstSuperframe is not looked at.
AlwaysGrows(n) == mac[n].idx < NumSuperframes - 1

\* m_curSuperframeIDx does not grow in the first superframe of a multisuperframe.
IdxGrows(n) == mac[n].idx < NumSuperframes - 1 /\ ~mac[n].isFirst

StartSuperframe(ev) ==
  /\ Runs(ev, "StartSuperframe")
  /\ LET n == ev.node
     IN /\ mac' = [mac EXCEPT ![n].idx = IF IdxGrows(n) THEN @ + 1 ELSE @,
                              ![n].isFirst = FALSE]
        /\ Then(ev, <<Event(now' + SD, n, "StartSuperframe", "OUT")>>)
  /\ UNCHANGED <<config, act, hearing, history>>

\* SD stands for m_superframeDuration, which only a node that sends beacons has;
\* a device would run this handler with the SD index of a later superframe in a
\* beacon, which no sender writes (OnReception).
StartMultisuperframe(ev) ==
  /\ Runs(ev, "StartMultisuperframe")
  /\ LET n == ev.node
     IN /\ mac' = [mac EXCEPT ![n].idx = 0, ![n].isFirst = TRUE]
        /\ Then(ev, When(ev.arg = "OUT", <<Event(now' + MultiLen, n, "StartMultisuperframe", "OUT")>>)
                \o When(now' <= SD, <<Event(now' + SD, n, "StartSuperframe", "OUT")>>))
  /\ UNCHANGED <<config, act, hearing, history>>

-----------------------------------------------------------------------------
(* Beacons *)

\* MlmeStartRequest and EndStartRequest.
StartRequest(ev) ==
  /\ Runs(ev, "StartRequest")
  /\ LET n == ev.node
         gts == When(SchedulesGts(n, FALSE), ScheduleGts(n, now'))
     IN IF n = PanC
        THEN /\ UNCHANGED mac
             /\ Then(ev, <<Event(now', n, "StartMultisuperframe", "OUT"),
                       Event(now', n, "SendBeacon", "OUT")>>)
        ELSE /\ mac' = [mac EXCEPT ![n].sendBcn = TRUE, ![n].bitmapSd = SdIndex[n],
                                   ![n].allocated = DOMAIN act[n]]
             /\ Then(ev, gts)
  /\ UNCHANGED <<config, act, hearing, history>>

\* SetLrWpanMacState(MAC_IDLE) before a coordinator's first beacon.
SetIdle(ev) ==
  /\ Runs(ev, "SetIdle")
  /\ mac' = [mac EXCEPT ![ev.node].state = "IDLE", ![ev.node].rxOn = TRUE]
  /\ Then(ev, <<>>)
  /\ UNCHANGED <<config, act, hearing, history>>

SendOneEnhancedBeacon(ev) ==
  /\ Runs(ev, "SendBeacon")
  /\ LET n == ev.node
     IN /\ mac' = [mac EXCEPT ![n].state = "SENDING", ![n].rxOn = FALSE, ![n].out = "BEACON",
                              ![n].bcnStart = now',
                              ![n].bsn = IF n = PanC THEN (@ + 1) % 256 ELSE @]
        /\ Then(ev, <<Event(now' + Turnaround, n, "StartTx", "OUT")>>)
  /\ UNCHANGED <<config, act, hearing, history>>

Listens(n) == mac[n].rxOn /\ mac[n].channel = CapChannel

\* The end of the beacon, for its sender and for those who hear it.
BeaconEnds(sender, heard, t) ==
  LET nodes == SetToSeq(heard)
  IN <<Event(t, sender, "EndTx", "OUT")>>
     \o [k \in DOMAIN nodes |-> Event(t, nodes[k], "EndRx", sender)]

\* The first symbol of the beacon.
StartTx(ev) ==
  /\ Runs(ev, "StartTx")
  /\ hearing' = {n \in Nodes \ {ev.node} : Listens(n)}
  /\ IF ev.node = PanC
     THEN /\ missed' = [n \in Nodes |-> missed[n] + 1]
          /\ fresh' = {}
     ELSE UNCHANGED <<missed, fresh>>
  /\ Then(ev, BeaconEnds(ev.node, hearing', now' + BeaconLen))
  /\ UNCHANGED <<config, mac, act, heardAt, heardFrom, joined, misled>>

\* PdDataConfirm of a beacon.
EndTx(ev) ==
  /\ Runs(ev, "EndTx")
  /\ LET n == ev.node
         noCap == capReduction /\ n \in Coords /\ SdIndex[n] % NumSuperframes # 0
         gts == When(SchedulesGts(n, FALSE), ScheduleGts(n, now'))
         cap == Event(now', n, IF noCap THEN "StartCFP" ELSE "StartCAP", "OUT")
     IN /\ mac' = [mac EXCEPT ![n].state = "IDLE", ![n].rxOn = TRUE, ![n].firstCFP = noCap \/ @,
                              ![n].allocated = IF n = PanC THEN @ ELSE DOMAIN act[n]]
        /\ queue' = ScheduleAll(ScheduleAll(queue \ {ev}, gts), <<cap>>)
  /\ UNCHANGED <<config, act, hearing, history>>

\* Faulty variant of BsnReceived: the number of any coordinator is taken over.
BsnOfAny(n, from) == (mac[from].bsn - 1) % 256

BsnReceived(n, from) == IF from = PanC THEN (mac[from].bsn - 1) % 256 ELSE mac[n].bsn

\* Faulty variant of SearchLen: one superframe instead of a beacon interval.
SearchOneSuperframe(known) == SD + Base

\* The time for which a node looks for a beacon.  Before its first one
\* m_incomingBeaconOrder is 15.
SearchLen(known) == IF known THEN BI + Base ELSE (2^15 + 1) * Base

\* After a beacon the same number of symbols is divided by the symbol rate in
\* integers: whole seconds.
NextSearch == ((BI + Base) \div Second) * Second

\* Whether the superframe of a beacon has no CAP for the node that receives it.
\* The SD index in a beacon is that of the sender's beacon bitmap, which the
\* sender took from the last beacon it heard itself.
FirstOfMulti(n, from) == (from = PanC /\ n \notin Coords) \/ mac[n].isFirst
NoIncomingCap(n, from) ==
  capReduction /\ IF n \in Coords THEN mac[from].bitmapSd % NumSuperframes # 0
                  ELSE ~FirstOfMulti(n, from)

\* Faulty variant of ParentStart: the parent's beacon is recorded only after use.
ParentStartBefore(n, from) == mac[n].parentStart

\* m_startOfBcnSlotOfSyncParent.
ParentStart(n, from) == IF from = PanC THEN mac[from].bcnStart ELSE mac[n].parentStart

\* The first beacon of a coordinator, and the rest of a multisuperframe.
OnReception(n, from, t) ==
  LET ownBeacon == SdIndex[n] * SD + ParentStart(n, from)
  IN When(mac[from].bitmapSd % NumSuperframes # 0,
          <<Event(t, n, "StartMultisuperframe", "IN")>>)
     \o When(mac[n].sendBcn, <<Event(ownBeacon, n, "SetIdle", "OUT"),
                               Event(ownBeacon, n, "SendBeacon", "OUT")>>)

\* The period that the beacon begins, and the search for the next beacon.
PeriodAndSearch(n, from, t) ==
  <<Event(t, n, IF NoIncomingCap(n, from) THEN "StartCFP" ELSE "StartCAP", "IN")>>
  \o When(IsRunning(n, "SearchTimeout") /\ mac[n].trackingOn,
          <<Event(t + NextSearch, n, "SearchTimeout", "IN")>>)

\* The MAC of a node that has received a beacon.
AfterBeacon(n, from) ==
  LET noCap == NoIncomingCap(n, from)
  IN [mac[n] EXCEPT
        !.bsn = BsnReceived(n, from),
        !.bitmapSd = mac[from].bitmapSd,
        !.known = TRUE,
        !.parentStart = ParentStart(n, from),
        !.sendBcn = FALSE,
        !.isFirst = IF n \in Coords THEN @ ELSE FirstOfMulti(n, from) /\ ~capReduction,
        !.incFirstCFP = noCap \/ @,
        !.state = IF noCap THEN @ ELSE "IDLE",
        !.rxOn = noCap => @,
        !.allocated = IF IndicatesGts(n, from) THEN DOMAIN act[n] ELSE @,
        !.numLost = IF IsRunning(n, "SearchTimeout") THEN 0 ELSE @]

\* PdDataIndication of a beacon.
EndRx(ev) ==
  /\ Runs(ev, "EndRx")
  /\ ev.node \in hearing
  /\ LET n == ev.node
         from == ev.arg
     IN /\ mac' = [mac EXCEPT ![n] = AfterBeacon(n, from)]
        /\ queue' = ScheduleAll(
                      ScheduleAll(
                        ScheduleAll(Cancel(queue \ {ev}, n, "SearchTimeout"),
                                    OnReception(n, from, now')),
                        When(IndicatesGts(n, from), ScheduleGts(n, now'))),
                      PeriodAndSearch(n, from, now'))
        /\ missed' = [missed EXCEPT ![n] = 0]
        /\ heardAt' = [heardAt EXCEPT ![n] = now']
        /\ heardFrom' = [heardFrom EXCEPT ![n] = from]
        /\ fresh' = IF from = PanC THEN fresh \cup {n} ELSE fresh
        /\ joined' = IF from = PanC THEN joined \cup {n} ELSE joined
        /\ misled' = [misled EXCEPT ![n] = IF @ < now' THEN 0 ELSE @]
        /\ hearing' = hearing \ {n}
  /\ UNCHANGED <<config, act>>

\* The beacon is lost on the way, or the receiver has been retuned meanwhile.
BeaconLost(ev) ==
  /\ Runs(ev, "EndRx")
  /\ ev.node \in hearing => ev.node \in Lossy
  /\ hearing' = hearing \ {ev.node}
  /\ Then(ev, <<>>)
  /\ UNCHANGED <<config, mac, act, history>>

-----------------------------------------------------------------------------
(* Beacon tracking *)

\* MlmeSyncRequest with m_trackBcn.
Synchronised(n) ==
  [mac[n] EXCEPT !.channel = CapChannel, !.rxOn = TRUE, !.trackingOn = TRUE, !.numLost = 0]

Search(n, t) == <<Event(t + SearchLen(mac[n].known), n, "SearchTimeout", "IN")>>

SyncRequest(ev) ==
  /\ Runs(ev, "SyncRequest")
  /\ LET n == ev.node
     IN /\ mac' = [mac EXCEPT ![n] = Synchronised(n)]
        /\ queue' = ScheduleAll(Cancel(queue \ {ev}, n, "SearchTimeout"), Search(n, now'))
        /\ Retune(n, CapChannel)
  /\ UNCHANGED <<config, act, history>>

\* Faulty variants of IsLost: the count is never tested; one beacon too few.
NeverLost(n) == FALSE
OneBeaconLess(n) == mac[n].numLost >= aMaxLostBeacons

IsLost(n) == mac[n].numLost > aMaxLostBeacons

\* Faulty variant of SearchAgain: the search is not restarted.
NoSearch(n, t) == <<>>

SearchAgain(n, t) == Search(n, t)

\* The loss is counted and the search goes on, or it is reported and the
\* search is over.  A callback that asks for synchronisation again returns
\* before tracking is switched off.
BeaconSearchTimeout(ev) ==
  /\ Runs(ev, "SearchTimeout")
  /\ LET n == ev.node
     IN IF ~IsLost(n)
        THEN /\ mac' = [mac EXCEPT ![n].numLost = @ + 1]
             /\ Then(ev, SearchAgain(n, now'))
             /\ UNCHANGED hearing
        ELSE IF callback = "resync"
        THEN /\ mac' = [mac EXCEPT ![n] = [Synchronised(n) EXCEPT !.trackingOn = FALSE]]
             /\ Then(ev, Search(n, now'))
             /\ Retune(n, CapChannel)
        ELSE /\ mac' = IF callback = "null" THEN mac
                       ELSE [mac EXCEPT ![n].trackingOn = FALSE, ![n].numLost = 0]
             /\ Then(ev, <<>>)
             /\ UNCHANGED hearing
  /\ UNCHANGED <<config, act, history>>

-----------------------------------------------------------------------------
\* The MAC that the constructor and DoInitialize leave behind.
MacAtStart(flags) ==
  [state |-> "IDLE", channel |-> CapChannel, rxOn |-> TRUE, bsn |-> 0, gts |-> 0,
   allocated |-> {}, out |-> "BEACON", inc |-> "BEACON", firstCFP |-> flags.out,
   incFirstCFP |-> flags.inc, isFirst |-> TRUE, idx |-> 0, sendBcn |-> FALSE, bcnStart |-> 0,
   parentStart |-> 0, bitmapSd |-> 0, known |-> FALSE, trackingOn |-> FALSE, numLost |-> 0]

Init ==
  /\ now = 0
  /\ queue = ScheduleAll({}, [i \in DOMAIN Boot |-> Event(0, Boot[i].node, Boot[i].do, "OUT")])
  /\ capReduction \in BOOLEAN
  /\ callback \in Callbacks
  /\ \E flags \in FlagsAtStart : mac = [n \in Nodes |-> MacAtStart(flags[n])]
  /\ act \in Tables[capReduction]
  /\ hearing = {}
  /\ missed = [n \in Nodes |-> 0]
  /\ heardAt = [n \in Nodes |-> 0]
  /\ heardFrom = [n \in Nodes |-> PanC]
  /\ fresh = {} /\ joined = {}
  /\ misled = [n \in Nodes |-> 0]

Handler(ev) ==
  \/ StartGTS(ev) \/ EndGTS(ev) \/ SendGack(ev) \/ GackSent(ev)
  \/ StartCAP(ev) \/ StartCFP(ev) \/ StartRemainingPeriod(ev) \/ AwaitBeacon(ev)
  \/ StartSuperframe(ev) \/ StartMultisuperframe(ev)
  \/ StartRequest(ev) \/ SetIdle(ev) \/ SendOneEnhancedBeacon(ev)
  \/ StartTx(ev) \/ EndTx(ev) \/ EndRx(ev) \/ BeaconLost(ev)
  \/ SyncRequest(ev) \/ BeaconSearchTimeout(ev)

Next ==
  \/ \E ev \in queue : First(ev) /\ Handler(ev)
  \/ \E late \in LateEntries : AddDsmeACTEntity(late.node, late.entry)

Spec == Init /\ [][Next]_vars

-----------------------------------------------------------------------------
(* Properties *)

Periods == {"BEACON", "CAP", "CFP", "REMAINING"}

MacTypes ==
  [state : {"IDLE", "SENDING", "GTS", "GTS_SENDING"},
   channel : {CapChannel} \cup 11..NumChannels + 10, rxOn : BOOLEAN, bsn : 0..255,
   gts : Nat, allocated : SUBSET Nat, out : Periods, inc : Periods, firstCFP : BOOLEAN,
   incFirstCFP : BOOLEAN, isFirst : BOOLEAN, idx : 0..NumSuperframes - 1, sendBcn : BOOLEAN,
   bcnStart : 0..StopTime, parentStart : 0..StopTime,
   bitmapSd : 0..NumSuperframes * NumMultis - 1, known : BOOLEAN, trackingOn : BOOLEAN,
   numLost : 0..aMaxLostBeacons + 1]

\* Every variable has a value of its type; in particular m_numLostBeacons never
\* grows past the number at which synchronisation is lost, and GTSs are entries
\* of the allocation table.
TypeOK ==
  /\ now \in 0..StopTime
  /\ \A e \in queue : e.at \in Nat /\ e.node \in Nodes
  /\ capReduction \in BOOLEAN /\ callback \in Callbacks
  /\ mac \in [Nodes -> MacTypes]
  /\ act \in [Nodes -> Seq(Entries)]
  /\ \A n \in Nodes : /\ mac[n].gts \in 0..Len(act[n])
                      /\ mac[n].allocated \subseteq DOMAIN act[n]
  /\ hearing \subseteq Nodes /\ fresh \subseteq joined /\ joined \subseteq Nodes

\* No event is scheduled for a time that is past, the assertion of
\* DefaultSimulatorImpl::Schedule (default-simulator-impl.cc:229).
DelayIsPositive == \A e \in queue : e.at >= now

\* A beacon finds its MAC idle, the assertion at lr-wpan-mac.cc:595: no GTS of
\* the sender is open or ends only in the same instant.
BeaconFindsIdle ==
  \A e \in queue : e.do = "SendBeacon" /\ First(e) => mac[e.node].state = "IDLE"

\* A coordinator sends its beacons in the superframe it has chosen, counted
\* from the PAN coordinator's beacon, whichever beacon it heard first and
\* whatever it misses later (lr-wpan-mac.cc:2475-2498, 1690-1706).
BeaconInItsSlot ==
  \A e \in queue :
    e.do = "SendBeacon" =>
      e.at % BI = IF e.node = PanC THEN 0 ELSE SdIndex[e.node] * SD

\* A node has one GTS open at a time: beacons that come again and again never
\* schedule an entry twice, and no GTS lasts into the next (ScheduleGts, StartGTS).
OneGtsAtATime ==
  \A e, f \in queue : e.do = "EndGTS" /\ f.do = "EndGTS" /\ e.node = f.node => e = f

\* Every GTS that is scheduled starts in its cell of the multisuperframe: a
\* coordinator's on time, a device's late by the airtime of one beacon,
\* whichever beacon the device heard first and whenever the device's entry was
\* added.  Of a coordinator only the entries it starts with are meant: one that is
\* added later is scheduled from the end of its own beacon (lr-wpan-mac.cc:2999).
GtsInItsCell ==
  \A e \in queue :
    e.do = "StartGTS" =>
      (e.at - GtsOffset(act[e.node][e.gts])) % MultiLen =
        IF e.node \in Devices THEN BeaconDelay ELSE 0

GtsOpen(n) == IsRunning(n, "EndGTS")
OpenEntry(n) == act[n][mac[n].gts]

LastSlot == IF capReduction THEN 14 ELSE 6

\* A node is deaf to a beacon only if it is a device whose own GTS, in the last
\* slot before that beacon, is late (lr-wpan-mac.cc:1213-1239, 2260).
DeafOnlyAfterLastSlot ==
  \A e \in queue : e.do = "StartTx" /\ First(e) =>
    LET sd == IF e.node = PanC THEN 0 ELSE SdIndex[e.node]
    IN \A n \in Nodes \ {e.node} :
         \/ Listens(n)
         \/ /\ n \in Devices /\ GtsOpen(n)
            /\ OpenEntry(n).slot = LastSlot
            /\ OpenEntry(n).sf = (sd - 1) % NumSuperframes

SameCell(e, f) == e.sf = f.sf /\ e.slot = f.slot /\ e.ofs = f.ofs

\* Two nodes in GTSs of the same cell are on the same channel if both heard the
\* last beacon of the PAN coordinator, whose sequence number shifts the
\* hopping (lr-wpan-mac.cc:2318, 1424-1437).
SameHop ==
  \A m, n \in fresh :
    GtsOpen(m) /\ GtsOpen(n) /\ SameCell(OpenEntry(m), OpenEntry(n)) =>
      mac[m].channel = mac[n].channel

\* When a coordinator sends its group ACK, its own MAC is in a GTS and every
\* device with the matching entry listens to it, late as its slot begins, if
\* both heard the PAN coordinator's last beacon: "This will avoid for sending
\* GACK packet before the receiver turn on RX" (lr-wpan-mac.cc:1538).
GackHeard ==
  \A e \in queue : e.do = "SendGack" /\ First(e) =>
    /\ mac[e.node].state = "GTS"
    /\ \A d \in Devices : \A i \in mac[d].allocated :
         /\ SameCell(act[d][i], OpenEntry(e.node)) /\ act[d][i].rx
         /\ {d, e.node} \subseteq fresh
         => /\ mac[d].state = "GTS" /\ mac[d].gts = i /\ mac[d].rxOn
            /\ mac[d].channel = mac[e.node].channel

\* A device that has heard the PAN coordinator takes part in a CAP only while
\* the sender of the last beacon it heard has one, give or take the turnaround
\* time, and in no CFP before the sender's CAP is over; also with CAP
\* reduction, and whichever beacons are lost (lr-wpan-mac.cc:2515-2571, 1005-1157).
\* The one exception is a device whose m_incomingFirstCFP happened to be set at
\* the start: the CFP of its first superframe with a CAP goes on in the next
\* sender's CAP, and all is well from its end on.
PeriodsAgree ==
  Settled => \A d \in Devices \cap joined :
    LET sender == mac[heardFrom[d]]
    IN /\ mac[d].inc = "CAP" => \/ sender.out = "CAP"
                                \/ \E e \in queue : e.at <= sender.bcnStart + CapLen + Turnaround
       /\ mac[d].inc = "CFP" /\ now >= misled[d] => sender.out # "CAP"

\* From its second multisuperframe on, m_curSuperframeIDx of the PAN coordinator
\* is the superframe that runs, although the handlers that reset and that
\* increment it run at the same time (lr-wpan-mac.cc:1581-1662).
SuperframeIdxTracks ==
  Settled /\ now >= MultiLen => mac[PanC].idx = (now \div SD) % NumSuperframes

\* While a search runs, m_numLostBeacons is never ahead of the beacons really
\* missed by more than the one that the truncated search time counts at once
\* (lr-wpan-mac.cc:2615).
LostCount ==
  \A n \in Nodes : IsRunning(n, "SearchTimeout") => mac[n].numLost <= missed[n] + 1

\* While a node tracks beacons and can report their loss, it never goes longer
\* without one than the searches that lead to the report last, nor does it
\* forget to search (BeaconSearchTimeout, lr-wpan-mac.cc:1723-1751).
LossInTime ==
  \A n \in Nodes :
    mac[n].trackingOn /\ mac[n].known /\ callback # "null" =>
      /\ IsRunning(n, "SearchTimeout")
      /\ now <= heardAt[n] + NextSearch + (aMaxLostBeacons + 1) * SearchLen(TRUE)

\* A loss of synchronisation is reported only after more than aMaxLostBeacons
\* beacons of the PAN coordinator in a row were missed (lr-wpan-mac.cc:1726).
LossMeansMisses ==
  [][\A n \in Nodes : mac[n].trackingOn /\ ~mac'[n].trackingOn =>
                        missed[n] > aMaxLostBeacons]_vars
=============================================================================
