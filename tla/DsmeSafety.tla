----------------------------- MODULE DsmeSafety -----------------------------
(***************************************************************************)
(* TLAPS proofs of the safety properties of DsmeSuperframe that need what  *)
(* DsmeTimingProofs shows about the order of events: beacons and GTSs,     *)
(* hopping and group ACKs, the index of the superframe, and the periods.   *)
(***************************************************************************)
EXTENDS DsmeTimingProofs

-----------------------------------------------------------------------------
(* The times of beacons *)

LEMMA SlotOnGrid ==
  ASSUME NEW t, NEW n \in Nodes \ Devices, OnGrid(t, BI, BeaconSlot(n))
  PROVE  OnGrid(t, SD, 0)
<1>1. PICK k \in Nat : t = k * BI + BeaconSlot(n)
  BY DEF OnGrid
<1>2. PICK M \in Nat : M = NumSuperframes * NumMultis
  BY Durations
<1>3. PICK s \in Nat : BeaconSlot(n) = s * SD
  <2>1. CASE n = PanC
    BY <2>1, Durations DEF BeaconSlot
  <2>2. CASE n # PanC
    <3>1. n \in Coords
      BY <2>2 DEF Nodes
    <3>2. SdIndex[n] \in 1..NumSuperframes * NumMultis - 1
      BY <3>1, DsmeConstants
    <3>3. SdIndex[n] \in Nat
      BY <1>2, <3>2
    <3> QED
      BY <2>2, <3>3 DEF BeaconSlot
  <2> QED
    BY <2>1, <2>2
<1>4. SD \in Nat /\ BI = M * SD
  BY <1>2, Durations
<1>5. t = (k * M + s) * SD + 0
  BY <1>1, <1>3, <1>4
<1>6. k * M + s \in Nat
  OBVIOUS
<1> QED
  BY <1>5, <1>6 DEF OnGrid

\* The handlers that neither send a beacon nor answer one.
LEMMA GridFrame ==
  ASSUME BeaconInv, GridInv, \A m \in Nodes : mac'[m].bcnStart = mac[m].bcnStart,
         \A f \in queue' : f.do = "SetIdle" => f \in queue, now' \in Nat, now' >= now
  PROVE  GridInv'
<1>1. \A m \in Nodes : mac[m].bcnStart \in Nat
  BY StartTimes
<1>2. now \in Nat
  BY Durations DEF BeaconInv, TypeOK
<1>3. \A m \in Nodes : mac'[m].bcnStart <= now'
  BY <1>1, <1>2 DEF GridInv
<1> QED
  BY <1>3 DEF GridInv

LEMMA GridOfSender ==
  ASSUME BeaconInv, GridInv, DelayIsPositive, NEW ev \in queue, First(ev), SendOneEnhancedBeacon(ev)
  PROVE  GridInv'
<1>1. PICK n \in Nodes : n = ev.node
  BY Running
<1>2. ev.do = "SendBeacon" /\ now' = ev.at
  BY DEF SendOneEnhancedBeacon, Runs
<1>3. n \notin Devices /\ OnGrid(ev.at, BI, BeaconSlot(n)) /\ ev.at \in Nat
  BY <1>1, <1>2, Running DEF EventInSlot
<1>4. OnGrid(ev.at, SD, 0)
  BY <1>3, SlotOnGrid
<1>5. mac'[n].bcnStart = ev.at /\ Only(n) /\ Touches({"own"})
  BY <1>1, SendBeaconStep
<1>6. now \in Nat /\ now <= ev.at
  BY Durations DEF BeaconInv, TypeOK, DelayIsPositive
<1>7. ASSUME NEW m \in Nodes PROVE OnGrid(mac'[m].bcnStart, SD, 0) /\ mac'[m].bcnStart <= now'
  <2>1. CASE m = n
    BY <1>2, <1>3, <1>4, <1>5, <2>1
  <2>2. CASE m # n
    <3>1. mac'[m].bcnStart = mac[m].bcnStart
      BY <1>5, <2>2 DEF Only
    <3>2. mac[m].bcnStart \in Nat /\ mac[m].bcnStart <= now /\ OnGrid(mac[m].bcnStart, SD, 0)
      BY StartTimes DEF GridInv
    <3> QED
      BY <1>2, <1>3, <1>6, <3>1, <3>2
  <2> QED
    BY <2>1, <2>2
<1>8. \A f \in queue' : f.do = "SetIdle" => f \in queue
  BY <1>5, KindsOfSender, TouchesNot
<1> QED
  BY <1>7, <1>8 DEF GridInv

LEMMA GridOfReception ==
  ASSUME BeaconInv, BeaconInv', SenderInv, GridInv, DelayIsPositive, NEW ev \in queue, First(ev),
         EndRx(ev)
  PROVE  GridInv'
<1>1. PICK n \in Nodes : n = ev.node
  BY Running
<1>2. PICK from : from = ev.arg
  OBVIOUS
<1>3. PICK q : q = Cancel(queue \ {ev}, n, "SearchTimeout")
  OBVIOUS
<1>4. PICK New : New = ReceptionEvents(n, from, ev.at)
  OBVIOUS
<1>5. Adds(q, queue', New) /\ Only(n) /\ mac'[n] = AfterBeacon(n, from) /\ q \subseteq queue
  BY <1>1, <1>2, <1>3, <1>4, EndRxStep DEF Cancel
<1>6. mac[from].bitmapSd % NumSuperframes = 0 /\ now' = ev.at /\ ev.at \in Nat
  BY <1>2, HeardBeacon, Running
<1>7. \A m \in Nodes : mac'[m].bcnStart = mac[m].bcnStart
  <2>1. PICK r : r = AfterBeacon(n, from)
    OBVIOUS
  <2>2. r.bcnStart = mac[n].bcnStart
    BY <2>1, AfterBeaconFields
  <2> QED
    BY <1>5, <2>1, <2>2 DEF Only
<1>8. \A m \in Nodes : OnGrid(mac'[m].bcnStart, SD, 0) /\ mac'[m].bcnStart <= now'
  <2>1. now \in Nat /\ now <= now'
    BY <1>6, Durations DEF BeaconInv, TypeOK, DelayIsPositive
  <2>2. \A m \in Nodes : mac[m].bcnStart \in Nat /\ mac[m].bcnStart <= now
                                 /\ OnGrid(mac[m].bcnStart, SD, 0)
    BY StartTimes DEF GridInv
  <2> QED
    BY <1>6, <1>7, <2>1, <2>2
<1>9. ASSUME NEW f \in queue', f.do = "SetIdle" PROVE f.node \in Coords /\ OnGrid(f.at, SD, 0)
  <2>1. CASE f \in queue
    BY <1>9, <2>1 DEF GridInv
  <2>2. CASE f \notin queue
    <3>1. PICK x \in New : Like(f, x)
      BY <1>5, <2>2 DEF Adds
    <3>2. Kind(x) = "SetIdle"
      BY <1>9, <3>1, LikeKinds, KindsOfSender
    <3>3. mac[n].sendBcn /\ x.at = FirstBeacon(n, from) /\ x.node = n
      BY <1>4, <1>6, <3>2, ReceptionKinds
    <3>4. n \in Coords
      BY <1>1, <3>3, HeardBeacon
    <3>5. PICK b : b = Event(FirstBeacon(n, from), n, "SendBeacon", "OUT")
      OBVIOUS
    <3>6. b \in New /\ b.do = "SendBeacon" /\ b.at = x.at /\ b.node = n
      BY <1>4, <3>3, <3>5 DEF ReceptionEvents, BeaconEvents, Event
    <3>7. PICK g \in queue' : Like(g, b)
      BY <1>5, <3>6 DEF Adds
    <3>8. g.do = "SendBeacon" /\ g.at = x.at /\ g.node = n
      BY <3>6, <3>7 DEF Like
    <3>9. n \notin Devices /\ OnGrid(x.at, BI, BeaconSlot(n))
      BY <3>8 DEF BeaconInv, EventInv, EventInSlot, BeaconSlot
    <3>10. OnGrid(x.at, SD, 0)
      BY <3>9, SlotOnGrid
    <3> QED
      BY <3>1, <3>3, <3>4, <3>10, LikeKinds
  <2> QED
    BY <2>1, <2>2
<1> QED
  BY <1>8, <1>9 DEF GridInv

\* No other handler sets the start of a beacon or schedules SetIdle.
LEMMA QuietForGrid ==
  ASSUME BeaconInv, NEW ev \in queue, Handler(ev), ~SendOneEnhancedBeacon(ev), ~EndRx(ev)
  PROVE  /\ \A m \in Nodes : mac'[m].bcnStart = mac[m].bcnStart
         /\ \A f \in queue' : f.do = "SetIdle" => f \in queue
<1>1. CASE \/ StartGTS(ev) \/ EndGTS(ev) \/ SendGack(ev) \/ GackSent(ev)
           \/ (StartCAP(ev) \/ StartCFP(ev) \/ StartRemainingPeriod(ev)) /\ ev.arg # "OUT"
           \/ AwaitBeacon(ev) \/ StartSuperframe(ev) \/ StartMultisuperframe(ev) \/ SetIdle(ev)
           \/ BeaconLost(ev) \/ SyncRequest(ev) \/ BeaconSearchTimeout(ev)
  <2>1. \A m \in Nodes : mac'[m].bcnStart = mac[m].bcnStart
    BY <1>1, QuietForSender DEF KeepOwn
  <2>2. \/ Adds(queue \ {ev}, queue', {})
        \/ Touches({"gts"}) \/ Touches({"in"}) \/ Touches({"multi"}) \/ Touches({"SearchTimeout"})
        \/ Touches({"SyncRequest", "SearchTimeout"})
    BY <1>1, StartGtsStep, GtsSteps, InCapStep, InCfpStep, InRemainingStep, AwaitStep,
       SuperframeStep, MultiStep, SetIdleStep, BeaconLostStep, SyncStep, TimeoutStep
  <2> QED
    BY <2>1, <2>2, TouchesNot, KindsOfSender DEF Adds
<1>2. CASE (StartCAP(ev) \/ StartCFP(ev) \/ StartRemainingPeriod(ev)) /\ ev.arg = "OUT"
  <2>1. Touches({"own"}) /\ Only(ev.node) /\ KeepBeacon(ev.node)
    BY <1>2, OwnCapStep, OwnCfpStep, OwnRemainingStep
  <2> QED
    BY <2>1, TouchesNot, KindsOfSender DEF Only, KeepBeacon
<1>3. CASE StartTx(ev)
  <2>1. Touches({"own", "EndRx"}) /\ mac' = mac
    BY <1>3, StartTxStep
  <2> QED
    BY <2>1, TouchesNot, KindsOfSender
<1>4. CASE EndTx(ev)
  <2>1. Touches({"own", "gts"}) /\ Only(ev.node) /\ KeepBeacon(ev.node)
    BY <1>4, EndTxStep
  <2> QED
    BY <2>1, TouchesNot, KindsOfSender DEF Only, KeepBeacon
<1>5. CASE StartRequest(ev) /\ ev.node = PanC
  <2>1. Touches({"StartRequest", "multi", "own"}) /\ mac' = mac
    BY <1>5, PanStartStep
  <2> QED
    BY <2>1, TouchesNot, KindsOfSender
<1>6. CASE StartRequest(ev) /\ ev.node # PanC
  <2>1. Touches({"StartRequest", "gts"}) /\ RequestFrame
    BY <1>6, CoordStartStep
  <2> QED
    BY <2>1, TouchesNot, KindsOfSender DEF RequestFrame
<1> QED
  BY <1>1, <1>2, <1>3, <1>4, <1>5, <1>6 DEF Handler

LEMMA GridOfStep ==
  ASSUME BeaconInv, BeaconInv', SenderInv, GridInv, DelayIsPositive, NEW ev \in queue, First(ev),
         Handler(ev)
  PROVE  GridInv'
<1>1. CASE SendOneEnhancedBeacon(ev)
  BY <1>1, GridOfSender
<1>2. CASE EndRx(ev)
  BY <1>2, GridOfReception
<1>3. CASE ~SendOneEnhancedBeacon(ev) /\ ~EndRx(ev)
  <2>1. /\ \A m \in Nodes : mac'[m].bcnStart = mac[m].bcnStart
        /\ \A f \in queue' : f.do = "SetIdle" => f \in queue
    BY <1>3, QuietForGrid
  <2>2. now' \in Nat /\ now' >= now
    BY HandlerKeeps, Running DEF DelayIsPositive
  <2> QED
    BY <2>1, <2>2, GridFrame
<1> QED
  BY <1>1, <1>2, <1>3

LEMMA GridInvariant ==
  ASSUME StartsOnce
  PROVE  Spec /\ []DelayIsPositive => []GridInv
<1>1. ASSUME BeaconInv, BeaconInv', SenderInv, GridInv, DelayIsPositive, [Next]_vars PROVE GridInv'
  <2>1. ASSUME NEW ev \in queue, First(ev), Handler(ev) PROVE GridInv'
    BY <1>1, <2>1, GridOfStep
  <2>2. CASE UNCHANGED <<now, queue, mac>>
    <3>1. now \in Nat
      BY <1>1, Durations DEF BeaconInv, TypeOK
    <3> QED
      BY <1>1, <2>2, <3>1, GridFrame
  <2>3. ASSUME NEW late \in LateEntries, AddDsmeACTEntity(late.node, late.entry)
        PROVE  UNCHANGED <<now, queue, mac>>
    BY <2>3 DEF AddDsmeACTEntity
  <2>4. UNCHANGED vars => UNCHANGED <<now, queue, mac>>
    BY DEF vars
  <2> QED
    BY <1>1, <2>1, <2>2, <2>3, <2>4 DEF Next
<1>2. ASSUME Init PROVE GridInv
  <2>1. \A f \in queue : f.do # "SetIdle"
    BY <1>2, BootEvents
  <2>2. \A n \in Nodes : mac[n].bcnStart = 0 /\ now = 0
    BY <1>2 DEF Init, MacAtStart
  <2>3. OnGrid(0, SD, 0)
    BY Lengths DEF OnGrid
  <2> QED
    BY <2>1, <2>2, <2>3 DEF GridInv
<1> QED
  BY <1>1, <1>2, DsmeInvariant, DsmeSenders, PTL DEF Spec

-----------------------------------------------------------------------------
(* What a handler does is about one node *)

\* The events that are removed and those that are added.
Local(ev, q, New) ==
  /\ Adds(q, queue', New) /\ q \subseteq queue /\ Only(ev.node)
  /\ \A f \in queue : f \notin q => f = ev \/ f.do = "SearchTimeout"
  /\ \A x \in New : x.node = ev.node \/ x.do = "EndRx"

LEMMA LocalOne ==
  ASSUME NEW ev, NEW x, Adds(queue \ {ev}, queue', {x}) \/ Adds(queue \ {ev}, queue', {}),
         x.node = ev.node, Only(ev.node)
  PROVE  \E q, New : Local(ev, q, New)
<1>1. ASSUME NEW New, Adds(queue \ {ev}, queue', New), New \subseteq {x}
      PROVE  Local(ev, queue \ {ev}, New)
  BY <1>1 DEF Local
<1> QED
  BY <1>1

LEMMA StepIsLocal ==
  ASSUME BeaconInv, NEW ev \in queue, Handler(ev)
  PROVE  \E q, New : Local(ev, q, New)
<1>1. PICK n \in Nodes : n = ev.node
  BY Running
<1>2. PICK t : t = ev.at
  OBVIOUS
<1>3. \A s, h, a : Event(s, n, h, a).node = n
  BY DEF Event
<1>4. CASE StartGTS(ev)
  <2>1. Adds(queue \ {ev}, queue', GtsEvents(ev)) /\ Only(n)
    BY <1>1, <1>4, StartGtsStep
  <2>2. \A x \in GtsEvents(ev) : x.node = n
    BY <1>1 DEF GtsEvents, GtsEvent
  <2>3. Local(ev, queue \ {ev}, GtsEvents(ev))
    BY <1>1, <2>1, <2>2 DEF Local
  <2> QED
    BY <2>3
<1>5. CASE EndGTS(ev) \/ SendGack(ev) \/ GackSent(ev)
  <2>1. PICK x : x = GtsEvent(t + GackLen, n, "GackSent", ev.gts)
    OBVIOUS
  <2>2. x.node = n
    BY <2>1 DEF GtsEvent
  <2>3. (Adds(queue \ {ev}, queue', {x}) \/ Adds(queue \ {ev}, queue', {})) /\ Only(n)
    BY <1>1, <1>2, <1>5, <2>1, GtsSteps
  <2> QED
    BY <1>1, <2>2, <2>3, LocalOne
<1>6. CASE (StartCAP(ev) \/ StartCFP(ev) \/ StartRemainingPeriod(ev)) /\ ev.arg = "OUT"
  <2>1. CASE StartCAP(ev)
    <3>1. PICK x : x = Event(mac[n].bcnStart + CapLen, n, "StartCFP", "OUT")
      OBVIOUS
    <3>2. Adds(queue \ {ev}, queue', {x}) /\ Only(n)
      BY <1>1, <1>2, <1>6, <2>1, <3>1, OwnCapStep
    <3>3. x.node = n
      BY <3>1 DEF Event
    <3> QED
      BY <1>1, <3>2, <3>3, LocalOne
  <2>2. CASE StartCFP(ev)
    <3>1. PICK x : x = IF mac[n].firstCFP THEN Event(t + CapLen - BeaconDelay, n, "StartCFP", "OUT")
                       ELSE Event(t + CfpSlots * Slot, n, "StartRemainingPeriod", "OUT")
      OBVIOUS
    <3>2. Adds(queue \ {ev}, queue', {x}) /\ Only(n)
      BY <1>1, <1>2, <1>6, <2>2, <3>1, OwnCfpStep
    <3>3. x.node = n
      BY <3>1 DEF Event
    <3> QED
      BY <1>1, <3>2, <3>3, LocalOne
  <2>3. CASE StartRemainingPeriod(ev)
    <3>1. PICK x : x = Event(mac[n].bcnStart + BI, n, "SendBeacon", "OUT")
      OBVIOUS
    <3>2. Adds(queue \ {ev}, queue', {x}) /\ Only(n)
      BY <1>1, <1>2, <1>6, <2>3, <3>1, OwnRemainingStep
    <3>3. x.node = n
      BY <3>1 DEF Event
    <3> QED
      BY <1>1, <3>2, <3>3, LocalOne
  <2> QED
    BY <1>6, <2>1, <2>2, <2>3
<1>7. CASE (StartCAP(ev) \/ StartCFP(ev) \/ StartRemainingPeriod(ev)) /\ ev.arg # "OUT"
  <2>1. CASE StartCAP(ev)
    <3>1. PICK x : x = Event(t + IncomingCap, n, "StartCFP", "IN")
      OBVIOUS
    <3>2. Adds(queue \ {ev}, queue', {x}) /\ Only(n)
      BY <1>1, <1>2, <1>7, <2>1, <3>1, InCapStep
    <3>3. x.node = n
      BY <3>1 DEF Event
    <3> QED
      BY <1>1, <3>2, <3>3, LocalOne
  <2>2. CASE StartCFP(ev)
    <3>1. PICK x : x = IF mac[n].incFirstCFP THEN Event(t + IncomingCap, n, "StartCFP", "IN")
                       ELSE Event(t + CfpSlots * Slot, n, "StartRemainingPeriod", "IN")
      OBVIOUS
    <3>2. Adds(queue \ {ev}, queue', {x}) /\ Only(n)
      BY <1>1, <1>2, <1>7, <2>2, <3>1, InCfpStep
    <3>3. x.node = n
      BY <3>1 DEF Event
    <3> QED
      BY <1>1, <3>2, <3>3, LocalOne
  <2>3. CASE StartRemainingPeriod(ev)
    <3>1. PICK x : x = Event(t + BI - SD, n, "AwaitBeacon", "IN")
      OBVIOUS
    <3>2. Adds(queue \ {ev}, queue', {x}) /\ Only(n)
      BY <1>1, <1>2, <1>7, <2>3, <3>1, InRemainingStep
    <3>3. x.node = n
      BY <3>1 DEF Event
    <3> QED
      BY <1>1, <3>2, <3>3, LocalOne
  <2> QED
    BY <1>7, <2>1, <2>2, <2>3
<1>8. CASE AwaitBeacon(ev) \/ SetIdle(ev) \/ BeaconLost(ev)
  <2>1. Adds(queue \ {ev}, queue', {}) /\ Only(n)
    BY <1>1, <1>8, AwaitStep, SetIdleStep, BeaconLostStep DEF Only
  <2> QED
    BY <1>1, <2>1, LocalOne
<1>9. CASE StartSuperframe(ev) \/ SendOneEnhancedBeacon(ev) \/ BeaconSearchTimeout(ev)
  <2>1. CASE StartSuperframe(ev)
    <3>1. PICK x : x = Event(t + SD, n, "StartSuperframe", "OUT")
      OBVIOUS
    <3>2. Adds(queue \ {ev}, queue', {x}) /\ Only(n)
      BY <1>1, <1>2, <1>9, <2>1, <3>1, SuperframeStep
    <3>3. x.node = n
      BY <3>1 DEF Event
    <3> QED
      BY <1>1, <3>2, <3>3, LocalOne
  <2>2. CASE SendOneEnhancedBeacon(ev)
    <3>1. PICK x : x = Event(t + Turnaround, n, "StartTx", "OUT")
      OBVIOUS
    <3>2. Adds(queue \ {ev}, queue', {x}) /\ Only(n)
      BY <1>1, <1>2, <1>9, <2>2, <3>1, SendBeaconStep
    <3>3. x.node = n
      BY <3>1 DEF Event
    <3> QED
      BY <1>1, <3>2, <3>3, LocalOne
  <2>3. CASE BeaconSearchTimeout(ev)
    <3>1. PICK x : x = SearchEvent(n, t)
      OBVIOUS
    <3>2. x.node = n
      BY <1>3, <3>1 DEF SearchEvent
    <3>3. (Adds(queue \ {ev}, queue', {x}) \/ Adds(queue \ {ev}, queue', {})) /\ Only(n)
      BY <1>1, <1>2, <2>3, <3>1, TimeoutStep
    <3> QED
      BY <1>1, <3>2, <3>3, LocalOne
  <2> QED
    BY <1>9, <2>1, <2>2, <2>3
<1>10. CASE StartMultisuperframe(ev)
  <2>1. Adds(queue \ {ev}, queue', MultiEvents(ev)) /\ Only(n)
    BY <1>1, <1>10, MultiStep
  <2>2. \A x \in MultiEvents(ev) : x.node = n
    BY <1>1 DEF MultiEvents, Event
  <2>3. Local(ev, queue \ {ev}, MultiEvents(ev))
    BY <1>1, <2>1, <2>2 DEF Local
  <2> QED
    BY <2>3
<1>11. CASE StartTx(ev)
  <2>1. PICK New : New = {Event(t + BeaconLen, n, "EndTx", "OUT")}
                         \cup {Event(t + BeaconLen, m, "EndRx", n) : m \in hearing'}
    OBVIOUS
  <2>2. Adds(queue \ {ev}, queue', New) /\ Only(n)
    BY <1>1, <1>2, <1>11, <2>1, StartTxStep DEF Only
  <2>3. \A x \in New : x.node = n \/ x.do = "EndRx"
    BY <2>1 DEF Event
  <2>4. Local(ev, queue \ {ev}, New)
    BY <1>1, <2>2, <2>3 DEF Local
  <2> QED
    BY <2>4
<1>12. CASE EndTx(ev) \/ (StartRequest(ev) /\ ev.node # PanC)
  <2>1. \A x \in GtsItems(n, t) : x.node = n
    BY DEF GtsItems, GtsEvent
  <2>2. CapEvent(ev).node = n
    BY <1>1 DEF CapEvent, Event
  <2>3. PICK New : Adds(queue \ {ev}, queue', New) /\ New \subseteq GtsItems(n, t) \cup {CapEvent(ev)}
    BY <1>1, <1>2, <1>12, EndTxStep, CoordStartStep
  <2>4. Only(n)
    BY <1>1, <1>12, EndTxStep, CoordStartStep
  <2>5. Local(ev, queue \ {ev}, New)
    BY <1>1, <2>1, <2>2, <2>3, <2>4 DEF Local
  <2> QED
    BY <2>5
<1>13. CASE StartRequest(ev) /\ ev.node = PanC
  <2>1. PICK New : New = {Event(t, PanC, "StartMultisuperframe", "OUT"),
                          Event(t, PanC, "SendBeacon", "OUT")}
    OBVIOUS
  <2>2. Adds(queue \ {ev}, queue', New) /\ Only(n)
    BY <1>1, <1>2, <1>13, <2>1, PanStartStep DEF Only
  <2>3. Local(ev, queue \ {ev}, New)
    BY <1>1, <1>13, <2>1, <2>2 DEF Local, Event
  <2> QED
    BY <2>3
<1>14. CASE EndRx(ev) \/ SyncRequest(ev)
  <2>1. PICK q : q = Cancel(queue \ {ev}, n, "SearchTimeout")
    OBVIOUS
  <2>2. q \subseteq queue /\ \A f \in queue : f \notin q => f = ev \/ f.do = "SearchTimeout"
    BY <2>1 DEF Cancel
  <2>3. Only(n)
    BY <1>1, <1>14, EndRxStep, SyncStep
  <2>4. CASE EndRx(ev)
    <3>1. PICK New : New = ReceptionEvents(n, ev.arg, t)
      OBVIOUS
    <3>2. Adds(q, queue', New)
      BY <1>1, <1>2, <2>1, <2>4, <3>1, EndRxStep
    <3>3. \A x \in New : x.node = n
      BY <3>1 DEF ReceptionEvents, BeaconEvents, GtsOfBeacon, PeriodEvents, PeriodEvent, GtsItems,
                  GtsEvent, Event
    <3>4. Local(ev, q, New)
      BY <1>1, <2>2, <2>3, <3>2, <3>3 DEF Local
    <3> QED
      BY <3>4
  <2>5. CASE SyncRequest(ev)
    <3>1. PICK New : New = {SearchEvent(n, t)}
      OBVIOUS
    <3>2. Adds(q, queue', New)
      BY <1>1, <1>2, <2>1, <2>5, <3>1, SyncStep
    <3>3. \A x \in New : x.node = n
      BY <3>1 DEF SearchEvent, Event
    <3>4. Local(ev, q, New)
      BY <1>1, <2>2, <2>3, <3>2, <3>3 DEF Local
    <3> QED
      BY <3>4
  <2> QED
    BY <1>14, <2>4, <2>5
<1> QED
  BY <1>4, <1>5, <1>6, <1>7, <1>8, <1>9, <1>10, <1>11, <1>12, <1>13, <1>14 DEF Handler

-----------------------------------------------------------------------------
(* The MAC and the radio in a GTS and between GTSs *)

RadioEvent(f) == f.do \in {"EndGTS", "GackSent", "StartTx", "EndTx"}
SameRadioEvents(n) == \A f : RadioEvent(f) /\ f.node = n => (f \in queue' <=> f \in queue)

LEMMA RadioKept ==
  ASSUME BeaconInv, NEW n \in Nodes, RadioOk(n), KeepRadio(n), SameRadioEvents(n),
         \A i \in DOMAIN act[n] : act'[n][i] = act[n][i]
  PROVE  RadioOk(n)'
<1>1. \A f : f.node = n /\ (Ends(f) \/ f.do \in {"GackSent", "StartTx", "EndTx"}) =>
               (f \in queue' <=> f \in queue)
  BY DEF SameRadioEvents, RadioEvent, Ends
<1>2. ASSUME NEW f \in queue', Ends(f), f.node = n PROVE InGts(f)'
  <2>1. f \in queue /\ InGts(f)
    BY <1>1, <1>2 DEF RadioOk
  <2>2. f.gts \in DOMAIN act[n]
    BY <1>2, <2>1, Running DEF EventTypes, GtsHandlers, Ends
  <2>3. act'[n][f.gts] = act[n][f.gts]
    BY <2>2
  <2> QED
    BY <1>1, <1>2, <2>1, <2>3 DEF InGts, KeepRadio
<1>3. ASSUME \A f \in queue' : Ends(f) => f.node # n PROVE InNoGts(n)'
  <2>1. \A f \in queue : Ends(f) => f.node # n
    BY <1>1, <1>3
  <2>2. InNoGts(n)
    BY <2>1 DEF RadioOk
  <2> QED
    BY <1>1, <2>2 DEF InNoGts, KeepRadio
<1> QED
  BY <1>2, <1>3 DEF RadioOk, Ends

LEMMA OthersKept ==
  ASSUME BeaconInv, NEW ev \in queue, Handler(ev), NEW m \in Nodes, m # ev.node
  PROVE  mac'[m] = mac[m] /\ SameRadioEvents(m)
<1>1. PICK q, New : Local(ev, q, New)
  BY StepIsLocal
<1>2. mac'[m] = mac[m]
  BY <1>1 DEF Local, Only
<1>3. ASSUME NEW f, RadioEvent(f), f.node = m PROVE f \in queue' <=> f \in queue
  <2>1. f \in queue => f \in queue'
    BY <1>1, <1>3 DEF Local, Adds, RadioEvent
  <2>2. ASSUME f \in queue', f \notin queue PROVE FALSE
    <3>1. PICK x \in New : Like(f, x)
      BY <1>1, <2>2 DEF Local, Adds
    <3>2. x.node = m /\ RadioEvent(x)
      BY <1>3, <3>1, LikeKinds DEF RadioEvent
    <3> QED
      BY <1>1, <3>2 DEF Local, RadioEvent
  <2> QED
    BY <2>1, <2>2
<1> QED
  BY <1>2, <1>3 DEF SameRadioEvents

LEMMA RadioOfOthers ==
  ASSUME BeaconInv, RadioInv, NEW ev \in queue, Handler(ev), NEW m \in Nodes, m # ev.node
  PROVE  RadioOk(m)'
<1>1. mac'[m] = mac[m] /\ SameRadioEvents(m)
  BY OthersKept
<1>2. act' = act
  BY HandlerKeeps
<1> QED
  BY <1>1, <1>2, RadioKept DEF RadioInv, KeepRadio

LEMMA RadioNotAdded ==
  ASSUME NEW ev, NEW New, NEW q, Adds(q, queue', New), q \subseteq queue, ~RadioEvent(ev),
         \A f \in queue : f \notin q => f = ev \/ f.do = "SearchTimeout",
         \A x \in New : ~RadioEvent(x), NEW n
  PROVE  SameRadioEvents(n)
<1> SUFFICES ASSUME NEW f, RadioEvent(f) PROVE f \in queue' <=> f \in queue
  BY DEF SameRadioEvents
<1>1. f \in queue => f \in queue'
  BY DEF Adds, RadioEvent
<1>2. ASSUME f \in queue', f \notin queue PROVE FALSE
  <2>1. PICK x \in New : Like(f, x)
    BY <1>2 DEF Adds
  <2> QED
    BY <2>1, LikeKinds DEF RadioEvent
<1> QED
  BY <1>1, <1>2

\* The handlers that leave the radio alone.
LEMMA QuietForRadio ==
  ASSUME BeaconInv, NEW ev \in queue,
         \/ StartCAP(ev) \/ StartCFP(ev) \/ StartRemainingPeriod(ev) \/ AwaitBeacon(ev)
         \/ StartSuperframe(ev) \/ StartMultisuperframe(ev) \/ StartRequest(ev) \/ BeaconLost(ev)
         \/ BeaconSearchTimeout(ev) /\ ~(IsLost(ev.node) /\ callback = "resync")
  PROVE  SameRadioEvents(ev.node) /\ KeepRadio(ev.node)
<1>1. PICK n \in Nodes : n = ev.node
  BY Running
<1>2. PICK t : t = ev.at
  OBVIOUS
<1>3. ~RadioEvent(ev)
  BY DEF RadioEvent, StartCAP, StartCFP, StartRemainingPeriod, AwaitBeacon, StartSuperframe,
         StartMultisuperframe, StartRequest, BeaconLost, BeaconSearchTimeout, Runs
<1>4. ASSUME NEW New, Adds(queue \ {ev}, queue', New), \A x \in New : ~RadioEvent(x)
      PROVE  SameRadioEvents(n)
  BY <1>3, <1>4, RadioNotAdded
<1>5. \A s, m, a : \A h \in {"StartCAP", "StartCFP", "StartRemainingPeriod", "SendBeacon",
                             "AwaitBeacon", "StartSuperframe", "StartMultisuperframe",
                             "SearchTimeout"} : ~RadioEvent(Event(s, m, h, a))
  BY DEF RadioEvent, Event
<1>6. CASE (StartCAP(ev) \/ StartCFP(ev) \/ StartRemainingPeriod(ev)) /\ ev.arg = "OUT"
  <2>1. KeepRadio(n)
    BY <1>1, <1>6, OwnCapStep, OwnCfpStep, OwnRemainingStep
  <2>2. CASE StartCAP(ev)
    <3>1. PICK x : x = Event(mac[n].bcnStart + CapLen, n, "StartCFP", "OUT")
      OBVIOUS
    <3>2. Adds(queue \ {ev}, queue', {x})
      BY <1>1, <1>2, <1>6, <2>2, <3>1, OwnCapStep
    <3>3. ~RadioEvent(x)
      BY <1>5, <3>1
    <3> QED
      BY <1>1, <1>4, <2>1, <3>2, <3>3
  <2>3. CASE StartCFP(ev)
    <3>1. PICK x : x = IF mac[n].firstCFP
                       THEN Event(ev.at + CapLen - BeaconDelay, n, "StartCFP", "OUT")
                       ELSE Event(t + CfpSlots * Slot, n, "StartRemainingPeriod", "OUT")
      OBVIOUS
    <3>2. Adds(queue \ {ev}, queue', {x})
      BY <1>1, <1>2, <1>6, <2>3, <3>1, OwnCfpStep
    <3>3. ~RadioEvent(x)
      BY <1>5, <3>1
    <3> QED
      BY <1>1, <1>4, <2>1, <3>2, <3>3
  <2>4. CASE StartRemainingPeriod(ev)
    <3>1. PICK x : x = Event(mac[n].bcnStart + BI, n, "SendBeacon", "OUT")
      OBVIOUS
    <3>2. Adds(queue \ {ev}, queue', {x})
      BY <1>1, <1>2, <1>6, <2>4, <3>1, OwnRemainingStep
    <3>3. ~RadioEvent(x)
      BY <1>5, <3>1
    <3> QED
      BY <1>1, <1>4, <2>1, <3>2, <3>3
  <2> QED
    BY <1>6, <2>2, <2>3, <2>4
<1>7. CASE (StartCAP(ev) \/ StartCFP(ev) \/ StartRemainingPeriod(ev)) /\ ev.arg # "OUT"
  <2>1. KeepRadio(n)
    BY <1>1, <1>7, InCapStep, InCfpStep, InRemainingStep DEF InFrame
  <2>2. CASE StartCAP(ev)
    <3>1. PICK x : x = Event(t + IncomingCap, n, "StartCFP", "IN")
      OBVIOUS
    <3>2. Adds(queue \ {ev}, queue', {x})
      BY <1>1, <1>2, <1>7, <2>2, <3>1, InCapStep
    <3>3. ~RadioEvent(x)
      BY <1>5, <3>1
    <3> QED
      BY <1>1, <1>4, <2>1, <3>2, <3>3
  <2>3. CASE StartCFP(ev)
    <3>1. PICK x : x = IF mac[n].incFirstCFP THEN Event(t + IncomingCap, n, "StartCFP", "IN")
                       ELSE Event(t + CfpSlots * Slot, n, "StartRemainingPeriod", "IN")
      OBVIOUS
    <3>2. Adds(queue \ {ev}, queue', {x})
      BY <1>1, <1>2, <1>7, <2>3, <3>1, InCfpStep
    <3>3. ~RadioEvent(x)
      BY <1>5, <3>1
    <3> QED
      BY <1>1, <1>4, <2>1, <3>2, <3>3
  <2>4. CASE StartRemainingPeriod(ev)
    <3>1. PICK x : x = Event(t + BI - SD, n, "AwaitBeacon", "IN")
      OBVIOUS
    <3>2. Adds(queue \ {ev}, queue', {x})
      BY <1>1, <1>2, <1>7, <2>4, <3>1, InRemainingStep
    <3>3. ~RadioEvent(x)
      BY <1>5, <3>1
    <3> QED
      BY <1>1, <1>4, <2>1, <3>2, <3>3
  <2> QED
    BY <1>7, <2>2, <2>3, <2>4
<1>8. CASE AwaitBeacon(ev) \/ BeaconLost(ev)
  <2>1. Adds(queue \ {ev}, queue', {}) /\ KeepRadio(n)
    BY <1>1, <1>8, AwaitStep, BeaconLostStep DEF InFrame, KeepRadio
  <2> QED
    BY <1>1, <1>4, <2>1
<1>9. CASE StartSuperframe(ev)
  <2>1. KeepRadio(n)
    BY <1>1, <1>9, SuperframeStep DEF IdxFrame
  <2>2. PICK x : x = Event(t + SD, n, "StartSuperframe", "OUT")
    OBVIOUS
  <2>3. Adds(queue \ {ev}, queue', {x})
    BY <1>1, <1>2, <1>9, <2>2, SuperframeStep
  <2>4. ~RadioEvent(x)
    BY <1>5, <2>2
  <2> QED
    BY <1>1, <1>4, <2>1, <2>3, <2>4
<1>10. CASE StartMultisuperframe(ev)
  <2>1. KeepRadio(n) /\ Adds(queue \ {ev}, queue', MultiEvents(ev))
    BY <1>1, <1>10, MultiStep DEF IdxFrame
  <2>2. \A x \in MultiEvents(ev) : ~RadioEvent(x)
    BY <1>5 DEF MultiEvents
  <2> QED
    BY <1>1, <1>4, <2>1, <2>2
<1>11. CASE StartRequest(ev) /\ ev.node = PanC
  <2>1. KeepRadio(n)
    BY <1>1, <1>11, PanStartStep DEF KeepRadio
  <2>2. PICK New : New = {Event(t, PanC, "StartMultisuperframe", "OUT"),
                          Event(t, PanC, "SendBeacon", "OUT")}
    OBVIOUS
  <2>3. Adds(queue \ {ev}, queue', New)
    BY <1>1, <1>2, <1>11, <2>2, PanStartStep
  <2>4. \A x \in New : ~RadioEvent(x)
    BY <1>5, <2>2
  <2> QED
    BY <1>1, <1>4, <2>1, <2>3, <2>4
<1>12. CASE StartRequest(ev) /\ ev.node # PanC
  <2>1. KeepRadio(n) /\ Adds(queue \ {ev}, queue', GtsItems(n, t))
    BY <1>1, <1>2, <1>12, CoordStartStep DEF RequestFrame
  <2>2. \A x \in GtsItems(n, t) : ~RadioEvent(x)
    BY DEF GtsItems, GtsEvent, RadioEvent
  <2> QED
    BY <1>1, <1>4, <2>1, <2>2
<1>13. CASE BeaconSearchTimeout(ev) /\ ~(IsLost(ev.node) /\ callback = "resync")
  <2>1. PICK x : x = SearchEvent(n, t)
    OBVIOUS
  <2>2. ~RadioEvent(x)
    BY <1>5, <2>1 DEF SearchEvent
  <2>3. KeepRadio(n) /\ (Adds(queue \ {ev}, queue', {x}) \/ Adds(queue \ {ev}, queue', {}))
    BY <1>1, <1>2, <1>13, <2>1, TimeoutStep
  <2> QED
    BY <1>1, <1>4, <2>2, <2>3
<1> QED
  BY <1>6, <1>7, <1>8, <1>9, <1>10, <1>11, <1>12, <1>13

\* The handlers of GTSs.
LEMMA RadioOfGts ==
  ASSUME BeaconInv, CellInv, CellInv', RadioInv, NEW ev \in queue,
         StartGTS(ev) \/ EndGTS(ev) \/ SendGack(ev) \/ GackSent(ev)
  PROVE  RadioOk(ev.node)'
<1>1. PICK n \in Nodes : n = ev.node
  BY Running
<1>2. PICK i \in DOMAIN act[n] : i = ev.gts
  BY <1>1, Running DEF EventTypes, GtsHandlers, StartGTS, EndGTS, SendGack, GackSent, Runs
<1>3. act' = act /\ (\A e, f \in queue : Ends(e) /\ Ends(f) /\ e.node = f.node => e = f)
      /\ (\A e, f \in queue' : Ends(e) /\ Ends(f) /\ e.node = f.node => e = f)
  BY HandlerKeeps DEF Handler, CellInv, OneEnd, Ends
<1>4. CASE StartGTS(ev)
  <2>1. PICK x : x = GtsEvent(ev.at + EndGtsTime, n, "EndGTS", i)
    OBVIOUS
  <2>2. x \in GtsEvents(ev) /\ x.do = "EndGTS" /\ x.node = n /\ x.gts = i
    BY <1>1, <1>2, <2>1 DEF GtsEvents, GtsEvent
  <2>3. PICK g \in queue' : Like(g, x)
    BY <1>4, <2>2, StartGtsStep DEF Adds
  <2>4. Ends(g) /\ g.node = n /\ g.gts = i
    BY <2>2, <2>3, LikeKinds DEF Ends
  <2>5. mac'[n].state = "GTS" /\ mac'[n].gts = i /\ mac'[n].rxOn = act[n][i].rx
    BY <1>1, <1>2, <1>4, StartGtsStep
  <2>6. InGts(g)'
    BY <1>3, <2>4, <2>5 DEF InGts
  <2>7. \A f \in queue' : Ends(f) /\ f.node = n => f = g
    BY <1>3, <2>4
  <2> QED
    BY <1>1, <2>4, <2>6, <2>7 DEF RadioOk, Ends
<1>5. CASE EndGTS(ev)
  <2>1. /\ Adds(queue \ {ev}, queue', {}) /\ mac'[n].state = "IDLE"
        /\ mac'[n].channel = CapChannel /\ mac'[n].rxOn = TRUE
    BY <1>1, <1>5, GtsSteps
  <2>2. Ends(ev)
    BY <1>5 DEF EndGTS, Runs, Ends
  <2>3. \A f \in queue' : Ends(f) => f.node # n
    BY <1>1, <1>3, <2>1, <2>2 DEF Adds
  <2>4. InNoGts(n)'
    BY <2>1 DEF InNoGts
  <2> QED
    BY <1>1, <2>3, <2>4 DEF RadioOk, Ends
<1>6. CASE SendGack(ev) \/ GackSent(ev)
  <2>1. Acks(ev) /\ (SendGack(ev) => ev.do = "SendGack") /\ (GackSent(ev) => ev.do = "GackSent")
    BY <1>6 DEF SendGack, GackSent, Runs, Acks
  <2>2. PICK f \in queue : AckOf(ev, f)
    BY <2>1 DEF CellInv, OneAck
  <2>3. Ends(f) /\ f.node = n /\ f.gts = i
    BY <1>1, <1>2, <2>2 DEF AckOf, SameGts
  <2>4. f # ev
    BY <2>1, <2>3 DEF Ends, Acks
  <2>5. PICK x : x = GtsEvent(ev.at + GackLen, n, "GackSent", i)
    OBVIOUS
  <2>6. x.do = "GackSent" /\ x.node = n
    BY <2>5 DEF GtsEvent
  <2>7. Adds(queue \ {ev}, queue', {x}) \/ Adds(queue \ {ev}, queue', {})
    BY <1>1, <1>2, <1>6, <2>5, GtsSteps
  <2>8. f \in queue' /\ \A g \in queue' : Ends(g) /\ g.node = n => g = f
    <3>1. f \in queue'
      BY <2>4, <2>7 DEF Adds
    <3> QED
      BY <1>3, <2>3, <3>1
  <2>9. InGts(f)
    BY <2>3 DEF RadioInv, RadioOk
  <2>10. mac'[n].rxOn = mac[n].rxOn /\ mac'[n].gts = mac[n].gts
    BY <1>1, <1>6, GtsSteps
  <2>11. CASE SendGack(ev)
    <3>1. mac'[n].state = "GTS_SENDING" /\ Adds(queue \ {ev}, queue', {x})
      BY <1>1, <1>2, <2>5, <2>11, GtsSteps
    <3>2. PICK g \in queue' : Like(g, x)
      BY <3>1 DEF Adds
    <3>3. g.do = "GackSent" /\ g.node = n
      BY <2>6, <3>2, LikeKinds
    <3>4. InGts(f)'
      BY <1>3, <2>3, <2>9, <2>10, <3>1, <3>3 DEF InGts
    <3> QED
      BY <1>1, <2>3, <2>8, <3>4 DEF RadioOk, Ends
  <2>12. CASE GackSent(ev)
    <3>1. mac'[n].state = "GTS"
      BY <1>1, <2>12, GtsSteps
    <3>2. InGts(f)'
      BY <1>3, <2>3, <2>9, <2>10, <3>1 DEF InGts
    <3> QED
      BY <1>1, <2>3, <2>8, <3>2 DEF RadioOk, Ends
  <2> QED
    BY <1>6, <2>11, <2>12
<1> QED
  BY <1>4, <1>5, <1>6

\* No GTS of a node is open while a beacon is sent in its own superframe or in
\* that of another coordinator; a device is late with its GTSs.
LEMMA NoGtsAfterGrid ==
  ASSUME Disciplined, BeaconInv, CellInv, NEW ev \in queue, First(ev), DelayIsPositive,
         NEW n \in Nodes, NEW b, OnGrid(b, SD, 0), NEW d \in Nat, d < Slot,
         ev.at = b + Lateness(n) + d
  PROVE  \A f \in queue : Ends(f) => f.node # n
<1>1. PICK k \in Nat : b = k * SD + 0
  BY DEF OnGrid
<1>2. k * SD \in Nat
  BY Lengths
<1>3. ev.at = k * SD + Lateness(n) + d
  BY <1>1, <1>2
<1> QED
  BY <1>3, NoGtsAtBeacon

LEMMA NoGtsOfSender ==
  ASSUME Disciplined, BeaconInv, SenderInv, CellInv, GridInv, NEW ev \in queue, First(ev),
         DelayIsPositive, ev.do \in {"SetIdle", "SendBeacon", "StartTx", "EndTx"}
  PROVE  \A f \in queue : Ends(f) => f.node # ev.node
<1>1. PICK n \in Nodes : n = ev.node
  BY Running
<1>2. PICK t \in Nat : t = ev.at
  BY Running
<1>3. Turnaround \in Nat /\ Turnaround < Slot /\ BeaconDelay \in Nat /\ BeaconDelay < Slot
      /\ Slot \in Nat /\ Slot > 0
  BY Lengths
<1>4. PICK d \in Nat : d = IF ev.do = "StartTx" THEN Turnaround
                           ELSE IF ev.do = "EndTx" THEN BeaconDelay ELSE 0
  BY <1>3
<1>5. d < Slot
  BY <1>3, <1>4
<1>6. n \notin Devices /\ \E b \in Nat : OnGrid(b, SD, 0) /\ t = b + d
  <2>1. CASE ev.do = "SetIdle"
    <3>1. n \in Coords /\ OnGrid(t, SD, 0)
      BY <1>1, <1>2, <2>1 DEF GridInv
    <3>2. t = t + d
      BY <1>4, <2>1
    <3> QED
      BY <3>1, <3>2, DsmeConstants
  <2>2. CASE ev.do = "SendBeacon"
    <3>1. n \notin Devices /\ OnGrid(t, BI, BeaconSlot(n))
      BY <1>1, <1>2, <2>2, Running DEF EventInSlot
    <3>2. OnGrid(t, SD, 0)
      BY <3>1, SlotOnGrid
    <3>3. t = t + d
      BY <1>4, <2>2
    <3> QED
      BY <3>1, <3>2, <3>3
  <2>3. CASE ev.do \in {"StartTx", "EndTx"}
    <3>1. ev.arg = "OUT"
      BY <2>3, Running DEF EventTypes
    <3>2. OfSender(ev) /\ n \notin Devices
      BY <1>1, <2>3, <3>1, Running DEF OfSender, OwnPeriods, EventInSlot
    <3>3. PICK b \in Nat : b = mac[n].bcnStart
      BY StartTimes
    <3>4. t = b + d
      BY <1>1, <1>2, <1>4, <2>3, <3>2, <3>3 DEF SenderInv, OwnTimes, OwnTime
    <3>5. OnGrid(b, SD, 0)
      BY <3>3 DEF GridInv
    <3> QED
      BY <3>2, <3>4, <3>5
  <2> QED
    BY <2>1, <2>2, <2>3
<1>7. PICK b \in Nat : OnGrid(b, SD, 0) /\ t = b + d
  BY <1>6
<1>8. Lateness(n) = 0
  BY <1>6 DEF Lateness
<1>9. ev.at = b + Lateness(n) + d
  BY <1>2, <1>7, <1>8
<1> QED
  BY <1>1, <1>5, <1>7, <1>9, NoGtsAfterGrid

LEMMA NoGtsOfReceiver ==
  ASSUME Disciplined, BeaconInv, SenderInv, CellInv, GridInv, NEW ev \in queue, First(ev),
         DelayIsPositive, EndRx(ev)
  PROVE  \A f \in queue : Ends(f) => f.node # ev.node
<1>1. PICK n \in Nodes : n = ev.node
  BY Running
<1>2. PICK from \in Nodes : from = ev.arg /\ ev.at = mac[from].bcnStart + BeaconDelay
  BY HeardBeacon
<1>3. PICK b \in Nat : b = mac[from].bcnStart
  BY StartTimes
<1>4. OnGrid(b, SD, 0)
  BY <1>3 DEF GridInv
<1>5. BeaconDelay \in Nat /\ BeaconDelay < Slot /\ Slot \in Nat
  BY Lengths
<1>6. PICK d \in Nat : d = IF n \in Devices THEN 0 ELSE BeaconDelay
  BY <1>5
<1>7. d < Slot
  BY <1>5, <1>6
<1>8. ev.at = b + Lateness(n) + d
  BY <1>2, <1>3, <1>5, <1>6 DEF Lateness
<1> QED
  BY <1>1, <1>4, <1>7, <1>8, NoGtsAfterGrid

\* The sender of a beacon.
LEMMA RadioOfSender ==
  ASSUME Disciplined, BeaconInv, SenderInv, CellInv, GridInv, RadioInv, NEW ev \in queue,
         First(ev), DelayIsPositive,
         SetIdle(ev) \/ SendOneEnhancedBeacon(ev) \/ StartTx(ev) \/ EndTx(ev)
  PROVE  RadioOk(ev.node)'
<1>1. PICK n \in Nodes : n = ev.node
  BY Running
<1>2. PICK t : t = ev.at
  OBVIOUS
<1>3. ev.do \in {"SetIdle", "SendBeacon", "StartTx", "EndTx"}
  BY DEF SetIdle, SendOneEnhancedBeacon, StartTx, EndTx, Runs
<1>4. \A f \in queue : Ends(f) => f.node # n
  BY <1>1, <1>3, NoGtsOfSender
<1>5. InNoGts(n)
  BY <1>4 DEF RadioInv, RadioOk
<1>6. ASSUME NEW New, Adds(queue \ {ev}, queue', New), \A x \in New : ~Ends(x), InNoGts(n)'
      PROVE  RadioOk(n)'
  <2>1. ASSUME NEW f \in queue', Ends(f) PROVE f.node # n
    <3>1. CASE f \in queue
      BY <1>4, <2>1, <3>1
    <3>2. CASE f \notin queue
      <4>1. PICK x \in New : Like(f, x)
        BY <1>6, <3>2 DEF Adds
      <4> QED
        BY <1>6, <2>1, <4>1, LikeKinds DEF Ends
    <3> QED
      BY <3>1, <3>2
  <2> QED
    BY <1>6, <2>1 DEF RadioOk, Ends
<1>7. CASE SetIdle(ev)
  <2>1. /\ Adds(queue \ {ev}, queue', {}) /\ mac'[n].state = "IDLE" /\ mac'[n].rxOn = TRUE
        /\ mac'[n].channel = mac[n].channel
    BY <1>1, <1>7, SetIdleStep
  <2>2. InNoGts(n)'
    BY <1>5, <2>1 DEF InNoGts
  <2> QED
    BY <1>1, <1>6, <2>1, <2>2
<1>8. CASE SendOneEnhancedBeacon(ev)
  <2>1. PICK x : x = Event(t + Turnaround, n, "StartTx", "OUT")
    OBVIOUS
  <2>2. x.do = "StartTx" /\ x.node = n
    BY <2>1 DEF Event
  <2>3. /\ Adds(queue \ {ev}, queue', {x}) /\ mac'[n].state = "SENDING"
        /\ mac'[n].channel = mac[n].channel
    BY <1>1, <1>2, <1>8, <2>1, SendBeaconStep
  <2>4. PICK g \in queue' : Like(g, x)
    BY <2>3 DEF Adds
  <2>5. g.do = "StartTx" /\ g.node = n
    BY <2>2, <2>4, LikeKinds
  <2>6. InNoGts(n)'
    BY <1>5, <2>3, <2>5 DEF InNoGts
  <2> QED
    BY <1>1, <1>6, <2>2, <2>3, <2>6 DEF Ends
<1>9. CASE StartTx(ev)
  <2>1. PICK x : x = Event(t + BeaconLen, n, "EndTx", "OUT")
    OBVIOUS
  <2>2. PICK New : New = {x} \cup {Event(t + BeaconLen, m, "EndRx", n) : m \in hearing'}
    OBVIOUS
  <2>3. Adds(queue \ {ev}, queue', New) /\ mac' = mac
    BY <1>1, <1>2, <1>9, <2>1, <2>2, StartTxStep
  <2>4. x.do = "EndTx" /\ x.node = n /\ x \in New
    BY <2>1, <2>2 DEF Event
  <2>5. PICK g \in queue' : Like(g, x)
    BY <2>3, <2>4 DEF Adds
  <2>6. g.do = "EndTx" /\ g.node = n
    BY <2>4, <2>5, LikeKinds
  <2>7. InNoGts(n)'
    BY <1>5, <2>3, <2>6 DEF InNoGts
  <2>8. \A y \in New : ~Ends(y)
    BY <2>2, <2>4 DEF Ends, Event
  <2> QED
    BY <1>1, <1>6, <2>3, <2>7, <2>8
<1>10. CASE EndTx(ev)
  <2>1. PICK New : New = (IF n # PanC THEN GtsItems(n, t) ELSE {}) \cup {CapEvent(ev)}
    OBVIOUS
  <2>2. /\ Adds(queue \ {ev}, queue', New) /\ mac'[n].state = "IDLE" /\ mac'[n].rxOn = TRUE
        /\ mac'[n].channel = mac[n].channel
    BY <1>1, <1>2, <1>10, <2>1, EndTxStep
  <2>3. InNoGts(n)'
    BY <1>5, <2>2 DEF InNoGts
  <2>4. \A y \in New : ~Ends(y)
    BY <2>1 DEF Ends, CapEvent, Event, GtsItems, GtsEvent
  <2> QED
    BY <1>1, <1>6, <2>2, <2>3, <2>4
<1> QED
  BY <1>7, <1>8, <1>9, <1>10

\* The receiver of a beacon, and one that looks for it.
LEMMA RadioOfReceiver ==
  ASSUME Disciplined, BeaconInv, SenderInv, CellInv, GridInv, RadioInv, NEW ev \in queue,
         First(ev), DelayIsPositive, EndRx(ev)
  PROVE  RadioOk(ev.node)'
<1>1. PICK n \in Nodes : n = ev.node
  BY Running
<1>2. PICK from : from = ev.arg
  OBVIOUS
<1>3. PICK q : q = Cancel(queue \ {ev}, n, "SearchTimeout")
  OBVIOUS
<1>4. PICK New : New = ReceptionEvents(n, from, ev.at)
  OBVIOUS
<1>5. Adds(q, queue', New) /\ mac'[n] = AfterBeacon(n, from)
  BY <1>1, <1>2, <1>3, <1>4, EndRxStep
<1>6. mac[from].bitmapSd % NumSuperframes = 0 /\ ev.do = "EndRx"
  BY <1>2, HeardBeacon
<1>7. \A f \in queue : Ends(f) => f.node # n
  BY <1>1, NoGtsOfReceiver
<1>8. InNoGts(n)
  BY <1>7 DEF RadioInv, RadioOk
<1>9. \A f \in queue' : Ends(f) => f.node # n
  <2> SUFFICES ASSUME NEW f \in queue', Ends(f), f.node = n PROVE FALSE
    OBVIOUS
  <2>1. f \notin q
    BY <1>3, <1>7 DEF Cancel
  <2>2. PICK x \in New : Like(f, x)
    BY <1>5, <2>1 DEF Adds
  <2>3. Kind(x) = "gts" /\ Ends(x)
    BY <2>2, LikeKinds, GtsKinds DEF Ends
  <2> QED
    BY <1>4, <1>6, <2>3, ReceptionKinds DEF Ends
<1>10. PICK r : r = AfterBeacon(n, from)
  OBVIOUS
<1>11. /\ r.channel = mac[n].channel
       /\ r.state = (IF NoIncomingCap(n, from) THEN mac[n].state ELSE "IDLE")
       /\ r.rxOn = (NoIncomingCap(n, from) => mac[n].rxOn)
  BY <1>10, AfterBeaconFields
<1>12. \A f \in queue : f.do \in {"StartTx", "EndTx"} => f \in queue'
  BY <1>3, <1>5, <1>6 DEF Adds, Cancel
<1>13. mac'[n].rxOn = (NoIncomingCap(n, from) => mac[n].rxOn)
       /\ mac'[n].state = (IF NoIncomingCap(n, from) THEN mac[n].state ELSE "IDLE")
       /\ mac'[n].channel = mac[n].channel
  BY <1>5, <1>10, <1>11
<1>14. InNoGts(n)'
  <2>1. CASE NoIncomingCap(n, from)
    <3>1. mac[n].rxOn \in BOOLEAN
      BY MacTyped DEF MacTypes
    <3>2. mac'[n].rxOn = mac[n].rxOn /\ mac'[n].state = mac[n].state
      BY <1>13, <2>1, <3>1
    <3> QED
      BY <1>8, <1>12, <1>13, <3>2 DEF InNoGts
  <2>2. CASE ~NoIncomingCap(n, from)
    <3>1. mac'[n].rxOn = TRUE /\ mac'[n].state = "IDLE"
      BY <1>13, <2>2
    <3> QED
      BY <1>8, <1>13, <3>1 DEF InNoGts
  <2> QED
    BY <2>1, <2>2
<1> QED
  BY <1>1, <1>9, <1>14 DEF RadioOk, Ends

LEMMA RadioOfSearch ==
  ASSUME BeaconInv, RadioInv, NEW ev \in queue,
         SyncRequest(ev) \/ (BeaconSearchTimeout(ev) /\ IsLost(ev.node) /\ callback = "resync")
  PROVE  RadioOk(ev.node)'
<1>1. PICK n \in Nodes : n = ev.node
  BY Running
<1>2. PICK x : x = SearchEvent(n, ev.at)
  OBVIOUS
<1>3. PICK q : q = IF SyncRequest(ev) THEN Cancel(queue \ {ev}, n, "SearchTimeout") ELSE queue \ {ev}
  OBVIOUS
<1>4. /\ Adds(q, queue', {x}) /\ act' = act
      /\ mac'[n].channel = CapChannel /\ mac'[n].rxOn = TRUE /\ mac'[n].gts = mac[n].gts
      /\ mac'[n].state = mac[n].state
  BY <1>1, <1>2, <1>3, SyncStep, TimeoutStep DEF TrackFrame, TunesToCap
<1>5. x.do = "SearchTimeout"
  BY <1>2 DEF SearchEvent, Event
<1>6. ~RadioEvent(ev)
  BY DEF SyncRequest, BeaconSearchTimeout, Runs, RadioEvent
<1>7. SameRadioEvents(n)
  <2>1. q \subseteq queue /\ \A f \in queue : f \notin q => f = ev \/ f.do = "SearchTimeout"
    BY <1>3 DEF Cancel
  <2>2. \A y \in {x} : ~RadioEvent(y)
    BY <1>5 DEF RadioEvent
  <2> QED
    BY <1>4, <1>6, <2>1, <2>2, RadioNotAdded
<1>8. \A f : f.node = n /\ (Ends(f) \/ f.do \in {"GackSent", "StartTx", "EndTx"}) =>
               (f \in queue' <=> f \in queue)
  BY <1>7 DEF SameRadioEvents, RadioEvent, Ends
<1>9. RadioOk(n)
  BY DEF RadioInv
<1>10. ASSUME NEW f \in queue', Ends(f), f.node = n PROVE InGts(f)'
  BY <1>4, <1>8, <1>9, <1>10 DEF RadioOk, InGts
<1>11. ASSUME \A f \in queue' : Ends(f) => f.node # n PROVE InNoGts(n)'
  <2>1. InNoGts(n)
    BY <1>8, <1>9, <1>11 DEF RadioOk
  <2> QED
    BY <1>4, <1>8, <2>1 DEF InNoGts
<1> QED
  BY <1>1, <1>10, <1>11 DEF RadioOk, Ends

LEMMA RadioStep ==
  ASSUME Disciplined, BeaconInv, SenderInv, CellInv, CellInv', GridInv, RadioInv, DelayIsPositive,
         NEW ev \in queue, First(ev), Handler(ev)
  PROVE  RadioInv'
<1>1. PICK n \in Nodes : n = ev.node
  BY Running
<1>2. act' = act
  BY HandlerKeeps
<1>3. CASE StartGTS(ev) \/ EndGTS(ev) \/ SendGack(ev) \/ GackSent(ev)
  BY <1>3, RadioOfGts, RadioOfOthers DEF RadioInv
<1>4. CASE SetIdle(ev) \/ SendOneEnhancedBeacon(ev) \/ StartTx(ev) \/ EndTx(ev)
  BY <1>4, RadioOfSender, RadioOfOthers DEF RadioInv
<1>5. CASE EndRx(ev)
  BY <1>5, RadioOfReceiver, RadioOfOthers DEF RadioInv
<1>6. CASE SyncRequest(ev) \/ (BeaconSearchTimeout(ev) /\ IsLost(ev.node) /\ callback = "resync")
  BY <1>6, RadioOfSearch, RadioOfOthers DEF RadioInv
<1>7. CASE \/ StartCAP(ev) \/ StartCFP(ev) \/ StartRemainingPeriod(ev) \/ AwaitBeacon(ev)
           \/ StartSuperframe(ev) \/ StartMultisuperframe(ev) \/ StartRequest(ev) \/ BeaconLost(ev)
           \/ BeaconSearchTimeout(ev) /\ ~(IsLost(ev.node) /\ callback = "resync")
  <2>1. SameRadioEvents(n) /\ KeepRadio(n)
    BY <1>1, <1>7, QuietForRadio
  <2>2. RadioOk(n)'
    BY <1>2, <2>1, RadioKept DEF RadioInv
  <2> QED
    BY <1>1, <2>2, RadioOfOthers DEF RadioInv
<1> QED
  BY <1>3, <1>4, <1>5, <1>6, <1>7 DEF Handler

LEMMA RadioInvariant ==
  ASSUME StartsOnce, Disciplined
  PROVE  Spec /\ []DelayIsPositive => []RadioInv
<1>1. ASSUME BeaconInv, SenderInv, CellInv, CellInv', GridInv, RadioInv, DelayIsPositive,
             [Next]_vars
      PROVE  RadioInv'
  <2>1. ASSUME NEW ev \in queue, First(ev), Handler(ev) PROVE RadioInv'
    BY <1>1, <2>1, RadioStep
  <2>2. ASSUME queue' = queue, mac' = mac,
               \A n \in Nodes : \A i \in DOMAIN act[n] : act'[n][i] = act[n][i]
        PROVE  RadioInv'
    BY <1>1, <2>2, RadioKept DEF RadioInv, KeepRadio, SameRadioEvents
  <2>3. ASSUME NEW late \in LateEntries, AddDsmeACTEntity(late.node, late.entry) PROVE RadioInv'
    <3>1. \A n \in Nodes : \A i \in DOMAIN act[n] : act'[n][i] = act[n][i]
      BY <1>1, <2>3, TablesGrow DEF CellInv
    <3> QED
      BY <2>2, <2>3, <3>1 DEF AddDsmeACTEntity
  <2>4. CASE UNCHANGED vars
    BY <2>2, <2>4 DEF vars
  <2> QED
    BY <1>1, <2>1, <2>3, <2>4 DEF Next
<1>2. ASSUME Init PROVE RadioInv
  <2>1. \A f \in queue : ~Ends(f)
    BY <1>2, BootEvents DEF Ends
  <2>2. \A n \in Nodes : mac[n].state = "IDLE" /\ mac[n].rxOn = TRUE /\ mac[n].channel = CapChannel
    BY <1>2 DEF Init, MacAtStart
  <2> QED
    BY <2>1, <2>2 DEF RadioInv, RadioOk, InNoGts
<1> QED
  BY <1>1, <1>2, DsmeInvariant, DsmeSenders, CellInvariant, GridInvariant, PTL DEF Spec

\* A beacon finds its MAC idle, the assertion at lr-wpan-mac.cc:595, whatever
\* GTSs its sender has and whatever was lost: no GTS lasts into the slot of a
\* beacon, and no superframe into the next one of its sender.
THEOREM DsmeBeaconFindsIdle ==
  ASSUME StartsOnce, Disciplined
  PROVE  Spec /\ []DelayIsPositive => []BeaconFindsIdle
<1>1. ASSUME BeaconInv, SenderInv, CellInv, GridInv, RadioInv, DelayIsPositive
      PROVE  BeaconFindsIdle
  <2> SUFFICES ASSUME NEW e \in queue, e.do = "SendBeacon", First(e)
               PROVE  mac[e.node].state = "IDLE"
    BY DEF BeaconFindsIdle
  <2>1. PICK n \in Nodes : n = e.node
    BY <1>1, Running
  <2>2. \A f \in queue : Ends(f) => f.node # n
    BY <1>1, <2>1, NoGtsOfSender
  <2>3. InNoGts(n)
    BY <1>1, <2>2 DEF RadioInv, RadioOk
  <2>4. ASSUME NEW f \in queue, f.do \in {"StartTx", "EndTx"}, f.node = n PROVE FALSE
    <3>1. Own(f) /\ Own(e)
      BY <1>1, <2>4, Running DEF Own, OfSender, OwnPeriods, EventTypes
    <3> QED
      BY <1>1, <2>1, <2>4, <3>1 DEF SenderInv, OneOwn
  <2> QED
    BY <2>1, <2>3, <2>4 DEF InNoGts
<1> QED
  BY <1>1, DsmeInvariant, DsmeSenders, CellInvariant, GridInvariant, RadioInvariant, PTL

-----------------------------------------------------------------------------
(* Who is deaf to a beacon *)

LEMMA ModUnique ==
  ASSUME NEW N \in Nat, N > 0, NEW z \in Int, NEW y \in Int, 0 <= y, y < N
  PROVE  (z * N + y) % N = y
<1>1. PICK a \in Int : a = z * N + y
  OBVIOUS
<1>2. PICK c \in Int : c = a \div N
  OBVIOUS
<1>3. PICK r \in Int : r = a % N
  OBVIOUS
<1>4. a = c * N + r /\ 0 <= r /\ r < N
  BY <1>2, <1>3
<1>5. z * N + y = c * N + r
  BY <1>1, <1>4
<1>6. y = r
  BY <1>4, <1>5, DivUnique
<1> QED
  BY <1>1, <1>3, <1>6

\* The superframe, counted from the start, in which a node begins its beacon.
SdOf(n) == IF n = PanC THEN 0 ELSE SdIndex[n]

LEMMA BeaconSuperframe ==
  ASSUME NEW n \in Nodes \ Devices, NEW t, OnGrid(t, BI, BeaconSlot(n))
  PROVE  /\ SdOf(n) \in Nat /\ SdOf(n) < NumSuperframes * NumMultis
         /\ \E k \in Nat : t = (k * (NumSuperframes * NumMultis) + SdOf(n)) * SD
<1>1. PICK M \in Nat : M = NumSuperframes * NumMultis /\ BI = M * SD /\ M > 0 /\ SD \in Nat
  <2>1. NumSuperframes \in Nat /\ NumMultis \in Nat /\ NumSuperframes > 0 /\ NumMultis > 0
    BY DsmeDurations
  <2>2. PICK M \in Int : M = NumSuperframes * NumMultis
    BY <2>1
  <2>3. M > 0
    BY <2>1, <2>2, Product
  <2> QED
    BY <2>2, <2>3, Durations
<1>2. PICK s \in Nat : s = SdOf(n) /\ s < M /\ BeaconSlot(n) = s * SD
  <2>1. CASE n = PanC
    BY <1>1, <2>1 DEF BeaconSlot, SdOf
  <2>2. CASE n # PanC
    <3>1. SdIndex[n] \in 1..M - 1
      BY <1>1, <2>2, DsmeConstants DEF Nodes
    <3> QED
      BY <1>1, <2>2, <3>1 DEF BeaconSlot, SdOf
  <2> QED
    BY <2>1, <2>2
<1>3. PICK k \in Nat : t = k * BI + BeaconSlot(n)
  BY DEF OnGrid
<1>4. t = (k * M + s) * SD
  BY <1>1, <1>2, <1>3
<1> QED
  BY <1>1, <1>2, <1>4

\* Two nodes never begin a beacon at the same time.
LEMMA BeaconsApart ==
  ASSUME NEW m \in Nodes \ Devices, NEW n \in Nodes \ Devices, NEW t,
         OnGrid(t, BI, BeaconSlot(m)), OnGrid(t, BI, BeaconSlot(n))
  PROVE  m = n
<1>1. PICK M \in Nat : M = NumSuperframes * NumMultis
  BY DsmeDurations
<1>2. PICK r \in Nat, k \in Nat : r = SdOf(m) /\ r < M /\ t = (k * M + r) * SD
  BY <1>1, BeaconSuperframe
<1>3. PICK s \in Nat, l \in Nat : s = SdOf(n) /\ s < M /\ t = (l * M + s) * SD
  BY <1>1, BeaconSuperframe
<1>4. PICK a \in Nat : a = k * M + r
  OBVIOUS
<1>5. PICK b \in Nat : b = l * M + s
  OBVIOUS
<1>6. SD \in Nat /\ SD > 0
  BY Lengths
<1>7. a * SD + 0 = b * SD + 0
  BY <1>2, <1>3, <1>4, <1>5, <1>6
<1>8. a \in Int /\ b \in Int
  OBVIOUS
<1>9. a = b
  BY <1>6, <1>7, <1>8, DivUnique
<1>10. k * M + r = l * M + s
  BY <1>4, <1>5, <1>9
<1>11. k \in Int /\ l \in Int /\ r \in Int /\ s \in Int /\ 0 <= r /\ 0 <= s
  OBVIOUS
<1>12. r = s
  <2>1. r < M /\ s < M
    BY <1>2, <1>3
  <2> QED
    BY <1>10, <1>11, <2>1, DivUnique
<1>13. SdOf(m) = SdOf(n)
  BY <1>2, <1>3, <1>12
<1>14. \A c \in Coords : SdIndex[c] \in 1..M - 1
  BY <1>1, DsmeConstants
<1>15. \A c \in Coords : SdIndex[c] # 0
  BY <1>14
<1>16. \A c, d \in Coords : SdIndex[c] = SdIndex[d] => c = d
  BY DsmeConstants
<1>17. m \in {PanC} \cup Coords /\ n \in {PanC} \cup Coords
  BY DEF Nodes
<1> QED
  BY <1>13, <1>15, <1>16, <1>17 DEF SdOf

\* Two beacons whose transmissions touch are in the same superframe.
LEMMA SameSuperframe ==
  ASSUME NEW a \in Nat, NEW b \in Nat, OnGrid(a, SD, 0), OnGrid(b, SD, 0),
         b <= a + Turnaround, a + Turnaround <= b + BeaconDelay
  PROVE  a = b
<1>1. PICK i \in Nat : a = i * SD + 0
  BY DEF OnGrid
<1>2. PICK j \in Nat : b = j * SD + 0
  BY DEF OnGrid
<1>3. /\ Turnaround \in Nat /\ BeaconDelay \in Nat /\ Turnaround < Slot /\ BeaconDelay < Slot
      /\ Slot \in Nat /\ SD = 16 * Slot
  BY Lengths
<1>4. PICK x \in Int : x = 16 * i
  OBVIOUS
<1>5. PICK y \in Int : y = 16 * j
  OBVIOUS
<1>6. a = x * Slot /\ b = y * Slot
  BY <1>1, <1>2, <1>3, <1>4, <1>5
<1>7. y <= x
  <2>1. y * Slot <= x * Slot + Turnaround /\ Turnaround \in Int
    BY <1>3, <1>6
  <2> QED
    BY <1>3, <2>1, SlotOrder
<1>8. x <= y
  <2>1. a <= b + BeaconDelay
    BY <1>3
  <2>2. x * Slot <= y * Slot + BeaconDelay /\ BeaconDelay \in Int
    BY <1>3, <1>6, <2>1
  <2> QED
    BY <1>3, <2>2, SlotOrder
<1> QED
  BY <1>6, <1>7, <1>8

\* The node that begins a beacon is the only one that sends one.
LEMMA OneSender ==
  ASSUME BeaconInv, SenderInv, GridInv, DelayIsPositive, NEW e \in queue, e.do = "StartTx",
         First(e), NEW g \in queue, g.do \in {"StartTx", "EndTx"}
  PROVE  g.node = e.node
<1>1. PICK s \in Nodes : s = e.node
  BY Running
<1>2. PICK n \in Nodes : n = g.node
  BY Running
<1>3. e.arg = "OUT" /\ g.arg = "OUT"
  BY Running DEF EventTypes
<1>4. OfSender(e) /\ OfSender(g)
  BY <1>3 DEF OfSender, OwnPeriods
<1>5. /\ s \notin Devices /\ OnGrid(mac[s].bcnStart, BI, BeaconSlot(s))
      /\ n \notin Devices /\ OnGrid(mac[n].bcnStart, BI, BeaconSlot(n))
  BY <1>1, <1>2, <1>3, Running DEF EventInSlot, OwnPeriods
<1>6. PICK a \in Nat : a = mac[s].bcnStart
  BY StartTimes
<1>7. PICK b \in Nat : b = mac[n].bcnStart
  BY StartTimes
<1>8. e.at = a + Turnaround
  BY <1>1, <1>4, <1>6 DEF SenderInv, OwnTimes, OwnTime
<1>9. g.at = b + Turnaround \/ g.at = b + BeaconDelay
  BY <1>2, <1>4, <1>7 DEF SenderInv, OwnTimes, OwnTime
<1>10. e.at \in Nat /\ g.at \in Nat /\ e.at <= g.at /\ now <= e.at /\ now \in Nat
  <2>1. now \in Nat
    BY Durations DEF BeaconInv, TypeOK
  <2> QED
    BY <2>1, FirstIsFirst DEF DelayIsPositive
<1>11. b <= now /\ OnGrid(a, SD, 0) /\ OnGrid(b, SD, 0)
  BY <1>6, <1>7 DEF GridInv
<1>12. Turnaround \in Nat /\ BeaconDelay \in Nat
  BY Lengths
<1>13. b <= a + Turnaround /\ a + Turnaround <= b + BeaconDelay
  <2>1. b <= e.at
    BY <1>10, <1>11
  <2>2. g.at <= b + BeaconDelay
    BY <1>9, <1>12, Lengths
  <2> QED
    BY <1>8, <1>10, <1>12, <2>1, <2>2
<1>14. a = b
  BY <1>11, <1>13, SameSuperframe
<1>15. s = n
  BY <1>5, <1>6, <1>7, <1>14, BeaconsApart
<1> QED
  BY <1>1, <1>2, <1>15

\* A GTS that is open when a beacon begins is in the last slot before it.
LEMMA LateGts ==
  ASSUME Disciplined, BeaconInv, SenderInv, CellInv, GridInv, DelayIsPositive, NEW e \in queue,
         e.do = "StartTx", First(e), NEW f \in queue, Ends(f), f.node \in Devices
  PROVE  /\ act[f.node][f.gts].slot = LastSlot
         /\ act[f.node][f.gts].sf = (SdOf(e.node) - 1) % NumSuperframes
<1>1. PICK n \in Nodes : n = f.node
  BY OpenPlace
<1>2. PICK i \in DOMAIN act[n] : i = f.gts
  BY <1>1, OpenPlace
<1>3. PICK x : x = act[n][i]
  OBVIOUS
<1>4. PICK j \in Int : LET start == SlotOf(j, x) * Slot + Lateness(n)
                       IN start \in Int /\ start <= now /\ f.at = start + EndGtsTime
  BY <1>1, <1>2, <1>3, OpenPlace
<1>5. TablesOk
  BY DEF CellInv
<1>6. PICK u \in Int : u = j * NumSuperframes + x.sf
  BY <1>3, <1>5, SlotOfType
<1>7. PICK v \in 1..15 : v = x.slot + FirstSlot
  BY <1>3, <1>5, SlotOfType
<1>8. PICK w \in Int : w = 16 * u + v
  OBVIOUS
<1>9. SlotOf(j, x) = w
  BY <1>3, <1>5, <1>6, <1>7, <1>8, SlotOfType
<1>10. PICK p \in Int : p = w * Slot
  BY SlotOrder
<1>11. Lateness(n) = BeaconDelay
  BY <1>1 DEF Lateness
<1>12. /\ Turnaround \in Nat /\ BeaconLen \in Nat /\ BeaconLen > 0 /\ BeaconDelay < Slot
       /\ BeaconDelay = Turnaround + BeaconLen /\ Slot \in Nat /\ SD = 16 * Slot
       /\ EndGtsTime \in Nat /\ EndGtsTime < Slot
  BY Lengths, GtsLengths
<1>13. p + BeaconDelay <= now /\ f.at = p + BeaconDelay + EndGtsTime
  BY <1>4, <1>9, <1>10, <1>11
<1>14. PICK s \in Nodes : s = e.node
  BY Running
<1>15. /\ e.arg = "OUT" /\ s \notin Devices /\ OnGrid(mac[s].bcnStart, BI, BeaconSlot(s))
  BY <1>14, Running DEF EventInSlot, OwnPeriods, EventTypes
<1>16. PICK a \in Nat : a = mac[s].bcnStart
  BY StartTimes
<1>17. e.at = a + Turnaround
  <2>1. OfSender(e)
    BY <1>15 DEF OfSender, OwnPeriods
  <2> QED
    BY <1>14, <1>16, <2>1 DEF SenderInv, OwnTimes, OwnTime
<1>18. PICK N \in Nat, L \in Nat : N = NumSuperframes /\ L = NumMultis /\ N > 0
  BY DsmeDurations
<1>19. PICK sd \in Nat, k \in Nat : sd = SdOf(s) /\ a = (k * (N * L) + sd) * SD
  <2>1. OnGrid(a, BI, BeaconSlot(s)) /\ s \in Nodes \ Devices
    BY <1>15, <1>16
  <2>2. SdOf(s) \in Nat
    BY <2>1, BeaconSuperframe
  <2>3. \E k \in Nat : a = (k * (NumSuperframes * NumMultis) + SdOf(s)) * SD
    BY <2>1, BeaconSuperframe
  <2> QED
    BY <1>18, <2>2, <2>3
<1>20. PICK c \in Nat : c = k * (N * L) + sd
  BY <1>18
<1>21. PICK t \in Int : t = 16 * c
  OBVIOUS
<1>22. a = t * Slot
  BY <1>12, <1>19, <1>20, <1>21
<1>23. now \in Nat /\ now <= e.at /\ e.at <= f.at /\ e.at \in Nat
  <2>1. now \in Nat
    BY Durations DEF BeaconInv, TypeOK
  <2> QED
    BY <2>1, FirstIsFirst DEF DelayIsPositive
<1>24. p < a /\ a <= p + Slot + (BeaconLen - 1)
  BY <1>12, <1>13, <1>17, <1>23
<1>25. w < t
  <2>1. ~(t <= w)
    BY <1>10, <1>22, <1>24, SlotOrder
  <2> QED
    BY <2>1
<1>26. t <= w + 1
  <2>1. PICK y \in Int : y = w + 1
    OBVIOUS
  <2>2. y * Slot = p + Slot
    BY <1>10, <1>12, <2>1
  <2>3. t * Slot <= y * Slot + (BeaconLen - 1)
    BY <1>22, <1>24, <2>2
  <2>4. BeaconLen - 1 \in Int /\ BeaconLen - 1 < Slot
    BY <1>12
  <2>5. t <= y
    BY <2>3, <2>4, SlotOrder
  <2> QED
    BY <2>1, <2>5
<1>27. v = 15 /\ u = c - 1
  BY <1>8, <1>21, <1>25, <1>26
<1>28. x.slot = LastSlot
  <2>1. x.slot \in Nat /\ FirstSlot \in {1, 9}
    BY <1>3, <1>5, EntryTypes
  <2>2. LastSlot = 15 - FirstSlot
    BY DEF LastSlot, FirstSlot
  <2> QED
    BY <1>7, <1>27, <2>1, <2>2
<1>29. x.sf = (sd - 1) % N
  <2>1. x.sf \in Nat /\ x.sf < N
    BY <1>3, <1>5, <1>18, EntryTypes
  <2>2. PICK b \in Int : b = j * N
    OBVIOUS
  <2>3. PICK d \in Int : d = k * L
    OBVIOUS
  <2>4. PICK h \in Int : h = d * N
    OBVIOUS
  <2>5. c = h + sd
    BY <1>18, <1>20, <2>3, <2>4
  <2>6. b + x.sf = h + sd - 1
    <3>1. u = b + x.sf
      BY <1>6, <1>18, <2>2
    <3> QED
      BY <1>27, <2>5, <3>1
  <2>7. PICK z \in Int : z = j - d
    OBVIOUS
  <2>8. z * N = b - h
    BY <2>2, <2>4, <2>7
  <2>9. PICK g \in Int : g = z * N
    OBVIOUS
  <2>10. sd - 1 = g + x.sf
    BY <2>1, <2>6, <2>8, <2>9
  <2>11. x.sf \in Int /\ 0 <= x.sf
    BY <2>1
  <2>12. (z * N + x.sf) % N = x.sf
    BY <1>18, <2>1, <2>11, ModUnique
  <2> QED
    BY <2>9, <2>10, <2>12
<1> QED
  BY <1>1, <1>2, <1>3, <1>14, <1>18, <1>19, <1>28, <1>29

\* A node is deaf to a beacon only if it is a device whose own GTS, in the last
\* slot before that beacon, is late: a device counts its GTSs from the end of the
\* beacon that it heard (lr-wpan-mac.cc:1213-1239, 2260).
THEOREM DsmeDeafOnlyAfterLastSlot ==
  ASSUME StartsOnce, Disciplined
  PROVE  Spec /\ []DelayIsPositive => []DeafOnlyAfterLastSlot
<1>1. ASSUME BeaconInv, SenderInv, CellInv, GridInv, RadioInv, DelayIsPositive
      PROVE  DeafOnlyAfterLastSlot
  <2>1. ASSUME NEW e \in queue, e.do = "StartTx", First(e), NEW n \in Nodes \ {e.node}
        PROVE  \/ Listens(n)
               \/ /\ n \in Devices /\ GtsOpen(n) /\ OpenEntry(n).slot = LastSlot
                  /\ OpenEntry(n).sf = (SdOf(e.node) - 1) % NumSuperframes
    <3>1. \A g \in queue : g.do \in {"StartTx", "EndTx"} => g.node # n
      BY <1>1, <2>1, OneSender
    <3>2. CASE \A f \in queue : Ends(f) => f.node # n
      <4>1. InNoGts(n)
        BY <1>1, <2>1, <3>2 DEF RadioInv, RadioOk
      <4> QED
        BY <3>1, <4>1 DEF InNoGts, Listens
    <3>3. ASSUME NEW f \in queue, Ends(f), f.node = n
          PROVE  /\ n \in Devices /\ GtsOpen(n) /\ OpenEntry(n).slot = LastSlot
                 /\ OpenEntry(n).sf = (SdOf(e.node) - 1) % NumSuperframes
      <4>1. n \in Devices
        <5>1. PICK s \in Nodes : s = e.node
          BY <1>1, <2>1, Running
        <5>2. OfSender(e)
          BY <1>1, <2>1, Running DEF EventTypes, OfSender, OwnPeriods
        <5>3. e.at = mac[s].bcnStart + Turnaround
          BY <1>1, <2>1, <5>1, <5>2 DEF SenderInv, OwnTimes, OwnTime
        <5>4. PICK b \in Nat : b = mac[s].bcnStart
          BY <1>1, StartTimes
        <5>5. OnGrid(b, SD, 0)
          BY <1>1, <5>4 DEF GridInv
        <5>6. Turnaround \in Nat /\ Turnaround < Slot
          BY Lengths
        <5>7. SUFFICES ASSUME n \notin Devices PROVE FALSE
          OBVIOUS
        <5>8. e.at = b + Lateness(n) + Turnaround
          BY <5>3, <5>4, <5>6, <5>7 DEF Lateness
        <5> QED
          BY <1>1, <2>1, <3>3, <5>5, <5>6, <5>8, NoGtsAfterGrid
      <4>2. mac[n].gts = f.gts
        BY <1>1, <2>1, <3>3 DEF RadioInv, RadioOk, InGts
      <4>3. GtsOpen(n)
        BY <3>3 DEF GtsOpen, IsRunning, Ends
      <4> QED
        BY <1>1, <2>1, <3>3, <4>1, <4>2, <4>3, LateGts DEF OpenEntry
    <3> QED
      BY <3>2, <3>3
  <2> QED
    BY <2>1 DEF DeafOnlyAfterLastSlot, SdOf
<1> QED
  BY <1>1, DsmeInvariant, DsmeSenders, CellInvariant, GridInvariant, RadioInvariant, PTL

-----------------------------------------------------------------------------
(* The sequence number that shifts the hopping *)

LEMMA BsnTypes ==
  ASSUME BeaconInv, NEW n \in Nodes
  PROVE  mac[n].bsn \in 0..255 /\ PanC \in Nodes
<1>1. mac[n] \in MacTypes
  BY MacTyped
<1> QED
  BY <1>1 DEF MacTypes, Nodes

LEMMA StartTxKind ==
  ASSUME NEW f, f.do = "StartTx"
  PROVE  Kind(f) \in {"own", "in"}
BY DEF Kind, GtsHandlers

\* The PAN coordinator is about to send only between two of its handlers.
LEMMA PanSendsKept ==
  ASSUME BeaconInv, SenderInv, NEW ev \in queue, Handler(ev),
         ev.node = PanC => ~SendOneEnhancedBeacon(ev) /\ ~StartTx(ev)
  PROVE  PanSends' <=> PanSends
<1>1. PanC \in Nodes
  BY DEF Nodes
<1>2. ASSUME \A f : f.do = "StartTx" /\ f.node = PanC => (f \in queue' <=> f \in queue)
      PROVE  PanSends' <=> PanSends
  BY <1>2 DEF PanSends
<1>3. SameRadioEvents(PanC) => (PanSends' <=> PanSends)
  BY <1>2 DEF SameRadioEvents, RadioEvent
<1>4. CASE ev.node # PanC
  BY <1>1, <1>3, <1>4, OthersKept
<1>5. CASE ev.node = PanC
  <2>1. CASE StartGTS(ev) \/ EndGTS(ev) \/ SendGack(ev) \/ GackSent(ev)
    <3>1. Touches({"gts"})
      BY <2>1, StartGtsStep, GtsSteps
    <3> QED
      BY <1>2, <3>1, StartTxKind, TouchesNot
  <2>2. CASE SetIdle(ev)
    <3>1. Touches({"SetIdle"})
      BY <2>2, SetIdleStep
    <3> QED
      BY <1>2, <3>1, StartTxKind, TouchesNot
  <2>3. CASE SyncRequest(ev) \/ BeaconSearchTimeout(ev)
    <3>1. Touches({"SyncRequest", "SearchTimeout"}) \/ Touches({"SearchTimeout"})
      BY <2>3, SyncStep, TimeoutStep
    <3> QED
      BY <1>2, <3>1, StartTxKind, TouchesNot
  <2>4. CASE EndTx(ev)
    <3>1. PICK New : New = {CapEvent(ev)}
      OBVIOUS
    <3>6. Adds(queue \ {ev}, queue',
               (IF ev.node # PanC THEN GtsItems(ev.node, ev.at) ELSE {}) \cup {CapEvent(ev)})
      BY <2>4, EndTxStep
    <3>7. {} \cup {CapEvent(ev)} = New
      BY <3>1
    <3>2. Adds(queue \ {ev}, queue', New)
      BY <1>5, <3>6, <3>7
    <3>3. \A x \in New : x.do # "StartTx"
      BY <3>1 DEF CapEvent, Event
    <3>4. ev.do = "EndTx"
      BY <2>4 DEF EndTx, Runs
    <3>5. ASSUME NEW f, f.do = "StartTx" PROVE f \in queue' <=> f \in queue
      <4>1. f \in queue => f \in queue'
        BY <3>2, <3>4, <3>5 DEF Adds
      <4>2. ASSUME f \in queue', f \notin queue PROVE FALSE
        <5>1. PICK x \in New : Like(f, x)
          BY <3>2, <4>2 DEF Adds
        <5> QED
          BY <3>3, <3>5, <5>1, LikeKinds
      <4> QED
        BY <4>1, <4>2
    <3> QED
      BY <1>2, <3>5
  <2>5. CASE EndRx(ev)
    <3>1. PICK New : New = ReceptionEvents(PanC, ev.arg, ev.at)
      OBVIOUS
    <3>2. PICK q : q = Cancel(queue \ {ev}, PanC, "SearchTimeout")
      OBVIOUS
    <3>3. Adds(q, queue', New)
      BY <1>5, <2>5, <3>1, <3>2, EndRxStep
    <3>4. mac[ev.arg].bitmapSd % NumSuperframes = 0 /\ ev.do = "EndRx"
      BY <2>5, HeardBeacon
    <3>5. \A x \in New : ~RadioEvent(x)
      <4> SUFFICES ASSUME NEW x \in New PROVE ~RadioEvent(x)
        OBVIOUS
      <4>1. Kind(x) = "in" => x.do \in {"StartCFP", "StartCAP"}
        BY <3>1, <3>4, ReceptionKinds DEF PeriodEvent, Event
      <4>2. Kind(x) = "own" => x.do = "SendBeacon"
        BY <3>1, <3>4, ReceptionKinds
      <4>3. Kind(x) = "gts" => x.do = "StartGTS"
        BY <3>1, <3>4, ReceptionKinds
      <4>4. Kind(x) \in {"SetIdle", "SearchTimeout"} => x.do = Kind(x)
        BY KindsOfSender
      <4>5. Kind(x) \in {"SetIdle", "own", "gts", "in", "SearchTimeout"}
        BY <3>1, <3>4, ReceptionKinds
      <4> QED
        BY <4>1, <4>2, <4>3, <4>4, <4>5 DEF RadioEvent
    <3>6. q \subseteq queue /\ \A f \in queue : f \notin q => f = ev \/ f.do = "SearchTimeout"
      BY <3>2 DEF Cancel
    <3>7. ~RadioEvent(ev)
      BY <3>4 DEF RadioEvent
    <3>8. SameRadioEvents(PanC)
      BY <3>3, <3>5, <3>6, <3>7, RadioNotAdded
    <3> QED
      BY <1>3, <3>8
  <2>6. CASE \/ StartCAP(ev) \/ StartCFP(ev) \/ StartRemainingPeriod(ev) \/ AwaitBeacon(ev)
             \/ StartSuperframe(ev) \/ StartMultisuperframe(ev) \/ StartRequest(ev) \/ BeaconLost(ev)
    <3>1. SameRadioEvents(ev.node)
      BY <2>6, QuietForRadio
    <3> QED
      BY <1>3, <1>5, <3>1
  <2> QED
    BY <1>5, <2>1, <2>2, <2>3, <2>4, <2>5, <2>6 DEF Handler
<1> QED
  BY <1>4, <1>5

\* Only the PAN coordinator counts its beacons, and only its beacons are counted.
LEMMA BsnKept ==
  ASSUME BeaconInv, NEW ev \in queue, Handler(ev), NEW m \in Nodes,
         ~(SendOneEnhancedBeacon(ev) /\ ev.node = PanC),
         ~(EndRx(ev) /\ ev.arg = PanC /\ ev.node = m)
  PROVE  mac'[m].bsn = mac[m].bsn
<1>1. PICK n \in Nodes : n = ev.node
  BY Running
<1>2. CASE m # n
  BY <1>1, <1>2, OthersKept
<1>3. CASE m = n
  <2>1. CASE SendOneEnhancedBeacon(ev)
    BY <1>1, <1>3, <2>1, SendBeaconStep
  <2>2. CASE EndRx(ev)
    <3>1. PICK r : r = AfterBeacon(n, ev.arg)
      OBVIOUS
    <3>2. r.bsn = BsnReceived(n, ev.arg)
      BY <3>1, AfterBeaconFields
    <3>3. mac'[n] = r
      BY <1>1, <2>2, <3>1, EndRxStep
    <3> QED
      BY <1>1, <1>3, <2>2, <3>2, <3>3 DEF BsnReceived
  <2>3. CASE StartGTS(ev) \/ EndGTS(ev) \/ SendGack(ev) \/ GackSent(ev)
    BY <2>3, StartGtsStep, GtsSteps DEF KeepBsn
  <2>4. CASE (StartCAP(ev) \/ StartCFP(ev) \/ StartRemainingPeriod(ev)) /\ ev.arg = "OUT"
    BY <2>4, OwnCapStep, OwnCfpStep, OwnRemainingStep DEF KeepBsn
  <2>5. CASE (StartCAP(ev) \/ StartCFP(ev) \/ StartRemainingPeriod(ev)) /\ ev.arg # "OUT"
    BY <2>5, InCapStep, InCfpStep, InRemainingStep DEF InFrame, KeepBsn
  <2>6. CASE AwaitBeacon(ev) \/ StartSuperframe(ev) \/ StartMultisuperframe(ev)
    BY <2>6, AwaitStep, SuperframeStep, MultiStep DEF InFrame, IdxFrame, KeepBsn
  <2>7. CASE SetIdle(ev) \/ EndTx(ev)
    BY <2>7, SetIdleStep, EndTxStep DEF KeepBsn
  <2>8. CASE StartTx(ev) \/ BeaconLost(ev) \/ (StartRequest(ev) /\ ev.node = PanC)
    <3>1. mac' = mac
      BY <2>8, StartTxStep, BeaconLostStep, PanStartStep
    <3> QED
      BY <3>1
  <2>9. CASE StartRequest(ev) /\ ev.node # PanC
    BY <2>9, CoordStartStep DEF RequestFrame, KeepBsn
  <2>10. CASE SyncRequest(ev) \/ BeaconSearchTimeout(ev)
    BY <2>10, SyncStep, TimeoutStep DEF TrackFrame, KeepBsn
  <2> QED
    BY <2>1, <2>2, <2>3, <2>4, <2>5, <2>6, <2>7, <2>8, <2>9, <2>10 DEF Handler
<1> QED
  BY <1>2, <1>3

LEMMA LastBsnKept ==
  ASSUME BeaconInv, SenderInv, NEW ev \in queue, Handler(ev), ~(StartTx(ev) /\ ev.node = PanC)
  PROVE  LastBsn' = LastBsn
<1>1. PanC \in Nodes /\ mac[PanC].bsn \in 0..255
  BY BsnTypes DEF Nodes
<1>2. CASE SendOneEnhancedBeacon(ev) /\ ev.node = PanC
  <2>1. PICK b \in 0..255 : b = mac[PanC].bsn
    BY <1>1
  <2>2. mac'[PanC].bsn = (b + 1) % 256
    BY <1>2, <2>1, SendBeaconStep
  <2>3. ev.do = "SendBeacon"
    BY <1>2 DEF SendOneEnhancedBeacon, Runs
  <2>4. ~PanSends
    <3> SUFFICES ASSUME NEW f \in queue, f.do = "StartTx", f.node = PanC PROVE FALSE
      BY DEF PanSends
    <3>1. Own(f) /\ Own(ev)
      BY <2>3, Running DEF Own, OfSender, OwnPeriods, EventTypes
    <3> QED
      BY <1>2, <2>3, <3>1 DEF SenderInv, OneOwn
  <2>5. PanSends'
    <3>1. PICK x : x = Event(ev.at + Turnaround, PanC, "StartTx", "OUT")
      OBVIOUS
    <3>2. Adds(queue \ {ev}, queue', {x})
      BY <1>2, <3>1, SendBeaconStep
    <3>3. PICK g \in queue' : Like(g, x)
      BY <3>2 DEF Adds
    <3>4. g.do = "StartTx" /\ g.node = PanC
      BY <3>1, <3>3, LikeKinds DEF Event
    <3> QED
      BY <3>4 DEF PanSends
  <2>6. LastBsn = (b - 1) % 256 /\ LastBsn' = (((b + 1) % 256) - 2) % 256
    BY <2>1, <2>2, <2>4, <2>5 DEF LastBsn
  <2>7. (b - 1) % 256 = (((b + 1) % 256) - 2) % 256
    <3>1. CASE b = 255
      <4>1. PICK z \in Int : z = 0 - 1
        OBVIOUS
      <4>2. 256 \in Nat /\ 256 > 0 /\ 0 \in Int /\ 1 \in Int /\ 254 \in Int
            /\ 0 <= 0 /\ 0 < 256 /\ 0 <= 254 /\ 254 < 256
        OBVIOUS
      <4>3. (1 * 256 + 0) % 256 = 0
        BY <4>2, ModUnique
      <4>4. (0 * 256 + 254) % 256 = 254
        BY <4>2, ModUnique
      <4>5. (z * 256 + 254) % 256 = 254
        BY <4>2, ModUnique
      <4>6. b + 1 = 1 * 256 + 0 /\ b - 1 = 0 * 256 + 254 /\ 0 - 2 = z * 256 + 254
        BY <3>1, <4>1
      <4>7. (b + 1) % 256 = 0
        BY <4>3, <4>6
      <4>8. (b - 1) % 256 = 254
        BY <4>4, <4>6
      <4>9. (0 - 2) % 256 = 254
        BY <4>5, <4>6
      <4> QED
        BY <4>7, <4>8, <4>9
    <3>2. CASE b < 255
      BY <3>2
    <3> QED
      BY <3>1, <3>2
  <2> QED
    BY <2>6, <2>7
<1>3. CASE ~(SendOneEnhancedBeacon(ev) /\ ev.node = PanC)
  <2>1. PanSends' <=> PanSends
    BY <1>3, PanSendsKept
  <2>2. ~(EndRx(ev) /\ ev.arg = PanC /\ ev.node = PanC)
    BY HeardBeacon
  <2>3. mac'[PanC].bsn = mac[PanC].bsn
    BY <1>1, <1>3, <2>2, BsnKept
  <2>4. PanSends' \in BOOLEAN /\ PanSends \in BOOLEAN
    BY DEF PanSends
  <2> QED
    BY <2>1, <2>3, <2>4 DEF LastBsn
<1> QED
  BY <1>2, <1>3

LEMMA FreshKept ==
  ASSUME NEW n \in Nodes, FreshOk(n), missed'[n] = missed[n], mac'[n].bsn = mac[n].bsn,
         LastBsn' = LastBsn, capReduction' = capReduction,
         \A f \in queue' : Ends(f) /\ f.node = n =>
           /\ f \in queue /\ mac'[n].channel = mac[n].channel
           /\ act'[n][f.gts] = act[n][f.gts]
  PROVE  FreshOk(n)'
<1>1. \A f \in queue' : Ends(f) /\ f.node = n => mac'[n].channel = Hop(n, act[n][f.gts])'
  BY DEF FreshOk, Hop
<1> QED
  BY <1>1 DEF FreshOk, Ends

\* A node that has heard the PAN coordinator's last beacon and takes a step.
LEMMA FreshOfRunning ==
  ASSUME Disciplined, BeaconInv, SenderInv, SearchInv, MissInv, CellInv, CellInv', GridInv,
         RadioInv, FreshInv, DelayIsPositive, PanStarts, BI > SD,
         NEW ev \in queue, First(ev), Handler(ev),
         ~EndRx(ev), ev.node \in fresh
  PROVE  \A f \in queue' : Ends(f) /\ f.node = ev.node =>
           /\ f \in queue /\ mac'[ev.node].channel = mac[ev.node].channel
           \/ mac'[ev.node].channel = Hop(ev.node, act[ev.node][f.gts])
<1>1. PICK n \in Nodes : n = ev.node
  BY Running
<1>2. FreshOk(n) /\ now > 0 /\ n # PanC
  BY <1>1 DEF FreshInv, FreshOk
<1>3. ASSUME NEW New, Adds(queue \ {ev}, queue', New), \A x \in New : ~Ends(x)
      PROVE  \A f \in queue' : Ends(f) => f \in queue
  <2> SUFFICES ASSUME NEW f \in queue', Ends(f), f \notin queue PROVE FALSE
    OBVIOUS
  <2>1. PICK x \in New : Like(f, x)
    BY <1>3 DEF Adds
  <2> QED
    BY <1>3, <2>1, LikeKinds DEF Ends
<1>4. CASE StartGTS(ev)
  <2>1. PICK x : x = GtsEvent(ev.at + EndGtsTime, n, "EndGTS", ev.gts)
    OBVIOUS
  <2>2. x \in GtsEvents(ev) /\ x.do = "EndGTS" /\ x.node = n /\ x.gts = ev.gts
    BY <1>1, <2>1 DEF GtsEvents, GtsEvent
  <2>3. PICK g \in queue' : Like(g, x)
    BY <1>4, <2>2, StartGtsStep DEF Adds
  <2>4. Ends(g) /\ g.node = n /\ g.gts = ev.gts
    BY <2>2, <2>3, LikeKinds DEF Ends
  <2>5. \A e, f \in queue' : Ends(e) /\ Ends(f) /\ e.node = f.node => e = f
    BY DEF CellInv, OneEnd, Ends
  <2>6. mac'[n].channel = Hop(n, act[n][ev.gts])
    BY <1>1, <1>4, StartGtsStep
  <2> QED
    BY <1>1, <2>4, <2>5, <2>6
<1>5. CASE EndGTS(ev)
  <2>1. Adds(queue \ {ev}, queue', {}) /\ ev.do = "EndGTS"
    BY <1>5, GtsSteps DEF EndGTS, Runs
  <2>2. \A e, f \in queue : Ends(e) /\ Ends(f) /\ e.node = f.node => e = f
    BY DEF CellInv, OneEnd
  <2> QED
    BY <2>1, <2>2 DEF Adds, Ends
<1>6. CASE SendGack(ev) \/ GackSent(ev)
  <2>1. PICK x : x = GtsEvent(ev.at + GackLen, n, "GackSent", ev.gts)
    OBVIOUS
  <2>2. (Adds(queue \ {ev}, queue', {x}) \/ Adds(queue \ {ev}, queue', {}))
        /\ mac'[n].channel = mac[n].channel
    BY <1>1, <1>6, <2>1, GtsSteps
  <2>3. ~Ends(x)
    BY <2>1 DEF Ends, GtsEvent
  <2> QED
    BY <1>1, <1>3, <2>2, <2>3
<1>7. CASE SetIdle(ev) \/ SendOneEnhancedBeacon(ev) \/ StartTx(ev) \/ EndTx(ev)
  <2>1. ev.do \in {"SetIdle", "SendBeacon", "StartTx", "EndTx"}
    BY <1>7 DEF SetIdle, SendOneEnhancedBeacon, StartTx, EndTx, Runs
  <2>2. mac'[n].channel = mac[n].channel
    <3>1. StartTx(ev) => mac' = mac
      BY StartTxStep
    <3> QED
      BY <1>1, <1>7, <3>1, SetIdleStep, SendBeaconStep, EndTxStep
  <2>3. \A f \in queue' : Ends(f) => f \in queue
    <3>1. CASE EndTx(ev)
      <4>1. PICK New : New = (IF n # PanC THEN GtsItems(n, ev.at) ELSE {}) \cup {CapEvent(ev)}
        OBVIOUS
      <4>2. Adds(queue \ {ev}, queue', New)
        BY <1>1, <3>1, <4>1, EndTxStep
      <4>3. \A y \in New : ~Ends(y)
        BY <4>1 DEF Ends, CapEvent, Event, GtsItems, GtsEvent
      <4> QED
        BY <1>3, <4>2, <4>3
    <3>2. CASE ~EndTx(ev)
      <4>1. Touches({"SetIdle"}) \/ Touches({"own"}) \/ Touches({"own", "EndRx"})
        BY <1>7, <3>2, SetIdleStep, SendBeaconStep, StartTxStep
      <4> QED
        BY <4>1, TouchesNot, GtsKinds
    <3> QED
      BY <3>1, <3>2
  <2> QED
    BY <1>1, <2>2, <2>3
<1>8. ~SyncRequest(ev)
  <2> SUFFICES ASSUME SyncRequest(ev) PROVE FALSE
    OBVIOUS
  <2>1. ev.at = 0
    BY DEF SyncRequest, Runs, SenderInv, SyncAtStart
  <2>2. now \in Nat
    BY Durations DEF BeaconInv, TypeOK
  <2> QED
    BY <1>2, <2>1, <2>2 DEF DelayIsPositive
<1>9. ~(BeaconSearchTimeout(ev) /\ IsLost(ev.node))
  <2> SUFFICES ASSUME BeaconSearchTimeout(ev), IsLost(n) PROVE FALSE
    BY <1>1
  <2>1. ev.do = "SearchTimeout"
    BY DEF BeaconSearchTimeout, Runs
  <2>2. mac[n].numLost <= missed[n]
    BY <1>1, <2>1, CountIsMissed
  <2>3. missed[n] = 0
    BY <1>2 DEF FreshOk
  <2>4. mac[n].numLost \in Nat
    BY TrackTypes
  <2> QED
    BY <2>2, <2>3, <2>4 DEF IsLost, aMaxLostBeacons
<1>10. CASE \/ StartCAP(ev) \/ StartCFP(ev) \/ StartRemainingPeriod(ev) \/ AwaitBeacon(ev)
            \/ StartSuperframe(ev) \/ StartMultisuperframe(ev) \/ StartRequest(ev) \/ BeaconLost(ev)
            \/ BeaconSearchTimeout(ev)
  <2>1. SameRadioEvents(n) /\ KeepRadio(n)
    BY <1>1, <1>9, <1>10, QuietForRadio
  <2> QED
    BY <1>1, <2>1 DEF SameRadioEvents, RadioEvent, KeepRadio, Ends
<1> QED
  BY <1>4, <1>5, <1>6, <1>7, <1>8, <1>10 DEF Handler

LEMMA FreshOfReceiver ==
  ASSUME Disciplined, BeaconInv, SenderInv, CellInv, GridInv, RadioInv, FreshInv,
         DelayIsPositive, MissInv, NEW ev \in queue, First(ev), EndRx(ev)
  PROVE  FreshInv'
<1>1. PICK n \in Nodes : n = ev.node
  BY Running
<1>2. PICK from \in Nodes : from = ev.arg
  BY HeardBeacon
<1>3. /\ Adds(Cancel(queue \ {ev}, n, "SearchTimeout"), queue', ReceptionEvents(n, from, ev.at))
      /\ Only(n) /\ mac'[n] = AfterBeacon(n, from) /\ missed' = [missed EXCEPT ![n] = 0]
      /\ fresh' = (IF from = PanC THEN fresh \cup {n} ELSE fresh)
  BY <1>1, <1>2, EndRxStep
<1>4. /\ ev.do = "EndRx" /\ now' = ev.at /\ n # from /\ ev.at = mac[from].bcnStart + BeaconDelay
      /\ mac[from].bitmapSd % NumSuperframes = 0
  BY <1>1, <1>2, HeardBeacon
<1>5. now' > 0
  <2>1. mac[from].bcnStart \in Nat
    BY StartTimes
  <2> QED
    BY <1>4, <2>1, Lengths
<1>6. Handler(ev) /\ ~StartTx(ev) /\ ~SendOneEnhancedBeacon(ev)
  BY <1>4 DEF Handler, StartTx, SendOneEnhancedBeacon, Runs
<1>7. LastBsn' = LastBsn
  BY <1>6, LastBsnKept
<1>8. act' = act /\ capReduction' = capReduction
  BY <1>6, HandlerKeeps DEF config
<1>9. missed \in [Nodes -> Nat] /\ fresh \subseteq Nodes
  BY DEF MissInv, BeaconInv, TypeOK
<1>10. ASSUME NEW m \in Nodes, m # n, m \in fresh PROVE FreshOk(m)'
  <2>1. mac'[m] = mac[m] /\ SameRadioEvents(m)
    BY <1>1, <1>6, <1>10, OthersKept
  <2>2. missed'[m] = missed[m] /\ FreshOk(m)
    BY <1>3, <1>9, <1>10 DEF FreshInv
  <2>3. \A f \in queue' : Ends(f) /\ f.node = m => f \in queue
    BY <2>1 DEF SameRadioEvents, RadioEvent, Ends
  <2> QED
    BY <1>7, <1>8, <2>1, <2>2, <2>3, FreshKept
<1>11. ASSUME n \in fresh' PROVE FreshOk(n)'
  <2>1. missed'[n] = 0
    BY <1>3, <1>9
  <2>2. n # PanC
    BY <1>3, <1>4, <1>11 DEF FreshInv, FreshOk
  <2>3. \A f \in queue' : Ends(f) => f.node # n
    <3> SUFFICES ASSUME NEW f \in queue', Ends(f), f.node = n PROVE FALSE
      OBVIOUS
    <3>1. \A g \in queue : Ends(g) => g.node # n
      BY <1>1, NoGtsOfReceiver
    <3>2. PICK x \in ReceptionEvents(n, from, ev.at) : Like(f, x)
      BY <1>3, <3>1 DEF Adds, Cancel
    <3>3. Kind(x) = "gts" /\ Ends(x)
      BY <3>2, LikeKinds, GtsKinds DEF Ends
    <3> QED
      BY <1>4, <3>3, ReceptionKinds DEF Ends
  <2>4. PICK r : r = AfterBeacon(n, from)
    OBVIOUS
  <2>5. r.bsn = BsnReceived(n, from)
    BY <2>4, AfterBeaconFields
  <2>6. mac'[n].bsn = LastBsn
    <3>1. CASE from = PanC
      <4>1. ~PanSends
        <5> SUFFICES ASSUME NEW f \in queue, f.do = "StartTx", f.node = PanC PROVE FALSE
          BY DEF PanSends
        <5>1. Own(f)
          BY Running DEF Own, OfSender, OwnPeriods, EventTypes
        <5>2. ReceptionOk(ev)
          BY <1>4 DEF SenderInv, Receptions
        <5> QED
          BY <1>2, <3>1, <5>1, <5>2 DEF ReceptionOk
      <4> QED
        BY <1>3, <2>4, <2>5, <3>1, <4>1 DEF BsnReceived, LastBsn
    <3>2. CASE from # PanC
      <4>1. n \in fresh
        BY <1>3, <1>11, <3>2
      <4> QED
        BY <1>3, <2>4, <2>5, <3>2, <4>1 DEF BsnReceived, FreshInv, FreshOk
    <3> QED
      BY <3>1, <3>2
  <2> QED
    BY <1>7, <2>1, <2>2, <2>3, <2>6 DEF FreshOk, Ends
<1>12. ASSUME NEW m \in fresh' PROVE FreshOk(m)'
  <2>1. m = n \/ (m # n /\ m \in fresh /\ m \in Nodes)
    BY <1>3, <1>9, <1>12
  <2> QED
    BY <1>10, <1>11, <1>12, <2>1
<1> QED
  BY <1>5, <1>12 DEF FreshInv

LEMMA FreshStep ==
  ASSUME Disciplined, BeaconInv, SenderInv, SearchInv, MissInv, CellInv, CellInv', GridInv,
         RadioInv, FreshInv, DelayIsPositive, PanStarts, BI > SD,
         NEW ev \in queue, First(ev), Handler(ev)
  PROVE  FreshInv'
<1>1. CASE EndRx(ev)
  BY <1>1, FreshOfReceiver
<1>2. CASE StartTx(ev) /\ ev.node = PanC
  <2>1. fresh' = {}
    BY <1>2 DEF StartTx
  <2> QED
    BY <2>1 DEF FreshInv
<1>3. CASE ~EndRx(ev) /\ ~(StartTx(ev) /\ ev.node = PanC)
  <2>1. UNCHANGED <<missed, fresh>> /\ act' = act /\ capReduction' = capReduction /\ now' = ev.at
    BY <1>3, HandlerKeeps DEF heard, config
  <2>2. now \in Nat /\ ev.at \in Nat /\ now <= ev.at
    <3>1. now \in Nat
      BY Durations DEF BeaconInv, TypeOK
    <3> QED
      BY <3>1, Running DEF DelayIsPositive
  <2>3. fresh' # {} => now' > 0
    BY <2>1, <2>2 DEF FreshInv
  <2>4. LastBsn' = LastBsn
    BY <1>3, LastBsnKept
  <2>5. ASSUME NEW m \in fresh PROVE FreshOk(m)'
    <3>1. m \in Nodes /\ FreshOk(m) /\ m # PanC
      BY <2>5 DEF FreshInv, FreshOk, BeaconInv, TypeOK
    <3>2. mac'[m].bsn = mac[m].bsn
      <4>1. CASE SendOneEnhancedBeacon(ev) /\ ev.node = PanC
        BY <3>1, <4>1, SendBeaconStep DEF Only
      <4>2. CASE ~(SendOneEnhancedBeacon(ev) /\ ev.node = PanC)
        BY <1>3, <3>1, <4>2, BsnKept
      <4> QED
        BY <4>1, <4>2
    <3>3. CASE m # ev.node
      <4>1. mac'[m] = mac[m] /\ SameRadioEvents(m)
        BY <3>1, <3>3, OthersKept
      <4>2. \A f \in queue' : Ends(f) /\ f.node = m => f \in queue
        BY <4>1 DEF SameRadioEvents, RadioEvent, Ends
      <4> QED
        BY <2>1, <2>4, <3>1, <4>1, <4>2, FreshKept
    <3>4. CASE m = ev.node
      <4>1. ASSUME NEW f \in queue', Ends(f), f.node = m
            PROVE  mac'[m].channel = Hop(m, act[m][f.gts])
        <5>1. \/ f \in queue /\ mac'[m].channel = mac[m].channel
              \/ mac'[m].channel = Hop(m, act[m][f.gts])
          BY <1>3, <2>5, <3>4, <4>1, FreshOfRunning
        <5> QED
          BY <3>1, <4>1, <5>1 DEF FreshOk
      <4>2. \A f : Hop(m, act[m][f.gts])' = Hop(m, act[m][f.gts])
        BY <2>1, <3>2 DEF Hop
      <4> QED
        BY <2>1, <2>4, <3>1, <3>2, <4>1, <4>2 DEF FreshOk, Ends
    <3> QED
      BY <3>3, <3>4
  <2> QED
    BY <2>1, <2>3, <2>5 DEF FreshInv
<1> QED
  BY <1>1, <1>2, <1>3

LEMMA FreshInvariant ==
  ASSUME StartsOnce, PanStarts, Disciplined, BI > SD
  PROVE  Spec /\ []DelayIsPositive => []FreshInv
<1>1. ASSUME BeaconInv, SenderInv, SearchInv, MissInv, CellInv, CellInv', GridInv, RadioInv,
             FreshInv, DelayIsPositive, [Next]_vars
      PROVE  FreshInv'
  <2>1. ASSUME NEW ev \in queue, First(ev), Handler(ev) PROVE FreshInv'
    BY <1>1, <2>1, FreshStep
  <2>2. ASSUME UNCHANGED <<now, queue, mac, capReduction, missed, fresh>>,
               \A n \in Nodes : \A i \in DOMAIN act[n] : act'[n][i] = act[n][i]
        PROVE  FreshInv'
    <3>1. LastBsn' = LastBsn
      BY <2>2 DEF LastBsn, PanSends
    <3>2. ASSUME NEW n \in fresh PROVE FreshOk(n)'
      <4>1. n \in Nodes /\ FreshOk(n)
        BY <1>1, <3>2 DEF FreshInv, BeaconInv, TypeOK
      <4>2. \A f \in queue : Ends(f) /\ f.node = n => act'[n][f.gts] = act[n][f.gts]
        <5>1. ASSUME NEW f \in queue, Ends(f), f.node = n PROVE f.gts \in DOMAIN act[n]
          BY <1>1, <5>1, Running DEF EventTypes, GtsHandlers, Ends
        <5> QED
          BY <2>2, <4>1, <5>1
      <4> QED
        BY <2>2, <3>1, <4>1, <4>2, FreshKept
    <3> QED
      BY <1>1, <2>2, <3>2 DEF FreshInv
  <2>3. ASSUME NEW late \in LateEntries, AddDsmeACTEntity(late.node, late.entry) PROVE FreshInv'
    <3>1. \A n \in Nodes : \A i \in DOMAIN act[n] : act'[n][i] = act[n][i]
      BY <1>1, <2>3, TablesGrow DEF CellInv
    <3>2. UNCHANGED <<now, queue, mac, capReduction, missed, fresh>>
      BY <2>3 DEF AddDsmeACTEntity, config, history
    <3> QED
      BY <2>2, <3>1, <3>2
  <2>4. CASE UNCHANGED vars
    <3>1. UNCHANGED <<now, queue, mac, capReduction, missed, fresh, act>>
      BY <2>4 DEF vars, config, history
    <3> QED
      BY <2>2, <3>1
  <2> QED
    BY <1>1, <2>1, <2>3, <2>4 DEF Next
<1>2. Init => FreshInv
  BY DEF Init, FreshInv
<1> QED
  BY <1>1, <1>2, DsmeInvariant, DsmeSenders, SearchInvariant, MissInvariant, CellInvariant,
     GridInvariant, RadioInvariant, PTL DEF Spec

\* Nodes in the same cell that heard the last beacon hop alike.
LEMMA HopsAlike ==
  ASSUME FreshInv, NEW m \in fresh, NEW n \in fresh, NEW x, NEW y, SameCell(x, y)
  PROVE  Hop(m, x) = Hop(n, y)
<1>1. mac[m].bsn = mac[n].bsn
  BY DEF FreshInv, FreshOk
<1> QED
  BY <1>1 DEF Hop, SameCell

\* Two nodes in GTSs of the same cell are on the same channel if both heard the
\* last beacon of the PAN coordinator, whose sequence number shifts the hopping,
\* also while a beacon is on its way, when a search is restarted, and when the
\* number wraps around at 256 (lr-wpan-mac.cc:2318, 1424-1437).
THEOREM DsmeSameHop ==
  ASSUME StartsOnce, PanStarts, Disciplined, BI > SD
  PROVE  Spec /\ []DelayIsPositive => []SameHop
<1>1. ASSUME BeaconInv, RadioInv, FreshInv PROVE SameHop
  <2>1. ASSUME NEW n \in fresh, GtsOpen(n) PROVE mac[n].channel = Hop(n, OpenEntry(n))
    <3>1. PICK f \in queue : Ends(f) /\ f.node = n
      BY <2>1 DEF GtsOpen, IsRunning, Ends
    <3>2. n \in Nodes /\ FreshOk(n)
      BY <1>1, <2>1 DEF BeaconInv, TypeOK, FreshInv
    <3>3. mac[n].gts = f.gts
      BY <1>1, <3>1, <3>2 DEF RadioInv, RadioOk, InGts
    <3> QED
      BY <3>1, <3>2, <3>3 DEF FreshOk, OpenEntry
  <2> QED
    BY <1>1, <2>1, HopsAlike DEF SameHop
<1> QED
  BY <1>1, DsmeInvariant, RadioInvariant, FreshInvariant, PTL

-----------------------------------------------------------------------------
(* Group ACKs *)

\* The starts of an entry follow each other by a multisuperframe at least.
LEMMA LaterStart ==
  ASSUME BeaconInv, TablesOk, NEW n \in Nodes, NEW i \in DOMAIN act[n], NEW j \in Int,
         NEW k \in Int
  PROVE  LET x == act[n][i]
         IN /\ k <= j => SlotOf(k, x) * Slot <= SlotOf(j, x) * Slot
            /\ j < k => SlotOf(j, x) * Slot + MultiLen <= SlotOf(k, x) * Slot
<1>1. PICK x : x = act[n][i]
  OBVIOUS
<1>2. PICK N \in Nat : N = NumSuperframes
  BY GtsLengths
<1>3. x.sf \in Nat /\ x.slot \in Nat /\ FirstSlot \in Nat
  BY <1>1, EntryTypes
<1>4. ASSUME NEW l \in Int, NEW m \in Int, l <= m PROVE SlotOf(l, x) * Slot <= SlotOf(m, x) * Slot
  <2>1. m - l \in Nat
    BY <1>4
  <2>2. (m - l) * N >= 0
    BY <2>1, Product
  <2>3. (m - l) * N = m * N - l * N
    OBVIOUS
  <2>4. PICK a \in Int : a = l * N
    OBVIOUS
  <2>5. PICK b \in Int : b = m * N
    OBVIOUS
  <2>6. a <= b
    BY <2>2, <2>3, <2>4, <2>5
  <2>7. SlotOf(l, x) = 16 * (a + x.sf) + x.slot + FirstSlot
    BY <1>2, <2>4 DEF SlotOf
  <2>8. SlotOf(m, x) = 16 * (b + x.sf) + x.slot + FirstSlot
    BY <1>2, <2>5 DEF SlotOf
  <2>9. SlotOf(l, x) \in Int /\ SlotOf(m, x) \in Int /\ SlotOf(l, x) <= SlotOf(m, x)
    BY <1>3, <2>6, <2>7, <2>8
  <2> QED
    BY <2>9, SlotOrder
<1>5. ASSUME j < k PROVE SlotOf(j, x) * Slot + MultiLen <= SlotOf(k, x) * Slot
  <2>1. PICK m \in Int : m = j + 1
    OBVIOUS
  <2>2. SlotOf(m, x) * Slot <= SlotOf(k, x) * Slot
    BY <1>4, <1>5, <2>1
  <2>3. SlotOf(m, x) * Slot \in Int /\ SlotOf(m, x) * Slot - MultiLen = SlotOf(m - 1, x) * Slot
    BY <1>1, SlotOfType
  <2>4. m - 1 = j
    BY <2>1
  <2>5. MultiLen \in Int
    BY GtsLengths
  <2>6. SlotOf(j, x) * Slot + MultiLen = SlotOf(m, x) * Slot
    BY <2>3, <2>4, <2>5
  <2> QED
    BY <2>2, <2>6
<1> QED
  BY <1>1, <1>4, <1>5

\* When a group ACK is sent, a node with an entry of the same cell has its GTS open.
LEMMA GackFindsOpen ==
  ASSUME Disciplined, BeaconDelay < GackDelay, BeaconInv, CellInv, DelayIsPositive,
         NEW e \in queue, e.do = "SendGack", First(e),
         NEW f \in queue, AckOf(e, f), NEW d \in Devices, NEW i \in mac[d].allocated,
         SameCell(act[d][i], act[f.node][f.gts])
  PROVE  \E g \in queue : Ends(g) /\ g.node = d /\ g.gts = i
<1>1. PICK c \in Nodes : c = f.node
  BY Running
<1>2. PICK x : x = act[c][f.gts]
  OBVIOUS
<1>3. Ends(f) /\ e.at + EndGtsTime = f.at + GackDelay
  <2>1. Ends(f) /\ e.at + EndGtsTime = f.at + GackTime + 0
    BY DEF AckOf
  <2>2. f.at \in Nat /\ GackTime = GackDelay /\ GackDelay \in Nat
    BY Running, GtsLengths
  <2> QED
    BY <2>1, <2>2
<1>4. f.gts \in DOMAIN act[c] /\ TablesOk
  BY <1>1, <1>3, OpenPlace DEF CellInv
<1>5. PICK j \in Int : LET start == SlotOf(j, x) * Slot + Lateness(c)
                       IN start \in Int /\ start <= now /\ f.at = start + EndGtsTime
  BY <1>1, <1>2, <1>3, OpenPlace
<1>6. PICK p \in Int : p = SlotOf(j, x) * Slot
  BY <1>2, <1>4, SlotOfType
<1>7. /\ BeaconDelay \in Nat /\ Lateness(c) \in {0, BeaconDelay} /\ Lateness(d) = BeaconDelay
      /\ GackDelay \in Nat /\ GackLen \in Nat /\ EndGtsTime \in Nat /\ MultiLen \in Nat
      /\ GackDelay + GackLen < EndGtsTime /\ BeaconDelay < GackDelay
  BY Lengths, GtsLengths DEF Lateness, Disciplined, EndGtsTime
<1>8. e.at = p + Lateness(c) + GackDelay
  <2>1. f.at = p + Lateness(c) + EndGtsTime
    BY <1>5, <1>6
  <2>2. e.at \in Nat
    BY Running
  <2> QED
    BY <1>3, <1>6, <1>7, <2>1, <2>2
<1>9. now \in Nat /\ now <= e.at /\ e.at \in Nat
  <2>1. now \in Nat
    BY Durations DEF BeaconInv, TypeOK
  <2> QED
    BY <2>1, Running DEF DelayIsPositive
<1>10. PICK s \in queue : Starts(s) /\ s.node = d /\ s.gts = i
  <2>1. d \in Nodes /\ d # PanC
    BY DsmeConstants DEF Nodes
  <2> QED
    BY <2>1 DEF CellInv, AllocatedStart
<1>11. PICK k \in Nat : s.at = SlotOf(k, act[d][i]) * Slot + Lateness(d)
  BY <1>4, <1>10, StartPlace
<1>12. k \in Int /\ SlotOf(k, act[d][i]) = SlotOf(k, x)
  BY <1>1, <1>2 DEF SlotOf, SameCell
<1>13. PICK r \in Int : r = SlotOf(k, x) * Slot
  BY <1>2, <1>4, <1>12, SlotOfType
<1>14. s.at = r + BeaconDelay /\ s.at \in Nat /\ e.at <= s.at
  BY <1>7, <1>10, <1>11, <1>12, <1>13, FirstIsFirst, Running
<1>15. ~(k <= j)
  <2>1. k <= j => r <= p
    BY <1>2, <1>4, <1>6, <1>12, <1>13, LaterStart
  <2> QED
    BY <1>7, <1>8, <1>14, <2>1
<1>16. p + MultiLen <= r
  BY <1>2, <1>4, <1>6, <1>12, <1>13, <1>15, LaterStart
<1>17. now + MultiLen < s.at + EndGtsTime
  BY <1>7, <1>8, <1>9, <1>14, <1>16
<1>18. PICK g \in queue : Ends(g) /\ SameGts(s, g)
  BY <1>10, <1>17 DEF CellInv, StillOpen
<1> QED
  BY <1>10, <1>18 DEF SameGts

\* When a node sends its group ACK, its own MAC is in a GTS and every device with
\* the matching entry listens to it on the same channel, late as its slot begins,
\* if both heard the PAN coordinator's last beacon.  It takes the wait of 3 ms
\* to be longer than a beacon: "This will avoid for sending GACK packet before
\* the receiver turn on RX" (lr-wpan-mac.cc:1538).
THEOREM DsmeGackHeard ==
  ASSUME StartsOnce, PanStarts, Disciplined, BeaconDelay < GackDelay, BI > SD
  PROVE  Spec /\ []DelayIsPositive => []GackHeard
<1>1. ASSUME BeaconInv, CellInv, RadioInv, FreshInv, DelayIsPositive PROVE GackHeard
  <2> SUFFICES ASSUME NEW e \in queue, e.do = "SendGack", First(e)
               PROVE  /\ mac[e.node].state = "GTS"
                      /\ \A d \in Devices : \A i \in mac[d].allocated :
                           /\ SameCell(act[d][i], OpenEntry(e.node)) /\ act[d][i].rx
                           /\ {d, e.node} \subseteq fresh
                           => /\ mac[d].state = "GTS" /\ mac[d].gts = i /\ mac[d].rxOn
                              /\ mac[d].channel = mac[e.node].channel
    BY DEF GackHeard
  <2>1. PICK c \in Nodes : c = e.node
    BY <1>1, Running
  <2>2. Acks(e)
    BY DEF Acks
  <2>3. PICK f \in queue : AckOf(e, f)
    BY <1>1, <2>2 DEF CellInv, OneAck
  <2>4. Ends(f) /\ f.node = c
    BY <2>1, <2>3 DEF AckOf, SameGts
  <2>5. InGts(f)
    BY <1>1, <2>4 DEF RadioInv, RadioOk
  <2>6. mac[c].state = "GTS" /\ mac[c].gts = f.gts
    <3>1. ASSUME NEW g \in queue, g.do = "GackSent", g.node = c PROVE FALSE
      <4>1. Acks(g)
        BY <3>1 DEF Acks
      <4>2. g = e
        BY <1>1, <2>1, <2>2, <3>1, <4>1 DEF CellInv, OneAck
      <4> QED
        BY <3>1, <4>2
    <3> QED
      BY <2>4, <2>5, <3>1 DEF InGts
  <2>7. ASSUME NEW d \in Devices, NEW i \in mac[d].allocated,
               SameCell(act[d][i], OpenEntry(c)), act[d][i].rx, d \in fresh, c \in fresh
        PROVE  mac[d].state = "GTS" /\ mac[d].gts = i /\ mac[d].rxOn
               /\ mac[d].channel = mac[c].channel
    <3>1. OpenEntry(c) = act[c][f.gts]
      BY <2>6 DEF OpenEntry
    <3>2. d \in Nodes
      BY DEF Nodes
    <3>3. PICK g \in queue : Ends(g) /\ g.node = d /\ g.gts = i
      BY <1>1, <2>3, <2>4, <2>7, <3>1, GackFindsOpen
    <3>4. InGts(g)
      BY <1>1, <3>2, <3>3 DEF RadioInv, RadioOk
    <3>5. mac[d].gts = i /\ mac[d].rxOn
      BY <2>7, <3>3, <3>4 DEF InGts
    <3>6. mac[d].state = "GTS"
      <4>1. ASSUME NEW h \in queue, h.do = "GackSent", h.node = d PROVE FALSE
        <5>1. Acks(h)
          BY <4>1 DEF Acks
        <5>2. PICK o \in queue : AckOf(h, o)
          BY <1>1, <5>1 DEF CellInv, OneAck
        <5>3. Ends(o) /\ o.node = d /\ o.gts = h.gts
          BY <4>1, <5>2 DEF AckOf, SameGts
        <5>4. o = g
          BY <1>1, <3>3, <5>3 DEF CellInv, OneEnd
        <5>5. ~act[d][i].rx
          BY <1>1, <3>3, <4>1, <5>1, <5>3, <5>4 DEF CellInv, OneAck
        <5> QED
          BY <2>7, <5>5
      <4> QED
        BY <3>3, <3>4, <4>1 DEF InGts
    <3>7. mac[d].channel = Hop(d, act[d][i])
      BY <1>1, <2>7, <3>3 DEF FreshInv, FreshOk
    <3>8. mac[c].channel = Hop(c, act[c][f.gts])
      BY <1>1, <2>4, <2>7 DEF FreshInv, FreshOk
    <3>9. Hop(d, act[d][i]) = Hop(c, act[c][f.gts])
      BY <1>1, <2>7, <3>1, HopsAlike
    <3> QED
      BY <3>5, <3>6, <3>7, <3>8, <3>9
  <2> QED
    BY <2>1, <2>6, <2>7
<1> QED
  BY <1>1, DsmeInvariant, CellInvariant, RadioInvariant, FreshInvariant, PTL

-----------------------------------------------------------------------------
(* The numbers of events stay bounded *)

LEMMA BoundedPart ==
  ASSUME NEW q, NEW r, Bounded(q), r \subseteq q
  PROVE  Bounded(r)
BY DEF Bounded

LEMMA BoundedList ==
  ASSUME NEW q, Bounded(q), NEW S, NEW es \in Seq(S)
  PROVE  Bounded(ScheduleAll(q, es))
<1>1. Len(es) \in Nat /\ DOMAIN es \subseteq 1..Len(es)
  OBVIOUS
<1> QED
  BY <1>1, ScheduledLast

LEMMA BoundedShort ==
  ASSUME NEW q, Bounded(q), NEW a, NEW b
  PROVE  /\ Bounded(ScheduleAll(q, <<>>)) /\ Bounded(ScheduleAll(q, <<a>>))
         /\ Bounded(ScheduleAll(q, <<a, b>>))
<1>1. <<>> \in Seq({a, b}) /\ <<a>> \in Seq({a, b}) /\ <<a, b>> \in Seq({a, b})
  OBVIOUS
<1> QED
  BY <1>1, BoundedList

LEMMA BoundedThen ==
  ASSUME NEW ev, Bounded(queue),
         \/ Then(ev, <<>>) \/ (\E a : Then(ev, <<a>>)) \/ (\E a, b : Then(ev, <<a, b>>))
  PROVE  Bounded(queue')
<1>1. PICK q : q = queue \ {ev}
  OBVIOUS
<1>2. Bounded(q)
  BY <1>1, BoundedPart
<1>3. \/ queue' = ScheduleAll(q, <<>>) \/ (\E a : queue' = ScheduleAll(q, <<a>>))
      \/ (\E a, b : queue' = ScheduleAll(q, <<a, b>>))
  BY <1>1 DEF Then
<1> QED
  BY <1>2, <1>3, BoundedShort

LEMMA BoundedGts ==
  ASSUME BeaconInv, NEW q, Bounded(q), NEW n \in Nodes, NEW t, NEW c
  PROVE  Bounded(ScheduleAll(q, When(c, ScheduleGts(n, t))))
<1>1. CASE c
  <2>1. act[n] \in Seq(Entries)
    BY DEF BeaconInv, TypeOK
  <2>2. PICK K \in Nat : K = Len(act[n]) /\ DOMAIN act[n] = 1..K
    BY <2>1
  <2>3. DOMAIN ScheduleGts(n, t) \subseteq 1..K
    BY <2>2 DEF ScheduleGts, ToSchedule
  <2>4. Bounded(ScheduleAll(q, ScheduleGts(n, t)))
    BY <2>3, ScheduledLast
  <2> QED
    BY <1>1, <2>4 DEF When
<1>2. CASE ~c
  BY <1>2, BoundedShort DEF When
<1> QED
  BY <1>1, <1>2

LEMMA BoundedWhen ==
  ASSUME NEW q, Bounded(q), NEW S, NEW a \in Seq(S), NEW b \in Seq(S), NEW c, NEW d
  PROVE  Bounded(ScheduleAll(q, When(c, a) \o When(d, b)))
<1>1. When(c, a) \in Seq(S) /\ When(d, b) \in Seq(S)
  BY ListWhen
<1>2. When(c, a) \o When(d, b) \in Seq(S)
  BY <1>1, ConcatProperties
<1> QED
  BY <1>2, BoundedList

LEMMA BoundedStep ==
  ASSUME BeaconInv, Bounded(queue), NEW ev \in queue, Handler(ev)
  PROVE  Bounded(queue')
<1>1. PICK n \in Nodes : n = ev.node
  BY Running
<1>2. PICK t : t = ev.at
  OBVIOUS
<1>3. now' = t
  BY <1>2, HandlerKeeps
<1>4. PICK q : q = queue \ {ev}
  OBVIOUS
<1>5. Bounded(q)
  BY <1>4, BoundedPart
<1>6. CASE \/ EndGTS(ev) \/ SendGack(ev) \/ GackSent(ev) \/ AwaitBeacon(ev) \/ StartSuperframe(ev)
           \/ SetIdle(ev) \/ SendOneEnhancedBeacon(ev) \/ BeaconLost(ev)
  <2>1. Then(ev, <<>>) \/ \E a : Then(ev, <<a>>)
    BY <1>6 DEF EndGTS, SendGack, GackSent, AwaitBeacon, StartSuperframe, SetIdle,
                SendOneEnhancedBeacon, BeaconLost
  <2> QED
    BY <2>1, BoundedThen
<1>7. CASE StartCAP(ev) \/ StartCFP(ev) \/ StartRemainingPeriod(ev)
  <2>1. StartCAP(ev) => \E a : Then(ev, <<a>>)
    BY DEF StartCAP
  <2>2. StartCFP(ev) => \E a : Then(ev, <<a>>)
    BY DEF StartCFP
  <2>3. StartRemainingPeriod(ev) => \E a : Then(ev, <<a>>)
    BY DEF StartRemainingPeriod
  <2> QED
    BY <1>7, <2>1, <2>2, <2>3, BoundedThen
<1>8. CASE StartGTS(ev)
  <2>1. PICK e1 : e1 = GtsEvent(t + MultiLen, n, "StartGTS", ev.gts)
    OBVIOUS
  <2>2. PICK e2 : e2 = GtsEvent(t + EndGtsTime, n, "EndGTS", ev.gts)
    OBVIOUS
  <2>3. PICK e3 : e3 = GtsEvent(t + GackTime, n, "SendGack", ev.gts)
    OBVIOUS
  <2>4. PICK c : queue' = ScheduleAll(q, <<e1, e2>> \o When(c, <<e3>>))
    BY <1>1, <1>2, <1>3, <1>4, <1>8, <2>1, <2>2, <2>3 DEF StartGTS, Then
  <2>5. <<e1, e2>> \in Seq({e1, e2, e3}) /\ <<e3>> \in Seq({e1, e2, e3})
    BY ShortLists
  <2>6. When(TRUE, <<e1, e2>>) = <<e1, e2>>
    BY DEF When
  <2>7. Bounded(ScheduleAll(q, When(TRUE, <<e1, e2>>) \o When(c, <<e3>>)))
    BY <1>5, <2>5, BoundedWhen
  <2> QED
    BY <2>4, <2>6, <2>7
<1>9. CASE StartMultisuperframe(ev)
  <2>1. PICK e1 : e1 = Event(t + MultiLen, n, "StartMultisuperframe", "OUT")
    OBVIOUS
  <2>2. PICK e2 : e2 = Event(t + SD, n, "StartSuperframe", "OUT")
    OBVIOUS
  <2>3. PICK c, d : queue' = ScheduleAll(q, When(c, <<e1>>) \o When(d, <<e2>>))
    BY <1>1, <1>2, <1>3, <1>4, <1>9, <2>1, <2>2 DEF StartMultisuperframe, Then
  <2>4. <<e1>> \in Seq({e1, e2}) /\ <<e2>> \in Seq({e1, e2})
    BY ShortLists
  <2> QED
    BY <1>5, <2>3, <2>4, BoundedWhen
<1>10. CASE StartRequest(ev)
  <2>1. CASE n = PanC
    <3>1. \E a, b : Then(ev, <<a, b>>)
      BY <1>1, <1>10, <2>1 DEF StartRequest
    <3> QED
      BY <3>1, BoundedThen
  <2>2. CASE n # PanC
    <3>1. queue' = ScheduleAll(q, When(SchedulesGts(n, FALSE), ScheduleGts(n, t)))
      BY <1>1, <1>3, <1>4, <1>10, <2>2 DEF StartRequest, Then
    <3> QED
      BY <1>5, <3>1, BoundedGts
  <2> QED
    BY <2>1, <2>2
<1>11. CASE StartTx(ev)
  <2>1. PICK S \in SUBSET Nodes : S = hearing'
    BY <1>11 DEF StartTx
  <2>2. queue' = ScheduleAll(q, BeaconEnds(n, S, t + BeaconLen))
    BY <1>1, <1>3, <1>4, <1>11, <2>1 DEF StartTx, Then
  <2>3. PICK nodes : nodes = SetToSeq(S) /\ nodes \in Seq(S)
    BY NodesInSeq
  <2>4. PICK a : a = Event(t + BeaconLen, n, "EndTx", "OUT")
    OBVIOUS
  <2>5. PICK T : T = {a} \cup {Event(t + BeaconLen, m, "EndRx", n) : m \in S}
    OBVIOUS
  <2>6. PICK b : b = [k \in DOMAIN nodes |-> Event(t + BeaconLen, nodes[k], "EndRx", n)]
    OBVIOUS
  <2>7. b \in Seq(T)
    <3>1. DOMAIN nodes = 1..Len(nodes) /\ Len(nodes) \in Nat
      BY <2>3
    <3>2. \A k \in 1..Len(nodes) : Event(t + BeaconLen, nodes[k], "EndRx", n) \in T
      BY <2>3, <2>5, <3>1
    <3> QED
      BY <2>6, <3>1, <3>2
  <2>8. <<a>> \in Seq(T)
    BY <2>5
  <2>9. <<a>> \o b \in Seq(T)
    BY <2>7, <2>8, ConcatProperties
  <2>10. BeaconEnds(n, S, t + BeaconLen) = <<a>> \o b
    BY <2>3, <2>4, <2>6 DEF BeaconEnds
  <2> QED
    BY <1>5, <2>2, <2>9, <2>10, BoundedList
<1>12. CASE EndTx(ev)
  <2>1. PICK c, a : queue' = ScheduleAll(ScheduleAll(q, When(c, ScheduleGts(n, t))), <<a>>)
    BY <1>1, <1>3, <1>4, <1>12 DEF EndTx
  <2> QED
    BY <1>5, <2>1, BoundedGts, BoundedShort
<1>13. CASE EndRx(ev)
  <2>1. PICK from : from = ev.arg
    OBVIOUS
  <2>2. PICK q0 : q0 = Cancel(q, n, "SearchTimeout")
    OBVIOUS
  <2>3. Bounded(q0)
    BY <1>5, <2>2, BoundedPart DEF Cancel
  <2>4. PICK q1 : q1 = ScheduleAll(q0, OnReception(n, from, t))
    OBVIOUS
  <2>5. PICK q2 : q2 = ScheduleAll(q1, When(IndicatesGts(n, from), ScheduleGts(n, t)))
    OBVIOUS
  <2>6. queue' = ScheduleAll(q2, PeriodAndSearch(n, from, t))
    BY <1>1, <1>3, <1>4, <1>13, <2>1, <2>2, <2>4, <2>5 DEF EndRx
  <2>7. PICK m, s, b, p, x, c, d, f :
          /\ OnReception(n, from, t) = When(c, <<m>>) \o When(d, <<s, b>>)
          /\ PeriodAndSearch(n, from, t) = <<p>> \o When(f, <<x>>)
    BY DEF OnReception, PeriodAndSearch
  <2>8. PICK S : S = {m, s, b, p, x}
    OBVIOUS
  <2>9. <<m>> \in Seq(S) /\ <<s, b>> \in Seq(S) /\ <<p>> \in Seq(S) /\ <<x>> \in Seq(S)
    BY <2>8, ShortLists
  <2>10. Bounded(q1)
    BY <2>3, <2>4, <2>7, <2>9, BoundedWhen
  <2>11. Bounded(q2)
    BY <2>5, <2>10, BoundedGts
  <2>12. When(TRUE, <<p>>) = <<p>>
    BY DEF When
  <2>13. Bounded(ScheduleAll(q2, When(TRUE, <<p>>) \o When(f, <<x>>)))
    BY <2>9, <2>11, BoundedWhen
  <2> QED
    BY <2>6, <2>7, <2>12, <2>13
<1>14. CASE SyncRequest(ev)
  <2>1. PICK q0 : q0 = Cancel(q, n, "SearchTimeout")
    OBVIOUS
  <2>2. Bounded(q0)
    BY <1>5, <2>1, BoundedPart DEF Cancel
  <2>3. \E a : queue' = ScheduleAll(q0, <<a>>)
    BY <1>1, <1>4, <1>14, <2>1 DEF SyncRequest, Search
  <2> QED
    BY <2>2, <2>3, BoundedShort
<1>15. CASE BeaconSearchTimeout(ev)
  <2>1. Then(ev, <<>>) \/ \E a : Then(ev, <<a>>)
    BY <1>15 DEF BeaconSearchTimeout, SearchAgain, Search
  <2> QED
    BY <2>1, BoundedThen
<1> QED
  BY <1>6, <1>7, <1>8, <1>9, <1>10, <1>11, <1>12, <1>13, <1>14, <1>15 DEF Handler

QueueBounded == Bounded(queue)

LEMMA BoundedInvariant == Spec => []QueueBounded
<1>1. ASSUME BeaconInv, QueueBounded, [Next]_vars PROVE QueueBounded'
  <2>1. ASSUME NEW ev \in queue, Handler(ev) PROVE Bounded(queue')
    BY <1>1, <2>1, BoundedStep DEF QueueBounded
  <2>2. CASE UNCHANGED queue
    BY <1>1, <2>2 DEF Bounded, QueueBounded
  <2>3. ASSUME NEW late \in LateEntries, AddDsmeACTEntity(late.node, late.entry)
        PROVE  UNCHANGED queue
    BY <2>3 DEF AddDsmeACTEntity
  <2>4. UNCHANGED vars => UNCHANGED queue
    BY DEF vars
  <2> QED
    BY <1>1, <2>1, <2>2, <2>3, <2>4 DEF Next, QueueBounded
<1>2. ASSUME Init PROVE QueueBounded
  <2>1. PICK es : es = [i \in DOMAIN Boot |-> Event(0, Boot[i].node, Boot[i].do, "OUT")]
    OBVIOUS
  <2>2. PICK K \in Nat : DOMAIN es \subseteq 1..K
    <3>1. PICK S : Boot \in Seq(S)
      BY DsmeConstants
    <3>2. Len(Boot) \in Nat /\ DOMAIN Boot = 1..Len(Boot)
      BY <3>1
    <3> QED
      BY <2>1, <3>2
  <2>3. Bounded({})
    BY DEF Bounded
  <2>4. queue = ScheduleAll({}, es)
    BY <1>2, <2>1 DEF Init
  <2> QED
    BY <2>2, <2>3, <2>4, ScheduledLast DEF QueueBounded
<1> QED
  BY <1>1, <1>2, DsmeInvariant, PTL DEF Spec

-----------------------------------------------------------------------------
(* m_curSuperframeIDx of the PAN coordinator *)

IsMulti(e) == e.do = "StartMultisuperframe"
IsSuper(e) == e.do = "StartSuperframe"
PanBoots(e) == e.do = "StartRequest" /\ e.node = PanC

\* The two handlers take turns: s is superframe a of multisuperframe k, and m
\* ends that multisuperframe.  At its end both come at the same time, m first.
Turn(m, s) ==
  /\ s.at <= now + SD
  /\ s.at = m.at => m.uid < s.uid
  /\ \E k \in Nat, a \in 0..NumSuperframes :
       /\ m.at = (k + 1) * MultiLen /\ s.at = k * MultiLen + a * SD
       /\ a = 0 => k > 0 /\ mac[PanC].isFirst /\ mac[PanC].idx = 0 /\ now = s.at
       /\ a > 0 /\ k > 0 => ~mac[PanC].isFirst /\ mac[PanC].idx = a - 1

\* No beacon makes another node count superframes.
MultisOfPan == \A e \in queue : IsMulti(e) \/ IsSuper(e) => e.node = PanC /\ e.arg = "OUT"
OneMulti ==
  \A e, f \in queue : (IsMulti(e) /\ IsMulti(f)) \/ (IsSuper(e) /\ IsSuper(f)) => e = f
BootAlone == \A e \in queue : PanBoots(e) => \A f \in queue : ~IsMulti(f) /\ ~IsSuper(f)
IdxPhase ==
  \/ \E e \in queue : PanBoots(e)
  \/ \E m \in queue : IsMulti(m) /\ m.at = 0 /\ now = 0 /\ \A s \in queue : ~IsSuper(s)
  \/ \E m, s \in queue : IsMulti(m) /\ IsSuper(s) /\ Turn(m, s)

IdxInv == MultisOfPan /\ OneMulti /\ BootAlone /\ IdxPhase

LEMMA IdxTypes ==
  ASSUME BeaconInv
  PROVE  /\ PanC \in Nodes /\ mac[PanC].idx \in 0..NumSuperframes - 1
         /\ mac[PanC].isFirst \in BOOLEAN
<1>1. PanC \in Nodes /\ mac[PanC] \in MacTypes
  BY MacTyped DEF Nodes
<1> QED
  BY <1>1 DEF MacTypes

LEMMA IdxKept ==
  ASSUME BeaconInv, IdxInv, DelayIsPositive, NEW ev \in queue, First(ev), now' = ev.at,
         \A f : IsMulti(f) \/ IsSuper(f) \/ PanBoots(f) => (f \in queue' <=> f \in queue),
         mac'[PanC].idx = mac[PanC].idx,
         \/ mac'[PanC].isFirst = mac[PanC].isFirst
         \/ ~mac'[PanC].isFirst /\ \A s \in queue : IsSuper(s) => s.at # ev.at
  PROVE  IdxInv'
<1>1. now \in Nat /\ ev.at \in Nat /\ now <= ev.at
  <2>1. now \in Nat
    BY Durations DEF BeaconInv, TypeOK
  <2> QED
    BY <2>1, Running DEF DelayIsPositive
<1>2. MultisOfPan' /\ OneMulti' /\ BootAlone'
  BY DEF IdxInv, MultisOfPan, OneMulti, BootAlone
<1>3. ASSUME NEW m \in queue, NEW s \in queue, IsMulti(m), IsSuper(s), Turn(m, s)
      PROVE  Turn(m, s)'
  <2>1. s.at \in Nat /\ ev.at <= s.at
    BY FirstIsFirst
  <2>2. s.at <= now' + SD
    <3>1. s.at <= now + SD /\ SD \in Nat
      BY <1>3, Lengths DEF Turn
    <3> QED
      BY <1>1, <2>1, <3>1
  <2>3. PICK k \in Nat, a \in 0..NumSuperframes :
          /\ m.at = (k + 1) * MultiLen /\ s.at = k * MultiLen + a * SD
          /\ a = 0 => k > 0 /\ mac[PanC].isFirst /\ mac[PanC].idx = 0 /\ now = s.at
          /\ a > 0 /\ k > 0 => ~mac[PanC].isFirst /\ mac[PanC].idx = a - 1
    BY <1>3 DEF Turn
  <2>4. a = 0 => k > 0 /\ mac'[PanC].isFirst /\ mac'[PanC].idx = 0 /\ now' = s.at
    <3>1. ASSUME a = 0 PROVE now' = s.at
      <4>1. now = s.at
        BY <2>3, <3>1
      <4> QED
        BY <1>1, <2>1, <4>1
    <3> QED
      BY <1>3, <2>3, <3>1
  <2>5. a > 0 /\ k > 0 => ~mac'[PanC].isFirst /\ mac'[PanC].idx = a - 1
    BY <2>3
  <2>6. s.at = m.at => m.uid < s.uid
    BY <1>3 DEF Turn
  <2> QED
    BY <2>2, <2>3, <2>4, <2>5, <2>6 DEF Turn
<1>4. ASSUME NEW m \in queue, IsMulti(m), m.at = 0, now = 0, \A s \in queue : ~IsSuper(s)
      PROVE  now' = 0
  <2>1. ev.at <= m.at
    BY FirstIsFirst
  <2> QED
    BY <1>1, <1>4, <2>1
<1>5. IdxPhase'
  <2>1. ASSUME NEW e \in queue, PanBoots(e) PROVE IdxPhase'
    BY <2>1 DEF IdxPhase
  <2>2. ASSUME NEW m \in queue, IsMulti(m), m.at = 0, now = 0, \A s \in queue : ~IsSuper(s)
        PROVE  IdxPhase'
    BY <1>4, <2>2 DEF IdxPhase
  <2>3. ASSUME NEW m \in queue, NEW s \in queue, IsMulti(m), IsSuper(s), Turn(m, s) PROVE IdxPhase'
    BY <1>3, <2>3 DEF IdxPhase
  <2> QED
    BY <2>1, <2>2, <2>3 DEF IdxInv, IdxPhase
<1> QED
  BY <1>2, <1>5 DEF IdxInv

LEMMA KindsOfIdx ==
  ASSUME NEW f
  PROVE  /\ IsMulti(f) \/ IsSuper(f) => Kind(f) = "multi"
         /\ PanBoots(f) => Kind(f) = "StartRequest"
BY KindsOfSender DEF IsMulti, IsSuper, PanBoots

\* The handlers that have nothing to do with it.
LEMMA QuietForIdx ==
  ASSUME BeaconInv, NEW ev \in queue, Handler(ev), ~StartSuperframe(ev),
         ~StartMultisuperframe(ev), ~(StartRequest(ev) /\ ev.node = PanC), ~EndRx(ev)
  PROVE  /\ \A f : IsMulti(f) \/ IsSuper(f) \/ PanBoots(f) => (f \in queue' <=> f \in queue)
         /\ KeepIdx(PanC)
<1>1. PanC \in Nodes
  BY DEF Nodes
<1>2. CASE \/ StartGTS(ev) \/ EndGTS(ev) \/ SendGack(ev) \/ GackSent(ev)
           \/ StartCAP(ev) \/ StartCFP(ev) \/ StartRemainingPeriod(ev) \/ AwaitBeacon(ev)
           \/ SetIdle(ev) \/ SendOneEnhancedBeacon(ev) \/ EndTx(ev)
           \/ SyncRequest(ev) \/ BeaconSearchTimeout(ev)
  <2>1. \/ Touches({"gts"}) \/ Touches({"own"}) \/ Touches({"in"}) \/ Touches({"SetIdle"})
        \/ Touches({"own", "gts"}) \/ Touches({"SyncRequest", "SearchTimeout"})
        \/ Touches({"SearchTimeout"})
    BY <1>2, StartGtsStep, GtsSteps, OwnCapStep, OwnCfpStep, OwnRemainingStep, InCapStep,
       InCfpStep, InRemainingStep, AwaitStep, SetIdleStep, SendBeaconStep, EndTxStep, SyncStep,
       TimeoutStep
  <2>2. KeepIdx(PanC)
    BY <1>1, <1>2, StartGtsStep, GtsSteps, OwnCapStep, OwnCfpStep, OwnRemainingStep, InCapStep,
       InCfpStep, InRemainingStep, AwaitStep, SetIdleStep, SendBeaconStep, EndTxStep, SyncStep,
       TimeoutStep DEF OwnFrame, InFrame, TrackFrame
  <2> QED
    BY <2>1, <2>2, TouchesNot, KindsOfIdx
<1>3. CASE StartTx(ev) \/ BeaconLost(ev)
  <2>1. (Touches({"own", "EndRx"}) \/ Touches({"EndRx"})) /\ mac' = mac
    BY <1>3, StartTxStep, BeaconLostStep
  <2> QED
    BY <2>1, TouchesNot, KindsOfIdx DEF KeepIdx
<1>4. CASE StartRequest(ev) /\ ev.node # PanC
  <2>1. /\ Adds(queue \ {ev}, queue', GtsItems(ev.node, ev.at))
        /\ Touches({"StartRequest", "gts"}) /\ KeepIdx(PanC)
    BY <1>1, <1>4, CoordStartStep DEF RequestFrame
  <2>2. ASSUME NEW f, PanBoots(f) PROVE f \in queue' <=> f \in queue
    <3>1. f \in queue => f \in queue'
      BY <1>4, <2>1, <2>2 DEF PanBoots, Adds
    <3>2. ASSUME f \in queue' PROVE f \in queue
      <4>1. ASSUME NEW x \in GtsItems(ev.node, ev.at), Like(f, x) PROVE FALSE
        <5>1. x.do = "StartGTS"
          BY DEF GtsItems, GtsEvent
        <5> QED
          BY <2>2, <4>1, <5>1, LikeKinds DEF PanBoots
      <4> QED
        BY <2>1, <3>2, <4>1 DEF Adds
    <3> QED
      BY <3>1, <3>2
  <2> QED
    BY <2>1, <2>2, TouchesNot, KindsOfIdx
<1> QED
  BY <1>2, <1>3, <1>4 DEF Handler

\* A beacon that the PAN coordinator hears does not come as a superframe begins.
LEMMA IdxOfReception ==
  ASSUME BeaconInv, SenderInv, GridInv, IdxInv, DelayIsPositive, NEW ev \in queue, First(ev),
         EndRx(ev)
  PROVE  IdxInv'
<1>1. PICK n \in Nodes : n = ev.node
  BY HeardBeacon
<1>2. PICK from \in Nodes : from = ev.arg
  BY HeardBeacon
<1>3. /\ now' = ev.at /\ ev.at = mac[from].bcnStart + BeaconDelay /\ n # from
      /\ mac[from].bitmapSd % NumSuperframes = 0 /\ ev.do = "EndRx"
  BY <1>1, <1>2, HeardBeacon
<1>4. PICK q : q = Cancel(queue \ {ev}, n, "SearchTimeout")
  OBVIOUS
<1>5. PICK New : New = ReceptionEvents(n, from, ev.at)
  OBVIOUS
<1>6. Adds(q, queue', New) /\ Only(n) /\ mac'[n] = AfterBeacon(n, from)
  BY <1>1, <1>2, <1>4, <1>5, EndRxStep
<1>7. \A f : IsMulti(f) \/ IsSuper(f) \/ PanBoots(f) => (f \in queue' <=> f \in queue)
  <2> SUFFICES ASSUME NEW f, IsMulti(f) \/ IsSuper(f) \/ PanBoots(f)
               PROVE  f \in queue' <=> f \in queue
    OBVIOUS
  <2>1. f \in queue => f \in queue'
    BY <1>3, <1>4, <1>6 DEF IsMulti, IsSuper, PanBoots, Cancel, Adds
  <2>2. ASSUME f \in queue' PROVE f \in queue
    <3>1. ASSUME NEW x \in New, Like(f, x) PROVE FALSE
      <4>1. Kind(x) \in {"SetIdle", "own", "gts", "in", "SearchTimeout"}
        BY <1>3, <1>5, ReceptionKinds
      <4>2. Kind(f) = Kind(x)
        BY <3>1, LikeKinds
      <4> QED
        BY <4>1, <4>2, KindsOfIdx
    <3> QED
      BY <1>4, <1>6, <2>2, <3>1 DEF Adds, Cancel
  <2> QED
    BY <2>1, <2>2
<1>8. PanC \in Nodes /\ mac[PanC].isFirst \in BOOLEAN
  BY IdxTypes
<1>9. mac'[PanC].idx = mac[PanC].idx
  <2>1. AfterBeacon(n, from).idx = mac[n].idx
    BY AfterBeaconFields
  <2> QED
    BY <1>6, <1>8, <2>1 DEF Only
<1>10. \A s \in queue : IsSuper(s) => s.at # ev.at
  <2> SUFFICES ASSUME NEW s \in queue, IsSuper(s), s.at = ev.at PROVE FALSE
    OBVIOUS
  <2>1. PICK b \in Nat : mac[from].bcnStart = b * SD
    <3>1. OnGrid(mac[from].bcnStart, SD, 0)
      BY DEF GridInv
    <3> QED
      BY <3>1, Lengths DEF OnGrid
  <2>2. PICK c \in Nat : s.at = c * SD
    <3>1. PICK m \in queue : Turn(m, s)
      <4>1. ~(\E e \in queue : PanBoots(e))
        BY DEF IdxInv, BootAlone
      <4>2. PICK m \in queue, t \in queue : IsMulti(m) /\ IsSuper(t) /\ Turn(m, t)
        BY <4>1 DEF IdxInv, IdxPhase
      <4>3. t = s
        BY <4>2 DEF IdxInv, OneMulti
      <4> QED
        BY <4>2, <4>3
    <3>2. PICK k \in Nat, a \in 0..NumSuperframes : s.at = k * MultiLen + a * SD
      BY <3>1 DEF Turn
    <3>3. PICK N \in Nat : N = NumSuperframes
      BY GtsLengths
    <3>4. k * MultiLen = (k * N) * SD
      BY <3>3, Lengths DEF MultiLen
    <3>5. a \in Nat
      BY <3>3
    <3>6. k * N + a \in Nat /\ s.at = (k * N + a) * SD
      BY <3>2, <3>3, <3>4, <3>5, Lengths
    <3> QED
      BY <3>6
  <2>3. b * SD + BeaconDelay = c * SD + 0
    BY <1>3, <2>1, <2>2, Lengths
  <2>4. SD \in Nat /\ BeaconDelay \in Int /\ 0 <= BeaconDelay /\ BeaconDelay < SD /\ BeaconDelay > 0
        /\ 0 \in Int /\ 0 <= 0 /\ 0 < SD /\ b \in Int /\ c \in Int
    BY Lengths
  <2>5. BeaconDelay = 0
    BY <2>3, <2>4, DivUnique
  <2> QED
    BY <2>4, <2>5
<1>11. \/ mac'[PanC].isFirst = mac[PanC].isFirst
       \/ ~mac'[PanC].isFirst /\ \A s \in queue : IsSuper(s) => s.at # ev.at
  <2>1. CASE n # PanC
    BY <1>6, <1>8, <2>1 DEF Only
  <2>2. CASE n = PanC
    <3>1. AfterBeacon(n, from).isFirst = (IF n \in Coords THEN mac[n].isFirst
                                          ELSE FirstOfMulti(n, from) /\ ~capReduction)
      BY AfterBeaconFields
    <3>2. FirstOfMulti(n, from) = mac[n].isFirst
      BY <1>3, <1>8, <2>2 DEF FirstOfMulti
    <3>3. mac'[PanC].isFirst = mac[PanC].isFirst \/ ~mac'[PanC].isFirst
      BY <1>6, <1>8, <2>2, <3>1, <3>2
    <3> QED
      BY <1>10, <3>3
  <2> QED
    BY <2>1, <2>2
<1> QED
  BY <1>3, <1>7, <1>9, <1>11, IdxKept

LEMMA IdxOfBoot ==
  ASSUME BeaconInv, SenderInv, IdxInv, NEW ev \in queue, StartRequest(ev), ev.node = PanC
  PROVE  IdxInv'
<1>1. PICK m : m = Event(0, PanC, "StartMultisuperframe", "OUT")
  OBVIOUS
<1>2. PICK b : b = Event(0, PanC, "SendBeacon", "OUT")
  OBVIOUS
<1>3. ev.do = "StartRequest" /\ ev.at = 0 /\ now' = 0
  BY Running DEF StartRequest, Runs, EventTypes
<1>4. Adds(queue \ {ev}, queue', {m, b})
  BY <1>1, <1>2, <1>3, PanStartStep
<1>5. m.do = "StartMultisuperframe" /\ m.at = 0 /\ m.node = PanC /\ m.arg = "OUT"
  BY <1>1 DEF Event
<1>6. b.do = "SendBeacon"
  BY <1>2 DEF Event
<1>7. \A f \in queue : ~IsMulti(f) /\ ~IsSuper(f)
  BY <1>3 DEF IdxInv, BootAlone, PanBoots
<1>8. ASSUME NEW f \in queue', IsMulti(f) \/ IsSuper(f) PROVE Like(f, m) /\ f \notin queue \ {ev}
  <2>1. f \notin queue \ {ev}
    BY <1>7, <1>8
  <2>2. Like(f, m) \/ Like(f, b)
    BY <1>4, <2>1 DEF Adds
  <2> QED
    BY <1>6, <1>8, <2>1, <2>2, LikeKinds DEF IsMulti, IsSuper
<1>9. \A f \in queue' : IsMulti(f) \/ IsSuper(f) =>
        IsMulti(f) /\ ~IsSuper(f) /\ f.at = 0 /\ f.node = PanC /\ f.arg = "OUT"
  BY <1>5, <1>8, LikeKinds DEF IsMulti, IsSuper
<1>10. ASSUME NEW e \in queue', NEW f \in queue', IsMulti(e), IsMulti(f) PROVE e = f
  <2>1. Like(e, m) /\ Like(f, m) /\ e \notin queue \ {ev} /\ f \notin queue \ {ev}
    BY <1>8, <1>10
  <2>2. Like(e, f)
    BY <2>1 DEF Like
  <2> QED
    BY <1>4, <2>1, <2>2 DEF Adds
<1>11. ASSUME NEW e \in queue', PanBoots(e) PROVE FALSE
  <2>1. ~Like(e, m) /\ ~Like(e, b)
    BY <1>5, <1>6, <1>11, LikeKinds DEF PanBoots
  <2>2. e \in queue /\ e # ev
    BY <1>4, <2>1 DEF Adds
  <2>3. Own(e) /\ Own(ev)
    BY <1>3, <1>11 DEF Own, PanBoots
  <2> QED
    BY <1>11, <2>2, <2>3 DEF SenderInv, OneOwn, PanBoots
<1>12. PICK g \in queue' : Like(g, m)
  BY <1>4 DEF Adds
<1>13. IsMulti(g) /\ g.at = 0
  BY <1>5, <1>12, LikeKinds DEF IsMulti
<1>14. MultisOfPan' /\ OneMulti' /\ BootAlone'
  BY <1>9, <1>10, <1>11 DEF MultisOfPan, OneMulti, BootAlone
<1>15. IdxPhase'
  BY <1>3, <1>9, <1>13 DEF IdxPhase
<1> QED
  BY <1>14, <1>15 DEF IdxInv

\* Before a multisuperframe ends, its superframes have begun.
LEMMA TurnTimes ==
  ASSUME NumSuperframes > 1
  PROVE  /\ NumSuperframes \in Nat /\ SD \in Nat /\ SD > 0
         /\ MultiLen \in Nat /\ MultiLen = NumSuperframes * SD /\ MultiLen > SD
         /\ \A k \in Nat : k * MultiLen \in Nat /\ (k + 1) * MultiLen = k * MultiLen + MultiLen
         /\ \A a \in Nat : a * SD \in Nat /\ (a + 1) * SD = a * SD + SD
         /\ \A a \in Nat : a < NumSuperframes => a * SD + SD <= MultiLen
<1>1. PICK N \in Nat : N = NumSuperframes /\ N > 1
  BY GtsLengths
<1>2. SD \in Nat /\ SD > 0 /\ MultiLen = N * SD /\ MultiLen \in Nat
  BY <1>1, Lengths, Durations DEF MultiLen
<1>3. ASSUME NEW a \in Nat, a < N PROVE a * SD + SD <= MultiLen
  <2>1. N - a \in Nat /\ N - a > 0
    BY <1>3
  <2>2. (N - a) * SD >= SD
    BY <1>2, <2>1, Product
  <2>3. (N - a) * SD = N * SD - a * SD
    BY <1>2
  <2>4. PICK b \in Int : b = a * SD
    BY <1>2
  <2>5. PICK c \in Int : c = N * SD
    BY <1>2
  <2> QED
    BY <1>2, <2>2, <2>3, <2>4, <2>5
<1>4. MultiLen > SD
  <2>1. 1 * SD + SD <= MultiLen
    BY <1>1, <1>3
  <2>2. 1 * SD = SD
    BY <1>2
  <2> QED
    BY <1>2, <2>1, <2>2
<1>5. PICK M \in Nat : M = MultiLen
  BY <1>2
<1>6. \A k \in Nat : k * M \in Nat /\ (k + 1) * M = k * M + M
  OBVIOUS
<1>7. \A a \in Nat : a * SD \in Nat /\ (a + 1) * SD = a * SD + SD
  BY <1>2
<1> QED
  BY <1>1, <1>2, <1>3, <1>4, <1>5, <1>6, <1>7

LEMMA IdxOfMulti ==
  ASSUME NumSuperframes > 1, BeaconInv, IdxInv, NEW ev \in queue, First(ev),
         StartMultisuperframe(ev)
  PROVE  IdxInv'
<1>1. IsMulti(ev) /\ now' = ev.at /\ ev.at \in Nat
  BY Running DEF StartMultisuperframe, Runs, IsMulti
<1>2. ev.node = PanC /\ ev.arg = "OUT"
  BY <1>1 DEF IdxInv, MultisOfPan
<1>3. PICK m : m = Event(ev.at + MultiLen, PanC, "StartMultisuperframe", "OUT")
  OBVIOUS
<1>4. PICK s : s = Event(ev.at + SD, PanC, "StartSuperframe", "OUT")
  OBVIOUS
<1>5. PICK New : New = {m} \cup IF ev.at <= SD THEN {s} ELSE {}
  OBVIOUS
<1>6. /\ Adds(queue \ {ev}, queue', New) /\ mac'[PanC].idx = 0 /\ mac'[PanC].isFirst = TRUE
  <2>1. New = MultiEvents(ev)
    BY <1>2, <1>3, <1>4, <1>5 DEF MultiEvents
  <2> QED
    BY <1>2, <2>1, MultiStep
<1>7. /\ m.do = "StartMultisuperframe" /\ m.at = ev.at + MultiLen /\ m.node = PanC /\ m.arg = "OUT"
      /\ s.do = "StartSuperframe" /\ s.at = ev.at + SD /\ s.node = PanC /\ s.arg = "OUT"
  BY <1>3, <1>4 DEF Event
<1>8. \A f \in queue : ~PanBoots(f)
  BY <1>1 DEF IdxInv, BootAlone
<1>9. \A f \in queue : IsMulti(f) => f = ev
  BY <1>1 DEF IdxInv, OneMulti
<1>10. ASSUME NEW f \in queue', f \notin queue \ {ev}
       PROVE  /\ f.node = PanC /\ f.arg = "OUT" /\ ~PanBoots(f)
              /\ Like(f, m) \/ (Like(f, s) /\ ev.at <= SD)
              /\ IsMulti(f) => Like(f, m)
              /\ IsSuper(f) => (Like(f, s) /\ ev.at <= SD)
  <2>1. Like(f, m) \/ (Like(f, s) /\ ev.at <= SD)
    BY <1>5, <1>6, <1>10 DEF Adds
  <2>2. CASE Like(f, m)
    <3>1. f.do = "StartMultisuperframe" /\ f.node = PanC /\ f.arg = "OUT"
      BY <1>7, <2>2, LikeKinds
    <3>2. ~IsSuper(f) /\ ~PanBoots(f)
      BY <3>1 DEF IsSuper, PanBoots
    <3> QED
      BY <2>2, <3>1, <3>2
  <2>3. CASE Like(f, s) /\ ev.at <= SD
    <3>1. f.do = "StartSuperframe" /\ f.node = PanC /\ f.arg = "OUT"
      BY <1>7, <2>3, LikeKinds
    <3> QED
      BY <2>3, <3>1 DEF IsMulti, IsSuper, PanBoots
  <2> QED
    BY <2>1, <2>2, <2>3
<1>11. MultisOfPan' /\ BootAlone'
  <2>1. \A f \in queue' : ~PanBoots(f)
    BY <1>8, <1>10
  <2> QED
    BY <1>10, <2>1 DEF IdxInv, MultisOfPan, BootAlone
<1>12. ASSUME NEW e \in queue', NEW f \in queue', IsMulti(e), IsMulti(f) PROVE e = f
  <2>1. e \notin queue \ {ev} /\ f \notin queue \ {ev}
    BY <1>9, <1>12
  <2>2. Like(e, f)
    BY <1>10, <1>12, <2>1 DEF Like
  <2> QED
    BY <1>6, <2>1, <2>2 DEF Adds
<1>13. PICK g \in queue' : Like(g, m)
  BY <1>5, <1>6 DEF Adds
<1>14. IsMulti(g) /\ g.at = ev.at + MultiLen
  BY <1>7, <1>13, LikeKinds DEF IsMulti
<1>15. CASE ev.at = 0 /\ \A f \in queue : ~IsSuper(f)
  <2>1. PICK h \in queue' : Like(h, s)
    BY <1>5, <1>6, <1>15, Lengths DEF Adds
  <2>2. IsSuper(h) /\ h.at = 0 + SD
    BY <1>7, <1>15, <2>1, LikeKinds DEF IsSuper
  <2>3. ASSUME NEW e \in queue', NEW f \in queue', IsSuper(e), IsSuper(f) PROVE e = f
    <3>1. e \notin queue \ {ev} /\ f \notin queue \ {ev}
      BY <1>15, <2>3
    <3>2. Like(e, f)
      BY <1>10, <2>3, <3>1 DEF Like
    <3> QED
      BY <1>6, <3>1, <3>2 DEF Adds
  <2>4. Turn(g, h)'
    <3>1. h.at <= now' + SD
      BY <1>1, <1>15, <2>2, Lengths
    <3>2. h.at # g.at
      BY <1>14, <1>15, <2>2, TurnTimes
    <3>3. 1 \in 0..NumSuperframes /\ 0 \in Nat
      BY GtsLengths
    <3>4. g.at = (0 + 1) * MultiLen /\ h.at = 0 * MultiLen + 1 * SD
      BY <1>14, <1>15, <2>2, TurnTimes
    <3> QED
      BY <3>1, <3>2, <3>3, <3>4 DEF Turn
  <2>5. OneMulti' /\ IdxPhase'
    BY <1>12, <1>14, <2>2, <2>3, <2>4 DEF OneMulti, IdxPhase
  <2> QED
    BY <1>11, <2>5 DEF IdxInv
<1>16. ASSUME NEW h \in queue, IsSuper(h), Turn(ev, h) PROVE IdxInv'
  <2>1. PICK k \in Nat, a \in 0..NumSuperframes :
          ev.at = (k + 1) * MultiLen /\ h.at = k * MultiLen + a * SD
    BY <1>16 DEF Turn
  <2>2. ev.at <= h.at /\ h.at \in Nat
    BY FirstIsFirst
  <2>3. PICK p \in Nat : p = k * MultiLen
    BY TurnTimes
  <2>4. ev.at = p + MultiLen /\ MultiLen \in Nat /\ MultiLen > SD /\ SD \in Nat /\ SD > 0
    BY <2>1, <2>3, TurnTimes
  <2>5. a = NumSuperframes
    <3>1. a \in Nat /\ a <= NumSuperframes
      BY GtsLengths
    <3>2. ASSUME a < NumSuperframes PROVE FALSE
      <4>1. PICK b \in Nat : b = a * SD
        BY <3>1, TurnTimes
      <4>2. b + SD <= MultiLen
        BY <3>1, <3>2, <4>1, TurnTimes
      <4>3. h.at = p + b
        BY <2>1, <2>3, <4>1
      <4> QED
        BY <2>2, <2>4, <4>2, <4>3
    <3> QED
      BY <3>1, <3>2, GtsLengths
  <2>6. h.at = ev.at
    <3>1. a * SD = MultiLen
      BY <2>5, TurnTimes
    <3> QED
      BY <2>1, <2>3, <2>4, <3>1
  <2>7. ~(ev.at <= SD)
    BY <2>4
  <2>8. h # ev
    BY <1>1, <1>16 DEF IsMulti, IsSuper
  <2>9. h \in queue'
    BY <1>6, <2>8 DEF Adds
  <2>10. ASSUME NEW e \in queue', NEW f \in queue', IsSuper(e), IsSuper(f) PROVE e = f
    <3>1. e \in queue /\ f \in queue
      BY <1>10, <2>7, <2>10
    <3> QED
      BY <2>10, <3>1 DEF IdxInv, OneMulti
  <2>11. Turn(g, h)'
    <3>1. h.at <= now' + SD
      BY <1>1, <2>4, <2>6
    <3>2. h.at # g.at
      BY <1>1, <1>14, <2>4, <2>6
    <3>3. 0 \in 0..NumSuperframes /\ k + 1 \in Nat /\ k + 1 > 0
      BY GtsLengths
    <3>4. g.at = (k + 1 + 1) * MultiLen
      <4>1. PICK j \in Nat : j = k + 1
        OBVIOUS
      <4>2. (j + 1) * MultiLen = j * MultiLen + MultiLen
        BY TurnTimes
      <4> QED
        BY <1>14, <2>1, <4>1, <4>2
    <3>5. h.at = (k + 1) * MultiLen + 0 * SD
      <4>1. 0 * SD = 0
        BY <2>4
      <4> QED
        BY <1>1, <2>1, <2>6, <4>1
    <3>6. h.at = now'
      BY <1>1, <2>6
    <3> QED
      BY <1>6, <3>1, <3>2, <3>3, <3>4, <3>5, <3>6 DEF Turn
  <2>12. OneMulti' /\ IdxPhase'
    BY <1>12, <1>14, <1>16, <2>9, <2>10, <2>11 DEF OneMulti, IdxPhase
  <2> QED
    BY <1>11, <2>12 DEF IdxInv
<1> QED
  BY <1>8, <1>9, <1>15, <1>16 DEF IdxInv, IdxPhase

LEMMA IdxOfSuper ==
  ASSUME NumSuperframes > 1, BeaconInv, QueueBounded, IdxInv, NEW ev \in queue, First(ev),
         StartSuperframe(ev)
  PROVE  IdxInv'
<1>1. IsSuper(ev) /\ now' = ev.at /\ ev.at \in Nat
  BY Running DEF StartSuperframe, Runs, IsSuper
<1>2. ev.node = PanC
  BY <1>1 DEF IdxInv, MultisOfPan
<1>3. PICK x : x = Event(ev.at + SD, PanC, "StartSuperframe", "OUT")
  OBVIOUS
<1>4. PICK q : q = queue \ {ev}
  OBVIOUS
<1>5. /\ queue' = ScheduleAll(q, <<x>>) /\ Adds(q, queue', {x})
      /\ mac'[PanC].idx = IF IdxGrows(PanC) THEN mac[PanC].idx + 1 ELSE mac[PanC].idx
      /\ mac'[PanC].isFirst = FALSE
  BY <1>2, <1>3, <1>4, SuperframeStep
<1>6. x.do = "StartSuperframe" /\ x.at = ev.at + SD /\ x.node = PanC /\ x.arg = "OUT"
  BY <1>3 DEF Event
<1>7. \A f \in queue : ~PanBoots(f)
  BY <1>1 DEF IdxInv, BootAlone
<1>8. \A f \in queue : IsSuper(f) => f = ev
  BY <1>1 DEF IdxInv, OneMulti
<1>9. ASSUME NEW f \in queue', f \notin q
      PROVE  /\ f.node = PanC /\ f.arg = "OUT" /\ Like(f, x)
             /\ ~PanBoots(f) /\ ~IsMulti(f) /\ IsSuper(f)
  <2>1. Like(f, x)
    BY <1>5, <1>9 DEF Adds
  <2>2. f.do = "StartSuperframe" /\ f.node = PanC /\ f.arg = "OUT"
    BY <1>6, <2>1, LikeKinds
  <2> QED
    BY <2>1, <2>2 DEF IsMulti, IsSuper, PanBoots
<1>10. MultisOfPan' /\ BootAlone'
  <2>1. \A f \in queue' : ~PanBoots(f)
    BY <1>4, <1>7, <1>9
  <2>2. \A f \in queue' : IsMulti(f) \/ IsSuper(f) => f.node = PanC /\ f.arg = "OUT"
    BY <1>4, <1>9 DEF IdxInv, MultisOfPan
  <2> QED
    BY <2>1, <2>2 DEF MultisOfPan, BootAlone
<1>11. OneMulti'
  <2>1. ASSUME NEW e \in queue', NEW f \in queue', IsSuper(e), IsSuper(f) PROVE e = f
    <3>1. e \notin q /\ f \notin q
      BY <1>4, <1>8, <2>1
    <3>2. Like(e, f)
      BY <1>9, <3>1 DEF Like
    <3> QED
      BY <1>5, <3>1, <3>2 DEF Adds
  <2>2. ASSUME NEW e \in queue', NEW f \in queue', IsMulti(e), IsMulti(f) PROVE e = f
    <3>1. e \in queue /\ f \in queue
      BY <1>4, <1>9, <2>2
    <3> QED
      BY <2>2, <3>1 DEF IdxInv, OneMulti
  <2> QED
    BY <2>1, <2>2 DEF OneMulti
<1>12. PICK m \in queue : IsMulti(m) /\ Turn(m, ev)
  <2>1. PICK m \in queue, s \in queue : IsMulti(m) /\ IsSuper(s) /\ Turn(m, s)
    BY <1>1, <1>7 DEF IdxInv, IdxPhase
  <2>2. s = ev
    BY <1>8, <2>1
  <2> QED
    BY <2>1, <2>2
<1>13. m \in q /\ m \in queue' /\ m.at \in Nat
  <2>1. m # ev
    BY <1>1, <1>12 DEF IsMulti, IsSuper
  <2> QED
    BY <1>4, <1>5, <2>1, Running DEF Adds
<1>14. PICK g \in queue' : Like(g, x)
  BY <1>5 DEF Adds
<1>15. IsSuper(g) /\ g.at = ev.at + SD /\ g \notin q
  <2>1. IsSuper(g) /\ g.at = ev.at + SD
    BY <1>6, <1>14, LikeKinds DEF IsSuper
  <2> QED
    BY <1>4, <1>8, <2>1
<1>16. g.at = m.at => m.uid < g.uid
  <2>1. Bounded(q)
    BY <1>4, BoundedPart DEF QueueBounded
  <2>2. 1 \in Nat /\ DOMAIN <<x>> \subseteq 1..1
    OBVIOUS
  <2>3. \A f \in queue' : f \notin q => \A o \in q : o.at = f.at => o.uid < f.uid
    BY <1>5, <2>1, <2>2, ScheduledLast
  <2> QED
    BY <1>13, <1>15, <2>3
<1>17. ev.at < m.at
  <2>1. m.at > ev.at \/ (m.at = ev.at /\ m.uid >= ev.uid)
    BY DEF First
  <2>2. ev.at = m.at => m.uid < ev.uid
    BY <1>12 DEF Turn
  <2>3. PICK b \in Nat : m.uid \in 0..b /\ ev.uid \in 0..b
    BY DEF QueueBounded, Bounded
  <2> QED
    BY <1>1, <1>13, <2>1, <2>2, <2>3
<1>18. PICK k \in Nat, a \in 0..NumSuperframes :
         /\ m.at = (k + 1) * MultiLen /\ ev.at = k * MultiLen + a * SD
         /\ a = 0 => k > 0 /\ mac[PanC].isFirst /\ mac[PanC].idx = 0 /\ now = ev.at
         /\ a > 0 /\ k > 0 => ~mac[PanC].isFirst /\ mac[PanC].idx = a - 1
  BY <1>12 DEF Turn
<1>19. a \in Nat /\ a < NumSuperframes /\ NumSuperframes \in Nat
  <2>1. a \in Nat /\ a <= NumSuperframes /\ NumSuperframes \in Nat
    BY GtsLengths
  <2>2. a # NumSuperframes
    <3>1. ASSUME a = NumSuperframes PROVE FALSE
      <4>1. a * SD = MultiLen
        BY <3>1, TurnTimes
      <4>2. (k + 1) * MultiLen = k * MultiLen + MultiLen
        BY TurnTimes
      <4>3. m.at = ev.at
        BY <1>18, <4>1, <4>2
      <4> QED
        BY <1>1, <1>17, <4>3
    <3> QED
      BY <3>1
  <2> QED
    BY <2>1, <2>2
<1>20. g.at = k * MultiLen + (a + 1) * SD
  <2>1. PICK p \in Nat : p = k * MultiLen
    BY TurnTimes
  <2>2. PICK b \in Nat : b = a * SD
    BY <1>19, TurnTimes
  <2>3. (a + 1) * SD = b + SD
    BY <1>19, <2>2, TurnTimes
  <2>4. ev.at = p + b /\ SD \in Nat
    BY <1>18, <2>1, <2>2, Lengths
  <2> QED
    BY <1>15, <2>1, <2>3, <2>4
<1>21. k > 0 => mac'[PanC].idx = a
  <2>1. mac[PanC].idx \in 0..NumSuperframes - 1 /\ mac[PanC].isFirst \in BOOLEAN
    BY IdxTypes
  <2>2. CASE a = 0
    BY <1>5, <1>18, <2>2 DEF IdxGrows
  <2>3. CASE a > 0
    <3>1. ASSUME k > 0 PROVE mac[PanC].idx = a - 1 /\ IdxGrows(PanC)
      BY <1>18, <1>19, <2>3, <3>1 DEF IdxGrows
    <3> QED
      BY <1>5, <1>19, <3>1
  <2> QED
    BY <1>19, <2>2, <2>3
<1>22. Turn(m, g)'
  <2>1. g.at <= now' + SD
    BY <1>1, <1>15, Lengths
  <2>2. a + 1 \in 0..NumSuperframes /\ a + 1 > 0 /\ a + 1 - 1 = a
    BY <1>19
  <2> QED
    BY <1>5, <1>16, <1>18, <1>20, <1>21, <2>1, <2>2 DEF Turn
<1>23. IdxPhase'
  BY <1>12, <1>13, <1>15, <1>22 DEF IdxPhase
<1> QED
  BY <1>10, <1>11, <1>23 DEF IdxInv

LEMMA IdxInvariant ==
  ASSUME StartsOnce, PanStarts, NumSuperframes > 1
  PROVE  Spec /\ []DelayIsPositive => []IdxInv
<1>1. ASSUME BeaconInv, SenderInv, GridInv, QueueBounded, IdxInv, DelayIsPositive, [Next]_vars
      PROVE  IdxInv'
  <2>1. ASSUME NEW ev \in queue, First(ev), Handler(ev) PROVE IdxInv'
    <3>1. CASE StartSuperframe(ev)
      BY <1>1, <2>1, <3>1, IdxOfSuper
    <3>2. CASE StartMultisuperframe(ev)
      BY <1>1, <2>1, <3>2, IdxOfMulti
    <3>3. CASE StartRequest(ev) /\ ev.node = PanC
      BY <1>1, <2>1, <3>3, IdxOfBoot
    <3>4. CASE EndRx(ev)
      BY <1>1, <2>1, <3>4, IdxOfReception
    <3>5. CASE /\ ~StartSuperframe(ev) /\ ~StartMultisuperframe(ev) /\ ~EndRx(ev)
               /\ ~(StartRequest(ev) /\ ev.node = PanC)
      <4>1. /\ \A f : IsMulti(f) \/ IsSuper(f) \/ PanBoots(f) => (f \in queue' <=> f \in queue)
            /\ KeepIdx(PanC)
        BY <1>1, <2>1, <3>5, QuietForIdx
      <4>2. now' = ev.at
        BY <2>1, HandlerKeeps
      <4> QED
        BY <1>1, <2>1, <4>1, <4>2, IdxKept DEF KeepIdx
    <3> QED
      BY <3>1, <3>2, <3>3, <3>4, <3>5
  <2>2. CASE UNCHANGED <<now, queue, mac>>
    BY <1>1, <2>2 DEF IdxInv, MultisOfPan, OneMulti, BootAlone, IdxPhase, Turn
  <2>3. ASSUME NEW late \in LateEntries, AddDsmeACTEntity(late.node, late.entry)
        PROVE  UNCHANGED <<now, queue, mac>>
    BY <2>3 DEF AddDsmeACTEntity
  <2>4. UNCHANGED vars => UNCHANGED <<now, queue, mac>>
    BY DEF vars
  <2> QED
    BY <1>1, <2>1, <2>2, <2>3, <2>4 DEF Next
<1>2. ASSUME Init PROVE IdxInv
  <2>1. \A f \in queue : ~IsMulti(f) /\ ~IsSuper(f)
    BY <1>2, BootEvents DEF IsMulti, IsSuper
  <2>2. \E e \in queue : PanBoots(e)
    BY <1>2, BootEvents DEF PanStarts, PanBoots
  <2> QED
    BY <2>1, <2>2 DEF IdxInv, MultisOfPan, OneMulti, BootAlone, IdxPhase
<1> QED
  BY <1>1, <1>2, DsmeInvariant, DsmeSenders, GridInvariant, BoundedInvariant, PTL DEF Spec

\* From its second multisuperframe on, m_curSuperframeIDx of the PAN coordinator
\* is the superframe that runs, although the handlers that reset and that
\* increment it run at the same time and only the order in which they were
\* scheduled puts the reset first (lr-wpan-mac.cc:1581-1662).
THEOREM DsmeSuperframeIdx ==
  ASSUME StartsOnce, PanStarts
  PROVE  Spec /\ []DelayIsPositive => []SuperframeIdxTracks
<1>1. PICK N \in Nat : N = NumSuperframes /\ N > 0
  BY GtsLengths
<1>2. CASE N = 1
  <2>1. ASSUME BeaconInv PROVE SuperframeIdxTracks
    <3>1. mac[PanC].idx = 0
      BY <1>1, <1>2, <2>1, IdxTypes
    <3>2. PICK d \in Int : d = now \div SD
      <4>1. now \in Nat
        BY <2>1, Durations DEF BeaconInv, TypeOK
      <4>2. SD \in Nat /\ SD > 0
        BY Lengths
      <4> QED
        BY <4>1, <4>2
    <3>3. d % 1 = 0
      OBVIOUS
    <3> QED
      BY <1>1, <1>2, <3>1, <3>2, <3>3 DEF SuperframeIdxTracks
  <2> QED
    BY <2>1, DsmeInvariant, PTL
<1>3. CASE N > 1
  <2>1. ASSUME BeaconInv, IdxInv PROVE SuperframeIdxTracks
    <3> SUFFICES ASSUME Settled, now >= MultiLen
                 PROVE  mac[PanC].idx = (now \div SD) % NumSuperframes
      BY DEF SuperframeIdxTracks
    <3>1. now \in Nat
      BY <2>1, Durations DEF BeaconInv, TypeOK
    <3>2. \A f \in queue : f.at \in Nat /\ f.at > now
      BY <2>1, Running DEF Settled
    <3>3. ~(\E e \in queue : PanBoots(e))
      <4> SUFFICES ASSUME NEW e \in queue, PanBoots(e) PROVE FALSE
        OBVIOUS
      <4>1. e.at = 0
        BY <2>1, Running DEF EventTypes, PanBoots
      <4> QED
        BY <3>1, <3>2, <4>1
    <3>4. ~(\E m \in queue : IsMulti(m) /\ m.at = 0)
      BY <3>1, <3>2
    <3>5. PICK m \in queue, s \in queue : Turn(m, s)
      BY <2>1, <3>3, <3>4 DEF IdxInv, IdxPhase
    <3>6. PICK k \in Nat, a \in 0..N :
            /\ s.at = k * MultiLen + a * SD
            /\ a = 0 => now = s.at
            /\ a > 0 /\ k > 0 => mac[PanC].idx = a - 1
      BY <1>1, <3>5 DEF Turn
    <3>7. s.at <= now + SD /\ now < s.at /\ s.at \in Nat
      BY <3>2, <3>5 DEF Turn
    <3>8. a \in Nat /\ a > 0 /\ a <= N
      BY <1>1, <3>1, <3>6, <3>7
    <3>9. SD \in Nat /\ SD > 0 /\ MultiLen \in Nat
      BY <1>1, <1>3, TurnTimes
    <3>10. k > 0
      <4>1. ASSUME k = 0 PROVE FALSE
        <5>1. PICK b \in Nat : b = a * SD
          BY <3>8, <3>9
        <5>2. b <= MultiLen
          <6>1. PICK c \in Nat : c = a - 1
            BY <3>8
          <6>2. c * SD + SD <= MultiLen /\ (c + 1) * SD = c * SD + SD
            <7>1. NumSuperframes > 1 /\ c < NumSuperframes
              BY <1>1, <1>3, <3>8, <6>1
            <7> QED
              BY <7>1, TurnTimes
          <6>3. a = c + 1
            BY <3>8, <6>1
          <6> QED
            BY <5>1, <6>2, <6>3
        <5>3. s.at = b
          BY <3>6, <3>9, <4>1, <5>1
        <5> QED
          BY <3>1, <3>7, <3>9, <5>2, <5>3
      <4> QED
        BY <4>1
    <3>11. PICK c \in Nat : c = a - 1
      BY <3>8
    <3>12. PICK d \in Nat : d = k * N + c
      BY <1>1, <3>11
    <3>13. s.at = d * SD + SD
      <4>1. MultiLen = N * SD
        BY <1>1 DEF MultiLen
      <4>2. a = c + 1
        BY <3>8, <3>11
      <4>3. k * (N * SD) + (c + 1) * SD = (k * N + c) * SD + SD
        BY <1>1, <3>9
      <4> QED
        BY <3>6, <3>12, <4>1, <4>2, <4>3
    <3>14. PICK r \in Int : r = now - d * SD
      BY <3>1, <3>9
    <3>15. now = d * SD + r /\ 0 <= r /\ r < SD
      <4>1. PICK p \in Int : p = d * SD
        BY <3>9
      <4> QED
        BY <3>1, <3>7, <3>9, <3>13, <3>14, <4>1
    <3>16. now \div SD = d
      <4>1. PICK e \in Int : e = now \div SD
        BY <3>1, <3>9
      <4>2. PICK u \in Int : u = now % SD
        BY <3>1, <3>9
      <4>3. now = e * SD + u /\ 0 <= u /\ u < SD
        BY <3>1, <3>9, <4>1, <4>2
      <4>4. e * SD + u = d * SD + r
        BY <3>15, <4>3
      <4>5. e = d
        BY <3>9, <3>15, <4>3, <4>4, DivUnique
      <4> QED
        BY <4>1, <4>5
    <3>17. d % N = c
      <4>1. c \in Int /\ 0 <= c /\ c < N /\ k \in Int
        BY <3>8, <3>11
      <4>2. (k * N + c) % N = c
        BY <1>1, <4>1, ModUnique
      <4> QED
        BY <3>12, <4>2
    <3>18. mac[PanC].idx = c
      BY <3>6, <3>8, <3>10, <3>11
    <3> QED
      BY <1>1, <3>16, <3>17, <3>18
  <2>2. NumSuperframes > 1
    BY <1>1, <1>3
  <2>3. Spec /\ []DelayIsPositive => []IdxInv
    BY <2>2, IdxInvariant
  <2> QED
    BY <2>1, <2>3, DsmeInvariant, PTL
<1> QED
  BY <1>1, <1>2, <1>3

-----------------------------------------------------------------------------
(* Beacons on the air, and the last one that a node has heard *)

\* When the last beacon of a sender ends.
BeaconEnd(n) == mac[n].bcnStart + BeaconDelay

\* A node receives one beacon at a time.
OneReception ==
  \A e, f \in queue : e.do = "EndRx" /\ f.do = "EndRx" /\ e.node = f.node => e = f

\* A beacon on the air is later than those heard, and in its sender's slot.
OnTheAir ==
  \A e \in queue : e.do = "EndRx" =>
    heardAt[e.node] < e.at /\ OnGrid(mac[e.arg].bcnStart, BI, BeaconSlot(e.arg))

\* The sender of the beacon that a node heard last has sent no other one for a
\* beacon interval.
LastHeard(n) ==
  LET x == heardFrom[n]
  IN /\ x \notin Devices /\ ~mac[x].sendBcn /\ OnGrid(heardAt[n], SD, BeaconDelay)
     /\ BeaconEnd(x) = heardAt[n] \/ BeaconEnd(x) >= heardAt[n] + BI
     /\ \A e \in queue : Own(e) /\ e.node = x =>
          /\ e.do # "StartRequest"
          /\ e.do = "SendBeacon" => e.at + BeaconDelay >= heardAt[n] + BI

Heard == \A n \in Nodes : heardAt[n] <= now /\ (mac[n].known => LastHeard(n))

AirInv == heardFrom \in [Nodes -> Nodes] /\ OneReception /\ OnTheAir /\ Heard

\* No beacon is on the air when another one begins.
LEMMA AirIsFree ==
  ASSUME BeaconInv, SenderInv, GridInv, AirInv, DelayIsPositive, NEW e \in queue,
         e.do = "StartTx", First(e), NEW g \in queue, g.do = "EndRx"
  PROVE  FALSE
<1>1. PICK s \in Nodes : s = e.node
  BY Running
<1>2. PICK n \in Nodes : n = g.arg
  BY Running DEF EventTypes
<1>3. e.arg = "OUT"
  BY Running DEF EventTypes
<1>4. OfSender(e) /\ Own(e)
  BY <1>3 DEF OfSender, Own, OwnPeriods
<1>5. ReceptionOk(g)
  BY DEF SenderInv, Receptions
<1>6. /\ s \notin Devices /\ OnGrid(mac[s].bcnStart, BI, BeaconSlot(s))
      /\ n \notin Devices /\ OnGrid(mac[n].bcnStart, BI, BeaconSlot(n))
  BY <1>1, <1>2, <1>3, <1>5, Running DEF EventInSlot, OwnPeriods, AirInv, OnTheAir, ReceptionOk
<1>7. PICK a \in Nat : a = mac[s].bcnStart
  BY StartTimes
<1>8. PICK b \in Nat : b = mac[n].bcnStart
  BY StartTimes
<1>9. e.at = a + Turnaround
  BY <1>1, <1>4, <1>7 DEF SenderInv, OwnTimes, OwnTime
<1>10. g.at = b + BeaconDelay
  BY <1>2, <1>5, <1>8 DEF ReceptionOk
<1>11. e.at \in Nat /\ g.at \in Nat /\ e.at <= g.at /\ now <= e.at /\ now \in Nat
  <2>1. now \in Nat
    BY Durations DEF BeaconInv, TypeOK
  <2> QED
    BY <2>1, FirstIsFirst DEF DelayIsPositive
<1>12. b <= now /\ OnGrid(a, SD, 0) /\ OnGrid(b, SD, 0)
  BY <1>7, <1>8 DEF GridInv
<1>13. Turnaround \in Nat /\ BeaconDelay \in Nat
  BY Lengths
<1>14. b <= a + Turnaround /\ a + Turnaround <= b + BeaconDelay
  BY <1>9, <1>10, <1>11, <1>12, <1>13
<1>15. a = b
  BY <1>12, <1>14, SameSuperframe
<1>16. s = n
  BY <1>6, <1>7, <1>8, <1>15, BeaconsApart
<1> QED
  BY <1>1, <1>2, <1>4, <1>5, <1>16 DEF ReceptionOk

\* A beacon on the air after a step was there before, or has just begun.
LEMMA NewReceptions ==
  ASSUME BeaconInv, SenderInv, NEW ev \in queue, Handler(ev), NEW f \in queue', f.do = "EndRx"
  PROVE  \/ f \in queue /\ f # ev
         \/ /\ StartTx(ev) /\ f \notin queue \ {ev} /\ f.arg = ev.node /\ f.at = ev.at + BeaconLen
            /\ f.gts = 0
<1>1. CASE StartTx(ev)
  <2>1. Adds(queue \ {ev}, queue',
             {Event(ev.at + BeaconLen, ev.node, "EndTx", "OUT")}
             \cup {Event(ev.at + BeaconLen, m, "EndRx", ev.node) : m \in hearing'})
    BY <1>1, StartTxStep
  <2>2. CASE f \in queue \ {ev}
    BY <2>2
  <2>3. CASE f \notin queue \ {ev}
    <3>1. PICK x \in {Event(ev.at + BeaconLen, ev.node, "EndTx", "OUT")}
                    \cup {Event(ev.at + BeaconLen, m, "EndRx", ev.node) : m \in hearing'} :
            Like(f, x)
      BY <2>1, <2>3 DEF Adds
    <3>2. x.do = "EndRx"
      BY <3>1, LikeKinds
    <3>3. x.arg = ev.node /\ x.at = ev.at + BeaconLen /\ x.gts = 0
      BY <3>1, <3>2 DEF Event
    <3> QED
      BY <1>1, <2>3, <3>1, <3>3, LikeKinds
  <2> QED
    BY <2>2, <2>3
<1>2. CASE EndRx(ev)
  <2>1. Adds(Cancel(queue \ {ev}, ev.node, "SearchTimeout"), queue',
             ReceptionEvents(ev.node, ev.arg, ev.at))
    BY <1>2, EndRxStep
  <2>2. mac[ev.arg].bitmapSd % NumSuperframes = 0
    BY <1>2, HeardBeacon
  <2>3. ASSUME NEW x \in ReceptionEvents(ev.node, ev.arg, ev.at), Like(f, x) PROVE FALSE
    <3>1. Kind(x) # "EndRx"
      BY <2>2, <2>3, ReceptionKinds
    <3> QED
      BY <2>3, <3>1, LikeKinds, KindsOfSender
  <2> QED
    BY <2>1, <2>3 DEF Adds, Cancel
<1>3. CASE BeaconLost(ev)
  <2>1. Adds(queue \ {ev}, queue', {})
    BY <1>3, BeaconLostStep
  <2> QED
    BY <2>1 DEF Adds
<1>4. CASE ~StartTx(ev) /\ ~EndRx(ev) /\ ~BeaconLost(ev)
  <2>1. \/ Touches({"gts"}) \/ Touches({"own"}) \/ Touches({"in"}) \/ Touches({"SetIdle"})
        \/ Touches({"own", "gts"}) \/ Touches({"SyncRequest", "SearchTimeout"})
        \/ Touches({"SearchTimeout"}) \/ Touches({"multi"}) \/ Touches({"StartRequest", "gts"})
        \/ Touches({"StartRequest", "multi", "own"})
    BY <1>4, StartGtsStep, GtsSteps, OwnCapStep, OwnCfpStep, OwnRemainingStep, InCapStep,
       InCfpStep, InRemainingStep, AwaitStep, SetIdleStep, SendBeaconStep, EndTxStep, SyncStep,
       TimeoutStep, SuperframeStep, MultiStep, PanStartStep, CoordStartStep DEF Handler
  <2>2. ev.do # "EndRx"
    BY <1>4 DEF Handler, StartGTS, EndGTS, SendGack, GackSent, StartCAP, StartCFP,
       StartRemainingPeriod, AwaitBeacon, StartSuperframe, StartMultisuperframe, StartRequest,
       SetIdle, SendOneEnhancedBeacon, EndTx, SyncRequest, BeaconSearchTimeout, Runs
  <2>3. Kind(f) = "EndRx"
    BY KindsOfSender
  <2>4. f \in queue
    BY <2>1, <2>3, TouchesNot
  <2> QED
    BY <2>2, <2>4
<1> QED
  BY <1>1, <1>2, <1>3, <1>4

\* Only the beacon of a node moves its start, and only a request or a beacon
\* that it hears changes whether it waits to send one.
LEMMA SenderKept ==
  ASSUME BeaconInv, NEW ev \in queue, Handler(ev), NEW m \in Nodes
  PROVE  /\ ~(SendOneEnhancedBeacon(ev) /\ ev.node = m) => mac'[m].bcnStart = mac[m].bcnStart
         /\ ~((StartRequest(ev) \/ EndRx(ev)) /\ ev.node = m) => mac'[m].sendBcn = mac[m].sendBcn
<1>1. CASE m # ev.node
  BY <1>1, OthersKept
<1>2. CASE m = ev.node
  <2>1. CASE EndRx(ev)
    <3>1. mac'[m] = AfterBeacon(m, ev.arg)
      BY <1>2, <2>1, EndRxStep
    <3> QED
      BY <1>2, <2>1, <3>1, BcnStartKept
  <2>2. CASE StartRequest(ev) /\ ev.node = PanC
    BY <2>2, PanStartStep
  <2>3. CASE StartRequest(ev) /\ ev.node # PanC
    BY <1>2, <2>3, CoordStartStep DEF RequestFrame
  <2>4. CASE SendOneEnhancedBeacon(ev)
    BY <1>2, <2>4, SendBeaconStep
  <2>5. CASE \/ StartTx(ev) \/ EndTx(ev)
             \/ (StartCAP(ev) \/ StartCFP(ev) \/ StartRemainingPeriod(ev)) /\ ev.arg = "OUT"
    BY <1>2, <2>5, StartTxStep, EndTxStep, OwnCapStep, OwnCfpStep, OwnRemainingStep DEF KeepBeacon
  <2>6. CASE \/ StartGTS(ev) \/ EndGTS(ev) \/ SendGack(ev) \/ GackSent(ev)
             \/ (StartCAP(ev) \/ StartCFP(ev) \/ StartRemainingPeriod(ev)) /\ ev.arg # "OUT"
             \/ AwaitBeacon(ev) \/ StartSuperframe(ev) \/ StartMultisuperframe(ev) \/ SetIdle(ev)
             \/ BeaconLost(ev) \/ SyncRequest(ev) \/ BeaconSearchTimeout(ev)
    BY <2>6, QuietForSender DEF KeepOwn
  <2> QED
    BY <2>1, <2>2, <2>3, <2>4, <2>5, <2>6 DEF Handler
<1> QED
  BY <1>1, <1>2

LEMMA LastHeardKept ==
  ASSUME BeaconInv, SenderInv, NEW ev \in queue, First(ev), Handler(ev), NEW n \in Nodes,
         LastHeard(n), heardFrom[n] \in Nodes, heardFrom'[n] = heardFrom[n],
         heardAt[n] \in Nat, heardAt'[n] = heardAt[n]
  PROVE  LastHeard(n)'
<1>1. PICK x \in Nodes : x = heardFrom[n]
  OBVIOUS
<1>2. PICK t \in Nat : t = heardAt[n]
  OBVIOUS
<1>3. PICK b \in Nat : b = mac[x].bcnStart
  BY StartTimes
<1>4. BI \in Nat /\ BeaconDelay \in Nat
  BY Lengths
<1>5. /\ x \notin Devices /\ ~mac[x].sendBcn /\ OnGrid(t, SD, BeaconDelay)
      /\ b + BeaconDelay = t \/ b + BeaconDelay >= t + BI
  BY <1>1, <1>2, <1>3 DEF LastHeard, BeaconEnd
<1>6. \A e \in queue : Own(e) /\ e.node = x =>
        e.do # "StartRequest" /\ (e.do = "SendBeacon" => e.at + BeaconDelay >= t + BI)
  BY <1>1, <1>2 DEF LastHeard
<1>7. ~mac'[x].sendBcn
  <2>1. ~(StartRequest(ev) /\ ev.node = x)
    BY <1>6 DEF StartRequest, Runs, Own
  <2>2. CASE EndRx(ev) /\ ev.node = x
    <3>1. mac'[x] = AfterBeacon(x, ev.arg)
      BY <2>2, EndRxStep
    <3>2. AfterBeacon(x, ev.arg).sendBcn = FALSE
      BY ZenonT(60), AfterBeaconFields
    <3> QED
      BY <3>1, <3>2
  <2>3. CASE ~(EndRx(ev) /\ ev.node = x)
    BY <1>5, <2>1, <2>3, SenderKept
  <2> QED
    BY <2>2, <2>3
<1>8. mac'[x].bcnStart + BeaconDelay = t \/ mac'[x].bcnStart + BeaconDelay >= t + BI
  <2>1. CASE SendOneEnhancedBeacon(ev) /\ ev.node = x
    <3>1. mac'[x].bcnStart = ev.at /\ ev.do = "SendBeacon"
      BY <2>1, SendBeaconStep DEF SendOneEnhancedBeacon, Runs
    <3> QED
      BY <1>6, <2>1, <3>1 DEF Own, OfSender
  <2>2. CASE ~(SendOneEnhancedBeacon(ev) /\ ev.node = x)
    BY <1>3, <1>5, <2>2, SenderKept
  <2> QED
    BY <2>1, <2>2
<1>9. ASSUME NEW e \in queue', Own(e), e.node = x
      PROVE  e.do # "StartRequest" /\ (e.do = "SendBeacon" => e.at + BeaconDelay >= t + BI)
  <2>1. CASE e \in queue
    BY <1>6, <1>9, <2>1
  <2>2. CASE Succeeds(e, ev)
    <3>1. ev.node = x /\ Own(ev) /\ e.do # "StartRequest"
      BY <1>9, <2>2 DEF Succeeds
    <3>2. ASSUME e.do = "SendBeacon" PROVE e.at = b + BI
      BY <1>3, <1>6, <2>2, <3>1, <3>2 DEF Succeeds
    <3> QED
      BY <1>4, <1>5, <3>1, <3>2
  <2>3. CASE EndRx(ev) /\ e.node = ev.node /\ mac[ev.node].sendBcn
    BY <1>5, <1>9, <2>3
  <2> QED
    BY <1>9, <2>1, <2>2, <2>3, OwnNext
<1> QED
  BY <1>1, <1>2, <1>5, <1>7, <1>8, <1>9 DEF LastHeard, BeaconEnd, Own, OfSender

LEMMA LastHeardNew ==
  ASSUME BeaconInv, SenderInv, GridInv, heardFrom \in [Nodes -> Nodes], heardAt \in [Nodes -> Nat],
         NEW ev \in queue, First(ev), Handler(ev), EndRx(ev)
  PROVE  LastHeard(ev.node)' /\ heardFrom' \in [Nodes -> Nodes]
<1>1. PICK n \in Nodes : n = ev.node
  BY Running
<1>2. PICK x \in Nodes : x = ev.arg
  BY HeardBeacon
<1>3. /\ n # x /\ x \notin Devices /\ ~mac[x].sendBcn /\ mac'[x] = mac[x]
      /\ ev.at = mac[x].bcnStart + BeaconDelay /\ ev.do = "EndRx"
  BY <1>1, <1>2, HeardBeacon
<1>4. heardAt' = [heardAt EXCEPT ![n] = ev.at] /\ heardFrom' = [heardFrom EXCEPT ![n] = x]
  BY <1>1, <1>2, EndRxStep
<1>5. heardAt'[n] = ev.at /\ heardFrom'[n] = x /\ heardFrom' \in [Nodes -> Nodes]
  BY <1>4
<1>6. OnGrid(ev.at, SD, BeaconDelay)
  <2>1. OnGrid(mac[x].bcnStart, SD, 0)
    BY DEF GridInv
  <2>2. SD \in Nat /\ BeaconDelay \in Nat
    BY Lengths
  <2>3. OnGrid(mac[x].bcnStart + BeaconDelay, SD, 0 + BeaconDelay)
    BY <2>1, <2>2, GridShift
  <2>4. 0 + BeaconDelay = BeaconDelay
    BY <2>2
  <2> QED
    BY <1>3, <2>3, <2>4
<1>7. ASSUME NEW e \in queue', Own(e), e.node = x
      PROVE  e.do \notin {"StartRequest", "SendBeacon"}
  <2>1. CASE e \in queue
    BY <1>2, <1>3, <1>7, <2>1 DEF SenderInv, Receptions, ReceptionOk
  <2>2. CASE Succeeds(e, ev)
    BY <1>1, <1>3, <1>7, <2>2 DEF Succeeds
  <2>3. CASE e.node = ev.node
    BY <1>1, <1>3, <1>7, <2>3
  <2> QED
    BY <1>7, <2>1, <2>2, <2>3, OwnNext
<1> QED
  BY <1>1, <1>3, <1>5, <1>6, <1>7 DEF LastHeard, BeaconEnd, Own, OfSender

\* Only a beacon that a node hears changes what it has heard.
LEMMA HeardKept ==
  ASSUME BeaconInv, NEW ev \in queue, Handler(ev), heardFrom \in [Nodes -> Nodes],
         heardAt \in [Nodes -> Nat], NEW m \in Nodes, ~(EndRx(ev) /\ ev.node = m)
  PROVE  heardAt'[m] = heardAt[m] /\ heardFrom'[m] = heardFrom[m] /\ mac'[m].known = mac[m].known
<1>1. CASE EndRx(ev)
  <2>1. /\ m # ev.node /\ heardAt' = [heardAt EXCEPT ![ev.node] = ev.at]
        /\ heardFrom' = [heardFrom EXCEPT ![ev.node] = ev.arg] /\ Only(ev.node)
    BY <1>1, EndRxStep
  <2> QED
    BY <2>1 DEF Only
<1>2. CASE ~EndRx(ev)
  <2>1. heardAt' = heardAt /\ heardFrom' = heardFrom
    BY <1>2, HandlerKeeps DEF heard
  <2>2. mac'[m].known = mac[m].known
    <3>1. CASE SyncRequest(ev) \/ BeaconSearchTimeout(ev)
      BY <3>1, SyncStep, TimeoutStep DEF TrackFrame
    <3>2. CASE ~SyncRequest(ev) /\ ~BeaconSearchTimeout(ev)
      BY <1>2, <3>2, QuietForSearch DEF KeepTrack
    <3> QED
      BY <3>1, <3>2
  <2> QED
    BY <2>1, <2>2
<1> QED
  BY <1>1, <1>2

LEMMA AirStep ==
  ASSUME BeaconInv, SenderInv, GridInv, AirInv, DelayIsPositive, heardAt \in [Nodes -> Nat],
         NEW ev \in queue, First(ev), Handler(ev)
  PROVE  AirInv'
<1>1. now' = ev.at /\ ev.at \in Nat /\ now \in Nat /\ now <= ev.at
  <2>1. now \in Nat
    BY Durations DEF BeaconInv, TypeOK
  <2> QED
    BY <2>1, HandlerKeeps, Running DEF DelayIsPositive
<1>2. heardFrom' \in [Nodes -> Nodes]
  <2>1. CASE EndRx(ev)
    BY <2>1, LastHeardNew DEF AirInv
  <2>2. CASE ~EndRx(ev)
    <3>1. heardFrom' = heardFrom
      BY <2>2, HandlerKeeps DEF heard
    <3> QED
      BY <3>1 DEF AirInv
  <2> QED
    BY <2>1, <2>2
<1>3. ASSUME NEW n \in Nodes PROVE heardAt'[n] <= now' /\ (mac'[n].known => LastHeard(n)')
  <2>1. CASE EndRx(ev) /\ ev.node = n
    <3>1. heardAt'[n] = ev.at
      BY <2>1, EndRxStep
    <3> QED
      BY <1>1, <2>1, <3>1, LastHeardNew DEF AirInv
  <2>2. CASE ~(EndRx(ev) /\ ev.node = n)
    <3>1. /\ heardAt'[n] = heardAt[n] /\ heardFrom'[n] = heardFrom[n]
          /\ mac'[n].known = mac[n].known
      BY <2>2, HeardKept DEF AirInv
    <3>2. heardAt[n] \in Nat /\ heardAt[n] <= now /\ heardFrom[n] \in Nodes
          /\ (mac[n].known => LastHeard(n))
      BY DEF AirInv, Heard
    <3>3. heardAt'[n] <= now'
      BY <1>1, <3>1, <3>2
    <3> QED
      BY <3>1, <3>2, <3>3, LastHeardKept
  <2> QED
    BY <2>1, <2>2
<1>4. ASSUME NEW e \in queue', NEW f \in queue', e.do = "EndRx", f.do = "EndRx", e.node = f.node
      PROVE  e = f
  <2>1. CASE e \in queue /\ f \in queue
    BY <1>4, <2>1 DEF AirInv, OneReception
  <2>2. CASE StartTx(ev)
    <3>1. ev.do = "StartTx"
      BY <2>2 DEF StartTx, Runs
    <3>2. \A g \in queue : g.do # "EndRx"
      BY <3>1, AirIsFree
    <3>3. /\ e \notin queue \ {ev} /\ e.arg = ev.node /\ e.at = ev.at + BeaconLen /\ e.gts = 0
          /\ f \notin queue \ {ev} /\ f.arg = ev.node /\ f.at = ev.at + BeaconLen /\ f.gts = 0
      BY <1>4, <3>2, NewReceptions
    <3>4. Like(e, f)
      BY <1>4, <3>3 DEF Like
    <3>5. PICK New : Adds(queue \ {ev}, queue', New)
      BY <2>2, StartTxStep
    <3> QED
      BY <3>3, <3>4, <3>5 DEF Adds
  <2> QED
    BY <1>4, <2>1, <2>2, NewReceptions
<1>5. ASSUME NEW f \in queue', f.do = "EndRx"
      PROVE  heardAt'[f.node] < f.at /\ OnGrid(mac'[f.arg].bcnStart, BI, BeaconSlot(f.arg))
  <2>1. CASE f \in queue /\ f # ev
    <3>1. PICK n \in Nodes : n = f.node
      BY <2>1, Running
    <3>2. PICK x \in Nodes : x = f.arg
      BY <1>5, <2>1, Running DEF EventTypes
    <3>3. ~(EndRx(ev) /\ ev.node = n)
      <4>1. EndRx(ev) => ev.do = "EndRx"
        BY DEF EndRx, Runs
      <4> QED
        BY <1>5, <2>1, <3>1, <4>1 DEF AirInv, OneReception
    <3>4. ~(SendOneEnhancedBeacon(ev) /\ ev.node = x)
      <4>1. ReceptionOk(f)
        BY <1>5, <2>1 DEF SenderInv, Receptions
      <4>2. SendOneEnhancedBeacon(ev) => ev.do = "SendBeacon" /\ Own(ev)
        BY DEF SendOneEnhancedBeacon, Runs, Own, OfSender
      <4> QED
        BY <3>2, <4>1, <4>2 DEF ReceptionOk
    <3>5. heardAt'[n] = heardAt[n] /\ mac'[x].bcnStart = mac[x].bcnStart
      BY <3>3, <3>4, HeardKept, SenderKept DEF AirInv
    <3> QED
      BY <1>5, <2>1, <3>1, <3>2, <3>5 DEF AirInv, OnTheAir
  <2>2. CASE StartTx(ev) /\ f.arg = ev.node /\ f.at = ev.at + BeaconLen
    <3>1. PICK n \in Nodes : n = f.node
      <4>1. BeaconInv'
        BY <2>2, StartTxInv
      <4> QED
        BY <1>5, <4>1 DEF BeaconInv, TypeOK
    <3>2. ev.do = "StartTx" /\ ev.arg = "OUT" /\ ev.node \in Nodes /\ mac' = mac
      BY <2>2, Running, StartTxStep DEF StartTx, Runs
    <3>3. ~EndRx(ev)
      BY <3>2 DEF EndRx, Runs
    <3>4. heardAt'[n] = heardAt[n] /\ heardAt[n] \in Nat /\ heardAt[n] <= now
      BY <3>3, HeardKept DEF AirInv, Heard
    <3>5. heardAt'[n] < f.at
      BY <1>1, <2>2, <3>4, Lengths
    <3>6. OnGrid(mac[ev.node].bcnStart, BI, BeaconSlot(ev.node))
      BY <3>2, Running DEF EventInSlot, OwnPeriods
    <3> QED
      BY <2>2, <3>1, <3>2, <3>5, <3>6
  <2> QED
    BY <1>5, <2>1, <2>2, NewReceptions
<1> QED
  BY <1>2, <1>3, <1>4, <1>5 DEF AirInv, OneReception, OnTheAir, Heard

LEMMA AirInvariant ==
  ASSUME StartsOnce
  PROVE  Spec /\ []DelayIsPositive => []AirInv
<1>1. ASSUME BeaconInv, SenderInv, SearchInv, GridInv, AirInv, DelayIsPositive, [Next]_vars
      PROVE  AirInv'
  <2>1. ASSUME NEW ev \in queue, First(ev), Handler(ev) PROVE AirInv'
    BY <1>1, <2>1, AirStep DEF SearchInv
  <2>2. CASE UNCHANGED <<now, queue, mac, heardAt, heardFrom>>
    BY <1>1, <2>2 DEF AirInv, OneReception, OnTheAir, Heard, LastHeard, BeaconEnd
  <2>3. ASSUME NEW late \in LateEntries, AddDsmeACTEntity(late.node, late.entry)
        PROVE  UNCHANGED <<now, queue, mac, heardAt, heardFrom>>
    BY <2>3 DEF AddDsmeACTEntity, history
  <2>4. UNCHANGED vars => UNCHANGED <<now, queue, mac, heardAt, heardFrom>>
    BY DEF vars, history
  <2> QED
    BY <1>1, <2>1, <2>2, <2>3, <2>4 DEF Next
<1>2. ASSUME Init PROVE AirInv
  <2>1. \A f \in queue : f.do # "EndRx"
    BY <1>2, BootEvents
  <2>2. \A n \in Nodes : heardAt[n] <= now /\ ~mac[n].known
    BY <1>2 DEF Init, MacAtStart
  <2>3. heardFrom \in [Nodes -> Nodes]
    BY <1>2 DEF Init, Nodes
  <2> QED
    BY <2>1, <2>2, <2>3 DEF AirInv, OneReception, OnTheAir, Heard
<1> QED
  BY <1>1, <1>2, DsmeInvariant, DsmeSenders, SearchInvariant, GridInvariant, PTL DEF Spec

-----------------------------------------------------------------------------
(* The periods of the superframe that a beacon has begun for a node *)

In(e) == e.do \in {"StartCAP", "StartCFP", "StartRemainingPeriod"} /\ e.arg # "OUT"

\* The periods of the superframe that the last beacon has begun.
InTime(e) ==
  LET m == mac[e.node]
      t == heardAt[e.node]
  IN /\ m.known
     /\ e.do = "StartCAP" => e.at = t
     /\ e.do = "StartCFP" => e.at = t + IncomingCap \/ (e.at = t /\ m.incFirstCFP)
     /\ e.do = "StartRemainingPeriod" => e.at = t + SD - BeaconLen
     /\ e.do # "StartRemainingPeriod" => BeaconEnd(heardFrom[e.node]) = t

\* Those of the CFP that a flag nobody has set gives a node.
Stray(e) ==
  /\ misled[e.node] > 0
  /\ \/ e.do = "StartCFP" /\ e.at + 7 * Slot = misled[e.node]
     \/ e.do = "StartRemainingPeriod" /\ e.at = misled[e.node]

CfpComes(n, t) ==
  \E e \in queue : In(e) /\ InTime(e) /\ e.node = n /\ e.do = "StartCFP" /\ e.at = t

EndOfCfp(e, n) == (In(e) \/ e.do = "AwaitBeacon") /\ e.node = n

\* The CFP of a node ends with its superframe, or it is the stray one.
CfpEnds(n) == \E e \in queue : EndOfCfp(e, n) /\ e.at <= heardAt[n] + SD - BeaconLen
StrayEnds(n) == misled[n] > 0 /\ \E e \in queue : EndOfCfp(e, n) /\ e.at <= misled[n]

\* The stray CFP begins two incoming CAPs after a beacon, and lasts seven slots.
StrayFrom(n, s) ==
  \E a \in Nat : /\ OnGrid(a, SD, BeaconDelay) /\ a <= heardAt[n]
                 /\ s = a + 2 * IncomingCap + 7 * Slot

MisledFrom(n) == misled[n] > 0 => StrayFrom(n, misled[n])

InsInTime(n) == \A e \in queue : In(e) /\ e.node = n => InTime(e) \/ Stray(e)

TimelyOf(e, n) == In(e) /\ e.node = n /\ InTime(e)
OneInTime(n) == \A e, f \in queue : TimelyOf(e, n) /\ TimelyOf(f, n) => e = f

CapEnds(n) == mac[n].inc = "CAP" => CfpComes(n, heardAt[n] + IncomingCap)
CfpIsOver(n) == mac[n].inc = "CFP" => StrayEnds(n) \/ (mac[n].known /\ CfpEnds(n))

\* A flag that is set during a stray CFP is reset before the CFP goes on.
FlagIsRead(n) ==
  mac[n].incFirstCFP /\ misled[n] > 0 =>
    CfpComes(n, heardAt[n]) /\ misled[n] > heardAt[n] + 7 * Slot

PeriodOk(n) ==
  InsInTime(n) /\ OneInTime(n) /\ MisledFrom(n) /\ CapEnds(n) /\ CfpIsOver(n) /\ FlagIsRead(n)

PeriodsInv == misled \in [Nodes -> Nat] /\ \A n \in Nodes : PeriodOk(n)

SameIns(n) ==
  \A f : (In(f) \/ f.do = "AwaitBeacon") /\ f.node = n => (f \in queue' <=> f \in queue)

LEMMA InKinds ==
  ASSUME NEW f
  PROVE  In(f) \/ f.do = "AwaitBeacon" => Kind(f) = "in"
BY DEF Kind, In, GtsHandlers, OwnPeriods

LEMMA LikeIn ==
  ASSUME NEW f, NEW e, Like(f, e)
  PROVE  In(f) <=> In(e)
BY DEF Like, In

LEMMA InTypes ==
  ASSUME BeaconInv, NEW n \in Nodes
  PROVE  mac[n].inc \in Periods /\ mac[n].incFirstCFP \in BOOLEAN /\ mac[n].known \in BOOLEAN
<1>1. mac[n] \in MacTypes
  BY MacTyped
<1> QED
  BY <1>1 DEF MacTypes

LEMMA QuietForIn ==
  ASSUME BeaconInv, NEW ev \in queue, Handler(ev), ~EndRx(ev), ~AwaitBeacon(ev),
         ~((StartCAP(ev) \/ StartCFP(ev) \/ StartRemainingPeriod(ev)) /\ ev.arg # "OUT")
  PROVE  \A m \in Nodes : SameIns(m) /\ KeepIn(m)
<1>1. CASE \/ StartGTS(ev) \/ EndGTS(ev) \/ SendGack(ev) \/ GackSent(ev)
           \/ (StartCAP(ev) \/ StartCFP(ev) \/ StartRemainingPeriod(ev)) /\ ev.arg = "OUT"
           \/ SetIdle(ev) \/ SendOneEnhancedBeacon(ev) \/ EndTx(ev)
           \/ StartSuperframe(ev) \/ StartMultisuperframe(ev)
           \/ SyncRequest(ev) \/ BeaconSearchTimeout(ev)
  <2>1. \/ Touches({"gts"}) \/ Touches({"own"}) \/ Touches({"SetIdle"}) \/ Touches({"multi"})
        \/ Touches({"own", "gts"}) \/ Touches({"SyncRequest", "SearchTimeout"})
        \/ Touches({"SearchTimeout"})
    BY <1>1, StartGtsStep, GtsSteps, OwnCapStep, OwnCfpStep, OwnRemainingStep, SetIdleStep,
       SendBeaconStep, EndTxStep, SuperframeStep, MultiStep, SyncStep, TimeoutStep
  <2>2. \A m \in Nodes : KeepIn(m)
    BY <1>1, StartGtsStep, GtsSteps, OwnCapStep, OwnCfpStep, OwnRemainingStep, SetIdleStep,
       SendBeaconStep, EndTxStep, SuperframeStep, MultiStep, SyncStep, TimeoutStep
       DEF OwnFrame, IdxFrame, TrackFrame
  <2> QED
    BY <2>1, <2>2, TouchesNot, InKinds DEF SameIns
<1>2. CASE StartTx(ev) \/ BeaconLost(ev)
  <2>1. (Touches({"own", "EndRx"}) \/ Touches({"EndRx"})) /\ mac' = mac
    BY <1>2, StartTxStep, BeaconLostStep
  <2> QED
    BY <2>1, TouchesNot, InKinds DEF KeepIn, SameIns
<1>3. CASE StartRequest(ev)
  <2>1. /\ Touches({"StartRequest", "gts"}) \/ Touches({"StartRequest", "multi", "own"})
        /\ \A m \in Nodes : KeepIn(m)
    BY <1>3, PanStartStep, CoordStartStep DEF RequestFrame, KeepIn
  <2> QED
    BY <2>1, TouchesNot, InKinds DEF SameIns
<1> QED
  BY <1>1, <1>2, <1>3 DEF Handler

LEMMA InsOfOthers ==
  ASSUME BeaconInv, NEW ev \in queue, Handler(ev), NEW n \in Nodes, n # ev.node
  PROVE  SameIns(n) /\ mac'[n] = mac[n]
<1>1. PICK q, New : Local(ev, q, New)
  BY StepIsLocal
<1>2. ASSUME NEW f, In(f) \/ f.do = "AwaitBeacon", f.node = n PROVE f \in queue' <=> f \in queue
  <2>1. f.do # "SearchTimeout" /\ f.do # "EndRx"
    BY <1>2 DEF In
  <2>2. ASSUME f \in queue PROVE f \in queue'
    BY <1>1, <1>2, <2>1, <2>2 DEF Local, Adds
  <2>3. ASSUME f \in queue' PROVE f \in queue
    <3>1. ASSUME NEW x \in New, Like(f, x) PROVE FALSE
      BY <1>1, <1>2, <2>1, <3>1, LikeKinds DEF Local
    <3> QED
      BY <1>1, <2>3, <3>1 DEF Local, Adds
  <2> QED
    BY <2>2, <2>3
<1> QED
  BY <1>2, OthersKept DEF SameIns

\* Before a period of a node comes, the sender of its beacon sends no other one.
LEMMA NoBeaconMeanwhile ==
  ASSUME BeaconInv, AirInv, heardAt \in [Nodes -> Nat], NEW ev \in queue, First(ev),
         SendOneEnhancedBeacon(ev), NEW e \in queue, In(e), InTime(e),
         e.do # "StartRemainingPeriod"
  PROVE  ev.node # heardFrom[e.node]
<1>1. PICK n \in Nodes : n = e.node
  BY Running
<1>2. PICK t \in Nat : t = heardAt[n]
  OBVIOUS
<1>3. ev.do = "SendBeacon" /\ Own(ev)
  BY DEF SendOneEnhancedBeacon, Runs, Own, OfSender
<1>4. e.at = t \/ e.at = t + IncomingCap
  BY <1>1, <1>2 DEF In, InTime
<1>5. ev.at \in Nat /\ e.at \in Nat /\ ev.at <= e.at
  BY FirstIsFirst
<1>6. mac[n].known
  BY <1>1 DEF InTime
<1>7. ASSUME ev.node = heardFrom[n] PROVE ev.at + BeaconDelay >= t + BI
  BY <1>2, <1>3, <1>6, <1>7 DEF AirInv, Heard, LastHeard
<1> QED
  BY <1>1, <1>4, <1>5, <1>7, Lengths

LEMMA InTimeKept ==
  ASSUME BeaconInv, AirInv, heardAt \in [Nodes -> Nat], NEW ev \in queue, First(ev), Handler(ev),
         NEW e \in queue, In(e), InTime(e), mac'[e.node].incFirstCFP = mac[e.node].incFirstCFP,
         ~(EndRx(ev) /\ ev.node = e.node)
  PROVE  InTime(e)'
<1>1. PICK n \in Nodes : n = e.node
  BY Running
<1>2. heardAt'[n] = heardAt[n] /\ heardFrom'[n] = heardFrom[n] /\ mac'[n].known = mac[n].known
  BY <1>1, HeardKept DEF AirInv
<1>3. PICK x \in Nodes : x = heardFrom[n]
  BY DEF AirInv
<1>4. e.do # "StartRemainingPeriod" => mac'[x].bcnStart = mac[x].bcnStart
  BY <1>1, <1>3, NoBeaconMeanwhile, SenderKept
<1> QED
  BY <1>1, <1>2, <1>3, <1>4 DEF InTime, BeaconEnd

LEMMA NextSuperframe ==
  ASSUME NEW a \in Nat, NEW b \in Nat, OnGrid(a, SD, BeaconDelay), OnGrid(b, SD, BeaconDelay), a < b
  PROVE  a + SD <= b
<1>1. PICK i \in Nat : a = i * SD + BeaconDelay
  BY DEF OnGrid
<1>2. PICK j \in Nat : b = j * SD + BeaconDelay
  BY DEF OnGrid
<1>3. SD \in Nat /\ BeaconDelay \in Nat /\ SD = 16 * Slot /\ Slot \in Nat
  BY Lengths
<1>4. PICK x \in Int : x = i * SD
  BY <1>3
<1>5. PICK y \in Int : y = j * SD
  BY <1>3
<1>6. x < y
  BY <1>1, <1>2, <1>3, <1>4, <1>5
<1>7. i < j
  <2>1. ASSUME j <= i PROVE FALSE
    <3>1. i - j \in Nat
      BY <2>1
    <3>2. (i - j) * SD \in Nat
      BY <1>3, <3>1
    <3>3. (i - j) * SD = i * SD - j * SD
      BY <1>3
    <3> QED
      BY <1>4, <1>5, <1>6, <3>2, <3>3
  <2> QED
    BY <2>1
<1>8. j - i \in Nat /\ j - i > 0
  BY <1>7
<1>9. (j - i) * SD >= SD
  BY <1>3, <1>8, Product
<1>10. (j - i) * SD = j * SD - i * SD
  BY <1>3
<1> QED
  BY <1>1, <1>2, <1>3, <1>4, <1>5, <1>9, <1>10

\* A stray CFP, and its end, come when no period in time does.
LEMMA StrayTimes ==
  ASSUME NEW a \in Nat, NEW t \in Nat, OnGrid(a, SD, BeaconDelay), OnGrid(t, SD, BeaconDelay),
         a <= t, NEW s, s = a + 2 * IncomingCap + 7 * Slot
  PROVE  /\ s \in Nat /\ s > 0
         /\ s # t + 7 * Slot /\ s # t + IncomingCap + 7 * Slot /\ s # t + SD - BeaconLen
         /\ a < t /\ t <= s => t + 7 * Slot < s
<1>1. /\ Slot \in Nat /\ Slot > 0 /\ BeaconLen \in Nat /\ BeaconLen < Slot /\ SD = 16 * Slot
      /\ IncomingCap = 9 * Slot - BeaconLen /\ SD \in Nat /\ BeaconDelay \in Nat
  BY Lengths
<1>2. t = a \/ t = a + SD \/ t >= a + 2 * SD
  <2>1. OnGrid(a + SD, SD, BeaconDelay)
    <3>1. PICK k \in Nat : a = k * SD + BeaconDelay
      BY DEF OnGrid
    <3>2. a + SD = (k + 1) * SD + BeaconDelay
      BY <1>1, <3>1
    <3> QED
      BY <3>2 DEF OnGrid
  <2>2. CASE a < t
    <3>1. a + SD \in Nat /\ a + SD <= t
      BY <1>1, <2>2, NextSuperframe
    <3>2. a + SD < t => a + SD + SD <= t
      BY <2>1, <3>1, NextSuperframe
    <3> QED
      BY <1>1, <3>1, <3>2
  <2> QED
    BY <2>2
<1>3. s = a + 25 * Slot - 2 * BeaconLen
  BY <1>1
<1>4. CASE t = a
  BY <1>1, <1>3, <1>4
<1>5. CASE t = a + SD
  BY <1>1, <1>3, <1>5
<1>6. CASE t >= a + 2 * SD
  BY <1>1, <1>3, <1>6
<1> QED
  BY <1>2, <1>4, <1>5, <1>6

LEMMA StrayIsLate ==
  ASSUME AirInv, heardAt \in [Nodes -> Nat], NEW n \in Nodes, MisledFrom(n), mac[n].known,
         NEW e, Stray(e), e.node = n
  PROVE  /\ e.do # "StartCAP"
         /\ e.do = "StartCFP" => e.at # heardAt[n] /\ e.at # heardAt[n] + IncomingCap
         /\ e.do = "StartRemainingPeriod" => e.at # heardAt[n] + SD - BeaconLen
<1>1. PICK t \in Nat : t = heardAt[n]
  OBVIOUS
<1>2. PICK s : s = misled[n]
  OBVIOUS
<1>3. OnGrid(t, SD, BeaconDelay)
  BY <1>1 DEF AirInv, Heard, LastHeard
<1>4. PICK a \in Nat : OnGrid(a, SD, BeaconDelay) /\ a <= t /\ s = a + 2 * IncomingCap + 7 * Slot
  BY <1>1, <1>2 DEF Stray, MisledFrom, StrayFrom
<1>5. s # t + 7 * Slot /\ s # t + IncomingCap + 7 * Slot /\ s # t + SD - BeaconLen
  BY <1>3, <1>4, StrayTimes
<1> QED
  BY <1>1, <1>2, <1>5 DEF Stray

\* A period that is in time after a step was so before.
LEMMA InTimeBefore ==
  ASSUME BeaconInv, AirInv, heardAt \in [Nodes -> Nat], NEW ev \in queue, Handler(ev),
         NEW n \in Nodes, PeriodOk(n), ~(EndRx(ev) /\ ev.node = n),
         NEW e \in queue, In(e), e.node = n, InTime(e)'
  PROVE  InTime(e)
<1>1. heardAt'[n] = heardAt[n] /\ mac'[n].known = mac[n].known
  BY HeardKept DEF AirInv
<1>2. /\ mac[n].known
      /\ e.do = "StartCAP" => e.at = heardAt[n]
      /\ e.do = "StartCFP" => e.at = heardAt[n] + IncomingCap \/ e.at = heardAt[n]
      /\ e.do = "StartRemainingPeriod" => e.at = heardAt[n] + SD - BeaconLen
  BY <1>1 DEF InTime
<1>3. ~Stray(e)
  BY <1>2, StrayIsLate DEF In, PeriodOk
<1> QED
  BY <1>3 DEF PeriodOk, InsInTime

LEMMA CfpComesKept ==
  ASSUME BeaconInv, AirInv, heardAt \in [Nodes -> Nat], NEW ev \in queue, First(ev), Handler(ev),
         NEW n \in Nodes, NEW t, CfpComes(n, t), ~(EndRx(ev) /\ ev.node = n),
         mac'[n].incFirstCFP = mac[n].incFirstCFP,
         \A f \in queue : f.node = n /\ f.do = "StartCFP" /\ In(f) => f \in queue'
  PROVE  CfpComes(n, t)'
<1>1. PICK e \in queue : In(e) /\ InTime(e) /\ e.node = n /\ e.do = "StartCFP" /\ e.at = t
  BY DEF CfpComes
<1>2. InTime(e)'
  BY <1>1, InTimeKept
<1>3. e \in queue'
  BY <1>1
<1> QED
  BY <1>1, <1>2, <1>3 DEF CfpComes, In

LEMMA PeriodKept ==
  ASSUME BeaconInv, AirInv, heardAt \in [Nodes -> Nat], NEW ev \in queue, First(ev), Handler(ev),
         NEW n \in Nodes, PeriodOk(n), SameIns(n), KeepIn(n), misled'[n] = misled[n],
         ~(EndRx(ev) /\ ev.node = n)
  PROVE  PeriodOk(n)'
<1>1. /\ mac'[n].inc = mac[n].inc /\ mac'[n].incFirstCFP = mac[n].incFirstCFP
      /\ mac'[n].known = mac[n].known /\ heardAt'[n] = heardAt[n]
  BY HeardKept DEF AirInv, KeepIn
<1>2. \A f : EndOfCfp(f, n) => (f \in queue' <=> f \in queue)
  BY DEF SameIns, EndOfCfp
<1>3. InsInTime(n)'
  <2> SUFFICES ASSUME NEW e \in queue', In(e), e.node = n PROVE InTime(e)' \/ Stray(e)'
    BY DEF InsInTime, In
  <2>1. e \in queue /\ (InTime(e) \/ Stray(e))
    BY <1>2 DEF EndOfCfp, PeriodOk, InsInTime
  <2>2. InTime(e) => InTime(e)'
    BY <1>1, <2>1, InTimeKept
  <2>3. Stray(e) => Stray(e)'
    BY DEF Stray
  <2> QED
    BY <2>1, <2>2, <2>3
<1>4. OneInTime(n)'
  <2> SUFFICES ASSUME NEW e \in queue', NEW f \in queue', TimelyOf(e, n)', TimelyOf(f, n)'
               PROVE  e = f
    BY DEF OneInTime
  <2>0. In(e) /\ e.node = n /\ InTime(e)' /\ In(f) /\ f.node = n /\ InTime(f)'
    BY DEF TimelyOf, In
  <2>1. e \in queue /\ f \in queue
    BY <1>2, <2>0 DEF EndOfCfp
  <2>2. InTime(e) /\ InTime(f)
    BY <2>0, <2>1, InTimeBefore
  <2> QED
    BY <2>0, <2>1, <2>2 DEF PeriodOk, OneInTime, TimelyOf
<1>5. PICK t \in Nat : t = heardAt[n]
  OBVIOUS
<1>6. ASSUME NEW u, CfpComes(n, u) PROVE CfpComes(n, u)'
  BY <1>1, <1>2, <1>6, CfpComesKept DEF EndOfCfp
<1>7. CapEnds(n)'
  <2>1. CfpComes(n, t + IncomingCap) => CfpComes(n, t + IncomingCap)'
    BY <1>6
  <2> QED
    BY <1>1, <1>5, <2>1 DEF PeriodOk, CapEnds, CfpComes, In
<1>8. FlagIsRead(n)'
  <2>1. CfpComes(n, t) => CfpComes(n, t)'
    BY <1>6
  <2> QED
    BY <1>1, <1>5, <2>1 DEF PeriodOk, FlagIsRead, CfpComes, In
<1>9. CfpIsOver(n)'
  <2>1. CfpEnds(n) => CfpEnds(n)'
    BY <1>1, <1>2 DEF CfpEnds, EndOfCfp, In
  <2>2. StrayEnds(n) => StrayEnds(n)'
    BY <1>2 DEF StrayEnds, EndOfCfp, In
  <2> QED
    BY <1>1, <2>1, <2>2 DEF PeriodOk, CfpIsOver
<1>10. MisledFrom(n)'
  BY <1>1 DEF PeriodOk, MisledFrom, StrayFrom
<1> QED
  BY <1>3, <1>4, <1>7, <1>8, <1>9, <1>10 DEF PeriodOk

\* What the step of an incoming period leaves alone.
LEMMA InStepKeeps ==
  ASSUME BeaconInv, AirInv, heardAt \in [Nodes -> Nat], NEW ev \in queue, Handler(ev), In(ev),
         NEW n \in Nodes, n = ev.node
  PROVE  /\ ~EndRx(ev) /\ heardAt'[n] = heardAt[n] /\ heardAt[n] \in Nat
         /\ heardFrom'[n] = heardFrom[n] /\ mac'[n].known = mac[n].known
         /\ BeaconEnd(heardFrom[n])' = BeaconEnd(heardFrom[n])
<1>1. ~EndRx(ev) /\ ~SendOneEnhancedBeacon(ev)
  BY DEF In, EndRx, SendOneEnhancedBeacon, Runs
<1>2. heardAt'[n] = heardAt[n] /\ heardFrom'[n] = heardFrom[n] /\ mac'[n].known = mac[n].known
  BY <1>1, HeardKept DEF AirInv
<1>3. PICK x \in Nodes : x = heardFrom[n]
  BY DEF AirInv
<1>4. mac'[x].bcnStart = mac[x].bcnStart
  BY <1>1, SenderKept
<1> QED
  BY <1>1, <1>2, <1>3, <1>4 DEF BeaconEnd

\* The periods after the step of one of them.
LEMMA OneInTimeNext ==
  ASSUME BeaconInv, AirInv, heardAt \in [Nodes -> Nat], NEW ev \in queue, Handler(ev), In(ev),
         NEW n \in Nodes, n = ev.node, PeriodOk(n), NEW x, Adds(queue \ {ev}, queue', {x}),
         InTime(ev) \/ \A f \in queue' : Like(f, x) => ~(In(f) /\ InTime(f)')
  PROVE  OneInTime(n)'
<1> SUFFICES ASSUME NEW e \in queue', NEW f \in queue', TimelyOf(e, n)', TimelyOf(f, n)'
             PROVE  e = f
  BY DEF OneInTime
<1>0. In(e) /\ e.node = n /\ InTime(e)' /\ In(f) /\ f.node = n /\ InTime(f)'
  BY DEF TimelyOf, In
<1>1. ASSUME NEW g \in queue, In(g), g.node = n, InTime(g)' PROVE InTime(g)
  BY <1>1, InTimeBefore, InStepKeeps
<1>2. ASSUME NEW g \in queue \ {ev}, In(g), g.node = n, InTime(g)' PROVE ~InTime(ev)
  BY <1>1, <1>2 DEF PeriodOk, OneInTime, TimelyOf
<1>3. CASE e \in queue \ {ev} /\ f \in queue \ {ev}
  BY <1>0, <1>1, <1>3 DEF PeriodOk, OneInTime, TimelyOf
<1>4. CASE e \in queue \ {ev} /\ f \notin queue \ {ev}
  <2>1. Like(f, x)
    BY <1>4 DEF Adds
  <2> QED
    BY <1>0, <1>2, <1>4, <2>1
<1>5. CASE e \notin queue \ {ev} /\ f \in queue \ {ev}
  <2>1. Like(e, x)
    BY <1>5 DEF Adds
  <2> QED
    BY <1>0, <1>2, <1>5, <2>1
<1>6. CASE e \notin queue \ {ev} /\ f \notin queue \ {ev}
  <2>1. Like(e, x) /\ Like(f, x)
    BY <1>6 DEF Adds
  <2>2. Like(e, f)
    BY <2>1 DEF Like
  <2> QED
    BY <1>6, <2>2 DEF Adds
<1> QED
  BY <1>3, <1>4, <1>5, <1>6

LEMMA InsInTimeNext ==
  ASSUME BeaconInv, AirInv, heardAt \in [Nodes -> Nat], NEW ev \in queue, First(ev), Handler(ev),
         In(ev), NEW n \in Nodes, n = ev.node, PeriodOk(n),
         NEW x, Adds(queue \ {ev}, queue', {x}), misled'[n] = misled[n],
         InTime(ev) \/ mac'[n].incFirstCFP = mac[n].incFirstCFP,
         \A f \in queue' : Like(f, x) /\ In(f) => InTime(f)' \/ Stray(f)'
  PROVE  InsInTime(n)'
<1> SUFFICES ASSUME NEW e \in queue', In(e), e.node = n PROVE InTime(e)' \/ Stray(e)'
  BY DEF InsInTime, In
<1>1. CASE e \in queue \ {ev}
  <2>1. InTime(e) \/ Stray(e)
    BY <1>1 DEF PeriodOk, InsInTime
  <2>2. Stray(e) => Stray(e)'
    BY DEF Stray
  <2>3. ASSUME InTime(e) PROVE InTime(e)'
    <3>1. ~InTime(ev)
      BY <1>1, <2>3 DEF PeriodOk, OneInTime, TimelyOf
    <3> QED
      BY <1>1, <2>3, <3>1, InTimeKept, InStepKeeps
  <2> QED
    BY <2>1, <2>2, <2>3
<1>2. CASE e \notin queue \ {ev}
  BY <1>2 DEF Adds
<1> QED
  BY <1>1, <1>2

LEMMA PeriodOfCap ==
  ASSUME BeaconInv, AirInv, heardAt \in [Nodes -> Nat], NEW ev \in queue, First(ev), Handler(ev),
         PeriodOk(ev.node), StartCAP(ev), ev.arg # "OUT"
  PROVE  PeriodOk(ev.node)'
<1>1. PICK n \in Nodes : n = ev.node
  BY Running
<1>2. ev.do = "StartCAP" /\ In(ev)
  BY DEF StartCAP, Runs, In
<1>3. PICK t \in Nat : t = heardAt[n]
  OBVIOUS
<1>4. InTime(ev)
  BY <1>1, <1>2 DEF PeriodOk, InsInTime, Stray
<1>5. mac[n].known /\ ev.at = t /\ BeaconEnd(heardFrom[n]) = t
  BY <1>1, <1>2, <1>3, <1>4 DEF InTime
<1>6. PICK x : x = Event(ev.at + IncomingCap, n, "StartCFP", "IN")
  OBVIOUS
<1>7. x.do = "StartCFP" /\ x.node = n /\ x.at = t + IncomingCap /\ x.arg = "IN" /\ In(x)
  BY <1>5, <1>6 DEF Event, In
<1>8. /\ Adds(queue \ {ev}, queue', {x}) /\ mac'[n].inc = "CAP" /\ misled' = misled
      /\ mac'[n].incFirstCFP = mac[n].incFirstCFP
  BY <1>1, <1>6, InCapStep
<1>9. /\ heardAt'[n] = t /\ heardFrom'[n] = heardFrom[n] /\ mac'[n].known = mac[n].known
      /\ BeaconEnd(heardFrom[n])' = t /\ ~EndRx(ev)
  BY <1>1, <1>2, <1>3, <1>5, InStepKeeps
<1>10. ASSUME NEW f, Like(f, x)
       PROVE  In(f) /\ f.node = n /\ f.do = "StartCFP" /\ f.at = t + IncomingCap /\ InTime(f)'
  <2>1. In(f) /\ f.node = n /\ f.do = "StartCFP" /\ f.at = t + IncomingCap
    BY <1>7, <1>10, LikeKinds, LikeIn
  <2>2. InTime(f)'
    BY <1>5, <1>9, <2>1 DEF InTime, BeaconEnd
  <2> QED
    BY <2>1, <2>2
<1>11. InsInTime(n)'
  BY <1>1, <1>2, <1>4, <1>8, <1>10, InsInTimeNext
<1>12. OneInTime(n)'
  BY <1>1, <1>2, <1>4, <1>8, OneInTimeNext
<1>13. MisledFrom(n)'
  BY <1>1, <1>3, <1>8, <1>9 DEF PeriodOk, MisledFrom, StrayFrom
<1>14. CapEnds(n)'
  <2>1. PICK g \in queue' : Like(g, x)
    BY <1>8 DEF Adds
  <2> QED
    BY <1>9, <1>10, <2>1 DEF CapEnds, CfpComes, In
<1>15. CfpIsOver(n)'
  BY <1>8 DEF CfpIsOver
<1>16. FlagIsRead(n)'
  <2>1. \A f \in queue : f.do = "StartCFP" => f \in queue'
    BY <1>2, <1>8 DEF Adds
  <2>2. CfpComes(n, t) => CfpComes(n, t)'
    BY <1>8, <1>9, <2>1, CfpComesKept
  <2> QED
    BY <1>1, <1>3, <1>8, <1>9, <2>2 DEF PeriodOk, FlagIsRead, CfpComes, In
<1> QED
  BY <1>1, <1>11, <1>12, <1>13, <1>14, <1>15, <1>16 DEF PeriodOk

\* The flag is not set when a stray CFP goes on.
LEMMA StrayReads ==
  ASSUME BeaconInv, heardAt \in [Nodes -> Nat], misled \in [Nodes -> Nat],
         NEW ev \in queue, First(ev), ev.do = "StartCFP", Stray(ev), PeriodOk(ev.node)
  PROVE  mac[ev.node].incFirstCFP = FALSE
<1>1. PICK n \in Nodes : n = ev.node
  BY Running
<1>2. PICK t \in Nat : t = heardAt[n]
  OBVIOUS
<1>3. PICK s \in Nat : s = misled[n]
  OBVIOUS
<1>4. s > 0 /\ ev.at + 7 * Slot = s
  BY <1>1, <1>3 DEF Stray
<1>5. ASSUME mac[n].incFirstCFP PROVE FALSE
  <2>1. CfpComes(n, t) /\ s > t + 7 * Slot
    BY <1>1, <1>2, <1>3, <1>4, <1>5 DEF PeriodOk, FlagIsRead
  <2>2. PICK e \in queue : e.at = t
    BY <2>1 DEF CfpComes
  <2>3. ev.at \in Nat /\ ev.at <= t
    BY <2>2, FirstIsFirst
  <2> QED
    BY <1>4, <2>1, <2>3, Lengths
<1> QED
  BY <1>1, <1>5, InTypes

\* After its last part but one a stray CFP goes on until its end.
LEMMA StrayEndsNext ==
  ASSUME BeaconInv, AirInv, heardAt \in [Nodes -> Nat], misled \in [Nodes -> Nat],
         NEW ev \in queue, First(ev), Handler(ev), ev.arg # "OUT", PeriodOk(ev.node), Stray(ev),
         StartCFP(ev) \/ (StartRemainingPeriod(ev) /\ ~(BI > SD))
  PROVE  StrayEnds(ev.node)'
<1>1. PICK n \in Nodes : n = ev.node
  BY Running
<1>2. PICK s \in Nat : s = misled[n]
  OBVIOUS
<1>3. ev.at \in Nat /\ s > 0
  BY <1>1, <1>2, Running DEF Stray
<1>4. CASE StartCFP(ev)
  <2>1. ev.do = "StartCFP"
    BY <1>4 DEF StartCFP, Runs
  <2>2. mac[n].incFirstCFP = FALSE
    BY <1>1, <2>1, StrayReads
  <2>3. PICK x : x = Event(ev.at + CfpSlots * Slot, n, "StartRemainingPeriod", "IN")
    OBVIOUS
  <2>4. ev.at + 7 * Slot = s
    BY <1>1, <1>2, <2>1 DEF Stray
  <2>5. x.node = n /\ In(x) /\ x.at = s
    <3>1. ev.at + CfpSlots * Slot = s
      BY <2>4, Lengths
    <3> QED
      BY <2>3, <3>1 DEF Event, In
  <2>6. Adds(queue \ {ev}, queue', {x}) /\ misled' = misled
    BY <1>1, <1>4, <2>2, <2>3, InCfpStep
  <2>7. PICK g \in queue' : Like(g, x)
    BY <2>6 DEF Adds
  <2>8. In(g) /\ g.node = n /\ g.at = s
    BY <2>5, <2>7, LikeKinds, LikeIn
  <2> QED
    BY <1>1, <1>2, <1>3, <2>6, <2>8 DEF StrayEnds, EndOfCfp, In
<1>5. CASE StartRemainingPeriod(ev) /\ ~(BI > SD)
  <2>1. ev.do = "StartRemainingPeriod"
    BY <1>5 DEF StartRemainingPeriod, Runs
  <2>2. ev.at = s
    BY <1>1, <1>2, <2>1 DEF Stray
  <2>3. PICK x : x = Event(ev.at + BI - SD, n, "AwaitBeacon", "IN")
    OBVIOUS
  <2>4. x.node = n /\ x.do = "AwaitBeacon" /\ x.at = s
    <3>1. ev.at + BI - SD = s
      BY <1>5, <2>2, Lengths
    <3> QED
      BY <2>3, <3>1 DEF Event
  <2>5. Adds(queue \ {ev}, queue', {x}) /\ misled' = misled
    BY <1>1, <1>5, <2>3, InRemainingStep
  <2>6. PICK g \in queue' : Like(g, x)
    BY <2>5 DEF Adds
  <2>7. g.do = "AwaitBeacon" /\ g.node = n /\ g.at = s
    BY <2>4, <2>6, LikeKinds
  <2> QED
    BY <1>1, <1>2, <1>3, <2>5, <2>7 DEF StrayEnds, EndOfCfp, In
<1> QED
  BY <1>4, <1>5

LEMMA PeriodOfCfp ==
  ASSUME BeaconInv, AirInv, heardAt \in [Nodes -> Nat], misled \in [Nodes -> Nat],
         NEW ev \in queue, First(ev), Handler(ev), PeriodOk(ev.node), StartCFP(ev), ev.arg # "OUT"
  PROVE  PeriodOk(ev.node)'
<1>1. PICK n \in Nodes : n = ev.node
  BY Running
<1>2. ev.do = "StartCFP" /\ In(ev) /\ ev.at \in Nat
  BY Running DEF StartCFP, Runs, In
<1>3. PICK t \in Nat : t = heardAt[n]
  OBVIOUS
<1>4. PICK s \in Nat : s = misled[n]
  OBVIOUS
<1>5. PICK first \in BOOLEAN : first = mac[n].incFirstCFP
  BY InTypes
<1>6. PICK x : x = IF first THEN Event(ev.at + IncomingCap, n, "StartCFP", "IN")
                   ELSE Event(ev.at + CfpSlots * Slot, n, "StartRemainingPeriod", "IN")
  OBVIOUS
<1>7. /\ x.node = n /\ x.arg = "IN" /\ In(x)
      /\ first => x.do = "StartCFP" /\ x.at = ev.at + IncomingCap
      /\ ~first => x.do = "StartRemainingPeriod" /\ x.at = ev.at + 7 * Slot
  <2>1. CASE first
    BY <1>6, <2>1 DEF Event, In
  <2>2. CASE ~first
    <3>1. CfpSlots * Slot = 7 * Slot
      BY Lengths
    <3> QED
      BY <1>6, <2>2, <3>1 DEF Event, In
  <2> QED
    BY <2>1, <2>2
<1>8. /\ Adds(queue \ {ev}, queue', {x}) /\ mac'[n].inc = "CFP" /\ mac'[n].incFirstCFP = FALSE
      /\ misled' = IF first /\ ev.at > t
                   THEN [misled EXCEPT ![n] = ev.at + CfpSlots * Slot + IncomingCap] ELSE misled
  BY <1>1, <1>3, <1>5, <1>6, InCfpStep
<1>9. /\ heardAt'[n] = t /\ heardFrom'[n] = heardFrom[n] /\ mac'[n].known = mac[n].known
      /\ BeaconEnd(heardFrom[n])' = BeaconEnd(heardFrom[n]) /\ ~EndRx(ev)
  BY <1>1, <1>2, <1>3, InStepKeeps
<1>10. PICK g \in queue' : Like(g, x)
  BY <1>8 DEF Adds
<1>11. ASSUME NEW f, Like(f, x)
       PROVE  f.node = n /\ f.do = x.do /\ f.at = x.at /\ In(f)
  BY <1>7, <1>11, LikeKinds, LikeIn
<1>12. CapEnds(n)' /\ FlagIsRead(n)'
  BY <1>8 DEF CapEnds, FlagIsRead
<1>13. IncomingCap \in Nat /\ IncomingCap > 0 /\ IncomingCap + 7 * Slot = SD - BeaconLen
       /\ Slot \in Nat /\ BeaconLen \in Nat /\ SD \in Nat
  BY Lengths
<1>14. CASE InTime(ev) /\ (ev.at = t \/ ~first)
  <2>1. /\ mac[n].known /\ BeaconEnd(heardFrom[n]) = t
        /\ ev.at = t + IncomingCap \/ (ev.at = t /\ first)
    BY <1>1, <1>2, <1>3, <1>5, <1>14 DEF InTime
  <2>2. misled' = misled
    BY <1>8, <1>14
  <2>3. /\ \/ x.do = "StartCFP" /\ x.at = t + IncomingCap
           \/ x.do = "StartRemainingPeriod" /\ x.at = t + SD - BeaconLen
        /\ x.at <= t + SD - BeaconLen
    <3>1. CASE first
      <4>1. ev.at = t
        BY <1>14, <3>1
      <4> QED
        BY <1>7, <1>13, <3>1, <4>1
    <3>2. CASE ~first
      <4>1. ev.at = t + IncomingCap
        BY <2>1, <3>2
      <4> QED
        BY <1>7, <1>13, <3>2, <4>1
    <3> QED
      BY <3>1, <3>2
  <2>4. ASSUME NEW f, Like(f, x) PROVE InTime(f)'
    <3>1. f.node = n /\ f.do = x.do /\ f.at = x.at
      BY <1>11, <2>4
    <3> QED
      BY <1>9, <2>1, <2>3, <3>1 DEF InTime, BeaconEnd
  <2>5. InsInTime(n)'
    BY <1>1, <1>2, <1>8, <1>14, <2>2, <2>4, InsInTimeNext
  <2>6. OneInTime(n)'
    BY <1>1, <1>2, <1>8, <1>14, OneInTimeNext
  <2>7. MisledFrom(n)'
    BY <1>1, <1>3, <1>9, <2>2 DEF PeriodOk, MisledFrom, StrayFrom
  <2>8. CfpIsOver(n)'
    <3>1. In(g) /\ g.node = n /\ g.at <= t + SD - BeaconLen
      BY <1>10, <1>11, <2>3
    <3> QED
      BY <1>9, <2>1, <3>1 DEF CfpIsOver, CfpEnds, EndOfCfp, In
  <2> QED
    BY <1>1, <1>12, <2>5, <2>6, <2>7, <2>8 DEF PeriodOk
<1>15. CASE InTime(ev) /\ ev.at # t /\ first
  <2>1. mac[n].known /\ ev.at = t + IncomingCap
    BY <1>1, <1>2, <1>3, <1>15 DEF InTime
  <2>2. s = 0
    <3>1. ASSUME CfpComes(n, t) PROVE FALSE
      <4>1. PICK e \in queue : In(e) /\ InTime(e) /\ e.node = n /\ e.at = t
        BY <3>1 DEF CfpComes
      <4> QED
        BY <1>1, <1>2, <1>15, <4>1 DEF PeriodOk, OneInTime, TimelyOf
    <3> QED
      BY <1>1, <1>3, <1>4, <1>5, <1>15, <3>1 DEF PeriodOk, FlagIsRead
  <2>3. ASSUME NEW e \in queue, In(e), e.node = n PROVE e = ev
    <3>1. InTime(e)
      <4>1. misled[e.node] = 0
        BY <1>4, <2>2, <2>3
      <4>2. ~Stray(e)
        BY <4>1 DEF Stray
      <4> QED
        BY <1>1, <2>3, <4>2 DEF PeriodOk, InsInTime
    <3> QED
      BY <1>1, <1>2, <1>15, <2>3, <3>1 DEF PeriodOk, OneInTime, TimelyOf
  <2>4. PICK z \in Nat : z = t + 2 * IncomingCap + 7 * Slot
    BY <1>13
  <2>5. misled'[n] = z
    <3>1. ev.at > t
      BY <1>13, <2>1
    <3>2. ev.at + CfpSlots * Slot + IncomingCap = z
      BY <1>13, <2>1, <2>4, Lengths
    <3> QED
      BY <1>8, <1>15, <3>1, <3>2
  <2>6. z > 0 /\ x.do = "StartCFP" /\ x.at + 7 * Slot = z /\ x.at <= z
    <3>1. x.do = "StartCFP" /\ x.at = t + IncomingCap + IncomingCap
      BY <1>7, <1>15, <2>1
    <3> QED
      BY <1>13, <2>4, <3>1
  <2>7. ASSUME NEW f \in queue', In(f), f.node = n PROVE f \notin queue \ {ev} /\ Like(f, x)
    <3>1. f \notin queue \ {ev}
      BY <2>3, <2>7
    <3> QED
      BY <1>8, <3>1 DEF Adds
  <2>8. InsInTime(n)'
    <3> SUFFICES ASSUME NEW f \in queue', In(f), f.node = n PROVE Stray(f)'
      BY DEF InsInTime, In
    <3>1. f.do = "StartCFP" /\ f.at = x.at
      BY <1>11, <2>6, <2>7
    <3> QED
      BY <2>5, <2>6, <3>1 DEF Stray
  <2>9. OneInTime(n)'
    <3> SUFFICES ASSUME NEW e \in queue', NEW f \in queue', TimelyOf(e, n)', TimelyOf(f, n)'
                 PROVE  e = f
      BY DEF OneInTime
    <3>0. In(e) /\ e.node = n /\ InTime(e)' /\ In(f) /\ f.node = n /\ InTime(f)'
      BY DEF TimelyOf, In
    <3>1. Like(e, f)
      BY <2>7, <3>0 DEF Like
    <3> QED
      BY <1>8, <2>7, <3>0, <3>1 DEF Adds
  <2>10. MisledFrom(n)'
    <3>1. OnGrid(t, SD, BeaconDelay)
      BY <1>3, <2>1 DEF AirInv, Heard, LastHeard
    <3> QED
      BY <1>9, <2>4, <2>5, <3>1 DEF MisledFrom, StrayFrom
  <2>11. CfpIsOver(n)'
    <3>1. In(g) /\ g.node = n /\ g.at <= z
      BY <1>10, <1>11, <2>6
    <3> QED
      BY <2>5, <2>6, <3>1 DEF CfpIsOver, StrayEnds, EndOfCfp, In
  <2> QED
    BY <1>1, <1>12, <2>8, <2>9, <2>10, <2>11 DEF PeriodOk
<1>16. CASE Stray(ev)
  <2>1. ~first /\ s > 0 /\ ev.at + 7 * Slot = s
    BY <1>1, <1>2, <1>4, <1>5, <1>16, StrayReads DEF Stray
  <2>2. x.do = "StartRemainingPeriod" /\ x.at = s /\ misled' = misled
    BY <1>7, <1>8, <2>1
  <2>3. ASSUME NEW f, Like(f, x)
        PROVE  Stray(f)' /\ Stray(f) /\ f.node = n /\ f.do = "StartRemainingPeriod"
    <3>1. f.node = n /\ f.do = "StartRemainingPeriod" /\ f.at = s
      BY <1>11, <2>2, <2>3
    <3> QED
      BY <1>4, <2>1, <2>2, <3>1 DEF Stray
  <2>4. InsInTime(n)'
    <3>1. mac'[n].incFirstCFP = mac[n].incFirstCFP
      BY <1>5, <1>8, <2>1
    <3> QED
      BY <1>1, <1>2, <1>8, <2>2, <2>3, <3>1, InsInTimeNext
  <2>5. OneInTime(n)'
    <3>1. ASSUME NEW f \in queue', Like(f, x), InTime(f)' PROVE FALSE
      <4>1. Stray(f) /\ f.node = n /\ f.do = "StartRemainingPeriod"
        BY <2>3, <3>1
      <4>2. mac[n].known /\ f.at = heardAt[n] + SD - BeaconLen
        BY <1>3, <1>9, <3>1, <4>1 DEF InTime
      <4> QED
        BY <1>1, <4>1, <4>2, StrayIsLate DEF PeriodOk
    <3> QED
      BY <1>1, <1>2, <1>8, <3>1, OneInTimeNext
  <2>6. MisledFrom(n)'
    BY <1>1, <1>3, <1>9, <2>2 DEF PeriodOk, MisledFrom, StrayFrom
  <2>7. CfpIsOver(n)'
    BY <1>1, <1>16, StrayEndsNext DEF CfpIsOver
  <2> QED
    BY <1>1, <1>12, <2>4, <2>5, <2>6, <2>7 DEF PeriodOk
<1>17. InTime(ev) \/ Stray(ev)
  BY <1>1, <1>2 DEF PeriodOk, InsInTime
<1> QED
  BY <1>14, <1>15, <1>16, <1>17

LEMMA PeriodOfRemaining ==
  ASSUME BeaconInv, AirInv, heardAt \in [Nodes -> Nat], misled \in [Nodes -> Nat],
         NEW ev \in queue, First(ev), Handler(ev), PeriodOk(ev.node),
         StartRemainingPeriod(ev), ev.arg # "OUT"
  PROVE  PeriodOk(ev.node)'
<1>1. PICK n \in Nodes : n = ev.node
  BY Running
<1>2. ev.do = "StartRemainingPeriod" /\ In(ev)
  BY DEF StartRemainingPeriod, Runs, In
<1>3. PICK t \in Nat : t = heardAt[n]
  OBVIOUS
<1>4. PICK x : x = Event(ev.at + BI - SD, n, "AwaitBeacon", "IN")
  OBVIOUS
<1>5. x.do = "AwaitBeacon" /\ x.node = n /\ x.at = ev.at + BI - SD /\ ~In(x)
  BY <1>4 DEF Event, In
<1>6. /\ Adds(queue \ {ev}, queue', {x}) /\ misled' = misled
      /\ mac'[n].inc = (IF BI > SD THEN "REMAINING" ELSE mac[n].inc)
      /\ mac'[n].incFirstCFP = mac[n].incFirstCFP
  BY <1>1, <1>4, InRemainingStep
<1>7. heardAt'[n] = t /\ mac'[n].known = mac[n].known /\ ~EndRx(ev)
  BY <1>1, <1>2, <1>3, InStepKeeps
<1>8. \A f : Like(f, x) => ~In(f)
  BY <1>5, LikeIn
<1>9. InsInTime(n)'
  BY <1>1, <1>2, <1>6, <1>8, InsInTimeNext
<1>10. OneInTime(n)'
  BY <1>1, <1>2, <1>6, <1>8, OneInTimeNext
<1>11. MisledFrom(n)'
  BY <1>1, <1>3, <1>6, <1>7 DEF PeriodOk, MisledFrom, StrayFrom
<1>12. ASSUME NEW u, CfpComes(n, u) PROVE CfpComes(n, u)'
  <2>1. \A f \in queue : f.do = "StartCFP" => f \in queue'
    BY <1>2, <1>6 DEF Adds
  <2> QED
    BY <1>6, <1>7, <1>12, <2>1, CfpComesKept
<1>13. CapEnds(n)'
  <2>1. CfpComes(n, t + IncomingCap) => CfpComes(n, t + IncomingCap)'
    BY <1>12
  <2>2. mac'[n].inc = "CAP" => mac[n].inc = "CAP"
    BY <1>6
  <2> QED
    BY <1>1, <1>3, <1>7, <2>1, <2>2 DEF PeriodOk, CapEnds, CfpComes, In
<1>14. FlagIsRead(n)'
  <2>1. CfpComes(n, t) => CfpComes(n, t)'
    BY <1>12
  <2> QED
    BY <1>1, <1>3, <1>6, <1>7, <2>1 DEF PeriodOk, FlagIsRead, CfpComes, In
<1>15. CfpIsOver(n)'
  <2> SUFFICES ASSUME mac'[n].inc = "CFP" PROVE StrayEnds(n)' \/ (mac'[n].known /\ CfpEnds(n)')
    BY DEF CfpIsOver
  <2>1. ~(BI > SD)
    BY <1>6
  <2>2. ASSUME InTime(ev) PROVE mac'[n].known /\ CfpEnds(n)'
    <3>1. mac[n].known /\ ev.at = t + SD - BeaconLen
      BY <1>1, <1>2, <1>3, <2>2 DEF InTime
    <3>2. PICK g \in queue' : Like(g, x)
      BY <1>6 DEF Adds
    <3>3. g.do = "AwaitBeacon" /\ g.node = n /\ g.at = ev.at + BI - SD
      BY <1>5, <3>2, LikeKinds
    <3>4. g.at <= t + SD - BeaconLen
      BY <2>1, <3>1, <3>3, Lengths
    <3> QED
      BY <1>7, <3>1, <3>3, <3>4 DEF CfpEnds, EndOfCfp
  <2>3. ASSUME Stray(ev) PROVE StrayEnds(n)'
    BY <1>1, <2>1, <2>3, StrayEndsNext
  <2>4. InTime(ev) \/ Stray(ev)
    BY <1>1, <1>2 DEF PeriodOk, InsInTime
  <2> QED
    BY <2>2, <2>3, <2>4
<1> QED
  BY <1>1, <1>9, <1>10, <1>11, <1>13, <1>14, <1>15 DEF PeriodOk

LEMMA PeriodOfAwait ==
  ASSUME BeaconInv, AirInv, heardAt \in [Nodes -> Nat], NEW ev \in queue, First(ev), Handler(ev),
         PeriodOk(ev.node), AwaitBeacon(ev)
  PROVE  PeriodOk(ev.node)'
<1>1. PICK n \in Nodes : n = ev.node
  BY Running
<1>2. ev.do = "AwaitBeacon" /\ ~In(ev) /\ ~EndRx(ev)
  BY DEF AwaitBeacon, Runs, In, EndRx
<1>3. /\ Adds(queue \ {ev}, queue', {}) /\ mac'[n].inc = "BEACON" /\ misled' = misled
      /\ mac'[n].incFirstCFP = mac[n].incFirstCFP
  BY <1>1, AwaitStep
<1>4. \A f : In(f) => (f \in queue' <=> f \in queue)
  BY <1>2, <1>3 DEF Adds
<1>5. heardAt'[n] = heardAt[n]
  BY <1>2, HeardKept DEF AirInv
<1>6. InsInTime(n)'
  <2> SUFFICES ASSUME NEW e \in queue', In(e), e.node = n PROVE InTime(e)' \/ Stray(e)'
    BY DEF InsInTime, In
  <2>1. e \in queue /\ (InTime(e) \/ Stray(e))
    BY <1>1, <1>4 DEF PeriodOk, InsInTime
  <2>2. InTime(e) => InTime(e)'
    BY <1>2, <1>3, <2>1, InTimeKept
  <2>3. Stray(e) => Stray(e)'
    BY <1>3 DEF Stray
  <2> QED
    BY <2>1, <2>2, <2>3
<1>7. OneInTime(n)'
  <2> SUFFICES ASSUME NEW e \in queue', NEW f \in queue', TimelyOf(e, n)', TimelyOf(f, n)'
               PROVE  e = f
    BY DEF OneInTime
  <2>0. In(e) /\ e.node = n /\ InTime(e)' /\ In(f) /\ f.node = n /\ InTime(f)'
    BY DEF TimelyOf, In
  <2>1. e \in queue /\ f \in queue
    BY <1>4, <2>0
  <2>2. InTime(e) /\ InTime(f)
    BY <1>1, <1>2, <2>0, <2>1, InTimeBefore
  <2> QED
    BY <1>1, <2>0, <2>1, <2>2 DEF PeriodOk, OneInTime, TimelyOf
<1>8. MisledFrom(n)'
  BY <1>1, <1>3, <1>5 DEF PeriodOk, MisledFrom, StrayFrom
<1>9. CapEnds(n)' /\ CfpIsOver(n)'
  BY <1>3 DEF CapEnds, CfpIsOver
<1>10. FlagIsRead(n)'
  <2>1. PICK t \in Nat : t = heardAt[n]
    OBVIOUS
  <2>2. CfpComes(n, t) => CfpComes(n, t)'
    BY <1>2, <1>3, <1>4, CfpComesKept
  <2> QED
    BY <1>1, <1>3, <1>5, <2>1, <2>2 DEF PeriodOk, FlagIsRead, CfpComes, In
<1> QED
  BY <1>1, <1>6, <1>7, <1>8, <1>9, <1>10 DEF PeriodOk

\* When a beacon is heard, the superframe of the last one is over.
LEMMA NothingIn ==
  ASSUME BeaconInv, SenderInv, GridInv, AirInv, heardAt \in [Nodes -> Nat], NEW ev \in queue,
         First(ev), Handler(ev), EndRx(ev), NEW n \in Nodes, n = ev.node, PeriodOk(n)
  PROVE  /\ heardAt[n] < ev.at /\ OnGrid(ev.at, SD, BeaconDelay)
         /\ \A e \in queue : In(e) /\ e.node = n => Stray(e)
         /\ mac[n].inc # "CAP" /\ (mac[n].inc = "CFP" => StrayEnds(n))
         /\ misled[n] > 0 => ~mac[n].incFirstCFP
<1>1. PICK t \in Nat : t = heardAt[n]
  OBVIOUS
<1>2. ev.do = "EndRx" /\ ev.at \in Nat /\ t < ev.at
  BY <1>1, Running DEF EndRx, Runs, AirInv, OnTheAir
<1>3. OnGrid(ev.at, SD, BeaconDelay)
  <2>1. LastHeard(n)' /\ heardAt'[n] = ev.at
    BY LastHeardNew, EndRxStep DEF AirInv
  <2> QED
    BY <2>1 DEF LastHeard
<1>4. mac[n].known => t + SD <= ev.at
  BY <1>1, <1>2, <1>3, NextSuperframe DEF AirInv, Heard, LastHeard
<1>5. ASSUME NEW e \in queue, e.node = n, mac[n].known, e.at <= t + SD - BeaconLen PROVE FALSE
  <2>1. e.at \in Nat /\ ev.at <= e.at
    BY FirstIsFirst
  <2> QED
    BY <1>2, <1>4, <1>5, <2>1, Lengths
<1>6. ASSUME NEW e \in queue, In(e), e.node = n, InTime(e) PROVE FALSE
  <2>1. mac[n].known /\ (e.at = t \/ e.at = t + IncomingCap \/ e.at = t + SD - BeaconLen)
    BY <1>1, <1>6 DEF In, InTime
  <2>2. e.at <= t + SD - BeaconLen
    BY <2>1, Lengths
  <2> QED
    BY <1>5, <1>6, <2>1, <2>2
<1>7. \A u : ~CfpComes(n, u)
  BY <1>6 DEF CfpComes
<1>8. ~(mac[n].known /\ CfpEnds(n))
  BY <1>1, <1>5 DEF CfpEnds, EndOfCfp
<1> QED
  BY <1>1, <1>2, <1>3, <1>6, <1>7, <1>8 DEF PeriodOk, InsInTime, CapEnds, CfpIsOver, FlagIsRead

LEMMA PeriodOfReception ==
  ASSUME BeaconInv, SenderInv, GridInv, AirInv, heardAt \in [Nodes -> Nat],
         misled \in [Nodes -> Nat], NEW ev \in queue, First(ev), Handler(ev), EndRx(ev),
         PeriodOk(ev.node)
  PROVE  /\ PeriodOk(ev.node)'
         /\ \A f \in queue' : In(f) /\ f.node = ev.node /\ InTime(f)'
                              => Like(f, PeriodEvent(ev.node, ev.arg, ev.at))
<1>1. PICK n \in Nodes : n = ev.node
  BY Running
<1>2. PICK from \in Nodes : from = ev.arg
  BY HeardBeacon
<1>3. /\ mac[from].bitmapSd % NumSuperframes = 0 /\ mac'[from] = mac[from]
      /\ BeaconEnd(from) = ev.at /\ ev.do = "EndRx" /\ ev.at \in Nat
  BY <1>2, HeardBeacon, Running DEF BeaconEnd
<1>4. PICK t \in Nat : t = heardAt[n]
  OBVIOUS
<1>5. PICK s \in Nat : s = misled[n]
  OBVIOUS
<1>6. /\ t < ev.at /\ OnGrid(ev.at, SD, BeaconDelay)
      /\ \A e \in queue : In(e) /\ e.node = n => Stray(e)
      /\ mac[n].inc # "CAP" /\ (mac[n].inc = "CFP" => StrayEnds(n))
      /\ s > 0 => ~mac[n].incFirstCFP
  BY <1>1, <1>4, <1>5, NothingIn
<1>7. /\ Adds(Cancel(queue \ {ev}, n, "SearchTimeout"), queue', ReceptionEvents(n, from, ev.at))
      /\ heardAt' = [heardAt EXCEPT ![n] = ev.at] /\ heardFrom' = [heardFrom EXCEPT ![n] = from]
      /\ misled' = [misled EXCEPT ![n] = IF misled[n] < ev.at THEN 0 ELSE misled[n]]
      /\ mac'[n] = AfterBeacon(n, from)
  BY <1>1, <1>2, EndRxStep
<1>8. /\ heardAt'[n] = ev.at /\ heardFrom'[n] = from
      /\ misled'[n] = (IF s < ev.at THEN 0 ELSE s)
  BY <1>5, <1>7 DEF AirInv
<1>9. PICK c \in BOOLEAN : c <=> NoIncomingCap(n, from)
  BY DEF NoIncomingCap
<1>10. /\ mac'[n].known = TRUE /\ mac'[n].inc = mac[n].inc
       /\ mac'[n].incFirstCFP = (NoIncomingCap(n, from) \/ mac[n].incFirstCFP)
  <2>1. LET m == AfterBeacon(n, from)
        IN /\ m.known = TRUE /\ m.inc = mac[n].inc
           /\ m.incFirstCFP = (NoIncomingCap(n, from) \/ mac[n].incFirstCFP)
    BY AfterBeaconFields
  <2> QED
    BY <1>7, <2>1
<1>11. PICK x : x = PeriodEvent(n, from, ev.at)
  OBVIOUS
<1>12. /\ x.do = (IF c THEN "StartCFP" ELSE "StartCAP") /\ x.node = n /\ x.at = ev.at
       /\ x.arg = "IN" /\ In(x)
  <2>1. x = Event(ev.at, n, IF c THEN "StartCFP" ELSE "StartCAP", "IN")
    BY <1>9, <1>11 DEF PeriodEvent
  <2> QED
    BY <2>1 DEF Event, In
<1>13. ASSUME NEW f \in queue', In(f), f.node = n
       PROVE  \/ f \in Cancel(queue \ {ev}, n, "SearchTimeout")
              \/ f \notin Cancel(queue \ {ev}, n, "SearchTimeout") /\ Like(f, x)
  <2> SUFFICES ASSUME f \notin Cancel(queue \ {ev}, n, "SearchTimeout") PROVE Like(f, x)
    OBVIOUS
  <2>1. PICK y \in ReceptionEvents(n, from, ev.at) : Like(f, y)
    BY <1>7 DEF Adds
  <2>2. Kind(y) = "in"
    BY <1>13, <2>1, LikeKinds, InKinds
  <2>3. y = x
    BY <1>3, <1>11, <2>1, <2>2, ReceptionKinds
  <2> QED
    BY <2>1, <2>3
<1>14. ASSUME s >= ev.at
       PROVE  /\ s # ev.at + 7 * Slot /\ s # ev.at + IncomingCap + 7 * Slot
              /\ s # ev.at + SD - BeaconLen /\ ev.at + 7 * Slot < s
  <2>1. s > 0
    BY <1>3, <1>6, <1>14
  <2>2. PICK a \in Nat : OnGrid(a, SD, BeaconDelay) /\ a <= t /\ s = a + 2 * IncomingCap + 7 * Slot
    BY <1>1, <1>4, <1>5, <2>1 DEF PeriodOk, MisledFrom, StrayFrom
  <2>3. a < ev.at
    BY <1>3, <1>6, <2>2
  <2> QED
    BY <1>3, <1>6, <1>14, <2>2, <2>3, StrayTimes
\* The events of a stray CFP stay, and are none of the new superframe.
<1>15. ASSUME NEW f \in Cancel(queue \ {ev}, n, "SearchTimeout"), In(f), f.node = n
       PROVE  Stray(f)' /\ ~InTime(f)'
  <2>1. f \in queue /\ Stray(f)
    BY <1>6, <1>15 DEF Cancel
  <2>2. f.at \in Nat /\ ev.at <= f.at
    BY <2>1, FirstIsFirst
  <2>3. /\ s > 0
        /\ \/ f.do = "StartCFP" /\ f.at + 7 * Slot = s
           \/ f.do = "StartRemainingPeriod" /\ f.at = s
    BY <1>5, <1>15, <2>1 DEF Stray
  <2>4. s >= ev.at
    BY <1>3, <2>2, <2>3, Lengths
  <2>5. misled'[n] = s
    BY <1>3, <1>8, <2>4
  <2>6. Stray(f)'
    BY <1>15, <2>3, <2>5 DEF Stray
  <2>7. ~InTime(f)'
    <3>1. InTime(f)' => /\ f.do = "StartCFP" => f.at = ev.at + IncomingCap \/ f.at = ev.at
                        /\ f.do = "StartRemainingPeriod" => f.at = ev.at + SD - BeaconLen
      BY <1>8, <1>15 DEF InTime
    <3> QED
      BY <1>14, <2>3, <2>4, <3>1
  <2> QED
    BY <2>6, <2>7
<1>16. ASSUME NEW f, Like(f, x) PROVE InTime(f)' /\ In(f) /\ f.node = n /\ f.do = x.do /\ f.at = ev.at
  <2>1. f.do = x.do /\ f.at = ev.at /\ f.node = n /\ In(f)
    BY <1>12, <1>16, LikeKinds, LikeIn
  <2>2. BeaconEnd(from)' = ev.at
    BY <1>3 DEF BeaconEnd
  <2>3. f.do = "StartCFP" => mac'[n].incFirstCFP
    BY <1>9, <1>10, <1>12, <2>1
  <2>4. InTime(f)'
    BY <1>8, <1>10, <1>12, <2>1, <2>2, <2>3 DEF InTime, BeaconEnd
  <2> QED
    BY <2>1, <2>4
<1>17. InsInTime(n)'
  BY <1>13, <1>15, <1>16 DEF InsInTime, In
<1>18. OneInTime(n)'
  <2> SUFFICES ASSUME NEW e \in queue', NEW f \in queue', TimelyOf(e, n)', TimelyOf(f, n)'
               PROVE  e = f
    BY DEF OneInTime
  <2>0. In(e) /\ e.node = n /\ InTime(e)' /\ In(f) /\ f.node = n /\ InTime(f)'
    BY DEF TimelyOf, In
  <2>1. /\ e \notin Cancel(queue \ {ev}, n, "SearchTimeout") /\ Like(e, x)
        /\ f \notin Cancel(queue \ {ev}, n, "SearchTimeout") /\ Like(f, x)
    BY <1>13, <1>15, <2>0
  <2>2. Like(e, f)
    BY <2>1 DEF Like
  <2> QED
    BY <1>7, <2>1, <2>2 DEF Adds
<1>19. MisledFrom(n)'
  <2> SUFFICES ASSUME misled'[n] > 0 PROVE StrayFrom(n, misled[n])'
    BY DEF MisledFrom
  <2>1. misled'[n] = s /\ s > 0
    BY <1>8
  <2>2. PICK a \in Nat : OnGrid(a, SD, BeaconDelay) /\ a <= t /\ s = a + 2 * IncomingCap + 7 * Slot
    BY <1>1, <1>4, <1>5, <2>1 DEF PeriodOk, MisledFrom, StrayFrom
  <2>3. a <= ev.at
    BY <1>3, <1>6, <2>2
  <2> QED
    BY <1>8, <2>1, <2>2, <2>3 DEF StrayFrom
<1>20. CapEnds(n)'
  BY <1>6, <1>10 DEF CapEnds
<1>21. CfpIsOver(n)'
  <2> SUFFICES ASSUME mac[n].inc = "CFP" PROVE StrayEnds(n)'
    BY <1>10 DEF CfpIsOver
  <2>1. PICK e \in queue : EndOfCfp(e, n) /\ e.at <= s /\ s > 0
    BY <1>5, <1>6 DEF StrayEnds
  <2>2. e.at \in Nat /\ ev.at <= e.at
    BY FirstIsFirst
  <2>3. misled'[n] = s
    BY <1>3, <1>8, <2>1, <2>2
  <2>4. e \in queue'
    BY <1>3, <1>7, <2>1 DEF EndOfCfp, In, Adds, Cancel
  <2> QED
    BY <2>1, <2>3, <2>4 DEF StrayEnds, EndOfCfp, In
<1>22. FlagIsRead(n)'
  <2> SUFFICES ASSUME mac'[n].incFirstCFP, misled'[n] > 0
               PROVE  CfpComes(n, heardAt[n])' /\ misled'[n] > heardAt'[n] + 7 * Slot
    BY DEF FlagIsRead
  <2>1. misled'[n] = s /\ s > 0 /\ s >= ev.at
    BY <1>3, <1>8
  <2>2. c
    BY <1>6, <1>9, <1>10, <2>1
  <2>3. x \in ReceptionEvents(n, from, ev.at)
    BY <1>11 DEF ReceptionEvents, PeriodEvents
  <2>4. PICK g \in queue' : Like(g, x)
    BY <1>7, <2>3 DEF Adds
  <2>5. In(g) /\ InTime(g)' /\ g.node = n /\ g.do = "StartCFP" /\ g.at = heardAt'[n]
    BY <1>8, <1>12, <1>16, <2>2, <2>4
  <2>6. CfpComes(n, heardAt[n])'
    BY <2>5 DEF CfpComes, In
  <2>7. ev.at + 7 * Slot < s
    BY <1>14, <2>1
  <2> QED
    BY <1>3, <1>8, <2>1, <2>6, <2>7, Lengths
<1>23. \A f \in queue' : In(f) /\ f.node = n /\ InTime(f)' => Like(f, x)
  BY <1>13, <1>15
<1> QED
  BY <1>1, <1>2, <1>11, <1>17, <1>18, <1>19, <1>20, <1>21, <1>22, <1>23 DEF PeriodOk

\* Only a CFP or a beacon of a node changes when its stray CFP ends.
LEMMA MisledKept ==
  ASSUME BeaconInv, misled \in [Nodes -> Nat], NEW ev \in queue, Handler(ev)
  PROVE  /\ misled' \in [Nodes -> Nat]
         /\ \A m \in Nodes : m # ev.node => misled'[m] = misled[m]
         /\ ~EndRx(ev) /\ ~(StartCFP(ev) /\ ev.arg # "OUT") => misled' = misled
<1>1. ev.node \in Nodes /\ ev.at \in Nat
  BY Running
<1>2. CASE EndRx(ev)
  <2>1. misled' = [misled EXCEPT ![ev.node] = IF misled[ev.node] < ev.at THEN 0 ELSE misled[ev.node]]
    BY <1>2, EndRxStep
  <2> QED
    BY <1>1, <1>2, <2>1
<1>3. CASE StartCFP(ev) /\ ev.arg # "OUT"
  <2>1. \/ misled' = misled
        \/ misled' = [misled EXCEPT ![ev.node] = ev.at + CfpSlots * Slot + IncomingCap]
    BY <1>3, InCfpStep
  <2>2. ev.at + CfpSlots * Slot + IncomingCap \in Nat
    BY <1>1, Lengths
  <2> QED
    BY <1>1, <1>3, <2>1, <2>2
<1>4. CASE ~EndRx(ev) /\ ~(StartCFP(ev) /\ ev.arg # "OUT")
  BY <1>4, HandlerKeeps
<1> QED
  BY <1>2, <1>3, <1>4

LEMMA PeriodStep ==
  ASSUME BeaconInv, SenderInv, GridInv, AirInv, PeriodsInv, heardAt \in [Nodes -> Nat],
         NEW ev \in queue, First(ev), Handler(ev)
  PROVE  PeriodsInv'
<1>1. misled \in [Nodes -> Nat] /\ misled' \in [Nodes -> Nat]
  BY MisledKept DEF PeriodsInv
<1>2. ASSUME NEW n \in Nodes PROVE PeriodOk(n)'
  <2>1. PeriodOk(n)
    BY DEF PeriodsInv
  <2>2. CASE n # ev.node
    <3>1. SameIns(n) /\ mac'[n] = mac[n] /\ misled'[n] = misled[n]
      BY <1>1, <2>2, InsOfOthers, MisledKept
    <3> QED
      BY <2>1, <2>2, <3>1, PeriodKept DEF KeepIn
  <2>3. CASE n = ev.node
    <3>1. CASE EndRx(ev)
      BY <1>1, <2>1, <2>3, <3>1, PeriodOfReception
    <3>2. CASE AwaitBeacon(ev)
      BY <2>1, <2>3, <3>2, PeriodOfAwait
    <3>3. CASE (StartCAP(ev) \/ StartCFP(ev) \/ StartRemainingPeriod(ev)) /\ ev.arg # "OUT"
      BY <1>1, <2>1, <2>3, <3>3, PeriodOfCap, PeriodOfCfp, PeriodOfRemaining
    <3>4. CASE /\ ~EndRx(ev) /\ ~AwaitBeacon(ev)
               /\ ~((StartCAP(ev) \/ StartCFP(ev) \/ StartRemainingPeriod(ev)) /\ ev.arg # "OUT")
      <4>1. SameIns(n) /\ KeepIn(n)
        BY <3>4, QuietForIn
      <4>2. misled' = misled
        BY <1>1, <3>4, MisledKept
      <4> QED
        BY <2>1, <3>4, <4>1, <4>2, PeriodKept
    <3> QED
      BY <3>1, <3>2, <3>3, <3>4
  <2> QED
    BY <2>2, <2>3
<1> QED
  BY <1>1, <1>2 DEF PeriodsInv

LEMMA PeriodInvariant ==
  ASSUME StartsOnce
  PROVE  Spec /\ []DelayIsPositive => []PeriodsInv
<1>1. ASSUME BeaconInv, SenderInv, SearchInv, GridInv, AirInv, PeriodsInv, [Next]_vars
      PROVE  PeriodsInv'
  <2>1. ASSUME NEW ev \in queue, First(ev), Handler(ev) PROVE PeriodsInv'
    BY <1>1, <2>1, PeriodStep DEF SearchInv
  <2>2. CASE UNCHANGED <<queue, mac, heardAt, heardFrom, misled>>
    BY <1>1, <2>2 DEF PeriodsInv, PeriodOk, InsInTime, OneInTime, TimelyOf, MisledFrom, StrayFrom, CapEnds,
       CfpIsOver, FlagIsRead, InTime, Stray, CfpComes, CfpEnds, StrayEnds, EndOfCfp, BeaconEnd, In
  <2>3. ASSUME NEW late \in LateEntries, AddDsmeACTEntity(late.node, late.entry)
        PROVE  UNCHANGED <<queue, mac, heardAt, heardFrom, misled>>
    BY <2>3 DEF AddDsmeACTEntity, history
  <2>4. UNCHANGED vars => UNCHANGED <<queue, mac, heardAt, heardFrom, misled>>
    BY DEF vars, history
  <2> QED
    BY <1>1, <2>1, <2>2, <2>3, <2>4 DEF Next
<1>2. ASSUME Init PROVE PeriodsInv
  <2>1. \A f \in queue : ~In(f)
    BY <1>2, BootEvents DEF In
  <2>2. \A n \in Nodes : mac[n].inc = "BEACON" /\ misled[n] = 0
    BY <1>2 DEF Init, MacAtStart
  <2>3. misled \in [Nodes -> Nat]
    BY <1>2 DEF Init
  <2>4. ASSUME NEW n \in Nodes PROVE PeriodOk(n)
    <3>1. InsInTime(n) /\ OneInTime(n)
      BY <2>1 DEF InsInTime, OneInTime, TimelyOf
    <3>2. MisledFrom(n) /\ CapEnds(n) /\ CfpIsOver(n) /\ FlagIsRead(n)
      BY <2>2 DEF MisledFrom, CapEnds, CfpIsOver, FlagIsRead
    <3> QED
      BY <3>1, <3>2 DEF PeriodOk
  <2> QED
    BY <2>3, <2>4 DEF PeriodsInv
<1> QED
  BY <1>1, <1>2, DsmeInvariant, DsmeSenders, SearchInvariant, GridInvariant, AirInvariant, PTL
     DEF Spec

-----------------------------------------------------------------------------
(* The CAP of a sender *)

CfpFollows(e, n) ==
  OfSender(e) /\ e.node = n /\ e.do = "StartCFP" /\ e.at = mac[n].bcnStart + CapLen

\* The CAP of a superframe begins with its beacon's end, and a CFP follows it.
CapOk(n) ==
  mac[n].out = "CAP" =>
    HasCap(n) /\ now >= BeaconEnd(n) /\ \E e \in queue : CfpFollows(e, n)

CapOnly == \A e \in queue : e.do = "StartCAP" /\ e.arg = "OUT" => HasCap(e.node)

CapInv == CapOnly /\ \A n \in Nodes : CapOk(n)

\* A CAP is scheduled only for a superframe that has one.
LEMMA NewCaps ==
  ASSUME BeaconInv, SenderInv, NEW ev \in queue, Handler(ev),
         NEW f \in queue', f.do = "StartCAP", f.arg = "OUT"
  PROVE  f \in queue \/ HasCap(f.node)
<1>1. Kind(f) = "own" /\ f.do \notin GtsHandlers
  BY DEF Kind, GtsHandlers, OwnPeriods
<1>2. CASE EndTx(ev)
  <2>1. Adds(queue \ {ev}, queue',
             (IF ev.node # PanC THEN GtsItems(ev.node, ev.at) ELSE {}) \cup {CapEvent(ev)})
    BY <1>2, EndTxStep
  <2>2. \A x \in GtsItems(ev.node, ev.at) : x.do = "StartGTS"
    BY DEF GtsItems, GtsEvent
  <2>3. CapEvent(ev).do = (IF HasCap(ev.node) THEN "StartCAP" ELSE "StartCFP")
        /\ CapEvent(ev).node = ev.node
    BY DEF CapEvent, Event
  <2>4. ASSUME f \notin queue PROVE HasCap(f.node)
    <3>1. PICK x \in (IF ev.node # PanC THEN GtsItems(ev.node, ev.at) ELSE {}) \cup {CapEvent(ev)} :
            Like(f, x)
      BY <2>1, <2>4 DEF Adds
    <3>2. x.do = "StartCAP" /\ x.node = f.node
      BY <3>1, LikeKinds
    <3>3. x = CapEvent(ev)
      BY <2>2, <3>1, <3>2
    <3> QED
      BY <2>3, <3>2, <3>3
  <2> QED
    BY <2>4
<1>3. CASE EndRx(ev)
  <2>1. Adds(Cancel(queue \ {ev}, ev.node, "SearchTimeout"), queue',
             ReceptionEvents(ev.node, ev.arg, ev.at))
    BY <1>3, EndRxStep
  <2>2. mac[ev.arg].bitmapSd % NumSuperframes = 0
    BY <1>3, HeardBeacon
  <2>3. ASSUME NEW x \in ReceptionEvents(ev.node, ev.arg, ev.at), Like(f, x) PROVE FALSE
    <3>1. Kind(x) = "own" /\ x.do = "StartCAP"
      BY <1>1, <2>3, LikeKinds
    <3> QED
      BY <2>2, <2>3, <3>1, ReceptionKinds
  <2> QED
    BY <2>1, <2>3 DEF Adds, Cancel
<1>4. CASE StartTx(ev)
  <2>1. Adds(queue \ {ev}, queue',
             {Event(ev.at + BeaconLen, ev.node, "EndTx", "OUT")}
             \cup {Event(ev.at + BeaconLen, m, "EndRx", ev.node) : m \in hearing'})
    BY <1>4, StartTxStep
  <2>2. \A x \in {Event(ev.at + BeaconLen, ev.node, "EndTx", "OUT")}
                  \cup {Event(ev.at + BeaconLen, m, "EndRx", ev.node) : m \in hearing'} :
          x.do \in {"EndTx", "EndRx"}
    BY DEF Event
  <2> QED
    BY <2>1, <2>2, LikeKinds DEF Adds
<1>5. CASE \/ SendOneEnhancedBeacon(ev)
           \/ (StartCAP(ev) \/ StartCFP(ev) \/ StartRemainingPeriod(ev)) /\ ev.arg = "OUT"
  <2>1. PICK x : Adds(queue \ {ev}, queue', {x}) /\ x.do # "StartCAP"
    <3>1. CASE SendOneEnhancedBeacon(ev)
      <4>1. Event(ev.at + Turnaround, ev.node, "StartTx", "OUT").do = "StartTx"
        BY DEF Event
      <4> QED
        BY <3>1, <4>1, SendBeaconStep
    <3>2. CASE StartCAP(ev) /\ ev.arg = "OUT"
      <4>1. Event(mac[ev.node].bcnStart + CapLen, ev.node, "StartCFP", "OUT").do = "StartCFP"
        BY DEF Event
      <4> QED
        BY <3>2, <4>1, OwnCapStep
    <3>3. CASE StartCFP(ev) /\ ev.arg = "OUT"
      <4>1. PICK x : x = IF mac[ev.node].firstCFP
                         THEN Event(ev.at + CapLen - BeaconDelay, ev.node, "StartCFP", "OUT")
                         ELSE Event(ev.at + CfpSlots * Slot, ev.node, "StartRemainingPeriod", "OUT")
        OBVIOUS
      <4>2. x.do # "StartCAP"
        BY <4>1 DEF Event
      <4> QED
        BY <3>3, <4>1, <4>2, OwnCfpStep
    <3>4. CASE StartRemainingPeriod(ev) /\ ev.arg = "OUT"
      <4>1. Event(mac[ev.node].bcnStart + BI, ev.node, "SendBeacon", "OUT").do = "SendBeacon"
        BY DEF Event
      <4> QED
        BY <3>4, <4>1, OwnRemainingStep
    <3> QED
      BY <1>5, <3>1, <3>2, <3>3, <3>4
  <2> QED
    BY <2>1, LikeKinds DEF Adds
<1>6. CASE StartRequest(ev)
  <2>1. CASE ev.node = PanC
    <3>1. Adds(queue \ {ev}, queue', {Event(ev.at, PanC, "StartMultisuperframe", "OUT"),
                                      Event(ev.at, PanC, "SendBeacon", "OUT")})
      BY <1>6, <2>1, PanStartStep
    <3>2. \A x \in {Event(ev.at, PanC, "StartMultisuperframe", "OUT"),
                    Event(ev.at, PanC, "SendBeacon", "OUT")} : x.do # "StartCAP"
      BY DEF Event
    <3> QED
      BY <3>1, <3>2, LikeKinds DEF Adds
  <2>2. CASE ev.node # PanC
    <3>1. Touches({"StartRequest", "gts"})
      BY <1>6, <2>2, CoordStartStep
    <3> QED
      BY <1>1, <3>1, TouchesNot
  <2> QED
    BY <2>1, <2>2
<1>7. CASE \/ StartGTS(ev) \/ EndGTS(ev) \/ SendGack(ev) \/ GackSent(ev)
           \/ (StartCAP(ev) \/ StartCFP(ev) \/ StartRemainingPeriod(ev)) /\ ev.arg # "OUT"
           \/ AwaitBeacon(ev) \/ StartSuperframe(ev) \/ StartMultisuperframe(ev) \/ SetIdle(ev)
           \/ BeaconLost(ev) \/ SyncRequest(ev) \/ BeaconSearchTimeout(ev)
  BY <1>1, <1>7, QuietForSender DEF SenderKinds
<1> QED
  BY <1>2, <1>3, <1>4, <1>5, <1>6, <1>7 DEF Handler

LEMMA CapOfRunning ==
  ASSUME BeaconInv, SenderInv, CapInv, DelayIsPositive, NEW ev \in queue, First(ev), Handler(ev)
  PROVE  CapOk(ev.node)'
<1>1. PICK n \in Nodes : n = ev.node
  BY Running
<1>2. /\ now' = ev.at /\ ev.at \in Nat /\ now \in Nat /\ now <= ev.at
      /\ capReduction' = capReduction
  <2>1. now \in Nat
    BY Durations DEF BeaconInv, TypeOK
  <2> QED
    BY <2>1, HandlerKeeps, Running DEF DelayIsPositive, config
<1>3. HasCap(n)' <=> HasCap(n)
  BY <1>2 DEF HasCap
<1>4. CapOk(n)
  BY DEF CapInv
<1>5. ASSUME Own(ev), ev.do # "StartCFP" PROVE mac[n].out # "CAP"
  <2>1. ASSUME NEW e \in queue, OfSender(e), e.node = n, e.do = "StartCFP" PROVE FALSE
    <3>1. e = ev
      BY <1>1, <1>5, <2>1 DEF SenderInv, OneOwn, Own
    <3> QED
      BY <1>5, <2>1, <3>1
  <2> QED
    BY <1>4, <2>1 DEF CapOk, CfpFollows
<1>6. CASE StartCAP(ev) /\ ev.arg = "OUT"
  <2>1. ev.do = "StartCAP" /\ OfSender(ev)
    BY <1>6 DEF StartCAP, Runs, OfSender, OwnPeriods
  <2>2. ev.at = BeaconEnd(n) /\ HasCap(n)
    BY <1>1, <1>6, <2>1 DEF SenderInv, OwnTimes, OwnTime, BeaconEnd, CapInv, CapOnly
  <2>3. PICK x : x = Event(mac[n].bcnStart + CapLen, n, "StartCFP", "OUT")
    OBVIOUS
  <2>4. Adds(queue \ {ev}, queue', {x}) /\ mac'[n].bcnStart = mac[n].bcnStart
    BY <1>1, <1>6, <2>3, OwnCapStep DEF KeepBeacon
  <2>5. x.do = "StartCFP" /\ x.node = n /\ x.arg = "OUT" /\ x.at = mac[n].bcnStart + CapLen
    BY <2>3 DEF Event
  <2>6. PICK g \in queue' : Like(g, x)
    BY <2>4 DEF Adds
  <2>7. CfpFollows(g, n)'
    <3>1. g.do = "StartCFP" /\ g.node = n /\ g.arg = "OUT" /\ g.at = mac'[n].bcnStart + CapLen
      BY <2>4, <2>5, <2>6, LikeKinds
    <3> QED
      BY <3>1 DEF CfpFollows, OfSender, OwnPeriods
  <2>8. BeaconEnd(n)' = ev.at
    BY <2>2, <2>4 DEF BeaconEnd
  <2> QED
    BY <1>1, <1>2, <1>3, <2>2, <2>6, <2>7, <2>8 DEF CapOk
<1>7. CASE SendOneEnhancedBeacon(ev) \/ (StartCFP(ev) /\ ev.arg = "OUT")
  <2>1. mac'[n].out # "CAP"
    BY <1>1, <1>7, SendBeaconStep, OwnCfpStep
  <2> QED
    BY <1>1, <2>1 DEF CapOk
<1>8. CASE StartTx(ev) \/ EndTx(ev) \/ (StartRemainingPeriod(ev) /\ ev.arg = "OUT")
           \/ StartRequest(ev)
  <2>1. Own(ev) /\ ev.do # "StartCFP"
    BY <1>8, Running DEF StartTx, EndTx, StartRemainingPeriod, StartRequest, Runs, Own, OfSender,
       OwnPeriods, EventTypes
  <2>2. mac'[n].out \in {"REMAINING", mac[n].out}
    <3>1. CASE StartRequest(ev)
      BY <1>1, <3>1, PanStartStep, CoordStartStep DEF RequestFrame
    <3>2. CASE ~StartRequest(ev)
      BY <1>1, <1>8, <3>2, StartTxStep, EndTxStep, OwnRemainingStep
    <3> QED
      BY <3>1, <3>2
  <2> QED
    BY <1>1, <1>5, <2>1, <2>2 DEF CapOk
<1>9. ASSUME mac'[n].out = mac[n].out, mac'[n].bcnStart = mac[n].bcnStart,
             \A e \in queue : OfSender(e) /\ e.do = "StartCFP" => e \in queue'
      PROVE  CapOk(n)'
  <2> SUFFICES ASSUME mac'[n].out = "CAP" PROVE CapOk(n)'
    BY DEF CapOk
  <2>1. HasCap(n) /\ now >= BeaconEnd(n)
    BY <1>4, <1>9 DEF CapOk
  <2>6. PICK e \in queue : CfpFollows(e, n)
    BY <1>4, <1>9 DEF CapOk
  <2>2. PICK b \in Nat : b = BeaconEnd(n)
    BY StartTimes, Lengths DEF BeaconEnd
  <2>3. BeaconEnd(n)' = b
    BY <1>9, <2>2 DEF BeaconEnd
  <2>4. now' >= BeaconEnd(n)'
    BY <1>2, <2>1, <2>2, <2>3
  <2>5. e \in queue' /\ CfpFollows(e, n)'
    BY <1>9, <2>6 DEF CfpFollows, OfSender
  <2> QED
    BY <1>3, <2>1, <2>4, <2>5 DEF CapOk
<1>10. CASE EndRx(ev)
  <2>1. /\ Adds(Cancel(queue \ {ev}, n, "SearchTimeout"), queue', ReceptionEvents(n, ev.arg, ev.at))
        /\ mac'[n] = AfterBeacon(n, ev.arg) /\ ev.do = "EndRx"
    BY <1>1, <1>10, EndRxStep DEF EndRx, Runs
  <2>2. LET m == AfterBeacon(n, ev.arg)
        IN m.out = mac[n].out /\ m.bcnStart = mac[n].bcnStart
    BY AfterBeaconFields
  <2>3. \A e \in queue : OfSender(e) /\ e.do = "StartCFP" => e \in queue'
    BY <2>1 DEF Adds, Cancel
  <2> QED
    BY <1>1, <1>9, <2>1, <2>2, <2>3
<1>11. CASE \/ StartGTS(ev) \/ EndGTS(ev) \/ SendGack(ev) \/ GackSent(ev)
            \/ (StartCAP(ev) \/ StartCFP(ev) \/ StartRemainingPeriod(ev)) /\ ev.arg # "OUT"
            \/ AwaitBeacon(ev) \/ StartSuperframe(ev) \/ StartMultisuperframe(ev) \/ SetIdle(ev)
            \/ BeaconLost(ev) \/ SyncRequest(ev) \/ BeaconSearchTimeout(ev)
  <2>1. KeepOwn(n) /\ \A e \in queue : Own(e) => e \in queue'
    BY <1>11, QuietForSender
  <2>2. \A e \in queue : OfSender(e) /\ e.do = "StartCFP" => e \in queue'
    BY <2>1 DEF Own
  <2> QED
    BY <1>1, <1>9, <2>1, <2>2 DEF KeepOwn
<1> QED
  BY <1>6, <1>7, <1>8, <1>10, <1>11 DEF Handler

LEMMA CapStep ==
  ASSUME BeaconInv, SenderInv, CapInv, DelayIsPositive, NEW ev \in queue, First(ev), Handler(ev)
  PROVE  CapInv'
<1>1. /\ now' = ev.at /\ ev.at \in Nat /\ now \in Nat /\ now <= ev.at
      /\ capReduction' = capReduction
  <2>1. now \in Nat
    BY Durations DEF BeaconInv, TypeOK
  <2> QED
    BY <2>1, HandlerKeeps, Running DEF DelayIsPositive, config
<1>2. \A x : HasCap(x)' <=> HasCap(x)
  BY <1>1 DEF HasCap
<1>3. CapOnly'
  BY <1>2, NewCaps DEF CapInv, CapOnly
<1>4. ASSUME NEW n \in Nodes PROVE CapOk(n)'
  <2>1. CASE n = ev.node
    BY <2>1, CapOfRunning
  <2>2. CASE n # ev.node /\ mac[n].out = "CAP"
    <3>1. mac'[n] = mac[n]
      BY <2>2, OthersKept
    <3>2. HasCap(n) /\ now >= BeaconEnd(n)
      BY <2>2 DEF CapInv, CapOk
    <3>8. PICK e \in queue : CfpFollows(e, n)
      BY <2>2 DEF CapInv, CapOk
    <3>3. PICK b \in Nat : b = BeaconEnd(n)
      BY StartTimes, Lengths DEF BeaconEnd
    <3>4. BeaconEnd(n)' = b
      BY <3>1, <3>3 DEF BeaconEnd
    <3>5. now' >= BeaconEnd(n)'
      BY <1>1, <3>2, <3>3, <3>4
    <3>6. PICK q, New : Local(ev, q, New)
      BY StepIsLocal
    <3>7. e \in queue' /\ CfpFollows(e, n)'
      BY <2>2, <3>1, <3>6, <3>8 DEF CfpFollows, OfSender, Local, Adds
    <3> QED
      BY <1>2, <3>2, <3>5, <3>7 DEF CapOk
  <2>3. CASE n # ev.node /\ mac[n].out # "CAP"
    BY <2>3, OthersKept DEF CapOk
  <2> QED
    BY <2>1, <2>2, <2>3
<1> QED
  BY <1>3, <1>4 DEF CapInv

LEMMA CapInvariant ==
  ASSUME StartsOnce
  PROVE  Spec /\ []DelayIsPositive => []CapInv
<1>1. ASSUME BeaconInv, SenderInv, CapInv, DelayIsPositive, [Next]_vars PROVE CapInv'
  <2>1. ASSUME NEW ev \in queue, First(ev), Handler(ev) PROVE CapInv'
    BY <1>1, <2>1, CapStep
  <2>2. CASE UNCHANGED <<now, queue, mac, capReduction>>
    BY <1>1, <2>2 DEF CapInv, CapOnly, CapOk, CfpFollows, HasCap, BeaconEnd, OfSender
  <2>3. ASSUME NEW late \in LateEntries, AddDsmeACTEntity(late.node, late.entry)
        PROVE  UNCHANGED <<now, queue, mac, capReduction>>
    BY <2>3 DEF AddDsmeACTEntity, config
  <2>4. UNCHANGED vars => UNCHANGED <<now, queue, mac, capReduction>>
    BY DEF vars, config
  <2> QED
    BY <1>1, <2>1, <2>2, <2>3, <2>4 DEF Next
<1>2. ASSUME Init PROVE CapInv
  <2>1. \A f \in queue : f.do # "StartCAP"
    BY <1>2, BootEvents
  <2>2. \A n \in Nodes : mac[n].out = "BEACON"
    BY <1>2 DEF Init, MacAtStart
  <2> QED
    BY <2>1, <2>2 DEF CapInv, CapOnly, CapOk
<1> QED
  BY <1>1, <1>2, DsmeInvariant, DsmeSenders, PTL DEF Spec

-----------------------------------------------------------------------------
(* The periods of a device and of the sender of its beacon *)

\* With CAP reduction a device takes every superframe but the PAN coordinator's
\* for one without a CAP.  It is right if no coordinator has chosen the first
\* superframe of a multisuperframe.
CapFollows == capReduction => \A c \in Coords : SdIndex[c] % NumSuperframes # 0

\* A CFP comes at once only after the beacon of a sender without a CAP, and a
\* device is in none during its sender's CAP unless it is a stray one.
CfpAtOnce(e, d) == TimelyOf(e, d) /\ e.do = "StartCFP" /\ e.at = heardAt[d]
AtOnceOk(d) == \A e \in queue : CfpAtOnce(e, d) => ~HasCap(heardFrom[d])
CfpOk(d) ==
  mac[d].inc = "CFP" /\ HasCap(heardFrom[d]) =>
    now >= heardAt[d] + IncomingCap \/ StrayEnds(d)

Agrees(d) == (capReduction => ~mac[d].isFirst) /\ AtOnceOk(d) /\ CfpOk(d)

MultisAtPan == \A e \in queue : IsMulti(e) => e.node = PanC

AgreeInv == MultisAtPan /\ (CapFollows => \A d \in Devices \cap joined : Agrees(d))

LEMMA MultisStay ==
  ASSUME BeaconInv, SenderInv, MultisAtPan, NEW ev \in queue, Handler(ev)
  PROVE  MultisAtPan'
<1> SUFFICES ASSUME NEW f \in queue', IsMulti(f) PROVE f.node = PanC
  BY DEF MultisAtPan, IsMulti
<1>1. Kind(f) = "multi"
  BY KindsOfIdx
<1>2. CASE f \in queue
  BY <1>2 DEF MultisAtPan
<1>3. CASE f \notin queue
  <2>1. CASE StartSuperframe(ev)
    <3>1. PICK x : /\ x = Event(ev.at + SD, ev.node, "StartSuperframe", "OUT")
                   /\ Adds(queue \ {ev}, queue', {x})
      BY <2>1, SuperframeStep
    <3>2. x.do = "StartSuperframe"
      BY <3>1 DEF Event
    <3> QED
      BY <1>3, <3>1, <3>2, LikeKinds DEF Adds, IsMulti
  <2>2. CASE StartMultisuperframe(ev)
    <3>1. ev.node = PanC
      BY <2>2 DEF StartMultisuperframe, Runs, MultisAtPan, IsMulti
    <3>2. Adds(queue \ {ev}, queue', MultiEvents(ev))
      BY <2>2, MultiStep
    <3>3. \A x \in MultiEvents(ev) : x.node = ev.node
      BY DEF MultiEvents, Event
    <3> QED
      BY <1>3, <3>1, <3>2, <3>3, LikeKinds DEF Adds
  <2>3. CASE StartRequest(ev) /\ ev.node = PanC
    <3>1. Adds(queue \ {ev}, queue', {Event(ev.at, PanC, "StartMultisuperframe", "OUT"),
                                      Event(ev.at, PanC, "SendBeacon", "OUT")})
      BY <2>3, PanStartStep
    <3>2. \A x \in {Event(ev.at, PanC, "StartMultisuperframe", "OUT"),
                    Event(ev.at, PanC, "SendBeacon", "OUT")} : x.node = PanC
      BY DEF Event
    <3> QED
      BY <1>3, <3>1, <3>2, LikeKinds DEF Adds
  <2>4. CASE EndRx(ev)
    <3>1. Adds(Cancel(queue \ {ev}, ev.node, "SearchTimeout"), queue',
               ReceptionEvents(ev.node, ev.arg, ev.at))
      BY <2>4, EndRxStep
    <3>2. mac[ev.arg].bitmapSd % NumSuperframes = 0
      BY <2>4, HeardBeacon
    <3>3. ASSUME NEW x \in ReceptionEvents(ev.node, ev.arg, ev.at), Like(f, x) PROVE FALSE
      <4>1. Kind(x) = "multi"
        BY <1>1, <3>3, LikeKinds
      <4> QED
        BY <3>2, <3>3, <4>1, ReceptionKinds
    <3> QED
      BY <1>3, <3>1, <3>3 DEF Adds, Cancel
  <2>5. CASE /\ ~StartSuperframe(ev) /\ ~StartMultisuperframe(ev) /\ ~EndRx(ev)
             /\ ~(StartRequest(ev) /\ ev.node = PanC)
    BY <1>3, <2>5, QuietForIdx
  <2> QED
    BY <2>1, <2>2, <2>3, <2>4, <2>5
<1> QED
  BY <1>2, <1>3

\* m_isFirstSuperframe of a device is set by beacons only.
LEMMA FirstKept ==
  ASSUME BeaconInv, MultisAtPan, NEW ev \in queue, Handler(ev), ~EndRx(ev), ev.node \in Devices,
         ~mac[ev.node].isFirst
  PROVE  ~mac'[ev.node].isFirst
<1>1. PICK n \in Nodes : n = ev.node
  BY Running
<1>2. ev.node # PanC /\ ~StartMultisuperframe(ev)
  <2>1. ev.node # PanC
    BY DsmeConstants
  <2> QED
    BY <2>1 DEF StartMultisuperframe, Runs, MultisAtPan, IsMulti
<1>3. CASE StartSuperframe(ev)
  BY <1>3, SuperframeStep
<1>4. CASE StartRequest(ev)
  BY <1>1, <1>2, <1>4, CoordStartStep DEF RequestFrame, KeepIdx
<1>5. CASE StartTx(ev) \/ BeaconLost(ev)
  BY <1>5, StartTxStep, BeaconLostStep
<1>6. CASE \/ StartGTS(ev) \/ EndGTS(ev) \/ SendGack(ev) \/ GackSent(ev)
           \/ StartCAP(ev) \/ StartCFP(ev) \/ StartRemainingPeriod(ev) \/ AwaitBeacon(ev)
           \/ SetIdle(ev) \/ SendOneEnhancedBeacon(ev) \/ EndTx(ev)
           \/ SyncRequest(ev) \/ BeaconSearchTimeout(ev)
  <2>1. KeepIdx(n)
    BY <1>6, StartGtsStep, GtsSteps, OwnCapStep, OwnCfpStep, OwnRemainingStep, InCapStep,
       InCfpStep, InRemainingStep, AwaitStep, SetIdleStep, SendBeaconStep, EndTxStep, SyncStep,
       TimeoutStep DEF OwnFrame, InFrame, TrackFrame
  <2> QED
    BY <1>1, <2>1 DEF KeepIdx
<1> QED
  BY <1>2, <1>3, <1>4, <1>5, <1>6 DEF Handler

\* No event comes before the last beacon was heard.
LEMMA SinceHeard ==
  ASSUME BeaconInv, AirInv, DelayIsPositive, heardAt \in [Nodes -> Nat], NEW e \in queue,
         NEW n \in Nodes
  PROVE  e.at >= heardAt[n]
<1>1. now \in Nat
  BY Durations DEF BeaconInv, TypeOK
<1>2. e.at \in Nat /\ now <= e.at
  BY Running DEF DelayIsPositive
<1>3. heardAt[n] \in Nat /\ heardAt[n] <= now
  BY DEF AirInv, Heard
<1> QED
  BY <1>1, <1>2, <1>3

LEMMA AtOnceNext ==
  ASSUME BeaconInv, AirInv, heardAt \in [Nodes -> Nat], NEW ev \in queue, Handler(ev),
         NEW d \in Nodes, PeriodOk(d), AtOnceOk(d), ~(EndRx(ev) /\ ev.node = d),
         heardAt'[d] = heardAt[d], HasCap(heardFrom[d])' <=> HasCap(heardFrom[d]),
         NEW x, Adds(queue \ {ev}, queue', {x}), x.do = "StartCFP" => x.at # heardAt[d]
  PROVE  AtOnceOk(d)'
<1> SUFFICES ASSUME NEW e \in queue', CfpAtOnce(e, d)' PROVE ~HasCap(heardFrom[d])
  BY DEF AtOnceOk
<1>1. In(e) /\ e.node = d /\ InTime(e)' /\ e.do = "StartCFP" /\ e.at = heardAt[d]
  BY DEF CfpAtOnce, TimelyOf, In
<1>2. e \in queue
  BY <1>1, LikeKinds DEF Adds
<1>3. InTime(e)
  BY <1>1, <1>2, InTimeBefore
<1> QED
  BY <1>1, <1>2, <1>3 DEF AtOnceOk, CfpAtOnce, TimelyOf

LEMMA AgreesKept ==
  ASSUME BeaconInv, SenderInv, GridInv, AirInv, PeriodsInv, MultisAtPan, DelayIsPositive,
         heardAt \in [Nodes -> Nat], NEW ev \in queue, First(ev), Handler(ev),
         NEW d \in Devices, Agrees(d), ~(EndRx(ev) /\ ev.node = d)
  PROVE  Agrees(d)'
<1>1. d \in Nodes /\ PeriodOk(d) /\ misled \in [Nodes -> Nat]
  BY DEF Nodes, PeriodsInv
<1>2. /\ now' = ev.at /\ ev.at \in Nat /\ now \in Nat /\ now <= ev.at
      /\ capReduction' = capReduction
  <2>1. now \in Nat
    BY Durations DEF BeaconInv, TypeOK
  <2> QED
    BY <2>1, HandlerKeeps, Running DEF DelayIsPositive, config
<1>3. PICK t \in Nat : t = heardAt[d]
  BY <1>1
<1>4. heardAt'[d] = t /\ heardFrom'[d] = heardFrom[d]
  BY <1>1, <1>3, HeardKept DEF AirInv
<1>5. PICK cap \in BOOLEAN : cap <=> HasCap(heardFrom[d])
  BY DEF HasCap
<1>6. HasCap(heardFrom[d])' <=> cap
  BY <1>2, <1>4, <1>5 DEF HasCap
<1>7. IncomingCap \in Nat /\ IncomingCap > 0 /\ SD - BeaconLen >= IncomingCap
  BY Lengths
<1>8. capReduction' => ~mac'[d].isFirst
  <2>1. CASE d # ev.node
    <3>1. mac'[d] = mac[d]
      BY <1>1, <2>1, OthersKept
    <3> QED
      BY <1>2, <3>1 DEF Agrees
  <2>2. CASE d = ev.node
    BY <1>2, <2>2, FirstKept DEF Agrees
  <2> QED
    BY <2>1, <2>2
<1>17. /\ heardAt'[d] = heardAt[d] /\ AtOnceOk(d)
       /\ HasCap(heardFrom[d])' <=> HasCap(heardFrom[d])
  BY <1>3, <1>4, <1>5, <1>6 DEF Agrees
\* What a step that starts no period of the device leaves.
<1>9. ASSUME \A f : EndOfCfp(f, d) /\ f \in queue' => f \in queue PROVE AtOnceOk(d)'
  <2> SUFFICES ASSUME NEW e \in queue', CfpAtOnce(e, d)' PROVE ~cap
    BY <1>6 DEF AtOnceOk
  <2>1. In(e) /\ e.node = d /\ InTime(e)' /\ e.do = "StartCFP" /\ e.at = t
    BY <1>4 DEF CfpAtOnce, TimelyOf, In
  <2>2. e \in queue
    BY <1>9, <2>1 DEF EndOfCfp
  <2>3. InTime(e)
    BY <1>1, <2>1, <2>2, InTimeBefore
  <2> QED
    BY <1>3, <1>5, <2>1, <2>2, <2>3 DEF Agrees, AtOnceOk, CfpAtOnce, TimelyOf
<1>10. ASSUME SameIns(d), KeepIn(d), misled'[d] = misled[d] PROVE Agrees(d)'
  <2>1. AtOnceOk(d)'
    BY <1>9, <1>10 DEF SameIns, EndOfCfp
  <2>2. StrayEnds(d) => StrayEnds(d)'
    BY <1>10 DEF StrayEnds, EndOfCfp, In, SameIns
  <2>3. mac[d].inc = "CFP" /\ cap => now >= t + IncomingCap \/ StrayEnds(d)
    BY <1>3, <1>5 DEF Agrees, CfpOk
  <2>4. CfpOk(d)'
    BY <1>2, <1>4, <1>6, <1>7, <1>10, <2>2, <2>3 DEF CfpOk, KeepIn
  <2> QED
    BY <1>8, <2>1, <2>4 DEF Agrees
<1>11. CASE d # ev.node
  <2>1. SameIns(d) /\ mac'[d] = mac[d] /\ misled'[d] = misled[d]
    BY <1>1, <1>11, InsOfOthers, MisledKept
  <2> QED
    BY <1>10, <2>1 DEF KeepIn
<1>12. CASE d = ev.node /\ StartCAP(ev) /\ ev.arg # "OUT"
  <2>1. In(ev) /\ ev.do = "StartCAP"
    BY <1>12 DEF StartCAP, Runs, In
  <2>2. InTime(ev)
    BY <1>1, <1>12, <2>1 DEF PeriodOk, InsInTime, Stray
  <2>3. ev.at = t
    BY <1>3, <1>12, <2>1, <2>2 DEF InTime
  <2>4. PICK x : x = Event(ev.at + IncomingCap, d, "StartCFP", "IN")
    OBVIOUS
  <2>5. Adds(queue \ {ev}, queue', {x}) /\ mac'[d].inc = "CAP"
    BY <1>12, <2>4, InCapStep
  <2>6. x.at # t
    BY <1>7, <2>3, <2>4 DEF Event
  <2>7. AtOnceOk(d)'
    BY <1>1, <1>3, <1>17, <1>12, <2>5, <2>6, AtOnceNext
  <2> QED
    BY <1>8, <2>5, <2>7 DEF Agrees, CfpOk
<1>13. CASE d = ev.node /\ StartCFP(ev) /\ ev.arg # "OUT"
  <2>1. In(ev) /\ ev.do = "StartCFP"
    BY <1>13 DEF StartCFP, Runs, In
  <2>2. PICK x : x = IF mac[d].incFirstCFP
                     THEN Event(ev.at + IncomingCap, d, "StartCFP", "IN")
                     ELSE Event(ev.at + CfpSlots * Slot, d, "StartRemainingPeriod", "IN")
    OBVIOUS
  <2>3. Adds(queue \ {ev}, queue', {x})
    BY <1>13, <2>2, InCfpStep
  <2>4. x.do = "StartCFP" => x.at = ev.at + IncomingCap
    BY <2>2 DEF Event
  <2>5. ev.at >= t
    BY <1>1, <1>3, SinceHeard
  <2>6. x.do = "StartCFP" => x.at # t
    BY <1>2, <1>7, <2>4, <2>5
  <2>7. AtOnceOk(d)'
    BY <1>1, <1>3, <1>17, <1>13, <2>3, <2>6, AtOnceNext
  <2>8. ASSUME InTime(ev), cap PROVE now' = t + IncomingCap
    <3>1. ev.at # t
      BY <1>3, <1>5, <1>13, <2>1, <2>8 DEF Agrees, AtOnceOk, CfpAtOnce, TimelyOf
    <3> QED
      BY <1>2, <1>3, <1>13, <2>1, <2>8, <3>1 DEF InTime
  <2>9. ASSUME Stray(ev) PROVE StrayEnds(d)'
    BY <1>1, <1>13, <2>9, StrayEndsNext
  <2>10. InTime(ev) \/ Stray(ev)
    BY <1>1, <1>13, <2>1 DEF PeriodOk, InsInTime
  <2>11. CfpOk(d)'
    <3>1. cap => now' >= t + IncomingCap \/ StrayEnds(d)'
      BY <1>7, <2>8, <2>9, <2>10
    <3> QED
      BY <1>4, <1>6, <3>1 DEF CfpOk
  <2> QED
    BY <1>8, <2>7, <2>11 DEF Agrees
<1>14. CASE d = ev.node /\ StartRemainingPeriod(ev) /\ ev.arg # "OUT"
  <2>1. In(ev) /\ ev.do = "StartRemainingPeriod"
    BY <1>14 DEF StartRemainingPeriod, Runs, In
  <2>2. PICK x : x = Event(ev.at + BI - SD, d, "AwaitBeacon", "IN")
    OBVIOUS
  <2>3. /\ Adds(queue \ {ev}, queue', {x})
        /\ mac'[d].inc = IF BI > SD THEN "REMAINING" ELSE mac[d].inc
    BY <1>14, <2>2, InRemainingStep
  <2>4. x.do = "AwaitBeacon"
    BY <2>2 DEF Event
  <2>5. AtOnceOk(d)'
    BY <1>1, <1>3, <1>17, <1>14, <2>3, <2>4, AtOnceNext
  <2>6. ASSUME InTime(ev) PROVE now' >= t + IncomingCap
    <3>1. ev.at = t + SD - BeaconLen
      BY <1>3, <1>14, <2>1, <2>6 DEF InTime
    <3> QED
      BY <1>2, <1>7, <3>1, Lengths
  <2>7. ASSUME Stray(ev), ~(BI > SD) PROVE StrayEnds(d)'
    BY <1>1, <1>14, <2>7, StrayEndsNext
  <2>8. InTime(ev) \/ Stray(ev)
    BY <1>1, <1>14, <2>1 DEF PeriodOk, InsInTime
  <2>9. CfpOk(d)'
    <3>1. mac'[d].inc = "CFP" => now' >= t + IncomingCap \/ StrayEnds(d)'
      BY <2>3, <2>6, <2>7, <2>8
    <3> QED
      BY <1>4, <3>1 DEF CfpOk
  <2> QED
    BY <1>8, <2>5, <2>9 DEF Agrees
<1>15. CASE d = ev.node /\ AwaitBeacon(ev)
  <2>1. mac'[d].inc = "BEACON" /\ Adds(queue \ {ev}, queue', {})
    BY <1>15, AwaitStep
  <2>2. AtOnceOk(d)'
    BY <1>9, <2>1 DEF Adds
  <2> QED
    BY <1>8, <2>1, <2>2 DEF Agrees, CfpOk
<1>16. CASE /\ d = ev.node /\ ~EndRx(ev) /\ ~AwaitBeacon(ev)
            /\ ~((StartCAP(ev) \/ StartCFP(ev) \/ StartRemainingPeriod(ev)) /\ ev.arg # "OUT")
  <2>1. SameIns(d) /\ KeepIn(d)
    BY <1>1, <1>16, QuietForIn
  <2>2. misled' = misled
    BY <1>1, <1>16, MisledKept
  <2> QED
    BY <1>10, <2>1, <2>2
<1> QED
  BY <1>11, <1>12, <1>13, <1>14, <1>15, <1>16

LEMMA AgreesOfReception ==
  ASSUME BeaconInv, SenderInv, GridInv, AirInv, PeriodsInv, CapFollows,
         heardAt \in [Nodes -> Nat], NEW ev \in queue, First(ev), Handler(ev), EndRx(ev),
         ev.node \in Devices, ev.node \in joined', ev.node \in joined => Agrees(ev.node)
  PROVE  Agrees(ev.node)'
<1>1. PICK d \in Nodes : d = ev.node
  BY Running
<1>2. PICK from \in Nodes : from = ev.arg
  BY HeardBeacon
<1>3. d \in Devices /\ d \notin Coords /\ d # PanC
  BY <1>1, DsmeConstants
<1>4. from \notin Devices
  BY <1>2, HeardBeacon
<1>5. /\ mac'[d] = AfterBeacon(d, from) /\ heardFrom' = [heardFrom EXCEPT ![d] = from]
      /\ joined' = (IF from = PanC THEN joined \cup {d} ELSE joined)
      /\ capReduction' = capReduction
  BY <1>1, <1>2, EndRxStep DEF config
<1>6. heardFrom'[d] = from
  BY <1>5 DEF AirInv
<1>7. PeriodOk(d)' /\ misled \in [Nodes -> Nat] /\ PeriodOk(d)
  BY <1>1, PeriodStep DEF PeriodsInv
<1>8. mac'[d].inc = mac[d].inc /\ mac'[d].isFirst = (FirstOfMulti(d, from) /\ ~capReduction)
  <2>1. LET m == AfterBeacon(d, from)
        IN m.inc = mac[d].inc /\ m.isFirst = (FirstOfMulti(d, from) /\ ~capReduction)
    BY ZenonT(60), <1>3, AfterBeaconFields
  <2> QED
    BY <1>5, <2>1
<1>9. capReduction' => ~mac'[d].isFirst
  BY <1>5, <1>8
<1>10. ASSUME NoIncomingCap(d, from) PROVE ~HasCap(from)
  <2>1. capReduction /\ from # PanC /\ from \in Coords
    BY <1>3, <1>4, <1>10 DEF NoIncomingCap, FirstOfMulti, Nodes
  <2> QED
    BY <2>1 DEF CapFollows, HasCap
<1>11. AtOnceOk(d)'
  <2> SUFFICES ASSUME NEW e \in queue', CfpAtOnce(e, d)' PROVE ~HasCap(from)
    BY <1>5, <1>6 DEF AtOnceOk, HasCap
  <2>1. In(e) /\ e.node = d /\ InTime(e)' /\ e.do = "StartCFP"
    BY DEF CfpAtOnce, TimelyOf, In
  <2>2. Like(e, PeriodEvent(d, from, ev.at))
    BY <1>1, <1>2, <1>7, <2>1, PeriodOfReception
  <2>3. PeriodEvent(d, from, ev.at).do = "StartCFP"
    BY <2>1, <2>2, LikeKinds
  <2>4. NoIncomingCap(d, from)
    BY <2>3 DEF PeriodEvent, Event
  <2> QED
    BY <1>10, <2>4
<1>12. CfpOk(d)'
  <2> SUFFICES ASSUME mac[d].inc = "CFP" PROVE StrayEnds(d)'
    BY <1>8 DEF CfpOk
  <2>1. PICK s \in Nat : s = misled[d]
    BY <1>7
  <2>2. PICK e \in queue : EndOfCfp(e, d) /\ e.at <= s /\ s > 0
    BY <1>1, <1>7, <2>1, NothingIn DEF StrayEnds
  <2>3. e.at \in Nat /\ ev.at <= e.at /\ ev.at \in Nat
    BY FirstIsFirst, Running
  <2>4. /\ Adds(Cancel(queue \ {ev}, d, "SearchTimeout"), queue', ReceptionEvents(d, from, ev.at))
        /\ misled' = [misled EXCEPT ![d] = IF misled[d] < ev.at THEN 0 ELSE misled[d]]
        /\ ev.do = "EndRx"
    BY <1>1, <1>2, EndRxStep DEF EndRx, Runs
  <2>5. misled'[d] = s
    BY <1>7, <2>1, <2>2, <2>3, <2>4
  <2>6. e \in queue'
    BY <2>2, <2>4 DEF EndOfCfp, In, Adds, Cancel
  <2> QED
    BY <2>2, <2>5, <2>6 DEF StrayEnds, EndOfCfp, In
<1> QED
  BY <1>1, <1>9, <1>11, <1>12 DEF Agrees

LEMMA AgreeStep ==
  ASSUME BeaconInv, SenderInv, GridInv, AirInv, PeriodsInv, AgreeInv, DelayIsPositive,
         heardAt \in [Nodes -> Nat], NEW ev \in queue, First(ev), Handler(ev)
  PROVE  AgreeInv'
<1>1. MultisAtPan'
  BY MultisStay DEF AgreeInv
<1>2. capReduction' = capReduction
  BY HandlerKeeps DEF config
<1>3. ASSUME CapFollows, NEW d \in Devices, d \in joined' PROVE Agrees(d)'
  <2>1. CASE EndRx(ev) /\ ev.node = d
    BY <1>3, <2>1, AgreesOfReception DEF AgreeInv
  <2>2. CASE ~(EndRx(ev) /\ ev.node = d)
    <3>1. d \in joined
      <4>1. CASE EndRx(ev)
        <5>1. joined' = (IF ev.arg = PanC THEN joined \cup {ev.node} ELSE joined)
          BY <4>1, EndRxStep
        <5> QED
          BY <1>3, <2>2, <4>1, <5>1
      <4>2. CASE ~EndRx(ev)
        <5>1. joined' = joined
          BY <4>2, HandlerKeeps DEF heard
        <5> QED
          BY <1>3, <5>1
      <4> QED
        BY <4>1, <4>2
    <3>2. Agrees(d) /\ MultisAtPan
      BY <1>3, <3>1 DEF AgreeInv
    <3> QED
      BY <1>3, <2>2, <3>2, AgreesKept
  <2> QED
    BY <2>1, <2>2
<1>4. CapFollows' <=> CapFollows
  BY <1>2 DEF CapFollows
<1> QED
  BY <1>1, <1>3, <1>4 DEF AgreeInv

LEMMA AgreeInvariant ==
  ASSUME StartsOnce
  PROVE  Spec /\ []DelayIsPositive => []AgreeInv
<1>1. ASSUME BeaconInv, SenderInv, SearchInv, GridInv, AirInv, PeriodsInv, AgreeInv,
             DelayIsPositive, [Next]_vars
      PROVE  AgreeInv'
  <2>1. ASSUME NEW ev \in queue, First(ev), Handler(ev) PROVE AgreeInv'
    BY <1>1, <2>1, AgreeStep DEF SearchInv
  <2>2. CASE UNCHANGED <<now, queue, mac, capReduction, heardAt, heardFrom, joined, misled>>
    BY <1>1, <2>2 DEF AgreeInv, MultisAtPan, IsMulti, CapFollows, Agrees, AtOnceOk, CfpAtOnce,
       TimelyOf, CfpOk, StrayEnds, EndOfCfp, In, InTime, BeaconEnd, HasCap
  <2>3. ASSUME NEW late \in LateEntries, AddDsmeACTEntity(late.node, late.entry)
        PROVE  UNCHANGED <<now, queue, mac, capReduction, heardAt, heardFrom, joined, misled>>
    BY <2>3 DEF AddDsmeACTEntity, history, config
  <2>4. UNCHANGED vars => UNCHANGED <<now, queue, mac, capReduction, heardAt, heardFrom, joined, misled>>
    BY DEF vars, history, config
  <2> QED
    BY <1>1, <2>1, <2>2, <2>3, <2>4 DEF Next
<1>2. ASSUME Init PROVE AgreeInv
  <2>1. \A f \in queue : ~IsMulti(f)
    BY <1>2, BootEvents DEF IsMulti
  <2>2. joined = {}
    BY <1>2 DEF Init
  <2> QED
    BY <2>1, <2>2 DEF AgreeInv, MultisAtPan
<1> QED
  BY <1>1, <1>2, DsmeInvariant, DsmeSenders, SearchInvariant, GridInvariant, AirInvariant,
     PeriodInvariant, PTL DEF Spec

\* A device that has heard the PAN coordinator takes part in a CAP and in a CFP
\* as the sender of its last beacon does, whichever beacons are lost and
\* whatever m_firstCFP and m_incomingFirstCFP hold at the start, but for the one
\* stray CFP of PeriodsAgree: with CAP reduction, if the SD indices fit it
\* (lr-wpan-mac.cc:2515-2571, 1005-1157; lr-wpan-mac.h:2622-2624).
THEOREM DsmePeriodsAgree ==
  ASSUME StartsOnce
  PROVE  Spec /\ []DelayIsPositive => [](CapFollows => PeriodsAgree)
<1>1. ASSUME BeaconInv, SenderInv, SearchInv, AirInv, PeriodsInv, CapInv, AgreeInv,
             DelayIsPositive, CapFollows
      PROVE  PeriodsAgree
  <2> SUFFICES ASSUME Settled, NEW d \in Devices, d \in joined
               PROVE  LET sender == mac[heardFrom[d]]
                      IN /\ mac[d].inc = "CAP" =>
                              \/ sender.out = "CAP"
                              \/ \E e \in queue : e.at <= sender.bcnStart + CapLen + Turnaround
                         /\ mac[d].inc = "CFP" /\ now >= misled[d] => sender.out # "CAP"
    BY DEF PeriodsAgree
  <2>1. d \in Nodes
    BY DEF Nodes
  <2>2. PICK x \in Nodes : x = heardFrom[d]
    BY <1>1, <2>1 DEF AirInv
  <2>3. PICK t \in Nat : t = heardAt[d]
    BY <1>1, <2>1 DEF SearchInv
  <2>4. PICK b \in Nat : b = mac[x].bcnStart
    BY <1>1, StartTimes
  <2>5. PeriodOk(d) /\ Agrees(d) /\ CapOk(x) /\ misled \in [Nodes -> Nat]
    BY <1>1, <2>1 DEF PeriodsInv, AgreeInv, CapInv
  <2>6. ASSUME mac[d].inc = "CAP" PROVE \E e \in queue : e.at <= b + CapLen + Turnaround
    <3>1. PICK e \in queue : InTime(e) /\ e.node = d /\ e.do = "StartCFP" /\ e.at = t + IncomingCap
      BY <2>3, <2>5, <2>6 DEF PeriodOk, CapEnds, CfpComes
    <3>2. b + BeaconDelay = t
      BY <2>2, <2>3, <2>4, <3>1 DEF InTime, BeaconEnd
    <3>3. e.at <= b + CapLen + Turnaround
      BY <3>1, <3>2, Lengths
    <3> QED
      BY <3>3
  <2>7. ASSUME mac[d].inc = "CFP", now >= misled[d], mac[x].out = "CAP" PROVE FALSE
    <3>1. HasCap(x) /\ now >= b + BeaconDelay
      BY <2>4, <2>5, <2>7 DEF CapOk, BeaconEnd
    <3>2. PICK e \in queue : e.at = b + CapLen
      BY <2>4, <2>5, <2>7 DEF CapOk, CfpFollows
    <3>3. now \in Nat
      BY <1>1, Durations DEF BeaconInv, TypeOK
    <3>4. \A f \in queue : f.at \in Nat /\ now < f.at
      BY <1>1, Running DEF Settled
    <3>5. ~StrayEnds(d)
      <4>1. misled[d] \in Nat
        BY <2>1, <2>5
      <4> QED
        BY <2>7, <3>3, <3>4, <4>1 DEF StrayEnds
    <3>6. now >= t + IncomingCap
      BY <2>2, <2>3, <2>5, <2>7, <3>1, <3>5 DEF Agrees, CfpOk
    <3>7. mac[d].known /\ \E f \in queue : f.at <= t + SD - BeaconLen
      BY <2>3, <2>5, <2>7, <3>5 DEF PeriodOk, CfpIsOver, CfpEnds
    <3>8. PICK f \in queue : f.at <= t + SD - BeaconLen
      BY <3>7
    <3>9. e.at \in Nat /\ f.at \in Nat /\ now < e.at /\ now < f.at
      BY <3>4
    <3>10. b + BeaconDelay = t \/ b + BeaconDelay >= t + BI
      BY <1>1, <2>1, <2>2, <2>3, <2>4, <3>7 DEF AirInv, Heard, LastHeard, BeaconEnd
    <3>11. CASE b + BeaconDelay = t
      BY <3>2, <3>3, <3>6, <3>9, <3>11, Lengths
    <3>12. CASE b + BeaconDelay >= t + BI
      BY <3>1, <3>3, <3>8, <3>9, <3>12, Lengths
    <3> QED
      BY <3>10, <3>11, <3>12
  <2> QED
    BY <2>2, <2>4, <2>6, <2>7
<1>2. Spec /\ []DelayIsPositive =>
        [](BeaconInv /\ SenderInv /\ SearchInv /\ AirInv /\ PeriodsInv /\ CapInv /\ AgreeInv)
  BY DsmeInvariant, DsmeSenders, SearchInvariant, AirInvariant, PeriodInvariant, CapInvariant,
     AgreeInvariant, PTL
<1> QED
  BY <1>1, <1>2, PTL

-----------------------------------------------------------------------------
(* A PAN with one coordinator *)

\* What is asked of the scripts and of the higher layer of such a PAN.  If the
\* beacon interval were one superframe, the second part of a CFP that m_firstCFP,
\* set by chance at the start, gives a coordinator would end after its next
\* beacon was due (lr-wpan-mac.cc:1126-1141).
WellConfigured ==
  /\ StartsOnce /\ PanStarts /\ OneCoordinator /\ Disciplined
  /\ BeaconDelay < GackDelay /\ BI > SD
  /\ \A c \in Coords : SdIndex[c] % NumSuperframes # 0

\* A PAN coordinator, one coordinator and any number of devices that are
\* configured like this keep all of the properties above whatever is lost: no
\* event is ever scheduled for the past, so nothing is assumed about behaviours.
THEOREM DsmeWellConfigured ==
  ASSUME WellConfigured
  PROVE  Spec => /\ [](/\ DelayIsPositive /\ BeaconFindsIdle /\ OneGtsAtATime
                       /\ DeafOnlyAfterLastSlot /\ SameHop /\ GackHeard /\ PeriodsAgree
                       /\ SuperframeIdxTracks /\ LostCount /\ LossInTime)
                 /\ LossMeansMisses
<1>1. /\ StartsOnce /\ PanStarts /\ OneCoordinator /\ Disciplined
      /\ BeaconDelay < GackDelay /\ BI > SD
  BY DEF WellConfigured
<1>2. Spec => []DelayIsPositive
  BY <1>1, DsmeDelays
<1>3. Spec /\ []DelayIsPositive => []BeaconFindsIdle
  BY <1>1, DsmeBeaconFindsIdle
<1>4. Spec /\ []DelayIsPositive => []OneGtsAtATime
  BY <1>1, DsmeOneGtsAtATime
<1>5. Spec /\ []DelayIsPositive => []DeafOnlyAfterLastSlot
  BY <1>1, DsmeDeafOnlyAfterLastSlot
<1>6. Spec /\ []DelayIsPositive => []SameHop
  BY <1>1, DsmeSameHop
<1>7. Spec /\ []DelayIsPositive => []GackHeard
  BY <1>1, DsmeGackHeard
<1>8. Spec /\ []DelayIsPositive => [](CapFollows => PeriodsAgree)
  BY <1>1, DsmePeriodsAgree
<1>9. CapFollows
  BY DEF WellConfigured, CapFollows
<1>10. Spec /\ []DelayIsPositive => []SuperframeIdxTracks
  BY <1>1, DsmeSuperframeIdx
<1>11. Spec /\ []DelayIsPositive => []LostCount
  BY <1>1, DsmeLostCount
<1>12. Spec => []LossInTime
  BY <1>1, DsmeLossInTime
<1>13. Spec /\ []DelayIsPositive => LossMeansMisses
  BY <1>1, DsmeLossMeansMisses
<1> QED
  BY <1>2, <1>3, <1>4, <1>5, <1>6, <1>7, <1>8, <1>9, <1>10, <1>11, <1>12, <1>13, PTL
=============================================================================
