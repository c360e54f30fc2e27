------------------------ MODULE DsmeSuperframeProofs ------------------------
(***************************************************************************)
(* TLAPS proofs about DsmeSuperframe: for any number of nodes, any tables, *)
(* durations and losses, beacons and GTSs stay in their places.  None of   *)
(* this depends on the order of events: every event is on its grid from    *)
(* the moment it is scheduled.                                             *)
(***************************************************************************)
EXTENDS DsmeSuperframe, FiniteSetTheorems, SequenceTheorems, TLAPS

\* Times r after a multiple of period.
OnGrid(t, period, r) == \E k \in Nat : t = k * period + r

\* The start of a node's beacons in the beacon interval.
BeaconSlot(n) == IF n = PanC THEN 0 ELSE SdIndex[n] * SD

-----------------------------------------------------------------------------
(* The invariant *)

GtsHandlers == {"StartGTS", "EndGTS", "SendGack", "GackSent"}
\* The events of a superframe that its own beacon has begun.
OwnPeriods == {"StartTx", "EndTx", "StartCAP", "StartCFP", "StartRemainingPeriod"}

EventTypes(e) ==
  /\ e.at \in Nat /\ e.node \in Nodes
  /\ e.do \in GtsHandlers => e.gts \in DOMAIN act[e.node]
  /\ e.do = "EndRx" => e.arg \in Nodes
  /\ e.do \in {"StartTx", "EndTx"} => e.arg = "OUT"
  /\ e.do = "StartRequest" => e.node \notin Devices /\ e.at = 0

\* A beacon, and the beacon from which the handlers of a period compute the
\* next one, are in the slot of their sender.
EventInSlot(e) ==
  /\ e.do = "SendBeacon" => e.node \notin Devices /\ OnGrid(e.at, BI, BeaconSlot(e.node))
  /\ e.do \in OwnPeriods /\ e.arg = "OUT" =>
       e.node \notin Devices /\ OnGrid(mac[e.node].bcnStart, BI, BeaconSlot(e.node))

\* The time by which a node's GTSs are late in their cells.
Lateness(n) == IF n \in Devices THEN BeaconDelay ELSE 0

\* A coordinator whose table is complete from the start.
Complete(n) == \A late \in LateEntries : late.node # n

OfSender(e) == e.do = "SendBeacon" \/ (e.do \in OwnPeriods /\ e.arg = "OUT")

\* The PAN coordinator's beacons, from which devices count their GTSs, and the
\* GTSs themselves.  A coordinator that sends beacons has its GTSs scheduled.
EventInCell(e) ==
  /\ e.do = "StartTx" /\ e.node = PanC => OnGrid(e.at, BI, Turnaround)
  /\ e.do = "EndRx" /\ e.arg = PanC => OnGrid(e.at, BI, BeaconDelay)
  /\ e.do = "StartGTS" =>
       /\ e.node # PanC
       /\ e.node \in Devices \/ Complete(e.node) =>
            OnGrid(e.at, MultiLen, Lateness(e.node) + GtsOffset(act[e.node][e.gts]))

EventOfSender(e) ==
  OfSender(e) /\ e.node \in Coords /\ Complete(e.node) =>
    mac[e.node].allocated = DOMAIN act[e.node]

EventInv(e) == EventTypes(e) /\ EventInSlot(e) /\ EventInCell(e) /\ EventOfSender(e)

\* What a coordinator knows of the beacons that it counts its own from.
MacOk(n) ==
  /\ mac[n].sendBcn => n \in Coords /\ (Complete(n) => mac[n].allocated = DOMAIN act[n])
  /\ OnGrid(mac[n].parentStart, BI, 0)
  /\ n = PanC => OnGrid(mac[n].bcnStart, BI, 0)

BeaconInv ==
  /\ TypeOK
  /\ \A e \in queue : EventInv(e)
  /\ \A n \in Nodes : MacOk(n)

-----------------------------------------------------------------------------
(* The simulator's queue *)

\* The same event, whatever its place in the queue.
Like(f, e) ==
  /\ f.at = e.at /\ f.node = e.node /\ f.do = e.do
  /\ f.arg = e.arg /\ f.gts = e.gts

Items(es) == {es[k] : k \in DOMAIN es}

\* What is in the queue was there, or is one of the new events.
LEMMA Scheduled ==
  ASSUME NEW q, NEW es, NEW f \in ScheduleAll(q, es)
  PROVE  f \in q \/ \E e \in Items(es) : Like(f, e)
BY DEF ScheduleAll, Numbered, Like, Items

LEMMA ItemsOfLists ==
  /\ Items(<<>>) = {}
  /\ \A a : Items(<<a>>) = {a}
  /\ \A a, b : Items(<<a, b>>) = {a, b}
<1>1. Items(<<>>) = {}
  BY DEF Items
<1>2. ASSUME NEW a PROVE Items(<<a>>) = {a}
  BY DEF Items
<1>3. ASSUME NEW a, NEW b PROVE Items(<<a, b>>) = {a, b}
  <2>1. DOMAIN <<a, b>> = 1..2 /\ <<a, b>>[1] = a /\ <<a, b>>[2] = b
    OBVIOUS
  <2> QED
    BY <2>1 DEF Items
<1> QED
  BY <1>1, <1>2, <1>3

LEMMA ItemsOfConcat ==
  ASSUME NEW S, NEW a \in Seq(S), NEW b \in Seq(S)
  PROVE  Items(a \o b) = Items(a) \cup Items(b)
<1>1. /\ a \o b \in Seq(S) /\ Len(a \o b) = Len(a) + Len(b)
      /\ \A i \in 1..Len(a) : (a \o b)[i] = a[i]
      /\ \A i \in 1..Len(b) : (a \o b)[Len(a) + i] = b[i]
  BY ConcatProperties
<1>2. ASSUME NEW i \in 1..Len(a \o b) PROVE (a \o b)[i] \in Items(a) \cup Items(b)
  <2>1. CASE i <= Len(a)
    BY <1>1, <2>1 DEF Items
  <2>2. CASE i > Len(a)
    <3>1. i - Len(a) \in 1..Len(b) /\ i = Len(a) + (i - Len(a))
      BY <1>1, <2>2
    <3> QED
      BY <1>1, <3>1 DEF Items
  <2> QED
    BY <2>1, <2>2
<1>3. ASSUME NEW i \in 1..Len(a) PROVE a[i] \in Items(a \o b)
  BY <1>1 DEF Items
<1>4. ASSUME NEW i \in 1..Len(b) PROVE b[i] \in Items(a \o b)
  <2>1. Len(a) + i \in 1..Len(a \o b)
    BY <1>1
  <2> QED
    BY <1>1, <2>1 DEF Items
<1>5. DOMAIN a = 1..Len(a) /\ DOMAIN b = 1..Len(b) /\ DOMAIN (a \o b) = 1..Len(a \o b)
  BY <1>1
<1> QED
  BY <1>2, <1>3, <1>4, <1>5 DEF Items

-----------------------------------------------------------------------------
(* Durations and grids *)

LEMMA Product ==
  ASSUME NEW a \in Nat, NEW b \in Nat, a > 0
  PROVE  a * b \in Nat /\ a * b >= b
<1>1. a * b \in Nat
  OBVIOUS
<1>2. a = (a - 1) + 1 /\ a - 1 \in Nat
  OBVIOUS
<1>3. a * b = (a - 1) * b + b
  BY <1>2
<1>4. (a - 1) * b \in Nat
  BY <1>2
<1> QED
  BY <1>1, <1>3, <1>4

LEMMA Durations ==
  /\ {Slot, MultiLen, BI, CapLen, BeaconDelay, IncomingCap, EndGtsTime, GackTime, NextSearch,
      SD, NumSuperframes, NumMultis, NumChannels, Base, Second, Turnaround, BeaconLen,
      GackDelay, GackLen, EndEarly, StopTime} \subseteq Nat
  /\ SD > 0 /\ MultiLen >= SD /\ BI >= MultiLen
  /\ \A b \in BOOLEAN : SearchLen(b) \in Nat
  /\ BI = (NumSuperframes * NumMultis) * SD
<1>1. /\ {SD, NumSuperframes, NumMultis, NumChannels, Base, Second, Turnaround, BeaconLen,
          GackDelay, GackLen, EndEarly, StopTime} \subseteq Nat
      /\ SD > 0 /\ NumSuperframes > 0 /\ NumMultis > 0 /\ Second > 0
      /\ EndEarly < Slot /\ BeaconDelay < Slot
      /\ BeaconDelay = Turnaround + BeaconLen
  BY DsmeDurations DEF BeaconDelay
<1>2. Slot \in Nat
  BY <1>1 DEF Slot
<1>3. /\ CapLen \in Nat /\ BeaconDelay \in Nat /\ IncomingCap \in Nat /\ EndGtsTime \in Nat
      /\ GackTime \in Nat
  BY <1>1, <1>2 DEF CapLen, FnlCapSlot, IncomingCap, EndGtsTime, GackTime
<1>4. MultiLen \in Nat /\ MultiLen >= SD
  BY <1>1, Product DEF MultiLen
<1>5. BI \in Nat /\ BI >= MultiLen
  BY <1>1, <1>4, Product DEF BI
<1>6. NextSearch \in Nat
  <2>1. (BI + Base) \div Second \in Nat
    BY <1>1, <1>5
  <2> QED
    BY <1>1, <2>1 DEF NextSearch
<1>7. \A b \in BOOLEAN : SearchLen(b) \in Nat
  <2>1. 2^15 + 1 \in Nat
    OBVIOUS
  <2> QED
    BY <1>1, <1>5, <2>1 DEF SearchLen
<1>8. BI = (NumSuperframes * NumMultis) * SD
  BY <1>1 DEF BI, MultiLen
<1> QED
  BY <1>1, <1>2, <1>3, <1>4, <1>5, <1>6, <1>7, <1>8

\* One period later is on the same grid.
LEMMA GridStep ==
  ASSUME NEW t, NEW p \in Nat, NEW r \in Nat, OnGrid(t, p, r)
  PROVE  OnGrid(t + p, p, r)
<1>1. PICK k \in Nat : t = k * p + r
  BY DEF OnGrid
<1>2. t + p = (k + 1) * p + r /\ k + 1 \in Nat
  BY <1>1
<1> QED
  BY <1>2 DEF OnGrid

LEMMA GridShift ==
  ASSUME NEW t, NEW p \in Nat, NEW r \in Nat, NEW d \in Nat, OnGrid(t, p, r)
  PROVE  OnGrid(t + d, p, r + d)
<1>1. PICK k \in Nat : t = k * p + r
  BY DEF OnGrid
<1>2. t + d = k * p + (r + d)
  BY <1>1
<1> QED
  BY <1>2 DEF OnGrid

LEMMA GridMod ==
  ASSUME NEW t, NEW p \in Nat, NEW r \in 0..p - 1, OnGrid(t, p, r)
  PROVE  t % p = r
<1>1. PICK k \in Nat : t = k * p + r
  BY DEF OnGrid
<1>2. p > 0
  OBVIOUS
<1> QED
  BY <1>1, <1>2

LEMMA BeaconSlotType ==
  ASSUME NEW n \in Nodes \ Devices
  PROVE  BeaconSlot(n) \in 0..BI - 1
<1>1. CASE n = PanC
  BY <1>1, Durations DEF BeaconSlot
<1>2. CASE n # PanC
  <2>1. n \in Coords
    BY <1>2 DEF Nodes
  <2>2. SdIndex[n] \in 1..NumSuperframes * NumMultis - 1
    BY <2>1, DsmeConstants
  <2>3. PICK m \in Nat : m = NumSuperframes * NumMultis
    BY Durations
  <2>4. SdIndex[n] \in Nat /\ m - SdIndex[n] \in Nat /\ m - SdIndex[n] > 0
    BY <2>2, <2>3
  <2>5. /\ SdIndex[n] * SD \in Nat
        /\ (m - SdIndex[n]) * SD \in Nat /\ (m - SdIndex[n]) * SD >= SD
    BY <2>4, Durations, Product
  <2>6. m * SD = SdIndex[n] * SD + (m - SdIndex[n]) * SD
    BY <2>3, <2>4, Durations
  <2>7. BI = m * SD
    BY <2>3, Durations
  <2> QED
    BY <1>2, <2>5, <2>6, <2>7, Durations DEF BeaconSlot
<1> QED
  BY <1>1, <1>2

-----------------------------------------------------------------------------
(* Steps *)

\* The MAC of a node after a step of its own.
MacNext(n, r) ==
  /\ r \in MacTypes
  /\ r.gts \in 0..Len(act[n]) /\ r.allocated \subseteq DOMAIN act[n]
  /\ r.allocated = mac[n].allocated \/ r.allocated = DOMAIN act[n]
  /\ r.sendBcn => n \in Coords /\ (Complete(n) => r.allocated = DOMAIN act[n])
  /\ OnGrid(r.parentStart, BI, 0)
  /\ r.bcnStart = mac[n].bcnStart \/ OnGrid(r.bcnStart, BI, BeaconSlot(n))

\* An event that a handler of node n, whose MAC becomes r, may schedule.
Admissible(e, n, r) ==
  /\ EventTypes(e) /\ EventInCell(e)
  /\ OfSender(e) =>
       e.node = n /\ (n \in Coords /\ Complete(n) => r.allocated = DOMAIN act[n])
  /\ e.do = "SendBeacon" => e.node \notin Devices /\ OnGrid(e.at, BI, BeaconSlot(e.node))
  /\ e.do \in OwnPeriods /\ e.arg = "OUT" =>
       e.node = n /\ n \notin Devices /\ OnGrid(r.bcnStart, BI, BeaconSlot(n))

\* A step of one node keeps the invariant when its MAC and its events are fit.
LEMMA NodeStep ==
  ASSUME BeaconInv, NEW ev \in queue, NEW r, NEW New,
         ev.at <= StopTime, now' = ev.at, UNCHANGED <<config, act>>,
         mac' = [mac EXCEPT ![ev.node] = r], MacNext(ev.node, r),
         \A f \in queue' : f \in queue \/ \E e \in New : Like(f, e),
         \A e \in New : Admissible(e, ev.node, r),
         hearing' \subseteq Nodes, fresh' \subseteq joined', joined' \subseteq Nodes
  PROVE  BeaconInv'
<1> DEFINE n == ev.node
<1>1. n \in Nodes /\ ev.at \in Nat /\ mac \in [Nodes -> MacTypes] /\ StopTime \in Nat
  BY Durations DEF BeaconInv, EventInv, EventTypes, TypeOK
<1>2. mac' \in [Nodes -> MacTypes] /\ mac'[n] = r /\ \A m \in Nodes : m # n => mac'[m] = mac[m]
  BY <1>1 DEF MacNext
<1>3. \A m \in Nodes : MacOk(m)'
  <2> SUFFICES ASSUME NEW m \in Nodes PROVE MacOk(m)'
    OBVIOUS
  <2>1. CASE m # n
    BY <2>1, <1>2 DEF BeaconInv, MacOk
  <2>2. CASE m = n
    <3>1. PanC \in Nodes /\ BeaconSlot(PanC) = 0
      BY DEF Nodes, BeaconSlot
    <3>2. m = PanC => OnGrid(r.bcnStart, BI, 0)
      BY <2>2, <3>1 DEF BeaconInv, MacOk, MacNext
    <3> QED
      BY <2>2, <3>2, <1>2 DEF MacNext, MacOk
  <2> QED
    BY <2>1, <2>2
<1>4. ASSUME NEW e, EventInv(e) PROVE EventInv(e)'
  <2>1. EventTypes(e)'
    BY <1>4 DEF EventInv, EventTypes
  <2>2. OnGrid(mac[e.node].bcnStart, BI, BeaconSlot(e.node)) =>
          OnGrid(mac'[e.node].bcnStart, BI, BeaconSlot(e.node))
    BY <1>2, <1>4 DEF EventInv, EventTypes, MacNext
  <2>3. EventInSlot(e)'
    BY <1>4, <2>2 DEF EventInv, EventInSlot
  <2>4. EventInCell(e)'
    BY <1>4 DEF EventInv, EventInCell, GtsOffset, config
  <2>5. EventOfSender(e)'
    BY <1>2, <1>4 DEF EventInv, EventTypes, EventOfSender, MacNext
  <2> QED
    BY <2>1, <2>3, <2>4, <2>5 DEF EventInv
<1>5. ASSUME NEW f, NEW e \in New, Like(f, e) PROVE EventInv(f)'
  <2>1. Admissible(e, n, r)
    OBVIOUS
  <2>2. Admissible(f, n, r)
    BY <1>5, <2>1 DEF Like, Admissible, EventTypes, EventInCell, OfSender
  <2>3. EventTypes(f)'
    BY <2>2 DEF Admissible, EventTypes
  <2>4. EventInCell(f)'
    BY <2>2 DEF Admissible, EventInCell, GtsOffset, config
  <2>5. EventInSlot(f)' /\ EventOfSender(f)'
    BY <1>2, <2>2 DEF EventInSlot, EventOfSender, Admissible
  <2> QED
    BY <2>3, <2>4, <2>5 DEF EventInv
<1>6. \A f \in queue' : EventInv(f)'
  BY <1>4, <1>5 DEF BeaconInv
<1>7. TypeOK'
  <2>1. now' \in 0..StopTime
    BY <1>1
  <2>2. \A e \in queue' : e.at \in Nat /\ e.node \in Nodes
    BY <1>6 DEF EventInv, EventTypes
  <2>3. \A m \in Nodes : /\ mac'[m].gts \in 0..Len(act'[m])
                         /\ mac'[m].allocated \subseteq DOMAIN act'[m]
    BY <1>2 DEF MacNext, BeaconInv, TypeOK
  <2> QED
    BY <1>2, <2>1, <2>2, <2>3 DEF TypeOK, BeaconInv, config
<1> QED
  BY <1>3, <1>6, <1>7 DEF BeaconInv

\* The facts that every handler starts from.
LEMMA Running ==
  ASSUME BeaconInv, NEW ev \in queue
  PROVE  /\ EventTypes(ev) /\ EventInSlot(ev) /\ EventInCell(ev) /\ EventOfSender(ev)
         /\ ev.node \in Nodes /\ ev.at \in Nat
         /\ mac[ev.node] \in MacTypes /\ MacOk(ev.node)
         /\ MacNext(ev.node, mac[ev.node])
         /\ hearing \subseteq Nodes /\ fresh \subseteq joined /\ joined \subseteq Nodes
<1>1. /\ EventTypes(ev) /\ EventInSlot(ev) /\ EventInCell(ev) /\ EventOfSender(ev)
      /\ ev.node \in Nodes /\ ev.at \in Nat
  BY DEF BeaconInv, EventInv, EventTypes
<1> QED
  BY <1>1 DEF BeaconInv, TypeOK, MacOk, MacNext

\* Which events a handler leaves.
LEMMA ThenLeaves ==
  ASSUME NEW ev, NEW es, Then(ev, es)
  PROVE  \A f \in queue' : f \in queue \/ \E e \in Items(es) : Like(f, e)
BY Scheduled DEF Then

\* A list, followed by another under a condition.
LEMMA ListWhen ==
  ASSUME NEW S, NEW a \in Seq(S), NEW b \in Seq(S), NEW c
  PROVE  /\ When(c, b) \in Seq(S) /\ a \o When(c, b) \in Seq(S)
         /\ Items(When(c, b)) \subseteq Items(b)
         /\ Items(a \o When(c, b)) \subseteq Items(a) \cup Items(b)
<1>1. When(c, b) \in Seq(S) /\ Items(When(c, b)) \subseteq Items(b)
  <2>1. <<>> \in Seq(S)
    OBVIOUS
  <2>2. When(c, b) = b \/ When(c, b) = <<>>
    BY DEF When
  <2> QED
    BY <2>1, <2>2, ItemsOfLists
<1>2. a \o When(c, b) \in Seq(S)
  BY <1>1, ConcatProperties
<1> QED
  BY <1>1, <1>2, ItemsOfConcat

\* The lists that are written out.
LEMMA ShortLists ==
  ASSUME NEW S, NEW a \in S, NEW b \in S
  PROVE  <<a>> \in Seq(S) /\ <<a, b>> \in Seq(S)
OBVIOUS

-----------------------------------------------------------------------------
(* GTSs *)

LEMMA HopType ==
  ASSUME BeaconInv, NEW n \in Nodes, NEW i \in DOMAIN act[n]
  PROVE  Hop(n, act[n][i]) \in 11..NumChannels + 10
<1>1. act[n] \in Seq(Entries) /\ act[n][i] \in Entries
  BY DEF BeaconInv, TypeOK
<1>2. PICK e \in Entries : e = act[n][i]
  BY <1>1
<1>3. e.sf \in Nat /\ e.slot \in Nat /\ e.ofs \in Nat
  BY <1>2, Durations DEF Entries
<1>4. mac[n].bsn \in Nat
  <2>1. mac[n] \in MacTypes
    BY DEF BeaconInv, TypeOK
  <2> QED
    BY <2>1 DEF MacTypes
<1>5. NumChannels \in Nat /\ NumChannels > 0
  BY DsmeDurations
<1>6. ASSUME NEW slots \in Nat
      PROVE  (e.sf * slots + e.slot + e.ofs + mac[n].bsn) % NumChannels \in 0..NumChannels - 1
  <2>1. e.sf * slots \in Nat
    BY <1>3
  <2>2. e.sf * slots + e.slot + e.ofs + mac[n].bsn \in Nat
    BY <2>1, <1>3, <1>4
  <2> QED
    BY <1>5, <2>2
<1> QED
  BY <1>2, <1>5, <1>6 DEF Hop

LEMMA GtsOffsetType ==
  ASSUME NEW e \in Entries, capReduction \in BOOLEAN
  PROVE  GtsOffset(e) \in Nat
<1>1. e.sf \in Nat /\ e.slot \in Nat
  BY Durations DEF Entries
<1>2. e.sf * SD \in Nat /\ e.slot * Slot \in Nat
  BY <1>1, Durations
<1> QED
  BY <1>2, Durations DEF GtsOffset

LEMMA MacInGts ==
  ASSUME NEW m \in MacTypes, NEW c \in 11..NumChannels + 10, NEW b \in BOOLEAN, NEW i \in Nat
  PROVE  [m EXCEPT !.channel = c, !.state = "GTS", !.rxOn = b, !.gts = i] \in MacTypes
BY DEF MacTypes

LEMMA StartGtsInv ==
  ASSUME BeaconInv, NEW ev \in queue, StartGTS(ev)
  PROVE  BeaconInv'
<1> USE DEF Runs
<1>1. PICK n : n = ev.node
  OBVIOUS
<1>2. /\ n \in Nodes /\ ev.at \in Nat /\ mac[n] \in MacTypes /\ MacNext(n, mac[n])
      /\ hearing \subseteq Nodes /\ fresh \subseteq joined /\ joined \subseteq Nodes
      /\ ev.gts \in DOMAIN act[n] /\ EventInCell(ev)
  BY <1>1, Running DEF StartGTS, EventTypes, GtsHandlers
<1>3. PICK e : e = act[n][ev.gts]
  OBVIOUS
<1>4. act[n] \in Seq(Entries) /\ e \in Entries
  BY <1>2, <1>3 DEF BeaconInv, TypeOK
<1>5. PICK r : r = [mac[n] EXCEPT !.channel = Hop(n, e), !.state = "GTS", !.rxOn = e.rx,
                                  !.gts = ev.gts]
  OBVIOUS
<1>6. mac' = [mac EXCEPT ![n] = r]
  BY <1>1, <1>3, <1>5, <1>2 DEF StartGTS
<1>7. MacNext(n, r)
  <2>1. Hop(n, e) \in 11..NumChannels + 10 /\ e.rx \in BOOLEAN
    BY <1>2, <1>3, <1>4, HopType DEF Entries
  <2>2. ev.gts \in Nat /\ ev.gts \in 0..Len(act[n])
    BY <1>2, <1>4
  <2>3. r \in MacTypes
    BY <1>2, <1>5, <2>1, <2>2, MacInGts
  <2>4. /\ r.gts = ev.gts /\ r.allocated = mac[n].allocated /\ r.sendBcn = mac[n].sendBcn
        /\ r.parentStart = mac[n].parentStart /\ r.bcnStart = mac[n].bcnStart
    BY <1>2, <1>5 DEF MacTypes
  <2> QED
    BY <1>2, <2>2, <2>3, <2>4 DEF MacNext
<1>8. PICK e1 : e1 = GtsEvent(ev.at + MultiLen, n, "StartGTS", ev.gts)
  OBVIOUS
<1>9. PICK e2 : e2 = GtsEvent(ev.at + EndGtsTime, n, "EndGTS", ev.gts)
  OBVIOUS
<1>10. PICK e3 : e3 = GtsEvent(ev.at + GackTime, n, "SendGack", ev.gts)
  OBVIOUS
<1>11. PICK es : es = <<e1, e2>> \o When(e.slot \in GackSlots /\ ~e.rx, <<e3>>)
  OBVIOUS
<1>12. Items(es) \subseteq {e1, e2, e3}
  <2>1. <<e1, e2>> \in Seq({e1, e2, e3}) /\ <<e3>> \in Seq({e1, e2, e3})
    BY ShortLists
  <2>2. Items(es) \subseteq Items(<<e1, e2>>) \cup Items(<<e3>>)
    BY <2>1, <1>11, ListWhen
  <2> QED
    BY <2>2, ItemsOfLists
<1>13. Then(ev, es)
  BY <1>1, <1>3, <1>8, <1>9, <1>10, <1>11 DEF StartGTS
<1>14. \A x \in {e1, e2, e3} : Admissible(x, n, r)
  <2>1. \A x \in {e1, e2, e3} : EventTypes(x)
    BY <1>2, <1>8, <1>9, <1>10, Durations DEF EventTypes, GtsEvent, GtsHandlers
  <2>2. /\ n # PanC
        /\ n \in Devices \/ Complete(n) => OnGrid(ev.at, MultiLen, Lateness(n) + GtsOffset(e))
    BY <1>1, <1>2, <1>3 DEF StartGTS, EventInCell
  <2>3. GtsOffset(e) \in Nat /\ Lateness(n) \in Nat
    BY <1>4, GtsOffsetType, Durations DEF BeaconInv, TypeOK, Lateness
  <2>4. n \in Devices \/ Complete(n) =>
          OnGrid(ev.at + MultiLen, MultiLen, Lateness(n) + GtsOffset(e))
    BY <2>2, <2>3, GridStep, Durations
  <2>5. \A x \in {e1, e2, e3} : EventInCell(x)
    BY <1>3, <1>8, <1>9, <1>10, <2>2, <2>4 DEF EventInCell, GtsEvent
  <2> QED
    BY <2>1, <2>5, <1>8, <1>9, <1>10 DEF Admissible, GtsEvent, OwnPeriods, OfSender
<1>15. hearing' \subseteq Nodes /\ UNCHANGED <<fresh, joined>>
  BY <1>2 DEF StartGTS, Retune, history
<1>16. \A f \in queue' : f \in queue \/ \E x \in {e1, e2, e3} : Like(f, x)
  BY <1>12, <1>13, ThenLeaves
<1>17. ev.at <= StopTime /\ now' = ev.at /\ UNCHANGED <<config, act>>
  BY DEF StartGTS
<1>18. fresh' \subseteq joined' /\ joined' \subseteq Nodes
  BY <1>2, <1>15
<1>19. PICK New : New = {e1, e2, e3}
  OBVIOUS
<1>20. /\ \A f \in queue' : f \in queue \/ \E x \in New : Like(f, x)
       /\ \A x \in New : Admissible(x, ev.node, r)
  BY <1>1, <1>14, <1>16, <1>19
<1>21. mac' = [mac EXCEPT ![ev.node] = r] /\ MacNext(ev.node, r)
  BY <1>1, <1>6, <1>7
<1> QED
  BY <1>15, <1>17, <1>18, <1>20, <1>21, NodeStep

\* The same for a handler that schedules the list es.
LEMMA HandlerStep ==
  ASSUME BeaconInv, NEW ev \in queue, NEW r, NEW es, NEW handler,
         Runs(ev, handler), Then(ev, es), \A e \in Items(es) : Admissible(e, ev.node, r),
         mac' = [mac EXCEPT ![ev.node] = r], MacNext(ev.node, r),
         UNCHANGED <<config, act>>, hearing' \subseteq Nodes,
         fresh' \subseteq joined', joined' \subseteq Nodes
  PROVE  BeaconInv'
<1>1. PICK New : New = Items(es)
  OBVIOUS
<1>2. /\ \A f \in queue' : f \in queue \/ \E x \in New : Like(f, x)
      /\ \A x \in New : Admissible(x, ev.node, r)
  BY <1>1, ThenLeaves
<1>3. ev.at <= StopTime /\ now' = ev.at
  BY DEF Runs
<1> QED
  BY <1>2, <1>3, NodeStep

\* A MAC that changes nothing that concerns beacons and the table.
SameBeacons(n, r) ==
  /\ r.gts = mac[n].gts /\ r.allocated = mac[n].allocated /\ r.sendBcn = mac[n].sendBcn
  /\ r.parentStart = mac[n].parentStart /\ r.bcnStart = mac[n].bcnStart

\* Updates that leave the MAC in its type.
LEMMA MacUpdates ==
  ASSUME NEW m \in MacTypes
  PROVE  /\ [m EXCEPT !.state = "IDLE", !.rxOn = TRUE] \in MacTypes
         /\ \A i \in 0..NumSuperframes - 1, b \in BOOLEAN :
              [m EXCEPT !.idx = i, !.isFirst = b] \in MacTypes
         /\ [m EXCEPT !.out = "CFP", !.firstCFP = FALSE] \in MacTypes
         /\ [m EXCEPT !.inc = "CFP", !.incFirstCFP = FALSE] \in MacTypes
         /\ \A p \in Periods : [m EXCEPT !.out = p] \in MacTypes
         /\ \A p \in Periods : [m EXCEPT !.inc = p] \in MacTypes
         /\ [m EXCEPT !.channel = CapChannel, !.state = "IDLE", !.rxOn = TRUE] \in MacTypes
<1>1. [m EXCEPT !.state = "IDLE", !.rxOn = TRUE] \in MacTypes
  BY DEF MacTypes
<1>2. ASSUME NEW i \in 0..NumSuperframes - 1, NEW b \in BOOLEAN
      PROVE  [m EXCEPT !.idx = i, !.isFirst = b] \in MacTypes
  BY DEF MacTypes
<1>3. ASSUME NEW p \in Periods, NEW b \in BOOLEAN
      PROVE  /\ [m EXCEPT !.out = p, !.firstCFP = b] \in MacTypes
             /\ [m EXCEPT !.inc = p, !.incFirstCFP = b] \in MacTypes
  <2>1. [m EXCEPT !.out = p, !.firstCFP = b] \in MacTypes
    BY DEF MacTypes
  <2>2. [m EXCEPT !.inc = p, !.incFirstCFP = b] \in MacTypes
    BY DEF MacTypes
  <2> QED
    BY <2>1, <2>2
<1>4. ASSUME NEW p \in Periods
      PROVE  [m EXCEPT !.out = p] \in MacTypes /\ [m EXCEPT !.inc = p] \in MacTypes
  BY DEF MacTypes
<1>5. "CFP" \in Periods
  BY DEF Periods
<1>6. /\ [m EXCEPT !.out = "CFP", !.firstCFP = FALSE] \in MacTypes
      /\ [m EXCEPT !.inc = "CFP", !.incFirstCFP = FALSE] \in MacTypes
  BY <1>3, <1>5
<1>7. [m EXCEPT !.channel = CapChannel, !.state = "IDLE", !.rxOn = TRUE] \in MacTypes
  BY DEF MacTypes
<1> QED
  BY <1>1, <1>2, <1>4, <1>6, <1>7

LEMMA MacKept ==
  ASSUME BeaconInv, NEW n \in Nodes, NEW r \in MacTypes, SameBeacons(n, r)
  PROVE  MacNext(n, r)
BY DEF BeaconInv, TypeOK, MacOk, MacNext, SameBeacons

LEMMA GtsInv ==
  ASSUME BeaconInv, NEW ev \in queue, EndGTS(ev) \/ SendGack(ev) \/ GackSent(ev)
  PROVE  BeaconInv'
<1>1. PICK n : n = ev.node
  OBVIOUS
<1>2. /\ n \in Nodes /\ ev.at \in Nat /\ mac[n] \in MacTypes
      /\ EventTypes(ev) /\ EventInSlot(ev) /\ EventInCell(ev) /\ EventOfSender(ev)
      /\ MacOk(n)
      /\ hearing \subseteq Nodes /\ fresh \subseteq joined /\ joined \subseteq Nodes
  BY <1>1, Running
<1>3. CASE EndGTS(ev)
  <2>1. PICK r : r = [mac[n] EXCEPT !.channel = CapChannel, !.state = "IDLE", !.rxOn = TRUE]
    OBVIOUS
  <2>2. mac' = [mac EXCEPT ![ev.node] = r]
    BY <1>1, <1>2, <1>3, <2>1 DEF EndGTS
  <2>3. r \in MacTypes
    BY <1>2, <2>1, MacUpdates
  <2>4. SameBeacons(n, r)
    BY <1>2, <2>1 DEF MacTypes, SameBeacons
  <2>5. MacNext(ev.node, r)
    BY <1>1, <1>2, <2>3, <2>4, MacKept
  <2>6. /\ hearing' \subseteq Nodes /\ fresh' \subseteq joined' /\ joined' \subseteq Nodes
        /\ UNCHANGED <<config, act>> /\ Runs(ev, "EndGTS") /\ Then(ev, <<>>)
    BY <1>1, <1>2, <1>3 DEF EndGTS, Runs, Retune, history
  <2>7. \A e \in Items(<<>>) : Admissible(e, ev.node, r)
    BY ItemsOfLists
  <2> QED
    BY <2>2, <2>5, <2>6, <2>7, HandlerStep
<1>4. CASE SendGack(ev)
  <2>1. PICK r : r = [mac[n] EXCEPT !.state = "GTS_SENDING"]
    OBVIOUS
  <2>2. mac' = [mac EXCEPT ![ev.node] = r]
    BY <1>1, <1>2, <1>4, <2>1 DEF SendGack
  <2>3. r \in MacTypes
    BY <1>2, <2>1 DEF MacTypes
  <2>4. SameBeacons(n, r)
    BY <1>2, <2>1 DEF MacTypes, SameBeacons
  <2>5. MacNext(ev.node, r)
    BY <1>1, <1>2, <2>3, <2>4, MacKept
  <2>6. PICK e1 : e1 = GtsEvent(ev.at + GackLen, n, "GackSent", ev.gts)
    OBVIOUS
  <2>7. /\ hearing' \subseteq Nodes /\ fresh' \subseteq joined' /\ joined' \subseteq Nodes
        /\ UNCHANGED <<config, act>> /\ Runs(ev, "SendGack") /\ Then(ev, <<e1>>)
    BY <1>1, <1>2, <1>4, <2>6 DEF SendGack, Runs, history
  <2>8. Admissible(e1, ev.node, r)
    BY <1>1, <1>2, <1>4, <2>4, <2>6, <2>7, Durations
       DEF Admissible, EventTypes, EventInSlot, EventInCell, EventOfSender, Event, GtsEvent,
           GtsHandlers, OfSender, OwnPeriods, Runs, MacTypes, SameBeacons
  <2>9. \A e \in Items(<<e1>>) : Admissible(e, ev.node, r)
    BY <2>8, ItemsOfLists
  <2> QED
    BY <2>2, <2>5, <2>7, <2>9, HandlerStep
<1>5. CASE GackSent(ev)
  <2>1. PICK r : r = [mac[n] EXCEPT !.state = "GTS"]
    OBVIOUS
  <2>2. mac' = [mac EXCEPT ![ev.node] = r]
    BY <1>1, <1>2, <1>5, <2>1 DEF GackSent
  <2>3. r \in MacTypes
    BY <1>2, <2>1 DEF MacTypes
  <2>4. SameBeacons(n, r)
    BY <1>2, <2>1 DEF MacTypes, SameBeacons
  <2>5. MacNext(ev.node, r)
    BY <1>1, <1>2, <2>3, <2>4, MacKept
  <2>6. /\ hearing' \subseteq Nodes /\ fresh' \subseteq joined' /\ joined' \subseteq Nodes
        /\ UNCHANGED <<config, act>> /\ Runs(ev, "GackSent") /\ Then(ev, <<>>)
    BY <1>1, <1>2, <1>5 DEF GackSent, Runs, history
  <2>7. \A e \in Items(<<>>) : Admissible(e, ev.node, r)
    BY ItemsOfLists
  <2> QED
    BY <2>2, <2>5, <2>6, <2>7, HandlerStep
<1> QED
  BY <1>3, <1>4, <1>5

-----------------------------------------------------------------------------
(* Periods *)

LEMMA PeriodInv ==
  ASSUME BeaconInv, NEW ev \in queue, StartCAP(ev) \/ AwaitBeacon(ev) \/ StartSuperframe(ev) \/ SetIdle(ev)
  PROVE  BeaconInv'
<1>1. PICK n : n = ev.node
  OBVIOUS
<1>2. /\ n \in Nodes /\ ev.at \in Nat /\ mac[n] \in MacTypes
      /\ EventTypes(ev) /\ EventInSlot(ev) /\ EventInCell(ev) /\ EventOfSender(ev)
      /\ MacOk(n)
      /\ hearing \subseteq Nodes /\ fresh \subseteq joined /\ joined \subseteq Nodes
  BY <1>1, Running
<1>3. CASE StartCAP(ev) /\ ev.arg = "OUT"
  <2>1. PICK r : r = [mac[n] EXCEPT !.out = "CAP"]
    OBVIOUS
  <2>2. mac' = [mac EXCEPT ![ev.node] = r]
    BY <1>1, <1>2, <1>3, <2>1 DEF StartCAP
  <2>3. r \in MacTypes
    BY <1>2, <2>1 DEF MacTypes, Periods
  <2>4. SameBeacons(n, r)
    BY <1>2, <2>1 DEF MacTypes, SameBeacons
  <2>5. MacNext(ev.node, r)
    BY <1>1, <1>2, <2>3, <2>4, MacKept
  <2>6. PICK e1 : e1 = Event(mac[n].bcnStart + CapLen, n, "StartCFP", "OUT")
    OBVIOUS
  <2>7. /\ hearing' \subseteq Nodes /\ fresh' \subseteq joined' /\ joined' \subseteq Nodes
        /\ UNCHANGED <<config, act>> /\ Runs(ev, "StartCAP") /\ Then(ev, <<e1>>)
    BY <1>1, <1>2, <1>3, <2>6 DEF StartCAP, Runs, history
  <2>8. Admissible(e1, ev.node, r)
    BY <1>1, <1>2, <1>3, <2>4, <2>6, <2>7, Durations
       DEF Admissible, EventTypes, EventInSlot, EventInCell, EventOfSender, Event, GtsEvent,
           GtsHandlers, OfSender, OwnPeriods, Runs, MacTypes, SameBeacons
  <2>9. \A e \in Items(<<e1>>) : Admissible(e, ev.node, r)
    BY <2>8, ItemsOfLists
  <2> QED
    BY <2>2, <2>5, <2>7, <2>9, HandlerStep
<1>4. CASE StartCAP(ev) /\ ev.arg # "OUT"
  <2>1. PICK r : r = [mac[n] EXCEPT !.inc = "CAP"]
    OBVIOUS
  <2>2. mac' = [mac EXCEPT ![ev.node] = r]
    BY <1>1, <1>2, <1>4, <2>1 DEF StartCAP
  <2>3. r \in MacTypes
    BY <1>2, <2>1 DEF MacTypes, Periods
  <2>4. SameBeacons(n, r)
    BY <1>2, <2>1 DEF MacTypes, SameBeacons
  <2>5. MacNext(ev.node, r)
    BY <1>1, <1>2, <2>3, <2>4, MacKept
  <2>6. PICK e1 : e1 = Event(ev.at + IncomingCap, n, "StartCFP", "IN")
    OBVIOUS
  <2>7. /\ hearing' \subseteq Nodes /\ fresh' \subseteq joined' /\ joined' \subseteq Nodes
        /\ UNCHANGED <<config, act>> /\ Runs(ev, "StartCAP") /\ Then(ev, <<e1>>)
    BY <1>1, <1>2, <1>4, <2>6 DEF StartCAP, Runs, history
  <2>8. Admissible(e1, ev.node, r)
    BY <1>1, <1>2, <1>4, <2>4, <2>6, <2>7, Durations
       DEF Admissible, EventTypes, EventInSlot, EventInCell, EventOfSender, Event, GtsEvent,
           GtsHandlers, OfSender, OwnPeriods, Runs, MacTypes, SameBeacons
  <2>9. \A e \in Items(<<e1>>) : Admissible(e, ev.node, r)
    BY <2>8, ItemsOfLists
  <2> QED
    BY <2>2, <2>5, <2>7, <2>9, HandlerStep
<1>5. CASE AwaitBeacon(ev)
  <2>1. PICK r : r = [mac[n] EXCEPT !.inc = "BEACON"]
    OBVIOUS
  <2>2. mac' = [mac EXCEPT ![ev.node] = r]
    BY <1>1, <1>2, <1>5, <2>1 DEF AwaitBeacon
  <2>3. r \in MacTypes
    BY <1>2, <2>1 DEF MacTypes, Periods
  <2>4. SameBeacons(n, r)
    BY <1>2, <2>1 DEF MacTypes, SameBeacons
  <2>5. MacNext(ev.node, r)
    BY <1>1, <1>2, <2>3, <2>4, MacKept
  <2>6. /\ hearing' \subseteq Nodes /\ fresh' \subseteq joined' /\ joined' \subseteq Nodes
        /\ UNCHANGED <<config, act>> /\ Runs(ev, "AwaitBeacon") /\ Then(ev, <<>>)
    BY <1>1, <1>2, <1>5 DEF AwaitBeacon, Runs, history
  <2>7. \A e \in Items(<<>>) : Admissible(e, ev.node, r)
    BY ItemsOfLists
  <2> QED
    BY <2>2, <2>5, <2>6, <2>7, HandlerStep
<1>6. CASE StartSuperframe(ev)
  <2>1. PICK i : i = IF IdxGrows(n) THEN mac[n].idx + 1 ELSE mac[n].idx
    OBVIOUS
  <2>2. PICK r : r = [mac[n] EXCEPT !.idx = i, !.isFirst = FALSE]
    OBVIOUS
  <2>3. mac' = [mac EXCEPT ![ev.node] = r]
    BY <1>1, <1>2, <1>6, <2>1, <2>2 DEF StartSuperframe
  <2>4. i \in 0..NumSuperframes - 1
    BY <1>2, <2>1, Durations DEF MacTypes, IdxGrows
  <2>5. r \in MacTypes
    BY <1>2, <2>2, <2>4, MacUpdates
  <2>6. SameBeacons(n, r)
    BY <1>2, <2>2 DEF MacTypes, SameBeacons
  <2>7. MacNext(ev.node, r)
    BY <1>1, <1>2, <2>5, <2>6, MacKept
  <2>8. PICK e1 : e1 = Event(ev.at + SD, n, "StartSuperframe", "OUT")
    OBVIOUS
  <2>9. /\ hearing' \subseteq Nodes /\ fresh' \subseteq joined' /\ joined' \subseteq Nodes
        /\ UNCHANGED <<config, act>> /\ Runs(ev, "StartSuperframe") /\ Then(ev, <<e1>>)
    BY <1>1, <1>2, <1>6, <2>8 DEF StartSuperframe, Runs, history
  <2>10. Admissible(e1, ev.node, r)
    BY <1>1, <1>2, <1>6, <2>6, <2>8, <2>9, Durations
       DEF Admissible, EventTypes, EventInSlot, EventInCell, EventOfSender, Event, GtsEvent,
           GtsHandlers, OfSender, OwnPeriods, Runs, MacTypes, SameBeacons
  <2>11. \A e \in Items(<<e1>>) : Admissible(e, ev.node, r)
    BY <2>10, ItemsOfLists
  <2> QED
    BY <2>3, <2>7, <2>9, <2>11, HandlerStep
<1>7. CASE SetIdle(ev)
  <2>1. PICK r : r = [mac[n] EXCEPT !.state = "IDLE", !.rxOn = TRUE]
    OBVIOUS
  <2>2. mac' = [mac EXCEPT ![ev.node] = r]
    BY <1>1, <1>2, <1>7, <2>1 DEF SetIdle
  <2>3. r \in MacTypes
    BY <1>2, <2>1, MacUpdates
  <2>4. SameBeacons(n, r)
    BY <1>2, <2>1 DEF MacTypes, SameBeacons
  <2>5. MacNext(ev.node, r)
    BY <1>1, <1>2, <2>3, <2>4, MacKept
  <2>6. /\ hearing' \subseteq Nodes /\ fresh' \subseteq joined' /\ joined' \subseteq Nodes
        /\ UNCHANGED <<config, act>> /\ Runs(ev, "SetIdle") /\ Then(ev, <<>>)
    BY <1>1, <1>2, <1>7 DEF SetIdle, Runs, history
  <2>7. \A e \in Items(<<>>) : Admissible(e, ev.node, r)
    BY ItemsOfLists
  <2> QED
    BY <2>2, <2>5, <2>6, <2>7, HandlerStep
<1> QED
  BY <1>3, <1>4, <1>5, <1>6, <1>7

LEMMA StartCfpInv ==
  ASSUME BeaconInv, NEW ev \in queue, StartCFP(ev)
  PROVE  BeaconInv'
<1>1. PICK n : n = ev.node
  OBVIOUS
<1>2. /\ n \in Nodes /\ ev.at \in Nat /\ mac[n] \in MacTypes
      /\ EventTypes(ev) /\ EventInSlot(ev) /\ EventInCell(ev) /\ EventOfSender(ev)
      /\ MacOk(n)
      /\ hearing \subseteq Nodes /\ fresh \subseteq joined /\ joined \subseteq Nodes
  BY <1>1, Running
<1>3. CASE StartCFP(ev) /\ ev.arg = "OUT" /\ mac[n].firstCFP
  <2>1. PICK r : r = [mac[n] EXCEPT !.out = "CFP", !.firstCFP = FALSE]
    OBVIOUS
  <2>2. mac' = [mac EXCEPT ![ev.node] = r]
    BY <1>1, <1>2, <1>3, <2>1 DEF StartCFP, Runs
  <2>3. r \in MacTypes
    BY <1>2, <2>1, MacUpdates
  <2>4. SameBeacons(n, r)
    BY <1>2, <2>1 DEF MacTypes, SameBeacons
  <2>5. MacNext(ev.node, r)
    BY <1>1, <1>2, <2>3, <2>4, MacKept
  <2>6. PICK e1 : e1 = Event(ev.at + CapLen - BeaconDelay, n, "StartCFP", "OUT")
    OBVIOUS
  <2>7. /\ hearing' \subseteq Nodes /\ fresh' \subseteq joined' /\ joined' \subseteq Nodes
        /\ UNCHANGED <<config, act>> /\ Runs(ev, "StartCFP") /\ Then(ev, <<e1>>)
    BY <1>1, <1>2, <1>3, <2>6 DEF StartCFP, Runs, history
  <2>10. ev.at + CapLen - BeaconDelay \in Nat
    <3>1. Slot \in Nat /\ CapLen \in Nat /\ BeaconDelay \in Nat /\ BeaconDelay < Slot
      BY Durations, DsmeDurations
    <3>2. CapLen >= Slot
      BY <3>1 DEF CapLen, FnlCapSlot
    <3> QED
      BY <1>2, <3>1, <3>2
  <2>8. Admissible(e1, ev.node, r)
    BY <1>1, <1>2, <1>3, <2>4, <2>6, <2>7, <2>10
       DEF Admissible, EventTypes, EventInSlot, EventInCell, EventOfSender, Event, GtsEvent,
           GtsHandlers, OfSender, OwnPeriods, Runs, MacTypes, SameBeacons
  <2>9. \A e \in Items(<<e1>>) : Admissible(e, ev.node, r)
    BY <2>8, ItemsOfLists
  <2> QED
    BY <2>2, <2>5, <2>7, <2>9, HandlerStep
<1>4. CASE StartCFP(ev) /\ ev.arg = "OUT" /\ ~mac[n].firstCFP
  <2>1. PICK r : r = [mac[n] EXCEPT !.out = "CFP", !.firstCFP = FALSE]
    OBVIOUS
  <2>2. mac' = [mac EXCEPT ![ev.node] = r]
    BY <1>1, <1>2, <1>4, <2>1 DEF StartCFP, Runs
  <2>3. r \in MacTypes
    BY <1>2, <2>1, MacUpdates
  <2>4. SameBeacons(n, r)
    BY <1>2, <2>1 DEF MacTypes, SameBeacons
  <2>5. MacNext(ev.node, r)
    BY <1>1, <1>2, <2>3, <2>4, MacKept
  <2>6. PICK e1 : e1 = Event(ev.at + CfpSlots * Slot, n, "StartRemainingPeriod", "OUT")
    OBVIOUS
  <2>7. /\ hearing' \subseteq Nodes /\ fresh' \subseteq joined' /\ joined' \subseteq Nodes
        /\ UNCHANGED <<config, act>> /\ Runs(ev, "StartCFP") /\ Then(ev, <<e1>>)
    BY <1>1, <1>2, <1>4, <2>6 DEF StartCFP, Runs, history
  <2>8. Admissible(e1, ev.node, r)
    BY <1>1, <1>2, <1>4, <2>4, <2>6, <2>7, Durations
       DEF Admissible, EventTypes, EventInSlot, EventInCell, EventOfSender, Event, GtsEvent,
           GtsHandlers, OfSender, OwnPeriods, Runs, MacTypes, SameBeacons, CfpSlots, FnlCapSlot
  <2>9. \A e \in Items(<<e1>>) : Admissible(e, ev.node, r)
    BY <2>8, ItemsOfLists
  <2> QED
    BY <2>2, <2>5, <2>7, <2>9, HandlerStep
<1>5. CASE StartCFP(ev) /\ ev.arg # "OUT" /\ mac[n].incFirstCFP
  <2>1. PICK r : r = [mac[n] EXCEPT !.inc = "CFP", !.incFirstCFP = FALSE]
    OBVIOUS
  <2>2. mac' = [mac EXCEPT ![ev.node] = r]
    BY <1>1, <1>2, <1>5, <2>1 DEF StartCFP, Runs
  <2>3. r \in MacTypes
    BY <1>2, <2>1, MacUpdates
  <2>4. SameBeacons(n, r)
    BY <1>2, <2>1 DEF MacTypes, SameBeacons
  <2>5. MacNext(ev.node, r)
    BY <1>1, <1>2, <2>3, <2>4, MacKept
  <2>6. PICK e1 : e1 = Event(ev.at + IncomingCap, n, "StartCFP", "IN")
    OBVIOUS
  <2>7. /\ hearing' \subseteq Nodes /\ fresh' \subseteq joined' /\ joined' \subseteq Nodes
        /\ UNCHANGED <<config, act>> /\ Runs(ev, "StartCFP") /\ Then(ev, <<e1>>)
    BY <1>1, <1>2, <1>5, <2>6 DEF StartCFP, Runs, history
  <2>8. Admissible(e1, ev.node, r)
    BY <1>1, <1>2, <1>5, <2>4, <2>6, <2>7, Durations
       DEF Admissible, EventTypes, EventInSlot, EventInCell, EventOfSender, Event, GtsEvent,
           GtsHandlers, OfSender, OwnPeriods, Runs, MacTypes, SameBeacons
  <2>9. \A e \in Items(<<e1>>) : Admissible(e, ev.node, r)
    BY <2>8, ItemsOfLists
  <2> QED
    BY <2>2, <2>5, <2>7, <2>9, HandlerStep
<1>6. CASE StartCFP(ev) /\ ev.arg # "OUT" /\ ~mac[n].incFirstCFP
  <2>1. PICK r : r = [mac[n] EXCEPT !.inc = "CFP", !.incFirstCFP = FALSE]
    OBVIOUS
  <2>2. mac' = [mac EXCEPT ![ev.node] = r]
    BY <1>1, <1>2, <1>6, <2>1 DEF StartCFP, Runs
  <2>3. r \in MacTypes
    BY <1>2, <2>1, MacUpdates
  <2>4. SameBeacons(n, r)
    BY <1>2, <2>1 DEF MacTypes, SameBeacons
  <2>5. MacNext(ev.node, r)
    BY <1>1, <1>2, <2>3, <2>4, MacKept
  <2>6. PICK e1 : e1 = Event(ev.at + CfpSlots * Slot, n, "StartRemainingPeriod", "IN")
    OBVIOUS
  <2>7. /\ hearing' \subseteq Nodes /\ fresh' \subseteq joined' /\ joined' \subseteq Nodes
        /\ UNCHANGED <<config, act>> /\ Runs(ev, "StartCFP") /\ Then(ev, <<e1>>)
    BY <1>1, <1>2, <1>6, <2>6 DEF StartCFP, Runs, history
  <2>8. Admissible(e1, ev.node, r)
    BY <1>1, <1>2, <1>6, <2>4, <2>6, <2>7, Durations
       DEF Admissible, EventTypes, EventInSlot, EventInCell, EventOfSender, Event, GtsEvent,
           GtsHandlers, OfSender, OwnPeriods, Runs, MacTypes, SameBeacons, CfpSlots, FnlCapSlot
  <2>9. \A e \in Items(<<e1>>) : Admissible(e, ev.node, r)
    BY <2>8, ItemsOfLists
  <2> QED
    BY <2>2, <2>5, <2>7, <2>9, HandlerStep
<1> QED
  BY <1>3, <1>4, <1>5, <1>6

LEMMA StartRemainingInv ==
  ASSUME BeaconInv, NEW ev \in queue, StartRemainingPeriod(ev)
  PROVE  BeaconInv'
<1>1. PICK n : n = ev.node
  OBVIOUS
<1>2. /\ n \in Nodes /\ ev.at \in Nat /\ mac[n] \in MacTypes
      /\ EventTypes(ev) /\ EventInSlot(ev) /\ EventInCell(ev) /\ EventOfSender(ev)
      /\ MacOk(n)
      /\ hearing \subseteq Nodes /\ fresh \subseteq joined /\ joined \subseteq Nodes
  BY <1>1, Running
<1>3. CASE StartRemainingPeriod(ev) /\ ev.arg = "OUT"
  <2>1. PICK next : next = NextBeacon(n, ev.at)
    OBVIOUS
  <2>2. PICK o : o = IF (next - ev.at) \div Second > 0 THEN "REMAINING" ELSE mac[n].out
    OBVIOUS
  <2>3. PICK r : r = [mac[n] EXCEPT !.out = o]
    OBVIOUS
  <2>4. mac' = [mac EXCEPT ![ev.node] = r]
    BY <1>1, <1>2, <1>3, <2>1, <2>2, <2>3 DEF StartRemainingPeriod, Runs
  <2>5. o \in Periods
    BY <1>2, <2>2 DEF MacTypes, Periods
  <2>6. r \in MacTypes
    BY <1>2, <2>3, <2>5, MacUpdates
  <2>7. SameBeacons(n, r)
    BY <1>2, <2>3 DEF MacTypes, SameBeacons
  <2>8. MacNext(ev.node, r)
    BY <1>1, <1>2, <2>6, <2>7, MacKept
  <2>9. PICK e1 : e1 = Event(next, n, "SendBeacon", "OUT")
    OBVIOUS
  <2>10. /\ hearing' \subseteq Nodes /\ fresh' \subseteq joined' /\ joined' \subseteq Nodes
        /\ UNCHANGED <<config, act>> /\ Runs(ev, "StartRemainingPeriod") /\ Then(ev, <<e1>>)
    BY <1>1, <1>2, <1>3, <2>1, <2>2, <2>9 DEF StartRemainingPeriod, Runs, history
  <2>11. Runs(ev, "StartRemainingPeriod")
    BY <2>10
  <2>12. n \notin Devices /\ OnGrid(mac[n].bcnStart, BI, BeaconSlot(n))
    BY <1>1, <1>2, <1>3, <2>11 DEF EventInSlot, OwnPeriods, Runs
  <2>13. next = mac[n].bcnStart + BI /\ next \in Nat
    BY <1>2, <2>1, <2>2, Durations DEF NextBeacon, MacTypes
  <2>14. BeaconSlot(n) \in Nat
    BY <1>2, <2>11, <2>12, <2>13, BeaconSlotType
  <2>15. OnGrid(next, BI, BeaconSlot(n))
    BY <2>11, <2>12, <2>13, <2>14, GridStep, Durations
  <2>16. Admissible(e1, ev.node, r)
    BY <1>1, <1>2, <1>3, <2>7, <2>9, <2>10, <2>11, <2>12, <2>13, <2>14, <2>15, Durations
       DEF Admissible, EventTypes, EventInSlot, EventInCell, EventOfSender, Event, GtsEvent,
           GtsHandlers, OfSender, OwnPeriods, Runs, MacTypes, SameBeacons
  <2>17. \A e \in Items(<<e1>>) : Admissible(e, ev.node, r)
    BY <2>16, ItemsOfLists
  <2> QED
    BY <2>4, <2>8, <2>10, <2>17, HandlerStep
<1>4. CASE StartRemainingPeriod(ev) /\ ev.arg # "OUT"
  <2>1. PICK o : o = IF BI > SD THEN "REMAINING" ELSE mac[n].inc
    OBVIOUS
  <2>2. PICK r : r = [mac[n] EXCEPT !.inc = o]
    OBVIOUS
  <2>3. mac' = [mac EXCEPT ![ev.node] = r]
    BY <1>1, <1>2, <1>4, <2>1, <2>2 DEF StartRemainingPeriod, Runs
  <2>4. o \in Periods
    BY <1>2, <2>1 DEF MacTypes, Periods
  <2>5. r \in MacTypes
    BY <1>2, <2>2, <2>4, MacUpdates
  <2>6. SameBeacons(n, r)
    BY <1>2, <2>2 DEF MacTypes, SameBeacons
  <2>7. MacNext(ev.node, r)
    BY <1>1, <1>2, <2>5, <2>6, MacKept
  <2>8. PICK e1 : e1 = Event(ev.at + BI - SD, n, "AwaitBeacon", "IN")
    OBVIOUS
  <2>9. /\ hearing' \subseteq Nodes /\ fresh' \subseteq joined' /\ joined' \subseteq Nodes
        /\ UNCHANGED <<config, act>> /\ Runs(ev, "StartRemainingPeriod") /\ Then(ev, <<e1>>)
    BY <1>1, <1>2, <1>4, <2>1, <2>8 DEF StartRemainingPeriod, Runs, history
  <2>10. Admissible(e1, ev.node, r)
    BY <1>1, <1>2, <1>4, <2>6, <2>8, <2>9, Durations
       DEF Admissible, EventTypes, EventInSlot, EventInCell, EventOfSender, Event, GtsEvent,
           GtsHandlers, OfSender, OwnPeriods, Runs, MacTypes, SameBeacons
  <2>11. \A e \in Items(<<e1>>) : Admissible(e, ev.node, r)
    BY <2>10, ItemsOfLists
  <2> QED
    BY <2>3, <2>7, <2>9, <2>11, HandlerStep
<1> QED
  BY <1>3, <1>4


LEMMA StartMultiInv ==
  ASSUME BeaconInv, NEW ev \in queue, StartMultisuperframe(ev)
  PROVE  BeaconInv'
<1>1. PICK n : n = ev.node
  OBVIOUS
<1>2. /\ n \in Nodes /\ ev.at \in Nat /\ mac[n] \in MacTypes
      /\ hearing \subseteq Nodes /\ fresh \subseteq joined /\ joined \subseteq Nodes
  BY <1>1, Running
<1>3. PICK r : r = [mac[n] EXCEPT !.idx = 0, !.isFirst = TRUE]
  OBVIOUS
<1>4. mac' = [mac EXCEPT ![ev.node] = r]
  BY <1>1, <1>2, <1>3 DEF StartMultisuperframe
<1>5. 0 \in 0..NumSuperframes - 1
  BY DsmeDurations
<1>6. r \in MacTypes
  BY <1>2, <1>3, <1>5, MacUpdates
<1>7. SameBeacons(n, r)
  BY <1>2, <1>3 DEF MacTypes, SameBeacons
<1>8. MacNext(ev.node, r)
  BY <1>1, <1>2, <1>6, <1>7, MacKept
<1>9. PICK e1 : e1 = Event(ev.at + MultiLen, n, "StartMultisuperframe", "OUT")
  OBVIOUS
<1>10. PICK e2 : e2 = Event(ev.at + SD, n, "StartSuperframe", "OUT")
  OBVIOUS
<1>11. PICK es : es = When(ev.arg = "OUT", <<e1>>) \o When(ev.at <= SD, <<e2>>)
  OBVIOUS
<1>12. Items(es) \subseteq {e1, e2}
  <2>1. <<e1>> \in Seq({e1, e2}) /\ <<e2>> \in Seq({e1, e2})
    BY ShortLists
  <2>2. PICK a \in Seq({e1, e2}) : a = When(ev.arg = "OUT", <<e1>>)
    BY <2>1, ListWhen
  <2>3. Items(a) \subseteq Items(<<e1>>)
    BY <2>1, <2>2, ListWhen
  <2>4. Items(es) \subseteq Items(a) \cup Items(<<e2>>)
    BY <2>1, <2>2, <1>11, ListWhen
  <2> QED
    BY <2>3, <2>4, ItemsOfLists
<1>13. /\ hearing' \subseteq Nodes /\ fresh' \subseteq joined' /\ joined' \subseteq Nodes
       /\ UNCHANGED <<config, act>> /\ Runs(ev, "StartMultisuperframe") /\ Then(ev, es)
  BY <1>1, <1>2, <1>9, <1>10, <1>11 DEF StartMultisuperframe, Runs, history
<1>14. Admissible(e1, ev.node, r) /\ Admissible(e2, ev.node, r)
  BY <1>2, <1>1, <1>9, <1>10, Durations
     DEF Admissible, EventTypes, EventInCell, Event, GtsHandlers, OfSender, OwnPeriods
<1>15. \A e \in Items(es) : Admissible(e, ev.node, r)
  BY <1>12, <1>14
<1> QED
  BY <1>4, <1>8, <1>13, <1>15, HandlerStep

-----------------------------------------------------------------------------
(* Beacons *)

LEMMA MacSending ==
  ASSUME NEW m \in MacTypes, NEW t \in 0..StopTime, NEW b \in 0..255
  PROVE  [m EXCEPT !.state = "SENDING", !.rxOn = FALSE, !.out = "BEACON", !.bcnStart = t,
                   !.bsn = b] \in MacTypes
<1>1. "BEACON" \in Periods
  BY DEF Periods
<1> QED
  BY <1>1 DEF MacTypes

LEMMA SendBeaconInv ==
  ASSUME BeaconInv, NEW ev \in queue, SendOneEnhancedBeacon(ev)
  PROVE  BeaconInv'
<1>1. PICK n : n = ev.node
  OBVIOUS
<1>2. /\ n \in Nodes /\ ev.at \in Nat /\ mac[n] \in MacTypes /\ MacNext(n, mac[n])
      /\ EventInSlot(ev) /\ EventOfSender(ev)
      /\ hearing \subseteq Nodes /\ fresh \subseteq joined /\ joined \subseteq Nodes
  BY <1>1, Running
<1>3. PICK b : b = IF n = PanC THEN (mac[n].bsn + 1) % 256 ELSE mac[n].bsn
  OBVIOUS
<1>4. PICK r : r = [mac[n] EXCEPT !.state = "SENDING", !.rxOn = FALSE, !.out = "BEACON",
                                  !.bcnStart = ev.at, !.bsn = b]
  OBVIOUS
<1>5. mac' = [mac EXCEPT ![ev.node] = r]
  BY <1>1, <1>2, <1>3, <1>4 DEF SendOneEnhancedBeacon, Runs
<1>6. n \notin Devices /\ OnGrid(ev.at, BI, BeaconSlot(n)) /\ ev.at \in 0..StopTime
  BY <1>1, <1>2, Durations DEF SendOneEnhancedBeacon, Runs, EventInSlot
<1>7. MacNext(ev.node, r)
  <2>1. b \in 0..255
    <3>1. mac[n].bsn \in 0..255
      BY <1>2 DEF MacTypes
    <3> QED
      BY <1>3, <3>1
  <2>2. r \in MacTypes
    BY <1>2, <1>4, <1>6, <2>1, MacSending
  <2>3. /\ r.gts = mac[n].gts /\ r.allocated = mac[n].allocated /\ r.sendBcn = mac[n].sendBcn
        /\ r.parentStart = mac[n].parentStart /\ r.bcnStart = ev.at
    BY <1>2, <1>4 DEF MacTypes
  <2> QED
    BY <1>1, <1>2, <1>6, <2>2, <2>3 DEF MacNext
<1>8. r.bcnStart = ev.at /\ r.allocated = mac[n].allocated
  BY <1>2, <1>4 DEF MacTypes
<1>9. PICK e1 : e1 = Event(ev.at + Turnaround, n, "StartTx", "OUT")
  OBVIOUS
<1>10. /\ hearing' \subseteq Nodes /\ fresh' \subseteq joined' /\ joined' \subseteq Nodes
       /\ UNCHANGED <<config, act>> /\ Runs(ev, "SendBeacon") /\ Then(ev, <<e1>>)
  BY <1>1, <1>2, <1>9 DEF SendOneEnhancedBeacon, Runs, history
<1>11. n = PanC => OnGrid(ev.at + Turnaround, BI, Turnaround)
  <2>1. n = PanC => OnGrid(ev.at, BI, 0)
    BY <1>6 DEF BeaconSlot
  <2> QED
    BY <2>1, GridShift, Durations
<1>12. n \in Coords /\ Complete(n) => r.allocated = DOMAIN act[n]
  BY <1>1, <1>2, <1>8, <1>10 DEF EventOfSender, OfSender, Runs
<1>13. Admissible(e1, ev.node, r)
  BY <1>1, <1>2, <1>6, <1>8, <1>9, <1>11, <1>12, Durations
     DEF Admissible, EventTypes, EventInCell, Event, GtsHandlers, OfSender, OwnPeriods
<1>14. \A e \in Items(<<e1>>) : Admissible(e, ev.node, r)
  BY <1>13, ItemsOfLists
<1> QED
  BY <1>5, <1>7, <1>10, <1>14, HandlerStep

\* A step that schedules several lists one after the other.
LEMMA ScheduledTwice ==
  ASSUME NEW q, NEW as, NEW bs, q \subseteq queue, NEW New,
         queue' = ScheduleAll(ScheduleAll(q, as), bs),
         Items(as) \subseteq New, Items(bs) \subseteq New
  PROVE  \A f \in queue' : f \in queue \/ \E e \in New : Like(f, e)
<1> SUFFICES ASSUME NEW f \in queue' PROVE f \in queue \/ \E e \in New : Like(f, e)
  OBVIOUS
<1>1. PICK p : p = ScheduleAll(q, as)
  OBVIOUS
<1>2. f \in p \/ \E e \in Items(bs) : Like(f, e)
  BY <1>1, Scheduled
<1>3. f \in p => f \in q \/ \E e \in Items(as) : Like(f, e)
  BY <1>1, Scheduled
<1> QED
  BY <1>2, <1>3

\* What ScheduleGts schedules at a time on the node's grid is in its cell.
GtsItems(n, t) ==
  {GtsEvent(t + GtsOffset(act[n][i]), n, "StartGTS", i) : i \in ToSchedule(n)}

LEMMA GtsItemsOf ==
  ASSUME NEW c, NEW n, NEW t
  PROVE  Items(When(c, ScheduleGts(n, t))) \subseteq GtsItems(n, t)
<1>1. Items(ScheduleGts(n, t)) \subseteq GtsItems(n, t)
  BY DEF Items, ScheduleGts, GtsItems
<1>2. CASE c
  BY <1>1, <1>2 DEF When
<1>3. CASE ~c
  BY <1>3, ItemsOfLists DEF When
<1> QED
  BY <1>2, <1>3

LEMMA GtsAdmissible ==
  ASSUME BeaconInv, NEW n \in Nodes, n # PanC, NEW t \in Nat, NEW r,
         n \in Devices \/ Complete(n) => OnGrid(t, MultiLen, Lateness(n)) \/ ToSchedule(n) = {}
  PROVE  \A e \in GtsItems(n, t) : Admissible(e, n, r)
<1> SUFFICES ASSUME NEW i \in ToSchedule(n)
             PROVE  Admissible(GtsEvent(t + GtsOffset(act[n][i]), n, "StartGTS", i), n, r)
  BY DEF GtsItems
<1>1. i \in DOMAIN act[n] /\ act[n] \in Seq(Entries) /\ act[n][i] \in Entries
  BY DEF ToSchedule, BeaconInv, TypeOK
<1>2. PICK o \in Nat : o = GtsOffset(act[n][i])
  BY <1>1, GtsOffsetType DEF BeaconInv, TypeOK
<1>3. Lateness(n) \in Nat
  BY Durations DEF Lateness
<1>4. n \in Devices \/ Complete(n) => OnGrid(t + o, MultiLen, Lateness(n) + o)
  BY <1>2, <1>3, GridShift, Durations
<1>5. PICK e : e = GtsEvent(t + o, n, "StartGTS", i)
  OBVIOUS
<1>6. EventTypes(e)
  BY <1>1, <1>2, <1>5 DEF EventTypes, GtsEvent
<1>7. EventInCell(e)
  BY <1>2, <1>4, <1>5 DEF EventInCell, GtsEvent
<1>8. Admissible(e, n, r)
  BY <1>5, <1>6, <1>7 DEF Admissible, GtsEvent, OfSender, OwnPeriods
<1> QED
  BY <1>2, <1>5, <1>8

LEMMA MacStarts ==
  ASSUME NEW m \in MacTypes, NEW i \in 0..NumSuperframes * NumMultis - 1, NEW a \in SUBSET Nat
  PROVE  [m EXCEPT !.sendBcn = TRUE, !.bitmapSd = i, !.allocated = a] \in MacTypes
BY DEF MacTypes

LEMMA StartRequestInv ==
  ASSUME BeaconInv, NEW ev \in queue, StartRequest(ev)
  PROVE  BeaconInv'
<1>1. PICK n : n = ev.node
  OBVIOUS
<1>2. /\ n \in Nodes /\ ev.at \in Nat /\ mac[n] \in MacTypes /\ MacNext(n, mac[n])
      /\ n \notin Devices /\ ev.at = 0
      /\ hearing \subseteq Nodes /\ fresh \subseteq joined /\ joined \subseteq Nodes
  BY <1>1, Running DEF EventTypes, StartRequest, Runs
<1>3. /\ hearing' \subseteq Nodes /\ fresh' \subseteq joined' /\ joined' \subseteq Nodes
      /\ UNCHANGED <<config, act>> /\ Runs(ev, "StartRequest")
  BY <1>2 DEF StartRequest, history
<1>4. OnGrid(0, BI, 0) /\ OnGrid(0, MultiLen, 0)
  <2>1. BI \in Nat /\ MultiLen \in Nat
    BY Durations
  <2>2. 0 = 0 * BI + 0 /\ 0 = 0 * MultiLen + 0
    BY <2>1
  <2> QED
    BY <2>2 DEF OnGrid
<1>5. CASE n = PanC
  <2>1. mac' = [mac EXCEPT ![ev.node] = mac[n]] /\ MacNext(ev.node, mac[n])
    BY <1>1, <1>2, <1>5 DEF StartRequest, BeaconInv, TypeOK
  <2>2. PICK e1 : e1 = Event(ev.at, n, "StartMultisuperframe", "OUT")
    OBVIOUS
  <2>3. PICK e2 : e2 = Event(ev.at, n, "SendBeacon", "OUT")
    OBVIOUS
  <2>4. Then(ev, <<e1, e2>>)
    BY <1>1, <1>5, <2>2, <2>3 DEF StartRequest, Runs
  <2>5. n \notin Coords /\ BeaconSlot(n) = 0
    BY <1>5, DsmeConstants DEF BeaconSlot
  <2>6. Admissible(e1, ev.node, mac[n]) /\ Admissible(e2, ev.node, mac[n])
    BY <1>1, <1>2, <1>4, <2>2, <2>3, <2>5
       DEF Admissible, EventTypes, EventInCell, Event, GtsHandlers, OfSender, OwnPeriods
  <2>7. \A e \in Items(<<e1, e2>>) : Admissible(e, ev.node, mac[n])
    BY <2>6, ItemsOfLists
  <2> QED
    BY <1>3, <2>1, <2>4, <2>7, HandlerStep
<1>6. CASE n # PanC
  <2>1. n \in Coords
    BY <1>2, <1>6 DEF Nodes
  <2>2. PICK r : r = [mac[n] EXCEPT !.sendBcn = TRUE, !.bitmapSd = SdIndex[n],
                                    !.allocated = DOMAIN act[n]]
    OBVIOUS
  <2>3. mac' = [mac EXCEPT ![ev.node] = r]
    BY <1>1, <1>2, <1>6, <2>2 DEF StartRequest
  <2>4. /\ r.gts = mac[n].gts /\ r.allocated = DOMAIN act[n]
        /\ r.parentStart = mac[n].parentStart /\ r.bcnStart = mac[n].bcnStart
    BY <1>2, <2>2 DEF MacTypes
  <2>5. r \in MacTypes
    <3>1. act[n] \in Seq(Entries)
      BY <1>2 DEF BeaconInv, TypeOK
    <3>2. DOMAIN act[n] \in SUBSET Nat
      BY <3>1
    <3>3. SdIndex[n] \in 0..NumSuperframes * NumMultis - 1
      BY <2>1, DsmeConstants
    <3> QED
      BY <1>2, <2>2, <3>2, <3>3, MacStarts
  <2>6. MacNext(ev.node, r)
    BY <1>1, <1>2, <2>1, <2>4, <2>5 DEF MacNext
  <2>7. PICK es : es = When(SchedulesGts(n, FALSE), ScheduleGts(n, ev.at))
    OBVIOUS
  <2>8. Then(ev, es)
    BY <1>1, <1>6, <2>7 DEF StartRequest, Runs
  <2>9. Lateness(n) = 0
    BY <1>2 DEF Lateness
  <2>10. \A e \in GtsItems(n, ev.at) : Admissible(e, n, r)
    BY <1>2, <1>4, <1>6, <2>9, GtsAdmissible
  <2>11. \A e \in Items(es) : Admissible(e, ev.node, r)
    BY <1>1, <2>7, <2>10, GtsItemsOf
  <2> QED
    BY <1>3, <2>3, <2>6, <2>8, <2>11, HandlerStep
<1> QED
  BY <1>5, <1>6

\* The nodes that hear the beacon, as a sequence.
LEMMA NodesInSeq ==
  ASSUME NEW S \in SUBSET Nodes
  PROVE  SetToSeq(S) \in Seq(S)
<1>1. IsFiniteSet(S)
  BY DsmeConstants, FS_Subset
<1>2. PICK k \in Nat : k = Cardinality(S) /\ ExistsBijection(1..k, S)
  BY <1>1, FS_CardinalityType
<1>3. \E f \in [1..k -> S] : IsInjective(f)
  BY <1>2 DEF ExistsBijection, Bijection, Injection
<1>4. SetToSeq(S) \in [1..k -> S]
  BY <1>2, <1>3 DEF SetToSeq
<1> QED
  BY <1>4

LEMMA BeaconEndsItems ==
  ASSUME NEW n, NEW S \in SUBSET Nodes, NEW t
  PROVE  Items(BeaconEnds(n, S, t)) \subseteq
           {Event(t, n, "EndTx", "OUT")} \cup {Event(t, m, "EndRx", n) : m \in S}
<1>1. PICK T : T = {Event(t, n, "EndTx", "OUT")} \cup {Event(t, m, "EndRx", n) : m \in S}
  OBVIOUS
<1>2. PICK nodes : nodes = SetToSeq(S) /\ nodes \in Seq(S)
  BY NodesInSeq
<1>3. PICK a : a = <<Event(t, n, "EndTx", "OUT")>>
  OBVIOUS
<1>4. PICK b : b = [k \in DOMAIN nodes |-> Event(t, nodes[k], "EndRx", n)]
  OBVIOUS
<1>5. a \in Seq(T)
  BY <1>1, <1>3
<1>6. b \in Seq(T)
  <2>1. DOMAIN nodes = 1..Len(nodes) /\ Len(nodes) \in Nat
    BY <1>2
  <2>2. \A k \in 1..Len(nodes) : Event(t, nodes[k], "EndRx", n) \in T
    BY <1>1, <1>2, <2>1
  <2> QED
    BY <1>4, <2>1, <2>2
<1>7. Items(a) \subseteq T /\ Items(b) \subseteq T
  BY <1>5, <1>6 DEF Items
<1>8. BeaconEnds(n, S, t) = a \o b
  BY <1>2, <1>3, <1>4 DEF BeaconEnds
<1> QED
  BY <1>1, <1>5, <1>6, <1>7, <1>8, ItemsOfConcat

LEMMA StartTxInv ==
  ASSUME BeaconInv, NEW ev \in queue, StartTx(ev)
  PROVE  BeaconInv'
<1>1. PICK n : n = ev.node
  OBVIOUS
<1>2. /\ n \in Nodes /\ ev.at \in Nat /\ mac[n] \in MacTypes /\ MacNext(n, mac[n])
      /\ EventTypes(ev) /\ EventInSlot(ev) /\ EventInCell(ev) /\ EventOfSender(ev)
      /\ fresh \subseteq joined /\ joined \subseteq Nodes
  BY <1>1, Running
<1>3. /\ hearing' \subseteq Nodes /\ fresh' \subseteq joined' /\ joined' \subseteq Nodes
      /\ UNCHANGED <<config, act>> /\ Runs(ev, "StartTx")
  BY <1>2 DEF StartTx
<1>4. mac' = [mac EXCEPT ![ev.node] = mac[n]] /\ MacNext(ev.node, mac[n])
  BY <1>1, <1>2 DEF StartTx, BeaconInv, TypeOK
<1>5. PICK t : t = ev.at + BeaconLen
  OBVIOUS
<1>6. PICK S \in SUBSET Nodes : S = hearing'
  BY <1>3
<1>7. PICK es : es = BeaconEnds(n, S, t)
  OBVIOUS
<1>8. Then(ev, es)
  BY <1>1, <1>5, <1>6, <1>7 DEF StartTx, Runs
<1>9. PICK e1 : e1 = Event(t, n, "EndTx", "OUT")
  OBVIOUS
<1>10. t \in Nat /\ ev.arg = "OUT" /\ ev.do = "StartTx"
  BY <1>2, <1>3, <1>5, Durations DEF EventTypes, Runs
<1>11. Admissible(e1, ev.node, mac[n])
  <2>1. n \notin Devices /\ OnGrid(mac[n].bcnStart, BI, BeaconSlot(n))
    BY <1>1, <1>2, <1>10 DEF EventInSlot, OwnPeriods
  <2>2. n \in Coords /\ Complete(n) => mac[n].allocated = DOMAIN act[n]
    BY <1>1, <1>2, <1>10 DEF EventOfSender, OfSender, OwnPeriods
  <2>3. EventTypes(e1) /\ EventInCell(e1)
    BY <1>2, <1>9, <1>10 DEF EventTypes, EventInCell, Event, GtsHandlers
  <2> QED
    BY <1>1, <1>9, <2>1, <2>2, <2>3 DEF Admissible, Event
<1>12. ASSUME NEW m \in S PROVE Admissible(Event(t, m, "EndRx", n), ev.node, mac[n])
  <2>1. n = PanC => OnGrid(t, BI, BeaconDelay)
    <3>1. n = PanC => OnGrid(ev.at, BI, Turnaround)
      BY <1>1, <1>2, <1>10 DEF EventInCell
    <3>2. n = PanC => OnGrid(t, BI, Turnaround + BeaconLen)
      BY <1>5, <3>1, GridShift, Durations
    <3> QED
      BY <3>2 DEF BeaconDelay
  <2>2. PICK e : e = Event(t, m, "EndRx", n)
    OBVIOUS
  <2>3. EventTypes(e) /\ EventInCell(e)
    BY <1>2, <1>10, <2>1, <2>2 DEF EventTypes, EventInCell, Event, GtsHandlers
  <2> QED
    BY <2>2, <2>3 DEF Admissible, Event, OfSender, OwnPeriods
<1>13. \A e \in Items(es) : Admissible(e, ev.node, mac[n])
  <2>1. \A e \in Items(es) : e = e1 \/ \E m \in S : e = Event(t, m, "EndRx", n)
    BY <1>7, <1>9, BeaconEndsItems
  <2> QED
    BY <1>11, <1>12, <2>1
<1> QED
  BY <1>3, <1>4, <1>8, <1>13, HandlerStep

LEMMA MacAfterSending ==
  ASSUME NEW m \in MacTypes, NEW b \in BOOLEAN, NEW a \in SUBSET Nat
  PROVE  [m EXCEPT !.state = "IDLE", !.rxOn = TRUE, !.firstCFP = b, !.allocated = a] \in MacTypes
BY DEF MacTypes

LEMMA EndTxInv ==
  ASSUME BeaconInv, NEW ev \in queue, EndTx(ev)
  PROVE  BeaconInv'
<1>1. PICK n : n = ev.node
  OBVIOUS
<1>2. /\ n \in Nodes /\ ev.at \in Nat /\ mac[n] \in MacTypes /\ MacNext(n, mac[n])
      /\ EventTypes(ev) /\ EventInSlot(ev) /\ EventOfSender(ev) /\ MacOk(n)
      /\ hearing \subseteq Nodes /\ fresh \subseteq joined /\ joined \subseteq Nodes
  BY <1>1, Running
<1>3. /\ hearing' \subseteq Nodes /\ fresh' \subseteq joined' /\ joined' \subseteq Nodes
      /\ UNCHANGED <<config, act>> /\ now' = ev.at /\ ev.at <= StopTime /\ ev.do = "EndTx"
  BY <1>2 DEF EndTx, history, Runs
<1>4. PICK noCap \in BOOLEAN :
        noCap = (capReduction /\ n \in Coords /\ SdIndex[n] % NumSuperframes # 0)
  OBVIOUS
<1>20. PICK c \in BOOLEAN : c = (noCap \/ mac[n].firstCFP)
  OBVIOUS
<1>5. PICK a : a = IF n = PanC THEN mac[n].allocated ELSE DOMAIN act[n]
  OBVIOUS
<1>6. PICK r : r = [mac[n] EXCEPT !.state = "IDLE", !.rxOn = TRUE, !.firstCFP = c,
                                  !.allocated = a]
  OBVIOUS
<1>7. mac' = [mac EXCEPT ![ev.node] = r]
  BY <1>1, <1>2, <1>4, <1>5, <1>6, <1>20 DEF EndTx
<1>8. /\ r.gts = mac[n].gts /\ r.allocated = a /\ r.sendBcn = mac[n].sendBcn
      /\ r.parentStart = mac[n].parentStart /\ r.bcnStart = mac[n].bcnStart
  BY <1>2, <1>6 DEF MacTypes
<1>9. MacNext(ev.node, r)
  <2>1. act[n] \in Seq(Entries) /\ mac[n].allocated \subseteq DOMAIN act[n]
    BY <1>2 DEF BeaconInv, TypeOK
  <2>2. a \in SUBSET Nat /\ a \subseteq DOMAIN act[n]
    BY <1>5, <2>1
  <2>3. r \in MacTypes
    BY <1>2, <1>6, <2>2, MacAfterSending
  <2> QED
    BY <1>1, <1>2, <1>5, <1>8, <2>2, <2>3 DEF MacNext
<1>10. PICK gts : gts = When(SchedulesGts(n, FALSE), ScheduleGts(n, ev.at))
  OBVIOUS
<1>11. PICK cap : cap = Event(ev.at, n, IF noCap THEN "StartCFP" ELSE "StartCAP", "OUT")
  OBVIOUS
<1>12. queue' = ScheduleAll(ScheduleAll(queue \ {ev}, gts), <<cap>>)
  BY <1>1, <1>3, <1>4, <1>10, <1>11 DEF EndTx
<1>13. n \in Coords /\ Complete(n) => mac[n].allocated = DOMAIN act[n]
  BY <1>1, <1>2, <1>3 DEF EventOfSender, OfSender, OwnPeriods, EventTypes
<1>14. n \notin Devices /\ OnGrid(mac[n].bcnStart, BI, BeaconSlot(n))
  BY <1>1, <1>2, <1>3 DEF EventInSlot, OwnPeriods, EventTypes
<1>15. Admissible(cap, ev.node, r)
  <2>1. EventTypes(cap) /\ EventInCell(cap)
    BY <1>2, <1>11 DEF EventTypes, EventInCell, Event, GtsHandlers
  <2>2. n \in Coords => n # PanC
    BY DsmeConstants
  <2> QED
    BY <1>1, <1>5, <1>8, <1>11, <1>14, <2>1, <2>2 DEF Admissible, Event
<1>16. \A e \in Items(gts) : Admissible(e, ev.node, r)
  <2>1. CASE n = PanC
    BY <1>10, <2>1, ItemsOfLists DEF When, SchedulesGts
  <2>2. CASE n # PanC
    <3>1. n \in Coords
      BY <1>2, <1>14, <2>2 DEF Nodes
    <3>2. n \in Devices \/ Complete(n) => ToSchedule(n) = {}
      BY <1>13, <1>14, <3>1 DEF ToSchedule
    <3>3. \A e \in GtsItems(n, ev.at) : Admissible(e, n, r)
      BY <1>2, <2>2, <3>2, GtsAdmissible
    <3> QED
      BY <1>1, <1>10, <3>3, GtsItemsOf
  <2> QED
    BY <2>1, <2>2
<1>17. PICK New : New = Items(gts) \cup {cap}
  OBVIOUS
<1>18. \A e \in New : Admissible(e, ev.node, r)
  BY <1>15, <1>16, <1>17
<1>19. \A f \in queue' : f \in queue \/ \E e \in New : Like(f, e)
  <2>1. PICK q \in SUBSET queue : q = queue \ {ev}
    OBVIOUS
  <2>2. PICK bs : bs = <<cap>>
    OBVIOUS
  <2>3. Items(gts) \subseteq New /\ Items(bs) \subseteq New
    BY <1>17, <2>2, ItemsOfLists
  <2>4. queue' = ScheduleAll(ScheduleAll(q, gts), bs)
    BY <1>12, <2>1, <2>2
  <2> QED
    BY <2>3, <2>4, ScheduledTwice
<1> QED
  BY <1>3, <1>7, <1>9, <1>18, <1>19, NodeStep

\* A beacon interval is a whole number of multisuperframes.
LEMMA GridOfMultis ==
  ASSUME NEW t, NEW r \in Nat, OnGrid(t, BI, r)
  PROVE  OnGrid(t, MultiLen, r)
<1>1. PICK k \in Nat : t = k * BI + r
  BY DEF OnGrid
<1>2. k * NumMultis \in Nat /\ t = (k * NumMultis) * MultiLen + r
  BY <1>1, Durations DEF BI
<1> QED
  BY <1>2 DEF OnGrid

LEMMA MacFields ==
  ASSUME NEW m \in MacTypes
  PROVE  /\ \A b \in 0..255, i \in 0..NumSuperframes * NumMultis - 1 :
              [m EXCEPT !.bsn = b, !.bitmapSd = i, !.known = TRUE] \in MacTypes
         /\ \A p \in 0..StopTime :
              [m EXCEPT !.parentStart = p, !.sendBcn = FALSE] \in MacTypes
         /\ \A f, c \in BOOLEAN : [m EXCEPT !.isFirst = f, !.incFirstCFP = c] \in MacTypes
         /\ \A s \in {"IDLE", "SENDING", "GTS", "GTS_SENDING"}, x \in BOOLEAN :
              [m EXCEPT !.state = s, !.rxOn = x] \in MacTypes
         /\ \A a \in SUBSET Nat, l \in 0..aMaxLostBeacons + 1 :
              [m EXCEPT !.allocated = a, !.numLost = l] \in MacTypes
<1>1. ASSUME NEW b \in 0..255, NEW i \in 0..NumSuperframes * NumMultis - 1
      PROVE  [m EXCEPT !.bsn = b, !.bitmapSd = i, !.known = TRUE] \in MacTypes
  BY DEF MacTypes
<1>2. ASSUME NEW p \in 0..StopTime
      PROVE  [m EXCEPT !.parentStart = p, !.sendBcn = FALSE] \in MacTypes
  BY DEF MacTypes
<1>3. ASSUME NEW f \in BOOLEAN, NEW c \in BOOLEAN
      PROVE  [m EXCEPT !.isFirst = f, !.incFirstCFP = c] \in MacTypes
  BY DEF MacTypes
<1>4. ASSUME NEW s \in {"IDLE", "SENDING", "GTS", "GTS_SENDING"}, NEW x \in BOOLEAN
      PROVE  [m EXCEPT !.state = s, !.rxOn = x] \in MacTypes
  BY DEF MacTypes
<1>5. ASSUME NEW a \in SUBSET Nat, NEW l \in 0..aMaxLostBeacons + 1
      PROVE  [m EXCEPT !.allocated = a, !.numLost = l] \in MacTypes
  BY DEF MacTypes
<1> QED
  BY <1>1, <1>2, <1>3, <1>4, <1>5

\* The events of a reception of node n, whose MAC becomes r.
LEMMA OnReceptionAdmissible ==
  ASSUME BeaconInv, NEW n \in Nodes, NEW from \in Nodes, NEW t \in Nat, NEW r,
         r.allocated = mac[n].allocated \/ r.allocated = DOMAIN act[n]
  PROVE  \A e \in Items(OnReception(n, from, t)) : Admissible(e, n, r)
<1>1. PICK own : own = SdIndex[n] * SD + ParentStart(n, from)
  OBVIOUS
<1>2. PICK e1 : e1 = Event(t, n, "StartMultisuperframe", "IN")
  OBVIOUS
<1>3. PICK e2 : e2 = Event(own, n, "SetIdle", "OUT")
  OBVIOUS
<1>4. PICK e3 : e3 = Event(own, n, "SendBeacon", "OUT")
  OBVIOUS
<1>5. PICK a : a = When(mac[from].bitmapSd % NumSuperframes # 0, <<e1>>)
  OBVIOUS
<1>6. PICK b : b = When(mac[n].sendBcn, <<e2, e3>>)
  OBVIOUS
<1>7. OnReception(n, from, t) = a \o b
  BY <1>1, <1>2, <1>3, <1>4, <1>5, <1>6 DEF OnReception
<1>8. Items(OnReception(n, from, t)) \subseteq Items(a) \cup Items(b) /\ Items(a) \subseteq {e1}
  <2>1. <<e1>> \in Seq({e1, e2, e3}) /\ <<e2, e3>> \in Seq({e1, e2, e3})
    BY ShortLists
  <2>2. a \in Seq({e1, e2, e3}) /\ b \in Seq({e1, e2, e3})
    BY <2>1, <1>5, <1>6, ListWhen
  <2>3. Items(a) \subseteq Items(<<e1>>)
    BY <2>1, <1>5, ListWhen
  <2>4. Items(a \o b) = Items(a) \cup Items(b)
    BY <2>2, ItemsOfConcat
  <2> QED
    BY <1>7, <2>3, <2>4, ItemsOfLists
<1>9. Admissible(e1, n, r)
  BY <1>2 DEF Admissible, EventTypes, EventInCell, Event, GtsHandlers, OfSender, OwnPeriods
<1>10. \A e \in Items(b) : Admissible(e, n, r)
  <2>1. CASE ~mac[n].sendBcn
    BY <1>6, <2>1, ItemsOfLists DEF When
  <2>2. CASE mac[n].sendBcn
    <3>1. /\ n \in Coords /\ n \notin Devices /\ n # PanC
          /\ (Complete(n) => r.allocated = DOMAIN act[n])
      BY <2>2, DsmeConstants DEF BeaconInv, MacOk
    <3>2. PICK p \in Nat : p = ParentStart(n, from) /\ OnGrid(p, BI, 0)
      <4>1. PanC \in Nodes /\ mac[n] \in MacTypes /\ mac[PanC] \in MacTypes
        BY DEF BeaconInv, TypeOK, Nodes
      <4>2. ParentStart(n, from) \in Nat
        BY <4>1 DEF ParentStart, MacTypes
      <4>3. OnGrid(ParentStart(n, from), BI, 0)
        BY <4>1 DEF ParentStart, BeaconInv, MacOk
      <4> QED
        BY <4>2, <4>3
    <3>3. PICK o \in Nat : o = BeaconSlot(n) /\ o = SdIndex[n] * SD
      <4>1. BeaconSlot(n) \in Nat
        BY <3>1, BeaconSlotType, Durations
      <4> QED
        BY <4>1, <3>1 DEF BeaconSlot
    <3>4. own = p + o /\ own \in Nat
      BY <1>1, <3>2, <3>3
    <3>5. OnGrid(own, BI, BeaconSlot(n))
      <4>1. OnGrid(p + o, BI, 0 + o)
        BY <3>2, <3>3, GridShift, Durations
      <4> QED
        BY <4>1, <3>3, <3>4
    <3>6. Admissible(e2, n, r)
      BY <1>3, <3>4 DEF Admissible, EventTypes, EventInCell, Event, GtsHandlers, OfSender, OwnPeriods
    <3>7. EventTypes(e3) /\ EventInCell(e3)
      BY <1>4, <3>4 DEF EventTypes, EventInCell, Event, GtsHandlers
    <3>8. Admissible(e3, n, r)
      BY <1>4, <3>1, <3>5, <3>7 DEF Admissible, Event, OwnPeriods
    <3> QED
      BY <1>6, <2>2, <3>6, <3>8, ItemsOfLists DEF When
  <2> QED
    BY <2>1, <2>2
<1> QED
  BY <1>8, <1>9, <1>10

LEMMA PeriodAndSearchAdmissible ==
  ASSUME NEW n \in Nodes, NEW from, NEW t \in Nat, NEW r
  PROVE  \A e \in Items(PeriodAndSearch(n, from, t)) : Admissible(e, n, r)
<1>1. PICK e1 : e1 = Event(t, n, IF NoIncomingCap(n, from) THEN "StartCFP" ELSE "StartCAP", "IN")
  OBVIOUS
<1>2. PICK e2 : e2 = Event(t + NextSearch, n, "SearchTimeout", "IN")
  OBVIOUS
<1>3. Items(PeriodAndSearch(n, from, t)) \subseteq {e1, e2}
  <2>1. PICK c : c = (IsRunning(n, "SearchTimeout") /\ mac[n].trackingOn)
    OBVIOUS
  <2>2. PeriodAndSearch(n, from, t) = <<e1>> \o When(c, <<e2>>)
    BY <1>1, <1>2, <2>1 DEF PeriodAndSearch
  <2>3. <<e1>> \in Seq({e1, e2}) /\ <<e2>> \in Seq({e1, e2})
    BY ShortLists
  <2>4. Items(<<e1>> \o When(c, <<e2>>)) \subseteq Items(<<e1>>) \cup Items(<<e2>>)
    BY <2>3, ListWhen
  <2> QED
    BY <2>2, <2>4, ItemsOfLists
<1>4. Admissible(e1, n, r)
  BY <1>1 DEF Admissible, EventTypes, EventInCell, Event, GtsHandlers, OfSender, OwnPeriods
<1>5. Admissible(e2, n, r)
  BY <1>2, Durations DEF Admissible, EventTypes, EventInCell, Event, GtsHandlers, OfSender, OwnPeriods
<1> QED
  BY <1>3, <1>4, <1>5

LEMMA EndRxInv ==
  ASSUME BeaconInv, NEW ev \in queue, EndRx(ev)
  PROVE  BeaconInv'
<1>1. PICK n : n = ev.node
  OBVIOUS
<1>2. /\ n \in Nodes /\ ev.at \in Nat /\ mac[n] \in MacTypes /\ MacNext(n, mac[n])
      /\ EventTypes(ev) /\ EventInCell(ev) /\ MacOk(n)
      /\ hearing \subseteq Nodes /\ fresh \subseteq joined /\ joined \subseteq Nodes
  BY <1>1, Running
<1>3. PICK from : from = ev.arg
  OBVIOUS
<1>4. now' = ev.at /\ ev.at <= StopTime /\ ev.do = "EndRx" /\ UNCHANGED <<config, act>>
  BY DEF EndRx, Runs
<1>5. from \in Nodes /\ mac[from] \in MacTypes
  BY <1>2, <1>3, <1>4 DEF EventTypes, BeaconInv, TypeOK
<1>6. hearing' \subseteq Nodes /\ fresh' \subseteq joined' /\ joined' \subseteq Nodes
  BY <1>1, <1>2, <1>3 DEF EndRx
<1>7. PICK noCap \in BOOLEAN : noCap = NoIncomingCap(n, from)
  BY <1>2 DEF NoIncomingCap, FirstOfMulti, MacTypes
<1>8. PICK p : p = ParentStart(n, from)
  OBVIOUS
<1>9. PICK a : a = IF IndicatesGts(n, from) THEN DOMAIN act[n] ELSE mac[n].allocated
  OBVIOUS
<1>10. PICK r : r = AfterBeacon(n, from)
  OBVIOUS
<1>11. mac' = [mac EXCEPT ![ev.node] = r]
  BY <1>1, <1>3, <1>10 DEF EndRx
<1>12. /\ r.gts = mac[n].gts /\ r.allocated = a /\ r.sendBcn = FALSE
       /\ r.parentStart = p /\ r.bcnStart = mac[n].bcnStart
  BY <1>2, <1>8, <1>9, <1>10 DEF AfterBeacon, MacTypes
<1>13. MacNext(ev.node, r)
  <2>1. act[n] \in Seq(Entries) /\ mac[n].allocated \subseteq DOMAIN act[n]
    BY <1>2 DEF BeaconInv, TypeOK
  <2>2. a \in SUBSET Nat /\ a \subseteq DOMAIN act[n]
    BY <1>9, <2>1
  <2>3. PanC \in Nodes /\ mac[PanC] \in MacTypes
    BY DEF Nodes, BeaconInv, TypeOK
  <2>4. p \in 0..StopTime /\ OnGrid(p, BI, 0)
    <3>1. p \in 0..StopTime
      BY <1>2, <1>8, <2>3 DEF ParentStart, MacTypes
    <3>2. OnGrid(p, BI, 0)
      BY <1>2, <1>8, <2>3 DEF ParentStart, BeaconInv, MacOk
    <3> QED
      BY <3>1, <3>2
  <2>5. BsnReceived(n, from) \in 0..255
    <3>1. mac[n].bsn \in 0..255 /\ mac[from].bsn \in 0..255
      BY <1>2, <1>5 DEF MacTypes
    <3>2. (mac[from].bsn - 1) % 256 \in 0..255
      BY <3>1
    <3> QED
      BY <3>1, <3>2 DEF BsnReceived
  <2>6. mac[from].bitmapSd \in 0..NumSuperframes * NumMultis - 1
    BY <1>5 DEF MacTypes
  <2>7. PICK f \in BOOLEAN :
          f = IF n \in Coords THEN mac[n].isFirst ELSE FirstOfMulti(n, from) /\ ~capReduction
    BY <1>2 DEF MacTypes, FirstOfMulti
  <2>8. PICK c \in BOOLEAN : c = (noCap \/ mac[n].incFirstCFP)
    OBVIOUS
  <2>9. PICK x \in BOOLEAN : x = (noCap => mac[n].rxOn)
    OBVIOUS
  <2>10. PICK s \in {"IDLE", "SENDING", "GTS", "GTS_SENDING"} :
           s = IF noCap THEN mac[n].state ELSE "IDLE"
    BY <1>2 DEF MacTypes
  <2>11. PICK l \in 0..aMaxLostBeacons + 1 :
           l = IF IsRunning(n, "SearchTimeout") THEN 0 ELSE mac[n].numLost
    <3>1. mac[n].numLost \in 0..aMaxLostBeacons + 1
      BY <1>2 DEF MacTypes
    <3> QED
      BY <3>1 DEF aMaxLostBeacons
  <2>12. PICK b \in 0..255 : b = BsnReceived(n, from)
    BY <2>5
  <2>13. PICK i \in 0..NumSuperframes * NumMultis - 1 : i = mac[from].bitmapSd
    BY <2>6
  <2>14. r = [mac[n] EXCEPT
                !.bsn = b, !.bitmapSd = i, !.known = TRUE, !.parentStart = p,
                !.sendBcn = FALSE, !.isFirst = f, !.incFirstCFP = c, !.state = s,
                !.rxOn = x, !.allocated = a, !.numLost = l]
    BY <1>7, <1>8, <1>9, <1>10, <2>7, <2>8, <2>9, <2>10, <2>11, <2>12, <2>13 DEF AfterBeacon
  <2>15. PICK m1 \in MacTypes : m1 = [mac[n] EXCEPT !.bsn = b, !.bitmapSd = i, !.known = TRUE]
    BY <1>2, <2>12, <2>13, MacFields
  <2>16. PICK m2 \in MacTypes : m2 = [m1 EXCEPT !.parentStart = p, !.sendBcn = FALSE]
    BY <2>4, MacFields
  <2>17. PICK m3 \in MacTypes : m3 = [m2 EXCEPT !.isFirst = f, !.incFirstCFP = c]
    BY <2>7, <2>8, MacFields
  <2>18. PICK m4 \in MacTypes : m4 = [m3 EXCEPT !.state = s, !.rxOn = x]
    BY <2>9, <2>10, MacFields
  <2>19. PICK m5 \in MacTypes : m5 = [m4 EXCEPT !.allocated = a, !.numLost = l]
    BY <2>2, <2>11, MacFields
  <2>20. r = m5
    BY <1>2, <2>14, <2>15, <2>16, <2>17, <2>18, <2>19 DEF MacTypes
  <2>21. r \in MacTypes
    BY <2>19, <2>20
  <2> QED
    BY <1>1, <1>2, <1>9, <1>12, <2>2, <2>4, <2>21 DEF MacNext
<1>14. PICK q \in SUBSET queue : q = Cancel(queue \ {ev}, n, "SearchTimeout")
  BY DEF Cancel
<1>15. PICK as : as = OnReception(n, from, ev.at)
  OBVIOUS
<1>16. PICK bs : bs = When(IndicatesGts(n, from), ScheduleGts(n, ev.at))
  OBVIOUS
<1>17. PICK cs : cs = PeriodAndSearch(n, from, ev.at)
  OBVIOUS
<1>18. PICK q2 : q2 = ScheduleAll(ScheduleAll(q, as), bs)
  OBVIOUS
<1>19. queue' = ScheduleAll(q2, cs)
  BY <1>1, <1>3, <1>4, <1>14, <1>15, <1>16, <1>17, <1>18 DEF EndRx
<1>20. \A e \in Items(as) : Admissible(e, ev.node, r)
  BY <1>1, <1>2, <1>5, <1>9, <1>12, <1>15, OnReceptionAdmissible
<1>21. \A e \in Items(bs) : Admissible(e, ev.node, r)
  <2>1. CASE ~IndicatesGts(n, from)
    BY <1>16, <2>1, ItemsOfLists DEF When
  <2>2. CASE IndicatesGts(n, from)
    <3>1. from = PanC /\ n # PanC /\ n \in Devices
      BY <1>2, <2>2 DEF IndicatesGts, SchedulesGts, Nodes
    <3>2. OnGrid(ev.at, MultiLen, Lateness(n))
      BY <1>2, <1>3, <1>4, <3>1, GridOfMultis, Durations DEF EventInCell, Lateness
    <3>3. \A e \in GtsItems(n, ev.at) : Admissible(e, n, r)
      BY <1>2, <3>1, <3>2, GtsAdmissible
    <3> QED
      BY <1>1, <1>16, <3>3, GtsItemsOf
  <2> QED
    BY <2>1, <2>2
<1>22. \A e \in Items(cs) : Admissible(e, ev.node, r)
  BY <1>1, <1>2, <1>17, PeriodAndSearchAdmissible
<1>23. PICK New : New = Items(as) \cup Items(bs) \cup Items(cs)
  OBVIOUS
<1>24. \A e \in New : Admissible(e, ev.node, r)
  BY <1>20, <1>21, <1>22, <1>23
<1>25. \A f \in queue' : f \in queue \/ \E e \in New : Like(f, e)
  <2> SUFFICES ASSUME NEW f \in queue' PROVE f \in queue \/ \E e \in New : Like(f, e)
    OBVIOUS
  <2>1. f \in q2 \/ \E e \in Items(cs) : Like(f, e)
    BY <1>19, Scheduled
  <2>2. PICK q1 : q1 = ScheduleAll(q, as)
    OBVIOUS
  <2>3. f \in q2 => f \in q1 \/ \E e \in Items(bs) : Like(f, e)
    BY <1>18, <2>2, Scheduled
  <2>4. f \in q1 => f \in q \/ \E e \in Items(as) : Like(f, e)
    BY <2>2, Scheduled
  <2> QED
    BY <1>23, <2>1, <2>3, <2>4
<1> QED
  BY <1>4, <1>6, <1>11, <1>13, <1>24, <1>25, NodeStep

LEMMA BeaconLostInv ==
  ASSUME BeaconInv, NEW ev \in queue, BeaconLost(ev)
  PROVE  BeaconInv'
<1>1. /\ ev.node \in Nodes /\ mac[ev.node] \in MacTypes /\ MacNext(ev.node, mac[ev.node])
      /\ hearing \subseteq Nodes /\ fresh \subseteq joined /\ joined \subseteq Nodes
  BY Running
<1>2. mac' = [mac EXCEPT ![ev.node] = mac[ev.node]]
  BY <1>1 DEF BeaconLost, BeaconInv, TypeOK
<1>3. /\ hearing' \subseteq Nodes /\ fresh' \subseteq joined' /\ joined' \subseteq Nodes
      /\ UNCHANGED <<config, act>> /\ Runs(ev, "EndRx") /\ Then(ev, <<>>)
  BY <1>1 DEF BeaconLost, history
<1>4. \A e \in Items(<<>>) : Admissible(e, ev.node, mac[ev.node])
  BY ItemsOfLists
<1> QED
  BY <1>1, <1>2, <1>3, <1>4, HandlerStep

-----------------------------------------------------------------------------
(* Beacon tracking *)

LEMMA MacTracks ==
  ASSUME NEW m \in MacTypes, NEW b \in BOOLEAN
  PROVE  /\ [m EXCEPT !.channel = CapChannel, !.rxOn = TRUE, !.trackingOn = b, !.numLost = 0]
              \in MacTypes
         /\ [m EXCEPT !.trackingOn = b, !.numLost = 0] \in MacTypes
         /\ \A l \in 0..aMaxLostBeacons + 1 : [m EXCEPT !.numLost = l] \in MacTypes
<1>1. 0 \in 0..aMaxLostBeacons + 1
  BY DEF aMaxLostBeacons
<1>2. [m EXCEPT !.channel = CapChannel, !.rxOn = TRUE, !.trackingOn = b, !.numLost = 0] \in MacTypes
  BY <1>1 DEF MacTypes
<1>3. [m EXCEPT !.trackingOn = b, !.numLost = 0] \in MacTypes
  BY <1>1 DEF MacTypes
<1>4. ASSUME NEW l \in 0..aMaxLostBeacons + 1 PROVE [m EXCEPT !.numLost = l] \in MacTypes
  BY DEF MacTypes
<1> QED
  BY <1>2, <1>3, <1>4

LEMMA SearchAdmissible ==
  ASSUME BeaconInv, NEW n \in Nodes, NEW t \in Nat, NEW r
  PROVE  \A e \in Items(Search(n, t)) : Admissible(e, n, r)
<1>1. mac[n].known \in BOOLEAN
  <2>1. mac[n] \in MacTypes
    BY DEF BeaconInv, TypeOK
  <2> QED
    BY <2>1 DEF MacTypes
<1>2. PICK d \in Nat : d = SearchLen(mac[n].known)
  BY <1>1, Durations
<1>3. PICK e1 : e1 = Event(t + d, n, "SearchTimeout", "IN")
  OBVIOUS
<1>4. Admissible(e1, n, r)
  BY <1>3 DEF Admissible, EventTypes, EventInCell, Event, GtsHandlers, OfSender, OwnPeriods
<1>5. Items(Search(n, t)) = {e1}
  BY <1>2, <1>3, ItemsOfLists DEF Search
<1> QED
  BY <1>4, <1>5

LEMMA SyncInv ==
  ASSUME BeaconInv, NEW ev \in queue, SyncRequest(ev)
  PROVE  BeaconInv'
<1>1. PICK n : n = ev.node
  OBVIOUS
<1>2. /\ n \in Nodes /\ ev.at \in Nat /\ mac[n] \in MacTypes
      /\ hearing \subseteq Nodes /\ fresh \subseteq joined /\ joined \subseteq Nodes
  BY <1>1, Running
<1>3. PICK r : r = [mac[n] EXCEPT !.channel = CapChannel, !.rxOn = TRUE, !.trackingOn = TRUE,
                                  !.numLost = 0]
  OBVIOUS
<1>4. mac' = [mac EXCEPT ![ev.node] = r]
  BY <1>1, <1>3 DEF SyncRequest, Synchronised
<1>5. MacNext(ev.node, r)
  <2>1. r \in MacTypes
    BY <1>2, <1>3, MacTracks
  <2>2. SameBeacons(n, r)
    BY <1>2, <1>3 DEF MacTypes, SameBeacons
  <2> QED
    BY <1>1, <1>2, <2>1, <2>2, MacKept
<1>6. /\ hearing' \subseteq Nodes /\ fresh' \subseteq joined' /\ joined' \subseteq Nodes
      /\ UNCHANGED <<config, act>> /\ now' = ev.at /\ ev.at <= StopTime
  BY <1>2 DEF SyncRequest, Retune, Runs, history
<1>7. PICK New : New = Items(Search(n, ev.at))
  OBVIOUS
<1>8. \A e \in New : Admissible(e, ev.node, r)
  BY <1>1, <1>2, <1>7, SearchAdmissible
<1>9. \A f \in queue' : f \in queue \/ \E e \in New : Like(f, e)
  <2>1. PICK q \in SUBSET queue : q = Cancel(queue \ {ev}, n, "SearchTimeout")
    BY DEF Cancel
  <2>2. queue' = ScheduleAll(q, Search(n, ev.at))
    BY <1>1, <1>6, <2>1 DEF SyncRequest
  <2> QED
    BY <1>7, <2>2, Scheduled
<1> QED
  BY <1>4, <1>5, <1>6, <1>8, <1>9, NodeStep

LEMMA SearchTimeoutInv ==
  ASSUME BeaconInv, NEW ev \in queue, BeaconSearchTimeout(ev)
  PROVE  BeaconInv'
<1>1. PICK n : n = ev.node
  OBVIOUS
<1>2. /\ n \in Nodes /\ ev.at \in Nat /\ mac[n] \in MacTypes /\ MacNext(n, mac[n])
      /\ hearing \subseteq Nodes /\ fresh \subseteq joined /\ joined \subseteq Nodes
  BY <1>1, Running
<1>3. UNCHANGED <<config, act>> /\ Runs(ev, "SearchTimeout") /\ UNCHANGED history
  BY DEF BeaconSearchTimeout
<1>4. /\ hearing' \subseteq Nodes /\ fresh' \subseteq joined' /\ joined' \subseteq Nodes
  BY <1>2, <1>3 DEF BeaconSearchTimeout, Retune, history
<1>5. CASE ~IsLost(n)
  <2>1. PICK l : l = mac[n].numLost + 1
    OBVIOUS
  <2>2. PICK r : r = [mac[n] EXCEPT !.numLost = l]
    OBVIOUS
  <2>3. mac' = [mac EXCEPT ![ev.node] = r]
    BY <1>1, <1>2, <1>5, <2>1, <2>2 DEF BeaconSearchTimeout
  <2>4. l \in 0..aMaxLostBeacons + 1
    <3>1. mac[n].numLost \in Nat
      BY <1>2 DEF MacTypes
    <3> QED
      BY <1>5, <2>1, <3>1 DEF IsLost, aMaxLostBeacons
  <2>5. r \in MacTypes
    BY <1>2, <2>2, <2>4, MacTracks
  <2>6. SameBeacons(n, r)
    BY <1>2, <2>2 DEF MacTypes, SameBeacons
  <2>7. MacNext(ev.node, r)
    BY <1>1, <1>2, <2>5, <2>6, MacKept
  <2>8. Then(ev, Search(n, ev.at))
    BY <1>1, <1>5, <1>3 DEF BeaconSearchTimeout, SearchAgain, Runs
  <2>9. \A e \in Items(Search(n, ev.at)) : Admissible(e, ev.node, r)
    BY <1>1, <1>2, SearchAdmissible
  <2> QED
    BY <1>3, <1>4, <2>3, <2>7, <2>8, <2>9, HandlerStep
<1>6. CASE IsLost(n) /\ callback = "resync"
  <2>1. PICK r : r = [mac[n] EXCEPT !.channel = CapChannel, !.rxOn = TRUE, !.trackingOn = FALSE,
                                    !.numLost = 0]
    OBVIOUS
  <2>2. r = [Synchronised(n) EXCEPT !.trackingOn = FALSE]
    BY <1>2, <2>1 DEF Synchronised, MacTypes
  <2>3. mac' = [mac EXCEPT ![ev.node] = r]
    BY <1>1, <1>6, <2>2 DEF BeaconSearchTimeout
  <2>4. r \in MacTypes
    BY <1>2, <2>1, MacTracks
  <2>5. SameBeacons(n, r)
    BY <1>2, <2>1 DEF MacTypes, SameBeacons
  <2>6. MacNext(ev.node, r)
    BY <1>1, <1>2, <2>4, <2>5, MacKept
  <2>7. Then(ev, Search(n, ev.at))
    BY <1>1, <1>6, <1>3 DEF BeaconSearchTimeout, Runs
  <2>8. \A e \in Items(Search(n, ev.at)) : Admissible(e, ev.node, r)
    BY <1>1, <1>2, SearchAdmissible
  <2> QED
    BY <1>3, <1>4, <2>3, <2>6, <2>7, <2>8, HandlerStep
<1>7. CASE IsLost(n) /\ callback # "resync"
  <2>1. PICK r : r = IF callback = "null" THEN mac[n]
                     ELSE [mac[n] EXCEPT !.trackingOn = FALSE, !.numLost = 0]
    OBVIOUS
  <2>2. mac' = [mac EXCEPT ![ev.node] = r]
    BY <1>1, <1>2, <1>7, <2>1 DEF BeaconSearchTimeout, BeaconInv, TypeOK
  <2>3. r \in MacTypes
    BY <1>2, <2>1, MacTracks
  <2>4. SameBeacons(n, r)
    BY <1>2, <2>1 DEF MacTypes, SameBeacons
  <2>5. MacNext(ev.node, r)
    BY <1>1, <1>2, <2>3, <2>4, MacKept
  <2>6. Then(ev, <<>>)
    BY <1>1, <1>7 DEF BeaconSearchTimeout
  <2>7. \A e \in Items(<<>>) : Admissible(e, ev.node, r)
    BY ItemsOfLists
  <2> QED
    BY <1>3, <1>4, <2>2, <2>5, <2>6, <2>7, HandlerStep
<1> QED
  BY <1>5, <1>6, <1>7

-----------------------------------------------------------------------------
(* The higher layer *)

LEMMA AddEntityInv ==
  ASSUME BeaconInv, NEW late \in LateEntries, AddDsmeACTEntity(late.node, late.entry)
  PROVE  BeaconInv'
<1>1. PICK n \in Nodes : n = late.node /\ ~Complete(n)
  BY DsmeConstants DEF Complete
<1>2. PICK x \in Entries : x = late.entry
  BY DsmeConstants
<1>3. act \in [Nodes -> Seq(Entries)] /\ act' = [act EXCEPT ![n] = Append(act[n], x)]
  BY <1>1, <1>2 DEF AddDsmeACTEntity, BeaconInv, TypeOK
<1>4. UNCHANGED <<now, queue, config, mac, hearing, history>>
  BY DEF AddDsmeACTEntity
<1>5. act' \in [Nodes -> Seq(Entries)] /\ \A m \in Nodes : m # n => act'[m] = act[m]
  BY <1>3
<1>6. ASSUME NEW m \in Nodes
      PROVE  /\ Len(act[m]) \in Nat /\ Len(act'[m]) \in Nat /\ Len(act[m]) <= Len(act'[m])
             /\ DOMAIN act[m] \subseteq DOMAIN act'[m]
             /\ \A i \in DOMAIN act[m] : act'[m][i] = act[m][i]
  <2>1. CASE m # n
    BY <1>3, <1>5, <2>1
  <2>2. CASE m = n
    <3>1. act'[m] = Append(act[m], x) /\ act[m] \in Seq(Entries)
      BY <1>3, <2>2
    <3>2. /\ Len(act'[m]) = Len(act[m]) + 1
          /\ \A i \in 1..Len(act[m]) : act'[m][i] = act[m][i]
      BY <3>1, AppendProperties
    <3> QED
      BY <3>1, <3>2, <1>5
  <2> QED
    BY <2>1, <2>2
<1>7. \A m \in Nodes : MacOk(m)'
  BY <1>1, <1>4, <1>5 DEF BeaconInv, MacOk, Complete
<1>8. ASSUME NEW e \in queue PROVE EventInv(e)'
  <2>1. EventInv(e) /\ e.node \in Nodes
    BY DEF BeaconInv, EventInv, EventTypes
  <2>2. EventTypes(e)'
    BY <1>4, <1>6, <2>1 DEF EventInv, EventTypes
  <2>3. EventInSlot(e)'
    BY <1>4, <2>1 DEF EventInv, EventInSlot
  <2>4. e.do = "StartGTS" => act'[e.node][e.gts] = act[e.node][e.gts]
    BY <1>6, <2>1 DEF EventInv, EventTypes, GtsHandlers
  <2>5. EventInCell(e)'
    BY <1>4, <2>1, <2>4 DEF EventInv, EventInCell, GtsOffset, config
  <2>6. EventOfSender(e)'
    BY <1>1, <1>4, <1>5, <2>1 DEF EventInv, EventOfSender
  <2> QED
    BY <2>2, <2>3, <2>5, <2>6 DEF EventInv
<1>9. TypeOK'
  <2>1. \A m \in Nodes : /\ mac'[m].gts \in 0..Len(act'[m])
                         /\ mac'[m].allocated \subseteq DOMAIN act'[m]
    <3> SUFFICES ASSUME NEW m \in Nodes PROVE /\ mac[m].gts \in 0..Len(act'[m])
                                              /\ mac[m].allocated \subseteq DOMAIN act'[m]
      BY <1>4
    <3>1. mac[m].gts \in 0..Len(act[m]) /\ mac[m].allocated \subseteq DOMAIN act[m]
      BY DEF BeaconInv, TypeOK
    <3> QED
      BY <3>1, <1>6
  <2> QED
    BY <1>4, <1>5, <2>1 DEF BeaconInv, TypeOK, config, history
<1> QED
  BY <1>4, <1>7, <1>8, <1>9 DEF BeaconInv

LEMMA InitInv == Init => BeaconInv
<1> SUFFICES ASSUME Init PROVE BeaconInv
  OBVIOUS
<1> PICK flags \in FlagsAtStart : mac = [n \in Nodes |-> MacAtStart(flags[n])]
  BY DEF Init
<1>1. ASSUME NEW n \in Nodes
      PROVE  /\ MacAtStart(flags[n]) \in MacTypes
             /\ MacAtStart(flags[n]).gts = 0 /\ MacAtStart(flags[n]).allocated = {}
  <2>1. /\ 0 \in 0..NumSuperframes - 1 /\ 0 \in 0..StopTime /\ 0 \in 0..aMaxLostBeacons + 1
        /\ 0 \in 0..255 /\ {} \subseteq Nat /\ "BEACON" \in Periods
    BY DsmeDurations DEF aMaxLostBeacons, Periods
  <2>2. 0 \in 0..NumSuperframes * NumMultis - 1
    <3>1. /\ NumSuperframes \in Nat /\ NumSuperframes > 0
          /\ NumMultis \in Nat /\ NumMultis > 0
      BY DsmeDurations
    <3>2. NumSuperframes * NumMultis >= NumMultis /\ NumSuperframes * NumMultis \in Nat
      BY <3>1, Product
    <3> QED
      BY <3>1, <3>2
  <2>3. flags[n] \in [out : BOOLEAN, inc : BOOLEAN]
    BY DsmeConstants
  <2>4. MacAtStart(flags[n]) \in MacTypes
    BY <2>1, <2>2, <2>3 DEF MacAtStart, MacTypes
  <2> QED
    BY <2>4 DEF MacAtStart
<1>2. mac \in [Nodes -> MacTypes] /\ \A n \in Nodes : mac[n] = MacAtStart(flags[n])
  BY <1>1
<1>3. act \in [Nodes -> Seq(Entries)]
  BY DsmeConstants DEF Init
<1>4. ASSUME NEW f \in queue
      PROVE  \E i \in DOMAIN Boot : Like(f, Event(0, Boot[i].node, Boot[i].do, "OUT"))
  <2>1. PICK es : es = [i \in DOMAIN Boot |-> Event(0, Boot[i].node, Boot[i].do, "OUT")]
    OBVIOUS
  <2>2. f \in ScheduleAll({}, es)
    BY <1>4, <2>1 DEF Init
  <2>3. PICK e \in Items(es) : Like(f, e)
    BY <2>2, Scheduled
  <2> QED
    BY <2>1, <2>3 DEF Items
<1>5. ASSUME NEW f \in queue PROVE EventInv(f)
  <2>1. PICK i \in DOMAIN Boot : Like(f, Event(0, Boot[i].node, Boot[i].do, "OUT"))
    BY <1>4
  <2>2. /\ Boot[i] \in [node : Nodes, do : {"StartRequest", "SyncRequest"}]
        /\ Boot[i].do = "StartRequest" => Boot[i].node \notin Devices
    <3>1. PICK S : S = [node : Nodes, do : {"StartRequest", "SyncRequest"}]
      OBVIOUS
    <3>2. Boot \in Seq(S)
      BY <3>1, DsmeConstants
    <3>3. Boot[i] \in S
      BY <3>2
    <3>4. Boot[i].do = "StartRequest" => Boot[i].node \notin Devices
      BY DsmeConstants
    <3> QED
      BY <3>1, <3>3, <3>4
  <2>3. /\ f.at = 0 /\ f.node \in Nodes /\ f.do \in {"StartRequest", "SyncRequest"}
        /\ f.do = "StartRequest" => f.node \notin Devices
    BY <2>1, <2>2 DEF Like, Event
  <2> QED
    BY <2>3 DEF EventInv, EventTypes, EventInSlot, EventInCell, EventOfSender, OfSender,
                GtsHandlers, OwnPeriods
<1>6. \A n \in Nodes : MacOk(n)
  <2>1. OnGrid(0, BI, 0)
    BY Durations DEF OnGrid
  <2>2. ASSUME NEW n \in Nodes
        PROVE  mac[n].sendBcn = FALSE /\ mac[n].parentStart = 0 /\ mac[n].bcnStart = 0
    BY <1>2 DEF MacAtStart
  <2> QED
    BY <1>2, <2>1, <2>2 DEF MacOk
<1>7. TypeOK
  <2>1. \A e \in queue : e.at \in Nat /\ e.node \in Nodes
    BY <1>5 DEF EventInv, EventTypes
  <2>2. \A n \in Nodes : mac[n].gts \in 0..Len(act[n]) /\ mac[n].allocated \subseteq DOMAIN act[n]
    <3> SUFFICES ASSUME NEW n \in Nodes
                 PROVE  mac[n].gts \in 0..Len(act[n]) /\ mac[n].allocated \subseteq DOMAIN act[n]
      OBVIOUS
    <3>1. mac[n].gts = 0 /\ mac[n].allocated = {}
      BY <1>1, <1>2
    <3>2. Len(act[n]) \in Nat
      BY <1>3
    <3> QED
      BY <3>1, <3>2
  <2>3. now \in 0..StopTime
    BY Durations DEF Init
  <2> QED
    BY <1>2, <1>3, <2>1, <2>2, <2>3 DEF Init, TypeOK
<1> QED
  BY <1>5, <1>6, <1>7 DEF BeaconInv

-----------------------------------------------------------------------------
(* The theorems *)

\* Whatever the simulator runs next, in whatever order it was scheduled, and
\* whatever the higher layer adds, the invariant is kept.
THEOREM DsmeInvariant == Spec => []BeaconInv
<1>1. ASSUME BeaconInv, [Next]_vars PROVE BeaconInv'
  <2>1. ASSUME NEW ev \in queue, Handler(ev) PROVE BeaconInv'
    <3>1. CASE StartGTS(ev) \/ EndGTS(ev) \/ SendGack(ev) \/ GackSent(ev)
      BY <1>1, <3>1, StartGtsInv, GtsInv
    <3>2. CASE StartCAP(ev) \/ AwaitBeacon(ev) \/ StartSuperframe(ev) \/ SetIdle(ev)
      BY <1>1, <3>2, PeriodInv
    <3>3. CASE StartCFP(ev) \/ StartRemainingPeriod(ev) \/ StartMultisuperframe(ev)
      BY <1>1, <3>3, StartCfpInv, StartRemainingInv, StartMultiInv
    <3>4. CASE StartRequest(ev) \/ SendOneEnhancedBeacon(ev) \/ StartTx(ev)
      BY <1>1, <3>4, StartRequestInv, SendBeaconInv, StartTxInv
    <3>5. CASE EndTx(ev) \/ EndRx(ev) \/ BeaconLost(ev)
      BY <1>1, <3>5, EndTxInv, EndRxInv, BeaconLostInv
    <3>6. CASE SyncRequest(ev) \/ BeaconSearchTimeout(ev)
      BY <1>1, <3>6, SyncInv, SearchTimeoutInv
    <3> QED
      BY <2>1, <3>1, <3>2, <3>3, <3>4, <3>5, <3>6 DEF Handler
  <2>2. CASE UNCHANGED vars
    BY <1>1, <2>2 DEF BeaconInv, TypeOK, MacOk, EventInv, EventTypes, EventInSlot, EventInCell,
                      EventOfSender, GtsOffset, vars, config, history
  <2> QED
    BY <1>1, <2>1, <2>2, AddEntityInv DEF Next
<1> QED
  BY <1>1, InitInv, PTL DEF Spec

\* m_numLostBeacons, the sequence number, the channel, the superframe index and
\* the rest of each MAC stay in their ranges, and GTSs refer to entries of the
\* table, in a PAN of any size.
THEOREM DsmeTypes == Spec => []TypeOK
<1>1. BeaconInv => TypeOK
  BY DEF BeaconInv
<1> QED
  BY <1>1, DsmeInvariant, PTL

\* A coordinator's beacons stay in the superframe it has chosen, whichever
\* beacon it heard first and whatever it misses later (PdDataIndication and
\* StartRemainingPeriod, lr-wpan-mac.cc:2475-2498, 1690-1706).
THEOREM DsmeBeaconInItsSlot == Spec => []BeaconInItsSlot
<1>1. ASSUME BeaconInv PROVE BeaconInItsSlot
  <2> SUFFICES ASSUME NEW e \in queue, e.do = "SendBeacon" PROVE e.at % BI = BeaconSlot(e.node)
    BY DEF BeaconInItsSlot, BeaconSlot
  <2>1. e.node \in Nodes \ Devices /\ OnGrid(e.at, BI, BeaconSlot(e.node))
    BY <1>1 DEF BeaconInv, EventInv, EventTypes, EventInSlot
  <2> QED
    BY <2>1, BeaconSlotType, GridMod, Durations
<1> QED
  BY <1>1, DsmeInvariant, PTL

\* If no coordinator is given entries later, every GTS starts in its cell of the
\* multisuperframe: a coordinator's on time, a device's late by the airtime of
\* one beacon, whichever beacon of the PAN coordinator it heard and whenever
\* its entry was added (ScheduleGts, StartGTS).  A coordinator schedules a late
\* entry at the end of its own beacon, not at the start of a multisuperframe.
THEOREM DsmeGtsInItsCell ==
  ASSUME \A late \in LateEntries : late.node \notin Coords
  PROVE  Spec => []GtsInItsCell
<1>1. ASSUME BeaconInv PROVE GtsInItsCell
  <2> SUFFICES ASSUME NEW e \in queue, e.do = "StartGTS"
               PROVE  (e.at - GtsOffset(act[e.node][e.gts])) % MultiLen = Lateness(e.node)
    BY DEF GtsInItsCell, Lateness
  <2>1. /\ e.node \in Nodes /\ e.gts \in DOMAIN act[e.node] /\ e.node # PanC
        /\ e.node \in Devices \/ Complete(e.node) =>
             OnGrid(e.at, MultiLen, Lateness(e.node) + GtsOffset(act[e.node][e.gts]))
    BY <1>1 DEF BeaconInv, EventInv, EventTypes, EventInCell, GtsHandlers
  <2>2. e.node \in Devices \/ Complete(e.node)
    BY <2>1 DEF Nodes, Complete
  <2>3. act[e.node] \in Seq(Entries) /\ capReduction \in BOOLEAN
    BY <1>1, <2>1 DEF BeaconInv, TypeOK
  <2>4. act[e.node][e.gts] \in Entries
    BY <2>1, <2>3
  <2>5. PICK o \in Nat : o = GtsOffset(act[e.node][e.gts])
    BY <2>3, <2>4, GtsOffsetType
  <2>6. Lateness(e.node) \in 0..MultiLen - 1
    <3>1. /\ BeaconDelay \in Nat /\ MultiLen \in Nat /\ SD \in Nat /\ SD > 0 /\ MultiLen >= SD
          /\ BeaconDelay < SD \div 16
      BY Durations, DsmeDurations DEF Slot
    <3>2. SD \div 16 <= SD
      BY <3>1
    <3> QED
      BY <3>1, <3>2 DEF Lateness
  <2>7. PICK k \in Nat : e.at = k * MultiLen + (Lateness(e.node) + o)
    BY <2>1, <2>2, <2>5 DEF OnGrid
  <2>8. e.at - o = k * MultiLen + Lateness(e.node)
    BY <2>6, <2>7, Durations
  <2>9. OnGrid(e.at - o, MultiLen, Lateness(e.node))
    BY <2>8 DEF OnGrid
  <2>10. (e.at - o) % MultiLen = Lateness(e.node)
    BY <2>6, <2>9, GridMod, Durations
  <2> QED
    BY <2>5, <2>10
<1> QED
  BY <1>1, DsmeInvariant, PTL
=============================================================================
