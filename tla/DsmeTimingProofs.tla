-------------------------- MODULE DsmeTimingProofs --------------------------
(***************************************************************************)
(* TLAPS proofs about DsmeSuperframe in which the order of events matters: *)
(* which events are in the queue together, and what has happened when one  *)
(* of them is taken.  Delays, lost beacons, and GTSs one at a time.        *)
(***************************************************************************)
EXTENDS DsmeSuperframeProofs

-----------------------------------------------------------------------------
(* What a handler adds to the queue *)

\* r has the events of q and one event like each of New.
Adds(q, r, New) ==
  /\ q \subseteq r
  /\ \A f \in r : f \in q \/ \E e \in New : Like(f, e)
  /\ \A e \in New : \E f \in r : Like(f, e)
  /\ \A f, g \in r : f \in q \/ g \in q \/ (Like(f, g) => f = g)

LEMMA LikeIsEquivalence ==
  ASSUME NEW e, NEW f, NEW g, Like(e, f)
  PROVE  Like(f, e) /\ (Like(f, g) => Like(e, g)) /\ (Like(e, g) => Like(f, g))
BY DEF Like

LEMMA NumberedLike ==
  ASSUME NEW e, NEW u
  PROVE  Like(Numbered(e, u), e)
BY DEF Like, Numbered

LEMMA ScheduleAdds ==
  ASSUME NEW q, NEW es, \A k, l \in DOMAIN es : Like(es[k], es[l]) => k = l
  PROVE  Adds(q, ScheduleAll(q, es), Items(es))
<1> DEFINE N(k) == Numbered(es[k], LastUid(q, es[k].at) + k)
           r == ScheduleAll(q, es)
<1>1. r = q \cup {N(k) : k \in DOMAIN es}
  BY DEF ScheduleAll
<1>2. \A k \in DOMAIN es : Like(N(k), es[k])
  BY NumberedLike
<1> HIDE DEF N, r
<1>3. \A f \in r : f \in q \/ \E e \in Items(es) : Like(f, e)
  BY <1>1, <1>2 DEF Items
<1>4. \A e \in Items(es) : \E f \in r : Like(f, e)
  BY <1>1, <1>2 DEF Items
<1>5. ASSUME NEW f \in r, NEW g \in r, f \notin q, g \notin q, Like(f, g)
      PROVE  f = g
  <2>1. PICK k \in DOMAIN es : f = N(k)
    BY <1>1, <1>5
  <2>2. PICK l \in DOMAIN es : g = N(l)
    BY <1>1, <1>5
  <2>3. Like(es[k], es[l])
    BY <1>2, <1>5, <2>1, <2>2 DEF Like
  <2> QED
    BY <2>1, <2>2, <2>3
<1> QED
  BY <1>1, <1>3, <1>4, <1>5 DEF Adds, r

LEMMA AddsTwice ==
  ASSUME NEW q, NEW r, NEW s, NEW A, NEW B, Adds(q, r, A), Adds(r, s, B),
         \A a \in A, b \in B : ~Like(a, b)
  PROVE  Adds(q, s, A \cup B)
<1>1. q \subseteq s /\ (\A f \in s : f \in q \/ \E e \in A \cup B : Like(f, e))
  BY DEF Adds
<1>2. \A e \in A \cup B : \E f \in s : Like(f, e)
  BY DEF Adds
<1>3. ASSUME NEW f \in s, NEW g \in s, f \notin q, g \notin q, Like(f, g)
      PROVE  f = g
  <2>1. ASSUME NEW x \in r, x \notin q PROVE \E a \in A : Like(x, a)
    BY <2>1 DEF Adds
  <2>2. ASSUME NEW x \in s, x \notin r PROVE \E b \in B : Like(x, b)
    BY <2>2 DEF Adds
  <2>3. CASE f \in r /\ g \in r
    BY <1>3, <2>3 DEF Adds
  <2>4. CASE f \notin r /\ g \notin r
    BY <1>3, <2>4 DEF Adds
  <2>5. CASE f \in r /\ g \notin r
    <3>1. PICK a \in A : Like(f, a)
      BY <1>3, <2>1, <2>5
    <3>2. PICK b \in B : Like(g, b)
      BY <2>2, <2>5
    <3>3. Like(a, b)
      BY <1>3, <3>1, <3>2 DEF Like
    <3> QED
      BY <3>3
  <2>6. CASE f \notin r /\ g \in r
    <3>1. PICK a \in A : Like(g, a)
      BY <1>3, <2>1, <2>6
    <3>2. PICK b \in B : Like(f, b)
      BY <2>2, <2>6
    <3>3. Like(a, b)
      BY <1>3, <3>1, <3>2 DEF Like
    <3> QED
      BY <3>3
  <2> QED
    BY <2>3, <2>4, <2>5, <2>6
<1> QED
  BY <1>1, <1>2, <1>3 DEF Adds

\* The lists that handlers schedule.
LEMMA AddsNone ==
  ASSUME NEW q
  PROVE  Adds(q, ScheduleAll(q, <<>>), {})
<1>1. Items(<<>>) = {} /\ \A k, l \in DOMAIN <<>> : k = l
  BY ItemsOfLists
<1> QED
  BY <1>1, ScheduleAdds

LEMMA AddsOne ==
  ASSUME NEW q, NEW a
  PROVE  Adds(q, ScheduleAll(q, <<a>>), {a})
<1>1. Items(<<a>>) = {a} /\ \A k, l \in DOMAIN <<a>> : k = l
  BY ItemsOfLists
<1> QED
  BY <1>1, ScheduleAdds

LEMMA AddsTwo ==
  ASSUME NEW q, NEW a, NEW b, ~Like(a, b)
  PROVE  Adds(q, ScheduleAll(q, <<a, b>>), {a, b})
<1>1. Items(<<a, b>>) = {a, b}
  BY ItemsOfLists
<1>2. DOMAIN <<a, b>> = {1, 2} /\ <<a, b>>[1] = a /\ <<a, b>>[2] = b
  OBVIOUS
<1>3. ~Like(b, a)
  BY DEF Like
<1>4. \A k, l \in DOMAIN <<a, b>> : Like(<<a, b>>[k], <<a, b>>[l]) => k = l
  BY <1>2, <1>3
<1> QED
  BY <1>1, <1>4, ScheduleAdds

Distinct(es) == \A k, l \in DOMAIN es : Like(es[k], es[l]) => k = l

LEMMA ShortDistinct ==
  /\ Distinct(<<>>)
  /\ \A a : Distinct(<<a>>)
  /\ \A a, b : ~Like(a, b) => Distinct(<<a, b>>)
<1>1. Distinct(<<>>) /\ \A a : Distinct(<<a>>)
  BY DEF Distinct
<1>2. ASSUME NEW a, NEW b, ~Like(a, b) PROVE Distinct(<<a, b>>)
  <2>1. DOMAIN <<a, b>> = {1, 2} /\ <<a, b>>[1] = a /\ <<a, b>>[2] = b
    OBVIOUS
  <2>2. ~Like(b, a)
    BY <1>2 DEF Like
  <2> QED
    BY <1>2, <2>1, <2>2 DEF Distinct
<1> QED
  BY <1>1, <1>2

\* One list after another.
LEMMA AddsConcat ==
  ASSUME NEW q, NEW S, NEW a \in Seq(S), NEW b \in Seq(S), Distinct(a), Distinct(b),
         \A x \in Items(a), y \in Items(b) : ~Like(x, y)
  PROVE  Adds(q, ScheduleAll(q, a \o b), Items(a) \cup Items(b))
<1>1. PICK es : es = a \o b
  OBVIOUS
<1>2. /\ es \in Seq(S) /\ Len(es) = Len(a) + Len(b)
      /\ \A i \in 1..Len(es) : es[i] = IF i <= Len(a) THEN a[i] ELSE b[i - Len(a)]
  BY <1>1, ConcatProperties
<1>3. /\ Len(a) \in Nat /\ Len(b) \in Nat
      /\ DOMAIN a = 1..Len(a) /\ DOMAIN b = 1..Len(b) /\ DOMAIN es = 1..Len(es)
  BY <1>2
<1>4. ASSUME NEW k \in DOMAIN es, NEW l \in DOMAIN es, Like(es[k], es[l])
      PROVE  k = l
  <2>1. /\ k <= Len(a) => k \in DOMAIN a /\ es[k] = a[k]
        /\ k > Len(a) => k - Len(a) \in DOMAIN b /\ es[k] = b[k - Len(a)]
    BY <1>2, <1>3
  <2>2. /\ l <= Len(a) => l \in DOMAIN a /\ es[l] = a[l]
        /\ l > Len(a) => l - Len(a) \in DOMAIN b /\ es[l] = b[l - Len(a)]
    BY <1>2, <1>3
  <2>3. k \in Nat /\ l \in Nat
    BY <1>2, <1>3
  <2>4. CASE k <= Len(a) /\ l <= Len(a)
    BY <1>4, <2>1, <2>2, <2>4 DEF Distinct
  <2>5. CASE k > Len(a) /\ l > Len(a)
    <3>1. k - Len(a) = l - Len(a)
      BY <1>4, <2>1, <2>2, <2>5 DEF Distinct
    <3> QED
      BY <1>3, <2>3, <3>1
  <2>6. CASE k <= Len(a) /\ l > Len(a)
    BY <1>4, <2>1, <2>2, <2>6 DEF Items
  <2>7. CASE k > Len(a) /\ l <= Len(a)
    <3>1. Like(es[l], es[k])
      BY <1>4 DEF Like
    <3> QED
      BY <2>1, <2>2, <2>7, <3>1 DEF Items
  <2> QED
    BY <1>3, <2>3, <2>4, <2>5, <2>6, <2>7
<1>5. Items(es) = Items(a) \cup Items(b)
  BY <1>1, ItemsOfConcat
<1> QED
  BY <1>1, <1>4, <1>5, ScheduleAdds

\* One list, and another under a condition.
LEMMA AddsWhen ==
  ASSUME NEW q, NEW S, NEW a \in Seq(S), NEW b \in Seq(S), NEW c, NEW d,
         Distinct(a), Distinct(b), \A x \in Items(a), y \in Items(b) : ~Like(x, y)
  PROVE  Adds(q, ScheduleAll(q, When(c, a) \o When(d, b)),
              (IF c THEN Items(a) ELSE {}) \cup (IF d THEN Items(b) ELSE {}))
<1>1. /\ When(c, a) \in Seq(S) /\ Distinct(When(c, a))
      /\ Items(When(c, a)) = IF c THEN Items(a) ELSE {}
  <2>1. CASE c
    BY <2>1 DEF When
  <2>2. CASE ~c
    <3>1. When(c, a) = <<>>
      BY <2>2 DEF When
    <3> QED
      BY <2>2, <3>1, ItemsOfLists, ShortDistinct
  <2> QED
    BY <2>1, <2>2
<1>2. /\ When(d, b) \in Seq(S) /\ Distinct(When(d, b))
      /\ Items(When(d, b)) = IF d THEN Items(b) ELSE {}
  <2>1. CASE d
    BY <2>1 DEF When
  <2>2. CASE ~d
    <3>1. When(d, b) = <<>>
      BY <2>2 DEF When
    <3> QED
      BY <2>2, <3>1, ItemsOfLists, ShortDistinct
  <2> QED
    BY <2>1, <2>2
<1>3. \A x \in Items(When(c, a)), y \in Items(When(d, b)) : ~Like(x, y)
  BY <1>1, <1>2
<1>4. Adds(q, ScheduleAll(q, When(c, a) \o When(d, b)), Items(When(c, a)) \cup Items(When(d, b)))
  BY <1>1, <1>2, <1>3, AddsConcat
<1> QED
  BY <1>1, <1>2, <1>4

-----------------------------------------------------------------------------
(* Kinds of events, and the parts of a MAC that belong to them *)

\* "own" are the events of the superframe that a node sends, "in" those of the
\* one that it receives.
Kind(e) ==
  IF e.do \in GtsHandlers THEN "gts"
  ELSE IF e.do \in {"StartMultisuperframe", "StartSuperframe"} THEN "multi"
  ELSE IF e.do \in {"StartRequest", "SyncRequest", "SearchTimeout", "SetIdle", "EndRx"} THEN e.do
  ELSE IF e.do = "SendBeacon" \/ (e.do \in OwnPeriods /\ e.arg = "OUT") THEN "own"
  ELSE "in"

\* The step removes and adds events of these kinds only.
Touches(kinds) == \A f : Kind(f) \notin kinds => (f \in queue' <=> f \in queue)

LEMMA AddsTouches ==
  ASSUME NEW ev, NEW New, NEW kinds, NEW q, Adds(q, queue', New), Kind(ev) \in kinds,
         \A e \in New : Kind(e) \in kinds, q \subseteq queue,
         \A f \in queue : f \notin q => Kind(f) \in kinds
  PROVE  Touches(kinds)
<1> SUFFICES ASSUME NEW f, Kind(f) \notin kinds PROVE f \in queue' <=> f \in queue
  BY DEF Touches
<1>1. ASSUME f \in queue PROVE f \in queue'
  BY <1>1 DEF Adds
<1>2. ASSUME f \in queue' PROVE f \in queue
  <2>1. ASSUME NEW e \in New, Like(f, e) PROVE FALSE
    <3>1. Kind(f) = Kind(e)
      BY <2>1 DEF Kind, Like
    <3> QED
      BY <3>1
  <2> QED
    BY <1>2, <2>1 DEF Adds
<1> QED
  BY <1>1, <1>2

KeepRadio(n) ==
  /\ mac'[n].state = mac[n].state /\ mac'[n].channel = mac[n].channel
  /\ mac'[n].rxOn = mac[n].rxOn /\ mac'[n].gts = mac[n].gts

KeepTable(n) == mac'[n].allocated = mac[n].allocated
KeepBsn(n) == mac'[n].bsn = mac[n].bsn
KeepOwn(n) ==
  /\ mac'[n].out = mac[n].out /\ mac'[n].firstCFP = mac[n].firstCFP
  /\ mac'[n].sendBcn = mac[n].sendBcn /\ mac'[n].bcnStart = mac[n].bcnStart
  /\ mac'[n].bitmapSd = mac[n].bitmapSd

KeepIn(n) == mac'[n].inc = mac[n].inc /\ mac'[n].incFirstCFP = mac[n].incFirstCFP
KeepIdx(n) == mac'[n].idx = mac[n].idx /\ mac'[n].isFirst = mac[n].isFirst
KeepTrack(n) ==
  /\ mac'[n].known = mac[n].known /\ mac'[n].trackingOn = mac[n].trackingOn
  /\ mac'[n].numLost = mac[n].numLost

Only(n) == \A m \in Nodes : m # n => mac'[m] = mac[m]

LEMMA MacTyped ==
  ASSUME BeaconInv
  PROVE  mac \in [Nodes -> MacTypes]
BY DEF BeaconInv, TypeOK

-----------------------------------------------------------------------------
(* The handlers of GTSs *)

Gacks(ev) == act[ev.node][ev.gts].slot \in GackSlots /\ ~act[ev.node][ev.gts].rx

GtsEvents(ev) ==
  {GtsEvent(ev.at + MultiLen, ev.node, "StartGTS", ev.gts),
   GtsEvent(ev.at + EndGtsTime, ev.node, "EndGTS", ev.gts)}
  \cup IF Gacks(ev) THEN {GtsEvent(ev.at + GackTime, ev.node, "SendGack", ev.gts)} ELSE {}

LEMMA StartGtsStep ==
  ASSUME BeaconInv, NEW ev \in queue, StartGTS(ev)
  PROVE  /\ Adds(queue \ {ev}, queue', GtsEvents(ev)) /\ Touches({"gts"})
         /\ Only(ev.node) /\ mac'[ev.node].state = "GTS" /\ mac'[ev.node].gts = ev.gts
         /\ mac'[ev.node].channel = Hop(ev.node, act[ev.node][ev.gts])
         /\ mac'[ev.node].rxOn = act[ev.node][ev.gts].rx
         /\ \A m \in Nodes : /\ KeepTable(m) /\ KeepBsn(m) /\ KeepOwn(m) /\ KeepIn(m)
                             /\ KeepIdx(m) /\ KeepTrack(m)
<1> DEFINE n == ev.node
           e == act[n][ev.gts]
           e1 == GtsEvent(ev.at + MultiLen, n, "StartGTS", ev.gts)
           e2 == GtsEvent(ev.at + EndGtsTime, n, "EndGTS", ev.gts)
           e3 == GtsEvent(ev.at + GackTime, n, "SendGack", ev.gts)
           q == queue \ {ev}
<1>1. n \in Nodes /\ mac \in [Nodes -> MacTypes] /\ now' = ev.at /\ ev.do = "StartGTS"
  BY Running, MacTyped DEF StartGTS, Runs
<1>2. queue' = ScheduleAll(q, <<e1, e2>> \o When(Gacks(ev), <<e3>>))
  BY <1>1 DEF StartGTS, Then, Gacks
<1>3. e1.do = "StartGTS" /\ e2.do = "EndGTS" /\ e3.do = "SendGack"
  BY DEF GtsEvent
<1>4. mac' = [mac EXCEPT ![n].channel = Hop(n, e), ![n].state = "GTS", ![n].rxOn = e.rx,
                         ![n].gts = ev.gts]
  BY DEF StartGTS
<1>5. Adds(q, queue', GtsEvents(ev))
  <2> HIDE DEF e1, e2, e3, q
  <2>1. ~Like(e1, e2) /\ ~Like(e1, e3) /\ ~Like(e2, e3)
    BY <1>3 DEF Like
  <2>2. <<e1, e2>> \in Seq({e1, e2, e3}) /\ <<e3>> \in Seq({e1, e2, e3})
    BY ShortLists
  <2>3. Distinct(<<e1, e2>>) /\ Distinct(<<e3>>)
    BY <2>1, ShortDistinct
  <2>4. Items(<<e1, e2>>) = {e1, e2} /\ Items(<<e3>>) = {e3}
    BY ItemsOfLists
  <2>5. When(TRUE, <<e1, e2>>) = <<e1, e2>>
    BY DEF When
  <2>6. Adds(q, queue', (IF TRUE THEN {e1, e2} ELSE {}) \cup (IF Gacks(ev) THEN {e3} ELSE {}))
    BY <1>2, <2>1, <2>2, <2>3, <2>4, <2>5, AddsWhen
  <2> QED
    BY <2>6 DEF GtsEvents, e1, e2, e3
<1>6. Touches({"gts"})
  <2>1. \A x \in GtsEvents(ev) : Kind(x) = "gts"
    BY DEF GtsEvents, GtsEvent, Kind, GtsHandlers
  <2>2. Kind(ev) = "gts"
    BY <1>1 DEF Kind, GtsHandlers
  <2> QED
    BY <1>5, <2>1, <2>2, AddsTouches
<1>7. /\ Only(n) /\ mac'[n].state = "GTS" /\ mac'[n].gts = ev.gts
      /\ mac'[n].channel = Hop(n, e) /\ mac'[n].rxOn = e.rx
  <2> HIDE DEF e, n
  <2> QED
    BY <1>1, <1>4 DEF MacTypes, Only
<1>8. ASSUME NEW m \in Nodes
      PROVE  KeepTable(m) /\ KeepBsn(m) /\ KeepOwn(m) /\ KeepIn(m) /\ KeepIdx(m) /\ KeepTrack(m)
  <2> HIDE DEF e, n
  <2> QED
    BY <1>1, <1>4 DEF MacTypes, KeepTable, KeepBsn, KeepOwn, KeepIn, KeepIdx, KeepTrack
<1> QED
  BY <1>5, <1>6, <1>7, <1>8

LEMMA ThenAdds ==
  ASSUME NEW ev, NEW a
  PROVE  /\ Then(ev, <<>>) => Adds(queue \ {ev}, queue', {})
         /\ Then(ev, <<a>>) => Adds(queue \ {ev}, queue', {a})
BY AddsNone, AddsOne DEF Then

\* The simplest cases of AddsTouches.
LEMMA TouchesOwnKind ==
  ASSUME NEW ev, NEW New, Adds(queue \ {ev}, queue', New), \A e \in New : Kind(e) = Kind(ev)
  PROVE  Touches({Kind(ev)})
BY AddsTouches

LEMMA GtsSteps ==
  ASSUME BeaconInv, NEW ev \in queue
  PROVE  LET n == ev.node
             sent == GtsEvent(ev.at + GackLen, n, "GackSent", ev.gts)
         IN /\ EndGTS(ev) =>
                 /\ Adds(queue \ {ev}, queue', {})
                 /\ mac'[n].state = "IDLE" /\ mac'[n].channel = CapChannel
                 /\ mac'[n].rxOn = TRUE /\ mac'[n].gts = mac[n].gts
            /\ SendGack(ev) =>
                 /\ Adds(queue \ {ev}, queue', {sent})
                 /\ mac'[n].state = "GTS_SENDING" /\ mac'[n].channel = mac[n].channel
                 /\ mac'[n].rxOn = mac[n].rxOn /\ mac'[n].gts = mac[n].gts
            /\ GackSent(ev) =>
                 /\ Adds(queue \ {ev}, queue', {})
                 /\ mac'[n].state = "GTS" /\ mac'[n].channel = mac[n].channel
                 /\ mac'[n].rxOn = mac[n].rxOn /\ mac'[n].gts = mac[n].gts
            /\ EndGTS(ev) \/ SendGack(ev) \/ GackSent(ev) =>
                 /\ Touches({"gts"}) /\ Only(n)
                 /\ \A m \in Nodes : /\ KeepTable(m) /\ KeepBsn(m) /\ KeepOwn(m) /\ KeepIn(m)
                                     /\ KeepIdx(m) /\ KeepTrack(m)
<1> DEFINE n == ev.node
           sent == GtsEvent(ev.at + GackLen, n, "GackSent", ev.gts)
<1>1. n \in Nodes /\ mac \in [Nodes -> MacTypes]
  BY Running, MacTyped
<1>2. ev.do \in GtsHandlers => Kind(ev) = "gts"
  BY DEF Kind
<1>3. Kind(sent) = "gts"
  BY DEF Kind, GtsHandlers, GtsEvent
<1>4. ASSUME EndGTS(ev)
      PROVE  /\ Adds(queue \ {ev}, queue', {}) /\ Touches({"gts"}) /\ Only(n)
             /\ mac'[n].state = "IDLE" /\ mac'[n].channel = CapChannel
             /\ mac'[n].rxOn = TRUE /\ mac'[n].gts = mac[n].gts
             /\ \A m \in Nodes : /\ KeepTable(m) /\ KeepBsn(m) /\ KeepOwn(m) /\ KeepIn(m)
                                 /\ KeepIdx(m) /\ KeepTrack(m)
  <2>1. Adds(queue \ {ev}, queue', {})
    BY <1>4, ThenAdds DEF EndGTS
  <2>2. ev.do = "EndGTS"
    BY <1>4 DEF EndGTS, Runs
  <2>3. Touches({"gts"})
    BY <2>1, <2>2, <1>2, TouchesOwnKind DEF GtsHandlers
  <2>4. mac' = [mac EXCEPT ![n].channel = CapChannel, ![n].state = "IDLE", ![n].rxOn = TRUE]
    BY <1>4 DEF EndGTS
  <2> HIDE DEF n
  <2> QED
    BY <1>1, <2>1, <2>3, <2>4
    DEF MacTypes, Only, KeepTable, KeepBsn, KeepOwn, KeepIn, KeepIdx, KeepTrack
<1>5. ASSUME SendGack(ev)
      PROVE  /\ Adds(queue \ {ev}, queue', {sent}) /\ Touches({"gts"}) /\ Only(n)
             /\ mac'[n].state = "GTS_SENDING" /\ mac'[n].channel = mac[n].channel
             /\ mac'[n].rxOn = mac[n].rxOn /\ mac'[n].gts = mac[n].gts
             /\ \A m \in Nodes : /\ KeepTable(m) /\ KeepBsn(m) /\ KeepOwn(m) /\ KeepIn(m)
                                 /\ KeepIdx(m) /\ KeepTrack(m)
  <2>1. Adds(queue \ {ev}, queue', {sent})
    BY <1>5, ThenAdds DEF SendGack, Runs
  <2>2. ev.do = "SendGack"
    BY <1>5 DEF SendGack, Runs
  <2>3. Touches({"gts"})
    BY <2>1, <2>2, <1>2, <1>3, TouchesOwnKind DEF GtsHandlers
  <2>4. mac' = [mac EXCEPT ![n].state = "GTS_SENDING"]
    BY <1>5 DEF SendGack
  <2> HIDE DEF n, sent
  <2> QED
    BY <1>1, <2>1, <2>3, <2>4
    DEF MacTypes, Only, KeepTable, KeepBsn, KeepOwn, KeepIn, KeepIdx, KeepTrack
<1>6. ASSUME GackSent(ev)
      PROVE  /\ Adds(queue \ {ev}, queue', {}) /\ Touches({"gts"}) /\ Only(n)
             /\ mac'[n].state = "GTS" /\ mac'[n].channel = mac[n].channel
             /\ mac'[n].rxOn = mac[n].rxOn /\ mac'[n].gts = mac[n].gts
             /\ \A m \in Nodes : /\ KeepTable(m) /\ KeepBsn(m) /\ KeepOwn(m) /\ KeepIn(m)
                                 /\ KeepIdx(m) /\ KeepTrack(m)
  <2>1. Adds(queue \ {ev}, queue', {})
    BY <1>6, ThenAdds DEF GackSent
  <2>2. ev.do = "GackSent"
    BY <1>6 DEF GackSent, Runs
  <2>3. Touches({"gts"})
    BY <2>1, <2>2, <1>2, TouchesOwnKind DEF GtsHandlers
  <2>4. mac' = [mac EXCEPT ![n].state = "GTS"]
    BY <1>6 DEF GackSent
  <2> HIDE DEF n
  <2> QED
    BY <1>1, <2>1, <2>3, <2>4
    DEF MacTypes, Only, KeepTable, KeepBsn, KeepOwn, KeepIn, KeepIdx, KeepTrack
<1> QED
  BY <1>4, <1>5, <1>6

-----------------------------------------------------------------------------
(* The handlers of a node's own superframe *)

\* The history of the beacons.
heard == <<missed, heardAt, heardFrom, fresh, joined>>

\* What is not changed by them.
OwnFrame ==
  /\ UNCHANGED <<config, act, hearing, history>>
  /\ \A m \in Nodes : KeepTable(m) /\ KeepIn(m) /\ KeepIdx(m) /\ KeepTrack(m)

KeepBeacon(n) ==
  mac'[n].sendBcn = mac[n].sendBcn /\ mac'[n].bcnStart = mac[n].bcnStart
  /\ mac'[n].bitmapSd = mac[n].bitmapSd

LEMMA OwnCapStep ==
  ASSUME BeaconInv, NEW ev \in queue, StartCAP(ev), ev.arg = "OUT"
  PROVE  /\ Adds(queue \ {ev}, queue',
                 {Event(mac[ev.node].bcnStart + CapLen, ev.node, "StartCFP", "OUT")})
         /\ Touches({"own"}) /\ Only(ev.node) /\ OwnFrame
         /\ \A m \in Nodes : KeepRadio(m) /\ KeepBsn(m)
         /\ KeepBeacon(ev.node) /\ mac'[ev.node].firstCFP = mac[ev.node].firstCFP
         /\ mac'[ev.node].out = "CAP"
<1> DEFINE n == ev.node
           e == Event(mac[n].bcnStart + CapLen, n, "StartCFP", "OUT")
<1>1. n \in Nodes /\ mac \in [Nodes -> MacTypes]
  BY Running, MacTyped
<1>2. /\ mac' = [mac EXCEPT ![n].out = "CAP"] /\ Then(ev, <<e>>) /\ ev.do = "StartCAP"
      /\ UNCHANGED <<config, act, hearing, history>>
  BY DEF StartCAP, Runs
<1>3. Adds(queue \ {ev}, queue', {e})
  BY <1>2, ThenAdds
<1>4. Kind(e) = "own" /\ Kind(ev) = "own"
  BY <1>2 DEF Kind, GtsHandlers, OwnPeriods, Event
<1>5. Touches({"own"})
  BY <1>3, <1>4, TouchesOwnKind
<1> HIDE DEF n, e
<1>6. /\ Only(n) /\ OwnFrame /\ KeepBeacon(n) /\ (\A m \in Nodes : KeepRadio(m) /\ KeepBsn(m))
      /\ mac'[n].firstCFP = mac[n].firstCFP /\ mac'[n].out = "CAP"
  BY <1>1, <1>2 DEF MacTypes, Only, OwnFrame, KeepBeacon, KeepTable, KeepIn, KeepIdx, KeepTrack,
     KeepRadio, KeepBsn
<1> QED
  BY <1>3, <1>5, <1>6 DEF n, e

LEMMA OwnCfpStep ==
  ASSUME BeaconInv, NEW ev \in queue, StartCFP(ev), ev.arg = "OUT"
  PROVE  /\ Adds(queue \ {ev}, queue',
                 {IF mac[ev.node].firstCFP
                  THEN Event(ev.at + CapLen - BeaconDelay, ev.node, "StartCFP", "OUT")
                  ELSE Event(ev.at + CfpSlots * Slot, ev.node, "StartRemainingPeriod", "OUT")})
         /\ Touches({"own"}) /\ Only(ev.node) /\ OwnFrame
         /\ \A m \in Nodes : KeepRadio(m) /\ KeepBsn(m)
         /\ KeepBeacon(ev.node) /\ mac'[ev.node].firstCFP = FALSE
         /\ mac'[ev.node].out = "CFP"
<1> DEFINE n == ev.node
           e1 == Event(ev.at + CapLen - BeaconDelay, n, "StartCFP", "OUT")
           e2 == Event(ev.at + CfpSlots * Slot, n, "StartRemainingPeriod", "OUT")
           e == IF mac[n].firstCFP THEN e1 ELSE e2
<1>1. n \in Nodes /\ mac \in [Nodes -> MacTypes]
  BY Running, MacTyped
<1>2. /\ mac' = [mac EXCEPT ![n].out = "CFP", ![n].firstCFP = FALSE] /\ ev.do = "StartCFP"
      /\ Then(ev, IF mac[n].firstCFP THEN <<e1>> ELSE <<e2>>)
      /\ UNCHANGED <<config, act, hearing, history>>
  BY DEF StartCFP, Runs, history
<1>3. Adds(queue \ {ev}, queue', {e})
  <2>1. Then(ev, <<e>>)
    BY <1>2
  <2> QED
    BY <2>1, ThenAdds
<1>4. Kind(e) = "own" /\ Kind(ev) = "own"
  BY <1>2 DEF Kind, GtsHandlers, OwnPeriods, Event
<1>5. Touches({"own"})
  BY <1>3, <1>4, TouchesOwnKind
<1> HIDE DEF n, e
<1>6. /\ Only(n) /\ OwnFrame /\ KeepBeacon(n) /\ (\A m \in Nodes : KeepRadio(m) /\ KeepBsn(m))
      /\ mac'[n].firstCFP = FALSE /\ mac'[n].out = "CFP"
  BY <1>1, <1>2 DEF MacTypes, Only, OwnFrame, KeepBeacon, KeepTable, KeepIn, KeepIdx, KeepTrack,
     KeepRadio, KeepBsn
<1> QED
  BY <1>3, <1>5, <1>6 DEF n, e

LEMMA OwnRemainingStep ==
  ASSUME BeaconInv, NEW ev \in queue, StartRemainingPeriod(ev), ev.arg = "OUT"
  PROVE  /\ Adds(queue \ {ev}, queue',
                 {Event(mac[ev.node].bcnStart + BI, ev.node, "SendBeacon", "OUT")})
         /\ Touches({"own"}) /\ Only(ev.node) /\ OwnFrame
         /\ \A m \in Nodes : KeepRadio(m) /\ KeepBsn(m)
         /\ KeepBeacon(ev.node) /\ mac'[ev.node].firstCFP = mac[ev.node].firstCFP
         /\ mac'[ev.node].out \in {"REMAINING", mac[ev.node].out}
<1> DEFINE n == ev.node
           next == NextBeacon(n, ev.at)
           e == Event(next, n, "SendBeacon", "OUT")
<1>1. n \in Nodes /\ mac \in [Nodes -> MacTypes] /\ ev.at \in Nat
  BY Running, MacTyped
<1>2. next = mac[n].bcnStart + BI
  <2>1. mac[n].bcnStart \in Nat
    BY <1>1, Durations DEF MacTypes
  <2> QED
    BY <1>1, <2>1, Durations DEF NextBeacon
<1>3. PICK p : /\ p \in {"REMAINING", mac[n].out} /\ mac' = [mac EXCEPT ![n].out = p]
  BY DEF StartRemainingPeriod
<1>4. /\ ev.do = "StartRemainingPeriod" /\ Then(ev, <<e>>)
      /\ UNCHANGED <<config, act, hearing, history>>
  BY DEF StartRemainingPeriod, Runs
<1>5. Adds(queue \ {ev}, queue', {e})
  BY <1>4, ThenAdds
<1>6. Kind(e) = "own" /\ Kind(ev) = "own"
  BY <1>4 DEF Kind, GtsHandlers, OwnPeriods, Event
<1>7. Touches({"own"})
  BY <1>5, <1>6, TouchesOwnKind
<1> HIDE DEF n, next
<1>8. /\ Only(n) /\ OwnFrame /\ KeepBeacon(n) /\ (\A m \in Nodes : KeepRadio(m) /\ KeepBsn(m))
      /\ mac'[n].firstCFP = mac[n].firstCFP /\ mac'[n].out = p
  BY <1>1, <1>3, <1>4 DEF MacTypes, Only, OwnFrame, KeepBeacon, KeepTable, KeepIn, KeepIdx,
     KeepTrack, KeepRadio, KeepBsn
<1> QED
  BY <1>2, <1>3, <1>5, <1>7, <1>8 DEF n

LEMMA SendBeaconStep ==
  ASSUME BeaconInv, NEW ev \in queue, SendOneEnhancedBeacon(ev)
  PROVE  /\ Adds(queue \ {ev}, queue', {Event(ev.at + Turnaround, ev.node, "StartTx", "OUT")})
         /\ Touches({"own"}) /\ Only(ev.node) /\ OwnFrame
         /\ mac'[ev.node].bcnStart = ev.at /\ mac'[ev.node].out = "BEACON"
         /\ mac'[ev.node].firstCFP = mac[ev.node].firstCFP
         /\ mac'[ev.node].sendBcn = mac[ev.node].sendBcn
         /\ mac'[ev.node].bitmapSd = mac[ev.node].bitmapSd
         /\ mac'[ev.node].state = "SENDING" /\ mac'[ev.node].gts = mac[ev.node].gts
         /\ mac'[ev.node].channel = mac[ev.node].channel
         /\ mac'[ev.node].bsn = IF ev.node = PanC THEN (mac[PanC].bsn + 1) % 256
                                ELSE mac[ev.node].bsn
<1> DEFINE n == ev.node
           e == Event(ev.at + Turnaround, n, "StartTx", "OUT")
           b == IF n = PanC THEN (mac[n].bsn + 1) % 256 ELSE mac[n].bsn
<1>1. n \in Nodes /\ mac \in [Nodes -> MacTypes] /\ ev.do = "SendBeacon" /\ now' = ev.at
  BY Running, MacTyped DEF SendOneEnhancedBeacon, Runs
<1>2. /\ mac' = [mac EXCEPT ![n].state = "SENDING", ![n].rxOn = FALSE, ![n].out = "BEACON",
                            ![n].bcnStart = ev.at, ![n].bsn = b]
      /\ Then(ev, <<e>>) /\ UNCHANGED <<config, act, hearing, history>>
  BY <1>1 DEF SendOneEnhancedBeacon
<1>3. Adds(queue \ {ev}, queue', {e})
  BY <1>2, ThenAdds
<1>4. Kind(e) = "own" /\ Kind(ev) = "own"
  BY <1>1 DEF Kind, GtsHandlers, OwnPeriods, Event
<1>5. Touches({"own"})
  BY <1>3, <1>4, TouchesOwnKind
<1>6. b = IF n = PanC THEN (mac[PanC].bsn + 1) % 256 ELSE mac[n].bsn
  OBVIOUS
<1> HIDE DEF n, e, b
<1>7. /\ Only(n) /\ OwnFrame /\ mac'[n].bcnStart = ev.at /\ mac'[n].out = "BEACON"
      /\ mac'[n].firstCFP = mac[n].firstCFP /\ mac'[n].sendBcn = mac[n].sendBcn
      /\ mac'[n].bitmapSd = mac[n].bitmapSd /\ mac'[n].bsn = b
      /\ mac'[n].state = "SENDING" /\ mac'[n].gts = mac[n].gts
      /\ mac'[n].channel = mac[n].channel
  BY <1>1, <1>2 DEF MacTypes, Only, OwnFrame, KeepTable, KeepIn, KeepIdx, KeepTrack
<1> QED
  BY <1>3, <1>5, <1>6, <1>7 DEF n, e

\* The end of a beacon comes to its sender and once to each node that hears it.
LEMMA BeaconEndsDistinct ==
  ASSUME NEW n, NEW S \in SUBSET Nodes, NEW t, NEW q
  PROVE  Adds(q, ScheduleAll(q, BeaconEnds(n, S, t)),
              {Event(t, n, "EndTx", "OUT")} \cup {Event(t, m, "EndRx", n) : m \in S})
<1>1. PICK T : T = {Event(t, n, "EndTx", "OUT")} \cup {Event(t, m, "EndRx", n) : m \in S}
  OBVIOUS
<1>2. PICK nodes : nodes = SetToSeq(S)
  OBVIOUS
<1>3. nodes \in Seq(S) /\ IsInjective(nodes) /\ \A m \in S : \E k \in DOMAIN nodes : nodes[k] = m
  <2>1. IsFiniteSet(S)
    BY DsmeConstants, FS_Subset
  <2>2. PICK k \in Nat : k = Cardinality(S) /\ ExistsBijection(1..k, S)
    BY <2>1, FS_CardinalityType
  <2>3. \E f \in [1..k -> S] : IsInjective(f)
    BY <2>2 DEF ExistsBijection, Bijection, Injection
  <2>4. nodes \in [1..k -> S] /\ IsInjective(nodes)
    BY <1>2, <2>2, <2>3 DEF SetToSeq
  <2>5. nodes \in Injection(1..k, S)
    BY <2>4 DEF Injection
  <2>6. Cardinality(1..k) = k /\ IsFiniteSet(1..k)
    BY <2>2, FS_Interval
  <2>7. nodes \in Surjection(1..k, S)
    BY <2>1, <2>2, <2>5, <2>6, FS_Injection
  <2> QED
    BY <2>4, <2>7 DEF Surjection
<1>4. PICK a : a = <<Event(t, n, "EndTx", "OUT")>>
  OBVIOUS
<1>5. PICK b : b = [k \in DOMAIN nodes |-> Event(t, nodes[k], "EndRx", n)]
  OBVIOUS
<1>6. a \in Seq(T) /\ b \in Seq(T)
  <2>1. DOMAIN nodes = 1..Len(nodes) /\ Len(nodes) \in Nat
    BY <1>3
  <2>2. \A k \in 1..Len(nodes) : Event(t, nodes[k], "EndRx", n) \in T
    BY <1>1, <1>3, <2>1
  <2>3. a \in Seq(T)
    BY <1>1, <1>4
  <2> QED
    BY <1>5, <2>1, <2>2, <2>3
<1>7. Items(a) = {Event(t, n, "EndTx", "OUT")}
  BY <1>4, ItemsOfLists
<1>8. Items(b) = {Event(t, m, "EndRx", n) : m \in S}
  <2>1. DOMAIN b = DOMAIN nodes /\ \A k \in DOMAIN nodes : b[k] = Event(t, nodes[k], "EndRx", n)
    BY <1>5
  <2>2. \A k \in DOMAIN nodes : nodes[k] \in S
    BY <1>3
  <2> QED
    BY <1>3, <2>1, <2>2 DEF Items
<1>9. Distinct(a) /\ Distinct(b)
  <2>1. Distinct(a)
    BY <1>4, ShortDistinct
  <2>2. ASSUME NEW k \in DOMAIN b, NEW l \in DOMAIN b, Like(b[k], b[l]) PROVE k = l
    <3>1. k \in DOMAIN nodes /\ l \in DOMAIN nodes /\ nodes[k] = nodes[l]
      BY <1>5, <2>2 DEF Like, Event
    <3> QED
      BY <1>3, <3>1 DEF IsInjective
  <2> QED
    BY <2>1, <2>2 DEF Distinct
<1>10. \A x \in Items(a), y \in Items(b) : ~Like(x, y)
  BY <1>7, <1>8 DEF Like, Event
<1>11. BeaconEnds(n, S, t) = a \o b
  BY <1>2, <1>4, <1>5 DEF BeaconEnds
<1> QED
  BY <1>6, <1>7, <1>8, <1>9, <1>10, <1>11, AddsConcat

LEMMA StartTxStep ==
  ASSUME BeaconInv, NEW ev \in queue, StartTx(ev)
  PROVE  /\ Adds(queue \ {ev}, queue',
                 {Event(ev.at + BeaconLen, ev.node, "EndTx", "OUT")}
                 \cup {Event(ev.at + BeaconLen, m, "EndRx", ev.node) : m \in hearing'})
         /\ Touches({"own", "EndRx"}) /\ mac' = mac
         /\ hearing' = {n \in Nodes \ {ev.node} : Listens(n)}
         /\ ev.arg = "OUT"
         /\ UNCHANGED <<config, act, heardAt, heardFrom, joined>>
<1> DEFINE n == ev.node
           e == Event(ev.at + BeaconLen, n, "EndTx", "OUT")
           rx == {Event(ev.at + BeaconLen, m, "EndRx", n) : m \in hearing'}
<1>1. now' = ev.at /\ ev.do = "StartTx" /\ mac' = mac /\ hearing' \in SUBSET Nodes /\ ev.arg = "OUT"
      /\ hearing' = {x \in Nodes \ {n} : Listens(x)}
      /\ UNCHANGED <<config, act, heardAt, heardFrom, joined>>
  BY Running DEF StartTx, Runs, EventTypes
<1>2. queue' = ScheduleAll(queue \ {ev}, BeaconEnds(n, hearing', ev.at + BeaconLen))
  BY <1>1 DEF StartTx, Then
<1>3. Adds(queue \ {ev}, queue', {e} \cup rx)
  BY <1>1, <1>2, BeaconEndsDistinct
<1>4. Kind(ev) = "own" /\ Kind(e) = "own" /\ \A x \in rx : Kind(x) = "EndRx"
  BY <1>1 DEF Kind, GtsHandlers, OwnPeriods, Event
<1>5. Touches({"own", "EndRx"})
  <2> HIDE DEF e, rx
  <2>1. \A x \in {e} \cup rx : Kind(x) \in {"own", "EndRx"}
    BY <1>4
  <2> QED
    BY <1>3, <1>4, <2>1, AddsTouches
<1> QED
  BY <1>1, <1>3, <1>5

\* What ScheduleGts schedules, each entry once.
LEMMA GtsAdds ==
  ASSUME NEW n, NEW t, NEW q, NEW c
  PROVE  /\ Adds(q, ScheduleAll(q, When(c, ScheduleGts(n, t))), IF c THEN GtsItems(n, t) ELSE {})
         /\ \A x \in GtsItems(n, t) : Kind(x) = "gts" /\ x.do = "StartGTS"
<1>1. \A x \in GtsItems(n, t) : Kind(x) = "gts" /\ x.do = "StartGTS"
  BY DEF GtsItems, GtsEvent, Kind, GtsHandlers
<1>2. Items(ScheduleGts(n, t)) = GtsItems(n, t)
  BY DEF Items, ScheduleGts, GtsItems
<1>3. \A k, l \in DOMAIN ScheduleGts(n, t) :
        Like(ScheduleGts(n, t)[k], ScheduleGts(n, t)[l]) => k = l
  BY DEF ScheduleGts, Like, GtsEvent
<1>4. CASE c
  BY <1>1, <1>2, <1>3, <1>4, ScheduleAdds DEF When
<1>5. CASE ~c
  BY <1>1, <1>5, AddsNone DEF When
<1> QED
  BY <1>4, <1>5

\* A superframe without a CAP.
HasCap(n) == ~(capReduction /\ n \in Coords /\ SdIndex[n] % NumSuperframes # 0)

CapEvent(ev) == Event(ev.at, ev.node, IF HasCap(ev.node) THEN "StartCAP" ELSE "StartCFP", "OUT")

LEMMA EndTxStep ==
  ASSUME BeaconInv, NEW ev \in queue, EndTx(ev)
  PROVE  /\ Adds(queue \ {ev}, queue',
                 (IF ev.node # PanC THEN GtsItems(ev.node, ev.at) ELSE {}) \cup {CapEvent(ev)})
         /\ Touches({"own", "gts"}) /\ Only(ev.node)
         /\ UNCHANGED <<config, act, hearing, history>>
         /\ \A m \in Nodes : KeepBsn(m) /\ KeepIn(m) /\ KeepIdx(m) /\ KeepTrack(m)
         /\ KeepBeacon(ev.node) /\ mac'[ev.node].out = mac[ev.node].out
         /\ mac'[ev.node].firstCFP = (~HasCap(ev.node) \/ mac[ev.node].firstCFP)
         /\ mac'[ev.node].state = "IDLE" /\ mac'[ev.node].rxOn = TRUE
         /\ mac'[ev.node].channel = mac[ev.node].channel /\ mac'[ev.node].gts = mac[ev.node].gts
         /\ mac'[ev.node].allocated = IF ev.node = PanC THEN mac[ev.node].allocated
                                      ELSE DOMAIN act[ev.node]
<1> DEFINE n == ev.node
           cap == CapEvent(ev)
           gts == IF n # PanC THEN GtsItems(n, ev.at) ELSE {}
           q == ScheduleAll(queue \ {ev}, When(n # PanC, ScheduleGts(n, ev.at)))
           table == IF n = PanC THEN mac[n].allocated ELSE DOMAIN act[n]
<1>1. /\ n \in Nodes /\ mac \in [Nodes -> MacTypes] /\ ev.do = "EndTx" /\ now' = ev.at
      /\ ev.arg = "OUT" /\ UNCHANGED <<config, act, hearing, history>>
  BY Running, MacTyped DEF EndTx, Runs, EventTypes
<1>2. SchedulesGts(n, FALSE) <=> n # PanC
  BY DEF SchedulesGts
<1>3. PICK noCap : noCap = (capReduction /\ n \in Coords /\ SdIndex[n] % NumSuperframes # 0)
  OBVIOUS
<1>4. noCap = ~HasCap(n)
  BY <1>3 DEF HasCap
<1>12. PICK b : b = (noCap \/ mac[n].firstCFP)
  OBVIOUS
<1>5. /\ mac' = [mac EXCEPT ![n].state = "IDLE", ![n].rxOn = TRUE, ![n].firstCFP = b,
                            ![n].allocated = table]
      /\ queue' = ScheduleAll(q, <<cap>>)
  <2>1. cap = Event(ev.at, n, IF noCap THEN "StartCFP" ELSE "StartCAP", "OUT")
    BY <1>4 DEF CapEvent
  <2>2. When(SchedulesGts(n, FALSE), ScheduleGts(n, now')) = When(n # PanC, ScheduleGts(n, ev.at))
    BY <1>1, <1>2 DEF When
  <2> QED
    BY <1>1, <1>3, <1>12, <2>1, <2>2 DEF EndTx
<1>6. Adds(queue \ {ev}, q, gts) /\ \A x \in gts : Kind(x) = "gts" /\ x.do = "StartGTS"
  BY GtsAdds
<1>7. Adds(q, queue', {cap})
  BY <1>5, AddsOne
<1>8. Kind(cap) = "own" /\ Kind(ev) = "own" /\ cap.do \in {"StartCAP", "StartCFP"}
  BY <1>1 DEF Kind, GtsHandlers, OwnPeriods, Event, CapEvent
<1> HIDE DEF n, cap, gts, q, table
<1>9. Adds(queue \ {ev}, queue', gts \cup {cap})
  <2>1. \A x \in gts, y \in {cap} : ~Like(x, y)
    BY <1>6, <1>8 DEF Like
  <2> QED
    BY <1>6, <1>7, <2>1, AddsTwice
<1>10. Touches({"own", "gts"})
  <2>1. \A x \in gts \cup {cap} : Kind(x) \in {"own", "gts"}
    BY <1>6, <1>8
  <2> QED
    BY <1>8, <1>9, <2>1, AddsTouches
<1>11. /\ Only(n) /\ KeepBeacon(n) /\ mac'[n].out = mac[n].out /\ mac'[n].firstCFP = b
       /\ mac'[n].state = "IDLE" /\ mac'[n].rxOn = TRUE /\ mac'[n].channel = mac[n].channel
       /\ mac'[n].gts = mac[n].gts /\ mac'[n].allocated = table
       /\ \A m \in Nodes : KeepBsn(m) /\ KeepIn(m) /\ KeepIdx(m) /\ KeepTrack(m)
  BY <1>1, <1>5 DEF MacTypes, Only, KeepBeacon, KeepBsn, KeepIn, KeepIdx, KeepTrack
<1> QED
  BY <1>1, <1>4, <1>9, <1>10, <1>11, <1>12 DEF n, cap, gts, table

-----------------------------------------------------------------------------
(* The handlers of a superframe that a node receives *)

InFrame ==
  /\ UNCHANGED <<config, act, hearing, heard>>
  /\ \A m \in Nodes : /\ KeepRadio(m) /\ KeepTable(m) /\ KeepBsn(m) /\ KeepOwn(m)
                      /\ KeepIdx(m) /\ KeepTrack(m)

LEMMA InCapStep ==
  ASSUME BeaconInv, NEW ev \in queue, StartCAP(ev), ev.arg # "OUT"
  PROVE  /\ Adds(queue \ {ev}, queue', {Event(ev.at + IncomingCap, ev.node, "StartCFP", "IN")})
         /\ Touches({"in"}) /\ Only(ev.node) /\ InFrame /\ misled' = misled
         /\ mac'[ev.node].inc = "CAP"
         /\ mac'[ev.node].incFirstCFP = mac[ev.node].incFirstCFP
<1> DEFINE n == ev.node
           e == Event(ev.at + IncomingCap, n, "StartCFP", "IN")
<1>1. n \in Nodes /\ mac \in [Nodes -> MacTypes]
  BY Running, MacTyped
<1>2. /\ mac' = [mac EXCEPT ![n].inc = "CAP"] /\ Then(ev, <<e>>) /\ ev.do = "StartCAP"
      /\ UNCHANGED <<config, act, hearing, heard, misled>>
  BY DEF StartCAP, Runs, history, heard
<1>3. Adds(queue \ {ev}, queue', {e})
  BY <1>2, ThenAdds
<1>4. Kind(e) = "in" /\ Kind(ev) = "in"
  BY <1>2 DEF Kind, GtsHandlers, OwnPeriods, Event
<1>5. Touches({"in"})
  BY <1>3, <1>4, TouchesOwnKind
<1> HIDE DEF n, e
<1>6. Only(n) /\ InFrame /\ misled' = misled /\ mac'[n].inc = "CAP" /\ mac'[n].incFirstCFP = mac[n].incFirstCFP
  BY <1>1, <1>2 DEF MacTypes, Only, InFrame, KeepTable, KeepOwn, KeepIdx, KeepTrack,
     KeepRadio, KeepBsn
<1> QED
  BY <1>3, <1>5, <1>6 DEF n, e

LEMMA InCfpStep ==
  ASSUME BeaconInv, NEW ev \in queue, StartCFP(ev), ev.arg # "OUT"
  PROVE  /\ Adds(queue \ {ev}, queue',
                 {IF mac[ev.node].incFirstCFP
                  THEN Event(ev.at + IncomingCap, ev.node, "StartCFP", "IN")
                  ELSE Event(ev.at + CfpSlots * Slot, ev.node, "StartRemainingPeriod", "IN")})
         /\ Touches({"in"}) /\ Only(ev.node) /\ InFrame
         /\ mac'[ev.node].inc = "CFP" /\ mac'[ev.node].incFirstCFP = FALSE
         /\ misled' = IF mac[ev.node].incFirstCFP /\ ev.at > heardAt[ev.node]
                      THEN [misled EXCEPT ![ev.node] = ev.at + CfpSlots * Slot + IncomingCap]
                      ELSE misled
<1> DEFINE n == ev.node
           e1 == Event(ev.at + IncomingCap, n, "StartCFP", "IN")
           e2 == Event(ev.at + CfpSlots * Slot, n, "StartRemainingPeriod", "IN")
           e == IF mac[n].incFirstCFP THEN e1 ELSE e2
<1>1. n \in Nodes /\ mac \in [Nodes -> MacTypes]
  BY Running, MacTyped
<1>2. /\ mac' = [mac EXCEPT ![n].inc = "CFP", ![n].incFirstCFP = FALSE] /\ ev.do = "StartCFP"
      /\ Then(ev, IF mac[n].incFirstCFP THEN <<e1>> ELSE <<e2>>)
      /\ UNCHANGED <<config, act, hearing, heard>> /\ now' = ev.at
  BY DEF StartCFP, Runs, heard
<1>3. Adds(queue \ {ev}, queue', {e})
  <2>1. Then(ev, <<e>>)
    BY <1>2
  <2> QED
    BY <2>1, ThenAdds
<1>4. Kind(e) = "in" /\ Kind(ev) = "in"
  BY <1>2 DEF Kind, GtsHandlers, OwnPeriods, Event
<1>5. Touches({"in"})
  BY <1>3, <1>4, TouchesOwnKind
<1>7. misled' = IF mac[n].incFirstCFP /\ ev.at > heardAt[n]
                THEN [misled EXCEPT ![n] = ev.at + CfpSlots * Slot + IncomingCap] ELSE misled
  BY <1>2 DEF StartCFP
<1> HIDE DEF n, e
<1>6. Only(n) /\ InFrame /\ mac'[n].inc = "CFP" /\ mac'[n].incFirstCFP = FALSE
  BY <1>1, <1>2 DEF MacTypes, Only, InFrame, KeepTable, KeepOwn, KeepIdx, KeepTrack,
     KeepRadio, KeepBsn
<1> QED
  BY <1>3, <1>5, <1>6, <1>7 DEF n, e

LEMMA InRemainingStep ==
  ASSUME BeaconInv, NEW ev \in queue, StartRemainingPeriod(ev), ev.arg # "OUT"
  PROVE  /\ Adds(queue \ {ev}, queue', {Event(ev.at + BI - SD, ev.node, "AwaitBeacon", "IN")})
         /\ Touches({"in"}) /\ Only(ev.node) /\ InFrame /\ misled' = misled
         /\ mac'[ev.node].inc = IF BI > SD THEN "REMAINING" ELSE mac[ev.node].inc
         /\ mac'[ev.node].incFirstCFP = mac[ev.node].incFirstCFP
<1> DEFINE n == ev.node
           e == Event(ev.at + BI - SD, n, "AwaitBeacon", "IN")
           p == IF BI > SD THEN "REMAINING" ELSE mac[n].inc
<1>1. n \in Nodes /\ mac \in [Nodes -> MacTypes]
  BY Running, MacTyped
<1>2. /\ mac' = [mac EXCEPT ![n].inc = p] /\ Then(ev, <<e>>)
      /\ ev.do = "StartRemainingPeriod" /\ UNCHANGED <<config, act, hearing, heard, misled>>
  BY DEF StartRemainingPeriod, Runs, history, heard
<1>3. Adds(queue \ {ev}, queue', {e})
  BY <1>2, ThenAdds
<1>4. Kind(e) = "in" /\ Kind(ev) = "in"
  BY <1>2 DEF Kind, GtsHandlers, OwnPeriods, Event
<1>5. Touches({"in"})
  BY <1>3, <1>4, TouchesOwnKind
<1> HIDE DEF n, e, p
<1>6. Only(n) /\ InFrame /\ misled' = misled /\ mac'[n].inc = p /\ mac'[n].incFirstCFP = mac[n].incFirstCFP
  BY <1>1, <1>2 DEF MacTypes, Only, InFrame, KeepTable, KeepOwn, KeepIdx, KeepTrack,
     KeepRadio, KeepBsn
<1> QED
  BY <1>3, <1>5, <1>6 DEF n, e, p

LEMMA AwaitStep ==
  ASSUME BeaconInv, NEW ev \in queue, AwaitBeacon(ev)
  PROVE  /\ Adds(queue \ {ev}, queue', {})
         /\ Touches({"in"}) /\ Only(ev.node) /\ InFrame /\ misled' = misled
         /\ mac'[ev.node].inc = "BEACON"
         /\ mac'[ev.node].incFirstCFP = mac[ev.node].incFirstCFP
<1> DEFINE n == ev.node
<1>1. n \in Nodes /\ mac \in [Nodes -> MacTypes]
  BY Running, MacTyped
<1>2. /\ mac' = [mac EXCEPT ![n].inc = "BEACON"] /\ Then(ev, <<>>)
      /\ ev.do = "AwaitBeacon" /\ UNCHANGED <<config, act, hearing, heard, misled>>
  BY DEF AwaitBeacon, Runs, history, heard
<1>3. Adds(queue \ {ev}, queue', {})
  BY <1>2, ThenAdds
<1>4. Kind(ev) = "in"
  BY <1>2 DEF Kind, GtsHandlers, OwnPeriods
<1>5. Touches({"in"})
  BY <1>3, <1>4, TouchesOwnKind
<1> HIDE DEF n
<1>6. Only(n) /\ InFrame /\ misled' = misled /\ mac'[n].inc = "BEACON" /\ mac'[n].incFirstCFP = mac[n].incFirstCFP
  BY <1>1, <1>2 DEF MacTypes, Only, InFrame, KeepTable, KeepOwn, KeepIdx, KeepTrack,
     KeepRadio, KeepBsn
<1> QED
  BY <1>3, <1>5, <1>6 DEF n

-----------------------------------------------------------------------------
(* Superframes and multisuperframes *)

IdxFrame ==
  /\ UNCHANGED <<config, act, hearing, history>>
  /\ \A m \in Nodes : /\ KeepRadio(m) /\ KeepTable(m) /\ KeepBsn(m) /\ KeepOwn(m)
                      /\ KeepIn(m) /\ KeepTrack(m)

LEMMA SuperframeStep ==
  ASSUME BeaconInv, NEW ev \in queue, StartSuperframe(ev)
  PROVE  /\ queue' = ScheduleAll(queue \ {ev},
                                 <<Event(ev.at + SD, ev.node, "StartSuperframe", "OUT")>>)
         /\ Adds(queue \ {ev}, queue', {Event(ev.at + SD, ev.node, "StartSuperframe", "OUT")})
         /\ Touches({"multi"}) /\ Only(ev.node) /\ IdxFrame
         /\ mac'[ev.node].idx = IF IdxGrows(ev.node) THEN mac[ev.node].idx + 1
                                ELSE mac[ev.node].idx
         /\ mac'[ev.node].isFirst = FALSE
<1> DEFINE n == ev.node
           e == Event(ev.at + SD, n, "StartSuperframe", "OUT")
           i == IF IdxGrows(n) THEN mac[n].idx + 1 ELSE mac[n].idx
<1>1. n \in Nodes /\ mac \in [Nodes -> MacTypes]
  BY Running, MacTyped
<1>2. /\ mac' = [mac EXCEPT ![n].idx = i, ![n].isFirst = FALSE] /\ Then(ev, <<e>>)
      /\ ev.do = "StartSuperframe" /\ UNCHANGED <<config, act, hearing, history>>
  BY DEF StartSuperframe, Runs
<1>3. Adds(queue \ {ev}, queue', {e}) /\ queue' = ScheduleAll(queue \ {ev}, <<e>>)
  BY <1>2, ThenAdds DEF Then
<1>4. Kind(e) = "multi" /\ Kind(ev) = "multi"
  BY <1>2 DEF Kind, GtsHandlers, Event
<1>5. Touches({"multi"})
  BY <1>3, <1>4, TouchesOwnKind
<1> HIDE DEF n, e, i
<1>6. Only(n) /\ IdxFrame /\ mac'[n].idx = i /\ mac'[n].isFirst = FALSE
  BY <1>1, <1>2 DEF MacTypes, Only, IdxFrame, KeepTable, KeepOwn, KeepIn, KeepTrack,
     KeepRadio, KeepBsn
<1> QED
  BY <1>3, <1>5, <1>6 DEF n, e, i

MultiEvents(ev) ==
  (IF ev.arg = "OUT" THEN {Event(ev.at + MultiLen, ev.node, "StartMultisuperframe", "OUT")} ELSE {})
  \cup (IF ev.at <= SD THEN {Event(ev.at + SD, ev.node, "StartSuperframe", "OUT")} ELSE {})

LEMMA MultiStep ==
  ASSUME BeaconInv, NEW ev \in queue, StartMultisuperframe(ev)
  PROVE  /\ Adds(queue \ {ev}, queue', MultiEvents(ev))
         /\ Touches({"multi"}) /\ Only(ev.node) /\ IdxFrame
         /\ mac'[ev.node].idx = 0 /\ mac'[ev.node].isFirst = TRUE
<1> DEFINE n == ev.node
           e1 == Event(ev.at + MultiLen, n, "StartMultisuperframe", "OUT")
           e2 == Event(ev.at + SD, n, "StartSuperframe", "OUT")
<1>1. n \in Nodes /\ mac \in [Nodes -> MacTypes] /\ ev.do = "StartMultisuperframe" /\ now' = ev.at
  BY Running, MacTyped DEF StartMultisuperframe, Runs
<1>2. /\ mac' = [mac EXCEPT ![n].idx = 0, ![n].isFirst = TRUE]
      /\ UNCHANGED <<config, act, hearing, history>>
      /\ queue' = ScheduleAll(queue \ {ev},
                              When(ev.arg = "OUT", <<e1>>) \o When(ev.at <= SD, <<e2>>))
  BY <1>1 DEF StartMultisuperframe, Then
<1>3. Kind(e1) = "multi" /\ Kind(e2) = "multi" /\ Kind(ev) = "multi" /\ e1.do # e2.do
  BY <1>1 DEF Kind, GtsHandlers, Event
<1>4. Adds(queue \ {ev}, queue', MultiEvents(ev))
  <2> HIDE DEF e1, e2
  <2>1. ~Like(e1, e2)
    BY <1>3 DEF Like
  <2>2. <<e1>> \in Seq({e1, e2}) /\ <<e2>> \in Seq({e1, e2})
    BY ShortLists
  <2>3. Distinct(<<e1>>) /\ Distinct(<<e2>>)
    BY ShortDistinct
  <2>4. Items(<<e1>>) = {e1} /\ Items(<<e2>>) = {e2}
    BY ItemsOfLists
  <2>5. Adds(queue \ {ev}, queue',
             (IF ev.arg = "OUT" THEN {e1} ELSE {}) \cup (IF ev.at <= SD THEN {e2} ELSE {}))
    <3>1. PICK c : c = (ev.arg = "OUT")
      OBVIOUS
    <3>2. PICK d : d = (ev.at <= SD)
      OBVIOUS
    <3>3. queue' = ScheduleAll(queue \ {ev}, When(c, <<e1>>) \o When(d, <<e2>>))
      BY <1>2, <3>1, <3>2
    <3>4. \A x \in Items(<<e1>>), y \in Items(<<e2>>) : ~Like(x, y)
      BY <2>1, <2>4
    <3>5. Adds(queue \ {ev}, ScheduleAll(queue \ {ev}, When(c, <<e1>>) \o When(d, <<e2>>)),
               (IF c THEN Items(<<e1>>) ELSE {}) \cup (IF d THEN Items(<<e2>>) ELSE {}))
      BY <2>2, <2>3, <3>4, AddsWhen
    <3> QED
      BY <2>4, <3>1, <3>2, <3>3, <3>5
  <2> QED
    BY <2>5 DEF MultiEvents, e1, e2
<1>5. \A x \in MultiEvents(ev) : Kind(x) = "multi"
  BY <1>3 DEF MultiEvents
<1>6. Touches({"multi"})
  BY <1>3, <1>4, <1>5, TouchesOwnKind
<1> HIDE DEF n, e1, e2
<1>7. Only(n) /\ IdxFrame /\ mac'[n].idx = 0 /\ mac'[n].isFirst = TRUE
  BY <1>1, <1>2 DEF MacTypes, Only, IdxFrame, KeepTable, KeepOwn, KeepIn, KeepTrack,
     KeepRadio, KeepBsn
<1> QED
  BY <1>4, <1>6, <1>7 DEF n

-----------------------------------------------------------------------------
(* Requests, and the reception of a beacon *)

RequestFrame ==
  /\ UNCHANGED <<config, act, hearing, history>>
  /\ \A m \in Nodes : /\ KeepRadio(m) /\ KeepBsn(m) /\ KeepIn(m) /\ KeepIdx(m) /\ KeepTrack(m)
                      /\ mac'[m].out = mac[m].out /\ mac'[m].firstCFP = mac[m].firstCFP
                      /\ mac'[m].bcnStart = mac[m].bcnStart

LEMMA PanStartStep ==
  ASSUME BeaconInv, NEW ev \in queue, StartRequest(ev), ev.node = PanC
  PROVE  /\ Adds(queue \ {ev}, queue', {Event(ev.at, PanC, "StartMultisuperframe", "OUT"),
                                        Event(ev.at, PanC, "SendBeacon", "OUT")})
         /\ Touches({"StartRequest", "multi", "own"}) /\ mac' = mac
         /\ UNCHANGED <<config, act, hearing, history>>
<1> DEFINE e1 == Event(ev.at, PanC, "StartMultisuperframe", "OUT")
           e2 == Event(ev.at, PanC, "SendBeacon", "OUT")
<1>1. /\ ev.do = "StartRequest" /\ mac' = mac /\ queue' = ScheduleAll(queue \ {ev}, <<e1, e2>>)
      /\ UNCHANGED <<config, act, hearing, history>>
  BY DEF StartRequest, Then, Runs
<1>2. /\ Kind(e1) = "multi" /\ Kind(e2) = "own" /\ e1.do # e2.do /\ Kind(ev) = "StartRequest"
  BY <1>1 DEF Kind, GtsHandlers, Event, OwnPeriods
<1> HIDE DEF e1, e2
<1>3. Adds(queue \ {ev}, queue', {e1, e2})
  <2>1. ~Like(e1, e2)
    BY <1>2 DEF Like
  <2> QED
    BY <1>1, <2>1, AddsTwo
<1>4. Touches({"StartRequest", "multi", "own"})
  <2>1. \A x \in {e1, e2} : Kind(x) \in {"StartRequest", "multi", "own"}
    BY <1>2
  <2> QED
    BY <1>2, <1>3, <2>1, AddsTouches
<1> QED
  BY <1>1, <1>3, <1>4 DEF e1, e2

LEMMA CoordStartStep ==
  ASSUME BeaconInv, NEW ev \in queue, StartRequest(ev), ev.node # PanC
  PROVE  /\ ev.node \in Coords
         /\ Adds(queue \ {ev}, queue', GtsItems(ev.node, ev.at))
         /\ Touches({"StartRequest", "gts"}) /\ Only(ev.node) /\ RequestFrame
         /\ mac'[ev.node].sendBcn = TRUE /\ mac'[ev.node].bitmapSd = SdIndex[ev.node]
         /\ mac'[ev.node].allocated = DOMAIN act[ev.node]
<1> DEFINE n == ev.node
           q == queue \ {ev}
<1>1. /\ n \in Nodes /\ mac \in [Nodes -> MacTypes] /\ ev.do = "StartRequest" /\ now' = ev.at
      /\ n \notin Devices
  BY Running, MacTyped DEF StartRequest, Runs, EventTypes
<1>2. SchedulesGts(n, FALSE) /\ n \in Coords
  BY <1>1 DEF SchedulesGts, Nodes
<1>3. /\ mac' = [mac EXCEPT ![n].sendBcn = TRUE, ![n].bitmapSd = SdIndex[n],
                            ![n].allocated = DOMAIN act[n]]
      /\ UNCHANGED <<config, act, hearing, history>>
      /\ queue' = ScheduleAll(q, When(TRUE, ScheduleGts(n, ev.at)))
  BY <1>1, <1>2 DEF StartRequest, Then, When
<1>4. Adds(q, queue', GtsItems(n, ev.at)) /\ \A x \in GtsItems(n, ev.at) : Kind(x) = "gts"
  BY <1>3, GtsAdds
<1>5. Kind(ev) = "StartRequest"
  BY <1>1 DEF Kind, GtsHandlers
<1>6. Touches({"StartRequest", "gts"})
  BY <1>4, <1>5, AddsTouches
<1> HIDE DEF n, q
<1>7. /\ Only(n) /\ RequestFrame /\ mac'[n].sendBcn = TRUE /\ mac'[n].bitmapSd = SdIndex[n]
      /\ mac'[n].allocated = DOMAIN act[n]
  BY <1>1, <1>3 DEF MacTypes, Only, RequestFrame, KeepRadio, KeepBsn, KeepIn, KeepIdx, KeepTrack
<1> QED
  BY <1>2, <1>4, <1>6, <1>7 DEF n, q

LEMMA SetIdleStep ==
  ASSUME BeaconInv, NEW ev \in queue, SetIdle(ev)
  PROVE  /\ Adds(queue \ {ev}, queue', {}) /\ Touches({"SetIdle"}) /\ Only(ev.node) /\ OwnFrame
         /\ \A m \in Nodes : KeepOwn(m) /\ KeepBsn(m)
         /\ mac'[ev.node].state = "IDLE" /\ mac'[ev.node].rxOn = TRUE
         /\ mac'[ev.node].channel = mac[ev.node].channel /\ mac'[ev.node].gts = mac[ev.node].gts
<1> DEFINE n == ev.node
<1>1. n \in Nodes /\ mac \in [Nodes -> MacTypes] /\ ev.do = "SetIdle"
  BY Running, MacTyped DEF SetIdle, Runs
<1>2. /\ mac' = [mac EXCEPT ![n].state = "IDLE", ![n].rxOn = TRUE] /\ Then(ev, <<>>)
      /\ UNCHANGED <<config, act, hearing, history>>
  BY DEF SetIdle
<1>3. Adds(queue \ {ev}, queue', {})
  BY <1>2, ThenAdds
<1>4. Kind(ev) = "SetIdle"
  BY <1>1 DEF Kind, GtsHandlers
<1>5. Touches({"SetIdle"})
  BY <1>3, <1>4, TouchesOwnKind
<1> HIDE DEF n
<1>6. /\ Only(n) /\ OwnFrame /\ (\A m \in Nodes : KeepOwn(m) /\ KeepBsn(m))
      /\ mac'[n].state = "IDLE" /\ mac'[n].rxOn = TRUE
      /\ mac'[n].channel = mac[n].channel /\ mac'[n].gts = mac[n].gts
  BY SMTT(30), <1>1, <1>2 DEF MacTypes, Only, OwnFrame, KeepTable, KeepIn, KeepIdx, KeepTrack, KeepOwn, KeepBsn
<1> QED
  BY <1>3, <1>5, <1>6 DEF n

LEMMA BeaconLostStep ==
  ASSUME BeaconInv, NEW ev \in queue, BeaconLost(ev)
  PROVE  /\ Adds(queue \ {ev}, queue', {}) /\ Touches({"EndRx"}) /\ mac' = mac
         /\ hearing' = hearing \ {ev.node} /\ UNCHANGED <<config, act, history>>
<1>1. ev.do = "EndRx"
  BY DEF BeaconLost, Runs
<1>2. Adds(queue \ {ev}, queue', {})
  BY ThenAdds DEF BeaconLost
<1>3. Kind(ev) = "EndRx"
  BY <1>1 DEF Kind, GtsHandlers
<1>4. Touches({"EndRx"})
  BY <1>2, <1>3, TouchesOwnKind
<1> QED
  BY <1>2, <1>4 DEF BeaconLost

FirstBeacon(n, from) == SdIndex[n] * SD + ParentStart(n, from)
PeriodEvent(n, from, t) ==
  Event(t, n, IF NoIncomingCap(n, from) THEN "StartCFP" ELSE "StartCAP", "IN")

KeepsSearching(n) == IsRunning(n, "SearchTimeout") /\ mac[n].trackingOn

\* The events that the reception of a beacon schedules.
BeaconEvents(n, from, t) ==
  (IF mac[from].bitmapSd % NumSuperframes # 0 THEN {Event(t, n, "StartMultisuperframe", "IN")}
   ELSE {})
  \cup (IF mac[n].sendBcn THEN {Event(FirstBeacon(n, from), n, "SetIdle", "OUT"),
                                Event(FirstBeacon(n, from), n, "SendBeacon", "OUT")} ELSE {})

GtsOfBeacon(n, from, t) == IF IndicatesGts(n, from) THEN GtsItems(n, t) ELSE {}
PeriodEvents(n, from, t) ==
  {PeriodEvent(n, from, t)}
  \cup (IF KeepsSearching(n) THEN {Event(t + NextSearch, n, "SearchTimeout", "IN")} ELSE {})

ReceptionEvents(n, from, t) ==
  BeaconEvents(n, from, t) \cup GtsOfBeacon(n, from, t) \cup PeriodEvents(n, from, t)

LEMMA ReceptionAdds ==
  ASSUME NEW n, NEW from, NEW t, NEW q
  PROVE  /\ Adds(q, ScheduleAll(q, OnReception(n, from, t)), BeaconEvents(n, from, t))
         /\ Adds(q, ScheduleAll(q, PeriodAndSearch(n, from, t)), PeriodEvents(n, from, t))
<1>1. PICK m : m = Event(t, n, "StartMultisuperframe", "IN")
  OBVIOUS
<1>2. PICK s : s = Event(FirstBeacon(n, from), n, "SetIdle", "OUT")
  OBVIOUS
<1>3. PICK b : b = Event(FirstBeacon(n, from), n, "SendBeacon", "OUT")
  OBVIOUS
<1>4. PICK p : p = PeriodEvent(n, from, t)
  OBVIOUS
<1>5. PICK x : x = Event(t + NextSearch, n, "SearchTimeout", "IN")
  OBVIOUS
<1>6. /\ m.do = "StartMultisuperframe" /\ s.do = "SetIdle" /\ b.do = "SendBeacon"
      /\ x.do = "SearchTimeout" /\ p.do \in {"StartCFP", "StartCAP"}
  BY <1>1, <1>2, <1>3, <1>4, <1>5 DEF Event, PeriodEvent
<1>7. PICK S : S = {m, s, b, p, x}
  OBVIOUS
<1>8. <<m>> \in Seq(S) /\ <<s, b>> \in Seq(S) /\ <<p>> \in Seq(S) /\ <<x>> \in Seq(S)
  BY <1>7, ShortLists
<1>9. Distinct(<<m>>) /\ Distinct(<<s, b>>) /\ Distinct(<<p>>) /\ Distinct(<<x>>)
  <2>1. ~Like(s, b)
    BY <1>6 DEF Like
  <2> QED
    BY <2>1, ShortDistinct
<1>10. /\ Items(<<m>>) = {m} /\ Items(<<s, b>>) = {s, b} /\ Items(<<p>>) = {p}
       /\ Items(<<x>>) = {x}
  BY ItemsOfLists
<1>11. /\ \A y \in Items(<<m>>), z \in Items(<<s, b>>) : ~Like(y, z)
       /\ \A y \in Items(<<p>>), z \in Items(<<x>>) : ~Like(y, z)
  BY <1>6, <1>10 DEF Like
<1>12. Adds(q, ScheduleAll(q, OnReception(n, from, t)), BeaconEvents(n, from, t))
  <2>1. PICK c : c = (mac[from].bitmapSd % NumSuperframes # 0)
    OBVIOUS
  <2>2. PICK d : d = mac[n].sendBcn
    OBVIOUS
  <2>3. OnReception(n, from, t) = When(c, <<m>>) \o When(d, <<s, b>>)
    BY <1>1, <1>2, <1>3, <2>1, <2>2 DEF OnReception, FirstBeacon
  <2>4. Adds(q, ScheduleAll(q, When(c, <<m>>) \o When(d, <<s, b>>)),
             (IF c THEN Items(<<m>>) ELSE {}) \cup (IF d THEN Items(<<s, b>>) ELSE {}))
    BY <1>8, <1>9, <1>11, AddsWhen
  <2> QED
    BY <1>1, <1>2, <1>3, <1>10, <2>1, <2>2, <2>3, <2>4 DEF BeaconEvents
<1>13. Adds(q, ScheduleAll(q, PeriodAndSearch(n, from, t)), PeriodEvents(n, from, t))
  <2>1. PICK d : d = KeepsSearching(n)
    OBVIOUS
  <2>2. PeriodAndSearch(n, from, t) = When(TRUE, <<p>>) \o When(d, <<x>>)
    BY <1>4, <1>5, <2>1 DEF PeriodAndSearch, PeriodEvent, KeepsSearching, When
  <2>3. Adds(q, ScheduleAll(q, When(TRUE, <<p>>) \o When(d, <<x>>)),
             (IF TRUE THEN Items(<<p>>) ELSE {}) \cup (IF d THEN Items(<<x>>) ELSE {}))
    BY <1>8, <1>9, <1>11, AddsWhen
  <2> QED
    BY <1>4, <1>5, <1>10, <2>1, <2>2, <2>3 DEF PeriodEvents
<1> QED
  BY <1>12, <1>13

LEMMA EndRxStep ==
  ASSUME BeaconInv, NEW ev \in queue, EndRx(ev)
  PROVE  LET n == ev.node
             from == ev.arg
         IN /\ Adds(Cancel(queue \ {ev}, n, "SearchTimeout"), queue', ReceptionEvents(n, from, ev.at))
            /\ Touches({"EndRx", "SearchTimeout", "multi", "SetIdle", "own", "gts", "in"})
            /\ Only(n) /\ from \in Nodes /\ n \in hearing
            /\ hearing' = hearing \ {n} /\ UNCHANGED <<config, act>>
            /\ missed' = [missed EXCEPT ![n] = 0] /\ heardAt' = [heardAt EXCEPT ![n] = ev.at]
            /\ heardFrom' = [heardFrom EXCEPT ![n] = from]
            /\ fresh' = (IF from = PanC THEN fresh \cup {n} ELSE fresh)
            /\ joined' = (IF from = PanC THEN joined \cup {n} ELSE joined)
            /\ misled' = [misled EXCEPT ![n] = IF misled[n] < ev.at THEN 0 ELSE misled[n]]
            /\ mac'[n] = AfterBeacon(n, from)
<1> DEFINE n == ev.node
           from == ev.arg
           q0 == Cancel(queue \ {ev}, n, "SearchTimeout")
           q1 == ScheduleAll(q0, OnReception(n, from, ev.at))
           c == IndicatesGts(n, from)
           q2 == ScheduleAll(q1, When(c, ScheduleGts(n, ev.at)))
           A == BeaconEvents(n, from, ev.at)
           B == GtsOfBeacon(n, from, ev.at)
           C == PeriodEvents(n, from, ev.at)
<1>1. /\ n \in Nodes /\ mac \in [Nodes -> MacTypes] /\ ev.do = "EndRx" /\ now' = ev.at
      /\ from \in Nodes
  BY Running, MacTyped DEF EndRx, Runs, EventTypes
<1>2. /\ n \in hearing /\ hearing' = hearing \ {n} /\ UNCHANGED <<config, act>>
      /\ missed' = [missed EXCEPT ![n] = 0] /\ heardAt' = [heardAt EXCEPT ![n] = ev.at]
      /\ heardFrom' = [heardFrom EXCEPT ![n] = from]
      /\ fresh' = (IF from = PanC THEN fresh \cup {n} ELSE fresh)
      /\ joined' = (IF from = PanC THEN joined \cup {n} ELSE joined)
      /\ misled' = [misled EXCEPT ![n] = IF misled[n] < ev.at THEN 0 ELSE misled[n]]
      /\ mac' = [mac EXCEPT ![n] = AfterBeacon(n, from)]
  BY <1>1 DEF EndRx
<1>3. queue' = ScheduleAll(q2, PeriodAndSearch(n, from, ev.at))
  BY <1>1 DEF EndRx
<1>4. mac'[n] = AfterBeacon(n, from) /\ Only(n)
  BY <1>1, <1>2 DEF Only
<1>5. Adds(q0, q1, A) /\ Adds(q2, queue', C)
  BY <1>3, ReceptionAdds
<1>6. Adds(q1, q2, B)
  BY GtsAdds DEF GtsOfBeacon
<1>7. /\ \A x \in A : x.do \in {"StartMultisuperframe", "SetIdle", "SendBeacon"}
      /\ \A x \in A : Kind(x) \in {"multi", "SetIdle", "own"}
  BY DEF BeaconEvents, Event, Kind, GtsHandlers
<1>8. \A x \in B : x.do = "StartGTS" /\ Kind(x) = "gts"
  BY GtsAdds DEF GtsOfBeacon
<1>9. /\ \A x \in C : x.do \in {"StartCAP", "StartCFP", "SearchTimeout"}
      /\ \A x \in C : Kind(x) \in {"in", "SearchTimeout"}
  BY DEF PeriodEvents, PeriodEvent, Event, Kind, GtsHandlers, OwnPeriods
<1>10. q0 \subseteq queue /\ \A f \in queue : f \notin q0 => Kind(f) \in {"EndRx", "SearchTimeout"}
  <2>1. Kind(ev) = "EndRx"
    BY <1>1 DEF Kind, GtsHandlers
  <2>2. \A f : f.do = "SearchTimeout" => Kind(f) = "SearchTimeout"
    BY DEF Kind, GtsHandlers
  <2> QED
    BY <2>1, <2>2 DEF Cancel
<1>11. Kind(ev) = "EndRx"
  BY <1>1 DEF Kind, GtsHandlers
<1>12. ReceptionEvents(n, from, ev.at) = (A \cup B) \cup C
  BY DEF ReceptionEvents
<1> HIDE DEF n, from, q0, q1, q2, c, A, B, C
<1>13. Adds(q0, queue', (A \cup B) \cup C)
  <2>1. \A a \in A, b \in B : ~Like(a, b)
    BY <1>7, <1>8 DEF Like
  <2>2. \A a \in A \cup B, b \in C : ~Like(a, b)
    BY <1>7, <1>8, <1>9 DEF Like
  <2>3. Adds(q0, q2, A \cup B)
    BY <1>5, <1>6, <2>1, AddsTwice
  <2> QED
    BY <1>5, <2>2, <2>3, AddsTwice
<1>14. Touches({"EndRx", "SearchTimeout", "multi", "SetIdle", "own", "gts", "in"})
  <2>1. \A x \in (A \cup B) \cup C :
          Kind(x) \in {"EndRx", "SearchTimeout", "multi", "SetIdle", "own", "gts", "in"}
    BY <1>7, <1>8, <1>9
  <2> QED
    BY <1>10, <1>11, <1>13, <2>1, AddsTouches
<1> QED
  BY <1>1, <1>2, <1>4, <1>12, <1>13, <1>14 DEF n, from, q0

\* The fields of a MAC that has received a beacon.
LEMMA AfterBeaconFields ==
  ASSUME BeaconInv, NEW n \in Nodes, NEW from
  PROVE  LET m == AfterBeacon(n, from)
             noCap == NoIncomingCap(n, from)
         IN /\ m.bsn = BsnReceived(n, from) /\ m.bitmapSd = mac[from].bitmapSd /\ m.known = TRUE
            /\ m.sendBcn = FALSE /\ m.incFirstCFP = (noCap \/ mac[n].incFirstCFP)
            /\ m.isFirst = (IF n \in Coords THEN mac[n].isFirst
                            ELSE FirstOfMulti(n, from) /\ ~capReduction)
            /\ m.state = (IF noCap THEN mac[n].state ELSE "IDLE")
            /\ m.rxOn = (noCap => mac[n].rxOn)
            /\ m.allocated = (IF IndicatesGts(n, from) THEN DOMAIN act[n] ELSE mac[n].allocated)
            /\ m.numLost = (IF IsRunning(n, "SearchTimeout") THEN 0 ELSE mac[n].numLost)
            /\ m.channel = mac[n].channel /\ m.gts = mac[n].gts /\ m.out = mac[n].out
            /\ m.inc = mac[n].inc /\ m.firstCFP = mac[n].firstCFP /\ m.idx = mac[n].idx
            /\ m.bcnStart = mac[n].bcnStart /\ m.trackingOn = mac[n].trackingOn
<1>1. mac[n] \in MacTypes
  BY MacTyped
<1> QED
  BY <1>1 DEF AfterBeacon, MacTypes

-----------------------------------------------------------------------------
(* Beacon tracking *)

\* What is not changed by the handlers of tracking.
TrackFrame ==
  /\ UNCHANGED <<config, act, history>>
  /\ \A m \in Nodes : /\ KeepTable(m) /\ KeepBsn(m) /\ KeepOwn(m) /\ KeepIn(m) /\ KeepIdx(m)
                      /\ mac'[m].known = mac[m].known
                      /\ mac'[m].state = mac[m].state /\ mac'[m].gts = mac[m].gts

SearchEvent(n, t) == Event(t + SearchLen(mac[n].known), n, "SearchTimeout", "IN")

\* Not retuned, or retuned to the channel of the CAP.
TunesToCap(n) ==
  /\ mac'[n].channel = CapChannel /\ mac'[n].rxOn = TRUE
  /\ hearing' = IF mac[n].channel = CapChannel THEN hearing ELSE hearing \ {n}

LEMMA SyncStep ==
  ASSUME BeaconInv, NEW ev \in queue, SyncRequest(ev)
  PROVE  LET n == ev.node
         IN /\ Adds(Cancel(queue \ {ev}, n, "SearchTimeout"), queue', {SearchEvent(n, ev.at)})
            /\ Touches({"SyncRequest", "SearchTimeout"}) /\ Only(n) /\ TrackFrame
            /\ TunesToCap(n) /\ mac'[n].trackingOn = TRUE /\ mac'[n].numLost = 0
<1> DEFINE n == ev.node
           q == Cancel(queue \ {ev}, n, "SearchTimeout")
           e == SearchEvent(n, ev.at)
<1>1. n \in Nodes /\ mac \in [Nodes -> MacTypes] /\ ev.do = "SyncRequest" /\ now' = ev.at
  BY Running, MacTyped DEF SyncRequest, Runs
<1>2. /\ mac' = [mac EXCEPT ![n] = [mac[n] EXCEPT !.channel = CapChannel, !.rxOn = TRUE,
                                                  !.trackingOn = TRUE, !.numLost = 0]]
      /\ UNCHANGED <<config, act, history>> /\ queue' = ScheduleAll(q, <<e>>)
      /\ hearing' = IF CapChannel = mac[n].channel THEN hearing ELSE hearing \ {n}
  BY <1>1 DEF SyncRequest, Synchronised, Retune, Search, SearchEvent
<1>3. Adds(q, queue', {e})
  BY <1>2, AddsOne
<1>4. Kind(ev) = "SyncRequest" /\ \A f : f.do = "SearchTimeout" => Kind(f) = "SearchTimeout"
  BY <1>1 DEF Kind, GtsHandlers
<1>5. e.do = "SearchTimeout"
  BY DEF SearchEvent, Event
<1>6. q \subseteq queue /\ \A f \in queue : f \notin q => Kind(f) \in {"SyncRequest", "SearchTimeout"}
  BY <1>4 DEF Cancel
<1>7. Touches({"SyncRequest", "SearchTimeout"})
  <2> HIDE DEF q, e
  <2> QED
    BY <1>3, <1>4, <1>5, <1>6, AddsTouches
<1> HIDE DEF n, q, e
<1>8. /\ Only(n) /\ TrackFrame /\ TunesToCap(n) /\ mac'[n].trackingOn = TRUE
      /\ mac'[n].numLost = 0
  BY <1>1, <1>2 DEF MacTypes, Only, TrackFrame, TunesToCap, KeepTable, KeepBsn, KeepOwn, KeepIn, KeepIdx
<1> QED
  BY <1>3, <1>7, <1>8 DEF n, q, e

LEMMA TimeoutStep ==
  ASSUME BeaconInv, NEW ev \in queue, BeaconSearchTimeout(ev)
  PROVE  LET n == ev.node
         IN /\ Touches({"SearchTimeout"}) /\ Only(n) /\ TrackFrame
            /\ ~IsLost(n) => /\ Adds(queue \ {ev}, queue', {SearchEvent(n, ev.at)})
                             /\ KeepRadio(n) /\ hearing' = hearing
                             /\ mac'[n].trackingOn = mac[n].trackingOn
                             /\ mac'[n].numLost = mac[n].numLost + 1
            /\ IsLost(n) /\ callback = "resync" =>
                 /\ Adds(queue \ {ev}, queue', {SearchEvent(n, ev.at)}) /\ TunesToCap(n)
                 /\ mac'[n].trackingOn = FALSE /\ mac'[n].numLost = 0
            /\ IsLost(n) /\ callback # "resync" =>
                 /\ Adds(queue \ {ev}, queue', {}) /\ KeepRadio(n) /\ hearing' = hearing
                 /\ callback = "null" => mac' = mac
                 /\ callback # "null" => mac'[n].trackingOn = FALSE /\ mac'[n].numLost = 0
<1> DEFINE n == ev.node
           e == SearchEvent(n, ev.at)
<1>1. /\ n \in Nodes /\ mac \in [Nodes -> MacTypes] /\ ev.do = "SearchTimeout" /\ now' = ev.at
      /\ UNCHANGED <<config, act, history>>
  BY Running, MacTyped DEF BeaconSearchTimeout, Runs
<1>2. Kind(ev) = "SearchTimeout" /\ Kind(e) = "SearchTimeout"
  BY <1>1 DEF Kind, GtsHandlers, SearchEvent, Event
<1>3. CASE ~IsLost(n)
  <2>1. /\ mac' = [mac EXCEPT ![n].numLost = @ + 1] /\ hearing' = hearing /\ Then(ev, <<e>>)
    BY <1>1, <1>3 DEF BeaconSearchTimeout, SearchAgain, Search, SearchEvent
  <2>2. Adds(queue \ {ev}, queue', {e}) /\ Touches({"SearchTimeout"})
    <3>1. Adds(queue \ {ev}, queue', {e})
      BY <2>1, ThenAdds
    <3>2. Touches({"SearchTimeout"})
      BY <1>2, <3>1, TouchesOwnKind
    <3> QED
      BY <3>1, <3>2
  <2> HIDE DEF n, e
  <2>3. /\ Only(n) /\ TrackFrame /\ KeepRadio(n) /\ mac'[n].trackingOn = mac[n].trackingOn
        /\ mac'[n].numLost = mac[n].numLost + 1
    BY <1>1, <2>1 DEF MacTypes, Only, TrackFrame, KeepTable, KeepBsn, KeepOwn, KeepIn, KeepIdx, KeepRadio
  <2> QED
    BY <1>3, <2>1, <2>2, <2>3 DEF n, e
<1>4. CASE IsLost(n) /\ callback = "resync"
  <2>1. PICK r : r = [Synchronised(n) EXCEPT !.trackingOn = FALSE]
    OBVIOUS
  <2>2. /\ mac' = [mac EXCEPT ![n] = r] /\ Then(ev, <<e>>)
        /\ hearing' = IF CapChannel = mac[n].channel THEN hearing ELSE hearing \ {n}
    BY <1>1, <1>4, <2>1 DEF BeaconSearchTimeout, Search, SearchEvent, Retune
  <2>3. Adds(queue \ {ev}, queue', {e}) /\ Touches({"SearchTimeout"})
    <3>1. Adds(queue \ {ev}, queue', {e})
      BY <2>2, ThenAdds
    <3>2. Touches({"SearchTimeout"})
      BY <1>2, <3>1, TouchesOwnKind
    <3> QED
      BY <3>1, <3>2
  <2>4. r = [mac[n] EXCEPT !.channel = CapChannel, !.rxOn = TRUE, !.trackingOn = FALSE, !.numLost = 0]
    BY <1>1, <2>1 DEF Synchronised, MacTypes
  <2> HIDE DEF n, e
  <2>5. /\ Only(n) /\ TrackFrame /\ TunesToCap(n) /\ mac'[n].trackingOn = FALSE /\ mac'[n].numLost = 0
    BY <1>1, <2>2, <2>4
    DEF MacTypes, Only, TrackFrame, KeepTable, KeepBsn, KeepOwn, KeepIn, KeepIdx, TunesToCap
  <2> QED
    BY <1>4, <2>3, <2>5 DEF n, e
<1>5. CASE IsLost(n) /\ callback # "resync"
  <2>1. /\ mac' = (IF callback = "null" THEN mac
                   ELSE [mac EXCEPT ![n].trackingOn = FALSE, ![n].numLost = 0])
        /\ Then(ev, <<>>) /\ hearing' = hearing
    BY <1>5 DEF BeaconSearchTimeout
  <2>2. Adds(queue \ {ev}, queue', {}) /\ Touches({"SearchTimeout"})
    <3>1. Adds(queue \ {ev}, queue', {})
      BY <2>1, ThenAdds
    <3>2. Touches({"SearchTimeout"})
      BY <1>2, <3>1, TouchesOwnKind
    <3> QED
      BY <3>1, <3>2
  <2> HIDE DEF n, e
  <2>3. /\ Only(n) /\ TrackFrame /\ KeepRadio(n)
        /\ callback # "null" => mac'[n].trackingOn = FALSE /\ mac'[n].numLost = 0
    BY SMTT(30), <1>1, <2>1 DEF MacTypes, Only, TrackFrame, KeepTable, KeepBsn, KeepOwn, KeepIn, KeepIdx, KeepRadio
  <2> QED
    BY <1>5, <2>1, <2>2, <2>3 DEF n
<1> QED
  BY <1>3, <1>4, <1>5

-----------------------------------------------------------------------------
(* The superframe that a node sends: one event at a time *)

\* MLME-START.request comes at most once to each node, and to the PAN coordinator.
StartsOnce ==
  \A i, j \in DOMAIN Boot : Boot[i].do = "StartRequest" /\ Boot[i] = Boot[j] => i = j

PanStarts == \E i \in DOMAIN Boot : Boot[i].node = PanC /\ Boot[i].do = "StartRequest"

\* The events that lead from one beacon of a node to its next.
Own(e) == OfSender(e) \/ e.do = "StartRequest"

\* When the second part of a CFP begins whose first part was none: m_firstCFP had
\* never been set.
SecondCfp == CapLen + CapLen - BeaconDelay

\* When they come, counted from the node's last beacon.
OwnTime(e) ==
  LET m == mac[e.node]
  IN /\ e.do = "StartTx" => e.at = m.bcnStart + Turnaround
     /\ e.do = "EndTx" => e.at = m.bcnStart + BeaconDelay
     /\ e.do = "StartCAP" => e.at = m.bcnStart + BeaconDelay
     /\ e.do = "StartCFP" => \/ e.at = m.bcnStart + BeaconDelay /\ m.firstCFP
                             \/ e.at = m.bcnStart + CapLen
                             \/ e.at = m.bcnStart + SecondCfp /\ ~m.firstCFP
     /\ e.do = "StartRemainingPeriod" => \/ e.at = m.bcnStart + SD
                                         \/ e.at = m.bcnStart + SecondCfp + 7 * Slot

\* A reception belongs to the last beacon of its sender, whose own superframe
\* goes on meanwhile.
ReceptionOk(e) ==
  /\ e.node # e.arg /\ e.arg \notin Devices /\ ~mac[e.arg].sendBcn
  /\ e.at = mac[e.arg].bcnStart + BeaconDelay
  /\ \A f \in queue : Own(f) /\ f.node = e.arg =>
                        f.do \notin {"StartRequest", "SendBeacon", "StartTx"}

OneOwn == \A e, f \in queue : Own(e) /\ Own(f) /\ e.node = f.node => e = f
OwnTimes == \A e \in queue : OfSender(e) => OwnTime(e)
\* A coordinator that waits for its first beacon has no superframe yet.
WaitsForBeacon == \A n \in Nodes : mac[n].sendBcn => \A e \in queue : Own(e) => e.node # n
Receptions == \A e \in queue : e.do = "EndRx" => ReceptionOk(e)
PanRuns == PanStarts => \E e \in queue : Own(e) /\ e.node = PanC
SyncAtStart == \A e \in queue : e.do = "SyncRequest" => e.at = 0
\* The SD index in a coordinator's bitmap is lost when it hears its first beacon.
BitmapOfStart == \A n \in Nodes : mac[n].bitmapSd # 0 => mac[n].sendBcn

SenderInv ==
  /\ OneOwn /\ OwnTimes /\ WaitsForBeacon /\ Receptions /\ PanRuns
  /\ SyncAtStart /\ BitmapOfStart

SenderKinds == {"own", "StartRequest", "SyncRequest", "EndRx"}

LEMMA KindsOfSender ==
  ASSUME NEW e
  PROVE  /\ Own(e) <=> Kind(e) \in {"own", "StartRequest"}
         /\ OfSender(e) <=> Kind(e) = "own"
         /\ \A h \in {"StartRequest", "SyncRequest", "EndRx", "SetIdle", "SearchTimeout"} :
              e.do = h <=> Kind(e) = h
         /\ Kind(e) = "gts" <=> e.do \in GtsHandlers
         /\ Kind(e) = "multi" <=> e.do \in {"StartMultisuperframe", "StartSuperframe"}
<1>1. OfSender(e) <=> Kind(e) = "own"
  BY DEF Kind, OfSender, GtsHandlers, OwnPeriods
<1>2. \A h \in {"StartRequest", "SyncRequest", "EndRx", "SetIdle", "SearchTimeout"} :
        e.do = h <=> Kind(e) = h
  BY DEF Kind, GtsHandlers
<1>3. /\ Kind(e) = "gts" <=> e.do \in GtsHandlers
      /\ Kind(e) = "multi" <=> e.do \in {"StartMultisuperframe", "StartSuperframe"}
  BY DEF Kind, GtsHandlers
<1> QED
  BY <1>1, <1>2, <1>3 DEF Own

LEMMA LikeKinds ==
  ASSUME NEW e, NEW f, Like(f, e)
  PROVE  /\ Kind(f) = Kind(e) /\ (Own(f) <=> Own(e)) /\ (OfSender(f) <=> OfSender(e))
         /\ f.at = e.at /\ f.node = e.node /\ f.do = e.do /\ f.arg = e.arg /\ f.gts = e.gts
BY DEF Like, Kind, Own, OfSender

\* Nothing of this is disturbed by a step that adds no such event.
LEMMA SenderFrame ==
  ASSUME BeaconInv, SenderInv,
         \A f \in queue' : Kind(f) \in SenderKinds => f \in queue,
         \A f \in queue : Own(f) => f \in queue',
         \A m \in Nodes : KeepOwn(m)
  PROVE  SenderInv'
<1>1. \A f \in queue' : Own(f) \/ OfSender(f) \/ f.do \in {"SyncRequest", "EndRx"} => f \in queue
  BY KindsOfSender DEF SenderKinds, Own
<1>2. \A f \in queue : f.node \in Nodes /\ (f.do = "EndRx" => f.arg \in Nodes)
  BY DEF BeaconInv, EventInv, EventTypes
<1>3. OneOwn'
  BY <1>1 DEF SenderInv, OneOwn, Own, OfSender
<1>4. OwnTimes'
  <2> SUFFICES ASSUME NEW e \in queue', OfSender(e) PROVE OwnTime(e)'
    BY DEF OwnTimes, OfSender
  <2>1. e \in queue /\ OwnTime(e) /\ e.node \in Nodes
    BY <1>1, <1>2 DEF SenderInv, OwnTimes
  <2> QED
    BY <2>1 DEF OwnTime, KeepOwn
<1>5. WaitsForBeacon'
  <2> SUFFICES ASSUME NEW n \in Nodes, mac'[n].sendBcn, NEW e \in queue', Own(e) PROVE e.node # n
    BY DEF WaitsForBeacon, Own, OfSender
  <2>1. e \in queue /\ mac[n].sendBcn
    BY <1>1 DEF KeepOwn
  <2> QED
    BY <2>1 DEF SenderInv, WaitsForBeacon
<1>6. Receptions'
  <2> SUFFICES ASSUME NEW e \in queue', e.do = "EndRx" PROVE ReceptionOk(e)'
    BY DEF Receptions
  <2>1. e \in queue /\ ReceptionOk(e) /\ e.arg \in Nodes
    BY <1>1, <1>2 DEF SenderInv, Receptions
  <2>2. KeepOwn(e.arg)
    BY <2>1
  <2>3. \A f \in queue' : Own(f) /\ f.node = e.arg =>
                            f.do \notin {"StartRequest", "SendBeacon", "StartTx"}
    BY <1>1, <2>1 DEF ReceptionOk
  <2> QED
    BY <2>1, <2>2, <2>3 DEF ReceptionOk, KeepOwn, Own, OfSender
<1>7. PanRuns' /\ SyncAtStart'
  BY <1>1 DEF SenderInv, PanRuns, SyncAtStart, Own, OfSender
<1>8. BitmapOfStart'
  BY DEF SenderInv, BitmapOfStart, KeepOwn
<1> QED
  BY <1>3, <1>4, <1>5, <1>6, <1>7, <1>8 DEF SenderInv

\* One event of a node's superframe makes way for the next.
LEMMA OwnStep ==
  ASSUME BeaconInv, SenderInv, NEW ev \in queue, Own(ev), NEW New, NEW x \in New,
         Adds(queue \ {ev}, queue', New), Only(ev.node),
         Own(x), x.node = ev.node, x.do # "StartRequest", OwnTime(x)',
         \A y \in New : Own(y) => y = x,
         \A y \in New : y.do # "SyncRequest",
         mac'[ev.node].sendBcn = mac[ev.node].sendBcn,
         mac'[ev.node].bitmapSd = mac[ev.node].bitmapSd,
         (\E e \in queue : e.do = "EndRx" /\ e.arg = ev.node) =>
           mac'[ev.node].bcnStart = mac[ev.node].bcnStart /\ x.do \notin {"SendBeacon", "StartTx"},
         \A y \in New : y.do = "EndRx" =>
           /\ y.arg = ev.node /\ y.node # y.arg /\ y.arg \notin Devices /\ x.do = "EndTx"
           /\ y.at = mac'[ev.node].bcnStart + BeaconDelay
  PROVE  SenderInv'
<1> DEFINE n == ev.node
<1>1. n \in Nodes /\ ~mac[n].sendBcn /\ \A f \in queue : f.node \in Nodes
  BY DEF SenderInv, WaitsForBeacon, BeaconInv, EventInv, EventTypes
<1>2. ASSUME NEW f \in queue', Own(f)
      PROVE  \/ f \in queue /\ f.node # n
             \/ f.node = n /\ Like(f, x) /\ f \notin queue \ {ev}
  <2>1. CASE f \in queue \ {ev}
    BY <1>2, <2>1 DEF SenderInv, OneOwn
  <2>2. CASE f \notin queue \ {ev}
    <3>1. PICK y \in New : Like(f, y)
      BY <1>2, <2>2 DEF Adds
    <3>2. y = x
      BY <1>2, <3>1, LikeKinds
    <3> QED
      BY <2>2, <3>1, <3>2, LikeKinds
  <2> QED
    BY <2>1, <2>2
<1>3. ASSUME NEW f \in queue', f.do = "EndRx"
      PROVE  f \in queue \/ \E y \in New : Like(f, y) /\ y.do = "EndRx"
  BY <1>3, LikeKinds DEF Adds
<1>4. OneOwn'
  <2> SUFFICES ASSUME NEW f \in queue', NEW g \in queue', Own(f), Own(g), f.node = g.node
               PROVE  f = g
    BY DEF OneOwn, Own, OfSender
  <2>1. CASE f.node # n
    BY <1>2, <2>1 DEF SenderInv, OneOwn
  <2>2. CASE f.node = n
    <3>1. Like(f, x) /\ Like(g, x) /\ f \notin queue \ {ev} /\ g \notin queue \ {ev}
      BY <1>2, <2>2
    <3>2. Like(f, g)
      BY <3>1 DEF Like
    <3> QED
      BY <3>1, <3>2 DEF Adds
  <2> QED
    BY <2>1, <2>2
<1>5. OwnTimes'
  <2> SUFFICES ASSUME NEW f \in queue', OfSender(f) PROVE OwnTime(f)'
    BY DEF OwnTimes, OfSender
  <2>1. Own(f)
    BY DEF Own
  <2>2. CASE f \in queue /\ f.node # n
    <3>1. mac'[f.node] = mac[f.node] /\ OwnTime(f)
      BY <1>1, <2>2 DEF Only, SenderInv, OwnTimes
    <3> QED
      BY <3>1 DEF OwnTime
  <2>3. CASE f.node = n /\ Like(f, x)
    BY <2>3 DEF OwnTime, Like
  <2> QED
    BY <1>2, <2>1, <2>2, <2>3
<1>6. WaitsForBeacon'
  <2> SUFFICES ASSUME NEW m \in Nodes, mac'[m].sendBcn, NEW f \in queue', Own(f) PROVE f.node # m
    BY DEF WaitsForBeacon, Own, OfSender
  <2>1. m # n /\ mac[m].sendBcn
    BY <1>1 DEF Only
  <2> QED
    BY <1>2, <2>1 DEF SenderInv, WaitsForBeacon
<1>7. Receptions'
  <2> SUFFICES ASSUME NEW e \in queue', e.do = "EndRx" PROVE ReceptionOk(e)'
    BY DEF Receptions
  <2>1. CASE e \in queue /\ e.arg # n
    <3>1. ReceptionOk(e) /\ e.arg \in Nodes
      BY <2>1 DEF SenderInv, Receptions, BeaconInv, EventInv, EventTypes
    <3>2. mac'[e.arg] = mac[e.arg]
      BY <2>1, <3>1 DEF Only
    <3>3. \A f \in queue' : Own(f) /\ f.node = e.arg =>
                              f.do \notin {"StartRequest", "SendBeacon", "StartTx"}
      BY <1>2, <2>1, <3>1 DEF ReceptionOk
    <3> QED
      BY <3>1, <3>2, <3>3 DEF ReceptionOk, Own, OfSender
  <2>2. CASE e \in queue /\ e.arg = n
    <3>1. ReceptionOk(e)
      BY <2>2 DEF SenderInv, Receptions
    <3>2. mac'[n].bcnStart = mac[n].bcnStart /\ x.do \notin {"SendBeacon", "StartTx"}
      BY <2>2
    <3>3. \A f \in queue' : Own(f) /\ f.node = e.arg =>
                              f.do \notin {"StartRequest", "SendBeacon", "StartTx"}
      BY <1>2, <2>2, <3>2, LikeKinds
    <3> QED
      BY <2>2, <3>1, <3>2, <3>3 DEF ReceptionOk, Own, OfSender
  <2>3. ASSUME NEW y \in New, Like(e, y), y.do = "EndRx" PROVE ReceptionOk(e)'
    <3>1. /\ e.arg = n /\ e.node # e.arg /\ e.arg \notin Devices /\ x.do = "EndTx"
          /\ e.at = mac'[n].bcnStart + BeaconDelay
      BY <2>3, LikeKinds
    <3>2. \A f \in queue' : Own(f) /\ f.node = e.arg => f.do = "EndTx"
      BY <1>2, <3>1, LikeKinds
    <3> QED
      BY <1>1, <3>1, <3>2 DEF ReceptionOk, Own, OfSender
  <2> QED
    BY <1>3, <2>1, <2>2, <2>3
<1>8. PanRuns'
  <2>1. CASE n = PanC
    BY <2>1, LikeKinds DEF PanRuns, Adds, Own, OfSender
  <2>2. CASE n # PanC
    BY <2>2 DEF SenderInv, PanRuns, Adds, Own, OfSender
  <2> QED
    BY <2>1, <2>2
<1>9. SyncAtStart'
  <2>1. \A f \in queue' : f.do = "SyncRequest" => f \in queue
    BY LikeKinds DEF Adds
  <2> QED
    BY <2>1 DEF SenderInv, SyncAtStart
<1>10. BitmapOfStart'
  BY DEF SenderInv, BitmapOfStart, Only
<1> QED
  BY <1>4, <1>5, <1>6, <1>7, <1>8, <1>9, <1>10 DEF SenderInv

LEMMA Lengths ==
  /\ Slot \in Nat /\ Slot > 0 /\ SD = 16 * Slot /\ CapLen = 9 * Slot /\ CfpSlots * Slot = 7 * Slot
  /\ BeaconDelay = Turnaround + BeaconLen /\ BeaconDelay < Slot
  /\ Turnaround \in Nat /\ Turnaround > 0 /\ BeaconLen \in Nat /\ BeaconLen > 0
  /\ BeaconDelay \in Nat /\ IncomingCap = CapLen - BeaconLen /\ IncomingCap \in Nat
  /\ SD \in Nat /\ BI \in Nat /\ BI >= SD /\ CapLen \in Nat
<1>1. /\ SD \in Nat /\ SD % 16 = 0 /\ SD > 0 /\ Turnaround \in Nat /\ BeaconLen \in Nat
      /\ Turnaround > 0 /\ BeaconLen > 0 /\ BeaconDelay < Slot
  BY DsmeDurations
<1>2. Slot \in Nat /\ SD = 16 * Slot
  BY <1>1 DEF Slot
<1>3. Slot > 0 /\ CapLen = 9 * Slot /\ CfpSlots * Slot = 7 * Slot
  BY <1>1, <1>2 DEF CapLen, CfpSlots, FnlCapSlot
<1> QED
  BY <1>1, <1>2, <1>3, Durations DEF BeaconDelay, IncomingCap

\* Every event comes no earlier than the first one.
LEMMA FirstIsFirst ==
  ASSUME BeaconInv, NEW ev \in queue, First(ev)
  PROVE  \A f \in queue : f.at \in Nat /\ f.at >= ev.at
<1>1. \A f \in queue : f.at \in Nat
  BY DEF BeaconInv, EventInv, EventTypes
<1> QED
  BY <1>1 DEF First

LEMMA StartTimes ==
  ASSUME BeaconInv, NEW n \in Nodes
  PROVE  mac[n].bcnStart \in Nat /\ mac[n].firstCFP \in BOOLEAN /\ mac[n].sendBcn \in BOOLEAN
<1>1. mac[n] \in MacTypes
  BY MacTyped
<1> QED
  BY <1>1, Durations DEF MacTypes

LEMMA OwnSenderStep ==
  ASSUME BeaconInv, SenderInv, NEW ev \in queue, First(ev),
         \/ SendOneEnhancedBeacon(ev) \/ StartTx(ev) \/ EndTx(ev)
         \/ (StartCAP(ev) \/ StartCFP(ev) \/ StartRemainingPeriod(ev)) /\ ev.arg = "OUT"
  PROVE  SenderInv'
<1> DEFINE n == ev.node
<1>1. n \in Nodes /\ ev.at \in Nat /\ mac[n].bcnStart \in Nat /\ EventInSlot(ev)
  BY Running, StartTimes
<1>2. ASSUME SendOneEnhancedBeacon(ev) PROVE SenderInv'
  <2>1. PICK x : x = Event(ev.at + Turnaround, n, "StartTx", "OUT")
    OBVIOUS
  <2>2. /\ x.do = "StartTx" /\ x.node = n /\ x.arg = "OUT" /\ x.at = ev.at + Turnaround
        /\ ev.do = "SendBeacon" /\ Own(ev) /\ Own(x)
    BY <1>2, <2>1 DEF Event, SendOneEnhancedBeacon, Runs, Own, OfSender, OwnPeriods
  <2>3. /\ Adds(queue \ {ev}, queue', {x}) /\ Only(n) /\ mac'[n].bcnStart = ev.at
        /\ mac'[n].sendBcn = mac[n].sendBcn /\ mac'[n].bitmapSd = mac[n].bitmapSd
    BY <1>2, <2>1, SendBeaconStep
  <2>4. OwnTime(x)'
    BY <2>2, <2>3 DEF OwnTime
  <2>5. ~\E e \in queue : e.do = "EndRx" /\ e.arg = n
    BY <2>2 DEF SenderInv, Receptions, ReceptionOk
  <2> QED
    BY <2>2, <2>3, <2>4, <2>5, OwnStep
<1>3. ASSUME StartTx(ev) PROVE SenderInv'
  <2>1. PICK x : x = Event(ev.at + BeaconLen, n, "EndTx", "OUT")
    OBVIOUS
  <2>2. PICK rx : rx = {Event(ev.at + BeaconLen, m, "EndRx", n) : m \in hearing'}
    OBVIOUS
  <2>3. /\ Adds(queue \ {ev}, queue', {x} \cup rx) /\ mac' = mac /\ ev.arg = "OUT"
        /\ hearing' = {y \in Nodes \ {n} : Listens(y)}
    BY <1>3, <2>1, <2>2, StartTxStep
  <2>4. /\ x.do = "EndTx" /\ x.node = n /\ x.arg = "OUT" /\ x.at = ev.at + BeaconLen
        /\ ev.do = "StartTx" /\ Own(ev) /\ Own(x) /\ OfSender(ev)
    BY <1>3, <2>1, <2>3 DEF Event, StartTx, Runs, Own, OfSender, OwnPeriods
  <2>5. ev.at = mac[n].bcnStart + Turnaround
    BY <2>4 DEF SenderInv, OwnTimes, OwnTime
  <2>6. x.at = mac[n].bcnStart + BeaconDelay
    BY <1>1, <2>4, <2>5, Lengths
  <2>7. OwnTime(x)'
    BY <2>3, <2>4, <2>6 DEF OwnTime
  <2>8. ~\E e \in queue : e.do = "EndRx" /\ e.arg = n
    BY <2>4 DEF SenderInv, Receptions, ReceptionOk
  <2>9. n \notin Devices
    BY <1>1, <2>3, <2>4 DEF EventInSlot, OwnPeriods
  <2>10. \A y \in rx : /\ y.do = "EndRx" /\ y.arg = n /\ y.node # y.arg
                       /\ y.at = mac'[n].bcnStart + BeaconDelay /\ ~Own(y)
    BY <2>1, <2>2, <2>3, <2>4, <2>6 DEF Event, Own, OfSender, OwnPeriods
  <2>11. Only(n)
    BY <2>3 DEF Only
  <2>12. \A y \in {x} \cup rx : (Own(y) => y = x) /\ y.do # "SyncRequest"
    BY <2>4, <2>10
  <2>13. \A y \in {x} \cup rx : y.do = "EndRx" =>
           /\ y.arg = n /\ y.node # y.arg /\ y.arg \notin Devices /\ x.do = "EndTx"
           /\ y.at = mac'[n].bcnStart + BeaconDelay
    BY <2>4, <2>9, <2>10
  <2>14. mac'[n].sendBcn = mac[n].sendBcn /\ mac'[n].bitmapSd = mac[n].bitmapSd
    BY <2>3
  <2> QED
    BY <2>3, <2>4, <2>7, <2>8, <2>11, <2>12, <2>13, <2>14, OwnStep
<1>4. ASSUME EndTx(ev) PROVE SenderInv'
  <2>1. PICK x : x = CapEvent(ev)
    OBVIOUS
  <2>2. PICK gts : gts = IF n # PanC THEN GtsItems(n, ev.at) ELSE {}
    OBVIOUS
  <2>3. /\ Adds(queue \ {ev}, queue', gts \cup {x}) /\ Only(n) /\ KeepBeacon(n)
        /\ mac'[n].firstCFP = (~HasCap(n) \/ mac[n].firstCFP)
    BY <1>4, <2>1, <2>2, EndTxStep
  <2>4. ev.do = "EndTx" /\ ev.arg = "OUT" /\ Own(ev) /\ OfSender(ev)
    BY <1>4, Running DEF EndTx, Runs, EventTypes, Own, OfSender, OwnPeriods
  <2>5. /\ x.do = (IF HasCap(n) THEN "StartCAP" ELSE "StartCFP") /\ x.node = n /\ x.at = ev.at
        /\ Own(x)
    BY <2>1 DEF CapEvent, Event, Own, OfSender, OwnPeriods
  <2>6. ev.at = mac[n].bcnStart + BeaconDelay
    BY <2>4 DEF SenderInv, OwnTimes, OwnTime
  <2>7. OwnTime(x)'
    BY <2>3, <2>5, <2>6 DEF OwnTime, KeepBeacon
  <2>8. \A y \in gts : y.do = "StartGTS" /\ ~Own(y)
    BY <2>2, GtsAdds DEF Own, OfSender, OwnPeriods
  <2>9. \A y \in gts \cup {x} : (Own(y) => y = x) /\ y.do \notin {"SyncRequest", "EndRx"}
    BY <2>5, <2>8
  <2> QED
    BY <2>3, <2>4, <2>5, <2>7, <2>9, OwnStep DEF KeepBeacon
<1>5. ASSUME StartCAP(ev), ev.arg = "OUT" PROVE SenderInv'
  <2>1. PICK x : x = Event(mac[n].bcnStart + CapLen, n, "StartCFP", "OUT")
    OBVIOUS
  <2>2. /\ Adds(queue \ {ev}, queue', {x}) /\ Only(n) /\ KeepBeacon(n)
        /\ mac'[n].firstCFP = mac[n].firstCFP
    BY <1>5, <2>1, OwnCapStep
  <2>3. ev.do = "StartCAP" /\ Own(ev) /\ OfSender(ev)
    BY <1>5 DEF StartCAP, Runs, Own, OfSender, OwnPeriods
  <2>4. x.do = "StartCFP" /\ x.node = n /\ x.at = mac[n].bcnStart + CapLen /\ Own(x)
    BY <2>1 DEF Event, Own, OfSender, OwnPeriods
  <2>5. OwnTime(x)'
    BY <2>2, <2>4 DEF OwnTime, KeepBeacon
  <2> QED
    BY <2>2, <2>3, <2>4, <2>5, OwnStep DEF KeepBeacon
<1>6. ASSUME StartCFP(ev), ev.arg = "OUT" PROVE SenderInv'
  <2>1. PICK x : x = IF mac[n].firstCFP
                     THEN Event(ev.at + CapLen - BeaconDelay, n, "StartCFP", "OUT")
                     ELSE Event(ev.at + CfpSlots * Slot, n, "StartRemainingPeriod", "OUT")
    OBVIOUS
  <2>2. /\ Adds(queue \ {ev}, queue', {x}) /\ Only(n) /\ KeepBeacon(n)
        /\ mac'[n].firstCFP = FALSE
    BY <1>6, <2>1, OwnCfpStep
  <2>3. ev.do = "StartCFP" /\ Own(ev) /\ OfSender(ev)
    BY <1>6 DEF StartCFP, Runs, Own, OfSender, OwnPeriods
  <2>4. /\ x.do \in {"StartCFP", "StartRemainingPeriod"} /\ x.node = n /\ Own(x)
        /\ x.do = "StartCFP" => mac[n].firstCFP /\ x.at = ev.at + CapLen - BeaconDelay
        /\ x.do = "StartRemainingPeriod" => ~mac[n].firstCFP /\ x.at = ev.at + CfpSlots * Slot
    BY <2>1 DEF Event, Own, OfSender, OwnPeriods
  <2>5. \/ ev.at = mac[n].bcnStart + BeaconDelay /\ mac[n].firstCFP
        \/ ev.at = mac[n].bcnStart + CapLen
        \/ ev.at = mac[n].bcnStart + SecondCfp /\ ~mac[n].firstCFP
    BY <2>3 DEF SenderInv, OwnTimes, OwnTime
  <2>6. /\ x.do = "StartRemainingPeriod" => \/ x.at = mac[n].bcnStart + SD
                                            \/ x.at = mac[n].bcnStart + SecondCfp + 7 * Slot
        /\ x.do = "StartCFP" => \/ x.at = mac[n].bcnStart + CapLen
                                \/ x.at = mac[n].bcnStart + SecondCfp
    BY <1>1, <2>4, <2>5, Lengths DEF SecondCfp
  <2>7. OwnTime(x)'
    BY <2>2, <2>4, <2>6 DEF OwnTime, KeepBeacon
  <2> QED
    BY <2>2, <2>3, <2>4, <2>7, OwnStep DEF KeepBeacon
<1>7. ASSUME StartRemainingPeriod(ev), ev.arg = "OUT" PROVE SenderInv'
  <2>1. PICK x : x = Event(mac[n].bcnStart + BI, n, "SendBeacon", "OUT")
    OBVIOUS
  <2>2. Adds(queue \ {ev}, queue', {x}) /\ Only(n) /\ KeepBeacon(n)
    BY <1>7, <2>1, OwnRemainingStep
  <2>3. ev.do = "StartRemainingPeriod" /\ Own(ev) /\ OfSender(ev)
    BY <1>7 DEF StartRemainingPeriod, Runs, Own, OfSender, OwnPeriods
  <2>4. x.do = "SendBeacon" /\ x.node = n /\ Own(x)
    BY <2>1 DEF Event, Own, OfSender
  <2>5. OwnTime(x)'
    BY <2>4 DEF OwnTime
  <2>6. ev.at > mac[n].bcnStart + BeaconDelay
    BY <1>1, <2>3, Lengths DEF SenderInv, OwnTimes, OwnTime, SecondCfp
  <2>7. ~\E e \in queue : e.do = "EndRx" /\ e.arg = n
    <3>1. SUFFICES ASSUME NEW e \in queue, e.do = "EndRx", e.arg = n PROVE FALSE
      OBVIOUS
    <3>2. e.at = mac[n].bcnStart + BeaconDelay
      BY <3>1 DEF SenderInv, Receptions, ReceptionOk
    <3> QED
      BY <1>1, <2>6, <3>2, FirstIsFirst, Lengths
  <2> QED
    BY <2>2, <2>3, <2>4, <2>5, <2>7, OwnStep DEF KeepBeacon
<1> QED
  BY <1>2, <1>3, <1>4, <1>5, <1>6, <1>7

LEMMA TouchesNot ==
  ASSUME NEW kinds, Touches(kinds), NEW f, Kind(f) \notin kinds
  PROVE  f \in queue' <=> f \in queue
BY DEF Touches

\* The handlers that have nothing to do with the superframe of a sender.
LEMMA QuietForSender ==
  ASSUME BeaconInv, NEW ev \in queue,
         \/ StartGTS(ev) \/ EndGTS(ev) \/ SendGack(ev) \/ GackSent(ev)
         \/ (StartCAP(ev) \/ StartCFP(ev) \/ StartRemainingPeriod(ev)) /\ ev.arg # "OUT"
         \/ AwaitBeacon(ev) \/ StartSuperframe(ev) \/ StartMultisuperframe(ev) \/ SetIdle(ev)
         \/ BeaconLost(ev) \/ SyncRequest(ev) \/ BeaconSearchTimeout(ev)
  PROVE  /\ \A f \in queue' : Kind(f) \in SenderKinds => f \in queue
         /\ \A f \in queue : Own(f) => f \in queue'
         /\ \A m \in Nodes : KeepOwn(m)
<1>1. CASE StartGTS(ev) \/ EndGTS(ev) \/ SendGack(ev) \/ GackSent(ev)
  <2>1. Touches({"gts"}) /\ \A m \in Nodes : KeepOwn(m)
    BY <1>1, StartGtsStep, GtsSteps
  <2> QED
    BY <2>1, TouchesNot, KindsOfSender DEF SenderKinds
<1>2. CASE (StartCAP(ev) \/ StartCFP(ev) \/ StartRemainingPeriod(ev)) /\ ev.arg # "OUT"
  <2>1. Touches({"in"}) /\ \A m \in Nodes : KeepOwn(m)
    BY <1>2, InCapStep, InCfpStep, InRemainingStep DEF InFrame
  <2> QED
    BY <2>1, TouchesNot, KindsOfSender DEF SenderKinds
<1>3. CASE AwaitBeacon(ev)
  <2>1. Touches({"in"}) /\ \A m \in Nodes : KeepOwn(m)
    BY <1>3, AwaitStep DEF InFrame
  <2> QED
    BY <2>1, TouchesNot, KindsOfSender DEF SenderKinds
<1>4. CASE StartSuperframe(ev) \/ StartMultisuperframe(ev)
  <2>1. Touches({"multi"}) /\ \A m \in Nodes : KeepOwn(m)
    BY <1>4, SuperframeStep, MultiStep DEF IdxFrame
  <2> QED
    BY <2>1, TouchesNot, KindsOfSender DEF SenderKinds
<1>5. CASE SetIdle(ev)
  <2>1. Touches({"SetIdle"}) /\ \A m \in Nodes : KeepOwn(m)
    BY <1>5, SetIdleStep
  <2> QED
    BY <2>1, TouchesNot, KindsOfSender DEF SenderKinds
<1>6. CASE BeaconLost(ev)
  <2>1. Adds(queue \ {ev}, queue', {}) /\ Touches({"EndRx"}) /\ mac' = mac
    BY <1>6, BeaconLostStep
  <2>2. \A m \in Nodes : KeepOwn(m)
    BY <2>1 DEF KeepOwn
  <2>3. \A f \in queue' : f \in queue
    BY <2>1 DEF Adds
  <2> QED
    BY <2>1, <2>2, <2>3, TouchesNot, KindsOfSender
<1>7. CASE SyncRequest(ev)
  <2>1. /\ Adds(Cancel(queue \ {ev}, ev.node, "SearchTimeout"), queue', {SearchEvent(ev.node, ev.at)})
        /\ Touches({"SyncRequest", "SearchTimeout"}) /\ \A m \in Nodes : KeepOwn(m)
    BY <1>7, SyncStep DEF TrackFrame
  <2>2. SearchEvent(ev.node, ev.at).do = "SearchTimeout"
    BY DEF SearchEvent, Event
  <2>3. \A f \in queue' : f.do = "SyncRequest" => f \in queue
    BY <2>1, <2>2, LikeKinds DEF Adds, Cancel
  <2> QED
    BY <2>1, <2>3, TouchesNot, KindsOfSender DEF SenderKinds
<1>8. CASE BeaconSearchTimeout(ev)
  <2>1. Touches({"SearchTimeout"}) /\ \A m \in Nodes : KeepOwn(m)
    BY <1>8, TimeoutStep DEF TrackFrame
  <2> QED
    BY <2>1, TouchesNot, KindsOfSender DEF SenderKinds
<1> QED
  BY <1>1, <1>2, <1>3, <1>4, <1>5, <1>6, <1>7, <1>8

LEMMA StartSenderStep ==
  ASSUME BeaconInv, SenderInv, NEW ev \in queue, StartRequest(ev)
  PROVE  SenderInv'
<1> DEFINE n == ev.node
<1>1. n \in Nodes /\ ev.do = "StartRequest" /\ Own(ev)
  BY Running DEF StartRequest, Runs, Own
<1>2. ~\E e \in queue : e.do = "EndRx" /\ e.arg = n
  BY <1>1 DEF SenderInv, Receptions, ReceptionOk
<1>3. CASE n = PanC
  <2>1. PICK m : m = Event(ev.at, PanC, "StartMultisuperframe", "OUT")
    OBVIOUS
  <2>2. PICK x : x = Event(ev.at, PanC, "SendBeacon", "OUT")
    OBVIOUS
  <2>3. Adds(queue \ {ev}, queue', {m, x}) /\ mac' = mac
    BY <1>3, <2>1, <2>2, PanStartStep
  <2>4. /\ m.do = "StartMultisuperframe" /\ x.do = "SendBeacon" /\ x.node = n
        /\ Own(x) /\ ~Own(m)
    BY <1>3, <2>1, <2>2 DEF Event, Own, OfSender, OwnPeriods
  <2>5. OwnTime(x)'
    BY <2>4 DEF OwnTime
  <2>6. \A y \in {m, x} : (Own(y) => y = x) /\ y.do \notin {"SyncRequest", "EndRx"}
    BY <2>4
  <2>7. Only(n)
    BY <2>3 DEF Only
  <2> QED
    BY <1>1, <1>2, <2>3, <2>4, <2>5, <2>6, <2>7, OwnStep
<1>4. CASE n # PanC
  <2>1. /\ Adds(queue \ {ev}, queue', GtsItems(n, ev.at)) /\ Touches({"StartRequest", "gts"})
        /\ Only(n) /\ RequestFrame /\ mac'[n].sendBcn = TRUE /\ n \in Coords
    BY <1>4, CoordStartStep
  <2>2. \A x \in GtsItems(n, ev.at) : Kind(x) = "gts" /\ x.do = "StartGTS"
    BY GtsAdds
  <2>3. ASSUME NEW f \in queue', Kind(f) \in SenderKinds PROVE f \in queue \ {ev}
    <3>1. ASSUME NEW x \in GtsItems(n, ev.at), Like(f, x) PROVE FALSE
      BY <2>2, <2>3, <3>1, LikeKinds DEF SenderKinds
    <3> QED
      BY <2>1, <3>1 DEF Adds
  <2>4. \A f \in queue' : Own(f) \/ OfSender(f) \/ f.do \in {"SyncRequest", "EndRx"} => f \in queue \ {ev}
    BY <2>3, KindsOfSender DEF SenderKinds, Own
  <2>5. \A f \in queue' : Own(f) => f.node # n
    BY <1>1, <2>4 DEF SenderInv, OneOwn
  <2>6. \A f \in queue : f.node \in Nodes /\ (f.do = "EndRx" => f.arg \in Nodes)
    BY DEF BeaconInv, EventInv, EventTypes
  <2>7. OneOwn'
    BY <2>4 DEF SenderInv, OneOwn, Own, OfSender
  <2>8. OwnTimes'
    <3> SUFFICES ASSUME NEW e \in queue', OfSender(e) PROVE OwnTime(e)'
      BY DEF OwnTimes, OfSender
    <3>1. e \in queue /\ OwnTime(e) /\ e.node \in Nodes
      BY <2>4, <2>6 DEF SenderInv, OwnTimes
    <3> QED
      BY <2>1, <3>1 DEF OwnTime, RequestFrame
  <2>9. WaitsForBeacon'
    <3> SUFFICES ASSUME NEW m \in Nodes, mac'[m].sendBcn, NEW e \in queue', Own(e) PROVE e.node # m
      BY DEF WaitsForBeacon, Own, OfSender
    <3>1. CASE m = n
      BY <2>5, <3>1
    <3>2. CASE m # n
      BY <2>1, <2>4, <3>2 DEF Only, SenderInv, WaitsForBeacon
    <3> QED
      BY <3>1, <3>2
  <2>10. Receptions'
    <3> SUFFICES ASSUME NEW e \in queue', e.do = "EndRx" PROVE ReceptionOk(e)'
      BY DEF Receptions
    <3>1. e \in queue /\ ReceptionOk(e) /\ e.arg \in Nodes /\ e.arg # n
      BY <1>2, <2>4, <2>6 DEF SenderInv, Receptions
    <3>2. mac'[e.arg] = mac[e.arg]
      BY <2>1, <3>1 DEF Only
    <3>3. \A f \in queue' : Own(f) /\ f.node = e.arg =>
                              f.do \notin {"StartRequest", "SendBeacon", "StartTx"}
      BY <2>4, <3>1 DEF ReceptionOk
    <3> QED
      BY <3>1, <3>2, <3>3 DEF ReceptionOk, Own, OfSender
  <2>11. PanRuns'
    <3>1. \A f \in queue : Own(f) /\ f.node = PanC => f \in queue'
      BY <1>4, <2>1 DEF Adds
    <3> QED
      BY <3>1 DEF SenderInv, PanRuns, Own, OfSender
  <2>12. SyncAtStart'
    BY <2>4 DEF SenderInv, SyncAtStart
  <2>13. BitmapOfStart'
    BY <2>1 DEF SenderInv, BitmapOfStart, Only
  <2> QED
    BY <2>7, <2>8, <2>9, <2>10, <2>11, <2>12, <2>13 DEF SenderInv
<1> QED
  BY <1>3, <1>4

\* What is known of a beacon that is received.
LEMMA HeardBeacon ==
  ASSUME BeaconInv, SenderInv, NEW ev \in queue, EndRx(ev)
  PROVE  LET n == ev.node
             from == ev.arg
         IN /\ ev.do = "EndRx" /\ now' = ev.at /\ n \in Nodes /\ from \in Nodes
            /\ n # from /\ from \notin Devices /\ ~mac[from].sendBcn
            /\ ev.at = mac[from].bcnStart + BeaconDelay
            /\ mac[from].bitmapSd = 0
            /\ mac[from].bitmapSd % NumSuperframes = 0
            /\ mac'[from] = mac[from]
            /\ mac[n].sendBcn => n \in Coords /\ n # PanC
<1> DEFINE n == ev.node
           from == ev.arg
<1>1. /\ ev.do = "EndRx" /\ now' = ev.at /\ n \in Nodes /\ from \in Nodes /\ MacOk(n)
  BY Running DEF EndRx, Runs, EventTypes
<1>2. ReceptionOk(ev)
  BY <1>1 DEF SenderInv, Receptions
<1>3. mac[from].bitmapSd = 0
  BY <1>1, <1>2 DEF ReceptionOk, SenderInv, BitmapOfStart
<1>4. mac[from].bitmapSd % NumSuperframes = 0
  BY <1>3, DsmeDurations
<1>5. mac'[from] = mac[from]
  BY <1>1, <1>2, EndRxStep DEF ReceptionOk, Only
<1>6. mac[n].sendBcn => n \in Coords /\ n # PanC
  BY <1>1, DsmeConstants DEF MacOk
<1> QED
  BY <1>1, <1>2, <1>3, <1>4, <1>5, <1>6 DEF ReceptionOk

\* The events of a reception, by kind.
LEMMA ReceptionKinds ==
  ASSUME NEW n, NEW from, NEW t, mac[from].bitmapSd % NumSuperframes = 0,
         NEW x \in ReceptionEvents(n, from, t)
  PROVE  /\ Kind(x) \in {"SetIdle", "own", "gts", "in", "SearchTimeout"} /\ x.node = n
         /\ Kind(x) \in {"SetIdle", "own"} => mac[n].sendBcn /\ x.at = FirstBeacon(n, from)
         /\ Kind(x) = "own" => x.do = "SendBeacon" /\ x = Event(FirstBeacon(n, from), n, "SendBeacon", "OUT")
         /\ Kind(x) = "gts" => IndicatesGts(n, from) /\ x \in GtsItems(n, t) /\ x.do = "StartGTS"
         /\ Kind(x) = "in" => x = PeriodEvent(n, from, t) /\ x.at = t
         /\ Kind(x) = "SearchTimeout" => KeepsSearching(n) /\ x.at = t + NextSearch
<1>1. CASE x \in BeaconEvents(n, from, t)
  BY <1>1 DEF BeaconEvents, Event, Kind, GtsHandlers
<1>2. CASE x \in GtsOfBeacon(n, from, t)
  <2>1. x \in GtsItems(n, t) /\ IndicatesGts(n, from)
    BY <1>2 DEF GtsOfBeacon
  <2> QED
    BY <2>1 DEF GtsItems, GtsEvent, Kind, GtsHandlers
<1>3. CASE x \in PeriodEvents(n, from, t)
  BY <1>3 DEF PeriodEvents, PeriodEvent, Event, Kind, GtsHandlers, OwnPeriods
<1> QED
  BY <1>1, <1>2, <1>3 DEF ReceptionEvents

LEMMA EndRxSenderStep ==
  ASSUME BeaconInv, SenderInv, NEW ev \in queue, EndRx(ev)
  PROVE  SenderInv'
<1>1. PICK n : n = ev.node
  OBVIOUS
<1>2. PICK from : from = ev.arg
  OBVIOUS
<1>3. PICK q : q = Cancel(queue \ {ev}, n, "SearchTimeout")
  OBVIOUS
<1>4. /\ Adds(q, queue', ReceptionEvents(n, from, ev.at)) /\ Only(n)
      /\ mac'[n] = AfterBeacon(n, from)
  BY <1>1, <1>2, <1>3, EndRxStep
<1>5. /\ ev.do = "EndRx" /\ n \in Nodes /\ from \in Nodes /\ mac[from].bitmapSd = 0
      /\ mac[from].bitmapSd % NumSuperframes = 0
  BY <1>1, <1>2, HeardBeacon
<1>6. /\ mac'[n].sendBcn = FALSE /\ mac'[n].bitmapSd = 0 /\ mac'[n].bcnStart = mac[n].bcnStart
      /\ mac'[n].firstCFP = mac[n].firstCFP
  <2>1. PICK m : m = AfterBeacon(n, from)
    OBVIOUS
  <2>2. /\ m.sendBcn = FALSE /\ m.bitmapSd = mac[from].bitmapSd /\ m.bcnStart = mac[n].bcnStart
        /\ m.firstCFP = mac[n].firstCFP
    BY <1>5, <2>1, AfterBeaconFields
  <2> QED
    BY <1>4, <1>5, <2>1, <2>2
<1>7. q \subseteq queue /\ \A f \in queue : Own(f) => f \in q
  BY <1>3, <1>5 DEF Cancel, Own, OfSender, OwnPeriods
<1>8. ASSUME NEW f \in queue', Kind(f) \in SenderKinds
      PROVE  \/ f \in q
             \/ f \notin q /\ mac[n].sendBcn /\ f.node = n /\ f.do = "SendBeacon"
                /\ Like(f, Event(FirstBeacon(n, from), n, "SendBeacon", "OUT"))
  <2>1. CASE f \notin q
    <3>1. PICK x \in ReceptionEvents(n, from, ev.at) : Like(f, x)
      BY <1>4, <2>1 DEF Adds
    <3>2. Kind(x) = "own"
      BY <1>5, <1>8, <3>1, LikeKinds, ReceptionKinds DEF SenderKinds
    <3> QED
      BY <1>5, <2>1, <3>1, <3>2, LikeKinds, ReceptionKinds
  <2> QED
    BY <2>1
<1>9. \A f \in queue : f.node \in Nodes /\ (f.do = "EndRx" => f.arg \in Nodes)
  BY DEF BeaconInv, EventInv, EventTypes
<1>10. OneOwn'
  <2> SUFFICES ASSUME NEW f \in queue', NEW g \in queue', Own(f), Own(g), f.node = g.node
               PROVE  f = g
    BY DEF OneOwn, Own, OfSender
  <2>0. Kind(f) \in SenderKinds /\ Kind(g) \in SenderKinds
    BY KindsOfSender DEF SenderKinds
  <2>1. CASE f \in q /\ g \in q
    BY <1>7, <2>1 DEF SenderInv, OneOwn
  <2>2. CASE f \in q /\ g \notin q
    BY <1>5, <1>7, <1>8, <2>0, <2>2 DEF SenderInv, WaitsForBeacon
  <2>3. CASE f \notin q /\ g \in q
    BY <1>5, <1>7, <1>8, <2>0, <2>3 DEF SenderInv, WaitsForBeacon
  <2>4. CASE f \notin q /\ g \notin q
    <3>1. Like(f, g)
      BY <1>8, <2>0, <2>4 DEF Like
    <3> QED
      BY <1>4, <2>4, <3>1 DEF Adds
  <2> QED
    BY <2>1, <2>2, <2>3, <2>4
<1>11. OwnTimes'
  <2> SUFFICES ASSUME NEW e \in queue', OfSender(e) PROVE OwnTime(e)'
    BY DEF OwnTimes, OfSender
  <2>0. Kind(e) \in SenderKinds
    BY KindsOfSender DEF SenderKinds
  <2>1. CASE e \in q
    <3>1. e \in queue /\ OwnTime(e) /\ e.node \in Nodes
      BY <1>7, <1>9, <2>1 DEF SenderInv, OwnTimes
    <3>2. mac'[e.node].bcnStart = mac[e.node].bcnStart /\ mac'[e.node].firstCFP = mac[e.node].firstCFP
      BY <1>4, <1>6, <3>1 DEF Only
    <3> QED
      BY <3>1, <3>2 DEF OwnTime
  <2>2. CASE e.do = "SendBeacon"
    BY <2>2 DEF OwnTime
  <2> QED
    BY <1>8, <2>0, <2>1, <2>2
<1>12. WaitsForBeacon'
  <2> SUFFICES ASSUME NEW m \in Nodes, mac'[m].sendBcn, NEW e \in queue', Own(e) PROVE e.node # m
    BY DEF WaitsForBeacon, Own, OfSender
  <2>0. Kind(e) \in SenderKinds
    BY KindsOfSender DEF SenderKinds
  <2>1. m # n /\ mac[m].sendBcn
    BY <1>4, <1>6 DEF Only
  <2> QED
    BY <1>7, <1>8, <2>0, <2>1 DEF SenderInv, WaitsForBeacon
<1>13. Receptions'
  <2> SUFFICES ASSUME NEW e \in queue', e.do = "EndRx" PROVE ReceptionOk(e)'
    BY DEF Receptions
  <2>0. Kind(e) \in SenderKinds
    BY KindsOfSender DEF SenderKinds
  <2>1. e \in queue /\ ReceptionOk(e) /\ e.arg \in Nodes
    BY <1>7, <1>8, <1>9, <2>0 DEF SenderInv, Receptions
  <2>2. mac'[e.arg].bcnStart = mac[e.arg].bcnStart /\ ~mac'[e.arg].sendBcn
    BY <1>4, <1>6, <2>1 DEF Only, ReceptionOk
  <2>3. ASSUME NEW f \in queue', Own(f), f.node = e.arg
        PROVE  f.do \notin {"StartRequest", "SendBeacon", "StartTx"}
    <3>0. Kind(f) \in SenderKinds
      BY <2>3, KindsOfSender DEF SenderKinds
    <3>1. f \in q
      BY <1>8, <2>1, <2>3, <3>0 DEF ReceptionOk
    <3> QED
      BY <1>7, <2>1, <2>3, <3>1 DEF ReceptionOk
  <2> QED
    BY <2>1, <2>2, <2>3 DEF ReceptionOk, Own, OfSender
<1>14. PanRuns'
  <2>1. \A f \in queue : Own(f) => f \in queue'
    BY <1>4, <1>7 DEF Adds
  <2> QED
    BY <2>1 DEF SenderInv, PanRuns, Own, OfSender
<1>15. SyncAtStart'
  <2> SUFFICES ASSUME NEW e \in queue', e.do = "SyncRequest" PROVE e.at = 0
    BY DEF SyncAtStart
  <2>0. Kind(e) \in SenderKinds
    BY KindsOfSender DEF SenderKinds
  <2> QED
    BY <1>7, <1>8, <2>0 DEF SenderInv, SyncAtStart
<1>16. BitmapOfStart'
  BY <1>4, <1>6 DEF SenderInv, BitmapOfStart, Only
<1> QED
  BY <1>10, <1>11, <1>12, <1>13, <1>14, <1>15, <1>16 DEF SenderInv

\* What the higher layer asks for at the start.
LEMMA BootEvents ==
  ASSUME Init
  PROVE  /\ \A f \in queue : \E i \in DOMAIN Boot :
              /\ Boot[i] \in [node : Nodes, do : {"StartRequest", "SyncRequest"}]
              /\ f.at = 0 /\ f.node = Boot[i].node /\ f.do = Boot[i].do
              /\ f = Numbered(Event(0, Boot[i].node, Boot[i].do, "OUT"), LastUid({}, 0) + i)
         /\ \A i \in DOMAIN Boot : \E f \in queue : f.node = Boot[i].node /\ f.do = Boot[i].do
<1>1. PICK es : es = [i \in DOMAIN Boot |-> Event(0, Boot[i].node, Boot[i].do, "OUT")]
  OBVIOUS
<1>2. /\ \A f \in queue : \E i \in DOMAIN Boot : f = Numbered(es[i], LastUid({}, 0) + i)
      /\ \A i \in DOMAIN Boot : Numbered(es[i], LastUid({}, 0) + i) \in queue
  <2>1. queue = {} \cup {Numbered(es[k], LastUid({}, es[k].at) + k) : k \in DOMAIN es}
    BY <1>1 DEF Init, ScheduleAll
  <2>2. DOMAIN es = DOMAIN Boot /\ \A k \in DOMAIN es : es[k].at = 0
    BY <1>1 DEF Event
  <2>3. \A k \in DOMAIN es : LastUid({}, es[k].at) + k = LastUid({}, 0) + k
    BY <2>2
  <2>4. /\ \A f \in queue : \E k \in DOMAIN es : f = Numbered(es[k], LastUid({}, es[k].at) + k)
        /\ \A k \in DOMAIN es : Numbered(es[k], LastUid({}, es[k].at) + k) \in queue
    BY <2>1
  <2> QED
    BY <2>2, <2>3, <2>4
<1>3. ASSUME NEW i \in DOMAIN Boot
      PROVE  Boot[i] \in [node : Nodes, do : {"StartRequest", "SyncRequest"}]
  <2>1. PICK S : S = [node : Nodes, do : {"StartRequest", "SyncRequest"}]
    OBVIOUS
  <2>2. Boot \in Seq(S)
    BY <2>1, DsmeConstants
  <2>3. Boot[i] \in S
    BY <2>2
  <2> QED
    BY <2>1, <2>3
<1>4. ASSUME NEW i \in DOMAIN Boot, NEW u
      PROVE  LET f == Numbered(es[i], u)
             IN /\ f.at = 0 /\ f.node = Boot[i].node /\ f.do = Boot[i].do
                /\ f = Numbered(Event(0, Boot[i].node, Boot[i].do, "OUT"), u)
  BY <1>1 DEF Numbered, Event
<1> QED
  BY <1>2, <1>3, <1>4

LEMMA SenderInit ==
  ASSUME Init, StartsOnce
  PROVE  SenderInv
<1>1. \A f \in queue : \E i \in DOMAIN Boot :
        /\ Boot[i] \in [node : Nodes, do : {"StartRequest", "SyncRequest"}]
        /\ f.at = 0 /\ f.node = Boot[i].node /\ f.do = Boot[i].do
        /\ f = Numbered(Event(0, Boot[i].node, Boot[i].do, "OUT"), LastUid({}, 0) + i)
  BY BootEvents
<1>2. \A f \in queue : f.do \in {"StartRequest", "SyncRequest"} /\ f.at = 0
  BY <1>1
<1>3. \A n \in Nodes : mac[n].sendBcn = FALSE /\ mac[n].bitmapSd = 0
  BY DEF Init, MacAtStart
<1>4. OneOwn
  <2> SUFFICES ASSUME NEW e \in queue, NEW f \in queue, Own(e), Own(f), e.node = f.node
               PROVE  e = f
    BY DEF OneOwn
  <2>1. e.do = "StartRequest" /\ f.do = "StartRequest"
    BY <1>2 DEF Own, OfSender, OwnPeriods
  <2>2. PICK i \in DOMAIN Boot :
          /\ Boot[i] \in [node : Nodes, do : {"StartRequest", "SyncRequest"}]
          /\ e.node = Boot[i].node /\ e.do = Boot[i].do
          /\ e = Numbered(Event(0, Boot[i].node, Boot[i].do, "OUT"), LastUid({}, 0) + i)
    BY <1>1
  <2>3. PICK j \in DOMAIN Boot :
          /\ Boot[j] \in [node : Nodes, do : {"StartRequest", "SyncRequest"}]
          /\ f.node = Boot[j].node /\ f.do = Boot[j].do
          /\ f = Numbered(Event(0, Boot[j].node, Boot[j].do, "OUT"), LastUid({}, 0) + j)
    BY <1>1
  <2>4. Boot[i] = Boot[j]
    <3>1. \A r, t \in [node : Nodes, do : {"StartRequest", "SyncRequest"}] :
            r.node = t.node /\ r.do = t.do => r = t
      OBVIOUS
    <3> QED
      BY <2>2, <2>3, <2>1, <3>1
  <2>5. i = j
    BY <2>1, <2>2, <2>4 DEF StartsOnce
  <2> QED
    BY <2>2, <2>3, <2>5
<1>5. OwnTimes /\ Receptions /\ SyncAtStart
  BY <1>2 DEF OwnTimes, Receptions, SyncAtStart, OfSender, OwnPeriods
<1>6. WaitsForBeacon /\ BitmapOfStart
  BY <1>3 DEF WaitsForBeacon, BitmapOfStart
<1>7. PanRuns
  BY BootEvents DEF PanRuns, PanStarts, Own
<1> QED
  BY <1>4, <1>5, <1>6, <1>7 DEF SenderInv

LEMMA SenderStep ==
  ASSUME BeaconInv, SenderInv, NEW ev \in queue, First(ev), Handler(ev)
  PROVE  SenderInv'
<1>1. CASE \/ StartGTS(ev) \/ EndGTS(ev) \/ SendGack(ev) \/ GackSent(ev)
           \/ (StartCAP(ev) \/ StartCFP(ev) \/ StartRemainingPeriod(ev)) /\ ev.arg # "OUT"
           \/ AwaitBeacon(ev) \/ StartSuperframe(ev) \/ StartMultisuperframe(ev) \/ SetIdle(ev)
           \/ BeaconLost(ev) \/ SyncRequest(ev) \/ BeaconSearchTimeout(ev)
  <2>1. /\ \A f \in queue' : Kind(f) \in SenderKinds => f \in queue
        /\ \A f \in queue : Own(f) => f \in queue'
        /\ \A m \in Nodes : KeepOwn(m)
    BY <1>1, QuietForSender
  <2> QED
    BY <2>1, SenderFrame
<1>2. CASE \/ SendOneEnhancedBeacon(ev) \/ StartTx(ev) \/ EndTx(ev)
           \/ (StartCAP(ev) \/ StartCFP(ev) \/ StartRemainingPeriod(ev)) /\ ev.arg = "OUT"
  BY <1>2, OwnSenderStep
<1>3. CASE StartRequest(ev)
  BY <1>3, StartSenderStep
<1>4. CASE EndRx(ev)
  BY <1>4, EndRxSenderStep
<1> QED
  BY <1>1, <1>2, <1>3, <1>4 DEF Handler

LEMMA SenderStutters ==
  ASSUME SenderInv, queue' = queue, mac' = mac
  PROVE  SenderInv'
<1>1. OneOwn' /\ WaitsForBeacon' /\ PanRuns' /\ SyncAtStart' /\ BitmapOfStart'
  BY DEF SenderInv, OneOwn, WaitsForBeacon, PanRuns, SyncAtStart, BitmapOfStart, Own, OfSender
<1>2. OwnTimes'
  BY DEF SenderInv, OwnTimes, OwnTime, OfSender
<1>3. Receptions'
  BY DEF SenderInv, Receptions, ReceptionOk, Own, OfSender
<1> QED
  BY <1>1, <1>2, <1>3 DEF SenderInv

\* If each node is started at most once, whatever is lost and in whatever order
\* events of the same time were scheduled, a node has one superframe of its own:
\* at any time one event leads from its last beacon to its next, at the time
\* that MlmeStartRequest, PdDataConfirm, StartCAP, StartCFP and
\* StartRemainingPeriod count from that beacon, and whoever is about to receive
\* a beacon receives the last one of its sender.
THEOREM DsmeSenders ==
  ASSUME StartsOnce
  PROVE  Spec => []SenderInv
<1>1. ASSUME BeaconInv, SenderInv, [Next]_vars PROVE SenderInv'
  <2>1. ASSUME NEW ev \in queue, First(ev), Handler(ev) PROVE SenderInv'
    BY <1>1, <2>1, SenderStep
  <2>2. ASSUME NEW late \in LateEntries, AddDsmeACTEntity(late.node, late.entry) PROVE SenderInv'
    BY <1>1, <2>2, SenderStutters DEF AddDsmeACTEntity
  <2>3. CASE UNCHANGED vars
    BY <1>1, <2>3, SenderStutters DEF vars
  <2> QED
    BY <1>1, <2>1, <2>2, <2>3 DEF Next
<1>2. Init => SenderInv
  BY SenderInit
<1> QED
  BY <1>1, <1>2, DsmeInvariant, PTL DEF Spec

-----------------------------------------------------------------------------
(* No event is scheduled for the past *)

OneCoordinator == \A c, d \in Coords : c = d

LEMMA DelayAdds ==
  ASSUME BeaconInv, NEW ev \in queue, First(ev), now' = ev.at, NEW q \in SUBSET queue, NEW New,
         Adds(q, queue', New), \A x \in New : x.at >= ev.at
  PROVE  DelayIsPositive'
<1> SUFFICES ASSUME NEW f \in queue' PROVE f.at >= ev.at
  BY DEF DelayIsPositive
<1>1. CASE f \in q
  BY <1>1, FirstIsFirst
<1>2. CASE f \notin q
  BY <1>2, LikeKinds DEF Adds
<1> QED
  BY <1>1, <1>2

LEMMA GtsItemsLater ==
  ASSUME BeaconInv, NEW n \in Nodes, NEW t \in Nat
  PROVE  \A x \in GtsItems(n, t) : x.at >= t
<1> SUFFICES ASSUME NEW i \in ToSchedule(n) PROVE t + GtsOffset(act[n][i]) >= t
  BY DEF GtsItems, GtsEvent
<1>1. act[n] \in Seq(Entries) /\ i \in DOMAIN act[n] /\ capReduction \in BOOLEAN
  BY DEF BeaconInv, TypeOK, ToSchedule
<1>2. act[n][i] \in Entries
  BY <1>1
<1>3. GtsOffset(act[n][i]) \in Nat
  BY <1>1, <1>2, GtsOffsetType
<1> QED
  BY <1>3

\* A beacon interval of more than one superframe has two at least.
LEMMA TwoSuperframes ==
  ASSUME BI > SD
  PROVE  BI >= 2 * SD
<1>1. PICK k : k = NumMultis * NumSuperframes
  OBVIOUS
<1>2. k \in Nat /\ BI = k * SD
  BY <1>1, Durations DEF BI, MultiLen
<1>3. k # 0 /\ k # 1
  BY <1>2, Lengths
<1>4. k - 2 \in Nat
  BY <1>2, <1>3
<1>5. (k - 2) * SD \in Nat
  BY <1>4, Lengths
<1>6. k * SD = (k - 2) * SD + 2 * SD
  BY <1>2, Lengths
<1> QED
  BY <1>2, <1>5, <1>6, Lengths

LEMMA DelayOfOwn ==
  ASSUME BeaconInv, SenderInv, BI > SD, NEW ev \in queue, First(ev),
         \/ SendOneEnhancedBeacon(ev) \/ StartTx(ev) \/ EndTx(ev)
         \/ (StartCAP(ev) \/ StartCFP(ev) \/ StartRemainingPeriod(ev)) /\ ev.arg = "OUT"
  PROVE  DelayIsPositive'
<1> DEFINE n == ev.node
           q == queue \ {ev}
<1>1. n \in Nodes /\ ev.at \in Nat /\ mac[n].bcnStart \in Nat /\ mac[n].firstCFP \in BOOLEAN
  BY Running, StartTimes
<1>2. now' = ev.at
  BY DEF SendOneEnhancedBeacon, StartTx, EndTx, StartCAP, StartCFP, StartRemainingPeriod, Runs
<1>3. CASE SendOneEnhancedBeacon(ev)
  <2>1. Adds(q, queue', {Event(ev.at + Turnaround, n, "StartTx", "OUT")})
    BY <1>3, SendBeaconStep
  <2>2. \A x \in {Event(ev.at + Turnaround, n, "StartTx", "OUT")} : x.at >= ev.at
    BY <1>1, Lengths DEF Event
  <2> QED
    BY <1>2, <2>1, <2>2, DelayAdds
<1>4. CASE StartTx(ev)
  <2>1. PICK New : New = {Event(ev.at + BeaconLen, n, "EndTx", "OUT")}
                         \cup {Event(ev.at + BeaconLen, m, "EndRx", n) : m \in hearing'}
    OBVIOUS
  <2>2. Adds(q, queue', New)
    BY <1>4, <2>1, StartTxStep
  <2>3. \A x \in New : x.at >= ev.at
    BY <1>1, <2>1, Lengths DEF Event
  <2> QED
    BY <1>2, <2>2, <2>3, DelayAdds
<1>5. CASE EndTx(ev)
  <2>1. PICK New : New = (IF n # PanC THEN GtsItems(n, ev.at) ELSE {}) \cup {CapEvent(ev)}
    OBVIOUS
  <2>2. Adds(q, queue', New)
    BY <1>5, <2>1, EndTxStep
  <2>3. CapEvent(ev).at = ev.at
    BY DEF CapEvent, Event
  <2>4. \A x \in New : x.at >= ev.at
    BY <1>1, <2>1, <2>3, GtsItemsLater
  <2> QED
    BY <1>2, <2>2, <2>4, DelayAdds
<1>6. CASE StartCAP(ev) /\ ev.arg = "OUT"
  <2>1. PICK x : x = Event(mac[n].bcnStart + CapLen, n, "StartCFP", "OUT")
    OBVIOUS
  <2>2. Adds(q, queue', {x})
    BY <1>6, <2>1, OwnCapStep
  <2>3. ev.do = "StartCAP" /\ OfSender(ev)
    BY <1>6 DEF StartCAP, Runs, OfSender, OwnPeriods
  <2>4. ev.at = mac[n].bcnStart + BeaconDelay
    BY <2>3 DEF SenderInv, OwnTimes, OwnTime
  <2>5. x.at >= ev.at
    BY <1>1, <2>1, <2>4, Lengths DEF Event
  <2> QED
    BY <1>2, <2>2, <2>5, DelayAdds
<1>7. CASE StartCFP(ev) /\ ev.arg = "OUT"
  <2>1. PICK x : x = IF mac[n].firstCFP
                     THEN Event(ev.at + CapLen - BeaconDelay, n, "StartCFP", "OUT")
                     ELSE Event(ev.at + CfpSlots * Slot, n, "StartRemainingPeriod", "OUT")
    OBVIOUS
  <2>2. Adds(q, queue', {x})
    BY <1>7, <2>1, OwnCfpStep
  <2>3. x.at >= ev.at
    BY <1>1, <2>1, Lengths DEF Event
  <2> QED
    BY <1>2, <2>2, <2>3, DelayAdds
<1>8. CASE StartRemainingPeriod(ev) /\ ev.arg = "OUT"
  <2>1. PICK x : x = Event(mac[n].bcnStart + BI, n, "SendBeacon", "OUT")
    OBVIOUS
  <2>2. Adds(q, queue', {x})
    BY <1>8, <2>1, OwnRemainingStep
  <2>3. ev.do = "StartRemainingPeriod" /\ OfSender(ev)
    BY <1>8 DEF StartRemainingPeriod, Runs, OfSender, OwnPeriods
  <2>4. ev.at <= mac[n].bcnStart + 2 * SD
    BY <1>1, <2>3, Lengths DEF SenderInv, OwnTimes, OwnTime, SecondCfp
  <2>5. x.at >= ev.at
    BY <1>1, <2>1, <2>4, Lengths, TwoSuperframes DEF Event
  <2> QED
    BY <1>2, <2>2, <2>5, DelayAdds
<1> QED
  BY <1>3, <1>4, <1>5, <1>6, <1>7, <1>8

LEMMA DelayOfQuiet ==
  ASSUME BeaconInv, NEW ev \in queue, First(ev),
         \/ StartGTS(ev) \/ EndGTS(ev) \/ SendGack(ev) \/ GackSent(ev)
         \/ (StartCAP(ev) \/ StartCFP(ev) \/ StartRemainingPeriod(ev)) /\ ev.arg # "OUT"
         \/ AwaitBeacon(ev) \/ StartSuperframe(ev) \/ StartMultisuperframe(ev) \/ SetIdle(ev)
         \/ BeaconLost(ev) \/ SyncRequest(ev) \/ BeaconSearchTimeout(ev) \/ StartRequest(ev)
  PROVE  DelayIsPositive'
<1> DEFINE n == ev.node
           q == queue \ {ev}
           Later(New) == \A x \in New : x.at >= ev.at
<1>1. n \in Nodes /\ ev.at \in Nat /\ mac[n] \in MacTypes
  BY Running
<1>2. now' = ev.at
  BY DEF StartGTS, EndGTS, SendGack, GackSent, StartCAP, StartCFP, StartRemainingPeriod,
         AwaitBeacon, StartSuperframe, StartMultisuperframe, SetIdle, BeaconLost, SyncRequest,
         BeaconSearchTimeout, StartRequest, Runs
<1>3. ASSUME NEW New, Adds(q, queue', New), Later(New) PROVE DelayIsPositive'
  BY <1>2, <1>3, DelayAdds
<1>4. Later({})
  OBVIOUS
<1>5. CASE StartGTS(ev)
  <2>1. Adds(q, queue', GtsEvents(ev))
    BY <1>5, StartGtsStep
  <2>2. Later(GtsEvents(ev))
    BY <1>1, Durations DEF GtsEvents, GtsEvent
  <2> QED
    BY <1>3, <2>1, <2>2
<1>6. CASE EndGTS(ev) \/ GackSent(ev) \/ AwaitBeacon(ev) \/ SetIdle(ev) \/ BeaconLost(ev)
  <2>1. Adds(q, queue', {})
    BY <1>6, GtsSteps, AwaitStep, SetIdleStep, BeaconLostStep
  <2> QED
    BY <1>3, <1>4, <2>1
<1>7. CASE SendGack(ev)
  <2>1. Adds(q, queue', {GtsEvent(ev.at + GackLen, n, "GackSent", ev.gts)})
    BY <1>7, GtsSteps
  <2>2. Later({GtsEvent(ev.at + GackLen, n, "GackSent", ev.gts)})
    BY <1>1, Durations DEF GtsEvent
  <2> QED
    BY <1>3, <2>1, <2>2
<1>8. CASE StartCAP(ev) /\ ev.arg # "OUT"
  <2>1. Adds(q, queue', {Event(ev.at + IncomingCap, n, "StartCFP", "IN")})
    BY <1>8, InCapStep
  <2>2. Later({Event(ev.at + IncomingCap, n, "StartCFP", "IN")})
    BY <1>1, Durations DEF Event
  <2> QED
    BY <1>3, <2>1, <2>2
<1>9. CASE StartCFP(ev) /\ ev.arg # "OUT"
  <2>1. PICK x : x = IF mac[n].incFirstCFP THEN Event(ev.at + IncomingCap, n, "StartCFP", "IN")
                     ELSE Event(ev.at + CfpSlots * Slot, n, "StartRemainingPeriod", "IN")
    OBVIOUS
  <2>2. Adds(q, queue', {x})
    BY <1>9, <2>1, InCfpStep
  <2>3. x.at >= ev.at
    BY <1>1, <2>1, Lengths DEF Event
  <2> QED
    BY <1>3, <2>2, <2>3
<1>10. CASE StartRemainingPeriod(ev) /\ ev.arg # "OUT"
  <2>1. Adds(q, queue', {Event(ev.at + BI - SD, n, "AwaitBeacon", "IN")})
    BY <1>10, InRemainingStep
  <2>2. Later({Event(ev.at + BI - SD, n, "AwaitBeacon", "IN")})
    BY <1>1, Lengths DEF Event
  <2> QED
    BY <1>3, <2>1, <2>2
<1>11. CASE StartSuperframe(ev)
  <2>1. Adds(q, queue', {Event(ev.at + SD, n, "StartSuperframe", "OUT")})
    BY <1>11, SuperframeStep
  <2>2. Later({Event(ev.at + SD, n, "StartSuperframe", "OUT")})
    BY <1>1, Lengths DEF Event
  <2> QED
    BY <1>3, <2>1, <2>2
<1>12. CASE StartMultisuperframe(ev)
  <2>1. Adds(q, queue', MultiEvents(ev))
    BY <1>12, MultiStep
  <2>2. Later(MultiEvents(ev))
    BY <1>1, Durations DEF MultiEvents, Event
  <2> QED
    BY <1>3, <2>1, <2>2
<1>13. mac[n].known \in BOOLEAN /\ SearchEvent(n, ev.at).at >= ev.at
  <2>1. mac[n].known \in BOOLEAN
    BY <1>1 DEF MacTypes
  <2>2. SearchLen(mac[n].known) \in Nat
    BY <2>1, Durations
  <2> QED
    BY <1>1, <2>1, <2>2 DEF SearchEvent, Event
<1>14. CASE SyncRequest(ev)
  <2>1. PICK r : r = Cancel(q, n, "SearchTimeout")
    OBVIOUS
  <2>2. r \subseteq queue /\ Adds(r, queue', {SearchEvent(n, ev.at)})
    BY <1>14, <2>1, SyncStep DEF Cancel
  <2>3. \A x \in {SearchEvent(n, ev.at)} : x.at >= ev.at
    BY <1>13
  <2> QED
    BY <1>2, <2>2, <2>3, DelayAdds
<1>15. CASE BeaconSearchTimeout(ev)
  <2>1. Adds(q, queue', {SearchEvent(n, ev.at)}) \/ Adds(q, queue', {})
    BY <1>15, TimeoutStep
  <2> QED
    BY <1>3, <1>4, <1>13, <2>1
<1>16. CASE StartRequest(ev) /\ n = PanC
  <2>1. PICK New : New = {Event(ev.at, PanC, "StartMultisuperframe", "OUT"),
                          Event(ev.at, PanC, "SendBeacon", "OUT")}
    OBVIOUS
  <2>2. Adds(q, queue', New)
    BY <1>16, <2>1, PanStartStep
  <2>3. Later(New)
    BY <1>1, <2>1 DEF Event
  <2> QED
    BY <1>3, <2>2, <2>3
<1>17. CASE StartRequest(ev) /\ n # PanC
  <2>1. Adds(q, queue', GtsItems(n, ev.at))
    BY <1>17, CoordStartStep
  <2> QED
    BY <1>1, <1>3, <2>1, GtsItemsLater
<1> QED
  BY <1>5, <1>6, <1>7, <1>8, <1>9, <1>10, <1>11, <1>12, <1>14, <1>15, <1>16, <1>17

LEMMA DelayOfReception ==
  ASSUME BeaconInv, SenderInv, OneCoordinator, NEW ev \in queue, First(ev), EndRx(ev)
  PROVE  DelayIsPositive'
<1>1. PICK n : n = ev.node
  OBVIOUS
<1>2. PICK from : from = ev.arg
  OBVIOUS
<1>3. PICK q : q = Cancel(queue \ {ev}, n, "SearchTimeout")
  OBVIOUS
<1>4. Adds(q, queue', ReceptionEvents(n, from, ev.at)) /\ q \subseteq queue
  BY <1>1, <1>2, <1>3, EndRxStep DEF Cancel
<1>5. /\ now' = ev.at /\ n \in Nodes /\ from \in Nodes /\ n # from /\ from \notin Devices
      /\ mac[from].bitmapSd % NumSuperframes = 0 /\ ev.at = mac[from].bcnStart + BeaconDelay
      /\ mac[n].sendBcn => n \in Coords /\ n # PanC
  BY <1>1, <1>2, HeardBeacon
<1>6. ev.at \in Nat /\ mac[from].bcnStart \in Nat
  BY <1>5, Running, StartTimes
<1>7. ASSUME mac[n].sendBcn PROVE FirstBeacon(n, from) >= ev.at
  <2>1. n \in Coords /\ from = PanC
    BY <1>5, <1>7 DEF OneCoordinator, Nodes
  <2>2. SdIndex[n] \in Nat /\ SdIndex[n] > 0
    <3>1. SdIndex[n] \in 1..NumSuperframes * NumMultis - 1
      BY <2>1, DsmeConstants
    <3> QED
      BY <3>1, Durations
  <2>3. SdIndex[n] * SD \in Nat /\ SdIndex[n] * SD >= SD
    BY <2>2, Lengths, Product
  <2>4. FirstBeacon(n, from) = SdIndex[n] * SD + mac[from].bcnStart
    BY <2>1 DEF FirstBeacon, ParentStart
  <2> QED
    BY <1>5, <1>6, <2>3, <2>4, Lengths
<1>8. ASSUME NEW x \in ReceptionEvents(n, from, ev.at) PROVE x.at >= ev.at
  <2>1. /\ Kind(x) \in {"SetIdle", "own", "gts", "in", "SearchTimeout"}
        /\ Kind(x) \in {"SetIdle", "own"} => mac[n].sendBcn /\ x.at = FirstBeacon(n, from)
        /\ Kind(x) = "gts" => x \in GtsItems(n, ev.at)
        /\ Kind(x) = "in" => x.at = ev.at
        /\ Kind(x) = "SearchTimeout" => x.at = ev.at + NextSearch
    BY <1>5, <1>8, ReceptionKinds
  <2> QED
    BY <1>5, <1>6, <1>7, <2>1, GtsItemsLater, Durations
<1> QED
  BY <1>4, <1>5, <1>8, DelayAdds

\* With one coordinator besides the PAN coordinator, no handler schedules an
\* event for a time that is past, the assertion of DefaultSimulatorImpl::Schedule
\* (default-simulator-impl.cc:229).  With two it can: the run dsme_delay.  A beacon
\* interval is more than one superframe, or else the two parts of a CFP that a
\* coordinator's m_firstCFP, when it happens to be set at the start, makes of the
\* first one end after the next beacon is due (lr-wpan-mac.cc:1126-1141).
THEOREM DsmeDelays ==
  ASSUME StartsOnce, OneCoordinator, BI > SD
  PROVE  Spec => []DelayIsPositive
<1>1. ASSUME BeaconInv, SenderInv, DelayIsPositive, [Next]_vars PROVE DelayIsPositive'
  <2>1. ASSUME NEW ev \in queue, First(ev), Handler(ev) PROVE DelayIsPositive'
    BY <1>1, <2>1, DelayOfOwn, DelayOfQuiet, DelayOfReception DEF Handler
  <2>2. ASSUME NEW late \in LateEntries, AddDsmeACTEntity(late.node, late.entry)
        PROVE  DelayIsPositive'
    BY <1>1, <2>2 DEF AddDsmeACTEntity, DelayIsPositive
  <2>3. CASE UNCHANGED vars
    BY <1>1, <2>3 DEF vars, DelayIsPositive
  <2> QED
    BY <1>1, <2>1, <2>2, <2>3 DEF Next
<1>2. ASSUME Init PROVE DelayIsPositive
  <2>1. \A f \in queue : f.at = 0
    BY <1>2, BootEvents
  <2> QED
    BY <1>2, <2>1 DEF Init, DelayIsPositive
<1> QED
  BY <1>1, <1>2, DsmeInvariant, DsmeSenders, PTL DEF Spec

-----------------------------------------------------------------------------
(* Beacon tracking *)

\* What handlers leave alone.
LEMMA HandlerKeeps ==
  ASSUME NEW ev, Handler(ev)
  PROVE  /\ now' = ev.at /\ ev.at <= StopTime /\ UNCHANGED <<config, act>>
         /\ StartTx(ev) \/ EndRx(ev) \/ UNCHANGED heard
         /\ EndRx(ev) \/ (StartCFP(ev) /\ ev.arg # "OUT") \/ misled' = misled
         /\ StartTx(ev) => UNCHANGED <<mac, heardAt, heardFrom, joined>>
         /\ StartTx(ev) /\ ev.node # PanC => UNCHANGED <<missed, fresh>>
<1>1. now' = ev.at /\ ev.at <= StopTime /\ UNCHANGED <<config, act>>
  BY DEF Handler, StartGTS, EndGTS, SendGack, GackSent, StartCAP, StartCFP, StartRemainingPeriod,
         AwaitBeacon, StartSuperframe, StartMultisuperframe, StartRequest, SetIdle,
         SendOneEnhancedBeacon, StartTx, EndTx, EndRx, BeaconLost, SyncRequest,
         BeaconSearchTimeout, Runs
<1>2. StartTx(ev) \/ EndRx(ev) \/ StartCFP(ev) \/ UNCHANGED history
  BY DEF Handler, StartGTS, EndGTS, SendGack, GackSent, StartCAP, StartRemainingPeriod,
         AwaitBeacon, StartSuperframe, StartMultisuperframe, StartRequest, SetIdle,
         SendOneEnhancedBeacon, EndTx, BeaconLost, SyncRequest, BeaconSearchTimeout
<1>3. UNCHANGED history => UNCHANGED heard /\ misled' = misled
  BY DEF history, heard
<1>4. StartCFP(ev) => UNCHANGED heard /\ (ev.arg # "OUT" \/ misled' = misled)
  BY DEF StartCFP, heard
<1>5. StartTx(ev) => /\ UNCHANGED <<mac, heardAt, heardFrom, joined, misled>>
                     /\ ev.node # PanC => UNCHANGED <<missed, fresh>>
  BY DEF StartTx
<1> QED
  BY <1>1, <1>2, <1>3, <1>4, <1>5

\* The handlers that have nothing to do with the search for a beacon.
LEMMA QuietForSearch ==
  ASSUME BeaconInv, NEW ev \in queue, Handler(ev),
         ~EndRx(ev), ~SyncRequest(ev), ~BeaconSearchTimeout(ev)
  PROVE  /\ \A f : Kind(f) \in {"SearchTimeout", "SyncRequest"} => (f \in queue' <=> f \in queue)
         /\ \A m \in Nodes : KeepTrack(m)
<1>1. CASE StartGTS(ev) \/ EndGTS(ev) \/ SendGack(ev) \/ GackSent(ev)
  <2>1. Touches({"gts"}) /\ \A m \in Nodes : KeepTrack(m)
    BY <1>1, StartGtsStep, GtsSteps
  <2> QED
    BY <2>1, TouchesNot
<1>2. CASE (StartCAP(ev) \/ StartCFP(ev) \/ StartRemainingPeriod(ev)) /\ ev.arg # "OUT"
  <2>1. Touches({"in"}) /\ \A m \in Nodes : KeepTrack(m)
    BY <1>2, InCapStep, InCfpStep, InRemainingStep DEF InFrame
  <2> QED
    BY <2>1, TouchesNot
<1>3. CASE (StartCAP(ev) \/ StartCFP(ev) \/ StartRemainingPeriod(ev)) /\ ev.arg = "OUT"
  <2>1. Touches({"own"}) /\ \A m \in Nodes : KeepTrack(m)
    BY <1>3, OwnCapStep, OwnCfpStep, OwnRemainingStep DEF OwnFrame
  <2> QED
    BY <2>1, TouchesNot
<1>4. CASE AwaitBeacon(ev)
  <2>1. Touches({"in"}) /\ \A m \in Nodes : KeepTrack(m)
    BY <1>4, AwaitStep DEF InFrame
  <2> QED
    BY <2>1, TouchesNot
<1>5. CASE StartSuperframe(ev) \/ StartMultisuperframe(ev)
  <2>1. Touches({"multi"}) /\ \A m \in Nodes : KeepTrack(m)
    BY <1>5, SuperframeStep, MultiStep DEF IdxFrame
  <2> QED
    BY <2>1, TouchesNot
<1>6. CASE SetIdle(ev)
  <2>1. Touches({"SetIdle"}) /\ \A m \in Nodes : KeepTrack(m)
    BY <1>6, SetIdleStep DEF OwnFrame
  <2> QED
    BY <2>1, TouchesNot
<1>7. CASE BeaconLost(ev) \/ StartTx(ev)
  <2>1. Touches({"own", "EndRx"}) /\ mac' = mac
    <3>1. CASE BeaconLost(ev)
      <4>1. Touches({"EndRx"}) /\ mac' = mac
        BY <3>1, BeaconLostStep
      <4> QED
        BY <4>1 DEF Touches
    <3>2. CASE StartTx(ev)
      BY <3>2, StartTxStep
    <3> QED
      BY <1>7, <3>1, <3>2
  <2> QED
    BY <2>1, TouchesNot DEF KeepTrack
<1>8. CASE SendOneEnhancedBeacon(ev)
  <2>1. Touches({"own"}) /\ \A m \in Nodes : KeepTrack(m)
    BY <1>8, SendBeaconStep DEF OwnFrame
  <2> QED
    BY <2>1, TouchesNot
<1>9. CASE EndTx(ev)
  <2>1. Touches({"own", "gts"}) /\ \A m \in Nodes : KeepTrack(m)
    BY <1>9, EndTxStep
  <2> QED
    BY <2>1, TouchesNot
<1>10. CASE StartRequest(ev) /\ ev.node = PanC
  <2>1. Touches({"StartRequest", "multi", "own"}) /\ mac' = mac
    BY <1>10, PanStartStep
  <2> QED
    BY <2>1, TouchesNot DEF KeepTrack
<1>11. CASE StartRequest(ev) /\ ev.node # PanC
  <2>1. Touches({"StartRequest", "gts"}) /\ \A m \in Nodes : KeepTrack(m)
    BY <1>11, CoordStartStep DEF RequestFrame
  <2> QED
    BY <2>1, TouchesNot
<1> QED
  BY <1>1, <1>2, <1>3, <1>4, <1>5, <1>6, <1>7, <1>8, <1>9, <1>10, <1>11 DEF Handler

\* The length of k searches of a node that knows the beacon interval.
Span(k) == k * (BI + Base)

OneSearch ==
  \A e, f \in queue : e.do = "SearchTimeout" /\ f.do = "SearchTimeout" /\ e.node = f.node => e = f

SearchTime(e) ==
  LET m == mac[e.node]
  IN /\ e.at >= now
     /\ m.trackingOn /\ m.known => e.at <= heardAt[e.node] + NextSearch + Span(m.numLost)

SearchTimes == \A e \in queue : e.do = "SearchTimeout" => SearchTime(e)
TrackersSearch ==
  \A n \in Nodes : mac[n].trackingOn /\ callback # "null" => IsRunning(n, "SearchTimeout")

\* MLME-SYNC.request comes before the first beacon.
SyncFirst ==
  (\E e \in queue : e.do = "SyncRequest") => \A n \in Nodes : ~mac[n].known /\ heardAt[n] = 0

SearchInv ==
  OneSearch /\ SearchTimes /\ TrackersSearch /\ SyncFirst /\ heardAt \in [Nodes -> Nat]

LEMMA SpanType ==
  /\ Base \in Nat /\ Base > 0 /\ BI \in Nat /\ BI > 0 /\ NextSearch \in Nat
  /\ SearchLen(TRUE) = BI + Base /\ SearchLen(FALSE) \in Nat /\ SearchLen(FALSE) >= BI + Base
  /\ Span(0) = 0
  /\ \A k \in Nat : Span(k) \in Nat /\ Span(k + 1) = Span(k) + (BI + Base)
<1>1. /\ Base \in Nat /\ Base > 0 /\ BI \in Nat /\ BI > 0 /\ NextSearch \in Nat
      /\ BI <= 2^15 * Base
  BY DsmeDurations, Durations
<1>2. SearchLen(TRUE) = BI + Base /\ SearchLen(FALSE) = (2^15 + 1) * Base
  BY DEF SearchLen
<1>3. SearchLen(FALSE) >= BI + Base
  <2>1. PICK p \in Nat : p = 2^15
    OBVIOUS
  <2>2. BI <= p * Base /\ SearchLen(FALSE) = (p + 1) * Base
    BY <1>1, <1>2, <2>1
  <2>3. PICK x \in Nat : x = p * Base
    BY <1>1
  <2>4. (p + 1) * Base = x + Base
    BY <1>1, <2>3
  <2>5. BI <= x /\ SearchLen(FALSE) = x + Base
    BY <2>2, <2>3, <2>4
  <2>6. BI \in Nat /\ Base \in Nat
    BY <1>1
  <2>7. BI + Base <= x + Base
    BY <2>5, <2>6
  <2>8. x + Base >= BI + Base
    BY <2>6, <2>7
  <2> QED
    BY <2>5, <2>8, Zenon
<1>4. Span(0) = 0 /\ \A k \in Nat : Span(k) \in Nat /\ Span(k + 1) = Span(k) + (BI + Base)
  BY <1>1 DEF Span
<1>5. SearchLen(FALSE) \in Nat
  BY Durations
<1> QED
  BY <1>1, <1>2, <1>3, <1>4, <1>5, Zenon

LEMMA TrackTypes ==
  ASSUME BeaconInv, NEW n \in Nodes
  PROVE  /\ mac[n].known \in BOOLEAN /\ mac[n].trackingOn \in BOOLEAN
         /\ mac[n].numLost \in 0..5
<1>1. mac[n] \in MacTypes
  BY MacTyped
<1> QED
  BY <1>1 DEF MacTypes, aMaxLostBeacons

LEMMA SearchFrame ==
  ASSUME BeaconInv, SearchInv, heardAt' = heardAt, callback' = callback,
         \A f : Kind(f) \in {"SearchTimeout", "SyncRequest"} => (f \in queue' <=> f \in queue),
         \A m \in Nodes : KeepTrack(m),
         \A f \in queue : f.at >= now'
  PROVE  SearchInv'
<1>1. \A f : f.do \in {"SearchTimeout", "SyncRequest"} => (f \in queue' <=> f \in queue)
  BY KindsOfSender
<1>2. OneSearch' /\ SyncFirst'
  BY <1>1 DEF SearchInv, OneSearch, SyncFirst, KeepTrack
<1>3. TrackersSearch'
  BY <1>1 DEF SearchInv, TrackersSearch, IsRunning, KeepTrack
<1>4. SearchTimes'
  <2> SUFFICES ASSUME NEW e \in queue', e.do = "SearchTimeout" PROVE SearchTime(e)'
    BY DEF SearchTimes
  <2>1. e \in queue /\ SearchTime(e) /\ e.node \in Nodes /\ e.at >= now'
    BY <1>1 DEF SearchInv, SearchTimes, BeaconInv, EventInv, EventTypes
  <2> QED
    BY <2>1 DEF SearchTime, KeepTrack
<1> QED
  BY <1>2, <1>3, <1>4 DEF SearchInv

LEMMA SearchLenOf ==
  ASSUME BeaconInv, NEW n \in Nodes
  PROVE  \E d \in Nat : /\ d = SearchLen(mac[n].known) /\ d >= BI + Base
                        /\ mac[n].known => d = BI + Base
<1>1. CASE mac[n].known = TRUE
  <2>1. SearchLen(mac[n].known) = BI + Base
    BY <1>1 DEF SearchLen
  <2> QED
    BY <2>1, SpanType
<1>2. CASE mac[n].known = FALSE
  <2>1. SearchLen(mac[n].known) = SearchLen(FALSE)
    BY <1>2 DEF SearchLen
  <2>2. SearchLen(FALSE) \in Nat /\ SearchLen(FALSE) >= BI + Base
    BY SpanType, Zenon
  <2>3. PICK d : d = SearchLen(FALSE)
    OBVIOUS
  <2> QED
    BY <1>2, <2>1, <2>2, <2>3, Zenon
<1> QED
  BY <1>1, <1>2, TrackTypes

\* The search of one node changes, those of the others stay.
LEMMA SearchStep ==
  ASSUME BeaconInv, SearchInv, NEW ev \in queue, now' = ev.at, callback' = callback, Only(ev.node),
         \A f \in queue : f.at \in Nat /\ f.at >= now',
         heardAt' \in [Nodes -> Nat], \A m \in Nodes : m # ev.node => heardAt'[m] = heardAt[m],
         NEW q, q = Cancel(queue \ {ev}, ev.node, "SearchTimeout"), NEW New, Adds(q, queue', New),
         \A x \in New : x.do = "SearchTimeout" => x.node = ev.node /\ SearchTime(x)',
         \A x, y \in New : x.do = "SearchTimeout" /\ y.do = "SearchTimeout" => x = y,
         mac'[ev.node].trackingOn /\ callback # "null" => \E x \in New : x.do = "SearchTimeout",
         SyncFirst'
  PROVE  SearchInv'
<1> DEFINE n == ev.node
<1>1. q \subseteq queue /\ \A f \in q : f.do = "SearchTimeout" => f.node # n
  BY DEF Cancel
<1>2. ASSUME NEW f \in queue', f.do = "SearchTimeout"
      PROVE  \/ f \in q /\ f.node # n
             \/ f \notin q /\ f.node = n /\ \E x \in New : x.do = "SearchTimeout" /\ Like(f, x)
  <2>1. CASE f \in q
    BY <1>1, <1>2, <2>1
  <2>2. CASE f \notin q
    <3>1. PICK x \in New : Like(f, x)
      BY <2>2 DEF Adds
    <3> QED
      BY <1>2, <2>2, <3>1, LikeKinds
  <2> QED
    BY <2>1, <2>2
<1>3. OneSearch'
  <2> SUFFICES ASSUME NEW e \in queue', NEW f \in queue', e.do = "SearchTimeout",
                      f.do = "SearchTimeout", e.node = f.node
               PROVE  e = f
    BY DEF OneSearch
  <2>1. CASE e.node # n
    BY <1>1, <1>2, <2>1 DEF SearchInv, OneSearch
  <2>2. CASE e.node = n
    <3>1. PICK x \in New : x.do = "SearchTimeout" /\ Like(e, x) /\ e \notin q
      BY <1>2, <2>2
    <3>2. PICK y \in New : y.do = "SearchTimeout" /\ Like(f, y) /\ f \notin q
      BY <1>2, <2>2
    <3>3. Like(e, f)
      BY <3>1, <3>2 DEF Like
    <3> QED
      BY <3>1, <3>2, <3>3 DEF Adds
  <2> QED
    BY <2>1, <2>2
<1>4. SearchTimes'
  <2> SUFFICES ASSUME NEW e \in queue', e.do = "SearchTimeout" PROVE SearchTime(e)'
    BY DEF SearchTimes
  <2>1. CASE e \in q /\ e.node # n
    <3>1. SearchTime(e) /\ e.node \in Nodes /\ e.at >= now'
      BY <1>1, <2>1 DEF SearchInv, SearchTimes, BeaconInv, EventInv, EventTypes
    <3>2. mac'[e.node] = mac[e.node] /\ heardAt'[e.node] = heardAt[e.node]
      BY <2>1, <3>1 DEF Only
    <3> QED
      BY <3>1, <3>2 DEF SearchTime
  <2>2. ASSUME NEW x \in New, x.do = "SearchTimeout", Like(e, x) PROVE SearchTime(e)'
    <3>1. SearchTime(x)' /\ e.at = x.at /\ e.node = x.node
      BY <2>2, LikeKinds
    <3> QED
      BY <3>1 DEF SearchTime
  <2> QED
    BY <1>2, <2>1, <2>2
<1>5. TrackersSearch'
  <2> SUFFICES ASSUME NEW m \in Nodes, mac'[m].trackingOn, callback # "null"
               PROVE  \E f \in queue' : f.node = m /\ f.do = "SearchTimeout"
    BY DEF TrackersSearch, IsRunning
  <2>1. CASE m = n
    <3>1. PICK x \in New : x.do = "SearchTimeout"
      BY <2>1
    <3>2. PICK f \in queue' : Like(f, x)
      BY DEF Adds
    <3> QED
      BY <2>1, <3>1, <3>2, LikeKinds
  <2>2. CASE m # n
    <3>1. mac[m].trackingOn
      BY <2>2 DEF Only
    <3>2. PICK f \in queue : f.node = m /\ f.do = "SearchTimeout"
      BY <3>1 DEF SearchInv, TrackersSearch, IsRunning
    <3>3. f \in queue'
      BY <2>2, <3>2 DEF Adds, Cancel
    <3> QED
      BY <3>2, <3>3
  <2> QED
    BY <2>1, <2>2
<1> QED
  BY <1>3, <1>4, <1>5 DEF SearchInv

LEMMA SearchOfSync ==
  ASSUME BeaconInv, SearchInv, NEW ev \in queue, First(ev), SyncRequest(ev)
  PROVE  SearchInv'
<1>1. ev.node \in Nodes /\ ev.at \in Nat /\ ev.do = "SyncRequest"
  BY Running DEF SyncRequest, Runs
<1>2. now' = ev.at /\ UNCHANGED config /\ UNCHANGED history
  BY DEF SyncRequest, Runs
<1>3. PICK x : x = SearchEvent(ev.node, ev.at)
  OBVIOUS
<1>4. PICK q : q = Cancel(queue \ {ev}, ev.node, "SearchTimeout")
  OBVIOUS
<1>5. /\ Adds(q, queue', {x}) /\ Only(ev.node)
      /\ \A m \in Nodes : mac'[m].known = mac[m].known
  BY <1>3, <1>4, SyncStep DEF TrackFrame
<1>6. heardAt' = heardAt /\ callback' = callback /\ heardAt \in [Nodes -> Nat]
  BY <1>2 DEF config, history, SearchInv
<1>7. PICK d \in Nat : d = SearchLen(mac[ev.node].known)
  BY <1>1, SearchLenOf
<1>8. x.do = "SearchTimeout" /\ x.node = ev.node /\ x.at = ev.at + d
  BY <1>3, <1>7 DEF SearchEvent, Event
<1>9. \A m \in Nodes : ~mac[m].known /\ heardAt[m] = 0
  BY <1>1 DEF SearchInv, SyncFirst
<1>10. SearchTime(x)'
  <2>1. x.at >= now'
    BY <1>1, <1>2, <1>7, <1>8
  <2>2. ~mac'[x.node].known
    BY <1>1, <1>5, <1>8, <1>9
  <2> QED
    BY <2>1, <2>2 DEF SearchTime
<1>11. SyncFirst'
  BY <1>5, <1>6, <1>9 DEF SyncFirst
<1>12. \A f \in queue : f.at \in Nat /\ f.at >= now'
  BY <1>2, FirstIsFirst
<1> QED
  BY <1>2, <1>4, <1>5, <1>6, <1>8, <1>10, <1>11, <1>12, SearchStep

LEMMA SearchOfTimeout ==
  ASSUME BeaconInv, SearchInv, NEW ev \in queue, First(ev), BeaconSearchTimeout(ev)
  PROVE  SearchInv'
<1>1. ev.node \in Nodes /\ ev.at \in Nat /\ ev.do = "SearchTimeout"
  BY Running DEF BeaconSearchTimeout, Runs
<1>2. now' = ev.at /\ UNCHANGED config /\ UNCHANGED history
  BY DEF BeaconSearchTimeout, Runs
<1>3. PICK n : n = ev.node
  OBVIOUS
<1>4. PICK x : x = SearchEvent(n, ev.at)
  OBVIOUS
<1>5. PICK q : q = Cancel(queue \ {ev}, ev.node, "SearchTimeout")
  OBVIOUS
<1>6. /\ Touches({"SearchTimeout"}) /\ Only(ev.node)
      /\ \A m \in Nodes : mac'[m].known = mac[m].known
  BY TimeoutStep DEF TrackFrame
<1>7. heardAt' = heardAt /\ callback' = callback /\ heardAt \in [Nodes -> Nat]
  BY <1>2 DEF config, history, SearchInv
<1>8. PICK d \in Nat : d = SearchLen(mac[n].known) /\ (mac[n].known => d = BI + Base)
  BY <1>1, <1>3, SearchLenOf
<1>9. x.do = "SearchTimeout" /\ x.node = n /\ x.at = ev.at + d
  BY <1>4, <1>8 DEF SearchEvent, Event
<1>10. q = queue \ {ev}
  BY <1>1, <1>5 DEF Cancel, SearchInv, OneSearch
<1>11. SyncFirst'
  <2>1. \A f : f.do = "SyncRequest" => (f \in queue' <=> f \in queue)
    BY <1>6, TouchesNot, KindsOfSender
  <2> QED
    BY <1>6, <1>7, <2>1 DEF SearchInv, SyncFirst
<1>12. \A f \in queue : f.at \in Nat /\ f.at >= now'
  BY <1>2, FirstIsFirst
<1>13. mac[n].numLost \in Nat /\ heardAt[n] \in Nat /\ x.at >= now'
  BY <1>1, <1>2, <1>3, <1>7, <1>8, <1>9, TrackTypes
<1>14. CASE ~IsLost(n)
  <2>1. /\ Adds(q, queue', {x}) /\ mac'[n].trackingOn = mac[n].trackingOn
        /\ mac'[n].numLost = mac[n].numLost + 1
    BY <1>3, <1>4, <1>10, <1>14, TimeoutStep
  <2>2. SearchTime(ev)
    BY <1>1 DEF SearchInv, SearchTimes
  <2>3. PICK k \in Nat : k = mac[n].numLost
    BY <1>13
  <2>4. Span(k + 1) = Span(k) + (BI + Base) /\ Span(k) \in Nat /\ NextSearch \in Nat
    BY <2>3, SpanType
  <2>5. ASSUME mac'[n].trackingOn, mac'[n].known
        PROVE  x.at <= heardAt[n] + NextSearch + Span(k + 1)
    <3>1. mac[n].trackingOn /\ mac[n].known
      BY <1>1, <1>3, <1>6, <2>1, <2>5
    <3>2. ev.at <= heardAt[n] + NextSearch + Span(k)
      BY <1>3, <2>2, <2>3, <3>1 DEF SearchTime
    <3>3. x.at = ev.at + (BI + Base)
      BY <1>8, <1>9, <3>1
    <3>4. BI + Base \in Nat
      BY SpanType
    <3> QED
      BY <1>1, <1>13, <2>4, <3>2, <3>3, <3>4
  <2>6. SearchTime(x)'
    BY <1>7, <1>9, <1>13, <2>1, <2>3, <2>5 DEF SearchTime
  <2> QED
    BY <1>2, <1>3, <1>5, <1>6, <1>7, <1>9, <1>11, <1>12, <2>1, <2>6, SearchStep
<1>15. CASE IsLost(n) /\ callback = "resync"
  <2>1. Adds(q, queue', {x}) /\ mac'[n].trackingOn = FALSE
    BY <1>3, <1>4, <1>10, <1>15, TimeoutStep
  <2>2. SearchTime(x)'
    BY <1>9, <1>13, <2>1 DEF SearchTime
  <2> QED
    BY <1>2, <1>3, <1>5, <1>6, <1>7, <1>9, <1>11, <1>12, <2>1, <2>2, SearchStep
<1>16. CASE IsLost(n) /\ callback # "resync"
  <2>1. Adds(q, queue', {}) /\ (callback # "null" => mac'[n].trackingOn = FALSE)
    BY <1>3, <1>10, <1>16, TimeoutStep
  <2>2. PICK New : New = {}
    OBVIOUS
  <2>3. Adds(q, queue', New) /\ ~(mac'[ev.node].trackingOn /\ callback # "null")
    BY <1>3, <2>1, <2>2
  <2>4. \A y : y \notin New
    BY <2>2
  <2> QED
    BY <1>2, <1>5, <1>6, <1>7, <1>11, <1>12, <2>3, <2>4, SearchStep
<1> QED
  BY <1>14, <1>15, <1>16

LEMMA SearchOfReception ==
  ASSUME BeaconInv, SenderInv, SearchInv, NEW ev \in queue, First(ev), EndRx(ev)
  PROVE  SearchInv'
<1>1. PICK n : n = ev.node
  OBVIOUS
<1>2. PICK from : from = ev.arg
  OBVIOUS
<1>3. PICK q : q = Cancel(queue \ {ev}, n, "SearchTimeout")
  OBVIOUS
<1>4. PICK New : New = ReceptionEvents(n, from, ev.at)
  OBVIOUS
<1>5. /\ Adds(q, queue', New) /\ Only(n) /\ callback' = callback
      /\ heardAt' = [heardAt EXCEPT ![n] = ev.at] /\ mac'[n] = AfterBeacon(n, from)
  BY <1>1, <1>2, <1>3, <1>4, EndRxStep DEF config
<1>6. /\ now' = ev.at /\ n \in Nodes /\ from \in Nodes /\ ev.do = "EndRx"
      /\ ev.at = mac[from].bcnStart + BeaconDelay /\ mac[from].bitmapSd % NumSuperframes = 0
  BY <1>1, <1>2, HeardBeacon
<1>7. ev.at \in Nat /\ ev.at > 0
  BY <1>6, Running, StartTimes, Lengths
<1>8. /\ heardAt' \in [Nodes -> Nat] /\ heardAt'[n] = ev.at
      /\ \A m \in Nodes : m # n => heardAt'[m] = heardAt[m]
  BY <1>5, <1>6, <1>7 DEF SearchInv
<1>9. \A f \in queue : f.at \in Nat /\ f.at >= now'
  BY <1>6, FirstIsFirst
<1>10. /\ mac'[n].trackingOn = mac[n].trackingOn
       /\ mac'[n].numLost = IF IsRunning(n, "SearchTimeout") THEN 0 ELSE mac[n].numLost
  <2>1. PICK m : m = AfterBeacon(n, from)
    OBVIOUS
  <2>2. /\ m.trackingOn = mac[n].trackingOn
        /\ m.numLost = IF IsRunning(n, "SearchTimeout") THEN 0 ELSE mac[n].numLost
    BY <1>6, <2>1, AfterBeaconFields
  <2> QED
    BY <1>5, <2>1, <2>2
<1>11. ASSUME NEW x \in New, x.do = "SearchTimeout"
       PROVE  /\ x.node = n /\ SearchTime(x)'
              /\ x = Event(ev.at + NextSearch, n, "SearchTimeout", "IN")
  <2>1. x = Event(ev.at + NextSearch, n, "SearchTimeout", "IN") /\ KeepsSearching(n)
    BY <1>4, <1>11 DEF ReceptionEvents, BeaconEvents, GtsOfBeacon, PeriodEvents, PeriodEvent,
                       GtsItems, GtsEvent, Event
  <2>2. x.node = n /\ x.at = ev.at + NextSearch
    BY <2>1 DEF Event
  <2>3. mac'[n].numLost = 0
    BY <1>10, <2>1 DEF KeepsSearching
  <2> QED
    BY <1>6, <1>7, <1>8, <2>1, <2>2, <2>3, SpanType DEF SearchTime
<1>12. ASSUME mac'[n].trackingOn, callback # "null" PROVE \E x \in New : x.do = "SearchTimeout"
  <2>1. KeepsSearching(n)
    BY <1>6, <1>10, <1>12 DEF SearchInv, TrackersSearch, KeepsSearching
  <2>2. PICK x : x = Event(ev.at + NextSearch, n, "SearchTimeout", "IN")
    OBVIOUS
  <2>3. x \in New
    BY <1>4, <2>1, <2>2 DEF ReceptionEvents, PeriodEvents
  <2>4. x.do = "SearchTimeout"
    BY <2>2 DEF Event
  <2> QED
    BY <2>3, <2>4
<1>13. SyncFirst'
  <2>1. \A f \in queue : f.do # "SyncRequest"
    BY <1>6, <1>7, <1>9 DEF SenderInv, SyncAtStart
  <2>2. Touches({"EndRx", "SearchTimeout", "multi", "SetIdle", "own", "gts", "in"})
    BY EndRxStep
  <2>3. \A f \in queue' : f.do # "SyncRequest"
    BY <2>1, <2>2, TouchesNot, KindsOfSender
  <2> QED
    BY <2>3 DEF SyncFirst
<1>14. \A x, y \in New : x.do = "SearchTimeout" /\ y.do = "SearchTimeout" => x = y
  BY <1>11
<1>15. \A x \in New : x.do = "SearchTimeout" => x.node = ev.node /\ SearchTime(x)'
  BY <1>1, <1>11
<1>16. /\ mac'[ev.node].trackingOn /\ callback # "null" => \E x \in New : x.do = "SearchTimeout"
       /\ q = Cancel(queue \ {ev}, ev.node, "SearchTimeout") /\ Adds(q, queue', New)
       /\ Only(ev.node) /\ callback' = callback /\ now' = ev.at
       /\ heardAt' \in [Nodes -> Nat] /\ \A m \in Nodes : m # ev.node => heardAt'[m] = heardAt[m]
  BY <1>1, <1>3, <1>5, <1>6, <1>8, <1>12
<1> QED
  BY <1>9, <1>13, <1>14, <1>15, <1>16, SearchStep

LEMMA SearchInvariant ==
  ASSUME StartsOnce
  PROVE  Spec => []SearchInv
<1>1. ASSUME BeaconInv, SenderInv, SearchInv, [Next]_vars PROVE SearchInv'
  <2>1. ASSUME NEW ev \in queue, First(ev), Handler(ev) PROVE SearchInv'
    <3>1. CASE EndRx(ev) \/ SyncRequest(ev) \/ BeaconSearchTimeout(ev)
      BY <1>1, <2>1, <3>1, SearchOfReception, SearchOfSync, SearchOfTimeout
    <3>2. CASE ~EndRx(ev) /\ ~SyncRequest(ev) /\ ~BeaconSearchTimeout(ev)
      <4>1. /\ \A f : Kind(f) \in {"SearchTimeout", "SyncRequest"} => (f \in queue' <=> f \in queue)
            /\ \A m \in Nodes : KeepTrack(m)
        BY <1>1, <2>1, <3>2, QuietForSearch
      <4>2. now' = ev.at /\ callback' = callback /\ heardAt' = heardAt
        BY <2>1, <3>2, HandlerKeeps DEF config, heard
      <4>3. \A f \in queue : f.at >= now'
        BY <1>1, <2>1, <4>2, FirstIsFirst
      <4> QED
        BY <1>1, <4>1, <4>2, <4>3, SearchFrame
    <3> QED
      BY <3>1, <3>2
  <2>2. CASE queue' = queue /\ mac' = mac /\ UNCHANGED <<now, config, history>>
    BY <1>1, <2>2 DEF SearchInv, OneSearch, SearchTimes, SearchTime, TrackersSearch, SyncFirst,
       IsRunning, config, history
  <2>3. ASSUME NEW late \in LateEntries, AddDsmeACTEntity(late.node, late.entry) PROVE SearchInv'
    BY <2>2, <2>3 DEF AddDsmeACTEntity
  <2>4. CASE UNCHANGED vars
    BY <2>2, <2>4 DEF vars
  <2> QED
    BY <1>1, <2>1, <2>3, <2>4 DEF Next
<1>2. ASSUME Init PROVE SearchInv
  <2>1. \A f \in queue : f.do # "SearchTimeout"
    BY <1>2, BootEvents
  <2>2. \A n \in Nodes : mac[n].known = FALSE /\ mac[n].trackingOn = FALSE /\ heardAt[n] = 0
    BY <1>2 DEF Init, MacAtStart
  <2>3. heardAt \in [Nodes -> Nat]
    BY <1>2 DEF Init
  <2> QED
    BY <2>1, <2>2, <2>3 DEF SearchInv, OneSearch, SearchTimes, TrackersSearch, SyncFirst
<1> QED
  BY <1>1, <1>2, DsmeInvariant, DsmeSenders, PTL DEF Spec

\* While a node tracks beacons and can report their loss it searches for them,
\* and it never goes longer without one than the searches that lead to the
\* report last (BeaconSearchTimeout, lr-wpan-mac.cc:1723-1751).
THEOREM DsmeLossInTime ==
  ASSUME StartsOnce
  PROVE  Spec => []LossInTime
<1>1. ASSUME BeaconInv, SearchInv PROVE LossInTime
  <2> SUFFICES ASSUME NEW n \in Nodes, mac[n].trackingOn, mac[n].known, callback # "null"
               PROVE  /\ IsRunning(n, "SearchTimeout")
                      /\ now <= heardAt[n] + NextSearch + (aMaxLostBeacons + 1) * SearchLen(TRUE)
    BY DEF LossInTime
  <2>1. IsRunning(n, "SearchTimeout")
    BY <1>1 DEF SearchInv, TrackersSearch
  <2>2. PICK e \in queue : e.node = n /\ e.do = "SearchTimeout"
    BY <2>1 DEF IsRunning
  <2>3. e.at >= now /\ e.at <= heardAt[n] + NextSearch + Span(mac[n].numLost) /\ e.at \in Nat
    BY <1>1, <2>2 DEF SearchInv, SearchTimes, SearchTime, BeaconInv, EventInv, EventTypes
  <2>4. mac[n].numLost \in 0..5 /\ heardAt[n] \in Nat /\ now \in Nat
    <3>1. mac[n].numLost \in 0..5
      BY <1>1, TrackTypes
    <3>2. now \in Nat
      BY <1>1, Durations DEF BeaconInv, TypeOK
    <3> QED
      BY <1>1, <3>1, <3>2 DEF SearchInv
  <2>5. Span(mac[n].numLost) <= 5 * (BI + Base)
    BY <2>4, SpanType DEF Span
  <2>6. (aMaxLostBeacons + 1) * SearchLen(TRUE) = 5 * (BI + Base)
    <3>1. SearchLen(TRUE) = BI + Base
      BY SpanType, Zenon
    <3>2. aMaxLostBeacons + 1 = 5
      BY DEF aMaxLostBeacons
    <3> QED
      BY <3>1, <3>2, Zenon
  <2>7. Span(mac[n].numLost) \in Nat /\ NextSearch \in Nat /\ 5 * (BI + Base) \in Nat
    BY <2>4, SpanType
  <2>8. now <= heardAt[n] + NextSearch + 5 * (BI + Base)
    BY <2>3, <2>4, <2>5, <2>7
  <2> QED
    BY <2>1, <2>6, <2>8, Zenon
<1> QED
  BY <1>1, DsmeInvariant, SearchInvariant, PTL DEF Spec

-----------------------------------------------------------------------------
(* From one event of a superframe to the next *)

\* The event f that takes the place of ev in the superframe of a node.
Succeeds(f, ev) ==
  LET n == ev.node
  IN /\ f.node = n /\ Own(ev)
     /\ \/ /\ ev.do = "StartRequest" /\ n = PanC /\ f.do = "SendBeacon" /\ f.at = ev.at
        \/ /\ ev.do = "SendBeacon" /\ f.do = "StartTx" /\ f.at = ev.at + Turnaround
           /\ mac'[n].bcnStart = ev.at
        \/ /\ ev.do = "StartTx" /\ f.do = "EndTx" /\ StartTx(ev)
           /\ mac'[n].bcnStart = mac[n].bcnStart
        \/ /\ ev.do \in {"EndTx", "StartCAP", "StartCFP"}
           /\ f.do \in {"StartCAP", "StartCFP", "StartRemainingPeriod"}
           /\ mac'[n].bcnStart = mac[n].bcnStart
        \/ /\ ev.do = "StartRemainingPeriod" /\ f.do = "SendBeacon"
           /\ f.at = mac[n].bcnStart + BI /\ mac'[n].bcnStart = mac[n].bcnStart

LEMMA OwnAfter ==
  ASSUME NEW ev, NEW New, NEW x, Adds(queue \ {ev}, queue', New), \A y \in New : Own(y) => y = x,
         NEW f \in queue', Own(f)
  PROVE  \/ f \in queue /\ f # ev
         \/ /\ f.at = x.at /\ f.node = x.node /\ f.do = x.do
<1>1. CASE f \in queue \ {ev}
  BY <1>1
<1>2. CASE f \notin queue \ {ev}
  <2>1. PICK y \in New : Like(f, y)
    BY <1>2 DEF Adds
  <2>2. Own(y)
    BY <2>1, LikeKinds
  <2> QED
    BY <2>1, <2>2, LikeKinds
<1> QED
  BY <1>1, <1>2

LEMMA BcnStartKept ==
  ASSUME BeaconInv, NEW n \in Nodes, NEW from
  PROVE  AfterBeacon(n, from).bcnStart = mac[n].bcnStart
<1>1. mac[n] \in MacTypes
  BY MacTyped
<1> QED
  BY <1>1 DEF AfterBeacon, MacTypes

LEMMA OwnNext ==
  ASSUME BeaconInv, SenderInv, NEW ev \in queue, First(ev), Handler(ev), NEW f \in queue', Own(f)
  PROVE  \/ f \in queue /\ f # ev /\ mac'[f.node].bcnStart = mac[f.node].bcnStart
         \/ Succeeds(f, ev)
         \/ /\ EndRx(ev) /\ f.node = ev.node /\ mac[ev.node].sendBcn /\ ev.node \in Coords
            /\ f.do = "SendBeacon" /\ f.at = FirstBeacon(ev.node, ev.arg)
<1> DEFINE n == ev.node
<1>1. n \in Nodes /\ (f \in queue => f.node \in Nodes)
  BY Running DEF BeaconInv, EventInv, EventTypes
<1>2. ASSUME f \in queue, f # ev, Own(ev), Only(n)
      PROVE  mac'[f.node].bcnStart = mac[f.node].bcnStart
  BY <1>1, <1>2 DEF SenderInv, OneOwn, Only
<1>3. CASE \/ StartGTS(ev) \/ EndGTS(ev) \/ SendGack(ev) \/ GackSent(ev)
           \/ (StartCAP(ev) \/ StartCFP(ev) \/ StartRemainingPeriod(ev)) /\ ev.arg # "OUT"
           \/ AwaitBeacon(ev) \/ StartSuperframe(ev) \/ StartMultisuperframe(ev) \/ SetIdle(ev)
           \/ BeaconLost(ev) \/ SyncRequest(ev) \/ BeaconSearchTimeout(ev)
  <2>1. f \in queue /\ \A m \in Nodes : KeepOwn(m)
    BY <1>3, QuietForSender, KindsOfSender DEF SenderKinds
  <2>2. ~Own(ev)
    BY <1>3, Running
    DEF Own, OfSender, OwnPeriods, StartGTS, EndGTS, SendGack, GackSent, StartCAP, StartCFP,
        StartRemainingPeriod, AwaitBeacon, StartSuperframe, StartMultisuperframe, SetIdle,
        BeaconLost, SyncRequest, BeaconSearchTimeout, Runs
  <2> QED
    BY <1>1, <2>1, <2>2 DEF KeepOwn
<1>4. CASE SendOneEnhancedBeacon(ev)
  <2>1. PICK x : x = Event(ev.at + Turnaround, n, "StartTx", "OUT")
    OBVIOUS
  <2>2. /\ x.do = "StartTx" /\ x.node = n /\ x.at = ev.at + Turnaround
        /\ ev.do = "SendBeacon" /\ Own(ev)
    BY <1>4, <2>1 DEF Event, SendOneEnhancedBeacon, Runs, Own, OfSender
  <2>3. Adds(queue \ {ev}, queue', {x}) /\ Only(n) /\ mac'[n].bcnStart = ev.at
    BY <1>4, <2>1, SendBeaconStep
  <2>4. \/ f \in queue /\ f # ev
        \/ f.at = x.at /\ f.node = x.node /\ f.do = x.do
    <3>1. Adds(queue \ {ev}, queue', {x})
      BY <2>3
    <3> QED
      BY SMTT(30), <3>1, OwnAfter
  <2> QED
    BY <1>2, <2>2, <2>3, <2>4 DEF Succeeds
<1>5. CASE StartTx(ev)
  <2>1. PICK x : x = Event(ev.at + BeaconLen, n, "EndTx", "OUT")
    OBVIOUS
  <2>2. PICK New : New = {x} \cup {Event(ev.at + BeaconLen, m, "EndRx", n) : m \in hearing'}
    OBVIOUS
  <2>3. Adds(queue \ {ev}, queue', New) /\ mac' = mac /\ ev.arg = "OUT" /\ ev.do = "StartTx"
    BY <1>5, <2>1, <2>2, StartTxStep DEF StartTx, Runs
  <2>4. x.do = "EndTx" /\ x.node = n /\ Own(ev)
    BY <2>1, <2>3 DEF Event, Own, OfSender, OwnPeriods
  <2>5. \A y \in New : Own(y) => y = x
    BY <2>2 DEF Event, Own, OfSender, OwnPeriods
  <2>6. \/ f \in queue /\ f # ev
        \/ f.at = x.at /\ f.node = x.node /\ f.do = x.do
    <3>1. Adds(queue \ {ev}, queue', New)
      BY <2>3
    <3>2. ASSUME f \notin queue \ {ev} PROVE f.at = x.at /\ f.node = x.node /\ f.do = x.do
      <4>1. PICK y \in New : Like(f, y)
        BY <3>1, <3>2 DEF Adds
      <4>2. Own(y)
        BY <4>1, LikeKinds
      <4>3. y = x
        BY <2>5, <4>2
      <4> QED
        BY <4>1, <4>3, LikeKinds
    <3> QED
      BY <3>2
  <2> QED
    BY <1>5, <2>3, <2>4, <2>6 DEF Succeeds
<1>6. CASE EndTx(ev)
  <2>1. PICK x : x = CapEvent(ev)
    OBVIOUS
  <2>2. PICK New : New = (IF n # PanC THEN GtsItems(n, ev.at) ELSE {}) \cup {x}
    OBVIOUS
  <2>3. /\ Adds(queue \ {ev}, queue', New) /\ Only(n) /\ KeepBeacon(n)
        /\ ev.do = "EndTx" /\ Own(ev)
    BY <1>6, <2>1, <2>2, EndTxStep, Running DEF EndTx, Runs, EventTypes, Own, OfSender, OwnPeriods
  <2>4. x.do \in {"StartCAP", "StartCFP"} /\ x.node = n
    BY <2>1 DEF CapEvent, Event
  <2>5. \A y \in New : Own(y) => y = x
    BY <2>2, GtsAdds DEF Own, OfSender, OwnPeriods
  <2>6. \/ f \in queue /\ f # ev
        \/ f.at = x.at /\ f.node = x.node /\ f.do = x.do
    <3>1. Adds(queue \ {ev}, queue', New)
      BY <2>3
    <3>2. ASSUME f \notin queue \ {ev} PROVE f.at = x.at /\ f.node = x.node /\ f.do = x.do
      <4>1. PICK y \in New : Like(f, y)
        BY <3>1, <3>2 DEF Adds
      <4>2. Own(y)
        BY <4>1, LikeKinds
      <4>3. y = x
        BY <2>5, <4>2
      <4> QED
        BY <4>1, <4>3, LikeKinds
    <3> QED
      BY <3>2
  <2> QED
    BY <1>2, <2>3, <2>4, <2>6 DEF Succeeds, KeepBeacon
<1>7. CASE StartCAP(ev) /\ ev.arg = "OUT"
  <2>1. PICK x : x = Event(mac[n].bcnStart + CapLen, n, "StartCFP", "OUT")
    OBVIOUS
  <2>2. Adds(queue \ {ev}, queue', {x}) /\ Only(n) /\ KeepBeacon(n)
    BY <1>7, <2>1, OwnCapStep
  <2>3. ev.do = "StartCAP" /\ Own(ev) /\ x.do = "StartCFP" /\ x.node = n
    BY <1>7, <2>1 DEF StartCAP, Runs, Own, OfSender, OwnPeriods, Event
  <2>4. \/ f \in queue /\ f # ev
        \/ f.at = x.at /\ f.node = x.node /\ f.do = x.do
    BY <2>2, OwnAfter
  <2> QED
    BY <1>2, <2>2, <2>3, <2>4 DEF Succeeds, KeepBeacon
<1>8. CASE StartCFP(ev) /\ ev.arg = "OUT"
  <2>1. PICK x : x = IF mac[n].firstCFP
                     THEN Event(ev.at + CapLen - BeaconDelay, n, "StartCFP", "OUT")
                     ELSE Event(ev.at + CfpSlots * Slot, n, "StartRemainingPeriod", "OUT")
    OBVIOUS
  <2>2. Adds(queue \ {ev}, queue', {x}) /\ Only(n) /\ KeepBeacon(n)
    BY <1>8, <2>1, OwnCfpStep
  <2>3. ev.do = "StartCFP" /\ Own(ev) /\ x.do \in {"StartCFP", "StartRemainingPeriod"} /\ x.node = n
    BY <1>8, <2>1 DEF StartCFP, Runs, Own, OfSender, OwnPeriods, Event
  <2>4. \/ f \in queue /\ f # ev
        \/ f.at = x.at /\ f.node = x.node /\ f.do = x.do
    BY <2>2, OwnAfter
  <2> QED
    BY <1>2, <2>2, <2>3, <2>4 DEF Succeeds, KeepBeacon
<1>9. CASE StartRemainingPeriod(ev) /\ ev.arg = "OUT"
  <2>1. PICK x : x = Event(mac[n].bcnStart + BI, n, "SendBeacon", "OUT")
    OBVIOUS
  <2>2. Adds(queue \ {ev}, queue', {x}) /\ Only(n) /\ KeepBeacon(n)
    BY <1>9, <2>1, OwnRemainingStep
  <2>3. /\ ev.do = "StartRemainingPeriod" /\ Own(ev) /\ x.do = "SendBeacon" /\ x.node = n
        /\ x.at = mac[n].bcnStart + BI
    BY <1>9, <2>1 DEF StartRemainingPeriod, Runs, Own, OfSender, OwnPeriods, Event
  <2>4. \/ f \in queue /\ f # ev
        \/ f.at = x.at /\ f.node = x.node /\ f.do = x.do
    BY <2>2, OwnAfter
  <2> QED
    BY <1>2, <2>2, <2>3, <2>4 DEF Succeeds, KeepBeacon
<1>10. CASE StartRequest(ev) /\ n = PanC
  <2>1. PICK x : x = Event(ev.at, PanC, "SendBeacon", "OUT")
    OBVIOUS
  <2>2. PICK New : New = {Event(ev.at, PanC, "StartMultisuperframe", "OUT"), x}
    OBVIOUS
  <2>3. Adds(queue \ {ev}, queue', New) /\ mac' = mac /\ ev.do = "StartRequest" /\ Own(ev)
    BY <1>10, <2>1, <2>2, PanStartStep DEF StartRequest, Runs, Own
  <2>4. x.do = "SendBeacon" /\ x.node = n /\ x.at = ev.at
    BY <1>10, <2>1 DEF Event
  <2>5. \A y \in New : Own(y) => y = x
    BY <2>2 DEF Event, Own, OfSender, OwnPeriods
  <2>6. \/ f \in queue /\ f # ev
        \/ f.at = x.at /\ f.node = x.node /\ f.do = x.do
    <3>1. Adds(queue \ {ev}, queue', New)
      BY <2>3
    <3>2. ASSUME f \notin queue \ {ev} PROVE f.at = x.at /\ f.node = x.node /\ f.do = x.do
      <4>1. PICK y \in New : Like(f, y)
        BY <3>1, <3>2 DEF Adds
      <4>2. Own(y)
        BY <4>1, LikeKinds
      <4>3. y = x
        BY <2>5, <4>2
      <4> QED
        BY <4>1, <4>3, LikeKinds
    <3> QED
      BY <3>2
  <2> QED
    BY <1>10, <2>3, <2>4, <2>6 DEF Succeeds
<1>11. CASE StartRequest(ev) /\ n # PanC
  <2>1. Adds(queue \ {ev}, queue', GtsItems(n, ev.at)) /\ Only(n) /\ Own(ev)
    BY <1>11, CoordStartStep DEF StartRequest, Runs, Own
  <2>2. f \in queue /\ f # ev
    <3>1. ASSUME NEW y \in GtsItems(n, ev.at), Like(f, y) PROVE FALSE
      <4>1. y.do = "StartGTS"
        BY <3>1, GtsAdds
      <4>2. f.do = "StartGTS"
        BY <3>1, <4>1, LikeKinds
      <4> QED
        BY <4>2 DEF Own, OfSender, OwnPeriods
    <3> QED
      BY <2>1, <3>1 DEF Adds
  <2> QED
    BY <1>2, <2>1, <2>2
<1>12. CASE EndRx(ev)
  <2>1. PICK from : from = ev.arg
    OBVIOUS
  <2>2. PICK q : q = Cancel(queue \ {ev}, n, "SearchTimeout")
    OBVIOUS
  <2>3. /\ Adds(q, queue', ReceptionEvents(n, from, ev.at)) /\ Only(n)
        /\ mac'[n] = AfterBeacon(n, from) /\ q \subseteq queue \ {ev}
    BY <1>12, <2>1, <2>2, EndRxStep DEF Cancel
  <2>4. /\ from \in Nodes /\ mac[from].bitmapSd % NumSuperframes = 0
        /\ mac[n].sendBcn => n \in Coords
    BY <1>12, <2>1, HeardBeacon
  <2>5. mac'[n].bcnStart = mac[n].bcnStart
    BY <1>1, <2>3, BcnStartKept
  <2>6. CASE f \in q
    BY <1>1, <2>3, <2>5, <2>6 DEF Only
  <2>7. CASE f \notin q
    <3>1. PICK x \in ReceptionEvents(n, from, ev.at) : Like(f, x)
      BY <2>3, <2>7 DEF Adds
    <3>2. Kind(x) = "own"
      BY <2>4, <3>1, LikeKinds, KindsOfSender, ReceptionKinds
    <3>3. /\ mac[n].sendBcn /\ x.at = FirstBeacon(n, from) /\ x.node = n /\ x.do = "SendBeacon"
      BY <2>4, <3>1, <3>2, ReceptionKinds
    <3> QED
      BY <1>12, <2>1, <2>4, <3>1, <3>3, LikeKinds
  <2> QED
    BY <2>6, <2>7
<1> QED
  BY <1>3, <1>4, <1>5, <1>6, <1>7, <1>8, <1>9, <1>10, <1>11, <1>12 DEF Handler

-----------------------------------------------------------------------------
(* Beacons counted as lost *)

\* When the PAN coordinator begins its next beacon.
NextTx(e) ==
  CASE e.do = "StartRequest" -> Turnaround
    [] e.do = "SendBeacon" -> e.at + Turnaround
    [] e.do = "StartTx" -> e.at
    [] OTHER -> mac[PanC].bcnStart + BI + Turnaround

OfPan(e) == Own(e) /\ e.node = PanC

\* A beacon comes within a beacon interval; as many have come since a node heard
\* its last one as it has missed.
TxInTime(t) ==
  t \in Nat /\ t <= now + BI /\ \A n \in Nodes : t <= heardAt[n] + (missed[n] + 1) * BI

PanTxs == \A e \in queue : OfPan(e) => TxInTime(NextTx(e))

\* A search lasts long enough for the beacons that it counts.
SearchAgrees(e) ==
  LET n == e.node
  IN /\ heardAt[n] + Span(mac[n].numLost) <= e.at
     /\ mac[n].numLost <= missed[n] + 1

SearchesAgree == \A e \in queue : e.do = "SearchTimeout" => SearchAgrees(e)

MissInv == missed \in [Nodes -> Nat] /\ PanTxs /\ SearchesAgree

LEMMA NextTxCases ==
  ASSUME NEW e
  PROVE  /\ e.do = "StartRequest" => NextTx(e) = Turnaround
         /\ e.do = "SendBeacon" => NextTx(e) = e.at + Turnaround
         /\ e.do = "StartTx" => NextTx(e) = e.at
         /\ e.do \notin {"StartRequest", "SendBeacon", "StartTx"} =>
              NextTx(e) = mac[PanC].bcnStart + BI + Turnaround
BY DEF NextTx

LEMMA NextTxCasesPrime ==
  ASSUME NEW e
  PROVE  /\ e.do = "StartRequest" => NextTx(e)' = Turnaround
         /\ e.do = "SendBeacon" => NextTx(e)' = e.at + Turnaround
         /\ e.do = "StartTx" => NextTx(e)' = e.at
         /\ e.do \notin {"StartRequest", "SendBeacon", "StartTx"} =>
              NextTx(e)' = mac'[PanC].bcnStart + BI + Turnaround
BY DEF NextTx

\* Whatever runs, the time of the PAN coordinator's next beacon stays, until it
\* begins; then the next one is due a beacon interval later.
LEMMA NextTxKept ==
  ASSUME BeaconInv, SenderInv, NEW ev \in queue, First(ev), Handler(ev),
         NEW f \in queue', OfPan(f)
  PROVE  \E e \in queue :
           /\ OfPan(e)
           /\ IF StartTx(ev) /\ ev.node = PanC
              THEN e = ev /\ NextTx(e) = ev.at /\ NextTx(f)' = ev.at + BI
              ELSE NextTx(f)' = NextTx(e)
<1>1. PanC \in Nodes /\ PanC \notin Coords
  BY DsmeConstants DEF Nodes
<1>2. /\ mac[PanC].bcnStart \in Nat /\ Turnaround \in Nat /\ BI \in Nat /\ ev.at \in Nat
  BY <1>1, StartTimes, Lengths, Running
<1>3. Own(f) /\ f.node = PanC
  BY DEF OfPan
<1>4. CASE f \in queue /\ f # ev /\ mac'[f.node].bcnStart = mac[f.node].bcnStart
  <2>1. NextTx(f)' = NextTx(f)
    BY <1>3, <1>4 DEF NextTx
  <2>2. ~(StartTx(ev) /\ ev.node = PanC)
    <3>1. SUFFICES ASSUME StartTx(ev), ev.node = PanC PROVE FALSE
      OBVIOUS
    <3>2. Own(ev)
      BY <3>1, StartTxStep DEF StartTx, Runs, Own, OfSender, OwnPeriods
    <3> QED
      BY <1>3, <1>4, <3>1, <3>2 DEF SenderInv, OneOwn
  <2> QED
    BY <1>4, <2>1, <2>2
<1>5. CASE Succeeds(f, ev)
  <2>1. OfPan(ev) /\ ev.node = PanC
    BY <1>3, <1>5 DEF Succeeds, OfPan
  <2>2. OfSender(ev) => OwnTime(ev)
    BY DEF SenderInv, OwnTimes
  <2>3. CASE ev.do = "StartTx"
    <3>1. /\ f.do = "EndTx" /\ StartTx(ev) /\ mac'[PanC].bcnStart = mac[PanC].bcnStart
      BY <1>5, <2>1, <2>3 DEF Succeeds
    <3>2. ev.at = mac[PanC].bcnStart + Turnaround
      BY <2>1, <2>2, <2>3 DEF OwnTime, OfPan, Own
    <3>3. NextTx(f)' = mac'[PanC].bcnStart + BI + Turnaround /\ NextTx(ev) = ev.at
      BY <2>3, <3>1, NextTxCases, NextTxCasesPrime
    <3>4. NextTx(f)' = ev.at + BI
      BY <1>2, <3>1, <3>2, <3>3
    <3> QED
      BY <2>1, <3>1, <3>3, <3>4
  <2>4. CASE ev.do # "StartTx"
    <3>1. ~StartTx(ev)
      BY <2>4 DEF StartTx, Runs
    <3>2. NextTx(f)' = NextTx(ev)
      <4>1. CASE ev.do = "StartRequest"
        <5>1. f.do = "SendBeacon" /\ f.at = ev.at
          BY <1>5, <4>1 DEF Succeeds
        <5>2. ev.at = 0
          BY <4>1 DEF BeaconInv, EventInv, EventTypes
        <5> QED
          BY <1>2, <4>1, <5>1, <5>2, NextTxCases, NextTxCasesPrime
      <4>2. CASE ev.do = "SendBeacon"
        <5>1. f.do = "StartTx" /\ f.at = ev.at + Turnaround
          BY <1>5, <4>2 DEF Succeeds
        <5> QED
          BY <4>2, <5>1, NextTxCases, NextTxCasesPrime
      <4>3. CASE ev.do \in {"EndTx", "StartCAP", "StartCFP"}
        <5>1. /\ f.do \in {"StartCAP", "StartCFP", "StartRemainingPeriod"}
              /\ mac'[PanC].bcnStart = mac[PanC].bcnStart
          BY <1>5, <2>1, <4>3 DEF Succeeds
        <5> QED
          BY <4>3, <5>1, NextTxCases, NextTxCasesPrime
      <4>4. CASE ev.do = "StartRemainingPeriod"
        <5>1. f.do = "SendBeacon" /\ f.at = mac[PanC].bcnStart + BI
          BY <1>5, <2>1, <4>4 DEF Succeeds
        <5>2. NextTx(f)' = f.at + Turnaround /\ NextTx(ev) = mac[PanC].bcnStart + BI + Turnaround
          BY <4>4, <5>1, NextTxCases, NextTxCasesPrime
        <5> QED
          BY <5>1, <5>2
      <4> QED
        BY <1>5, <2>4, <4>1, <4>2, <4>3, <4>4 DEF Succeeds
    <3> QED
      BY <2>1, <3>1, <3>2
  <2> QED
    BY <2>3, <2>4
<1>6. CASE EndRx(ev) /\ f.node = ev.node /\ ev.node \in Coords
  BY <1>1, <1>3, <1>6
<1> QED
  BY <1>3, <1>4, <1>5, <1>6, OwnNext

LEMMA MissTimes ==
  ASSUME BeaconInv, SenderInv, SearchInv, MissInv, DelayIsPositive,
         NEW ev \in queue, First(ev), Handler(ev)
  PROVE  missed' \in [Nodes -> Nat] /\ PanTxs'
<1>1. /\ now \in Nat /\ ev.at \in Nat /\ ev.at >= now /\ now' = ev.at /\ BI \in Nat
  <2>1. now \in Nat
    BY Durations DEF BeaconInv, TypeOK
  <2> QED
    BY <2>1, Running, Lengths, HandlerKeeps DEF DelayIsPositive
<1>2. heardAt \in [Nodes -> Nat] /\ missed \in [Nodes -> Nat]
  BY DEF SearchInv, MissInv
<1>3. \A k \in Nat : k * BI \in Nat /\ (k + 1) * BI = k * BI + BI /\ (k + 1 + 1) * BI = (k + 1) * BI + BI
  BY <1>1
<1>4. CASE StartTx(ev) /\ ev.node = PanC
  <2>1. missed' = [n \in Nodes |-> missed[n] + 1] /\ heardAt' = heardAt
    BY <1>4 DEF StartTx
  <2>2. missed' \in [Nodes -> Nat]
    BY <1>2, <2>1
  <2>3. ASSUME NEW f \in queue', OfPan(f) PROVE TxInTime(NextTx(f))'
    <3>1. NextTx(f)' = ev.at + BI /\ TxInTime(ev.at)
      BY <1>4, <2>3, NextTxKept DEF MissInv, PanTxs
    <3>2. PICK t \in Nat : t = ev.at + BI
      BY <1>1
    <3>3. ASSUME NEW n \in Nodes PROVE t <= heardAt'[n] + (missed'[n] + 1) * BI
      <4>1. PICK h \in Nat : h = heardAt[n]
        BY <1>2
      <4>2. PICK k \in Nat : k = missed[n]
        BY <1>2
      <4>3. ev.at <= h + (k + 1) * BI
        BY <3>1, <4>1, <4>2 DEF TxInTime
      <4>4. PICK p \in Nat : p = (k + 1) * BI
        BY <1>1, <4>2
      <4>5. heardAt'[n] = h /\ (missed'[n] + 1) * BI = p + BI
        BY <1>3, <2>1, <4>1, <4>2, <4>4
      <4> QED
        BY <1>1, <3>2, <4>3, <4>4, <4>5
    <3>4. t <= now' + BI
      BY <1>1, <3>2
    <3> QED
      BY <3>1, <3>2, <3>3, <3>4 DEF TxInTime
  <2> QED
    BY <2>2, <2>3 DEF PanTxs, OfPan, Own, OfSender
<1>5. CASE ~(StartTx(ev) /\ ev.node = PanC)
  <2>1. \/ heardAt' = heardAt /\ missed' = missed
        \/ /\ ev.node \in Nodes /\ heardAt' = [heardAt EXCEPT ![ev.node] = ev.at]
           /\ missed' = [missed EXCEPT ![ev.node] = 0]
    BY <1>1, <1>5, HandlerKeeps, Running DEF heard, EndRx
  <2>2. missed' \in [Nodes -> Nat]
    BY <1>2, <2>1
  <2>3. ASSUME NEW f \in queue', OfPan(f) PROVE TxInTime(NextTx(f))'
    <3>1. PICK t : t = NextTx(f)'
      OBVIOUS
    <3>2. TxInTime(t)
      BY <1>5, <2>3, <3>1, NextTxKept DEF MissInv, PanTxs
    <3>3. t \in Nat /\ t <= ev.at + BI
      BY <1>1, <3>2 DEF TxInTime
    <3>4. ASSUME NEW n \in Nodes PROVE t <= heardAt'[n] + (missed'[n] + 1) * BI
      <4>1. CASE heardAt'[n] = heardAt[n] /\ missed'[n] = missed[n]
        BY <3>2, <4>1 DEF TxInTime
      <4>2. CASE heardAt'[n] = ev.at /\ missed'[n] = 0
        BY <1>1, <3>3, <4>2
      <4> QED
        BY <1>2, <2>1, <4>1, <4>2
    <3> QED
      BY <1>1, <3>1, <3>3, <3>4 DEF TxInTime
  <2> QED
    BY <2>2, <2>3 DEF PanTxs, OfPan, Own, OfSender
<1> QED
  BY <1>4, <1>5

\* A search never counts a beacon before it was due.
LEMMA CountIsMissed ==
  ASSUME BeaconInv, SenderInv, SearchInv, MissInv, PanStarts, BI > SD, NEW ev \in queue, First(ev),
         ev.do = "SearchTimeout"
  PROVE  mac[ev.node].numLost <= missed[ev.node]
<1>1. PICK n \in Nodes : n = ev.node
  BY Running
<1>2. PICK k \in Nat : k = mac[n].numLost
  BY TrackTypes
<1>3. PICK m \in Nat : m = missed[n]
  BY DEF MissInv
<1>4. PICK h \in Nat : h = heardAt[n]
  BY DEF SearchInv
<1>5. PICK e \in queue : OfPan(e)
  BY DEF SenderInv, PanRuns, OfPan
<1>6. e.at \in Nat /\ ev.at \in Nat /\ e.at >= ev.at
  BY FirstIsFirst
<1>7. NextTx(e) \in Nat /\ NextTx(e) <= h + (m + 1) * BI
  BY <1>3, <1>4, <1>5 DEF MissInv, PanTxs, TxInTime
<1>8. e.at <= NextTx(e)
  <2>1. PanC \in Nodes
    BY DEF Nodes
  <2>2. mac[PanC].bcnStart \in Nat /\ e.node = PanC
    BY <1>5, <2>1, StartTimes DEF OfPan
  <2>3. PICK b \in Nat : b = mac[PanC].bcnStart
    BY <2>2
  <2>4. CASE e.do = "StartRequest"
    <3>1. e.at = 0
      BY <2>4 DEF BeaconInv, EventInv, EventTypes
    <3> QED
      BY <1>7, <3>1
  <2>5. CASE e.do = "SendBeacon"
    BY <1>6, <2>5, NextTxCases, Lengths
  <2>6. CASE e.do = "StartTx"
    BY <1>6, <2>6, NextTxCases
  <2>7. CASE e.do \notin {"StartRequest", "SendBeacon", "StartTx"}
    <3>1. OfSender(e) /\ OwnTime(e)
      BY <1>5, <2>7 DEF OfPan, Own, SenderInv, OwnTimes
    <3>2. e.do \in {"EndTx", "StartCAP", "StartCFP", "StartRemainingPeriod"}
      BY <2>7, <3>1 DEF OfSender, OwnPeriods
    <3>3. e.at \in {b + BeaconDelay, b + CapLen, b + SD,
                    b + SecondCfp, b + SecondCfp + 7 * Slot}
      BY <2>2, <2>3, <3>1, <3>2 DEF OwnTime
    <3>4. NextTx(e) = b + BI + Turnaround
      BY <2>3, <2>7, NextTxCases
    <3>5. e.at <= b + 2 * SD
      BY <2>3, <3>3, Lengths DEF SecondCfp
    <3> QED
      <4>1. BI >= 2 * SD
        BY TwoSuperframes
      <4>2. SD \in Nat /\ BI \in Nat /\ Turnaround \in Nat /\ e.at \in Nat
        BY <1>6, Lengths
      <4> QED
        BY <2>3, <3>4, <3>5, <4>1, <4>2
  <2> QED
    BY <2>4, <2>5, <2>6, <2>7
<1>9. h + Span(k) <= ev.at
  BY <1>1, <1>2, <1>4 DEF MissInv, SearchesAgree, SearchAgrees
<1>10. Span(k) <= (m + 1) * BI
  <2>1. Span(k) \in Nat /\ (m + 1) * BI \in Nat
    <3>1. Span(k) \in Nat /\ BI \in Nat
      BY <1>2, SpanType
    <3>2. PICK b \in Nat : b = BI
      BY <3>1
    <3>3. PICK i \in Nat : i = m + 1
      BY <1>3
    <3>4. i * b \in Nat
      OBVIOUS
    <3> QED
      BY <3>1, <3>2, <3>3, <3>4
  <2>2. PICK s \in Nat : s = Span(k)
    BY <2>1
  <2>3. PICK p \in Nat : p = (m + 1) * BI
    BY <2>1
  <2>4. PICK x \in Nat : x = NextTx(e)
    BY <1>7
  <2> QED
    BY <1>4, <1>6, <1>7, <1>8, <1>9, <2>2, <2>3, <2>4
<1>11. k < m + 1
  <2>1. SUFFICES ASSUME k >= m + 1 PROVE FALSE
    BY <1>2, <1>3
  <2>2. PICK d \in Nat : k = m + 1 + d
    <3>1. k - (m + 1) \in Nat /\ k = m + 1 + (k - (m + 1))
      BY <1>2, <1>3, <2>1
    <3> QED
      BY <3>1
  <2>3. Base \in Nat /\ Base > 0 /\ BI \in Nat
    BY SpanType, Zenon
  <2>4. Span(k) = k * BI + k * Base
    BY <1>2, <2>3 DEF Span
  <2>5. k * BI = (m + 1) * BI + d * BI
    BY <1>3, <2>2, <2>3
  <2>6. d * BI \in Nat /\ (m + 1) * BI \in Nat
    BY <1>3, <2>2, <2>3
  <2>7. k * Base \in Nat /\ k * Base > 0
    <3>1. k * Base >= Base
      BY <1>2, <1>3, <2>1, <2>3, Product
    <3> QED
      BY <1>2, <2>3, <3>1
  <2>8. PICK a \in Nat : a = k * Base
    BY <2>7
  <2>9. PICK b \in Nat : b = d * BI
    BY <2>6
  <2>10. PICK c \in Nat : c = (m + 1) * BI
    BY <2>6
  <2> QED
    BY <1>10, <2>4, <2>5, <2>7, <2>8, <2>9, <2>10
<1> QED
  BY <1>1, <1>2, <1>3, <1>11

\* The search of one node changes, those of the others stay.
LEMMA MissOne ==
  ASSUME BeaconInv, MissInv, NEW n, Only(n),
         NEW q, q \subseteq queue, \A f \in q : f.do = "SearchTimeout" => f.node # n,
         NEW New, Adds(q, queue', New),
         \A m \in Nodes : m # n => heardAt'[m] = heardAt[m] /\ missed'[m] = missed[m],
         \A x \in New : x.do = "SearchTimeout" => SearchAgrees(x)'
  PROVE  SearchesAgree'
<1> SUFFICES ASSUME NEW e \in queue', e.do = "SearchTimeout" PROVE SearchAgrees(e)'
  BY DEF SearchesAgree
<1>1. CASE e \in q
  <2>1. SearchAgrees(e) /\ e.node \in Nodes /\ e.node # n
    BY <1>1 DEF MissInv, SearchesAgree, BeaconInv, EventInv, EventTypes
  <2>2. mac'[e.node] = mac[e.node] /\ heardAt'[e.node] = heardAt[e.node] /\ missed'[e.node] = missed[e.node]
    BY <2>1 DEF Only
  <2> QED
    BY <2>1, <2>2 DEF SearchAgrees
<1>2. CASE e \notin q
  <2>1. PICK x \in New : Like(e, x)
    BY <1>2 DEF Adds
  <2>2. e.at = x.at /\ e.node = x.node /\ x.do = "SearchTimeout"
    BY <2>1, LikeKinds
  <2>3. SearchAgrees(x)'
    BY <2>1, <2>2
  <2> QED
    BY <2>2, <2>3 DEF SearchAgrees
<1> QED
  BY <1>1, <1>2

LEMMA MissOfSync ==
  ASSUME BeaconInv, SearchInv, MissInv, NEW ev \in queue, SyncRequest(ev)
  PROVE  SearchesAgree'
<1>1. PICK n \in Nodes : n = ev.node
  BY Running
<1>2. PICK x : x = SearchEvent(n, ev.at)
  OBVIOUS
<1>3. PICK q : q = Cancel(queue \ {ev}, n, "SearchTimeout")
  OBVIOUS
<1>4. /\ Adds(q, queue', {x}) /\ Only(n) /\ heardAt' = heardAt /\ missed' = missed
      /\ mac'[n].numLost = 0
  BY <1>1, <1>2, <1>3, SyncStep DEF TrackFrame, history
<1>5. q \subseteq queue /\ \A f \in q : f.do = "SearchTimeout" => f.node # n
  BY <1>3 DEF Cancel
<1>6. heardAt[n] = 0 /\ ev.at \in Nat /\ missed[n] \in Nat
  BY <1>1, Running DEF SyncRequest, Runs, SearchInv, SyncFirst, MissInv
<1>7. PICK d \in Nat : d = SearchLen(mac[n].known)
  BY <1>1, SearchLenOf
<1>8. x.node = n /\ x.at = ev.at + d
  BY <1>2, <1>7 DEF SearchEvent, Event
<1>9. SearchAgrees(x)'
  <2>1. Span(0) = 0
    BY SpanType, Zenon
  <2> QED
    BY <1>4, <1>6, <1>7, <1>8, <2>1 DEF SearchAgrees
<1> QED
  BY <1>4, <1>5, <1>9, MissOne

LEMMA MissOfTimeout ==
  ASSUME BeaconInv, SenderInv, SearchInv, MissInv, PanStarts, BI > SD,
         NEW ev \in queue, First(ev), BeaconSearchTimeout(ev)
  PROVE  SearchesAgree'
<1>1. PICK n \in Nodes : n = ev.node
  BY Running
<1>2. PICK x : x = SearchEvent(n, ev.at)
  OBVIOUS
<1>3. PICK q : q = queue \ {ev}
  OBVIOUS
<1>4. /\ Only(n) /\ heardAt' = heardAt /\ missed' = missed /\ ev.do = "SearchTimeout"
  BY <1>1, TimeoutStep DEF TrackFrame, history, BeaconSearchTimeout, Runs
<1>5. q \subseteq queue /\ \A f \in q : f.do = "SearchTimeout" => f.node # n
  BY <1>1, <1>3, <1>4 DEF SearchInv, OneSearch
<1>6. ev.at \in Nat /\ mac[n].numLost <= missed[n]
  BY <1>1, <1>4, Running, CountIsMissed
<1>7. PICK d \in Nat : d = SearchLen(mac[n].known) /\ d >= BI + Base
  BY <1>1, SearchLenOf
<1>8. x.node = n /\ x.at = ev.at + d
  BY <1>2, <1>7 DEF SearchEvent, Event
<1>9. PICK k \in Nat : k = mac[n].numLost
  BY TrackTypes
<1>10. PICK h \in Nat : h = heardAt[n]
  BY DEF SearchInv
<1>11. PICK m \in Nat : m = missed[n]
  BY DEF MissInv
<1>12. PICK s \in Nat : s = Span(k)
  BY SpanType
<1>13. h + s <= ev.at
  BY <1>1, <1>4, <1>9, <1>10, <1>12 DEF MissInv, SearchesAgree, SearchAgrees
<1>14. BI + Base \in Nat /\ Span(k + 1) = s + (BI + Base) /\ Span(0) = 0
  BY <1>9, <1>12, SpanType
<1>15. CASE ~IsLost(n)
  <2>1. Adds(q, queue', {x}) /\ mac'[n].numLost = k + 1
    BY <1>1, <1>2, <1>3, <1>9, <1>15, TimeoutStep
  <2>2. h + Span(k + 1) <= x.at
    BY <1>6, <1>7, <1>8, <1>13, <1>14
  <2>3. k + 1 <= m + 1
    BY <1>6, <1>9, <1>11
  <2>4. SearchAgrees(x)'
    BY <1>4, <1>8, <1>10, <1>11, <2>1, <2>2, <2>3 DEF SearchAgrees
  <2> QED
    BY <1>4, <1>5, <2>1, <2>4, MissOne
<1>16. CASE IsLost(n) /\ callback = "resync"
  <2>1. Adds(q, queue', {x}) /\ mac'[n].numLost = 0
    BY <1>1, <1>2, <1>3, <1>16, TimeoutStep
  <2>2. h + Span(0) <= x.at /\ 0 <= m + 1
    BY <1>6, <1>7, <1>8, <1>13, <1>14
  <2>3. SearchAgrees(x)'
    BY <1>4, <1>8, <1>10, <1>11, <2>1, <2>2 DEF SearchAgrees
  <2> QED
    BY <1>4, <1>5, <2>1, <2>3, MissOne
<1>17. CASE IsLost(n) /\ callback # "resync"
  <2>1. Adds(q, queue', {})
    BY <1>1, <1>3, <1>17, TimeoutStep
  <2>2. \A m0 \in Nodes : m0 # n => heardAt'[m0] = heardAt[m0] /\ missed'[m0] = missed[m0]
    BY <1>4
  <2>3. PICK New : New = {}
    OBVIOUS
  <2>4. Adds(q, queue', New) /\ \A y : y \notin New
    BY <2>1, <2>3
  <2> QED
    BY <1>4, <1>5, <2>2, <2>4, MissOne
<1> QED
  BY <1>15, <1>16, <1>17

LEMMA MissOfReception ==
  ASSUME BeaconInv, SenderInv, SearchInv, MissInv, NEW ev \in queue, EndRx(ev)
  PROVE  SearchesAgree'
<1>1. PICK n \in Nodes : n = ev.node
  BY Running
<1>2. PICK from : from = ev.arg
  OBVIOUS
<1>3. PICK q : q = Cancel(queue \ {ev}, n, "SearchTimeout")
  OBVIOUS
<1>4. PICK New : New = ReceptionEvents(n, from, ev.at)
  OBVIOUS
<1>5. /\ Adds(q, queue', New) /\ Only(n) /\ mac'[n] = AfterBeacon(n, from)
      /\ missed' = [missed EXCEPT ![n] = 0] /\ heardAt' = [heardAt EXCEPT ![n] = ev.at]
  BY <1>1, <1>2, <1>3, <1>4, EndRxStep
<1>6. q \subseteq queue /\ \A f \in q : f.do = "SearchTimeout" => f.node # n
  BY <1>3 DEF Cancel
<1>7. mac[from].bitmapSd % NumSuperframes = 0 /\ ev.at \in Nat
  BY <1>2, HeardBeacon, Running
<1>8. /\ missed'[n] = 0 /\ heardAt'[n] = ev.at
      /\ \A m \in Nodes : m # n => heardAt'[m] = heardAt[m] /\ missed'[m] = missed[m]
  BY <1>5 DEF MissInv, SearchInv
<1>9. ASSUME NEW x \in New, x.do = "SearchTimeout" PROVE SearchAgrees(x)'
  <2>1. Kind(x) = "SearchTimeout"
    BY <1>9, KindsOfSender
  <2>2. KeepsSearching(n) /\ x.at = ev.at + NextSearch /\ x.node = n
    BY <1>4, <1>7, <2>1, ReceptionKinds
  <2>3. mac'[n].numLost = 0
    <3>1. PICK m : m = AfterBeacon(n, from)
      OBVIOUS
    <3>2. m.numLost = IF IsRunning(n, "SearchTimeout") THEN 0 ELSE mac[n].numLost
      BY <3>1, AfterBeaconFields
    <3> QED
      BY <1>5, <2>2, <3>1, <3>2 DEF KeepsSearching
  <2>4. NextSearch \in Nat /\ Span(0) = 0
    BY SpanType
  <2> QED
    BY <1>7, <1>8, <2>2, <2>3, <2>4 DEF SearchAgrees
<1> QED
  BY <1>5, <1>6, <1>8, <1>9, MissOne

LEMMA MissStep ==
  ASSUME BeaconInv, SenderInv, SearchInv, MissInv, DelayIsPositive, PanStarts, BI > SD,
         NEW ev \in queue, First(ev), Handler(ev)
  PROVE  MissInv'
<1>1. missed' \in [Nodes -> Nat] /\ PanTxs'
  BY MissTimes
<1>2. CASE EndRx(ev) \/ SyncRequest(ev) \/ BeaconSearchTimeout(ev)
  BY <1>1, <1>2, MissOfReception, MissOfSync, MissOfTimeout DEF MissInv
<1>3. CASE ~EndRx(ev) /\ ~SyncRequest(ev) /\ ~BeaconSearchTimeout(ev)
  <2>1. /\ \A f : Kind(f) \in {"SearchTimeout", "SyncRequest"} => (f \in queue' <=> f \in queue)
        /\ \A m \in Nodes : KeepTrack(m)
    BY <1>3, QuietForSearch
  <2>2. heardAt' = heardAt
    BY <1>3, HandlerKeeps DEF heard
  <2>3. \A n \in Nodes : missed'[n] \in {missed[n], missed[n] + 1} /\ missed[n] \in Nat
    <3>1. CASE StartTx(ev)
      BY <3>1 DEF StartTx, MissInv
    <3>2. CASE ~StartTx(ev)
      BY <1>3, <3>2, HandlerKeeps DEF heard, MissInv
    <3> QED
      BY <3>1, <3>2
  <2>4. ASSUME NEW e \in queue', e.do = "SearchTimeout" PROVE SearchAgrees(e)'
    <3>1. e \in queue /\ SearchAgrees(e)
      BY <2>1, <2>4, KindsOfSender DEF MissInv, SearchesAgree
    <3>2. PICK n \in Nodes : n = e.node
      BY <3>1 DEF BeaconInv, EventInv, EventTypes
    <3>3. mac'[n].numLost = mac[n].numLost /\ heardAt'[n] = heardAt[n]
      BY <2>1, <2>2, <3>2 DEF KeepTrack
    <3>4. mac[n].numLost \in Nat
      BY TrackTypes
    <3>5. mac[n].numLost <= missed'[n] + 1
      BY <2>3, <3>1, <3>2, <3>4 DEF SearchAgrees
    <3> QED
      BY <3>1, <3>2, <3>3, <3>5 DEF SearchAgrees
  <2> QED
    BY <1>1, <2>4 DEF MissInv, SearchesAgree
<1> QED
  BY <1>2, <1>3

LEMMA MissInvariant ==
  ASSUME StartsOnce, PanStarts, BI > SD
  PROVE  Spec /\ []DelayIsPositive => []MissInv
<1>1. ASSUME BeaconInv, SenderInv, SearchInv, MissInv, DelayIsPositive, [Next]_vars PROVE MissInv'
  <2>1. ASSUME NEW ev \in queue, First(ev), Handler(ev) PROVE MissInv'
    BY <1>1, <2>1, MissStep
  <2>2. CASE queue' = queue /\ mac' = mac /\ now' = now /\ UNCHANGED history
    BY <1>1, <2>2 DEF MissInv, PanTxs, TxInTime, NextTx, OfPan, Own, OfSender, SearchesAgree,
       SearchAgrees, history
  <2>3. ASSUME NEW late \in LateEntries, AddDsmeACTEntity(late.node, late.entry) PROVE MissInv'
    BY <2>2, <2>3 DEF AddDsmeACTEntity
  <2>4. CASE UNCHANGED vars
    BY <2>2, <2>4 DEF vars
  <2> QED
    BY <1>1, <2>1, <2>3, <2>4 DEF Next
<1>2. ASSUME Init PROVE MissInv
  <2>1. \A f \in queue : f.do \in {"StartRequest", "SyncRequest"}
    BY <1>2, BootEvents
  <2>2. \A n \in Nodes : missed[n] = 0 /\ heardAt[n] = 0
    BY <1>2 DEF Init
  <2>3. missed \in [Nodes -> Nat] /\ now = 0
    BY <1>2 DEF Init
  <2>4. SearchesAgree
    BY <2>1 DEF SearchesAgree
  <2>5. ASSUME NEW e \in queue, OfPan(e) PROVE TxInTime(NextTx(e))
    <3>1. e.do = "StartRequest"
      BY <2>1, <2>5 DEF OfPan, Own, OfSender, OwnPeriods
    <3>2. NextTx(e) = Turnaround
      BY <3>1, NextTxCases
    <3>3. Turnaround \in Nat /\ Turnaround <= BI /\ BI \in Nat
      BY Lengths
    <3>4. (0 + 1) * BI = BI
      BY <3>3
    <3> QED
      BY <2>2, <2>3, <3>2, <3>3, <3>4 DEF TxInTime
  <2> QED
    BY <2>3, <2>4, <2>5 DEF MissInv, PanTxs
<1> QED
  BY <1>1, <1>2, DsmeInvariant, DsmeSenders, SearchInvariant, PTL DEF Spec

\* While a search runs, m_numLostBeacons is never ahead of the beacons really
\* missed by more than the one that the truncated search time counts at once
\* (lr-wpan-mac.cc:2615), as long as no event was scheduled for the past.  It takes
\* a beacon interval longer than a superframe: otherwise a second part of a CFP,
\* which m_firstCFP may give the PAN coordinator, makes its next beacon late.
THEOREM DsmeLostCount ==
  ASSUME StartsOnce, PanStarts, BI > SD
  PROVE  Spec /\ []DelayIsPositive => []LostCount
<1>1. MissInv => LostCount
  BY DEF MissInv, SearchesAgree, SearchAgrees, LostCount, IsRunning
<1> QED
  BY <1>1, MissInvariant, PTL

\* A loss of synchronisation is reported only after more than aMaxLostBeacons
\* beacons of the PAN coordinator in a row were missed (lr-wpan-mac.cc:1726),
\* as long as no event was scheduled for the past.
THEOREM DsmeLossMeansMisses ==
  ASSUME StartsOnce, PanStarts, BI > SD
  PROVE  Spec /\ []DelayIsPositive => LossMeansMisses
<1> DEFINE Switched == \A n \in Nodes : mac[n].trackingOn /\ ~mac'[n].trackingOn =>
                                          missed[n] > aMaxLostBeacons
<1>1. ASSUME BeaconInv, SenderInv, SearchInv, MissInv, [Next]_vars PROVE [Switched]_vars
  <2>1. ASSUME NEW ev \in queue, First(ev), Handler(ev) PROVE Switched
    <3> SUFFICES ASSUME NEW n \in Nodes, mac[n].trackingOn, ~mac'[n].trackingOn
                 PROVE  missed[n] > aMaxLostBeacons
      OBVIOUS
    <3>1. BeaconSearchTimeout(ev) /\ n = ev.node
      <4>1. CASE ~EndRx(ev) /\ ~SyncRequest(ev) /\ ~BeaconSearchTimeout(ev)
        BY <1>1, <2>1, <4>1, QuietForSearch DEF KeepTrack
      <4>2. CASE EndRx(ev)
        <5>1. PICK m \in Nodes : m = ev.node
          BY <1>1, Running
        <5>2. Only(m) /\ mac'[m] = AfterBeacon(m, ev.arg)
          BY <1>1, <4>2, <5>1, EndRxStep
        <5>3. PICK r : r = AfterBeacon(m, ev.arg)
          OBVIOUS
        <5>4. r.trackingOn = mac[m].trackingOn
          BY <1>1, <5>3, AfterBeaconFields
        <5> QED
          BY <5>2, <5>3, <5>4 DEF Only
      <4>3. CASE SyncRequest(ev)
        BY <1>1, <4>3, SyncStep DEF Only
      <4>4. CASE BeaconSearchTimeout(ev)
        BY <1>1, <4>4, TimeoutStep DEF Only
      <4> QED
        BY <4>1, <4>2, <4>3, <4>4
    <3>2. ev.do = "SearchTimeout"
      BY <3>1 DEF BeaconSearchTimeout, Runs
    <3>3. IsLost(n)
      BY <1>1, <3>1, TimeoutStep
    <3>4. mac[n].numLost <= missed[n]
      BY <1>1, <2>1, <3>1, <3>2, CountIsMissed
    <3>5. mac[n].numLost \in Nat /\ missed[n] \in Nat
      BY <1>1, TrackTypes DEF MissInv
    <3> QED
      BY <3>3, <3>4, <3>5 DEF IsLost, aMaxLostBeacons
  <2>2. ASSUME NEW late \in LateEntries, AddDsmeACTEntity(late.node, late.entry) PROVE Switched
    BY <2>2 DEF AddDsmeACTEntity
  <2> QED
    BY <1>1, <2>1, <2>2 DEF Next
<1> QED
  BY <1>1, DsmeInvariant, DsmeSenders, SearchInvariant, MissInvariant, PTL
  DEF Spec, LossMeansMisses

-----------------------------------------------------------------------------
(* The order of events at the same time *)

LEMMA MaxOfBounded ==
  ASSUME NEW b \in Nat, NEW T \in SUBSET (0..b), T # {}
  PROVE  Max(T) \in T /\ \A y \in T : Max(T) >= y
<1> DEFINE S == 0..b
           Above(x) == {y \in S : y > x}
           C == {Above(x) : x \in T}
           R == StrictSubsetOrdering(S)
<1>1. \A x \in T : Above(x) \in FiniteSubsetsOf(S)
  <2>1. IsFiniteSet(S)
    BY FS_Interval
  <2> QED
    BY <2>1, FS_Subset DEF FiniteSubsetsOf
<1>2. C \subseteq FiniteSubsetsOf(S) /\ C # {}
  BY <1>1
<1>3. IsWellFoundedOn(R, FiniteSubsetsOf(S))
  BY FS_StrictSubsetOrderingWellFounded
<1>4. PICK c \in C : \A d \in C : ~(<<d, c>> \in R)
  <2> HIDE DEF C, R, S
  <2> QED
    BY <1>2, <1>3, WFMin
<1>5. PICK x \in T : c = Above(x)
  OBVIOUS
<1>6. ASSUME NEW y \in T, y > x PROVE FALSE
  <2>1. Above(y) \subseteq Above(x) /\ y \in Above(x) /\ y \notin Above(y)
    BY <1>6
  <2>2. <<Above(y), Above(x)>> \in R
    BY <2>1 DEF StrictSubsetOrdering
  <2> QED
    BY <1>4, <1>5, <2>2
<1>7. \A y \in T : x >= y
  BY <1>6
<1> QED
  BY <1>7 DEF Max

\* The numbers of the events have a bound.
Bounded(q) == \E b \in Nat : \A f \in q : f.uid \in 0..b

LEMMA LastUidOf ==
  ASSUME NEW q, NEW t, NEW b \in Nat, \A f \in q : f.uid \in 0..b
  PROVE  LastUid(q, t) \in 0..b /\ \A f \in q : f.at = t => LastUid(q, t) >= f.uid
<1>1. PICK T : T = {0} \cup {f.uid : f \in {g \in q : g.at = t}}
  OBVIOUS
<1>2. T \in SUBSET (0..b) /\ T # {}
  BY <1>1
<1>3. Max(T) \in T /\ \A y \in T : Max(T) >= y
  BY <1>2, MaxOfBounded
<1>4. LastUid(q, t) = Max(T)
  BY <1>1 DEF LastUid
<1> QED
  BY <1>1, <1>2, <1>3, <1>4

\* Events are numbered after those that are there.
LEMMA ScheduledLast ==
  ASSUME NEW q, Bounded(q), NEW es, NEW K \in Nat, DOMAIN es \subseteq 1..K
  PROVE  /\ Bounded(ScheduleAll(q, es))
         /\ \A f \in ScheduleAll(q, es) : f \notin q => \A g \in q : g.at = f.at => g.uid < f.uid
<1>1. PICK b \in Nat : \A f \in q : f.uid \in 0..b
  BY DEF Bounded
<1>2. ASSUME NEW f \in ScheduleAll(q, es), f \notin q
      PROVE  f.uid \in 0..b + K /\ \A g \in q : g.at = f.at => g.uid < f.uid
  <2>1. PICK k \in DOMAIN es : f = Numbered(es[k], LastUid(q, es[k].at) + k)
    BY <1>2 DEF ScheduleAll
  <2>2. PICK u : u = LastUid(q, es[k].at)
    OBVIOUS
  <2>3. f.at = es[k].at /\ f.uid = u + k
    BY <2>1, <2>2 DEF Numbered
  <2>4. u \in 0..b /\ \A g \in q : g.at = f.at => u >= g.uid
    BY <1>1, <2>2, <2>3, LastUidOf
  <2>5. k \in 1..K
    OBVIOUS
  <2> QED
    BY <1>1, <2>3, <2>4, <2>5
<1>3. \A f \in ScheduleAll(q, es) : f.uid \in 0..b + K
  BY <1>1, <1>2
<1>4. b + K \in Nat
  OBVIOUS
<1> QED
  BY <1>2, <1>3, <1>4 DEF Bounded

-----------------------------------------------------------------------------
(* GTSs *)

SamePlace(x, y) == x.sf = y.sf /\ x.slot = y.slot

\* What is asked of the higher layer: a node's entries are in different slots
\* behind the beacon and the CAP, only devices are given entries later, and a
\* group ACK fits in its slot.
Disciplined ==
  /\ \A reduced \in BOOLEAN : \A table \in Tables[reduced] : \A n \in Nodes :
       /\ \A i \in DOMAIN table[n] : table[n][i].slot <= IF reduced THEN 14 ELSE 6
       /\ \A i, j \in DOMAIN table[n] : SamePlace(table[n][i], table[n][j]) => i = j
       /\ \A late \in LateEntries : \A i \in DOMAIN table[n] :
            late.node = n => ~SamePlace(table[n][i], late.entry)
  /\ \A late \in LateEntries : late.node \in Devices
  /\ \A l, m \in LateEntries : l.node = m.node /\ SamePlace(l.entry, m.entry) => l = m
  /\ GackDelay + GackLen < Slot - EndEarly

\* The tables stay that way.
TablesOk ==
  \A n \in Nodes :
    /\ \A i \in DOMAIN act[n] : act[n][i].slot <= LastSlot
    /\ \A i, j \in DOMAIN act[n] : SamePlace(act[n][i], act[n][j]) => i = j
    /\ \A late \in LateEntries : \A i \in DOMAIN act[n] :
         late.node = n /\ SamePlace(act[n][i], late.entry) => act[n][i] = late.entry

Starts(e) == e.do = "StartGTS"
Ends(e) == e.do = "EndGTS"
Acks(e) == e.do \in {"SendGack", "GackSent"}
SameGts(e, f) == e.node = f.node /\ e.gts = f.gts

\* Each entry that is allocated starts once in the next multisuperframe.
OneStart ==
  /\ \A e, f \in queue : Starts(e) /\ Starts(f) /\ SameGts(e, f) => e = f
  /\ \A e \in queue : Starts(e) => e.gts \in mac[e.node].allocated /\ e.at <= now + MultiLen

AllocatedStart ==
  \A n \in Nodes : n # PanC =>
    \A i \in mac[n].allocated : \E e \in queue : Starts(e) /\ e.node = n /\ e.gts = i

\* A GTS ends in the slot of its last start, and its node has no other one open.
EndOf(f, e) == Starts(e) /\ SameGts(e, f) /\ f.at + MultiLen = e.at + EndGtsTime
OneEnd ==
  /\ \A f \in queue : Ends(f) => \E e \in queue : EndOf(f, e)
  /\ \A e, f \in queue : Ends(e) /\ Ends(f) /\ e.node = f.node => e = f

\* A GTS that has begun and is not over has its end scheduled.
StillOpen ==
  \A e \in queue : Starts(e) /\ now + MultiLen < e.at + EndGtsTime =>
    \E f \in queue : Ends(f) /\ SameGts(e, f)

\* A group ACK is sent within a GTS of its own.
AckOf(g, f) ==
  /\ Ends(f) /\ SameGts(g, f)
  /\ g.at + EndGtsTime = f.at + GackTime + IF g.do = "SendGack" THEN 0 ELSE GackLen
OneAck ==
  /\ \A g \in queue : Acks(g) => ~act[g.node][g.gts].rx /\ \E f \in queue : AckOf(g, f)
  /\ \A g, h \in queue : Acks(g) /\ Acks(h) /\ g.node = h.node => g = h

CellInv == TablesOk /\ OneStart /\ AllocatedStart /\ OneEnd /\ StillOpen /\ OneAck

\* The MAC of a node in a GTS, and of one that is in none.
InGts(f) ==
  LET n == f.node
  IN /\ mac[n].gts = f.gts /\ mac[n].state \in {"GTS", "GTS_SENDING"}
     /\ mac[n].state = "GTS_SENDING" => \E g \in queue : g.do = "GackSent" /\ g.node = n
     /\ act[n][f.gts].rx => mac[n].rxOn

InNoGts(n) ==
  /\ mac[n].channel = CapChannel
  /\ \/ mac[n].state = "IDLE" /\ mac[n].rxOn
     \/ /\ mac[n].state \in {"IDLE", "SENDING"}
        /\ \E e \in queue : e.do \in {"StartTx", "EndTx"} /\ e.node = n

RadioOk(n) ==
  /\ \A f \in queue : Ends(f) /\ f.node = n => InGts(f)
  /\ (\A f \in queue : Ends(f) => f.node # n) => InNoGts(n)

\* Beacons start with a superframe, and so does the MAC that waits for its first one.
GridInv ==
  /\ \A n \in Nodes : OnGrid(mac[n].bcnStart, SD, 0) /\ mac[n].bcnStart <= now
  /\ \A e \in queue : e.do = "SetIdle" => e.node \in Coords /\ OnGrid(e.at, SD, 0)

RadioInv == \A n \in Nodes : RadioOk(n)

\* The number that the nodes took from the PAN coordinator's last beacon.
PanSends == \E e \in queue : e.do = "StartTx" /\ e.node = PanC
LastBsn == (mac[PanC].bsn - IF PanSends THEN 2 ELSE 1) % 256

\* A node that heard that beacon, and its radio in a GTS.
FreshOk(n) ==
  /\ n # PanC /\ missed[n] = 0 /\ mac[n].bsn = LastBsn
  /\ \A f \in queue : Ends(f) /\ f.node = n => mac[n].channel = Hop(n, act[n][f.gts])

FreshInv == (fresh # {} => now > 0) /\ \A n \in fresh : FreshOk(n)

-----------------------------------------------------------------------------
(* The slots of a multisuperframe *)

\* The slot of a superframe in which its first GTS begins.
FirstSlot == IF capReduction THEN 1 ELSE 9

\* The slot in which an entry begins, k multisuperframes after the start.
SlotOf(k, x) == 16 * (k * NumSuperframes + x.sf) + x.slot + FirstSlot

LEMMA GtsLengths ==
  /\ EndGtsTime \in Nat /\ EndGtsTime > 0 /\ EndGtsTime < Slot /\ GackTime = GackDelay
  /\ MultiLen = (16 * NumSuperframes) * Slot /\ MultiLen \in Nat /\ MultiLen >= 16 * Slot
  /\ NumSuperframes \in Nat /\ NumSuperframes > 0 /\ Slot \in Nat /\ Slot > 0
  /\ GackDelay \in Nat /\ GackLen \in Nat
<1>1. SD = 16 * Slot /\ Slot \in Nat /\ Slot > 0 /\ SD \in Nat
  BY Lengths
<1>2. EndEarly \in Nat /\ EndEarly > 0 /\ EndEarly < Slot /\ NumSuperframes \in Nat
      /\ NumSuperframes > 0 /\ GackDelay \in Nat /\ GackLen \in Nat
  BY DsmeDurations
<1>3. EndGtsTime = Slot - EndEarly /\ GackTime = GackDelay
  BY DEF EndGtsTime, GackTime
<1>4. MultiLen = (16 * NumSuperframes) * Slot
  BY <1>1, <1>2 DEF MultiLen
<1>5. MultiLen \in Nat /\ MultiLen >= SD
  BY Durations
<1> QED
  BY <1>1, <1>2, <1>3, <1>4, <1>5

LEMMA EntryTypes ==
  ASSUME BeaconInv, TablesOk, NEW n \in Nodes, NEW i \in DOMAIN act[n]
  PROVE  LET x == act[n][i]
         IN /\ x.sf \in Nat /\ x.sf < NumSuperframes /\ x.slot \in Nat /\ x.rx \in BOOLEAN
            /\ FirstSlot \in {1, 9} /\ x.slot + FirstSlot <= 15
<1>1. PICK x \in Entries : x = act[n][i]
  BY DEF BeaconInv, TypeOK
<1>2. x.sf \in 0..NumSuperframes - 1 /\ x.slot \in Nat /\ x.rx \in BOOLEAN
  BY <1>1 DEF Entries
<1>3. x.slot <= LastSlot
  BY <1>1 DEF TablesOk
<1>4. x.slot + FirstSlot <= 15 /\ FirstSlot \in {1, 9}
  BY <1>2, <1>3 DEF LastSlot, FirstSlot
<1> QED
  BY <1>1, <1>2, <1>4, GtsLengths

LEMMA OffsetIsSlot ==
  ASSUME BeaconInv, TablesOk, NEW n \in Nodes, NEW i \in DOMAIN act[n]
  PROVE  /\ GtsOffset(act[n][i]) = SlotOf(0, act[n][i]) * Slot
         /\ GtsOffset(act[n][i]) \in Nat /\ GtsOffset(act[n][i]) + Slot <= MultiLen
         /\ GtsOffset(act[n][i]) >= Slot
<1>1. PICK x : x = act[n][i]
  OBVIOUS
<1>2. PICK s \in Nat : s = x.sf /\ s < NumSuperframes
  BY <1>1, EntryTypes
<1>3. PICK v \in Nat : v = x.slot /\ FirstSlot \in {1, 9} /\ v + FirstSlot <= 15
  BY <1>1, EntryTypes
<1>4. SD = 16 * Slot /\ Slot \in Nat /\ CapLen = 9 * Slot
  BY Lengths
<1>5. GtsOffset(x) = s * SD + FirstSlot * Slot + v * Slot
  BY <1>2, <1>3, <1>4 DEF GtsOffset, FirstSlot
<1>6. PICK w \in Nat : w = 16 * s + v + FirstSlot
  BY <1>2, <1>3
<1>7. GtsOffset(x) = w * Slot
  BY <1>2, <1>3, <1>4, <1>5, <1>6
<1>8. SlotOf(0, x) = w
  BY <1>2, <1>3, <1>6, GtsLengths DEF SlotOf
<1>9. PICK N \in Nat : N = NumSuperframes
  BY GtsLengths
<1>10. 16 * N - w \in Nat /\ 16 * N - w > 0 /\ w > 0
  BY <1>2, <1>3, <1>6, <1>9
<1>11. (16 * N - w) * Slot >= Slot /\ w * Slot >= Slot /\ w * Slot \in Nat
  BY <1>4, <1>6, <1>10, Product
<1>12. (16 * N) * Slot = w * Slot + (16 * N - w) * Slot
  BY <1>4, <1>6, <1>9
<1>13. w * Slot + Slot <= MultiLen
  <2>1. PICK a \in Int : a = w * Slot
    BY <1>4, <1>6
  <2>2. PICK b \in Int : b = (16 * N - w) * Slot
    BY <1>4, <1>10
  <2>3. MultiLen = a + b /\ b >= Slot /\ Slot \in Nat
    BY <1>4, <1>9, <1>11, <1>12, <2>1, <2>2, GtsLengths
  <2> QED
    BY <2>1, <2>3
<1> QED
  BY <1>1, <1>7, <1>8, <1>11, <1>13

\* Every node's GTSs are in their cells.
LEMMA StartPlace ==
  ASSUME Disciplined, BeaconInv, TablesOk, NEW e \in queue, Starts(e)
  PROVE  \E k \in Nat : e.at = SlotOf(k, act[e.node][e.gts]) * Slot + Lateness(e.node)
<1>1. PICK n \in Nodes : n = e.node
  BY Running
<1>2. PICK i \in DOMAIN act[n] : i = e.gts
  BY <1>1, Running DEF EventTypes, GtsHandlers, Starts
<1>3. n \in Devices \/ Complete(n)
  BY DEF Disciplined, Complete
<1>4. OnGrid(e.at, MultiLen, Lateness(n) + GtsOffset(act[n][i]))
  BY <1>1, <1>2, <1>3, Running DEF EventInCell, Starts
<1>5. PICK k \in Nat : e.at = k * MultiLen + (Lateness(n) + GtsOffset(act[n][i]))
  BY <1>4 DEF OnGrid
<1>6. PICK o : o = SlotOf(0, act[n][i])
  OBVIOUS
<1>7. PICK x : x = act[n][i]
  OBVIOUS
<1>8. x.sf \in Nat /\ x.slot \in Nat /\ FirstSlot \in Nat
  BY <1>7, EntryTypes
<1>9. PICK N \in Nat : N = NumSuperframes
  BY GtsLengths
<1>10. PICK b \in Nat : b = k * N
  BY <1>9
<1>11. o = 16 * x.sf + x.slot + FirstSlot
  BY <1>6, <1>7, <1>8, <1>9 DEF SlotOf
<1>12. SlotOf(k, x) = 16 * b + o /\ o \in Nat
  BY <1>8, <1>9, <1>10, <1>11 DEF SlotOf
<1>13. k * MultiLen = (16 * b) * Slot
  BY <1>9, <1>10, GtsLengths
<1>14. (16 * b + o) * Slot = (16 * b) * Slot + o * Slot
  BY <1>12, GtsLengths
<1>15. Lateness(n) \in Nat
  BY Durations DEF Lateness
<1>16. PICK p \in Int : p = (16 * b) * Slot
  BY GtsLengths
<1>17. PICK r \in Int : r = o * Slot
  BY <1>12, GtsLengths
<1>18. GtsOffset(act[n][i]) = r
  BY <1>6, <1>17, OffsetIsSlot
<1>19. e.at = p + (Lateness(n) + r)
  BY <1>5, <1>13, <1>16, <1>18
<1>20. SlotOf(k, x) * Slot = p + r
  BY <1>12, <1>14, <1>16, <1>17
<1>21. e.at = SlotOf(k, x) * Slot + Lateness(n)
  BY <1>15, <1>19, <1>20
<1> QED
  BY <1>1, <1>2, <1>7, <1>21

\* Slots do not overlap.
LEMMA SlotOrder ==
  ASSUME NEW s \in Int, NEW t \in Int
  PROVE  /\ s * Slot \in Int /\ t * Slot \in Int
         /\ s < t => s * Slot + Slot <= t * Slot
         /\ s <= t => s * Slot <= t * Slot
         /\ \A d \in Int : d < Slot /\ s * Slot <= t * Slot + d => s <= t
<1>1. Slot \in Nat /\ Slot > 0
  BY GtsLengths
<1>2. PICK a \in Int : a = s * Slot
  BY <1>1
<1>3. PICK b \in Int : b = t * Slot
  BY <1>1
<1>4. ASSUME NEW x \in Int, NEW y \in Int, x < y PROVE x * Slot + Slot <= y * Slot
  <2>1. y - x \in Nat /\ y - x > 0
    BY <1>4
  <2>2. (y - x) * Slot >= Slot
    BY <1>1, <2>1, Product
  <2>3. (y - x) * Slot = y * Slot - x * Slot
    BY <1>1
  <2>4. PICK c \in Int : c = x * Slot
    BY <1>1
  <2>5. PICK d \in Int : d = y * Slot
    BY <1>1
  <2>6. d - c >= Slot
    BY <2>2, <2>3, <2>4, <2>5
  <2> QED
    BY <1>1, <2>4, <2>5, <2>6
<1>5. s < t => s * Slot + Slot <= t * Slot
  BY <1>4
<1>6. s <= t => s * Slot <= t * Slot
  <2>1. CASE s < t
    BY <1>1, <1>2, <1>3, <1>5, <2>1
  <2>2. CASE s = t
    BY <1>2, <2>2
  <2> QED
    BY <2>1, <2>2
<1>7. ASSUME NEW d \in Int, d < Slot, a <= b + d, s > t PROVE FALSE
  <2>1. b + Slot <= a
    BY <1>2, <1>3, <1>4, <1>7
  <2> QED
    BY <1>1, <1>7, <2>1
<1> QED
  BY <1>1, <1>2, <1>3, <1>5, <1>6, <1>7

LEMMA DivUnique ==
  ASSUME NEW N \in Nat, NEW j \in Int, NEW k \in Int, NEW a \in Int, NEW b \in Int,
         0 <= a, a < N, 0 <= b, b < N, j * N + a = k * N + b
  PROVE  j = k /\ a = b
<1>1. ASSUME NEW x \in Int, NEW y \in Int, x < y PROVE x * N + N <= y * N
  <2>1. y - x \in Nat /\ y - x > 0
    BY <1>1
  <2>2. (y - x) * N >= N
    BY <2>1, Product
  <2>3. (y - x) * N = y * N - x * N
    OBVIOUS
  <2>4. PICK c \in Int : c = x * N
    OBVIOUS
  <2>5. PICK d \in Int : d = y * N
    OBVIOUS
  <2>6. d - c >= N
    BY <2>2, <2>3, <2>4, <2>5
  <2> QED
    BY <2>4, <2>5, <2>6
<1>2. PICK c \in Int : c = j * N
  OBVIOUS
<1>3. PICK d \in Int : d = k * N
  OBVIOUS
<1>4. c + a = d + b
  BY <1>2, <1>3
<1>5. ~(j < k)
  <2>1. j < k => c + N <= d
    BY <1>1, <1>2, <1>3
  <2> QED
    BY <1>4, <2>1
<1>6. ~(k < j)
  <2>1. k < j => d + N <= c
    BY <1>1, <1>2, <1>3
  <2> QED
    BY <1>4, <2>1
<1>7. j = k
  BY <1>5, <1>6
<1> QED
  BY <1>2, <1>3, <1>4, <1>7

LEMMA SlotOfType ==
  ASSUME BeaconInv, TablesOk, NEW n \in Nodes, NEW i \in DOMAIN act[n], NEW k \in Int
  PROVE  LET x == act[n][i]
         IN /\ SlotOf(k, x) \in Int
            /\ k * NumSuperframes + x.sf \in Int /\ x.slot + FirstSlot \in 1..15
            /\ SlotOf(k, x) = 16 * (k * NumSuperframes + x.sf) + (x.slot + FirstSlot)
            /\ SlotOf(k, x) * Slot \in Int
            /\ SlotOf(k, x) * Slot - MultiLen = SlotOf(k - 1, x) * Slot
<1>1. PICK x : x = act[n][i]
  OBVIOUS
<1>2. x.sf \in Nat /\ x.slot \in Nat /\ FirstSlot \in {1, 9} /\ x.slot + FirstSlot <= 15
  BY <1>1, EntryTypes
<1>3. PICK N \in Nat : N = NumSuperframes
  BY GtsLengths
<1>4. PICK b \in Int : b = k * N
  OBVIOUS
<1>5. (k - 1) * N = b - N
  BY <1>4
<1>6. PICK w \in Int : w = SlotOf(k, x)
  BY <1>2, <1>3, <1>4 DEF SlotOf
<1>7. w = 16 * (b + x.sf) + (x.slot + FirstSlot)
  BY <1>2, <1>3, <1>4, <1>6 DEF SlotOf
<1>8. SlotOf(k - 1, x) = w - 16 * N
  BY <1>2, <1>3, <1>5, <1>7 DEF SlotOf
<1>9. (w - 16 * N) * Slot = w * Slot - (16 * N) * Slot
  BY GtsLengths
<1>10. w * Slot \in Int /\ w * Slot - MultiLen = SlotOf(k - 1, x) * Slot
  BY <1>3, <1>8, <1>9, GtsLengths
<1>11. b + x.sf \in Int /\ x.slot + FirstSlot \in 1..15
  BY <1>2
<1> QED
  BY <1>1, <1>3, <1>4, <1>6, <1>7, <1>10, <1>11

\* An open GTS has begun in its slot.
LEMMA OpenPlace ==
  ASSUME Disciplined, BeaconInv, CellInv, NEW f \in queue, Ends(f)
  PROVE  /\ f.node \in Nodes /\ f.gts \in DOMAIN act[f.node] /\ f.node # PanC
         /\ \E k \in Int :
              LET start == SlotOf(k, act[f.node][f.gts]) * Slot + Lateness(f.node)
              IN start \in Int /\ start <= now /\ f.at = start + EndGtsTime
<1>1. PICK n \in Nodes : n = f.node
  BY Running
<1>2. PICK i \in DOMAIN act[n] : i = f.gts
  BY <1>1, Running DEF EventTypes, GtsHandlers, Ends
<1>3. PICK e \in queue : EndOf(f, e)
  BY DEF CellInv, OneEnd
<1>4. Starts(e) /\ e.node = n /\ e.gts = i /\ f.at + MultiLen = e.at + EndGtsTime
  BY <1>1, <1>2, <1>3 DEF EndOf, SameGts
<1>5. PICK k \in Nat : e.at = SlotOf(k, act[n][i]) * Slot + Lateness(n)
  BY <1>4, StartPlace DEF CellInv
<1>6. PICK w \in Int : w = SlotOf(k, act[n][i]) * Slot
  BY SlotOfType DEF CellInv
<1>7. w - MultiLen = SlotOf(k - 1, act[n][i]) * Slot
  BY <1>6, SlotOfType DEF CellInv
<1>8. Lateness(n) \in Nat /\ MultiLen \in Nat /\ EndGtsTime \in Nat /\ now \in Nat /\ f.at \in Nat
  BY Durations, Running DEF Lateness, BeaconInv, TypeOK
<1>9. e.at <= now + MultiLen
  BY <1>4 DEF CellInv, OneStart
<1>10. PICK s \in Int : s = w - MultiLen + Lateness(n)
  BY <1>6, <1>8
<1>11. s <= now /\ f.at = s + EndGtsTime
  BY <1>4, <1>5, <1>6, <1>8, <1>9, <1>10
<1>12. s = SlotOf(k - 1, act[n][i]) * Slot + Lateness(n)
  BY <1>7, <1>10
<1>13. n # PanC
  BY <1>4, Running DEF EventInCell, Starts
<1>14. k - 1 \in Int
  OBVIOUS
<1> QED
  BY <1>1, <1>2, <1>11, <1>12, <1>13, <1>14

\* At the times of beacons a node is in no GTS; a device is late with both.
LEMMA NoGtsAtBeacon ==
  ASSUME Disciplined, BeaconInv, CellInv, NEW ev \in queue, First(ev), DelayIsPositive,
         NEW n \in Nodes, NEW k \in Nat, NEW d \in Nat, d < Slot,
         ev.at = k * SD + Lateness(n) + d
  PROVE  \A f \in queue : Ends(f) => f.node # n
<1> SUFFICES ASSUME NEW f \in queue, Ends(f), f.node = n PROVE FALSE
  OBVIOUS
<1>1. PICK i \in DOMAIN act[n] : i = f.gts
  BY OpenPlace
<1>2. PICK j \in Int : LET start == SlotOf(j, act[n][i]) * Slot + Lateness(n)
                       IN start \in Int /\ start <= now /\ f.at = start + EndGtsTime
  BY <1>1, OpenPlace
<1>3. PICK u \in Int, v \in 1..15 : SlotOf(j, act[n][i]) = 16 * u + v
  <2>1. TablesOk
    BY DEF CellInv
  <2>2. PICK u \in Int : u = j * NumSuperframes + act[n][i].sf
    BY <2>1, SlotOfType
  <2>3. PICK v \in 1..15 : v = act[n][i].slot + FirstSlot
    BY <2>1, SlotOfType
  <2>4. SlotOf(j, act[n][i]) = 16 * u + v
    BY <2>1, <2>2, <2>3, SlotOfType
  <2> QED
    BY <2>4
<1>4. PICK w \in Int : w = 16 * u + v
  OBVIOUS
<1>5. PICK a \in Int : a = w * Slot
  BY SlotOrder
<1>6. Lateness(n) \in Nat /\ EndGtsTime \in Nat /\ now \in Nat /\ ev.at \in Nat
  <2>1. Lateness(n) \in Nat
    BY Lengths DEF Lateness
  <2>2. now \in Nat
    BY Durations DEF BeaconInv, TypeOK
  <2> QED
    BY <2>1, <2>2, GtsLengths, Running
<1>7. a + Lateness(n) <= now /\ f.at = a + Lateness(n) + EndGtsTime
  BY <1>2, <1>3, <1>4, <1>5
<1>8. now <= ev.at /\ ev.at <= f.at
  BY FirstIsFirst DEF DelayIsPositive
<1>9. PICK t \in Int : t = 16 * k
  OBVIOUS
<1>10. k * SD = t * Slot
  BY <1>9, Lengths
<1>11. PICK b \in Int : b = t * Slot
  BY SlotOrder
<1>12. ev.at = b + Lateness(n) + d
  BY <1>10, <1>11
<1>13. a <= b + d
  BY <1>5, <1>6, <1>7, <1>8, <1>11, <1>12
<1>14. w <= t
  BY <1>5, <1>11, <1>13, SlotOrder
<1>15. w < t
  BY <1>4, <1>9, <1>14
<1>16. a + Slot <= b
  BY <1>5, <1>11, <1>15, SlotOrder
<1>17. EndGtsTime < Slot /\ Slot \in Nat
  BY GtsLengths
<1> QED
  BY <1>5, <1>6, <1>7, <1>8, <1>11, <1>12, <1>16, <1>17

-----------------------------------------------------------------------------
(* GTSs never overlap *)

LEMMA GtsKinds ==
  ASSUME NEW e
  PROVE  /\ Starts(e) \/ Ends(e) \/ Acks(e) => Kind(e) = "gts"
         /\ Kind(e) = "gts" => Starts(e) \/ Ends(e) \/ Acks(e)
         /\ ~(Starts(e) /\ Ends(e)) /\ ~(Starts(e) /\ Acks(e)) /\ ~(Ends(e) /\ Acks(e))
BY KindsOfSender DEF Starts, Ends, Acks, GtsHandlers

LEMMA TablesStay ==
  ASSUME TablesOk, act' = act, capReduction' = capReduction
  PROVE  TablesOk'
BY DEF TablesOk, LastSlot

\* A step that has nothing to do with GTSs.
LEMMA CellFrame ==
  ASSUME BeaconInv, CellInv, \A f : Kind(f) = "gts" => (f \in queue' <=> f \in queue),
         \A m \in Nodes : KeepTable(m), act' = act, capReduction' = capReduction,
         now' \in Nat, now' >= now
  PROVE  CellInv'
<1>1. \A f : Starts(f) \/ Ends(f) \/ Acks(f) => (f \in queue' <=> f \in queue)
  BY GtsKinds
<1>2. TablesOk'
  BY TablesStay DEF CellInv
<1>3. now \in Nat /\ MultiLen \in Nat /\ EndGtsTime \in Nat
  BY Durations DEF BeaconInv, TypeOK
<1>4. OneStart'
  <2>1. ASSUME NEW e \in queue', Starts(e)
        PROVE  e.gts \in mac'[e.node].allocated /\ e.at <= now' + MultiLen
    <3>1. e \in queue /\ e.node \in Nodes /\ e.at \in Nat
      BY <1>1, <2>1, Running
    <3>2. e.gts \in mac[e.node].allocated /\ e.at <= now + MultiLen
      BY <2>1, <3>1 DEF CellInv, OneStart
    <3> QED
      BY <1>3, <3>1, <3>2 DEF KeepTable
  <2> QED
    BY <1>1, <2>1 DEF CellInv, OneStart
<1>5. AllocatedStart'
  BY <1>1 DEF CellInv, AllocatedStart, KeepTable
<1>6. OneEnd'
  BY <1>1 DEF CellInv, OneEnd, EndOf
<1>7. StillOpen'
  <2> SUFFICES ASSUME NEW e \in queue', Starts(e), now' + MultiLen < e.at + EndGtsTime
               PROVE  \E f \in queue' : Ends(f) /\ SameGts(e, f)
    BY DEF StillOpen, SameGts
  <2>1. e \in queue /\ e.at \in Nat
    BY <1>1, Running
  <2>2. now + MultiLen < e.at + EndGtsTime
    BY <1>3, <2>1
  <2> QED
    BY <1>1, <2>1, <2>2 DEF CellInv, StillOpen
<1>8. OneAck'
  BY <1>1 DEF CellInv, OneAck, AckOf, Ends
<1> QED
  BY <1>2, <1>4, <1>5, <1>6, <1>7, <1>8 DEF CellInv

\* What ScheduleGts schedules.
LEMMA GtsItemsPlace ==
  ASSUME BeaconInv, TablesOk, NEW n \in Nodes, NEW t \in Nat, NEW x \in GtsItems(n, t)
  PROVE  /\ Starts(x) /\ x.node = n /\ x.gts \in DOMAIN act[n] /\ x.gts \notin mac[n].allocated
         /\ x.at \in Nat /\ x.at + Slot <= t + MultiLen
<1>1. PICK i \in ToSchedule(n) : x = GtsEvent(t + GtsOffset(act[n][i]), n, "StartGTS", i)
  BY DEF GtsItems
<1>2. i \in DOMAIN act[n] /\ i \notin mac[n].allocated
  BY DEF ToSchedule
<1>3. PICK o \in Nat : o = GtsOffset(act[n][i]) /\ o + Slot <= MultiLen
  BY <1>2, OffsetIsSlot
<1>4. x.at = t + o /\ x.do = "StartGTS" /\ x.node = n /\ x.gts = i
  BY <1>1, <1>3 DEF GtsEvent
<1>5. MultiLen \in Nat /\ Slot \in Nat
  BY GtsLengths
<1> QED
  BY <1>2, <1>3, <1>4, <1>5 DEF Starts

LEMMA CellScheduled ==
  ASSUME BeaconInv, CellInv, NEW n \in Nodes, n # PanC, NEW t \in Nat, now' = t, t >= now,
         NEW q, q \subseteq queue, \A f \in queue : Kind(f) = "gts" => f \in q,
         NEW New, Adds(q, queue', New), \A x \in New : Kind(x) = "gts" => x \in GtsItems(n, t),
         GtsItems(n, t) \subseteq New,
         Only(n), mac'[n].allocated = DOMAIN act[n], act' = act, capReduction' = capReduction
  PROVE  CellInv'
<1>0. TablesOk
  BY DEF CellInv
<1>1. TablesOk'
  BY <1>0, TablesStay
<1>2. now \in Nat /\ MultiLen \in Nat /\ EndGtsTime \in Nat /\ EndGtsTime < Slot /\ Slot \in Nat
  BY Durations, GtsLengths DEF BeaconInv, TypeOK
<1>3. \A f \in queue : Starts(f) \/ Ends(f) \/ Acks(f) => f \in queue'
  BY GtsKinds DEF Adds
<1>4. ASSUME NEW f \in queue', Starts(f) \/ Ends(f) \/ Acks(f), f \notin queue
      PROVE  /\ Starts(f) /\ f.node = n /\ f.gts \in DOMAIN act[n] /\ f.gts \notin mac[n].allocated
             /\ f.at \in Nat /\ f.at + Slot <= t + MultiLen
  <2>1. PICK x \in New : Like(f, x)
    BY <1>4 DEF Adds
  <2>2. Kind(x) = "gts"
    BY <1>4, <2>1, GtsKinds, LikeKinds
  <2>3. x \in GtsItems(n, t)
    BY <2>2
  <2>4. /\ Starts(x) /\ x.node = n /\ x.gts \in DOMAIN act[n] /\ x.gts \notin mac[n].allocated
        /\ x.at \in Nat /\ x.at + Slot <= t + MultiLen
    BY <1>0, <2>3, GtsItemsPlace
  <2> QED
    BY <2>1, <2>4, LikeKinds DEF Starts
<1>5. ASSUME NEW f \in queue', Ends(f) \/ Acks(f) PROVE f \in queue
  BY <1>4, <1>5, GtsKinds
<1>6. ASSUME NEW f \in queue', NEW g \in queue', f \notin queue, g \notin queue, Like(f, g) PROVE f = g
  BY <1>6 DEF Adds
<1>7. \A e, f \in queue' : Starts(e) /\ Starts(f) /\ SameGts(e, f) => e = f
  <2> SUFFICES ASSUME NEW e \in queue', NEW f \in queue', Starts(e), Starts(f), SameGts(e, f)
               PROVE  e = f
    OBVIOUS
  <2>1. CASE e \in queue /\ f \in queue
    BY <2>1 DEF CellInv, OneStart
  <2>2. CASE e \in queue /\ f \notin queue
    <3>1. f.node = n /\ f.gts \notin mac[n].allocated
      BY <1>4, <2>2
    <3> QED
      BY <2>2, <3>1 DEF CellInv, OneStart, SameGts
  <2>3. CASE e \notin queue /\ f \in queue
    <3>1. e.node = n /\ e.gts \notin mac[n].allocated
      BY <1>4, <2>3
    <3> QED
      BY <2>3, <3>1 DEF CellInv, OneStart, SameGts
  <2>4. CASE e \notin queue /\ f \notin queue
    <3>1. PICK x \in New : Like(e, x)
      BY <2>4 DEF Adds
    <3>2. PICK y \in New : Like(f, y)
      BY <2>4 DEF Adds
    <3>3. x \in GtsItems(n, t) /\ y \in GtsItems(n, t) /\ x.gts = e.gts /\ y.gts = f.gts
      BY <3>1, <3>2, LikeKinds, GtsKinds
    <3>4. x = y
      BY <3>3 DEF GtsItems, GtsEvent, SameGts
    <3>5. Like(e, f)
      BY <3>1, <3>2, <3>4 DEF Like
    <3> QED
      BY <1>6, <2>4, <3>5
  <2> QED
    BY <2>1, <2>2, <2>3, <2>4
<1>8. ASSUME NEW e \in queue', Starts(e)
      PROVE  e.gts \in mac'[e.node].allocated /\ e.at <= now' + MultiLen
  <2>1. CASE e \in queue
    <3>1. e.node \in Nodes /\ e.at \in Nat /\ e.gts \in DOMAIN act[e.node]
      BY <1>8, <2>1, Running DEF EventTypes, GtsHandlers, Starts
    <3>2. e.gts \in mac[e.node].allocated /\ e.at <= now + MultiLen
      BY <1>8, <2>1 DEF CellInv, OneStart
    <3>3. e.at <= now' + MultiLen
      BY <1>2, <3>1, <3>2
    <3> QED
      BY <3>1, <3>2, <3>3 DEF Only
  <2>2. CASE e \notin queue
    <3>1. /\ e.node = n /\ e.gts \in DOMAIN act[n] /\ e.at \in Nat /\ e.at + Slot <= t + MultiLen
      BY <1>4, <1>8, <2>2
    <3>2. e.at <= now' + MultiLen
      BY <1>2, <3>1
    <3> QED
      BY <3>1, <3>2
  <2> QED
    BY <2>1, <2>2
<1>9. OneStart'
  BY <1>7, <1>8 DEF OneStart
<1>10. AllocatedStart'
  <2> SUFFICES ASSUME NEW m \in Nodes, m # PanC, NEW i \in mac'[m].allocated
               PROVE  \E e \in queue' : Starts(e) /\ e.node = m /\ e.gts = i
    BY DEF AllocatedStart
  <2>1. CASE i \in mac[m].allocated
    BY <1>3, <2>1 DEF CellInv, AllocatedStart
  <2>2. CASE i \notin mac[m].allocated
    <3>1. m = n /\ i \in ToSchedule(n)
      BY <2>2 DEF Only, ToSchedule
    <3>2. PICK x : x = GtsEvent(t + GtsOffset(act[n][i]), n, "StartGTS", i)
      OBVIOUS
    <3>3. x \in New /\ x.node = n /\ x.gts = i /\ x.do = "StartGTS"
      BY <3>1, <3>2 DEF GtsItems, GtsEvent
    <3>4. PICK f \in queue' : Like(f, x)
      BY <3>3 DEF Adds
    <3> QED
      BY <3>1, <3>3, <3>4 DEF Like, Starts
  <2> QED
    BY <2>1, <2>2
<1>11. OneEnd'
  <2>1. ASSUME NEW f \in queue', Ends(f) PROVE \E e \in queue' : EndOf(f, e)
    <3>1. PICK e \in queue : EndOf(f, e)
      BY <1>5, <2>1 DEF CellInv, OneEnd
    <3> QED
      BY <1>3, <3>1 DEF EndOf
  <2>2. \A e, f \in queue' : Ends(e) /\ Ends(f) /\ e.node = f.node => e = f
    BY <1>5 DEF CellInv, OneEnd
  <2> QED
    BY <2>1, <2>2 DEF OneEnd, EndOf
<1>12. StillOpen'
  <2> SUFFICES ASSUME NEW e \in queue', Starts(e), now' + MultiLen < e.at + EndGtsTime
               PROVE  \E f \in queue' : Ends(f) /\ SameGts(e, f)
    BY DEF StillOpen, SameGts
  <2>1. CASE e \notin queue
    <3>1. e.at \in Nat /\ e.at + Slot <= t + MultiLen
      BY <1>4, <2>1
    <3> QED
      BY <1>2, <3>1
  <2>2. CASE e \in queue
    <3>1. e.at \in Nat
      BY <2>2, Running
    <3>2. now + MultiLen < e.at + EndGtsTime
      BY <1>2, <3>1
    <3> QED
      BY <1>3, <2>2, <3>2 DEF CellInv, StillOpen
  <2> QED
    BY <2>1, <2>2
<1>13. OneAck'
  <2>1. ASSUME NEW g \in queue', Acks(g)
        PROVE  ~act'[g.node][g.gts].rx /\ \E f \in queue' : AckOf(g, f)
    <3>1. g \in queue /\ ~act[g.node][g.gts].rx
      BY <1>5, <2>1 DEF CellInv, OneAck
    <3>2. PICK f \in queue : AckOf(g, f)
      BY <2>1, <3>1 DEF CellInv, OneAck
    <3> QED
      BY <1>3, <3>1, <3>2 DEF AckOf
  <2>2. \A g, h \in queue' : Acks(g) /\ Acks(h) /\ g.node = h.node => g = h
    BY <1>5 DEF CellInv, OneAck
  <2> QED
    BY <2>1, <2>2 DEF OneAck, AckOf
<1> QED
  BY <1>1, <1>9, <1>10, <1>11, <1>12, <1>13 DEF CellInv

\* When a GTS starts, its node has none open.
LEMMA NothingOpen ==
  ASSUME Disciplined, BeaconInv, CellInv, DelayIsPositive, NEW ev \in queue, First(ev), Starts(ev)
  PROVE  \A f \in queue : Ends(f) => f.node # ev.node
<1> SUFFICES ASSUME NEW f \in queue, Ends(f), f.node = ev.node PROVE FALSE
  OBVIOUS
<1>0. TablesOk
  BY DEF CellInv
<1>1. PICK n \in Nodes : n = ev.node
  BY Running
<1>2. PICK i \in DOMAIN act[n] : i = ev.gts
  BY <1>1, Running DEF EventTypes, GtsHandlers, Starts
<1>3. PICK j \in DOMAIN act[n] : j = f.gts
  BY <1>1, OpenPlace
<1>4. /\ EndGtsTime \in Nat /\ EndGtsTime < Slot /\ Slot \in Nat /\ MultiLen \in Nat
      /\ MultiLen >= 16 * Slot
  BY GtsLengths
<1>5. /\ ev.at \in Nat /\ f.at \in Nat /\ f.at >= ev.at /\ now <= ev.at /\ now \in Nat
      /\ Lateness(n) \in Nat
  <2>1. now \in Nat
    BY Durations DEF BeaconInv, TypeOK
  <2>2. Lateness(n) \in Nat
    BY Lengths DEF Lateness
  <2> QED
    BY <2>1, <2>2, FirstIsFirst DEF DelayIsPositive
<1>6. i # j
  <2>1. PICK e \in queue : EndOf(f, e)
    BY DEF CellInv, OneEnd
  <2>2. i = j => e = ev
    BY <1>1, <1>2, <1>3, <2>1 DEF CellInv, OneStart, EndOf, SameGts
  <2>3. e = ev => f.at + MultiLen = ev.at + EndGtsTime
    BY <2>1 DEF EndOf
  <2> QED
    BY <1>4, <1>5, <2>2, <2>3
<1>7. PICK k \in Nat : ev.at = SlotOf(k, act[n][i]) * Slot + Lateness(n)
  BY <1>0, <1>1, <1>2, StartPlace
<1>8. PICK l \in Int : LET start == SlotOf(l, act[n][j]) * Slot + Lateness(n)
                       IN start \in Int /\ start <= now /\ f.at = start + EndGtsTime
  BY <1>1, <1>3, OpenPlace
<1>9. PICK s \in Int : s = SlotOf(k, act[n][i])
  <2>1. k \in Int
    OBVIOUS
  <2> QED
    BY <1>0, <2>1, SlotOfType
<1>10. PICK r \in Int : r = SlotOf(l, act[n][j])
  BY <1>0, SlotOfType
<1>11. PICK a \in Int : a = s * Slot
  BY SlotOrder
<1>12. PICK b \in Int : b = r * Slot
  BY SlotOrder
<1>13. ev.at = a + Lateness(n) /\ b + Lateness(n) <= now /\ f.at = b + Lateness(n) + EndGtsTime
  BY <1>7, <1>8, <1>9, <1>10, <1>11, <1>12
<1>14. b <= a + 0
  BY <1>5, <1>13
<1>15. r <= s
  BY <1>4, <1>11, <1>12, <1>14, SlotOrder, GtsLengths
<1>16. r # s
  <2>1. SUFFICES ASSUME r = s PROVE FALSE
    OBVIOUS
  <2>2. PICK x : x = act[n][i]
    OBVIOUS
  <2>3. PICK y : y = act[n][j]
    OBVIOUS
  <2>4. PICK N \in Nat : N = NumSuperframes
    BY GtsLengths
  <2>5. /\ x.sf \in Nat /\ x.sf < N /\ x.slot \in Nat /\ x.slot + FirstSlot <= 15
        /\ FirstSlot \in {1, 9}
    BY <1>0, <2>2, <2>4, EntryTypes
  <2>6. y.sf \in Nat /\ y.sf < N /\ y.slot \in Nat /\ y.slot + FirstSlot <= 15
    BY <1>0, <2>3, <2>4, EntryTypes
  <2>7. PICK c \in Int : c = k * N
    OBVIOUS
  <2>8. PICK d \in Int : d = l * N
    OBVIOUS
  <2>9. s = 16 * (c + x.sf) + x.slot + FirstSlot
    BY <1>9, <2>2, <2>4, <2>7 DEF SlotOf
  <2>10. r = 16 * (d + y.sf) + y.slot + FirstSlot
    BY <1>10, <2>3, <2>4, <2>8 DEF SlotOf
  <2>11. c + x.sf = d + y.sf /\ x.slot = y.slot
    BY <2>1, <2>5, <2>6, <2>9, <2>10
  <2>12. x.sf = y.sf
    <3>1. /\ k \in Int /\ x.sf \in Int /\ y.sf \in Int /\ 0 <= x.sf /\ 0 <= y.sf
          /\ x.sf < N /\ y.sf < N
      BY <2>5, <2>6
    <3>2. k * N + x.sf = l * N + y.sf
      BY <2>7, <2>8, <2>11
    <3> QED
      BY <3>1, <3>2, DivUnique
  <2> QED
    BY <1>0, <1>6, <2>2, <2>3, <2>11, <2>12 DEF TablesOk, SamePlace
<1>17. b + Slot <= a
  BY <1>11, <1>12, <1>15, <1>16, SlotOrder
<1> QED
  BY <1>4, <1>5, <1>13, <1>17

\* A group ACK is over before its GTS.
LEMMA AckBeforeEnd ==
  ASSUME Disciplined, BeaconInv, NEW g \in queue, Acks(g), NEW f \in queue, AckOf(g, f)
  PROVE  g.at < f.at
<1>1. g.at \in Nat /\ f.at \in Nat
  BY Running
<1>2. GackDelay + GackLen < EndGtsTime
  BY DEF Disciplined, EndGtsTime
<1> QED
  BY <1>1, <1>2, GtsLengths DEF AckOf

LEMMA CellOfStart ==
  ASSUME Disciplined, BeaconInv, CellInv, DelayIsPositive, NEW ev \in queue, First(ev), StartGTS(ev)
  PROVE  CellInv'
<1>0. Starts(ev) /\ now' = ev.at /\ act' = act /\ capReduction' = capReduction
  BY DEF StartGTS, Runs, Starts, config
<1>1. PICK n \in Nodes : n = ev.node
  BY Running
<1>2. PICK i \in DOMAIN act[n] : i = ev.gts
  BY <1>0, <1>1, Running DEF EventTypes, GtsHandlers, Starts
<1>3. PICK t \in Nat : t = ev.at
  BY Running
<1>4. PICK e1 : e1 = GtsEvent(t + MultiLen, n, "StartGTS", i)
  OBVIOUS
<1>5. PICK e2 : e2 = GtsEvent(t + EndGtsTime, n, "EndGTS", i)
  OBVIOUS
<1>6. PICK e3 : e3 = GtsEvent(t + GackTime, n, "SendGack", i)
  OBVIOUS
<1>7. PICK New : New = {e1, e2} \cup IF Gacks(ev) THEN {e3} ELSE {}
  OBVIOUS
<1>8. Adds(queue \ {ev}, queue', New) /\ Only(n) /\ \A m \in Nodes : KeepTable(m)
  BY <1>1, <1>2, <1>3, <1>4, <1>5, <1>6, <1>7, StartGtsStep DEF GtsEvents
<1>9. /\ e1.do = "StartGTS" /\ e2.do = "EndGTS" /\ e3.do = "SendGack"
      /\ e1.node = n /\ e2.node = n /\ e3.node = n /\ e1.gts = i /\ e2.gts = i /\ e3.gts = i
      /\ e1.at = t + MultiLen /\ e2.at = t + EndGtsTime /\ e3.at = t + GackTime
  BY <1>4, <1>5, <1>6 DEF GtsEvent
<1>10. /\ now \in Nat /\ MultiLen \in Nat /\ EndGtsTime \in Nat /\ EndGtsTime < Slot /\ Slot \in Nat
       /\ MultiLen >= 16 * Slot /\ GackTime \in Nat
  BY Durations, GtsLengths DEF BeaconInv, TypeOK
<1>11. now <= t
  BY <1>3 DEF DelayIsPositive
<1>12. \A f \in queue : Ends(f) => f.node # n
  BY <1>0, <1>1, NothingOpen
<1>13. \A g \in queue : Acks(g) => g.node # n
  <2>1. ASSUME NEW g \in queue, Acks(g) PROVE g.node # n
    <3>1. PICK f \in queue : AckOf(g, f)
      BY <2>1 DEF CellInv, OneAck
    <3> QED
      BY <1>12, <3>1 DEF AckOf, SameGts
  <2> QED
    BY <2>1
<1>14. \A f \in queue : f # ev => f \in queue'
  BY <1>8 DEF Adds
<1>15. \A f \in queue' : (f \in queue /\ f # ev) \/ \E x \in New : Like(f, x)
  BY <1>8 DEF Adds
<1>16. PICK f1 \in queue' : Like(f1, e1)
  BY <1>7, <1>8 DEF Adds
<1>17. PICK f2 \in queue' : Like(f2, e2)
  BY <1>7, <1>8 DEF Adds
<1>18. ASSUME NEW f \in queue', Starts(f), ~(f \in queue /\ f # ev) PROVE Like(f, e1)
  BY <1>7, <1>9, <1>15, <1>18 DEF Like, Starts
<1>19. ASSUME NEW f \in queue', Ends(f), ~(f \in queue /\ f # ev) PROVE Like(f, e2)
  BY <1>7, <1>9, <1>15, <1>19 DEF Like, Ends
<1>20. ASSUME NEW f \in queue', Acks(f), ~(f \in queue /\ f # ev) PROVE Like(f, e3) /\ Gacks(ev)
  BY <1>7, <1>9, <1>15, <1>20 DEF Like, Acks
<1>21. \A f, g \in queue' : ~(f \in queue /\ f # ev) /\ ~(g \in queue /\ g # ev) /\ Like(f, g) => f = g
  BY <1>8 DEF Adds
<1>22. \A e \in queue : Starts(e) /\ e.node = n /\ e.gts = i => e = ev
  BY <1>0, <1>1, <1>2 DEF CellInv, OneStart, SameGts
<1>23. OneStart'
  <2>1. ASSUME NEW e \in queue', NEW f \in queue', Starts(e), Starts(f), SameGts(e, f) PROVE e = f
    <3>1. CASE e \in queue /\ e # ev /\ f \in queue /\ f # ev
      BY <2>1, <3>1 DEF CellInv, OneStart
    <3>2. CASE ~(e \in queue /\ e # ev)
      <4>1. e.node = n /\ e.gts = i
        BY <1>9, <1>18, <2>1, <3>2 DEF Like
      <4>2. ~(f \in queue /\ f # ev)
        BY <1>22, <2>1, <4>1 DEF SameGts
      <4>3. Like(e, f)
        BY <1>18, <2>1, <3>2, <4>2 DEF Like
      <4> QED
        BY <1>21, <3>2, <4>2, <4>3
    <3>3. CASE ~(f \in queue /\ f # ev)
      <4>1. f.node = n /\ f.gts = i
        BY <1>9, <1>18, <2>1, <3>3 DEF Like
      <4>2. ~(e \in queue /\ e # ev)
        BY <1>22, <2>1, <4>1 DEF SameGts
      <4>3. Like(e, f)
        BY <1>18, <2>1, <3>3, <4>2 DEF Like
      <4> QED
        BY <1>21, <3>3, <4>2, <4>3
    <3> QED
      BY <3>1, <3>2, <3>3
  <2>2. ASSUME NEW e \in queue', Starts(e)
        PROVE  e.gts \in mac'[e.node].allocated /\ e.at <= now' + MultiLen
    <3>1. CASE e \in queue
      <4>1. e.node \in Nodes /\ e.at \in Nat
        BY <3>1, Running
      <4>2. e.gts \in mac[e.node].allocated /\ e.at <= now + MultiLen
        BY <2>2, <3>1 DEF CellInv, OneStart
      <4>3. e.at <= now' + MultiLen
        BY <1>0, <1>3, <1>10, <1>11, <4>1, <4>2
      <4> QED
        BY <1>8, <4>1, <4>2, <4>3 DEF KeepTable
    <3>2. CASE e \notin queue
      <4>1. e.node = n /\ e.gts = i /\ e.at = t + MultiLen
        BY <1>9, <1>18, <2>2, <3>2 DEF Like
      <4>2. i \in mac[n].allocated
        BY <1>0, <1>1, <1>2 DEF CellInv, OneStart
      <4> QED
        BY <1>0, <1>3, <1>8, <1>10, <4>1, <4>2 DEF KeepTable
    <3> QED
      BY <3>1, <3>2
  <2> QED
    BY <2>1, <2>2 DEF OneStart, SameGts
<1>24. AllocatedStart'
  <2> SUFFICES ASSUME NEW m \in Nodes, m # PanC, NEW j \in mac'[m].allocated
               PROVE  \E e \in queue' : Starts(e) /\ e.node = m /\ e.gts = j
    BY DEF AllocatedStart
  <2>1. j \in mac[m].allocated
    BY <1>8 DEF KeepTable
  <2>2. PICK e \in queue : Starts(e) /\ e.node = m /\ e.gts = j
    BY <2>1 DEF CellInv, AllocatedStart
  <2>3. CASE e # ev
    BY <1>14, <2>2, <2>3
  <2>4. CASE e = ev
    BY <1>1, <1>2, <1>9, <1>16, <2>2, <2>4 DEF Like, Starts
  <2> QED
    BY <2>3, <2>4
<1>25. OneEnd'
  <2>1. ASSUME NEW f \in queue', Ends(f) PROVE \E e \in queue' : EndOf(f, e)
    <3>1. CASE f \in queue
      <4>1. f.node # n
        BY <1>12, <2>1, <3>1
      <4>2. PICK e \in queue : EndOf(f, e)
        BY <2>1, <3>1 DEF CellInv, OneEnd
      <4>3. e # ev
        BY <1>1, <4>1, <4>2 DEF EndOf, SameGts
      <4> QED
        BY <1>14, <4>2, <4>3
    <3>2. CASE f \notin queue
      <4>1. f.at = t + EndGtsTime /\ f.node = n /\ f.gts = i
        BY <1>9, <1>19, <2>1, <3>2 DEF Like
      <4>2. f1.at = t + MultiLen /\ f1.node = n /\ f1.gts = i /\ f1.do = "StartGTS"
        BY <1>9, <1>16 DEF Like
      <4>3. f.at + MultiLen = f1.at + EndGtsTime
        BY <1>10, <4>1, <4>2
      <4> QED
        BY <4>1, <4>2, <4>3 DEF EndOf, SameGts, Starts
    <3> QED
      BY <3>1, <3>2
  <2>2. ASSUME NEW e \in queue', NEW f \in queue', Ends(e), Ends(f), e.node = f.node PROVE e = f
    <3>1. CASE e \in queue /\ f \in queue
      BY <2>2, <3>1 DEF CellInv, OneEnd
    <3>2. CASE e \notin queue /\ f \notin queue
      <4>1. Like(e, f)
        BY <1>19, <2>2, <3>2 DEF Like
      <4> QED
        BY <1>21, <3>2, <4>1
    <3>3. CASE e \in queue /\ f \notin queue
      <4>1. f.node = n
        BY <1>9, <1>19, <2>2, <3>3 DEF Like
      <4> QED
        BY <1>12, <2>2, <3>3, <4>1
    <3>4. CASE e \notin queue /\ f \in queue
      <4>1. e.node = n
        BY <1>9, <1>19, <2>2, <3>4 DEF Like
      <4> QED
        BY <1>12, <2>2, <3>4, <4>1
    <3> QED
      BY <3>1, <3>2, <3>3, <3>4
  <2> QED
    BY <2>1, <2>2 DEF OneEnd, EndOf
<1>26. StillOpen'
  <2> SUFFICES ASSUME NEW e \in queue', Starts(e), now' + MultiLen < e.at + EndGtsTime
               PROVE  \E f \in queue' : Ends(f) /\ SameGts(e, f)
    BY DEF StillOpen, SameGts
  <2>1. CASE e \in queue /\ e # ev
    <3>1. e.at \in Nat
      BY <2>1, Running
    <3>2. now + MultiLen < e.at + EndGtsTime
      BY <1>0, <1>3, <1>10, <1>11, <3>1
    <3>3. PICK f \in queue : Ends(f) /\ SameGts(e, f)
      BY <2>1, <3>2 DEF CellInv, StillOpen
    <3> QED
      BY <1>0, <1>14, <3>3, GtsKinds
  <2>2. CASE ~(e \in queue /\ e # ev)
    BY <1>9, <1>17, <1>18, <2>2 DEF Like, Ends, SameGts
  <2> QED
    BY <2>1, <2>2
<1>27. OneAck'
  <2>1. ASSUME NEW g \in queue', Acks(g)
        PROVE  ~act'[g.node][g.gts].rx /\ \E f \in queue' : AckOf(g, f)
    <3>1. CASE g \in queue
      <4>1. PICK f \in queue : AckOf(g, f)
        BY <2>1, <3>1 DEF CellInv, OneAck
      <4>2. f # ev
        BY <1>0, <4>1, GtsKinds DEF AckOf
      <4> QED
        BY <1>0, <1>14, <2>1, <3>1, <4>1, <4>2 DEF CellInv, OneAck
    <3>2. CASE g \notin queue
      <4>1. g.at = t + GackTime /\ g.node = n /\ g.gts = i /\ g.do = "SendGack" /\ Gacks(ev)
        BY <1>9, <1>20, <2>1, <3>2 DEF Like
      <4>2. f2.at = t + EndGtsTime /\ f2.node = n /\ f2.gts = i /\ f2.do = "EndGTS"
        BY <1>9, <1>17 DEF Like
      <4>3. g.at + EndGtsTime = f2.at + GackTime + 0
        BY <1>10, <4>1, <4>2
      <4>4. ~act[n][i].rx
        BY <1>1, <1>2, <4>1 DEF Gacks
      <4> QED
        BY <1>0, <4>1, <4>2, <4>3, <4>4 DEF AckOf, SameGts, Ends
    <3> QED
      BY <3>1, <3>2
  <2>2. ASSUME NEW g \in queue', NEW h \in queue', Acks(g), Acks(h), g.node = h.node PROVE g = h
    <3>1. CASE g \in queue /\ h \in queue
      BY <2>2, <3>1 DEF CellInv, OneAck
    <3>2. CASE g \notin queue /\ h \notin queue
      <4>1. Like(g, h)
        BY <1>20, <2>2, <3>2 DEF Like
      <4> QED
        BY <1>21, <3>2, <4>1
    <3>3. CASE g \in queue /\ h \notin queue
      <4>1. h.node = n
        BY <1>9, <1>20, <2>2, <3>3 DEF Like
      <4> QED
        BY <1>13, <2>2, <3>3, <4>1
    <3>4. CASE g \notin queue /\ h \in queue
      <4>1. g.node = n
        BY <1>9, <1>20, <2>2, <3>4 DEF Like
      <4> QED
        BY <1>13, <2>2, <3>4, <4>1
    <3> QED
      BY <3>1, <3>2, <3>3, <3>4
  <2> QED
    BY <2>1, <2>2 DEF OneAck, AckOf
<1>28. TablesOk'
  BY <1>0, TablesStay DEF CellInv
<1> QED
  BY <1>23, <1>24, <1>25, <1>26, <1>27, <1>28 DEF CellInv

\* The other events of a GTS.
LEMMA CellOfRest ==
  ASSUME Disciplined, BeaconInv, CellInv, DelayIsPositive, NEW ev \in queue, First(ev),
         EndGTS(ev) \/ SendGack(ev) \/ GackSent(ev)
  PROVE  CellInv'
<1>0. /\ now' = ev.at /\ act' = act /\ capReduction' = capReduction /\ ~Starts(ev)
      /\ (EndGTS(ev) => Ends(ev)) /\ (SendGack(ev) => Acks(ev) /\ ev.do = "SendGack")
      /\ (GackSent(ev) => Acks(ev) /\ ev.do = "GackSent")
  BY DEF EndGTS, SendGack, GackSent, Runs, Starts, Ends, Acks, config
<1>1. PICK n \in Nodes : n = ev.node
  BY Running
<1>2. PICK t \in Nat : t = ev.at
  BY Running
<1>3. PICK sent : sent = GtsEvent(t + GackLen, n, "GackSent", ev.gts)
  OBVIOUS
<1>4. PICK New : New = IF SendGack(ev) THEN {sent} ELSE {}
  OBVIOUS
<1>5. ~(SendGack(ev) /\ (EndGTS(ev) \/ GackSent(ev)))
  BY DEF EndGTS, SendGack, GackSent, Runs
<1>6. Adds(queue \ {ev}, queue', New) /\ \A m \in Nodes : KeepTable(m)
  BY <1>1, <1>2, <1>3, <1>4, <1>5, GtsSteps
<1>7. sent.do = "GackSent" /\ sent.node = n /\ sent.gts = ev.gts /\ sent.at = t + GackLen
  BY <1>3 DEF GtsEvent
<1>8. /\ now \in Nat /\ MultiLen \in Nat /\ EndGtsTime \in Nat /\ GackTime \in Nat /\ GackLen \in Nat
  BY Durations DEF BeaconInv, TypeOK
<1>9. now <= t
  BY <1>2 DEF DelayIsPositive
<1>10. \A f \in queue : f # ev => f \in queue'
  BY <1>6 DEF Adds
<1>11. ASSUME NEW f \in queue', ~(f \in queue /\ f # ev) PROVE Like(f, sent) /\ SendGack(ev)
  <2>1. PICK x \in New : Like(f, x)
    BY <1>6, <1>11 DEF Adds
  <2> QED
    BY <1>4, <2>1
<1>12. ASSUME NEW f \in queue', Starts(f) \/ Ends(f) PROVE f \in queue /\ f # ev
  BY <1>7, <1>11, <1>12, GtsKinds DEF Like, Starts, Ends
<1>13. OneStart'
  <2>1. ASSUME NEW e \in queue', Starts(e)
        PROVE  e.gts \in mac'[e.node].allocated /\ e.at <= now' + MultiLen
    <3>1. e \in queue
      BY <1>12, <2>1
    <3>2. e.node \in Nodes /\ e.at \in Nat
      BY <3>1, Running
    <3>3. e.gts \in mac[e.node].allocated /\ e.at <= now + MultiLen
      BY <2>1, <3>1 DEF CellInv, OneStart
    <3>4. e.at <= now' + MultiLen
      BY <1>0, <1>2, <1>8, <1>9, <3>2, <3>3
    <3> QED
      BY <1>6, <3>2, <3>3, <3>4 DEF KeepTable
  <2> QED
    BY <1>12, <2>1 DEF CellInv, OneStart
<1>14. AllocatedStart'
  <2> SUFFICES ASSUME NEW m \in Nodes, m # PanC, NEW j \in mac'[m].allocated
               PROVE  \E e \in queue' : Starts(e) /\ e.node = m /\ e.gts = j
    BY DEF AllocatedStart
  <2>1. j \in mac[m].allocated
    BY <1>6 DEF KeepTable
  <2>2. PICK e \in queue : Starts(e) /\ e.node = m /\ e.gts = j
    BY <2>1 DEF CellInv, AllocatedStart
  <2> QED
    BY <1>0, <1>10, <2>2
<1>15. OneEnd'
  <2>1. ASSUME NEW f \in queue', Ends(f) PROVE \E e \in queue' : EndOf(f, e)
    <3>1. PICK e \in queue : EndOf(f, e)
      BY <1>12, <2>1 DEF CellInv, OneEnd
    <3> QED
      BY <1>0, <1>10, <3>1 DEF EndOf
  <2>2. \A e, f \in queue' : Ends(e) /\ Ends(f) /\ e.node = f.node => e = f
    BY <1>12 DEF CellInv, OneEnd
  <2> QED
    BY <2>1, <2>2 DEF OneEnd, EndOf
<1>16. StillOpen'
  <2> SUFFICES ASSUME NEW e \in queue', Starts(e), now' + MultiLen < e.at + EndGtsTime
               PROVE  \E f \in queue' : Ends(f) /\ SameGts(e, f)
    BY DEF StillOpen, SameGts
  <2>1. e \in queue
    BY <1>12
  <2>2. e.at \in Nat
    BY <2>1, Running
  <2>3. now + MultiLen < e.at + EndGtsTime
    BY <1>0, <1>2, <1>8, <1>9, <2>2
  <2>4. PICK f \in queue : Ends(f) /\ SameGts(e, f)
    BY <2>1, <2>3 DEF CellInv, StillOpen
  <2>5. CASE f = ev
    <3>1. PICK e0 \in queue : EndOf(ev, e0)
      BY <2>4, <2>5 DEF CellInv, OneEnd
    <3>2. e0 = e
      BY <2>1, <2>4, <2>5, <3>1 DEF CellInv, OneStart, EndOf, SameGts
    <3>3. ev.at + MultiLen = e.at + EndGtsTime
      BY <3>1, <3>2 DEF EndOf
    <3> QED
      BY <1>0, <1>2, <1>8, <2>2, <3>3
  <2>6. CASE f # ev
    BY <1>10, <2>4, <2>6
  <2> QED
    BY <2>5, <2>6
<1>17. OneAck'
  <2>1. ASSUME NEW g \in queue', Acks(g)
        PROVE  ~act'[g.node][g.gts].rx /\ \E f \in queue' : AckOf(g, f)
    <3>1. CASE g \in queue /\ g # ev
      <4>1. PICK f \in queue : AckOf(g, f)
        BY <2>1, <3>1 DEF CellInv, OneAck
      <4>2. f # ev
        <5>1. g.at < f.at
          BY <2>1, <3>1, <4>1, AckBeforeEnd
        <5>2. g.at >= ev.at /\ g.at \in Nat /\ f.at \in Nat
          BY <3>1, FirstIsFirst
        <5> QED
          BY <5>1, <5>2
      <4> QED
        BY <1>0, <1>10, <2>1, <3>1, <4>1, <4>2 DEF CellInv, OneAck
    <3>2. CASE ~(g \in queue /\ g # ev)
      <4>1. /\ g.do = "GackSent" /\ g.node = n /\ g.gts = ev.gts /\ g.at = t + GackLen
            /\ Acks(ev) /\ ev.do = "SendGack"
        BY <1>0, <1>7, <1>11, <3>2 DEF Like
      <4>2. ~act[ev.node][ev.gts].rx
        BY <4>1 DEF CellInv, OneAck
      <4>3. PICK f \in queue : AckOf(ev, f)
        BY <4>1 DEF CellInv, OneAck
      <4>4. ev.at + EndGtsTime = f.at + GackTime + 0 /\ Ends(f) /\ SameGts(ev, f)
        BY <4>1, <4>3 DEF AckOf
      <4>5. f.at \in Nat /\ f # ev
        BY <4>1, <4>4, Running, GtsKinds
      <4>6. g.at + EndGtsTime = f.at + GackTime + GackLen
        BY <1>2, <1>8, <4>1, <4>4, <4>5
      <4>7. AckOf(g, f)
        BY <1>1, <4>1, <4>4, <4>6 DEF AckOf, SameGts
      <4> QED
        BY <1>0, <1>1, <1>10, <4>1, <4>2, <4>5, <4>7
    <3> QED
      BY <3>1, <3>2
  <2>2. ASSUME NEW g \in queue', NEW h \in queue', Acks(g), Acks(h), g.node = h.node PROVE g = h
    <3>1. CASE g \in queue /\ g # ev /\ h \in queue /\ h # ev
      BY <2>2, <3>1 DEF CellInv, OneAck
    <3>2. CASE ~(g \in queue /\ g # ev) /\ ~(h \in queue /\ h # ev)
      <4>1. Like(g, h)
        BY <1>11, <2>2, <3>2 DEF Like
      <4> QED
        BY <1>6, <3>2, <4>1 DEF Adds
    <3>3. CASE g \in queue /\ g # ev /\ ~(h \in queue /\ h # ev)
      <4>1. h.node = ev.node /\ Acks(ev)
        BY <1>0, <1>1, <1>7, <1>11, <3>3 DEF Like
      <4> QED
        BY <2>2, <3>3, <4>1 DEF CellInv, OneAck
    <3>4. CASE ~(g \in queue /\ g # ev) /\ h \in queue /\ h # ev
      <4>1. g.node = ev.node /\ Acks(ev)
        BY <1>0, <1>1, <1>7, <1>11, <3>4 DEF Like
      <4> QED
        BY <2>2, <3>4, <4>1 DEF CellInv, OneAck
    <3> QED
      BY <3>1, <3>2, <3>3, <3>4
  <2> QED
    BY <2>1, <2>2 DEF OneAck, AckOf
<1>18. TablesOk'
  BY <1>0, TablesStay DEF CellInv
<1> QED
  BY <1>13, <1>14, <1>15, <1>16, <1>17, <1>18 DEF CellInv

\* An entry that is added changes none of those that are there.
LEMMA TablesGrow ==
  ASSUME Disciplined, BeaconInv, TablesOk, NEW late \in LateEntries,
         AddDsmeACTEntity(late.node, late.entry)
  PROVE  /\ TablesOk'
         /\ \A n \in Nodes : \A i \in DOMAIN act[n] : i \in DOMAIN act'[n] /\ act'[n][i] = act[n][i]
<1>1. PICK n \in Nodes : n = late.node
  BY DsmeConstants
<1>2. PICK x \in Entries : x = late.entry
  BY DsmeConstants
<1>3. act \in [Nodes -> Seq(Entries)] /\ act[n] \in Seq(Entries)
  BY DEF BeaconInv, TypeOK
<1>4. act' = [act EXCEPT ![n] = Append(act[n], x)]
  BY <1>1, <1>2 DEF AddDsmeACTEntity
<1>5. act'[n] = Append(act[n], x) /\ \A m \in Nodes : m # n => act'[m] = act[m]
  BY <1>3, <1>4
<1>6. PICK l \in Nat : l = Len(act[n])
  BY <1>3
<1>7. /\ DOMAIN act[n] = 1..l /\ DOMAIN act'[n] = 1..l + 1
      /\ \A i \in 1..l : act'[n][i] = act[n][i]
      /\ act'[n][l + 1] = x
  BY <1>3, <1>5, <1>6
<1>8. /\ capReduction' = capReduction /\ capReduction \in BOOLEAN
      /\ x.slot < IF capReduction THEN 15 ELSE 7
      /\ \A i \in DOMAIN act[n] : act[n][i] # x
  BY <1>1, <1>2 DEF AddDsmeACTEntity, config, BeaconInv, TypeOK
<1>9. x.slot <= LastSlot /\ LastSlot' = LastSlot
  <2>1. x.slot \in Nat
    BY <1>2 DEF Entries
  <2> QED
    BY <1>8, <2>1 DEF LastSlot
<1>10. \A i \in 1..l : ~SamePlace(act[n][i], x)
  BY SMTT(30), <1>1, <1>2, <1>7, <1>8 DEF TablesOk
<1>11. \A m \in Nodes : \A i \in DOMAIN act[m] : i \in DOMAIN act'[m] /\ act'[m][i] = act[m][i]
  BY <1>5, <1>7
<1>12. ASSUME NEW m \in Nodes
       PROVE  /\ \A i \in DOMAIN act'[m] : act'[m][i].slot <= LastSlot
              /\ \A i, j \in DOMAIN act'[m] : SamePlace(act'[m][i], act'[m][j]) => i = j
              /\ \A l1 \in LateEntries : \A i \in DOMAIN act'[m] :
                   l1.node = m /\ SamePlace(act'[m][i], l1.entry) => act'[m][i] = l1.entry
  <2>1. CASE m # n
    BY <1>5, <2>1 DEF TablesOk
  <2>2. CASE m = n
    <3>1. \A i \in DOMAIN act'[n] : i = l + 1 \/ i \in 1..l
      BY <1>7
    <3>2. \A i \in DOMAIN act'[n] : act'[n][i].slot <= LastSlot
      BY <1>7, <1>9, <3>1 DEF TablesOk
    <3>3. ASSUME NEW i \in DOMAIN act'[n], NEW j \in DOMAIN act'[n], SamePlace(act'[n][i], act'[n][j])
          PROVE  i = j
      <4>1. CASE i \in 1..l /\ j \in 1..l
        BY <1>7, <3>3, <4>1 DEF TablesOk
      <4>2. CASE i = l + 1 /\ j \in 1..l
        BY <1>7, <1>10, <3>3, <4>2 DEF SamePlace
      <4>3. CASE i \in 1..l /\ j = l + 1
        BY <1>7, <1>10, <3>3, <4>3 DEF SamePlace
      <4> QED
        BY <3>1, <4>1, <4>2, <4>3
    <3>4. ASSUME NEW l1 \in LateEntries, NEW i \in DOMAIN act'[n], l1.node = n,
                 SamePlace(act'[n][i], l1.entry)
          PROVE  act'[n][i] = l1.entry
      <4>1. CASE i \in 1..l
        BY <1>7, <3>4, <4>1 DEF TablesOk
      <4>2. CASE i = l + 1
        <5>1. SamePlace(late.entry, l1.entry)
          BY <1>2, <1>7, <3>4, <4>2
        <5>2. late = l1
          BY <1>1, <3>4, <5>1 DEF Disciplined
        <5> QED
          BY <1>2, <1>7, <4>2, <5>2
      <4> QED
        BY <3>1, <4>1, <4>2
    <3> QED
      BY <2>2, <3>2, <3>3, <3>4
  <2> QED
    BY <2>1, <2>2
<1>13. TablesOk'
  BY <1>9, <1>12 DEF TablesOk, SamePlace
<1> QED
  BY <1>11, <1>13

LEMMA CellOfAdd ==
  ASSUME Disciplined, BeaconInv, CellInv, NEW late \in LateEntries,
         AddDsmeACTEntity(late.node, late.entry)
  PROVE  CellInv'
<1>1. /\ TablesOk'
      /\ \A n \in Nodes : \A i \in DOMAIN act[n] : act'[n][i] = act[n][i]
  BY TablesGrow DEF CellInv
<1>2. now' = now /\ queue' = queue /\ mac' = mac
  BY DEF AddDsmeACTEntity
<1>3. OneStart' /\ AllocatedStart' /\ OneEnd' /\ StillOpen'
  BY <1>2 DEF CellInv, OneStart, AllocatedStart, OneEnd, StillOpen, EndOf
<1>4. \A g \in queue : Acks(g) => act'[g.node][g.gts] = act[g.node][g.gts]
  <2>1. ASSUME NEW g \in queue, Acks(g) PROVE g.node \in Nodes /\ g.gts \in DOMAIN act[g.node]
    BY <2>1, Running DEF EventTypes, GtsHandlers, Acks
  <2> QED
    BY <1>1, <2>1
<1>5. OneAck'
  BY <1>2, <1>4 DEF CellInv, OneAck, AckOf
<1> QED
  BY <1>1, <1>3, <1>5 DEF CellInv

\* The handlers that neither schedule nor run events of GTSs.
LEMMA QuietForGts ==
  ASSUME BeaconInv, NEW ev \in queue, Handler(ev), ~StartGTS(ev), ~EndGTS(ev), ~SendGack(ev),
         ~GackSent(ev), ~EndTx(ev), ~EndRx(ev), ~(StartRequest(ev) /\ ev.node # PanC)
  PROVE  /\ \A f : Kind(f) = "gts" => (f \in queue' <=> f \in queue)
         /\ \A m \in Nodes : KeepTable(m)
<1>1. CASE (StartCAP(ev) \/ StartCFP(ev) \/ StartRemainingPeriod(ev)) /\ ev.arg = "OUT"
  <2>1. Touches({"own"}) /\ \A m \in Nodes : KeepTable(m)
    BY <1>1, OwnCapStep, OwnCfpStep, OwnRemainingStep DEF OwnFrame
  <2> QED
    BY <2>1, TouchesNot
<1>2. CASE (StartCAP(ev) \/ StartCFP(ev) \/ StartRemainingPeriod(ev)) /\ ev.arg # "OUT"
  <2>1. Touches({"in"}) /\ \A m \in Nodes : KeepTable(m)
    BY <1>2, InCapStep, InCfpStep, InRemainingStep DEF InFrame
  <2> QED
    BY <2>1, TouchesNot
<1>3. CASE AwaitBeacon(ev)
  <2>1. Touches({"in"}) /\ \A m \in Nodes : KeepTable(m)
    BY <1>3, AwaitStep DEF InFrame
  <2> QED
    BY <2>1, TouchesNot
<1>4. CASE StartSuperframe(ev) \/ StartMultisuperframe(ev)
  <2>1. Touches({"multi"}) /\ \A m \in Nodes : KeepTable(m)
    BY <1>4, SuperframeStep, MultiStep DEF IdxFrame
  <2> QED
    BY <2>1, TouchesNot
<1>5. CASE SetIdle(ev)
  <2>1. Touches({"SetIdle"}) /\ \A m \in Nodes : KeepTable(m)
    BY <1>5, SetIdleStep DEF OwnFrame
  <2> QED
    BY <2>1, TouchesNot
<1>6. CASE BeaconLost(ev)
  <2>1. Touches({"EndRx"}) /\ mac' = mac
    BY <1>6, BeaconLostStep
  <2> QED
    BY <2>1, TouchesNot DEF KeepTable
<1>7. CASE StartTx(ev)
  <2>1. Touches({"own", "EndRx"}) /\ mac' = mac
    BY <1>7, StartTxStep
  <2> QED
    BY <2>1, TouchesNot DEF KeepTable
<1>8. CASE SendOneEnhancedBeacon(ev)
  <2>1. Touches({"own"}) /\ \A m \in Nodes : KeepTable(m)
    BY <1>8, SendBeaconStep DEF OwnFrame
  <2> QED
    BY <2>1, TouchesNot
<1>9. CASE StartRequest(ev) /\ ev.node = PanC
  <2>1. Touches({"StartRequest", "multi", "own"}) /\ mac' = mac
    BY <1>9, PanStartStep
  <2> QED
    BY <2>1, TouchesNot DEF KeepTable
<1>10. CASE SyncRequest(ev)
  <2>1. Touches({"SyncRequest", "SearchTimeout"}) /\ \A m \in Nodes : KeepTable(m)
    BY <1>10, SyncStep DEF TrackFrame
  <2> QED
    BY <2>1, TouchesNot
<1>11. CASE BeaconSearchTimeout(ev)
  <2>1. Touches({"SearchTimeout"}) /\ \A m \in Nodes : KeepTable(m)
    BY <1>11, TimeoutStep DEF TrackFrame
  <2> QED
    BY <2>1, TouchesNot
<1> QED
  BY <1>1, <1>2, <1>3, <1>4, <1>5, <1>6, <1>7, <1>8, <1>9, <1>10, <1>11 DEF Handler

LEMMA CellOfBeacon ==
  ASSUME BeaconInv, SenderInv, CellInv, DelayIsPositive, NEW ev \in queue, First(ev),
         EndTx(ev) \/ EndRx(ev) \/ (StartRequest(ev) /\ ev.node # PanC)
  PROVE  CellInv'
<1>1. PICK n \in Nodes : n = ev.node
  BY Running
<1>2. PICK t \in Nat : t = ev.at
  BY Running
<1>3. /\ now' = t /\ act' = act /\ capReduction' = capReduction /\ t >= now /\ now' \in Nat
  BY <1>2, HandlerKeeps DEF Handler, config, DelayIsPositive
<1>4. CASE EndTx(ev)
  <2>1. PICK New : New = (IF n # PanC THEN GtsItems(n, t) ELSE {}) \cup {CapEvent(ev)}
    OBVIOUS
  <2>2. /\ Adds(queue \ {ev}, queue', New) /\ Only(n)
        /\ mac'[n].allocated = IF n = PanC THEN mac[n].allocated ELSE DOMAIN act[n]
    BY <1>1, <1>2, <1>4, <2>1, EndTxStep
  <2>3. Kind(CapEvent(ev)) # "gts"
    BY DEF CapEvent, Event, Kind, GtsHandlers, OwnPeriods
  <2>4. Kind(ev) # "gts"
    BY <1>4 DEF EndTx, Runs, Kind, GtsHandlers, OwnPeriods
  <2>5. CASE n # PanC
    <3>1. PICK q : q = queue \ {ev}
      OBVIOUS
    <3>2. q \subseteq queue /\ \A f \in queue : Kind(f) = "gts" => f \in q
      BY <2>4, <3>1
    <3>3. /\ GtsItems(n, t) \subseteq New /\ mac'[n].allocated = DOMAIN act[n]
          /\ \A x \in New : Kind(x) = "gts" => x \in GtsItems(n, t)
      BY <2>1, <2>2, <2>3, <2>5
    <3> QED
      BY <1>3, <2>2, <2>5, <3>1, <3>2, <3>3, CellScheduled
  <2>6. CASE n = PanC
    <3>1. \A f : Kind(f) = "gts" => (f \in queue' <=> f \in queue)
      <4>1. ASSUME NEW f, Kind(f) = "gts", f \in queue' PROVE f \in queue
        <5>1. SUFFICES ASSUME f \notin queue PROVE FALSE
          OBVIOUS
        <5>2. PICK x \in New : Like(f, x)
          BY <2>2, <4>1, <5>1 DEF Adds
        <5> QED
          BY <2>1, <2>3, <2>6, <4>1, <5>2, LikeKinds
      <4>2. ASSUME NEW f, Kind(f) = "gts", f \in queue PROVE f \in queue'
        BY <2>2, <2>4, <4>2 DEF Adds
      <4> QED
        BY <4>1, <4>2
    <3>2. \A m \in Nodes : KeepTable(m)
      BY <2>2, <2>6 DEF Only, KeepTable
    <3> QED
      BY <1>3, <3>1, <3>2, CellFrame
  <2> QED
    BY <2>5, <2>6
<1>5. CASE EndRx(ev)
  <2>1. PICK from : from = ev.arg
    OBVIOUS
  <2>2. PICK New : New = ReceptionEvents(n, from, t)
    OBVIOUS
  <2>3. PICK q : q = Cancel(queue \ {ev}, n, "SearchTimeout")
    OBVIOUS
  <2>4. Adds(q, queue', New) /\ Only(n) /\ mac'[n] = AfterBeacon(n, from)
    BY <1>1, <1>2, <1>5, <2>1, <2>2, <2>3, EndRxStep
  <2>5. mac[from].bitmapSd % NumSuperframes = 0 /\ ev.do = "EndRx"
    BY <1>5, <2>1, HeardBeacon
  <2>6. q \subseteq queue /\ \A f \in queue : Kind(f) = "gts" => f \in q
    <3>1. \A f \in queue : Kind(f) = "gts" => f # ev /\ f.do # "SearchTimeout"
      BY <2>5, KindsOfSender
    <3> QED
      BY <2>3, <3>1 DEF Cancel
  <2>7. PICK r : r = AfterBeacon(n, from)
    OBVIOUS
  <2>8. r.allocated = IF IndicatesGts(n, from) THEN DOMAIN act[n] ELSE mac[n].allocated
    BY <2>7, AfterBeaconFields
  <2>9. \A x \in New : Kind(x) = "gts" => IndicatesGts(n, from) /\ x \in GtsItems(n, t)
    BY <2>2, <2>5, ReceptionKinds
  <2>10. CASE IndicatesGts(n, from)
    <3>1. n # PanC
      BY <2>10 DEF IndicatesGts, SchedulesGts
    <3>2. GtsItems(n, t) \subseteq New
      BY <2>2, <2>10 DEF ReceptionEvents, GtsOfBeacon
    <3>3. mac'[n].allocated = DOMAIN act[n]
      BY <2>4, <2>7, <2>8, <2>10
    <3> QED
      BY <1>3, <2>4, <2>6, <2>9, <3>1, <3>2, <3>3, CellScheduled
  <2>11. CASE ~IndicatesGts(n, from)
    <3>1. \A f : Kind(f) = "gts" => (f \in queue' <=> f \in queue)
      <4>1. ASSUME NEW f, Kind(f) = "gts", f \in queue' PROVE f \in queue
        <5>1. SUFFICES ASSUME f \notin queue PROVE FALSE
          OBVIOUS
        <5>2. PICK x \in New : Like(f, x)
          BY <2>4, <2>6, <4>1, <5>1 DEF Adds
        <5>3. Kind(x) = "gts"
          BY <4>1, <5>2, LikeKinds
        <5> QED
          BY <2>9, <2>11, <5>3
      <4>2. ASSUME NEW f, Kind(f) = "gts", f \in queue PROVE f \in queue'
        BY <2>4, <2>6, <4>2 DEF Adds
      <4> QED
        BY <4>1, <4>2
    <3>2. \A m \in Nodes : KeepTable(m)
      BY <2>4, <2>7, <2>8, <2>11 DEF Only, KeepTable
    <3> QED
      BY <1>3, <3>1, <3>2, CellFrame
  <2> QED
    BY <2>10, <2>11
<1>6. CASE StartRequest(ev) /\ ev.node # PanC
  <2>1. PICK New : New = GtsItems(n, t)
    OBVIOUS
  <2>2. PICK q : q = queue \ {ev}
    OBVIOUS
  <2>3. Adds(q, queue', New) /\ Only(n) /\ mac'[n].allocated = DOMAIN act[n]
    BY <1>1, <1>2, <1>6, <2>1, <2>2, CoordStartStep
  <2>4. Kind(ev) # "gts"
    BY <1>6, KindsOfSender DEF StartRequest, Runs
  <2>5. q \subseteq queue /\ \A f \in queue : Kind(f) = "gts" => f \in q
    BY <2>2, <2>4
  <2> QED
    BY <1>1, <1>3, <1>6, <2>1, <2>3, <2>5, CellScheduled
<1> QED
  BY <1>4, <1>5, <1>6

LEMMA CellStep ==
  ASSUME Disciplined, BeaconInv, SenderInv, CellInv, DelayIsPositive, NEW ev \in queue, First(ev),
         Handler(ev)
  PROVE  CellInv'
<1>1. CASE StartGTS(ev)
  BY <1>1, CellOfStart
<1>2. CASE EndGTS(ev) \/ SendGack(ev) \/ GackSent(ev)
  BY <1>2, CellOfRest
<1>3. CASE EndTx(ev) \/ EndRx(ev) \/ (StartRequest(ev) /\ ev.node # PanC)
  BY <1>3, CellOfBeacon
<1>4. CASE /\ ~StartGTS(ev) /\ ~EndGTS(ev) /\ ~SendGack(ev) /\ ~GackSent(ev) /\ ~EndTx(ev)
           /\ ~EndRx(ev) /\ ~(StartRequest(ev) /\ ev.node # PanC)
  <2>1. /\ \A f : Kind(f) = "gts" => (f \in queue' <=> f \in queue)
        /\ \A m \in Nodes : KeepTable(m)
    BY <1>4, QuietForGts
  <2>2. /\ act' = act /\ capReduction' = capReduction /\ now' \in Nat /\ now' >= now
    BY HandlerKeeps, Running DEF config, DelayIsPositive
  <2> QED
    BY <2>1, <2>2, CellFrame
<1> QED
  BY <1>1, <1>2, <1>3, <1>4

LEMMA CellInit ==
  ASSUME Disciplined, Init
  PROVE  CellInv
<1>1. \A f \in queue : f.do \in {"StartRequest", "SyncRequest"}
  BY BootEvents
<1>2. \A f \in queue : ~Starts(f) /\ ~Ends(f) /\ ~Acks(f)
  BY <1>1 DEF Starts, Ends, Acks
<1>3. \A n \in Nodes : mac[n].allocated = {}
  BY DEF Init, MacAtStart
<1>4. OneStart /\ AllocatedStart /\ OneEnd /\ StillOpen /\ OneAck
  BY <1>2, <1>3 DEF OneStart, AllocatedStart, OneEnd, StillOpen, OneAck
<1>5. capReduction \in BOOLEAN /\ act \in Tables[capReduction]
  BY DEF Init
<1>6. TablesOk
  BY <1>5 DEF Disciplined, TablesOk, LastSlot
<1> QED
  BY <1>4, <1>6 DEF CellInv

LEMMA CellInvariant ==
  ASSUME StartsOnce, Disciplined
  PROVE  Spec /\ []DelayIsPositive => []CellInv
<1>1. ASSUME BeaconInv, SenderInv, CellInv, DelayIsPositive, [Next]_vars PROVE CellInv'
  <2>1. ASSUME NEW ev \in queue, First(ev), Handler(ev) PROVE CellInv'
    BY <1>1, <2>1, CellStep
  <2>2. ASSUME NEW late \in LateEntries, AddDsmeACTEntity(late.node, late.entry) PROVE CellInv'
    BY <1>1, <2>2, CellOfAdd
  <2>3. CASE UNCHANGED vars
    <3>1. UNCHANGED <<now, queue, capReduction, mac, act>>
      BY <2>3 DEF vars, config
    <3>2. now \in Nat
      BY <1>1, Durations DEF BeaconInv, TypeOK
    <3> QED
      BY <1>1, <3>1, <3>2, CellFrame DEF KeepTable
  <2> QED
    BY <1>1, <2>1, <2>2, <2>3 DEF Next
<1> QED
  BY <1>1, CellInit, DsmeInvariant, DsmeSenders, PTL DEF Spec

\* A node has one GTS open at a time: beacons that come again and again never
\* schedule an entry twice, and no GTS lasts into the next (ScheduleGts, StartGTS),
\* if the higher layer is disciplined and no event was scheduled for the past.
THEOREM DsmeOneGtsAtATime ==
  ASSUME StartsOnce, Disciplined
  PROVE  Spec /\ []DelayIsPositive => []OneGtsAtATime
<1>1. CellInv => OneGtsAtATime
  BY DEF CellInv, OneEnd, Ends, OneGtsAtATime
<1> QED
  BY <1>1, CellInvariant, PTL
=============================================================================
