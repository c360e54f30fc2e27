# Verification of the IEEE 802.15.4e DSME model for ns-3

This directory holds TLA+ specifications of the protocol core of the `lr-wpan`
module of this repository (`src/src/lr-wpan/model`): the transceiver
(`lr-wpan-phy.cc`), channel access (`lr-wpan-csmaca.cc`) and the MAC with its
DSME extensions (`lr-wpan-mac.cc`). TLC checks them on small instances, and
TLAPS proves most of their safety properties for every instance.

The rest of the repository, which is most of its lines, is upstream ns-3 (TCP,
LTE, Wi-Fi, routing, ...). The module depends on it only through the simulator's
event queue, which `DsmeSuperframe` models. The files `lr-wpan-mac-backup*.cc` and
`lr-wpan-mac-6-3-newest.cc` are old copies that the build does not use.

## The system

ns-3 runs one event at a time, in the order of simulated time. Inside an event
the layers of a node call each other synchronously: a request goes down as a C++
call, its confirm may come back as a nested call before the request returns,
and the confirm may issue the next request. Concurrency is therefore not one of
threads: it is the interleaving of *scheduled events* (turnarounds, ends of
frames, CCAs, backoffs, IFSs, slots, beacons), together with the *reentrancy* of
callbacks. Both are in the models.

| Component | State | Operations | Talks to |
|---|---|---|---|
| PHY | transceiver state, pending state, turnaround event, frame in reception, frame in transmission with its EndTx event, CCA and ED events, channel | `PlmeSetTRXStateRequest`, `PdDataRequest`, `PlmeCcaRequest`, `PlmeEdRequest`, `PlmeSetAttributeRequest`, `StartRx`, the `End...` events | calls back the MAC and CSMA-CA |
| CSMA-CA | NB, CW, BE, backoff periods left, four events, CCA flag | `Start`, `Cancel`, `RandomBackoffDelay`, `CanProceed`, `RequestCCA`, `PlmeCcaConfirm`, `DeferCsmaTimeout` | PHY for CCA; reports to the MAC |
| MAC data path | MAC state, `m_txPkt`, transmit queue, scheduled state, IFS | `McpsDataRequest`, `CheckQueue`, `SetLrWpanMacState`, the handlers of the PHY's callbacks, `IfsWaitTimeout` | PHY, CSMA-CA, higher layer |
| Superframe of a device | CAP or CFP, open slot, channel | `StartCAP`, `StartCFP`, `StartGTS`, `EndGTS`, beacon reception | MAC data path, PHY channel |
| Slot allocation (ACT) | allocation table, scheduled slots | `AddDsmeACTEntity`, `ScheduleGts`, `PurgeDsmeACT` | superframe |
| Beacons of a coordinator | superframe index, beacon events, time of the parent's beacon | `MlmeStartRequest`, `EndStartRequest`, `SendOneEnhancedBeacon`, `StartMultisuperframe`, `StartSuperframe`, `StartRemainingPeriod` | everything |
| Group ACK | bitmaps, buffers of sequence numbers | `SendLegacyGroupAck`, `SendEnhancedGroupAck`, hashing and probing | MAC data path |
| Beacon tracking | tracking event, lost beacons | `MlmeSyncRequest`, `BeaconSearchTimeout` | MAC |

What is hard in it, and hard to test: a request that overrides a turnaround in
progress; a frame whose end event survives the abort of the frame; state that a
callback changes while its caller is halfway; a channel hop during a turnaround,
a reception or a transmission; two parts that measure the CAP from different
instants; MAC states that are set now and states that are scheduled to be set
"now"; an IFS, a slot and a reception that all move the MAC; a queue whose head
is assumed to be what was sent; nodes whose slots, channels and periods agree only
as long as they hear the same beacons; timers of different nodes that end at the
same instant; and acknowledgements that two sides compute separately. `PROJECT.json` lists these hazards with
their lines and the properties that cover them.

## Modules

| Module | Models |
|---|---|
| `LrWpanPhy` | the transceiver, one action per function or branch of a function |
| `PhySap` | `LrWpanPhy` under an arbitrary user of its service access points; its properties |
| `CsmaContract` | what CSMA-CA promises to the MAC (abstract specification) |
| `LrWpanCsmaCa` | CSMA-CA on a clock of symbols, with the superframe around it |
| `LrWpanMac` | the MAC of a device, composed with CSMA-CA and with `LrWpanPhy` |
| `DsmeSuperframe` | the timers of all MACs of a PAN on one event queue: beacons, periods, multisuperframes, GTSs, hopping, group ACK slots, beacon tracking |
| `GroupAck` | legacy and enhanced group acknowledgements between a coordinator and its devices |
| `PhySapProofs`, `LrWpanCsmaCaProofs`, `LrWpanMacProofs`, `LrWpanMacSafety`, `DsmeSuperframeProofs`, `GroupAckProofs` | the TLAPS proofs about the module of that name |
| `DsmeTimingProofs`, `DsmeSafety` | the TLAPS proofs about `DsmeSuperframe` that need the order of events |
| `MCPhySap`, `MCLrWpanCsmaCa`, `MCLrWpanMac`, `MCDsmeSuperframe`, `MCGroupAck` | instances for TLC |

Definitions have the names of the functions they model; variables have the names
of the members without `m_`. Where a function is one long `if`, each branch has
a name of its own (`SameState`, `ForceOff`, ... are branches of
`PlmeSetTRXStateRequest`). Definitions marked "Faulty variant of ..." are
mutations: each property of a passing run is violated when one of them replaces
the definition it stands before.

**The call stack.** The variable `calls` of `LrWpanPhy` is the stack of
synchronous calls. A function takes its call off and puts in its place the calls
it makes. `EndTx` and `EndRx` call back in their middle; the part after the
callback is a call of its own (`EndTxTail`, `EndRxTail`), so whatever the
callback did to the transceiver is seen by it, as in the code. Likewise
`StartGTS` continues as `EnterGts` and `ContinueSending`, `EndGTS` as `LeaveGts`.
Where a PHY function calls back before its last assignment (`CancelEd`, the
TRX_OFF confirm of a channel change, the BUSY confirm of a CCA broken off), the
model assigns first: MAC and CSMA-CA make no PHY call from these callbacks
(`Answered` in `PhySap`).

**Assertions.** `NS_ASSERT`, `NS_FATAL_ERROR`, `NS_ABORT_IF`, a dereferenced null
packet and `front()` of an empty queue set `aborted`, which stops the model.

**Data.** Packets, signals and channels are model values; what matters of them
(AckReq bit, beacon, length class, option) is given by sets. Whether a signal is
strong enough, is destroyed by interference, or is sensed by a CCA is a
nondeterministic choice within what the code's state allows.

**Time.** `LrWpanPhy` and `LrWpanMac` leave durations out: any scheduled event may
be next. `LrWpanCsmaCa` has a clock, because its correctness is about durations.
Its instance has the real durations of the 2.4 GHz PHY and of the shortest
superframe, in units of 2 symbols (one octet), which divides all of them.
`DsmeSuperframe` has the simulator's queue itself, a set of events: a step runs
the first one, and events at the same time run in the order in which they were
scheduled, as `DefaultSimulatorImpl` does with its `m_uid` (of which the model
keeps the order among events at the same time, so that it stays small). `GroupAck` has slots in their
cyclic order and no durations.

**One event queue, several MACs.** In `DsmeSuperframe` the record `mac[n]` holds
the members of one `LrWpanMac` (`out` and `inc` are `m_outSuperframeStatus` and
`m_incSuperframeStatus`, `idx` is `m_curSuperframeIDx`, `isFirst` is
`m_isFirstSuperframe`, `bcnStart` is `m_startOfBcnSlot`, `parentStart` is
`m_startOfBcnSlotOfSyncParent`, and so on) and each handler is one action. A
beacon is the turnaround, its first symbol (`StartTx`, where it is decided who can
hear it) and its end: `EndTx`, with `PdDataConfirm` at the sender, and one `EndRx`,
with `PdDataIndication`, for each node that hears it. These are events of one
instant, the sender's first: the PHY takes the propagation delay off the duration
of a reception (`lr-wpan-phy.cc:439`), and schedules `EndTx` before the signal
reaches anyone. All nodes have the PAN coordinator
for their parent, as in `scratch/dsme-EGACK-tree.cc`.

## Runs

| Run | Expected | Question |
|---|---|---|
| `phy_sap` | pass | is the transceiver sound under any sequence of requests? |
| `phy_busy_rx` | violation | does BUSY_RX mark a reception? |
| `csma` | pass | does CSMA-CA keep to the CAP and to its contract? |
| `csma_overrun` | violation | does it keep to the CAP of the MAC? |
| `csma_cancel` | violation | is a cancelled round silent? |
| `mac` | pass | do MAC, CSMA-CA, PHY and slots work together? |
| `mac_confirm` | violation | is the packet that is confirmed the one that was sent? |
| `mac_access_failure` | violation | does the MAC go on after a channel access failure? |
| `dsme` | pass | do the nodes of a PAN keep common slots, channels and periods when beacons get lost? |
| `dsme_delay` | violation | is a coordinator's first beacon ever scheduled in the past? |
| `gack` | pass | does a group ACK confirm exactly what was received? |
| `gack_unique` | violation | is the key of a packet unique? |

### phy_sap and phy_busy_rx

The user issues every request with every argument, from events and from inside
callbacks: one legal and one oversized packet, two signals that may overlap, two
channels and one out of band. `MaxNesting = 2` bounds the depth of the stack at
which a callback makes a request (deep enough for a request from a callback that
has a tail below it); `MaxStale = 1` bounds the EndTx events that were overtaken
by a new transmission. Both are bounds of the user, and the proofs hold for every
value of them. Deadlock is not checked because an aborted PHY stops.

- `SwitchHasTarget`: the abort of `EndSetTRXState` is unreachable.
- `ReceptionIntact`: a frame that will be delivered is being received by a
  receiver that has been in BUSY_RX on one channel since it locked on.
- `AbortedMeansOff`: the assertion in `EndTx` ("See if this is ever entered in
  another state") holds.
- `BusyRxMarksReception` fails: TX_ON during a reception, RX_ON before the
  turnaround is over, end of the signal. `EndRx` believes that the forced
  transmitter has changed the state, and leaves BUSY_RX without a packet. The
  next signal is handed to `CheckInterference`, which reads the null packet.

### csma, csma_overrun and csma_cancel

A short frame without and a long frame with ACK, in the shortest superframe of
the standard (SO = BO = 0, a CAP of 27 backoff periods, a beacon of 17 octets): rounds
start anywhere in it, so up to five backoffs and assessments and the exchange both
fit and do not fit. NB runs through its
default range 0..5. Battery life extension changes from beacon to beacon; the PHY may refuse a
CCA at once.

- `TypeOK` contains the bound on the unsigned `m_randomBackoffPeriodsLeft`.
- `NoNegativeDelay`: no event is scheduled in the past, although a round may
  start a turnaround after the end of the MAC's CAP. It holds because the CAP of
  CSMA-CA is longer by a beacon (see the next finding), and would not hold
  without it: `CsmaConstants` assumes `TurnaroundTime < BeaconSymbols`.
- `TransactionFits`, `DeferredAtCapEnd`: see their comments.
- `ImplementsContract`: refinement of `CsmaContract`, including that each round
  ends. The mapping is: a round is running while `frame` is set; `busy` is NB.
  `StopWhileDeferring = FALSE` keeps beacons from being turned off while a round
  waits for the end of the CAP.
- `TransactionFitsMacCap` fails: `m_macBeaconRxTime` and `m_macBeaconTxTime`
  are meant to be the start of the beacon but are its end, because `MilliSeconds`
  truncates a number of seconds below 1. The MAC ends its CAP one beacon earlier
  than CSMA-CA thinks.
- `CancelledRoundIsSilent` fails with `StopWhileDeferring = TRUE`: `Cancel`
  forgets `m_endCapEvent`.

### mac, mac_confirm and mac_access_failure

One device in a beacon-enabled PAN (`mac_access_failure`: without beacons). `mac`
has four packets for the CAP (short; long, with the long IFS; with AckReq; too
long for the PHY), two GTS packets (with and without AckReq), a queue of 2, TX and RX
slots on the channel of the CAP and on another one (a hop need not change the
channel), and four signals: a beacon, a data frame, a data frame with AckReq, a
group ACK with a bit set, which in a slot takes `m_txPkt` away, schedules MAC_GTS
and starts a long IFS. Forwarding in slots (`m_enhancedGTSForwarding`) is on. One
backoff retry is enough to see both branches of the retry.

The MAC is not made for every environment. The history variable `orderly` says that
none of the following *mishaps* has happened. The code rules none of them out; each
is a step of the model, in the run and in every proof, and the properties of the
MAC that depend on them speak of behaviours up to the first one:

- The transaction that CSMA-CA admitted is not over when the CFP starts
  (`TransactionOver`). CSMA-CA does not prevent it: its CAP is a beacon longer than
  the MAC's (`csma_overrun`). A hop during the transmission then reaches "Error
  changing transceiver state".
- A frame, an IFS or a turnaround is not over at the end of a slot (`SlotFree`): a hop
  during a turnaround fails the assertion of MAC_GTS.
- A foreign signal is in the air when a slot begins, or arrives in a TX slot. Its end
  flips the transmitter to RX_ON, so that `EndTx` makes no confirm.
- The device sends in an RX slot, on behalf of the higher layer or by forwarding. The
  end of an IFS then moves a sending MAC to MAC_GTS, and the assertion of
  `PdDataConfirm` fails; or the transmitter is turned on in the middle of a reception,
  and when that signal ends and the next begins within the turnaround, the PHY is in
  BUSY_RX without a packet, and `CheckInterference` reads the null packet.
- The higher layer sends data without the AckReq bit in a slot: its confirm removes
  a packet from the queue that was not sent (`mac_confirm`).
- Data with the AckReq bit is received by a MAC in MAC_CSMA, which becomes idle while
  its round goes on: two rounds at once.

Each of them is needed: if the model does not count one of them as a mishap, TLC
finds a violation of one of the run's properties. With `Beyond = FALSE` the model
stops after a mishap, since what follows is part of no property; the two other runs
go on (`Beyond = TRUE`), and the proofs are for both.

Three orders hold in every run, because they follow from durations: an event
scheduled with `ScheduleNow` comes before time passes; an IFS is over before the
next frame has been sent, or the next group ACK received; CAP, CFP and beacon follow
one another. Packets in the queue are distinct. Deadlock is checked in `mac`. It has
about 448 000 states.

- `NoAssertionFails`: up to the first mishap no assertion, fatal error or null packet,
  in the MAC or in the PHY below it.
- `OneRound`: up to the first mishap never two CSMA-CA rounds at once.
- `SendsHeadOfQueue`: channel access is for the head of the queue.
- `HopsBetweenFrames`: up to the first mishap a slot never hops away from a frame that
  is being sent or received. The PHY would confirm such a frame with SUCCESS.
- `ChannelOfPeriod`: outside the slots the radio is on the channel of the CAP.
- `OrderlyConfirms`: up to the first mishap the packet that a confirm removes from the
  queue is the one that was sent. `ConfirmsWhatWasSent`, the same without the condition,
  fails in `mac_confirm`: the confirm of a GTS packet without the AckReq bit removes a
  packet that is still waiting for the CAP.
- `SendingEnds`: liveness, under the fairness below.
- `AccessFailureEnds` fails: `SetLrWpanMacState` ignores CHANNEL_ACCESS_FAILURE,
  and the MAC stays in MAC_CSMA for ever. With beacons the next beacon frees it;
  without beacons nothing does.

### dsme and dsme_delay

A PAN coordinator, a coordinator with the second superframe, and a device; beacon
order 6, multisuperframe order 5, superframe order 4, so a beacon interval has two
multisuperframes of two superframes, and the coordinator's superframe is not the
first of a multisuperframe (the case in which CAP reduction takes its CAP away).
Durations are in units of 20 symbols (0.32 ms): a superframe is 768, a beacon
interval 3072, a second 3125, turnaround and beacon 7, the 3 ms before a group ACK
9 and its transmission 4. `EndEarly = 1` stands for the 1 or 10 ns by which a GTS
ends early; only its order with respect to the other events matters. The initial
state chooses CAP reduction on or off, the reaction to a loss of synchronisation
(no callback, a callback that accepts it, one that synchronises again) and one of
three allocation tables: data slots without group ACK slots, with one, and with one
in each superframe, in the last slots (6 and 14). The higher layer of the device may
add one more entry at any time (once: the code accepts the same entry again, and that
the higher layer does not repeat itself is assumed). Entries that a *coordinator* is
given after its start are left out: `ScheduleGts` places them relative to the end of
its own beacon (`lr-wpan-mac.cc:2999`), and `GtsInItsCell` would fail. Coordinator and
device may miss any beacon; the PAN coordinator hears all. `StopTime = 16384` (the bound, `Simulator::Stop`) is five and
a third beacon intervals: enough for the six searches that lead to a loss report,
and for every beacon before it to be lost or heard. Deadlock is not checked because
the simulation ends there.

- `BeaconFindsIdle`: the assertion of `SendOneEnhancedBeacon`. It depends on the
  10 ns by which `EndGTS` is early.
- `BeaconInItsSlot`, `OneGtsAtATime`, `GtsInItsCell`: beacons and GTSs stay in
  their place of the multisuperframe whatever is lost. A device's GTSs are late by
  one beacon, because `m_macBeaconRxTime`, meant to be the beacon's start, is its end.
- `DeafOnlyAfterLastSlot`: the only nodes that cannot hear a beacon are devices
  whose late GTS in the last slot runs into it. That happens in the repository's
  own examples, which use the last slot for group ACKs.
- `SameHop`, `GackHeard`: nodes that both heard the PAN coordinator's last beacon
  are on the same channel in the same cell, and a group ACK finds its receivers
  listening. Of two nodes of which only one heard it, the channels differ.
- `PeriodsAgree`: a device is in a CAP or CFP only when the coordinator it heard
  last is; for devices that have heard the PAN coordinator once (see below), and
  with the one exception of the uninitialised flag:

  `m_firstCFP` and `m_incomingFirstCFP` tell the first part of a CFP that goes on in
  the next superframe from the last one. Neither the constructor nor `DoInitialize`
  sets them (`lr-wpan-mac.h:2622-2624`), and `StartCFP` reads them
  (`lr-wpan-mac.cc:1076`, `1126`). The initial states of `dsme` have them clear, or set
  where it matters (a coordinator's own, a device's incoming one); the proofs have
  any contents. A device whose flag is set enters a CFP with the first superframe that
  has a CAP and lets a second part follow that lasts into the next sender's
  superframe: until it ends, at the time kept in the history variable `misled`, the
  device is in CFP while its sender is in CAP. It happens once per node, and leaves no
  trace: from that time on `PeriodsAgree` holds without exception.
- `SuperframeIdxTracks`: `m_curSuperframeIDx` of the PAN coordinator is right,
  from the second multisuperframe on.
- `LostCount`, `LossMeansMisses`, `LossInTime`: the count of lost beacons is at
  most one ahead of the truth, a loss is reported only after more than
  `aMaxLostBeacons` beacons were missed, and no later than six searches last. The
  last is the safety form of "a loss is eventually reported".
- `DelayIsPositive`: with one coordinator no event is scheduled for the past, also
  when the first beacons are lost. It fails in `dsme_delay` (two coordinators with superframes 1 and
  2, no GTSs, two beacon intervals): a coordinator that misses the PAN coordinator's
  first beacon but hears the other coordinator's schedules its own first beacon
  relative to a parent's beacon at time 0, that is in the past.

Observed in the model and not stated as findings:

- The first search after a received beacon is shorter than a beacon interval
  because `searchSymbols / symbolRate` is an integer division (`lr-wpan-mac.cc:2615`),
  so `m_numLostBeacons` counts a beacon before it is due.
- Without a loss callback, tracking dies silently and `m_beaconTrackingOn` stays
  true. If the callback synchronises again, `m_beaconTrackingOn` is false when the
  callback has returned: the new search ends with the next beacon and is not renewed.
- Outgoing REMAINING is never set when the rest of the beacon interval is shorter
  than a second.
- `m_curSuperframeIDx` lags by one in the first multisuperframe, in which
  `StartSuperframe` runs for the first time.
- A received beacon overwrites the SD index that the own beacon carries; every
  beacon carries 0.
- A device that hears a coordinator before its first beacon of the PAN coordinator
  takes a reduced superframe for one with a CAP, since `m_isFirstSuperframe` starts
  as true.

### gack and gack_unique

Two devices, two superframes that end in a group ACK slot, each data slot used any
number of times up to two packets per device (`MaxSeq`; three in `gack_unique`).
The second table begins again at index 0, so that indices and slot numbers differ,
as they may in the code's legacy policy. Data frames get lost or not, each device
hears a group ACK or not. In `gack` two sums share the hash key 60, from which
probing reaches keys beyond 63; a shift by 64 or more is undefined in C++, so the
initial state chooses between its two outcomes, modulo 64 (x86) and zero. The
uninitialised `m_enhancedGACKBitmap` of every node is empty or has a bit.

`DoQuadraticProb` adds 1, 4, 9, ... to the key until a bit is free, so the n-th key
tried is the first one plus the sum of the first n squares (`Probe`). Modulo 64 the
first 119 sums have every residue; if none of these bits is free the bitmap is full,
the recursion of the code does not return, and the model takes no step
(`ProbingEnds`). The loop of a device over its buffer (`LookupLoop`) is a recursive
function, in which the bits that the device sets for its earlier packets push the
later ones on.

- `TypeOK` contains that no bit beyond the bitmap is set.
- `BitPerPacket`: probing keeps packets apart (after the first reset, in a build
  that shifts modulo 64; with the other outcome a packet may get no bit).
- `ConfirmedOnce`: no packet is confirmed by two group ACKs.
- `ExactWithoutCollision`: if the bitmaps have been reset once and no two of the
  packets concerned share a key, a device confirms exactly those of its packets that
  were received since the last group ACK, lost group ACKs included. With
  collisions, neither direction holds: sender and coordinator probe against
  different bits.
- `ConfirmedWasReceived` fails in `gack_unique`, with a hash without collisions and
  clean bitmaps: the key is made of the *sum* of address and sequence number, and
  devices 1 and 2 share sums. A lost packet of device 1 is confirmed with SUCCESS
  because a packet of device 2 arrived.

### Fairness

The simulator executes every event that was scheduled and not cancelled. In
`LrWpanCsmaCa` this is weak fairness of `Step` (time passes, due events run). In
`LrWpanMac` it is weak fairness of `Handler` (a call in progress runs to its end)
and strong fairness of the timers of PHY and MAC: other events may disable a timer
for a moment, because only one event runs at a time, but the timer's own time
comes. Nothing is assumed about the environment: signals, requests of the higher
layer, slots and beacons need never come. `DsmeSuperframe` and `GroupAck` state
no fairness: their clock makes deadlines safety properties.

## Proofs

Every theorem below is checked by TLAPS for all values of the constants that the
named assumptions of the modules allow (`PhyConstants`, `SapConstants`,
`CsmaConstants`, `MacConstants`, `DsmeConstants`, `DsmeDurations`, `GroupAckConstants`);
TLC evaluates these on the instances of the runs.

| Module | Theorem | Statement |
|---|---|---|
| `PhySapProofs` | `PhyInvariant` | `Spec => []PhyInv` |
| | `PhyTypes` | `Spec => []TypeOK` |
| | `PhySwitchHasTarget` | `Spec => []SwitchHasTarget` |
| | `PhyReceptionIntact` | `Spec => []ReceptionIntact` |
| | `PhyAbortedMeansOff` | `Spec => []AbortedMeansOff` |
| `LrWpanCsmaCaProofs` | `CsmaInvariant` | `Spec => []CsmaInv` |
| | `CsmaNoNegativeDelay` | `Spec => []NoNegativeDelay` |
| | `CsmaTransactionFits` | `Spec => TransactionFits` (action property) |
| | `CsmaTypes` | `~StopWhileDeferring => (Spec => []TypeOK)` |
| | `CsmaDeferredAtCapEnd` | `~StopWhileDeferring => (Spec => DeferredAtCapEnd)` (action property) |
| | `CsmaMeetsContract` | `~StopWhileDeferring => (Spec => Contract!Init /\ [][Contract!Next]_(Contract!vars))` |
| `LrWpanMacProofs` | `MacInvariant` | `Spec => []MacInv` |
| | `MacTypesHold` | `Spec => []TypeOK` |
| | `MacChannelOfPeriod` | `Spec => []ChannelOfPeriod` |
| | `MacSendsHeadOfQueue` | `Spec => []SendsHeadOfQueue` |
| `LrWpanMacSafety` | `MacSafeInvariant` | `Spec => []OrderlyInv`, where `OrderlyInv` is `orderly => SafeInv` |
| | `MacNoAssertionFails` | `Spec => []NoAssertionFails` |
| | `MacOneRound` | `Spec => []OneRound` |
| | `MacHopsBetweenFrames` | `Spec => []HopsBetweenFrames` |
| | `MacOrderlyConfirms` | `Spec => OrderlyConfirms` (action property) |
| `DsmeSuperframeProofs` | `DsmeInvariant` | `Spec => []BeaconInv` |
| | `DsmeTypes` | `Spec => []TypeOK` |
| | `DsmeBeaconInItsSlot` | `Spec => []BeaconInItsSlot` |
| | `DsmeGtsInItsCell` | no late entries for coordinators implies `Spec => []GtsInItsCell` |
| `DsmeTimingProofs` | `DsmeSenders` | `StartsOnce` implies `Spec => []SenderInv` |
| | `DsmeDelays` | `StartsOnce`, `OneCoordinator` and `BI > SD` imply `Spec => []DelayIsPositive` |
| | `DsmeLossInTime` | `StartsOnce` implies `Spec => []LossInTime` |
| | `DsmeLostCount` | `StartsOnce`, `PanStarts` and `BI > SD` imply `Spec /\ []DelayIsPositive => []LostCount` |
| | `DsmeLossMeansMisses` | the same hypotheses, `LossMeansMisses` (action property) |
| | `DsmeOneGtsAtATime` | `StartsOnce`, `Disciplined` imply `Spec /\ []DelayIsPositive => []OneGtsAtATime` |
| `DsmeSafety` | `DsmeBeaconFindsIdle` | the same hypotheses, `[]BeaconFindsIdle` |
| | `DsmeDeafOnlyAfterLastSlot` | the same hypotheses, `[]DeafOnlyAfterLastSlot` |
| | `DsmeSameHop` | `PanStarts` and `BI > SD` besides, `[]SameHop` |
| | `DsmeGackHeard` | `BeaconDelay < GackDelay` besides, `[]GackHeard` |
| | `DsmeSuperframeIdx` | `StartsOnce`, `PanStarts` imply `Spec /\ []DelayIsPositive => []SuperframeIdxTracks` |
| | `DsmePeriodsAgree` | `StartsOnce` implies `Spec /\ []DelayIsPositive => [](CapFollows => PeriodsAgree)` |
| | `DsmeWellConfigured` | `WellConfigured` implies `Spec =>` all properties of the two modules |
| `GroupAckProofs` | `GackInvariant` | `Spec => []GackInv` |
| | `GackTypes` | `Spec => []TypeOK` |
| | `GackBitPerPacket` | `Spec => []BitPerPacket` |
| | `GackConfirmedOnce` | `Spec => []ConfirmedOnce` |
| | `GackExactWithoutCollision` | `Spec => ExactWithoutCollision` (action property) |

**Transceiver.** For every set of packets, signals, channels and requests and every
nesting depth. None of the properties is inductive alone. `SwitchHasTarget` needs
the types (the pending state). `ReceptionIntact` needs `SwitchHasTarget`, since a
turnaround that ends must not find a frame in reception, and one more fact,
`NoReceptionInEndTx`: while `EndTx` waits for its callback to return, no valid frame
is being received, for the state change that `EndTx` makes afterwards would
otherwise take a receiver in BUSY_RX away from its frame. `PhyInv` is the
conjunction of the five. The proof has lemmas on the call stack (what a prefix of
calls adds, what returning removes) and one lemma per function of the PHY, with a
step per branch.

**CSMA-CA.** For every choice of durations, frames and superframe with
`TurnaroundTime < BeaconSymbols`. `CsmaInv` carries a deadline for each event
(`Deadlines`): a backoff ends within the CAP, a CCA that is still to be asked for
leaves room for the CCAs that remain and for the exchange, and a deferral lasts
exactly to the end of the CAP. `TransactionFits` is the deadline of the last CCA.
The deadlines need `OneEvent` (a round has one event, and there is none between
rounds), which the forgotten `m_endCapEvent` of `csma_cancel` breaks; hence the
hypothesis `~StopWhileDeferring` where it is used. `CsmaMeetsContract` is the safety
part of the refinement `ImplementsContract`: each step is one of the contract or
leaves its variables alone. Quotients and remainders of backoff periods are handled
by a few lemmas on division.

**MAC of a device, without assumptions on its environment.** `ChannelOfPeriod`
needs that a hop is never below another call on the stack (`HopRunsFirst`), so
that nothing runs between the request to change the channel and the change.
`SendsHeadOfQueue` speaks of instants at which no state is scheduled, and needs
`QueueInv`: MAC_CSMA is scheduled for the head of the queue alone, and a MAC that
contends has the head or has lost its packet. The bound on NB in `TypeOK` needs
`GivenUp`: a round that gave up has no event left.

**MAC of a device up to the first mishap.** The theorems have no hypothesis: the
environment may do everything, and `orderly` is FALSE from the first mishap on. `SafeInv`
says, for each content of the call stack, how MAC state, scheduled state,
transceiver, pending turnaround, round, IFS, slot and packet fit together: `Global`
holds at every point of every handler, and there is one predicate for the MAC at
rest and one for each call that may be under way (`Turning`, `Requesting`,
`Indicating`, `Sensing`, `HopsIn`, ...). It is an invariant as long as `orderly` holds
(`OrderlyInv`): each step from a state of `SafeInv` leads to another one or is a
mishap. The assertions follow because the states in which one fails are in none of
these predicates, `HopsBetweenFrames` because the hops are in `Entering` and `Leaving`
alone. TLC checked `SafeInv` for all combinations of slotted or not, group ACK or not,
`RxOnWhenIdle` and `ContinueFromCap` before it was proved. The proof uses `MacInv` for
the types.

**PAN, the grids.** For any number of coordinators and devices, any tables, losses,
callbacks, and durations with a beacon shorter than a slot. None of the argument of
`DsmeSuperframeProofs` depends on the order of events: `BeaconInv` says that each event is right from the
moment it is scheduled. A beacon is on the grid of the beacon interval with the
offset of its sender (`EventInSlot`), and so is the beacon from which a period's
handlers compute the next one, since `StartRemainingPeriod` counts from
`m_startOfBcnSlot` and not from the current time. A coordinator's first beacon
counts from `m_startOfBcnSlotOfSyncParent`, which is on the PAN coordinator's grid
also before the first beacon was heard, when it is 0; the slot is right even when
the time is past (`dsme_delay`). For `GtsInItsCell` the PAN coordinator's beacon has
to be on the grid until its last symbol is received (`EventInCell`), and a
coordinator that sends beacons must have all entries scheduled (`EventOfSender`):
`ScheduleGts` at the end of its own beacon would place a new entry relative to the
time of that beacon. That is the case the theorem excludes and the instance of TLC
does not have: entries added later to a coordinator's table.

**PAN, the order of events.** The other properties need to know what else is
pending when an event runs. `DsmeDurations` has the facts about durations that the
code fixes and that these proofs use: a beacon order below 15, a turnaround and a
beacon that take time, a GTS that ends early by less than a slot. The hypotheses
of the theorems are about the scripts:

- `StartsOnce`, `PanStarts`: MLME-START.request comes at most once to a node, and to
  the PAN coordinator. A second request would start a second chain of beacons.
- `[]DelayIsPositive`: no event was scheduled for the past, which the simulator
  would have stopped with an assertion. `DsmeDelays` proves it for one coordinator
  (`OneCoordinator`). With two it is false (`dsme_delay`): the first beacon that a
  coordinator hears may be the other one's.
  `LossInTime` and `SenderInv` need neither.
- `BI > SD`: the beacon interval is longer than one superframe. With `BI = SD` and
  `m_firstCFP` set by chance, a coordinator's second part of the CFP ends after its
  next beacon was due, so that it schedules that beacon for the past, and its
  devices count a beacon that never came. Only the theorems that need it have it.
- `Disciplined`: what the code leaves to whoever fills the allocation tables. The
  entries of a node are in different slots of the CFP, and only devices get entries
  later; a group ACK fits in its slot.
- `BeaconDelay < GackDelay`, for `GackHeard` alone: the receiver's slot is late by one
  beacon, and the wait of 3 ms before a group ACK has to cover it.
- `CapFollows`: with CAP reduction a device takes each superframe but the PAN
  coordinator's to have no CAP, so a coordinator that chose the first
  superframe of a multisuperframe would have a CAP that its devices do not expect.
- `WellConfigured` is the conjunction, over the constants alone. The instance of the
  run `dsme` satisfies it; `DsmeWellConfigured` then has no hypothesis on behaviours.

The argument is a chain of inductive invariants, each using the ones before. TLC
checked them on the instance of `dsme` before they were proved.

1. `SenderInv`: a sender has exactly one event that leads from its last beacon
   to its next one, at a time that is fixed relative to that beacon; whoever is
   receiving receives the last beacon of its sender.
2. `SearchInv`: while a node tracks it has one search, which ends within the time
   that the number of lost beacons allows: `LossInTime`. `MissInv` compares that end
   with the beacons of the PAN coordinator that have come since the last one heard:
   `LostCount`, `LossMeansMisses`.
3. `CellInv`: each entry of a table has at most one pending start and one pending end,
   in its cell, and two cells of a node do not overlap: `OneGtsAtATime`. `GridInv` puts
   the superframes of a sender on the grid of the superframe duration, and `RadioInv`
   says for each MAC whether its radio is on, off or in a GTS, from its pending
   events: `BeaconFindsIdle`, `DeafOnlyAfterLastSlot`.
4. `FreshInv`: a node that heard the PAN coordinator's last beacon has its sequence
   number, and the GTS that is open has the channel computed from it: `SameHop`, and
   with the times of 3 `GackHeard`.
5. `QueueBounded` and `IdxInv`: events are numbered upwards, and of the events that
   end a multisuperframe and that end a superframe at the same time the first was
   scheduled first; so the index is reset before it is incremented:
   `SuperframeIdxTracks`.
6. `AirInv`, `PeriodsInv`, `CapInv` and `AgreeInv`: which beacon is on the air, when the
   periods of a device began relative to the beacon it heard last, which periods
   the sender of that beacon has, and that they are the same: `PeriodsAgree`. The
   sender of the beacon heard last sends no other one for a beacon interval, and the
   device's periods of that beacon are over by then, but for one chain: every incoming
   event of a device is at a time that its last beacon gives (`InTime`), or it is on the
   way to the end of the CFP that an uninitialised flag has started (`Stray`), of which
   there is at most one, up to the time `misled`.

**Group ACK.** For any devices, addresses, hash, cells and initial bitmaps.
`ConfirmedOnce` needs that sequence numbers grow along buffers and histories
(`Sequenced`); `ExactWithoutCollision` needs that after the first reset the bitmap
has exactly the bits of the marked packets if these do not collide, and that a
device's own bitmap is empty between group ACKs (`EnhancedMarks`), and that the
bitmap on the air is still the coordinator's (`GackInItsCell`). Two steps are
induction over data in disguise: that the recursive function of the lookup loop
exists, and what it returns. Both are proved by taking the least index at which
the claim would fail.

Only model-checked:

- Liveness, which is out of the reach of TLAPS: `SendingEnds`, and that every
  round ends in `ImplementsContract`.
- `DsmeSuperframe` with several coordinators, when events are scheduled for the past:
  what the queue does then is checked by no run and covered by no theorem but those
  without `[]DelayIsPositive`.
- The properties that fail, and everything about the constants of the instances.

## Not modelled

- Data traffic together with the timers of several nodes: `LrWpanMac` is one device
  with traffic and any order of slots, `DsmeSuperframe` several nodes without
  traffic, `GroupAck` traffic without time. A coordinator that still sends data
  when its group ACK is due, and fails the assertion of `SendEnhancedGroupAck`, is
  in none of them.
- The fields of the legacy group ACK that no receiver reads (device list, index,
  directions).
- Trees deeper than one level, GTSs of several slots, deferred beacons, the mode
  `m_forDsmeNetDeviceIntegrateWithHigerLayer`, and disassociation (`m_macPanId =
  0xffff`, a workaround in the code). `PurgeDsmeACT` erases nothing, because nothing
  sets the marks it looks for.
- Beacon scheduling and GTS handshakes (DSME-GTS.request and its command frames):
  the MAC keeps their variables, but this version has removed the procedures;
  allocation tables are filled by the scripts.
- The higher layer's reaction inside `m_mcpsDataConfirmCallback` and
  `m_mcpsDataIndicationCallback`: its next request comes as an event.
- Scan, association, indirect transmission and polling, which this version of the
  MAC has removed or reduced to stubs.
- Header serialization, spectrum and error models, net device and helper: no
  protocol state, or floating-point physics.
- PIB attributes other than the channel. A second user that starts a CCA or an ED
  while one is running is excluded (`Allowed` in `PhySap`).
- The upstream ns-3 modules outside `lr-wpan`.

## Plan

1. *Done:* `LrWpanPhy`, `PhySap` and their proofs; `LrWpanCsmaCa` with
   `CsmaContract`; `LrWpanMac`.
2. *Done:* group acknowledgements (`GroupAck`).
3. *Done:* superframe schedule, allocation table and hopping (`DsmeSuperframe`).
4. *Done:* beacon tracking (`DsmeSuperframe`).
5. *Done:* proofs about CSMA-CA and its contract, the MAC of a device, group
   acknowledgements, and the grids of beacons and GTSs.
6. *Done:* proofs about `DsmeSuperframe` that need the order of events; every safety
   property of the run `dsme` is a theorem.
7. Open: a condition on what is heard first under which several coordinators schedule nothing
   for the past, in place of `OneCoordinator`; the composition of `LrWpanMac` with
   `DsmeSuperframe`, whose timers would replace the free order of slots.

## Running

```
tlc -workers 2 -config mac.cfg MCLrWpanMac
tlapm LrWpanMacSafety.tla
```

`tlapm` is called once per proof module; most take some minutes, `DsmeSafety` about a
quarter of an hour.
