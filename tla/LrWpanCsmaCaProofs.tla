-------------------------- MODULE LrWpanCsmaCaProofs --------------------------
(***************************************************************************)
(* Proofs about CSMA-CA, for every choice of the durations, the frames and *)
(* the superframe that CsmaConstants allows.                               *)
(*                                                                         *)
(* The invariant carries the deadline of each event: it says, for whatever *)
(* is scheduled in a superframe, how much of the CAP is still left when it *)
(* fires.  The properties follow, because an event acts on the deadline of *)
(* the one before it.                                                      *)
(***************************************************************************)
EXTENDS LrWpanCsmaCa, TLAPS

\* TypeOK but for the bound on NB.
Types ==
  /\ mode \in Modes
  /\ battLifeExt \in BOOLEAN
  /\ NB \in Nat
  /\ CW \in 0..2
  /\ BE \in 0..MaxBE
  /\ randomBackoffPeriodsLeft \in 0..MaxDraw
  /\ ccaRequestRunning \in BOOLEAN
  /\ DOMAIN timer \subseteq Events
  /\ \A e \in DOMAIN timer : timer[e] \in Nat
  /\ elapsed \in 0..BeaconInterval
  /\ frame \in Frames \cup {NONE}
  /\ verdict \in Verdicts
  /\ aborted = FALSE

\* The events of the slotted algorithm belong to it.
EventsOfMode ==
  /\ mode # "beacon" => "canProceed" \notin DOMAIN timer
  /\ mode = "searching" => "endCap" \notin DOMAIN timer

\* No end of the CAP outlived the superframe.
Orderly == mode # "nonbeacon" \/ ~StopWhileDeferring

\* A round has one event, and between rounds there is none; a CCA under way is
\* one that is awaited.
OneEvent ==
  Orderly =>
    /\ frame = NONE => DOMAIN timer = {}
    /\ frame # NONE => \E e \in Events : DOMAIN timer = {e}
    /\ "endCca" \in DOMAIN timer => ccaRequestRunning
    /\ mode # "beacon" => "endCap" \notin DOMAIN timer

\* The number of busy assessments of a round in progress.
BackoffsBounded ==
  Orderly =>
    /\ NB <= MaxCSMABackoffs + 1
    /\ frame # NONE => NB <= MaxCSMABackoffs

\* What is left of the CAP when the next event fires.
Deadlines ==
  mode = "beacon" /\ frame # NONE =>
    /\ CW \in 1..2
    /\ \A e \in DOMAIN timer \cap {"randomBackoff", "canProceed"} :
         elapsed + timer[e] <= CapSymbols
    /\ "endCap" \in DOMAIN timer => elapsed + timer["endCap"] = CapSymbols
    /\ "requestCca" \in DOMAIN timer =>
         elapsed + timer["requestCca"] + CW * CcaSymbols + Exchange(frame) <= CapSymbols
    /\ "endCca" \in DOMAIN timer =>
         elapsed + timer["endCca"] + (CW - 1) * CcaSymbols + Exchange(frame) <= CapSymbols

\* A round in progress has not been reported.
NotReported == frame # NONE => verdict = "NONE"

CsmaInv ==
  Types /\ EventsOfMode /\ OneEvent /\ BackoffsBounded /\ Deadlines /\ NotReported

-----------------------------------------------------------------------------
(* Arithmetic *)

\* Quotient and remainder.
LEMMA DivisionFacts ==
  ASSUME NEW x \in Nat, NEW U \in Nat \ {0}
  PROVE  /\ x \div U \in Nat /\ x % U \in 0..U - 1
         /\ x = U * (x \div U) + (x % U)
OBVIOUS

\* Multiplying by a natural number keeps the order.
LEMMA Monotone ==
  ASSUME NEW a \in Nat, NEW b \in Nat, NEW U \in Nat, a <= b
  PROVE  U * a <= U * b
<1>1. b - a \in Nat /\ U * (b - a) = U * b - U * a
  OBVIOUS
<1>2. U * (b - a) >= 0 /\ U * b \in Nat /\ U * a \in Nat
  BY <1>1
<1> QED
  BY <1>1, <1>2

\* The backoff boundary after an instant of the CAP is still in the CAP, because
\* the CAP is a whole number of backoff periods.
LEMMA SlotInCap ==
  ASSUME NEW x \in Nat, NEW c \in Nat, NEW U \in Nat \ {0}, x < c, c % U = 0
  PROVE  U - (x % U) \in Nat /\ x + (U - (x % U)) <= c
<1> DEFINE q == x \div U
           r == c \div U
<1>1. /\ q \in Nat /\ r \in Nat /\ x % U \in 0..U - 1
      /\ x = U * q + (x % U) /\ c = U * r
  BY DivisionFacts
<1> HIDE DEF q, r
<1>2. q < r
  <2>1. SUFFICES ASSUME r <= q PROVE FALSE
    BY <1>1
  <2>2. U * r <= U * q
    BY <2>1, <1>1, Monotone
  <2> QED
    BY <2>2, <1>1
<1>3. U * (q + 1) <= U * r
  BY <1>2, <1>1, Monotone
<1>4. U * (q + 1) = U * q + U
  BY <1>1
<1> QED
  BY <1>1, <1>3, <1>4

\* The periods that fit in what is left of the CAP are not more than those to
\* wait, so randomBackoffPeriodsLeft does not wrap around.
LEMMA PeriodsLeft ==
  ASSUME NEW T \in Nat, NEW p \in Nat, NEW U \in Nat \ {0}, p * U >= T
  PROVE  p - (T \div U) \in 0..p
<1> DEFINE q == T \div U
<1>1. q \in Nat /\ T >= U * q
  BY DivisionFacts
<1> HIDE DEF q
<1>2. q <= p
  <2>1. SUFFICES ASSUME p + 1 <= q PROVE FALSE
    BY <1>1
  <2>2. U * (p + 1) <= U * q
    BY <2>1, <1>1, Monotone
  <2>3. U * (p + 1) = p * U + U
    OBVIOUS
  <2> QED
    BY <2>2, <2>3, <1>1
<1> QED
  BY <1>1, <1>2 DEF q

-----------------------------------------------------------------------------
(* The scheduled events *)

\* The event that fires in an orderly state is the only one, and belongs to a
\* round.
LEMMA Alone ==
  ASSUME CsmaInv, Orderly, NEW e, Fires(e)
  PROVE  frame # NONE /\ frame \in Frames /\ DOMAIN timer = {e}
BY DEF CsmaInv, Types, OneEvent, Fires

\* Rescheduling replaces the event that fires by the next one.
LEMMA Rescheduled ==
  ASSUME Types, NEW e, NEW next \in Events, NEW delay \in Nat, e # next,
         Reschedule(e, next, delay)
  PROVE  /\ DOMAIN timer' = (DOMAIN timer \ {e}) \cup {next}
         /\ timer'[next] = delay
         /\ DOMAIN timer' \subseteq Events
         /\ \A x \in DOMAIN timer' : timer'[x] \in Nat
BY DEF Types, Reschedule, With, Without

\* Consuming removes it.
LEMMA Consumed ==
  ASSUME Types, NEW e, Consume(e)
  PROVE  /\ DOMAIN timer' = DOMAIN timer \ {e}
         /\ DOMAIN timer' \subseteq Events
         /\ \A x \in DOMAIN timer' : timer'[x] \in Nat
BY DEF Types, Consume, Without

\* The exchange of a frame takes a natural number of symbols.
LEMMA ExchangeNat ==
  ASSUME NEW f \in Frames
  PROVE  Exchange(f) \in Nat
BY CsmaConstants DEF Exchange

-----------------------------------------------------------------------------
(* Each action keeps the invariant *)

LEMMA StartInv ==
  ASSUME CsmaInv, NEW f \in Frames, Start(f)
  PROVE  CsmaInv'
<1> USE DEF Start, csmaVars, roundVars, clockVars
<1>1. /\ DOMAIN timer' = DOMAIN timer \cup {"randomBackoff"}
      /\ IsSlotted => timer'["randomBackoff"] = TimeToNextSlot
      /\ ~IsSlotted => timer'["randomBackoff"] = 0
      /\ \A e \in DOMAIN timer \ {"randomBackoff"} : timer'[e] = timer[e]
  BY DEF With
<1>2. IsSlotted => /\ TimeToNextSlot \in Nat
                   /\ elapsed + TimeToNextSlot <= CapSymbols
  <2>1. SUFFICES ASSUME IsSlotted
                 PROVE  TimeToNextSlot \in Nat /\ elapsed + TimeToNextSlot <= CapSymbols
    OBVIOUS
  <2>2. elapsed \in Nat /\ elapsed < CapSymbols
    BY <2>1, CsmaConstants DEF CsmaInv, Types, MacCapEnd
  <2> QED
    BY <2>2, SlotInCap, CsmaConstants DEF TimeToNextSlot
<1>3. Types'
  BY <1>1, <1>2, CsmaConstants DEF CsmaInv, Types, Events, Verdicts, Minimum
<1>4. EventsOfMode'
  BY <1>1 DEF CsmaInv, EventsOfMode
<1>5. OneEvent'
  BY <1>1, CsmaConstants DEF CsmaInv, OneEvent, Orderly, Events
<1>6. BackoffsBounded' /\ NotReported'
  BY CsmaConstants DEF BackoffsBounded, NotReported
<1>7. Deadlines'
  BY <1>1, <1>2 DEF CsmaInv, OneEvent, Orderly, Deadlines, IsSlotted
<1> QED
  BY <1>3, <1>4, <1>5, <1>6, <1>7 DEF CsmaInv

\* RandomBackoffDelay never finds the CAP over, so it never asks for a negative
\* delay.
LEMMA BackoffInCap ==
  ASSUME CsmaInv, Fires("randomBackoff"), IsSlotted
  PROVE  ~CapIsOver /\ TimeLeftInCap \in Nat
<1>1. frame # NONE
  BY Alone DEF IsSlotted, Orderly
<1>2. elapsed + 0 <= CapSymbols
  BY <1>1 DEF CsmaInv, Deadlines, Fires, IsSlotted
<1> QED
  BY <1>2, CsmaConstants DEF CapIsOver, TimeLeftInCap, CsmaInv, Types

LEMMA RandomBackoffDelayInv ==
  ASSUME CsmaInv, RandomBackoffDelay
  PROVE  CsmaInv'
<1> USE DEF csmaVars, roundVars, clockVars
<1>1. /\ Fires("randomBackoff")
      /\ UNCHANGED <<NB, CW, BE, ccaRequestRunning, roundVars, clockVars>>
  BY DEF RandomBackoffDelay
<1>2. PICK drawn \in 0..MaxDraw :
        \/ UnslottedBackoff(Backoff(drawn))
        \/ BackoffBeyondCap(Backoff(drawn))
        \/ BackoffWithinCap(Backoff(drawn))
  BY BackoffInCap DEF RandomBackoffDelay
<1> DEFINE periods == Backoff(drawn)
<1>3. periods \in 0..MaxDraw /\ periods * UnitBackoffPeriod \in Nat
  BY CsmaConstants DEF Backoff, CsmaInv, Types
<1> HIDE DEF periods
<1>4. Orderly => frame # NONE /\ DOMAIN timer = {"randomBackoff"}
  BY <1>1, Alone
<1>5. CASE UnslottedBackoff(periods)
  <2>1. /\ DOMAIN timer' = (DOMAIN timer \ {"randomBackoff"}) \cup {"requestCca"}
        /\ DOMAIN timer' \subseteq Events
        /\ \A x \in DOMAIN timer' : timer'[x] \in Nat
    BY <1>3, <1>5, Rescheduled DEF UnslottedBackoff, Events, CsmaInv
  <2>2. Types'
    BY <1>1, <1>3, <1>5, <2>1 DEF UnslottedBackoff, CsmaInv, Types
  <2>3. EventsOfMode' /\ OneEvent' /\ BackoffsBounded' /\ NotReported'
    BY <1>1, <1>4, <2>1
    DEF CsmaInv, EventsOfMode, OneEvent, BackoffsBounded, NotReported, Orderly, Events
  <2>4. Deadlines'
    BY <1>1, <1>5 DEF UnslottedBackoff, IsSlotted, Deadlines
  <2> QED
    BY <2>2, <2>3, <2>4 DEF CsmaInv
<1>6. CASE BackoffBeyondCap(periods)
  <2>1. IsSlotted /\ mode = "beacon" /\ Orderly /\ TimeLeftInCap \in Nat
    BY <1>1, <1>6, BackoffInCap DEF BackoffBeyondCap, IsSlotted, Orderly
  <2>2. DOMAIN timer' = {"endCap"} /\ timer'["endCap"] = TimeLeftInCap
    BY <1>4, <1>6, <2>1, Rescheduled DEF BackoffBeyondCap, Events, CsmaInv
  <2>3. randomBackoffPeriodsLeft' \in 0..MaxDraw
    <3>1. periods - (TimeLeftInCap \div UnitBackoffPeriod) \in 0..periods
      BY <1>3, <1>6, <2>1, PeriodsLeft, CsmaConstants DEF BackoffBeyondCap
    <3> QED
      BY <1>3, <1>6, <3>1, CsmaConstants DEF BackoffBeyondCap
  <2>4. Types'
    BY <1>1, <1>6, <2>1, <2>2, <2>3 DEF BackoffBeyondCap, CsmaInv, Types, Events
  <2>5. EventsOfMode' /\ OneEvent' /\ BackoffsBounded' /\ NotReported'
    BY <1>1, <1>4, <2>1, <2>2
    DEF CsmaInv, EventsOfMode, OneEvent, BackoffsBounded, NotReported, Orderly, Events
  <2>6. Deadlines'
    BY <1>1, <1>4, <2>1, <2>2, CsmaConstants
    DEF CsmaInv, Types, Deadlines, TimeLeftInCap
  <2> QED
    BY <2>4, <2>5, <2>6 DEF CsmaInv
<1>7. CASE BackoffWithinCap(periods)
  <2>1. IsSlotted /\ mode = "beacon" /\ Orderly
    BY <1>7 DEF BackoffWithinCap, IsSlotted, Orderly
  <2>2. DOMAIN timer' = {"canProceed"} /\ timer'["canProceed"] = periods * UnitBackoffPeriod
    BY <1>3, <1>4, <1>7, <2>1, Rescheduled DEF BackoffWithinCap, Events, CsmaInv
  <2>3. Types'
    BY <1>1, <1>3, <1>7, <2>2 DEF BackoffWithinCap, CsmaInv, Types, Events
  <2>4. EventsOfMode' /\ OneEvent' /\ BackoffsBounded' /\ NotReported'
    BY <1>1, <1>4, <2>1, <2>2
    DEF CsmaInv, EventsOfMode, OneEvent, BackoffsBounded, NotReported, Orderly, Events
  <2>5. timer'["canProceed"] < CapSymbols - elapsed
    BY <1>7, <2>2 DEF BackoffWithinCap, TimeLeftInCap
  <2>6. Deadlines'
    BY <1>1, <1>3, <1>4, <2>1, <2>2, <2>5, CsmaConstants DEF CsmaInv, Types, Deadlines
  <2> QED
    BY <2>3, <2>4, <2>6 DEF CsmaInv
<1> QED
  BY <1>2, <1>5, <1>6, <1>7 DEF periods

LEMMA CanProceedInv ==
  ASSUME CsmaInv, CanProceed
  PROVE  CsmaInv'
<1> USE DEF csmaVars, roundVars, clockVars
<1>1. mode = "beacon" /\ Orderly /\ Fires("canProceed")
  BY DEF CanProceed, Fires, CsmaInv, EventsOfMode, Orderly
<1>2. frame # NONE /\ frame \in Frames /\ DOMAIN timer = {"canProceed"}
  BY <1>1, Alone
<1>3. /\ TimeLeftInCap \in Nat /\ elapsed \in Nat /\ elapsed + TimeLeftInCap = CapSymbols
      /\ CW \in 1..2
  BY <1>1, <1>2, CsmaConstants DEF CsmaInv, Types, Deadlines, Fires, TimeLeftInCap
<1>4. /\ UNCHANGED <<NB, CW, BE, ccaRequestRunning, roundVars, clockVars, aborted>>
      /\ randomBackoffPeriodsLeft' = 0
  BY DEF CanProceed
<1>5. CASE Reschedule("canProceed", "endCap", TimeLeftInCap)
  <2>1. DOMAIN timer' = {"endCap"} /\ timer'["endCap"] = TimeLeftInCap
    BY <1>2, <1>3, <1>5, Rescheduled DEF Events, CsmaInv
  <2>2. Types'
    BY <1>3, <1>4, <2>1, CsmaConstants DEF CsmaInv, Types, Events
  <2>3. EventsOfMode' /\ OneEvent' /\ BackoffsBounded' /\ NotReported'
    BY <1>1, <1>2, <1>4, <2>1
    DEF CsmaInv, EventsOfMode, OneEvent, BackoffsBounded, NotReported, Orderly, Events
  <2>4. Deadlines'
    BY <1>2, <1>3, <1>4, <2>1 DEF Deadlines
  <2> QED
    BY <2>2, <2>3, <2>4 DEF CsmaInv
<1>6. CASE /\ ~(TransactionSymbols(frame) > TimeLeftInCap)
           /\ Reschedule("canProceed", "requestCca", 0)
  <2>1. DOMAIN timer' = {"requestCca"} /\ timer'["requestCca"] = 0
    BY <1>2, <1>6, Rescheduled DEF Events, CsmaInv
  <2>2. Types'
    BY <1>4, <2>1, CsmaConstants DEF CsmaInv, Types, Events
  <2>3. EventsOfMode' /\ OneEvent' /\ BackoffsBounded' /\ NotReported'
    BY <1>1, <1>2, <1>4, <2>1
    DEF CsmaInv, EventsOfMode, OneEvent, BackoffsBounded, NotReported, Orderly, Events
  <2>4. elapsed + 0 + CW * CcaSymbols + Exchange(frame) <= CapSymbols
    <3>1. CcaSymbols * CW \in Nat /\ CcaSymbols * CW = CW * CcaSymbols
      BY <1>3, CsmaConstants
    <3> QED
      BY <1>2, <1>3, <1>6, <3>1, ExchangeNat, CsmaConstants DEF TransactionSymbols
  <2>5. Deadlines'
    BY <1>2, <1>3, <1>4, <2>1, <2>4 DEF Deadlines, Exchange
  <2> QED
    BY <2>2, <2>3, <2>5 DEF CsmaInv
<1> QED
  BY <1>5, <1>6 DEF CanProceed

LEMMA DeferCsmaTimeoutInv ==
  ASSUME CsmaInv, DeferCsmaTimeout
  PROVE  CsmaInv'
<1> USE DEF DeferCsmaTimeout, csmaVars, roundVars, clockVars
<1>1. /\ DOMAIN timer' = DOMAIN timer \ {"endCap"}
      /\ DOMAIN timer' \subseteq Events
      /\ \A x \in DOMAIN timer' : timer'[x] \in Nat
  BY Consumed DEF CsmaInv
<1>2. Types'
  BY <1>1 DEF CsmaInv, Types, Verdicts
<1>3. EventsOfMode' /\ OneEvent' /\ BackoffsBounded' /\ Deadlines' /\ NotReported'
  BY <1>1, Alone
  DEF CsmaInv, EventsOfMode, OneEvent, BackoffsBounded, Deadlines, NotReported, Orderly
<1> QED
  BY <1>2, <1>3 DEF CsmaInv

\* An assessment is over, or could not be made, within the CAP.
LEMMA AssessmentInCap ==
  ASSUME CsmaInv, NEW e \in {"requestCca", "endCca"}, Fires(e), IsSlotted
  PROVE  /\ elapsed + Exchange(frame) <= CapSymbols
         /\ elapsed <= CapSymbols
         /\ CW \in 1..2
<1>1. /\ frame # NONE /\ Exchange(frame) \in Nat /\ CW \in 1..2
      /\ elapsed \in Nat /\ CapSymbols \in Nat /\ timer[e] = 0
  <2>1. frame # NONE /\ frame \in Frames
    BY Alone DEF IsSlotted, Orderly
  <2>2. CW \in 1..2
    BY <2>1 DEF CsmaInv, Deadlines, IsSlotted
  <2>3. elapsed \in Nat /\ CapSymbols \in Nat /\ timer[e] = 0
    BY CsmaConstants DEF CsmaInv, Types, Fires
  <2> QED
    BY <2>1, <2>2, <2>3, ExchangeNat
<1>2. CW * CcaSymbols \in Nat /\ (CW - 1) * CcaSymbols \in Nat
  BY <1>1, CsmaConstants
<1>3. \E used \in Nat : elapsed + 0 + used + Exchange(frame) <= CapSymbols
  BY <1>1, <1>2 DEF CsmaInv, Deadlines, Fires, IsSlotted
<1> QED
  BY <1>1, <1>3

LEMMA ChannelSensedBusyInv ==
  ASSUME CsmaInv, NEW e \in {"requestCca", "endCca"}, Fires(e), ChannelSensedBusy(e),
         ccaRequestRunning' \in BOOLEAN,
         UNCHANGED <<randomBackoffPeriodsLeft, clockVars, aborted>>
  PROVE  CsmaInv'
<1> USE DEF csmaVars, roundVars, clockVars
<1>1. Orderly => frame # NONE /\ DOMAIN timer = {e}
  BY Alone
<1>2. /\ NB' = NB + 1 /\ BE' \in 0..MaxBE /\ CW' \in 0..2
      /\ IsSlotted => CW' = 2
  BY CsmaConstants DEF ChannelSensedBusy, Minimum, CsmaInv, Types
<1>3. CASE /\ NB' > MaxCSMABackoffs /\ Consume(e) /\ frame' = NONE
           /\ verdict' = "CHANNEL_ACCESS_FAILURE"
  <2>1. /\ DOMAIN timer' = DOMAIN timer \ {e}
        /\ DOMAIN timer' \subseteq Events
        /\ \A x \in DOMAIN timer' : timer'[x] \in Nat
    BY <1>3, Consumed DEF CsmaInv
  <2>2. Types'
    BY <1>2, <1>3, <2>1 DEF CsmaInv, Types, Verdicts
  <2>3. EventsOfMode' /\ OneEvent' /\ Deadlines' /\ NotReported'
    BY <1>1, <1>3, <2>1 DEF CsmaInv, EventsOfMode, OneEvent, Deadlines, NotReported, Orderly
  <2>4. BackoffsBounded' /\ NotReported'
    BY <1>1, <1>2, <1>3, CsmaConstants DEF CsmaInv, Types, BackoffsBounded, NotReported, Orderly
  <2> QED
    BY <2>2, <2>3, <2>4 DEF CsmaInv
<1>4. CASE /\ ~(NB' > MaxCSMABackoffs) /\ Reschedule(e, "randomBackoff", 0)
           /\ UNCHANGED roundVars
  <2>1. /\ DOMAIN timer' = (DOMAIN timer \ {e}) \cup {"randomBackoff"}
        /\ timer'["randomBackoff"] = 0
        /\ DOMAIN timer' \subseteq Events
        /\ \A x \in DOMAIN timer' : timer'[x] \in Nat
    BY <1>4, Rescheduled DEF CsmaInv, Events
  <2>2. Types'
    BY <1>2, <1>4, <2>1 DEF CsmaInv, Types
  <2>3. EventsOfMode' /\ OneEvent' /\ NotReported'
    BY <1>1, <1>4, <2>1 DEF CsmaInv, EventsOfMode, OneEvent, NotReported, Orderly, Events
  <2>4. BackoffsBounded' /\ NotReported'
    BY <1>2, <1>4, CsmaConstants DEF CsmaInv, Types, BackoffsBounded, NotReported, Orderly
  <2>5. Deadlines'
    <3>1. SUFFICES ASSUME IsSlotted PROVE Deadlines'
      BY DEF IsSlotted, Deadlines
    <3>2. DOMAIN timer' = {"randomBackoff"} /\ elapsed + 0 <= CapSymbols
      <4>1. elapsed <= CapSymbols /\ elapsed \in Nat
        <5>1. elapsed <= CapSymbols
          BY <3>1, AssessmentInCap
        <5> QED
          BY <5>1 DEF CsmaInv, Types
      <4> QED
        BY <1>1, <2>1, <3>1, <4>1 DEF IsSlotted, Orderly
    <3> QED
      BY <1>2, <1>4, <2>1, <3>1, <3>2 DEF Deadlines
  <2> QED
    BY <2>2, <2>3, <2>4, <2>5 DEF CsmaInv
<1> QED
  BY <1>3, <1>4 DEF ChannelSensedBusy

LEMMA RequestCCAInv ==
  ASSUME CsmaInv, RequestCCA
  PROVE  CsmaInv'
<1> USE DEF csmaVars, roundVars, clockVars
<1>1. /\ Fires("requestCca")
      /\ UNCHANGED <<randomBackoffPeriodsLeft, clockVars, aborted>>
  BY DEF RequestCCA
<1>2. CASE /\ ccaRequestRunning' = TRUE
           /\ Reschedule("requestCca", "endCca", CcaSymbols)
           /\ UNCHANGED <<NB, CW, BE, roundVars>>
  <2>1. Orderly => frame # NONE /\ frame \in Frames /\ DOMAIN timer = {"requestCca"}
    BY <1>1, Alone
  <2>2. /\ DOMAIN timer' = (DOMAIN timer \ {"requestCca"}) \cup {"endCca"}
        /\ timer'["endCca"] = CcaSymbols
        /\ DOMAIN timer' \subseteq Events
        /\ \A x \in DOMAIN timer' : timer'[x] \in Nat
    BY <1>2, Rescheduled, CsmaConstants DEF CsmaInv, Events
  <2>3. Types'
    BY <1>1, <1>2, <2>2 DEF CsmaInv, Types
  <2>4. EventsOfMode' /\ OneEvent' /\ BackoffsBounded' /\ NotReported'
    BY <1>1, <1>2, <2>1, <2>2
    DEF CsmaInv, EventsOfMode, OneEvent, BackoffsBounded, NotReported, Orderly, Events
  <2>5. Deadlines'
    <3>1. SUFFICES ASSUME IsSlotted PROVE Deadlines'
      BY <1>1 DEF IsSlotted, Deadlines
    <3>2. /\ DOMAIN timer' = {"endCca"} /\ CW \in 1..2
          /\ elapsed + 0 + CW * CcaSymbols + Exchange(frame) <= CapSymbols
      BY <1>1, <2>1, <2>2, <3>1 DEF IsSlotted, Orderly, CsmaInv, Deadlines, Fires
    <3>3. elapsed + CcaSymbols + (CW - 1) * CcaSymbols + Exchange(frame) <= CapSymbols
      <4>1. /\ CW = 1 => (CW - 1) * CcaSymbols = 0 /\ CW * CcaSymbols = CcaSymbols
            /\ CW = 2 => (CW - 1) * CcaSymbols = CcaSymbols
                         /\ CW * CcaSymbols = CcaSymbols + CcaSymbols
        BY CsmaConstants
      <4>2. Exchange(frame) \in Nat /\ elapsed \in Nat /\ CcaSymbols \in Nat
        BY <2>1, <3>1, ExchangeNat, CsmaConstants DEF CsmaInv, Types, IsSlotted, Orderly
      <4> QED
        BY <3>2, <4>1, <4>2, CsmaConstants
    <3> QED
      BY <1>1, <1>2, <2>2, <3>2, <3>3 DEF Deadlines, Exchange
  <2> QED
    BY <2>3, <2>4, <2>5 DEF CsmaInv
<1>3. CASE ccaRequestRunning' = FALSE /\ ChannelSensedBusy("requestCca")
  BY <1>1, <1>3, ChannelSensedBusyInv
<1> QED
  BY <1>2, <1>3 DEF RequestCCA

LEMMA ChannelSensedIdleInv ==
  ASSUME CsmaInv, Fires("endCca"), ChannelSensedIdle, ccaRequestRunning' = FALSE,
         UNCHANGED <<randomBackoffPeriodsLeft, clockVars, aborted>>
  PROVE  CsmaInv'
<1> USE DEF csmaVars, roundVars, clockVars
<1>1. Orderly => frame # NONE /\ frame \in Frames /\ DOMAIN timer = {"endCca"}
  BY Alone
<1>2. IsSlotted => CW \in 1..2
  BY AssessmentInCap
<1>3. /\ CW' \in 0..2 /\ UNCHANGED <<NB, BE>>
      /\ IsSlotted => CW' = CW - 1
  BY <1>2 DEF ChannelSensedIdle, CsmaInv, Types
<1>4. CASE Consume("endCca") /\ frame' = NONE /\ verdict' = "CHANNEL_IDLE"
  <2>1. /\ DOMAIN timer' = DOMAIN timer \ {"endCca"}
        /\ DOMAIN timer' \subseteq Events
        /\ \A x \in DOMAIN timer' : timer'[x] \in Nat
    BY <1>4, Consumed DEF CsmaInv
  <2>2. Types'
    BY <1>3, <1>4, <2>1 DEF CsmaInv, Types, Verdicts
  <2>3. EventsOfMode' /\ OneEvent' /\ BackoffsBounded' /\ Deadlines' /\ NotReported'
    BY <1>1, <1>3, <1>4, <2>1
    DEF CsmaInv, EventsOfMode, OneEvent, BackoffsBounded, Deadlines, NotReported, Orderly
  <2> QED
    BY <2>2, <2>3 DEF CsmaInv
<1>5. CASE /\ IsSlotted /\ CW' # 0 /\ Reschedule("endCca", "requestCca", 0)
           /\ UNCHANGED roundVars
  <2>1. Orderly /\ mode = "beacon" /\ mode' = "beacon"
    BY <1>5 DEF IsSlotted, Orderly
  <2>2. DOMAIN timer' = {"requestCca"} /\ timer'["requestCca"] = 0
    BY <1>1, <1>5, <2>1, Rescheduled DEF CsmaInv, Events
  <2>3. Types'
    <3>1. DOMAIN timer' \subseteq Events /\ \A x \in DOMAIN timer' : timer'[x] \in Nat
      BY <2>2 DEF Events
    <3> QED
      BY <1>3, <1>5, <3>1 DEF CsmaInv, Types
  <2>4. EventsOfMode' /\ OneEvent' /\ BackoffsBounded' /\ NotReported'
    BY <1>1, <1>3, <1>5, <2>1, <2>2
    DEF CsmaInv, EventsOfMode, OneEvent, BackoffsBounded, NotReported, Orderly, Events
  <2>5. elapsed + 0 + (CW - 1) * CcaSymbols + Exchange(frame) <= CapSymbols
    BY <1>1, <2>1 DEF CsmaInv, Deadlines, Fires
  <2>6. CW' \in 1..2
    BY <1>2, <1>3, <1>5
  <2>7. Deadlines'
    BY <1>3, <1>5, <2>2, <2>5, <2>6 DEF Deadlines, Exchange
  <2> QED
    BY <2>3, <2>4, <2>7 DEF CsmaInv
<1> QED
  BY <1>4, <1>5 DEF ChannelSensedIdle

LEMMA PlmeCcaConfirmInv ==
  ASSUME CsmaInv, PlmeCcaConfirm
  PROVE  CsmaInv'
<1> USE DEF csmaVars, roundVars, clockVars
<1>1. /\ Fires("endCca")
      /\ UNCHANGED <<randomBackoffPeriodsLeft, clockVars, aborted>>
  BY DEF PlmeCcaConfirm
<1>2. CASE ccaRequestRunning' = FALSE /\ ChannelSensedIdle
  BY <1>1, <1>2, ChannelSensedIdleInv
<1>3. CASE ccaRequestRunning' = FALSE /\ ChannelSensedBusy("endCca")
  BY <1>1, <1>3, ChannelSensedBusyInv
<1>4. CASE /\ ~ccaRequestRunning /\ Consume("endCca")
           /\ UNCHANGED <<NB, CW, BE, ccaRequestRunning, roundVars>>
  <2>1. ~Orderly
    BY <1>1, <1>4 DEF CsmaInv, OneEvent, Fires
  <2>2. /\ DOMAIN timer' = DOMAIN timer \ {"endCca"}
        /\ DOMAIN timer' \subseteq Events
        /\ \A x \in DOMAIN timer' : timer'[x] \in Nat
    BY <1>4, Consumed DEF CsmaInv
  <2> QED
    BY <1>1, <1>4, <2>1, <2>2
    DEF CsmaInv, Types, EventsOfMode, OneEvent, BackoffsBounded, Deadlines, NotReported, Orderly
<1> QED
  BY <1>2, <1>3, <1>4 DEF PlmeCcaConfirm

\* Cancel leaves no event but the end of the CAP, and that one only in a round
\* that waits for it.
LEMMA Cancelled ==
  ASSUME CsmaInv, Cancel
  PROVE  /\ frame' = NONE
         /\ DOMAIN timer' = DOMAIN timer \cap {"endCap"}
         /\ \A x \in DOMAIN timer' : timer'[x] \in Nat
BY DEF Cancel, Without, CsmaInv, Types, Events

LEMMA BeaconInv ==
  ASSUME CsmaInv, Beacon
  PROVE  CsmaInv'
<1> USE DEF Beacon, csmaVars, roundVars, clockVars
<1>1. "endCap" \notin DOMAIN timer
  <2>1. CASE mode = "searching"
    BY <2>1 DEF CsmaInv, EventsOfMode
  <2>2. CASE mode = "beacon" /\ elapsed = BeaconInterval
    <3>1. SUFFICES ASSUME "endCap" \in DOMAIN timer PROVE FALSE
      OBVIOUS
    <3>2. frame # NONE
      BY <2>2, <3>1 DEF CsmaInv, OneEvent, Orderly
    <3>3. BeaconInterval + timer["endCap"] = CapSymbols /\ timer["endCap"] \in Nat
      BY <2>2, <3>1, <3>2 DEF CsmaInv, Types, Deadlines
    <3> QED
      BY <3>3, CsmaConstants
  <2> QED
    BY <2>1, <2>2
<1>2. frame' = NONE /\ DOMAIN timer' = {}
  BY <1>1, Cancelled
<1>3. Types'
  BY <1>2, CsmaConstants DEF CsmaInv, Types, Modes
<1>4. BackoffsBounded' /\ NotReported'
  BY <1>2 DEF CsmaInv, BackoffsBounded, NotReported, Orderly
<1> QED
  BY <1>2, <1>3, <1>4 DEF CsmaInv, EventsOfMode, OneEvent, Deadlines, NotReported, Orderly

LEMMA StopBeaconsInv ==
  ASSUME CsmaInv, StopBeacons
  PROVE  CsmaInv'
<1> USE DEF StopBeacons, csmaVars, roundVars, clockVars
<1>1. /\ frame' = NONE
      /\ DOMAIN timer' = DOMAIN timer \cap {"endCap"}
      /\ \A x \in DOMAIN timer' : timer'[x] \in Nat
  BY Cancelled
<1>2. ~StopWhileDeferring => DOMAIN timer' = {}
  BY <1>1
<1>3. Types'
  BY <1>1, CsmaConstants DEF CsmaInv, Types, Modes, Events
<1>4. BackoffsBounded' /\ NotReported'
  BY <1>1 DEF CsmaInv, BackoffsBounded, NotReported, Orderly
<1> QED
  BY <1>1, <1>2, <1>3, <1>4 DEF CsmaInv, EventsOfMode, OneEvent, Deadlines, NotReported, Orderly

LEMMA TickInv ==
  ASSUME CsmaInv, Tick
  PROVE  CsmaInv'
<1> USE DEF Tick, csmaVars, roundVars, clockVars
<1>1. /\ DOMAIN timer' = DOMAIN timer
      /\ \A e \in DOMAIN timer : timer'[e] = timer[e] - 1 /\ timer'[e] \in Nat
  BY DEF CsmaInv, Types
<1>2. elapsed' \in 0..BeaconInterval /\ (IsSlotted => elapsed' = elapsed + 1)
  <2>1. elapsed \in 0..BeaconInterval /\ BeaconInterval \in Nat
    BY CsmaConstants DEF CsmaInv, Types
  <2>2. CASE IsSlotted /\ elapsed < BeaconInterval /\ elapsed' = elapsed + 1
    BY <2>1, <2>2
  <2>3. CASE ~IsSlotted /\ elapsed' = elapsed
    BY <2>1, <2>3
  <2> QED
    BY <2>2, <2>3
<1>3. Types'
  BY <1>1, <1>2 DEF CsmaInv, Types
<1>4. EventsOfMode' /\ OneEvent' /\ BackoffsBounded' /\ NotReported'
  BY <1>1 DEF CsmaInv, EventsOfMode, OneEvent, BackoffsBounded, NotReported, Orderly
<1>5. Deadlines'
  <2>1. SUFFICES ASSUME IsSlotted, frame # NONE PROVE Deadlines'
    BY DEF Deadlines, IsSlotted
  <2>2. \A e \in DOMAIN timer : elapsed' + timer'[e] = elapsed + timer[e]
    BY <1>1, <1>2, <2>1 DEF CsmaInv, Types
  <2> QED
    BY <1>1, <2>1, <2>2 DEF CsmaInv, Deadlines, IsSlotted, Exchange
<1> QED
  BY <1>3, <1>4, <1>5 DEF CsmaInv

-----------------------------------------------------------------------------
(* The theorems *)

LEMMA InitInv == Init => CsmaInv
<1>1. SUFFICES ASSUME Init PROVE CsmaInv
  OBVIOUS
<1>2. DOMAIN timer = {}
  BY <1>1 DEF Init
<1>3. Types
  <2>1. NB = 0 /\ CW = 2 /\ BE = MinBE /\ randomBackoffPeriodsLeft = 0 /\ elapsed = 0
    BY <1>1 DEF Init
  <2>2. /\ NB \in Nat /\ CW \in 0..2 /\ BE \in 0..MaxBE
        /\ randomBackoffPeriodsLeft \in 0..MaxDraw /\ elapsed \in 0..BeaconInterval
    BY <2>1, CsmaConstants
  <2>3. /\ mode \in Modes /\ battLifeExt \in BOOLEAN /\ ccaRequestRunning \in BOOLEAN
        /\ frame \in Frames \cup {NONE} /\ verdict \in Verdicts /\ aborted = FALSE
    BY <1>1 DEF Init, Modes, Verdicts
  <2> QED
    BY <1>2, <2>2, <2>3 DEF Types
<1> QED
  BY <1>1, <1>2, <1>3, CsmaConstants
  DEF Init, CsmaInv, EventsOfMode, OneEvent, BackoffsBounded, Deadlines, NotReported

LEMMA NextInv == CsmaInv /\ [Next]_vars => CsmaInv'
<1>1. SUFFICES ASSUME CsmaInv, [Next]_vars PROVE CsmaInv'
  OBVIOUS
<1>2. CASE UNCHANGED vars
  <2>1. /\ UNCHANGED <<mode, battLifeExt, NB, CW, BE, randomBackoffPeriodsLeft>>
        /\ UNCHANGED <<ccaRequestRunning, timer, elapsed, frame, verdict, aborted>>
    BY <1>2 DEF vars, csmaVars, roundVars, clockVars
  <2> QED
    BY <1>1, <2>1
    DEF CsmaInv, Types, EventsOfMode, OneEvent, BackoffsBounded, Deadlines, NotReported, Orderly, Exchange
<1>3. ASSUME NEW f \in Frames, Start(f) PROVE CsmaInv'
  BY <1>1, <1>3, StartInv
<1>4. CASE Step
  BY <1>1, <1>4, RandomBackoffDelayInv, CanProceedInv, RequestCCAInv, DeferCsmaTimeoutInv,
     PlmeCcaConfirmInv, TickInv DEF Step
<1> QED
  BY <1>1, <1>2, <1>3, <1>4, BeaconInv, StopBeaconsInv DEF Next

\* The invariant holds in every behaviour of CSMA-CA, slotted or not, whatever
\* the moment MLME-START turns the beacons off.
THEOREM CsmaInvariant == Spec => []CsmaInv
BY InitInv, NextInv, PTL DEF Spec

\* Schedule is never called with a negative delay: GetTimeLeftInCap is not asked
\* after the end of the CAP, for any durations with TurnaroundTime < BeaconSymbols.
THEOREM CsmaNoNegativeDelay == Spec => []NoNegativeDelay
<1>1. CsmaInv => NoNegativeDelay
  BY DEF CsmaInv, Types, NoNegativeDelay
<1> QED
  BY <1>1, CsmaInvariant, PTL

\* The counters, the timers and the clock keep their ranges: at most
\* macMaxCSMABackoffs + 1 busy assessments are counted, and the periods left
\* over by a deferral never wrap around.  (When MLME-START may turn the beacons
\* off while a round is deferred, two rounds can count in NB at once.)
THEOREM CsmaTypes == ~StopWhileDeferring => (Spec => []TypeOK)
<1>1. SUFFICES ASSUME ~StopWhileDeferring PROVE Spec => []TypeOK
  OBVIOUS
<1>2. CsmaInv => TypeOK
  <2>1. SUFFICES ASSUME CsmaInv PROVE TypeOK
    OBVIOUS
  <2>2. NB \in 0..MaxCSMABackoffs + 1
    BY <1>1, <2>1, CsmaConstants DEF CsmaInv, Types, BackoffsBounded, NotReported, Orderly
  <2> QED
    BY <2>1, <2>2 DEF CsmaInv, Types, TypeOK
<1> QED
  BY <1>2, CsmaInvariant, PTL

\* CHANNEL_IDLE is reported by the end of an assessment alone.
LEMMA IdleStep ==
  ASSUME CsmaInv, Next, frame # NONE, verdict' = "CHANNEL_IDLE"
  PROVE  Fires("endCca")
BY DEF CsmaInv, NotReported, Next, Step, Start, RandomBackoffDelay, CanProceed, RequestCCA,
       ChannelSensedBusy, DeferCsmaTimeout, PlmeCcaConfirm, Tick, Beacon, StopBeacons, roundVars

\* When PlmeCcaConfirm reports an idle channel in slotted mode, what follows the
\* assessment fits in the CAP: for all frames, however many assessments and
\* backoffs came after CanProceed looked at the time left.
THEOREM CsmaTransactionFits == Spec => TransactionFits
<1>1. CsmaInv /\ [Next]_vars => [FoundIdle => elapsed + Exchange(frame) <= CapSymbols]_vars
  <2>1. SUFFICES ASSUME CsmaInv, Next, FoundIdle
                 PROVE  elapsed + Exchange(frame) <= CapSymbols
    OBVIOUS
  <2> QED
    BY <2>1, IdleStep, AssessmentInCap DEF FoundIdle
<1> QED
  BY <1>1, CsmaInvariant, PTL DEF Spec, TransactionFits

\* A deferral is reported by DeferCsmaTimeout alone.
LEMMA DeferStep ==
  ASSUME CsmaInv, Next, verdict # "MAC_CSMA_DEFERRED", verdict' = "MAC_CSMA_DEFERRED"
  PROVE  Fires("endCap")
BY DEF Next, Step, Start, RandomBackoffDelay, CanProceed, RequestCCA, ChannelSensedBusy,
       ChannelSensedIdle, DeferCsmaTimeout, PlmeCcaConfirm, Tick, Beacon, StopBeacons, roundVars

\* DeferCsmaTimeout reports at the very end of the CAP, unless MLME-START may
\* turn the beacons off while a round is deferred: its event then survives Cancel.
THEOREM CsmaDeferredAtCapEnd == ~StopWhileDeferring => (Spec => DeferredAtCapEnd)
<1>1. SUFFICES ASSUME ~StopWhileDeferring PROVE Spec => DeferredAtCapEnd
  OBVIOUS
<1>2. CsmaInv /\ [Next]_vars =>
        [verdict # "MAC_CSMA_DEFERRED" /\ verdict' = "MAC_CSMA_DEFERRED" =>
           elapsed = CapSymbols]_vars
  <2>1. SUFFICES ASSUME CsmaInv, Next, verdict # "MAC_CSMA_DEFERRED",
                        verdict' = "MAC_CSMA_DEFERRED"
                 PROVE  elapsed = CapSymbols
    OBVIOUS
  <2>2. Fires("endCap") /\ Orderly
    BY <1>1, <2>1, DeferStep DEF Orderly
  <2>3. frame # NONE /\ mode = "beacon"
    BY <2>1, <2>2, Alone DEF CsmaInv, OneEvent, Fires
  <2>4. elapsed + 0 = CapSymbols /\ elapsed \in Nat
    BY <2>1, <2>2, <2>3 DEF CsmaInv, Types, Deadlines, Fires
  <2> QED
    BY <2>4
<1> QED
  BY <1>2, CsmaInvariant, PTL DEF Spec, DeferredAtCapEnd

\* A busy assessment counts in the contract: the round goes on, or gives up
\* at the one after MaxCSMABackoffs.
LEMMA BusyMeetsContract ==
  ASSUME CsmaInv, NEW e, frame # NONE, NB <= MaxCSMABackoffs, ChannelSensedBusy(e)
  PROVE  Contract!SenseBusy \/ Contract!GiveUp
<1>1. NB \in Nat /\ MaxCSMABackoffs \in Nat /\ NB' = NB + 1
  BY CsmaConstants DEF CsmaInv, Types, ChannelSensedBusy
<1>2. CASE NB + 1 > MaxCSMABackoffs
  <2>1. NB = MaxCSMABackoffs
    BY <1>1, <1>2
  <2> QED
    BY <1>1, <1>2, <2>1 DEF ChannelSensedBusy, Contract!GiveUp
<1>3. CASE ~(NB + 1 > MaxCSMABackoffs)
  <2>1. NB < MaxCSMABackoffs
    BY <1>1, <1>3
  <2> QED
    BY <1>1, <1>3, <2>1 DEF ChannelSensedBusy, Contract!SenseBusy, roundVars
<1> QED
  BY <1>2, <1>3

\* Every step of CSMA-CA is a step of the contract or changes nothing in it.
LEMMA ContractStep ==
  ASSUME ~StopWhileDeferring, CsmaInv, [Next]_vars
  PROVE  [Contract!Next]_(Contract!vars)
<1> USE DEF csmaVars, roundVars, clockVars
<1>1. Orderly /\ (frame # NONE => NB <= MaxCSMABackoffs)
  BY DEF Orderly, CsmaInv, BackoffsBounded
<1>2. CASE UNCHANGED vars
  BY <1>2 DEF vars, Contract!vars
<1>3. ASSUME NEW f \in Frames, Start(f) PROVE Contract!Start
  BY <1>3, CsmaConstants DEF Start, Contract!Start
<1>4. CASE RandomBackoffDelay \/ CanProceed \/ Tick
  BY <1>4 DEF RandomBackoffDelay, CanProceed, Tick, Contract!vars
<1>5. CASE DeferCsmaTimeout
  BY <1>1, <1>5, Alone DEF DeferCsmaTimeout, Contract!Report, Contract!Conclude, Contract!Next
<1>6. CASE RequestCCA
  <2>1. frame # NONE
    BY <1>1, <1>6, Alone DEF RequestCCA
  <2> QED
    BY <1>1, <1>6, <2>1, BusyMeetsContract
    DEF RequestCCA, Contract!Conclude, Contract!Next, Contract!vars
<1>7. CASE PlmeCcaConfirm
  <2>1. frame # NONE /\ ccaRequestRunning
    BY <1>1, <1>7, Alone DEF PlmeCcaConfirm, Fires, CsmaInv, OneEvent
  <2>2. CASE ChannelSensedIdle
    BY <2>1, <2>2
    DEF ChannelSensedIdle, Contract!Report, Contract!Conclude, Contract!Next, Contract!vars
  <2>3. CASE ChannelSensedBusy("endCca")
    BY <1>1, <2>1, <2>3, BusyMeetsContract DEF Contract!Conclude, Contract!Next
  <2> QED
    BY <1>7, <2>1, <2>2, <2>3 DEF PlmeCcaConfirm
<1>8. CASE Beacon \/ StopBeacons
  BY <1>8 DEF Beacon, StopBeacons, Cancel, Contract!Cancel, Contract!Conclude, Contract!Next,
              Contract!vars
<1> QED
  BY <1>2, <1>3, <1>4, <1>5, <1>6, <1>7, <1>8 DEF Next, Step, Contract!Next

\* CSMA-CA implements the safety part of the contract that LrWpanMac relies on:
\* one report for each Start, none after Cancel, and a failure after exactly
\* macMaxCSMABackoffs + 1 busy assessments.
THEOREM CsmaMeetsContract ==
  ~StopWhileDeferring => (Spec => Contract!Init /\ [][Contract!Next]_(Contract!vars))
<1>1. SUFFICES ASSUME ~StopWhileDeferring
               PROVE  Spec => Contract!Init /\ [][Contract!Next]_(Contract!vars)
  OBVIOUS
<1>2. Init => Contract!Init
  BY DEF Init, Contract!Init
<1>3. CsmaInv /\ [Next]_vars => [Contract!Next]_(Contract!vars)
  BY <1>1, ContractStep
<1> QED
  BY <1>2, <1>3, CsmaInvariant, PTL DEF Spec
=============================================================================
