---------------------------- MODULE CsmaContract ----------------------------
(***************************************************************************)
(* What LrWpanCsmaCa promises to the MAC: between Start and Cancel it makes*)
(* one report, and no report outside.  Channel access fails after exactly  *)
(* MaxCSMABackoffs + 1 busy assessments, not before and not later.         *)
(***************************************************************************)
EXTENDS Naturals

CONSTANT MaxCSMABackoffs \* m_macMaxCSMABackoffs

VARIABLES
  phase,   \* "RUNNING" between Start and the report or Cancel, else "IDLE"
  busy,    \* the busy assessments of the round
  verdict  \* the report that ended the last round; "NONE" if there was none

vars == <<phase, busy, verdict>>

Init == phase = "IDLE" /\ busy = 0 /\ verdict = "NONE"

Start ==
  /\ phase = "IDLE"
  /\ phase' = "RUNNING" /\ busy' = 0 /\ verdict' = "NONE"

SenseBusy ==
  /\ phase = "RUNNING" /\ busy < MaxCSMABackoffs
  /\ busy' = busy + 1
  /\ UNCHANGED <<phase, verdict>>

GiveUp ==
  /\ phase = "RUNNING" /\ busy = MaxCSMABackoffs
  /\ busy' = busy + 1
  /\ phase' = "IDLE" /\ verdict' = "CHANNEL_ACCESS_FAILURE"

Report ==
  /\ phase = "RUNNING"
  /\ phase' = "IDLE" /\ verdict' \in {"CHANNEL_IDLE", "MAC_CSMA_DEFERRED"}
  /\ UNCHANGED busy

Cancel ==
  /\ phase = "RUNNING"
  /\ phase' = "IDLE"
  /\ UNCHANGED <<busy, verdict>>

Conclude == GiveUp \/ Report \/ Cancel

Next == Start \/ SenseBusy \/ Conclude

\* Every round comes to an end.
Spec == Init /\ [][Next]_vars /\ WF_vars(Conclude)
=============================================================================
