------------------------------ MODULE MCGroupAck ------------------------------
(* TLC instances of GroupAck: two devices with the addresses 1 and 2, two     *)
(* superframes that end in a group ACK slot.  The table of the second one     *)
(* begins again at index 0, so that there indices and slots differ.           *)
EXTENDS GroupAck

CONSTANTS d1, d2

MCAddr == [d \in Devices |-> IF d = d1 THEN 1 ELSE 2]

GtsCell(slot, idx, d) == [slot |-> slot, idx |-> idx, dev |-> d]

MCCells == << GtsCell(0, 0, d1), GtsCell(1, 1, d2), GtsCell(6, 2, NONE),
              GtsCell(2, 0, d1), GtsCell(6, 1, NONE) >>

\* Sums 1 and 2 share the last key of the hash, from which probing leaves the
\* 64 bits; the other sums have a key of their own.
MCHash == [s \in 0..5 |-> IF s \in {1, 2} THEN 60 ELSE s]

\* Every sum has its own key.
InjectiveHash == [s \in 0..5 |-> 7 * s]
=============================================================================
