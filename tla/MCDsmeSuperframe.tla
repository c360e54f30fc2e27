-------------------------- MODULE MCDsmeSuperframe --------------------------
(* TLC instances of DsmeSuperframe in units of 20 symbols (0.32 ms): beacon     *)
(* order 6, multisuperframe order 5, superframe order 4.                       *)
EXTENDS DsmeSuperframe

CONSTANTS p, c1, c2, d

Gts(sf, slot, rx) == [sf |-> sf, slot |-> slot, rx |-> rx, ofs |-> 1]

\* The data slot of the device in superframe 0, the coordinator's slot for the
\* late entry, and group ACKs in the last slot of the given superframes.
Table(data, last, gacks) ==
  LET gack(sf, rx) == IF sf \in gacks THEN <<Gts(sf, last, rx)>> ELSE <<>>
  IN [n \in Nodes |->
       IF n = c1 THEN <<Gts(0, data, TRUE)>> \o gack(0, FALSE) \o <<Gts(1, 2, TRUE)>> \o gack(1, FALSE)
       ELSE IF n = d THEN <<Gts(0, data, FALSE)>> \o gack(0, TRUE) \o gack(1, TRUE)
       ELSE <<>>]

MCTables == [reduced \in BOOLEAN |->
  LET data == IF reduced THEN 8 ELSE 0
      last == IF reduced THEN 14 ELSE 6
  IN {Table(data, last, gacks) : gacks \in {{}, {0}, {0, 1}}}]

EmptyTables == [reduced \in BOOLEAN |-> {[n \in Nodes |-> <<>>]}]

MCLate == {[node |-> d, entry |-> Gts(1, 2, FALSE)]}

MCSdIndex == [c \in Coords |-> IF c = c1 THEN 1 ELSE 2]

\* The flags that are never initialised are clear, or those that a property
\* depends on are set: a device's incoming one, a coordinator's own.
Flags(set) == [n \in Nodes |-> [out |-> set /\ n \notin Devices, inc |-> set /\ n \in Devices]]
MCFlags == {Flags(FALSE), Flags(TRUE)}
ClearFlags == {Flags(FALSE)}

Request(n, handler) == [node |-> n, do |-> handler]
MCBoot == << Request(d, "SyncRequest"), Request(c1, "SyncRequest"),
             Request(p, "StartRequest"), Request(c1, "StartRequest") >>
TwoCoordsBoot == << Request(p, "StartRequest"), Request(c1, "StartRequest"),
                    Request(c2, "StartRequest") >>
=============================================================================
