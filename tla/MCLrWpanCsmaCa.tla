--------------------------- MODULE MCLrWpanCsmaCa ---------------------------
(* TLC instance of LrWpanCsmaCa with the durations of the 2.4 GHz PHY and of *)
(* the shortest superframe (SO = BO = 0).  One unit of time is 2 symbols, one*)
(* octet, which divides them all: a backoff period is 10, a CCA 4, a         *)
(* turnaround 6, the wait for an ACK 27; the superframe is 480, its beacon   *)
(* and CAP 9 slots of 30, a beacon of 17 octets 23 with its PHY header.      *)
EXTENDS LrWpanCsmaCa

\* MPDUs of 11 and of 26 octets, followed by the short and the long IFS.
MCFrames == {[tx |-> 17, ifs |-> 6, ack |-> FALSE], [tx |-> 32, ifs |-> 20, ack |-> TRUE]}
=============================================================================
