----------------------------- MODULE MCLrWpanMac -----------------------------
(* TLC instances of LrWpanMac: four packets for the CAP (short, long, with   *)
(* the AckReq bit, too long) and two for a GTS (with and without it); on the *)
(* air a beacon, a data frame, one with the AckReq bit and a group ACK; two  *)
(* channels.                                                                 *)
EXTENDS LrWpanMac

CONSTANTS p1, p2, p3, pBig, g1, g2, b, d, a, k, c11, c12

AllSlots == {"TX", "RX"} \X {c11, c12}
TxSlots == {<<"TX", c12>>}
=============================================================================
