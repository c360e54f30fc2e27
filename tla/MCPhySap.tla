------------------------------- MODULE MCPhySap -------------------------------
(* TLC instance of PhySap: every request of the PLME and PD interfaces, one  *)
(* packet of legal and one of illegal size, two channels and one outside the *)
(* band, two signals that may overlap.                                       *)
EXTENDS PhySap

CONSTANTS p1, pBig, s1, s2, c11, c12, c27

MCRequests ==
  ({"PlmeSetTRXStateRequest"} \X TrxRequests)
    \cup ({"PdDataRequest"} \X {p1, pBig})
    \cup ({"PlmeSetAttributeRequest"} \X {c11, c12, c27})
    \cup ({"PlmeCcaRequest", "PlmeEdRequest", "CcaCancel", "CancelPdDataRequest"} \X {NONE})
=============================================================================
