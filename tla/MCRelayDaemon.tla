--------------------------- MODULE MCRelayDaemon ---------------------------
(* Instances of RelayDaemon for TLC. *)
EXTENDS RelayDaemon

CONSTANTS e1, e2, p1, p2, a1
=============================================================================
