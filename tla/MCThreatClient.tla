--------------------------- MODULE MCThreatClient ---------------------------
(***************************************************************************)
(* Three sockets: the one in use and two that are still closing; a list    *)
(* cut to two alerts, so that it overflows; reconnection given up after two*)
(* attempts.                                                               *)
(***************************************************************************)
EXTENDS ThreatClient
=============================================================================
