---------------------------- MODULE MCThreatVault ----------------------------
(***************************************************************************)
(* Two overlapping webhook requests of at most two values each, on a list  *)
(* cut to two entries: up to four pushes, so that the cap is passed twice. *)
(***************************************************************************)
EXTENDS ThreatVault
=============================================================================
