--------------------------- MODULE MCThreatStream ---------------------------
(***************************************************************************)
(* A webhook request of up to two events and two browsers, which share a   *)
(* pool of two connections (filled and emptied in every order) or of three *)
(* (one for everybody).                                                    *)
(***************************************************************************)
EXTENDS ThreatStream, TLC

Symmetry == Permutations(Deliveries) \cup Permutations(Sockets)
=============================================================================
