-------------------------- MODULE MCDashboardFetch --------------------------
(***************************************************************************)
(* One core source and one extra source, which the tab "cni-health" fetches*)
(* too; the initial load, the button and a background refresh overlap.  The*)
(* cluster changes once, when a backend in mock mode gives way to a live   *)
(* one.                                                                    *)
(***************************************************************************)
EXTENDS DashboardFetch

MCCore      == <<"nodes">>
MCFetcherOf == [t \in {"cni-health"} |-> "felix"]
=============================================================================
