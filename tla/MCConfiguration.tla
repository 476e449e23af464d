--------------------------- MODULE MCConfiguration ---------------------------
(***************************************************************************)
(* The two ends of a change of the configuration, which share no state, as *)
(* one state machine: the editors of the panel, and the gate with its      *)
(* audit log on the server.  A behaviour stays at one end and leaves the   *)
(* other as it was at first.                                               *)
(***************************************************************************)
EXTENDS SuperUserAudit, ConfigForms, TLC

VARIABLE end

Symmetry == Permutations(Requests)

\* Two objects with values, of a kind each, one without, and a new one.
MCObjects == {"cm1", "sec", "pool", New}
MCTypeOf  == "cm1" :> "configmap" @@ "sec" :> "secret" @@ "pool" :> "ippool" @@ New :> "configmap"

\* The gate is not at work while the editors are: of its beginnings one is enough.
Unused ==
    /\ passwordSet /\ redisSteady
    /\ kind       = [r \in Requests |-> "write"]
    /\ credential = [r \in Requests |-> "good"]

ConfigurationInit ==
    /\ end \in {"panel", "server"}
    /\ Init /\ FormInit
    /\ IF end = "panel" THEN Unused ELSE unlocked

\* The panel may stop, where the bounds on what the user does end; the server may not.
Stops == end = "panel" /\ UNCHANGED <<vars, formVars>>

ConfigurationNext ==
    /\ UNCHANGED end
    /\ \/ end = "server" /\ Next /\ UNCHANGED formVars
       \/ end = "panel" /\ FormNext /\ UNCHANGED vars
       \/ Stops

ConfigurationSpec == ConfigurationInit /\ [][ConfigurationNext]_<<end, vars, formVars>>
=============================================================================
