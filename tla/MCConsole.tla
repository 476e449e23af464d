------------------------------ MODULE MCConsole ------------------------------
(***************************************************************************)
(* The parts of the page that share no state, as one state machine: the    *)
(* session of the configuration panel, the assistant, the connectivity     *)
(* tests, the network section, the page around the sections, and the two   *)
(* halves of the topology diagram.  A behaviour stays with one of them,    *)
(* its scene, and leaves the others as they were at first: what each part  *)
(* does is what it does alone.                                             *)
(***************************************************************************)
EXTENDS SuperUserSession, AiChat, Diagnostics, NetworkNav, ClusterGraph, ClusterLayout,
        PageNav, TLC

VARIABLE scene

Scenes == {"session", "chat", "tests", "network", "graph", "layout", "page"}

\* Connectivity tests: a pod, and a service that offers two ports.
MCSpaceOf == "p1" :> "default" @@ "s1" :> "other"
MCPortsOf == "p1" :> {5432} @@ "s1" :> {80, 443}

\* Three policies, two of the same name; "w3" is exposed.
MCImpacts == <<"pol1", "pol2", "pol3">>
MCNameOf  == "pol1" :> "deny" @@ "pol2" :> "web" @@ "pol3" :> "deny"
MCSelects == "pol1" :> {"w1"} @@ "pol2" :> {"w1"} @@ "pol3" :> {"w2"}
MCReaches == [p \in {"pol1", "pol2", "pol3"} |-> IF p = "pol1" THEN {"w3"} ELSE {}]

\* The diagram: one BGP peer of a node of the cluster, one of another.
MCMembers  == "svc" :> {"w1"}
MCPeerings == {[node |-> "m1", ip |-> "ip1"], [node |-> "m9", ip |-> "ip1"]}

\* Rows of up to three boxes, at and beside the numbers where a line of pods is full
\* (5) and where a box outgrows its least height (16).
MCRows == {<<>>, <<0>>, <<5>>, <<6>>, <<16>>, <<6, 0>>, <<21, 11>>, <<1, 2, 16>>}

Still == /\ masters = <<>> /\ workers = <<>> /\ services = 0 /\ orphans = 0 /\ drawn = {}

ConsoleInit ==
    /\ scene \in Scenes
    /\ SessionInit /\ ChatInit /\ DiagInit /\ NavInit /\ GraphInit /\ PageInit
    /\ IF scene = "layout" THEN LayoutInit ELSE Still

ConsoleNext ==
    /\ UNCHANGED scene
    /\ \/ /\ scene = "session" /\ SessionNext
          /\ UNCHANGED <<chatVars, diagVars, navVars, graphVars, layoutVars, pageVars>>
       \/ /\ scene = "chat" /\ ChatNext
          /\ UNCHANGED <<sessionVars, diagVars, navVars, graphVars, layoutVars, pageVars>>
       \/ /\ scene = "tests" /\ DiagNext
          /\ UNCHANGED <<sessionVars, chatVars, navVars, graphVars, layoutVars, pageVars>>
       \/ /\ scene = "network" /\ NavNext
          /\ UNCHANGED <<sessionVars, chatVars, diagVars, graphVars, layoutVars, pageVars>>
       \/ /\ scene = "graph" /\ GraphNext
          /\ UNCHANGED <<sessionVars, chatVars, diagVars, navVars, layoutVars, pageVars>>
       \/ /\ scene = "layout" /\ LayoutNext
          /\ UNCHANGED <<sessionVars, chatVars, diagVars, navVars, graphVars, pageVars>>
       \/ /\ scene = "page" /\ PageNext
          /\ UNCHANGED <<sessionVars, chatVars, diagVars, navVars, graphVars, layoutVars>>

ConsoleSpec ==
    ConsoleInit
        /\ [][ConsoleNext]_<<scene, sessionVars, chatVars, diagVars, navVars, graphVars, layoutVars,
                            pageVars>>
        /\ ChatFairness
=============================================================================
