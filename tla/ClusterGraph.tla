---------------------------- MODULE ClusterGraph ----------------------------
(***************************************************************************)
(* The topology graph, from the cluster to the diagram: get_cni_topology   *)
(* (calico_service.py) lists the nodes, the pods, the services and the BGP *)
(* peers one after the other while the cluster goes on;                    *)
(* CniTopologyPanel.tsx adapts the answer, and Topology.tsx hands its      *)
(* elements to cytoscape, which refuses an edge without its two ends.      *)
(***************************************************************************)
EXTENDS FiniteSets

CONSTANTS
    Machines,    \* nodes that may be in the cluster
    Workers,     \* pods that may be, each on a machine or on none yet
    Members,     \* Members[s]: the pods that service s selects
    Peerings     \* BGP peers: [node, ip]

VARIABLES
    machines,    \* the machines in the cluster
    place,       \* place[w]: where pod w is
    listing,     \* the listings that the request under way has made
    machineList, podList, peerList,
    moved        \* machines that joined or left since the first listing

graphVars == <<machines, place, listing, machineList, podList, peerList, moved>>

Gone    == "gone"
Pending == "pending"

NoPods  == [w \in Workers |-> Gone]

GraphInit ==
    /\ machines = Machines
    /\ place = [w \in Workers |-> Pending]
    /\ listing = {}
    /\ machineList = {} /\ podList = NoPods /\ peerList = {}
    /\ moved = {}
-----------------------------------------------------------------------------
(* The cluster *)

Join(m) ==
    /\ m \notin machines
    /\ machines' = machines \cup {m}
    /\ moved'    = moved \cup {m}
    /\ UNCHANGED <<place, listing, machineList, podList, peerList>>

\* A machine leaves; the pods that were on it go on being listed for a while.
Leave(m) ==
    /\ m \in machines
    /\ machines' = machines \ {m}
    /\ moved'    = moved \cup {m}
    /\ UNCHANGED <<place, listing, machineList, podList, peerList>>

\* A pod comes, is bound to a machine, or goes; the garbage collector removes it
\* when its machine has left.
Place(w, where) ==
    /\ where # place[w]
    /\ where \in machines => place[w] = Pending
    /\ where = Pending => place[w] = Gone
    /\ place' = [place EXCEPT ![w] = where]
    /\ UNCHANGED <<machines, listing, machineList, podList, peerList, moved>>
-----------------------------------------------------------------------------
(* get_cni_topology: one await after the other *)

\* The listings start anew; pods of machines that left before may still be listed.
ListNodes ==
    /\ listing = {}
    /\ listing'     = {"nodes"}
    /\ machineList' = machines
    /\ moved'       = {place[w] : w \in Workers} \ (machines \cup {Gone, Pending})
    /\ UNCHANGED <<machines, place, podList, peerList>>

ListPods ==
    /\ listing = {"nodes"}
    /\ listing' = {"nodes", "pods"}
    /\ podList' = place
    /\ UNCHANGED <<machines, place, machineList, peerList, moved>>

\* The services come in between and do not change here.  A failed listing of the
\* peers is swallowed.
ListPeers ==
    /\ listing = {"nodes", "pods"}
    /\ listing'  = {"nodes", "pods", "peers"}
    /\ peerList' \in {Peerings, {}}
    /\ UNCHANGED <<machines, place, machineList, podList, moved>>

Complete == listing = {"nodes", "pods", "peers"}

PodsListed == {w \in Workers : podList[w] # Gone}
-----------------------------------------------------------------------------
(* Slips: what a definition would be after a plausible mistake in its code. *)

\* A pod that is not scheduled yet has a node like any other.
HostsOfAll == {podList[w] : w \in PodsListed}
-----------------------------------------------------------------------------
(* The elements *)

\* node_names_with_pods
Hosts == {podList[w] : w \in PodsListed} \ {Pending}

BgpEdges     == {<<b.node, b.ip>> : b \in peerList}
OverlayEdges == {e \in Hosts \X Hosts : e[1] # e[2]}
ServiceEdges == {e \in PodsListed \X DOMAIN Members : e[1] \in Members[e[2]]}

\* The answer has no node for a BGP peer: adaptedTopology makes one.
Nodes == machineList \cup PodsListed \cup DOMAIN Members \cup {e[2] : e \in BgpEdges}

Edges == BgpEdges \cup OverlayEdges \cup ServiceEdges

\* The answer reaches the panel, and the diagram is built anew.
Show ==
    /\ Complete
    /\ listing' = {}
    /\ machineList' = {} /\ podList' = NoPods /\ peerList' = {}
    /\ UNCHANGED <<machines, place, moved>>

GraphNext ==
    \/ ListNodes \/ ListPods \/ ListPeers \/ Show
    \/ \E m \in Machines : Join(m) \/ Leave(m)
    \/ \E w \in Workers, where \in machines \cup {Pending, Gone} : Place(w, where)

GraphSpec == GraphInit /\ [][GraphNext]_graphVars
-----------------------------------------------------------------------------
\* cytoscape finds both ends of every edge, or the page shows an error: an end is
\* missing only when its machine joined or left while the answer was put together
\* (or left before, with pods of it still listed), or when a BGP peer names a
\* machine that is not in the cluster.
EdgesHaveEnds ==
    Complete =>
        \A e \in Edges : \A end \in {e[1], e[2]} \ Nodes :
            end \in moved \/ e[2] \in {b.ip : b \in Peerings}
=============================================================================
