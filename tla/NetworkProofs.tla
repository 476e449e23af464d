--------------------------- MODULE NetworkProofs ---------------------------
(***************************************************************************)
(* The network section of the page: its navigation, for any pods, policies *)
(* and lengths of views; the graph behind the topology diagram, for any    *)
(* cluster; where the diagram draws it, for any rows of nodes, numbers of  *)
(* pods and services, and widths; and the selectors of the policies that   *)
(* it counts pods for, of any length and nesting, over any labels.  They   *)
(* share no state.                                                         *)
(***************************************************************************)
EXTENDS NetworkNav, ClusterGraph, ClusterLayout, SelectorReading, WellFoundedInduction, TLAPS

-----------------------------------------------------------------------------
\* Among natural numbers there is a least one.
LEMMA LeastOf ==
    ASSUME NEW S, S \subseteq Nat, S # {}
    PROVE  \E n \in S : \A k \in S : n <= k
<1>1. IsWellFoundedOn(OpToRel(<, Nat), Nat)
  BY NatLessThanWellFounded
<1>2. PICK n \in S : \A k \in S : ~(<<k, n>> \in OpToRel(<, Nat))
  BY <1>1, WFMin
<1>3. ASSUME NEW k \in S
      PROVE  n <= k
  <2>1. n \in Nat /\ k \in Nat
    OBVIOUS
  <2>2. ~(k < n)
    BY <1>2, <2>1 DEF OpToRel
  <2> QED
    BY <2>1, <2>2
<1> QED
  BY <1>3

-----------------------------------------------------------------------------
(***************************************************************************)
(* The network section.  While the way back is open the offset it leads to *)
(* is in saved, then in the frame, then in the container, unless the table *)
(* is too short for it; and its rows are searched and filtered as they     *)
(* were.                                                                   *)
(***************************************************************************)
NavTyped ==
    /\ view \in Views
    /\ reach \in Nat /\ scroll \in Nat
    /\ saved \in Nat /\ frame \in Nat \cup {Away}
    /\ squeezed \in BOOLEAN

\* The place l that a tag left is found again.
Leads(l) ==
    /\ l.at \in Nat
    /\ filter = l.filter /\ search = l.search
    /\ view \in {"policies", "endpoints"}
    /\ view = "policies"  => saved = l.at /\ hooked = FALSE
    /\ view = "endpoints" => \/ frame = l.at
                             \/ frame = Away /\ (l.at = 0 \/ squeezed \/ scroll = l.at)

WayBack == \A l \in left : Leads(l)

\* The link is there with its place.
Linked == view = "policies" /\ policyView = "impact" /\ origin => left # {}

NavInv == NavTyped /\ WayBack /\ Linked

LEMMA ClampedFacts ==
    ASSUME NEW n \in Nat, NEW r \in Nat
    PROVE  Clamped(n, r) \in Nat /\ (n <= r => Clamped(n, r) = n)
  BY DEF Clamped

\* A new layout keeps the container where it is or clamps it.
LEMMA LaidOutFacts ==
    ASSUME NavTyped, LaidOut
    PROVE  /\ reach' \in Nat /\ scroll' \in Nat
           /\ scroll' = scroll \/ reach' < scroll
<1>1. reach' \in Nat /\ scroll' = Clamped(scroll, reach') /\ scroll \in Nat
  BY NavAssumption DEF LaidOut, NavTyped
<1> QED
  BY <1>1 DEF Clamped

\* A render leaves the offsets what they are.
LEMMA RenderFacts ==
    ASSUME NavTyped, NEW v \in Views, NEW s \in Nat, NEW r, Render(v, s, r), squeezed' \in BOOLEAN
    PROVE  NavTyped' /\ view' = v /\ saved' = s
<1>1. view' = v /\ saved' = s /\ frame' \in {frame, s, Away}
      /\ (UNCHANGED <<reach, scroll>> \/ LaidOut)
  BY DEF Render
<1>2. reach' \in Nat /\ scroll' \in Nat
  BY <1>1, LaidOutFacts DEF NavTyped
<1> QED
  BY <1>1, <1>2 DEF NavTyped

LEMMA NextNavInv == NavInv /\ [NavNext]_navVars => NavInv'
<1> SUFFICES ASSUME NavInv, [NavNext]_navVars
             PROVE  NavInv'
  OBVIOUS
<1>t. NavTyped /\ view \in Views /\ scroll \in Nat /\ reach \in Nat /\ saved \in Nat
      /\ squeezed \in BOOLEAN
  BY DEF NavInv, NavTyped
<1>w. \A l \in left : Leads(l)
  BY DEF NavInv, WayBack
<1>l. ASSUME left' = {}
      PROVE  WayBack'
  BY <1>l DEF WayBack
<1>1. CASE Painted
  <2>1. /\ UNCHANGED <<view, stay, saved, restore, hooked, reach, left>>
        /\ frame' = Away /\ frame \in Nat /\ squeezed' = (reach < frame)
        /\ scroll' = IF frame > 0 THEN Clamped(frame, reach) ELSE scroll
    BY <1>1, <1>t DEF Painted, NavTyped
  <2>2. NavTyped'
    BY <2>1, <1>t, ClampedFacts DEF NavTyped
  <2>3. ASSUME NEW l \in left, view = "endpoints"
        PROVE  l.at = 0 \/ squeezed' \/ scroll' = l.at
    <3>1. frame = l.at
      BY <1>w, <2>1, <2>3 DEF Leads, Away
    <3>2. CASE reach < frame
      <4>1. squeezed'
        BY <2>1, <3>2, Zenon
      <4> QED
        BY <4>1
    <3>3. CASE ~(reach < frame)
      <4>1. frame \in Nat /\ frame <= reach /\ (frame > 0 => scroll' = Clamped(frame, reach))
        BY <1>t, <2>1, <3>3
      <4>2. frame > 0 => scroll' = frame
        BY <1>t, <4>1, ClampedFacts
      <4> QED
        BY <3>1, <4>1, <4>2
    <3> QED
      BY <3>2, <3>3
  <2>4. WayBack'
    <3>1. ASSUME NEW l \in left
          PROVE  Leads(l)'
      BY <1>w, <2>1, <2>3 DEF Leads, stay
    <3> QED
      BY <2>1, <3>1 DEF WayBack
  <2>5. Linked'
    BY <2>1 DEF NavInv, Linked, stay
  <2> QED
    BY <2>2, <2>4, <2>5 DEF NavInv
<1>2. CASE Refetched
  <2>1. /\ LaidOut /\ UNCHANGED <<view, stay, saved, restore, hooked, frame, left>>
        /\ squeezed' = (squeezed \/ (view = "endpoints" /\ \E l \in left : reach' < l.at))
    BY <1>2 DEF Refetched
  <2>2. reach' \in Nat /\ scroll' \in Nat /\ (scroll' = scroll \/ reach' < scroll)
    BY <1>t, <2>1, LaidOutFacts
  <2>3. NavTyped'
    BY <1>t, <2>1, <2>2 DEF NavTyped
  <2>4. WayBack'
    <3>1. ASSUME NEW l \in left
          PROVE  Leads(l)'
      BY <1>w, <2>1, <2>2 DEF Leads, stay
    <3> QED
      BY <2>1, <3>1 DEF WayBack
  <2>5. Linked'
    BY <2>1 DEF NavInv, Linked, stay
  <2> QED
    BY <2>3, <2>4, <2>5 DEF NavInv
<1>3. CASE BackToEndpoints
  <2>1. /\ view = "policies" /\ UNCHANGED <<left, squeezed, search, filter>>
        /\ Render("endpoints", saved, TRUE)
    BY <1>3 DEF BackToEndpoints
  <2>2. NavTyped' /\ view' = "endpoints" /\ saved' = saved
    BY <1>t, <2>1, RenderFacts DEF Views
  <2>3. hooked = FALSE => frame' = saved
    BY <2>1 DEF Render
  <2>4. WayBack'
    <3>1. ASSUME NEW l \in left
          PROVE  Leads(l)'
      BY <1>w, <2>1, <2>2, <2>3 DEF Leads
    <3> QED
      BY <2>1, <3>1 DEF WayBack
  <2> QED
    BY <2>2, <2>4 DEF NavInv, Linked
<1>4. CASE LeaveSection
  <2>1. /\ view' = "cni-health" /\ saved' = 0 /\ frame' = Away /\ squeezed' = FALSE
        /\ LaidOut /\ left' = {}
    BY <1>4 DEF LeaveSection
  <2>2. NavTyped'
    BY <1>t, <2>1, LaidOutFacts DEF NavTyped, Views
  <2> QED
    BY <1>l, <2>1, <2>2 DEF NavInv, Linked
<1>5. ASSUME NEW n \in 0..MaxReach, Scroll(n)
      PROVE  NavInv'
  <2>1. /\ UNCHANGED <<view, stay, saved, restore, hooked, frame, reach, squeezed>>
        /\ scroll' = n /\ n \in Nat
        /\ left' = IF view = "endpoints" THEN {} ELSE left
    BY <1>5, NavAssumption DEF Scroll
  <2>2. NavTyped'
    BY <1>t, <2>1 DEF NavTyped
  <2>3. WayBack'
    <3>1. ASSUME NEW l \in left, view # "endpoints"
          PROVE  Leads(l)'
      BY <1>w, <2>1, <3>1 DEF Leads, stay
    <3> QED
      BY <2>1, <3>1 DEF WayBack
  <2> QED
    BY <2>1, <2>2, <2>3 DEF NavInv, Linked, stay
<1>6. ASSUME NEW v \in Views, Subnav(v)
      PROVE  NavInv'
  <2>1. /\ Render(v, scroll, TRUE) \/ Render(v, saved, restore)
        /\ origin' = FALSE /\ left' = {} /\ squeezed' = squeezed
    BY <1>6 DEF Subnav
  <2>2. NavTyped'
    BY <1>t, <2>1, RenderFacts
  <2> QED
    BY <1>l, <2>1, <2>2 DEF NavInv, Linked
<1>7. CASE \/ \E pv \in PolicyViews : TogglePolicyView(pv)
           \/ \E p \in Policies : PickPolicy(p)
  <2>1. /\ view = "policies" /\ LaidOut
        /\ UNCHANGED <<view, search, filter, saved, restore, hooked, frame, left, squeezed>>
        /\ origin' => origin /\ (policyView' = policyView \/ policyView' # "impact")
    <3>1. ASSUME NEW pv \in PolicyViews, TogglePolicyView(pv)
          PROVE  /\ view = "policies" /\ LaidOut
                 /\ UNCHANGED <<view, search, filter, saved, restore, hooked, frame, left, squeezed>>
                 /\ policyView' = pv /\ origin' = (origin /\ pv # "impact")
      BY <3>1 DEF TogglePolicyView
    <3>2. ASSUME NEW p \in Policies, PickPolicy(p)
          PROVE  /\ view = "policies" /\ LaidOut
                 /\ UNCHANGED <<view, search, filter, saved, restore, hooked, frame, left, squeezed>>
                 /\ policyView' = policyView /\ origin' = origin
      BY <3>2 DEF PickPolicy
    <3> QED
      BY <1>7, <3>1, <3>2, Zenon
  <2>2. NavTyped'
    BY <1>t, <2>1, LaidOutFacts DEF NavTyped
  <2>3. WayBack'
    <3>1. ASSUME NEW l \in left
          PROVE  Leads(l)'
      BY <1>w, <2>1 DEF Leads
    <3> QED
      BY <2>1, <3>1 DEF WayBack
  <2>4. Linked'
    BY <2>1 DEF NavInv, Linked
  <2> QED
    BY <2>2, <2>3, <2>4 DEF NavInv
<1>8. ASSUME NEW p \in Policies, OpenImpact(p)
      PROVE  NavInv'
  <2> DEFINE l == [at |-> scroll, filter |-> filter, search |-> search]
  <2>1. /\ view = "endpoints" /\ Render("policies", scroll, TRUE)
        /\ left' = {l} /\ squeezed' = FALSE /\ UNCHANGED <<search, filter>>
    BY <1>8 DEF OpenImpact
  <2>2. NavTyped' /\ view' = "policies" /\ saved' = scroll
    BY <1>t, <2>1, RenderFacts DEF Views
  <2>3. hooked' = FALSE
    BY <2>1 DEF Render
  <2>4. l.at = scroll /\ l.filter = filter /\ l.search = search
    OBVIOUS
  <2> HIDE DEF l
  <2>5. \A x \in left' : x = l
    BY <2>1
  <2>6. WayBack'
    BY <1>t, <2>1, <2>2, <2>3, <2>4, <2>5 DEF WayBack, Leads
  <2> QED
    BY <2>1, <2>2, <2>6 DEF NavInv, Linked
<1>9. ASSUME NEW w \in Workloads, OpenEndpoint(w)
      PROVE  NavInv'
  <2>1. left' = {} /\ squeezed' = squeezed /\ Render("endpoints", saved, TRUE)
    BY <1>9 DEF OpenEndpoint
  <2>2. NavTyped' /\ view' = "endpoints"
    BY <1>t, <2>1, RenderFacts DEF Views
  <2> QED
    BY <1>l, <2>1, <2>2 DEF NavInv, Linked
<1>10. ASSUME NEW f \in Filters, NEW q \in Workloads \cup {Nowhere}, FilterEndpoints(f, q)
       PROVE  NavInv'
  <2>1. /\ view = "endpoints" /\ UNCHANGED <<view, saved, frame, squeezed>>
        /\ LaidOut /\ left' = {}
    BY <1>10 DEF FilterEndpoints
  <2>2. NavTyped'
    BY <1>t, <2>1, LaidOutFacts DEF NavTyped
  <2> QED
    BY <1>l, <2>1, <2>2 DEF NavInv, Linked
<1>11. CASE UNCHANGED navVars
  BY <1>11 DEF navVars, NavInv, NavTyped, WayBack, Leads, Linked
<1> QED
  BY <1>1, <1>2, <1>3, <1>4, <1>5, <1>6, <1>7, <1>8, <1>9, <1>10, <1>11 DEF NavNext

\* For any pods, policies and lengths of the views, which may change at any moment:
\* the link back is there with the place of the tag that opened the impact, and
\* leads to the rows and the offset that were left, as far as the table reaches.
THEOREM WayBackIsFound == NavSpec => []WayBackHolds
<1>1. NavInit => NavInv
  <2> SUFFICES ASSUME NavInit PROVE NavInv
    OBVIOUS
  <2>1. /\ view = "cni-health" /\ saved = 0 /\ frame = Away /\ scroll = 0 /\ reach \in 0..MaxReach
        /\ left = {} /\ squeezed = FALSE
    BY DEF NavInit
  <2>2. NavTyped
    <3>1. view \in Views /\ frame \in Nat \cup {Away} /\ squeezed \in BOOLEAN
      BY <2>1 DEF Views
    <3>2. reach \in Nat /\ scroll \in Nat /\ saved \in Nat
      BY <2>1, NavAssumption
    <3> QED
      BY <3>1, <3>2 DEF NavTyped
  <2> QED
    BY <2>1, <2>2 DEF NavInv, WayBack, Linked
<1>2. NavInv => WayBackHolds
  <2> SUFFICES ASSUME NavInv PROVE WayBackHolds
    OBVIOUS
  <2>1. LinkLeadsBack
    BY DEF NavInv, WayBack, Leads, Linked, LinkLeadsBack
  <2>2. EndpointsResume
    <3>1. ASSUME NEW l \in left, view = "endpoints"
          PROVE  /\ filter = l.filter /\ search = l.search
                 /\ l.at > 0 /\ frame = Away /\ ~squeezed => scroll = l.at
      <4>1. Leads(l) /\ Away \notin Nat
        BY DEF NavInv, WayBack, Away
      <4> QED
        BY <3>1, <4>1 DEF Leads
    <3> QED
      BY <3>1 DEF EndpointsResume
  <2> QED
    BY <2>1, <2>2 DEF WayBackHolds
<1> QED
  BY <1>1, <1>2, NextNavInv, PTL DEF NavSpec
-----------------------------------------------------------------------------
(***************************************************************************)
(* The graph.  The listings are made in their order, each from the cluster *)
(* as it then is; whatever one of them names and the list of the nodes     *)
(* does not is in moved.                                                   *)
(***************************************************************************)
\* A pod that is listed as being at p has its machine accounted for.
Accounted(p) == p \in machineList \cup moved \cup {Gone, Pending}

GraphInv ==
    /\ listing \in {{}, {"nodes"}, {"nodes", "pods"}, {"nodes", "pods", "peers"}}
    /\ machines \subseteq Machines
    /\ place \in [Workers -> Machines \cup {Gone, Pending}]
    /\ listing # {} => machines \subseteq machineList \cup moved
    /\ listing # {} => \A w \in Workers : Accounted(place[w])
    /\ "pods" \in listing => \A w \in Workers : Accounted(podList[w])
    /\ peerList \subseteq Peerings

LEMMA NextGraphInv == GraphInv /\ [GraphNext]_graphVars => GraphInv'
<1> SUFFICES ASSUME GraphInv, [GraphNext]_graphVars
             PROVE  GraphInv'
  OBVIOUS
<1> USE DEF Accounted
<1>1. CASE ListNodes
  <2>1. \A w \in Workers : place[w] \in machineList' \cup moved' \cup {Gone, Pending}
    BY <1>1 DEF ListNodes
  <2>2. listing' = {"nodes"} /\ "pods" \notin listing'
    BY <1>1 DEF ListNodes
  <2> QED
    BY <1>1, <2>1, <2>2 DEF ListNodes, GraphInv
<1>2. CASE ListPods
  BY <1>2 DEF ListPods, GraphInv
<1>3. CASE ListPeers
  BY <1>3 DEF ListPeers, GraphInv
<1>4. CASE Show
  BY <1>4 DEF Show, GraphInv
<1>5. ASSUME NEW m \in Machines, Join(m) \/ Leave(m)
      PROVE  GraphInv'
  BY <1>5 DEF Join, Leave, GraphInv
<1>6. ASSUME NEW w \in Workers, NEW where \in machines \cup {Pending, Gone}, Place(w, where)
      PROVE  GraphInv'
  BY <1>6 DEF Place, GraphInv
<1>7. CASE UNCHANGED graphVars
  BY <1>7 DEF graphVars, GraphInv
<1> QED
  BY <1>1, <1>2, <1>3, <1>4, <1>5, <1>6, <1>7 DEF GraphNext

\* For any cluster, however it changes between the listings: the diagram has both
\* ends of every edge, but for machines that came or went and for BGP peers.
THEOREM GraphHasEnds == GraphSpec => []EdgesHaveEnds
<1>1. GraphInit => GraphInv
  BY DEF GraphInit, GraphInv
<1>2. GraphInv => EdgesHaveEnds
  <2> SUFFICES ASSUME GraphInv, Complete, NEW e \in Edges, NEW end \in {e[1], e[2]} \ Nodes
               PROVE  end \in moved \/ e[2] \in {b.ip : b \in Peerings}
    BY DEF EdgesHaveEnds
  <2>1. CASE e \in BgpEdges
    BY <2>1 DEF BgpEdges, GraphInv
  <2>2. CASE e \in OverlayEdges
    <3>1. end \in Hosts
      BY <2>2 DEF OverlayEdges
    <3>2. PICK w \in Workers : end = podList[w] /\ end # Gone /\ end # Pending
      BY <3>1 DEF Hosts, PodsListed
    <3> QED
      BY <3>2 DEF GraphInv, Complete, Accounted, Nodes
  <2>3. CASE e \in ServiceEdges
    BY <2>3 DEF ServiceEdges, Nodes
  <2> QED
    BY <2>1, <2>2, <2>3 DEF Edges
<1> QED
  BY <1>1, <1>2, NextGraphInv, PTL DEF GraphSpec
-----------------------------------------------------------------------------
(***************************************************************************)
(* The diagram.  Every rectangle is where a formula of its row, its number *)
(* and the width puts it; a row is as high as its tallest box.             *)
(***************************************************************************)
LEMMA LargerFacts ==
    ASSUME NEW x \in Int, NEW y \in Int
    PROVE  /\ Larger(x, y) \in Int /\ Larger(x, y) >= x /\ Larger(x, y) >= y
           /\ Larger(x, y) \in {x, y}
  BY DEF Larger

\* The height of a box is that of its name, its pods and the room under them.
LEMMA HeightFacts ==
    ASSUME NEW n \in Nat
    PROVE  /\ PodCols = 5
           /\ PodAreaH(n) \in Nat /\ ClusterHeight(n) \in Nat
           /\ ClusterHeight(n) >= 320 /\ ClusterHeight(n) >= 112 + PodAreaH(n)
           /\ \A k \in 0..(n - 1) : 66 * (k \div 5) + 50 <= PodAreaH(n)
<1>1. PodCols = 5
  BY DEF PodCols, Box, Pod
<1> DEFINE lines == (n + 4) \div 5
<1>2. lines \in Nat /\ \A k \in 0..(n - 1) : k \div 5 <= lines - 1
  OBVIOUS
<1>3. Lines(n, PodCols) = lines
  BY <1>1 DEF Lines
<1> HIDE DEF lines
<1>4. PodAreaH(n) = Larger(0, lines * 66 - 16)
  BY <1>2, <1>3 DEF PodAreaH, Span, Pod
<1>5. PodAreaH(n) \in Nat /\ PodAreaH(n) >= lines * 66 - 16
  BY <1>2, <1>4, LargerFacts
<1>6. ClusterHeight(n) = Larger(320, 112 + PodAreaH(n))
  BY <1>5 DEF ClusterHeight, Box
<1>7. ClusterHeight(n) \in Nat /\ ClusterHeight(n) >= 320 /\ ClusterHeight(n) >= 112 + PodAreaH(n)
  BY <1>5, <1>6 DEF Larger
<1>8. ASSUME NEW k \in 0..(n - 1)
      PROVE  66 * (k \div 5) + 50 <= PodAreaH(n)
  <2>1. k \div 5 \in Int
    OBVIOUS
  <2> QED
    BY <1>2, <1>5, <2>1
<1> QED
  BY <1>1, <1>5, <1>7, <1>8

\* A row that is not empty has a tallest box, and it is what Tallest measures.
LEMMA TallestFacts ==
    ASSUME NEW row \in Seq(Nat)
    PROVE  /\ Tallest(row) \in Nat
           /\ \A i \in DOMAIN row : ClusterHeight(row[i]) <= Tallest(row)
<1> DEFINE height(i)  == ClusterHeight(row[i])
           tops(j, n) == j \in 1..n /\ \A i \in 1..n : height(i) <= height(j)
           bad        == {n \in 1..Len(row) : ~\E j \in 1..n : tops(j, n)}
           heights    == {height(i) : i \in DOMAIN row}
<1>1. DOMAIN row = 1..Len(row) /\ Len(row) \in Nat
  OBVIOUS
<1>2. \A i \in 1..Len(row) : height(i) \in Nat
  <2> TAKE i \in 1..Len(row)
  <2>1. row[i] \in Nat
    BY <1>1
  <2> QED
    BY <2>1, HeightFacts
<1>3. CASE row = <<>>
  BY <1>3 DEF Tallest
<1>4. CASE row # <<>>
  <2>1. Len(row) \in 1..Len(row)
    BY <1>4
  <2> HIDE DEF height
  <2>2. bad = {}
    <3> SUFFICES ASSUME bad # {} PROVE FALSE
      OBVIOUS
    <3>1. PICK n \in bad : \A k \in bad : n <= k
      <4>1. bad \subseteq Nat
        OBVIOUS
      <4> QED
        BY <4>1, LeastOf
    <3>2. n # 1
      <4>1. height(1) <= height(1)
        BY <1>2, <2>1
      <4> QED
        BY <4>1
    <3>3. n \in 1..Len(row) /\ n - 1 \in 1..Len(row)
      BY <1>1, <3>2
    <3>8. n - 1 \notin bad
      <4>1. n \in Nat /\ ~(n <= n - 1)
        BY <1>1, <3>3
      <4> QED
        BY <3>1, <4>1
    <3>4. PICK j \in 1..(n - 1) : \A i \in 1..(n - 1) : height(i) <= height(j)
      BY <3>3, <3>8
    <3>5. height(n) \in Nat /\ height(j) \in Nat /\ \A i \in 1..n : height(i) \in Nat
      <4>1. \A i \in 1..n : i \in 1..Len(row)
        BY <1>1, <3>3
      <4>2. j \in 1..Len(row)
        BY <1>1, <3>3
      <4> QED
        BY <1>2, <3>3, <4>1, <4>2
    <3>6. CASE height(n) <= height(j)
      <4>1. \A i \in 1..n : height(i) <= height(j)
        <5> TAKE i \in 1..n
        <5>1. i = n \/ i \in 1..(n - 1)
          OBVIOUS
        <5> QED
          BY <3>4, <3>6, <5>1
      <4>2. j \in 1..n
        OBVIOUS
      <4> QED
        BY <4>1, <4>2
    <3>7. CASE height(j) < height(n)
      <4>1. \A i \in 1..n : height(i) <= height(n)
        <5> TAKE i \in 1..n
        <5>1. i = n \/ i \in 1..(n - 1)
          OBVIOUS
        <5>2. height(i) \in Nat /\ height(n) \in Nat /\ height(j) \in Nat
          BY <3>5
        <5>3. i \in 1..(n - 1) => height(i) <= height(j)
          BY <3>4
        <5>4. CASE i = n
          BY <5>2, <5>4
        <5>5. CASE i \in 1..(n - 1)
          BY <3>7, <5>2, <5>3, <5>5
        <5> QED
          BY <5>1, <5>4, <5>5
      <4>2. n \in 1..n
        OBVIOUS
      <4> QED
        BY <4>1, <4>2
    <3> QED
      BY <3>5, <3>6, <3>7
  <2>3. PICK j \in 1..Len(row) : \A i \in 1..Len(row) : height(i) <= height(j)
    BY <2>1, <2>2
  <2>4. height(j) \in heights /\ \A g \in heights : g <= height(j)
    BY <1>1, <2>3
  <2>5. Tallest(row) = CHOOSE h \in heights : \A g \in heights : g <= h
    BY <1>4 DEF Tallest, height
  <2>6. Tallest(row) \in heights /\ \A g \in heights : g <= Tallest(row)
    BY <2>4, <2>5
  <2>7. Tallest(row) \in Nat /\ \A i \in DOMAIN row : height(i) <= Tallest(row)
    BY <1>1, <1>2, <2>6
  <2> QED
    BY <2>7 DEF height
<1> QED
  BY <1>3, <1>4

Names       == {"master", "worker"}
RowOf(name) == IF name = "master" THEN masters ELSE workers

\* The elements, one by one.
BoxAt(width, name, i) ==
    LET row == RowOf(name)
    IN  Rect("box", <<name, i>>, BoxX(row, i, width), BoxY(row, name, i), Box.w, ClusterHeight(row[i]))

AnchorAt(width, name, i, sx, sy) ==
    LET row == RowOf(name)
    IN  Rect("anchor", <<name, i, sx, sy>>, BoxX(row, i, width) + sx * (Box.w - 2 * Box.pad),
             BoxY(row, name, i) + sy * (ClusterHeight(row[i]) - 2 * Box.pad), 0, 0)

PodAt(width, name, i, k) ==
    LET row == RowOf(name)
        h   == ClusterHeight(row[i])
        x   == BoxX(row, i, width) - Span(PodCols, Pod.w, Pod.gapX) + Pod.w
        y   == BoxY(row, name, i) - h + 2 * Box.header
               + Larger(48, h - Box.header - PodAreaH(row[i])) + Pod.h
    IN  Rect("pod", <<name, i, k>>, x + Cell(k, PodCols, Pod).x, y + Cell(k, PodCols, Pod).y,
             Pod.w, Pod.h)

ServiceAt(width, k) ==
    LET x  == StartX(width) + 2 * (ClusterAreaW + ServiceAreaGap) + Service.w
        at == Cell(k, ServiceCols(width), Service)
    IN  Rect("service", <<k>>, x + at.x, 2 * Box.outer + at.y + Service.h, Service.w, Service.h)

OrphanAt(width, k) ==
    LET at == Cell(k, ClusterAreaW \div (Pod.w + Pod.gapX), Pod)
    IN  Rect("orphan", <<k>>, StartX(width) + at.x + Pod.w, 2 * OrphanTopY + at.y + Pod.h,
             Pod.w, Pod.h)

Drawable == /\ masters \in Seq(Nat) /\ workers \in Seq(Nat)
            /\ services \in Nat /\ orphans \in Nat

LEMMA RowFacts ==
    ASSUME Drawable, NEW name \in Names
    PROVE  /\ RowOf(name) \in Seq(Nat)
           /\ DOMAIN RowOf(name) = 1..Len(RowOf(name)) /\ Len(RowOf(name)) \in Nat
           /\ \A i \in DOMAIN RowOf(name) : RowOf(name)[i] \in Nat
  BY DEF Drawable, RowOf

\* The middle of the diagram: where its columns and rows begin and how far they go.
LEMMA AreaFacts ==
    ASSUME Drawable, NEW width \in Nat
    PROVE  /\ StartX(width) \in Int
           /\ ClusterAreaW \in Nat /\ ClusterAreaW >= 520
           /\ \A name \in Names :
                 /\ RowW(RowOf(name)) \in Nat /\ RowW(RowOf(name)) <= ClusterAreaW
                 /\ RowW(RowOf(name)) >= 576 * Len(RowOf(name)) - 56
           /\ services > 0 => ServiceCols(width) \in {1, 2} /\ ServiceAreaGap = 120
           /\ WorkerTopY \in Nat /\ WorkerTopY >= 48 + Tallest(masters)
           /\ workers # <<>> => WorkerTopY >= 120 + Tallest(masters)
           /\ OrphanTopY \in Nat /\ OrphanTopY >= WorkerTopY + Tallest(workers)
<1>1. ASSUME NEW row \in Seq(Nat)
      PROVE  RowW(row) \in Nat /\ RowW(row) >= 576 * Len(row) - 56
  <2>1. Len(row) \in Nat
    OBVIOUS
  <2>2. RowW(row) = Larger(0, Len(row) * 576 - 56)
    BY DEF RowW, Span, Box
  <2> QED
    BY <2>1, <2>2 DEF Larger
<1>2. masters \in Seq(Nat) /\ workers \in Seq(Nat) /\ services \in Nat /\ orphans \in Nat
  BY DEF Drawable
<1>3. RowW(masters) \in Nat /\ RowW(workers) \in Nat
  BY <1>1, <1>2
<1>4. ClusterAreaW = Larger(520, Larger(RowW(masters), RowW(workers)))
  BY DEF ClusterAreaW, Box
<1>5. /\ ClusterAreaW \in Nat /\ ClusterAreaW >= 520
      /\ RowW(masters) <= ClusterAreaW /\ RowW(workers) <= ClusterAreaW
  BY <1>3, <1>4 DEF Larger
<1>6. \A name \in Names : /\ RowW(RowOf(name)) \in Nat /\ RowW(RowOf(name)) <= ClusterAreaW
                          /\ RowW(RowOf(name)) >= 576 * Len(RowOf(name)) - 56
  BY <1>1, <1>2, <1>5 DEF RowOf
<1>7. /\ ServiceCols(width) \in {0, 1, 2}
      /\ services > 0 => ServiceCols(width) \in {1, 2} /\ ServiceAreaGap = 120
      /\ ServiceAreaGap \in Nat
  <2> DEFINE fit == (28 * width) \div (100 * 140)
  <2>1. fit \in Int
    OBVIOUS
  <2>2. ServiceCols(width) = IF services = 0 THEN 0 ELSE Larger(1, IF fit > 2 THEN 2 ELSE fit)
    BY DEF ServiceCols, Service
  <2> HIDE DEF fit
  <2> QED
    BY <1>2, <2>1, <2>2 DEF Larger, ServiceAreaGap
<1>8. StartX(width) \in Int
  <2>1. Span(ServiceCols(width), Service.w, Service.gapX) \in Int
    BY <1>7 DEF Span, Larger, Service
  <2>2. ContentW(width) \in Int
    BY <1>5, <1>7, <2>1 DEF ContentW
  <2> QED
    BY <2>2 DEF StartX, Larger, Box
<1>9. Tallest(masters) \in Nat /\ Tallest(workers) \in Nat
  BY <1>2, TallestFacts
<1>10. /\ WorkerTopY \in Nat /\ WorkerTopY >= 48 + Tallest(masters)
       /\ workers # <<>> => WorkerTopY >= 120 + Tallest(masters)
  BY <1>9 DEF WorkerTopY, Box
<1>11. OrphanTopY \in Nat /\ OrphanTopY >= WorkerTopY + Tallest(workers)
  BY <1>2, <1>9, <1>10 DEF OrphanTopY, Box
<1> QED
  BY <1>5, <1>6, <1>7, <1>8, <1>10, <1>11

\* Where a box is, and that it keeps clear of what is beside and below it.
BoxPlaced(b, width, name, i) ==
    LET h == ClusterHeight(RowOf(name)[i])
    IN  /\ b.kind = "box" /\ b.id = <<name, i>>
        /\ b.left \in Int /\ b.top \in Int /\ h \in Nat /\ h >= 320
        /\ b.left = StartX(width) + ClusterAreaW - RowW(RowOf(name)) + 1152 * (i - 1)
        /\ b.right = b.left + 1040 /\ b.bottom = b.top + 2 * h
        /\ BoxX(RowOf(name), i, width) = b.left + 520
        /\ BoxY(RowOf(name), name, i) = b.top + h
        /\ b.right <= StartX(width) + 2 * ClusterAreaW
        /\ b.bottom <= 2 * OrphanTopY
        /\ name = "worker" => b.top = 2 * WorkerTopY
        /\ name = "master" /\ workers # <<>> => b.bottom <= 2 * WorkerTopY

LEMMA BoxFacts ==
    ASSUME Drawable, NEW width \in Nat, NEW name \in Names, NEW i \in DOMAIN RowOf(name)
    PROVE  BoxPlaced(BoxAt(width, name, i), width, name, i)
<1> DEFINE row == RowOf(name)
           h   == ClusterHeight(row[i])
           b   == BoxAt(width, name, i)
<1>1. /\ row \in Seq(Nat) /\ i \in 1..Len(row) /\ Len(row) \in Nat
      /\ row[i] \in Nat
  BY RowFacts
<1>2. h \in Nat /\ h >= 320
  BY <1>1, HeightFacts
<1>3. h <= Tallest(row) /\ Tallest(row) \in Nat
  BY <1>1, TallestFacts
<1>4. /\ StartX(width) \in Int /\ ClusterAreaW \in Nat /\ RowW(row) \in Nat
      /\ RowW(row) <= ClusterAreaW /\ RowW(row) >= 576 * Len(row) - 56
  BY AreaFacts
<1>5. BoxX(row, i, width) = StartX(width) + ClusterAreaW - RowW(row) + 1152 * (i - 1) + 520
  BY <1>1, <1>4 DEF BoxX, Box
<1>6. TopOf(name) \in Nat /\ TopOf(name) = IF name = "master" THEN 48 ELSE WorkerTopY
  BY AreaFacts DEF TopOf, Box
<1>7. BoxY(row, name, i) = 2 * TopOf(name) + h
  BY DEF BoxY
<1> HIDE DEF h
<1>8. b = Rect("box", <<name, i>>, BoxX(row, i, width), BoxY(row, name, i), 520, h)
  BY DEF BoxAt, Box, h
<1> HIDE DEF row, b
<1>9. /\ b.kind = "box" /\ b.id = <<name, i>>
      /\ b.left = BoxX(row, i, width) - 520 /\ b.right = BoxX(row, i, width) + 520
      /\ b.top = BoxY(row, name, i) - h /\ b.bottom = BoxY(row, name, i) + h
  BY <1>8 DEF Rect
<1>10. /\ b.left \in Int /\ b.top \in Int /\ b.top = 2 * TopOf(name)
       /\ b.left = StartX(width) + ClusterAreaW - RowW(row) + 1152 * (i - 1)
       /\ b.right = b.left + 1040 /\ b.bottom = b.top + 2 * h
       /\ BoxX(row, i, width) = b.left + 520 /\ BoxY(row, name, i) = b.top + h
       /\ b.right <= StartX(width) + 2 * ClusterAreaW
  <2> DEFINE x == BoxX(row, i, width)
             y == BoxY(row, name, i)
  <2>1. x \in Int /\ x <= StartX(width) + 2 * ClusterAreaW - 520
    <3> DEFINE r == RowW(row)
               l == Len(row)
               a == StartX(width)
               c == ClusterAreaW
    <3>1. x = a + c - r + 1152 * (i - 1) + 520 /\ i \in 1..l /\ l \in Nat
      BY <1>1, <1>5
    <3>2. a \in Int /\ c \in Nat /\ r \in Nat /\ r <= c /\ r >= 576 * l - 56
      BY <1>4
    <3> HIDE DEF r, l, a, c, x
    <3>3. x \in Int /\ x <= a + 2 * c - 520
      BY <3>1, <3>2
    <3> QED
      BY <3>3 DEF a, c
  <2>2. y \in Int /\ TopOf(name) \in Int
    BY <1>2, <1>6, <1>7
  <2> HIDE DEF x, y
  <2>3. b.left = x - 520 /\ b.right = x + 520 /\ b.top = y - h /\ b.bottom = y + h
    BY <1>9 DEF x, y
  <2>4. b.left \in Int /\ b.right = b.left + 1040 /\ x = b.left + 520
    BY <2>1, <2>3
  <2>5. b.top \in Int /\ b.bottom = b.top + 2 * h /\ y = b.top + h
    BY <1>2, <2>2, <2>3
  <2>6. b.top = 2 * TopOf(name)
    BY <1>2, <1>7, <2>2, <2>3 DEF y
  <2>7. b.left = StartX(width) + ClusterAreaW - RowW(row) + 1152 * (i - 1)
    BY <1>1, <1>4, <1>5, <2>3 DEF x
  <2>8. b.right <= StartX(width) + 2 * ClusterAreaW
    BY <1>4, <2>1, <2>3
  <2> QED
    BY <2>4, <2>5, <2>6, <2>7, <2>8 DEF x, y
<1>11. CASE name = "master"
  <2>1. /\ WorkerTopY \in Nat /\ WorkerTopY >= 48 + Tallest(row)
        /\ workers # <<>> => WorkerTopY >= 120 + Tallest(row)
        /\ OrphanTopY \in Nat /\ OrphanTopY >= WorkerTopY + Tallest(workers) /\ Tallest(workers) \in Nat
    BY <1>11, AreaFacts, TallestFacts DEF row, RowOf, Drawable
  <2>2. b.bottom = 96 + 2 * h
    BY <1>2, <1>6, <1>10, <1>11
  <2>3. b.bottom <= 2 * OrphanTopY /\ (workers # <<>> => b.bottom <= 2 * WorkerTopY)
    BY <1>2, <1>3, <2>1, <2>2
  <2> QED
    BY <1>2, <1>9, <1>10, <1>11, <2>3 DEF BoxPlaced, row, h, b
<1>12. CASE name = "worker"
  <2>1. /\ WorkerTopY \in Nat /\ OrphanTopY \in Nat
        /\ OrphanTopY >= WorkerTopY + Tallest(row)
    BY <1>12, AreaFacts DEF row, RowOf
  <2>2. b.top = 2 * WorkerTopY /\ b.bottom <= 2 * OrphanTopY
    BY <1>2, <1>3, <1>6, <1>10, <1>12, <2>1
  <2> QED
    BY <1>2, <1>9, <1>10, <1>12, <2>2 DEF BoxPlaced, row, h, b
<1> QED
  BY <1>11, <1>12 DEF Names

\* A rectangle with corners, and how one of them is made.
Solid(r) == r.left \in Int /\ r.right \in Int /\ r.top \in Int /\ r.bottom \in Int

LEMMA RectFacts ==
    ASSUME NEW kind, NEW id, NEW x \in Int, NEW y \in Int, NEW w \in Int, NEW h \in Int
    PROVE  LET r == Rect(kind, id, x, y, w, h)
           IN  /\ r.kind = kind /\ r.id = id /\ Solid(r)
               /\ r.left = x - w /\ r.right = x + w /\ r.top = y - h /\ r.bottom = y + h
               /\ Free(r).left = r.left /\ Free(r).right = r.right
               /\ Free(r).top = r.top + 144 /\ Free(r).bottom = r.bottom
  BY DEF Rect, Solid, Free, Box

\* Two different places of a grid are in different columns or in different lines.
LEMMA GridFacts ==
    ASSUME NEW cols \in Nat \ {0}, NEW k \in Nat
    PROVE  /\ k % cols \in 0..(cols - 1) /\ k \div cols \in Nat
           /\ \A l \in Nat : k # l => k % cols # l % cols \/ k \div cols # l \div cols
<1>1. k % cols \in 0..(cols - 1) /\ k \div cols \in Nat
  OBVIOUS
<1>2. ASSUME NEW l \in Nat, k % cols = l % cols, k \div cols = l \div cols
      PROVE  k = l
  BY <1>2
<1> QED
  BY <1>1, <1>2

LEMMA BoxSolid ==
    ASSUME Drawable, NEW width \in Nat, NEW name \in Names, NEW i \in DOMAIN RowOf(name)
    PROVE  LET b == BoxAt(width, name, i)
           IN  /\ Solid(b) /\ Free(b).left = b.left /\ Free(b).right = b.right
               /\ Free(b).top = b.top + 144 /\ Free(b).bottom = b.bottom
<1> DEFINE b == BoxAt(width, name, i)
           h == ClusterHeight(RowOf(name)[i])
<1>p. BoxPlaced(b, width, name, i)
  BY BoxFacts
<1>1. b.left \in Int /\ b.top \in Int /\ h \in Nat
  BY <1>p DEF BoxPlaced
<1>2. BoxX(RowOf(name), i, width) = b.left + 520 /\ BoxY(RowOf(name), name, i) = b.top + h
  BY <1>p DEF BoxPlaced
<1>3. b = Rect("box", <<name, i>>, b.left + 520, b.top + h, 520, h)
  BY <1>2 DEF BoxAt, Box
<1> HIDE DEF h
<1> QED
  BY <1>1, <1>3, RectFacts

LEMMA BoxesApart ==
    ASSUME Drawable, NEW width \in Nat,
           NEW n \in Names, NEW i \in DOMAIN RowOf(n),
           NEW m \in Names, NEW j \in DOMAIN RowOf(m), n # m \/ i # j
    PROVE  Apart(BoxAt(width, n, i), BoxAt(width, m, j))
<1> DEFINE a == BoxAt(width, n, i)
           b == BoxAt(width, m, j)
<1>i. i \in Nat /\ j \in Nat
  BY RowFacts
<1>p. BoxPlaced(a, width, n, i) /\ BoxPlaced(b, width, m, j)
  BY BoxFacts
<1>1. CASE n = m
  <2> DEFINE edge == StartX(width) + ClusterAreaW - RowW(RowOf(n))
  <2>1. edge \in Int
    BY AreaFacts
  <2>2. a.left = edge + 1152 * (i - 1) /\ b.left = edge + 1152 * (j - 1)
    BY <1>1, <1>p DEF BoxPlaced
  <2>3. a.right = a.left + 1040 /\ b.right = b.left + 1040 /\ i # j
    BY <1>1, <1>p DEF BoxPlaced
  <2> HIDE DEF edge, a, b
  <2>4. a.right <= b.left \/ b.right <= a.left
    BY <1>i, <2>1, <2>2, <2>3
  <2> QED
    BY <2>4 DEF Apart, a, b
<1>2. CASE n = "master" /\ m = "worker"
  <2>1. workers # <<>>
    BY <1>2 DEF RowOf
  <2>2. a.bottom <= b.top
    BY <1>2, <1>p, <2>1 DEF BoxPlaced
  <2> QED
    BY <2>2 DEF Apart
<1>3. CASE n = "worker" /\ m = "master"
  <2>1. workers # <<>>
    BY <1>3 DEF RowOf
  <2>2. b.bottom <= a.top
    BY <1>3, <1>p, <2>1 DEF BoxPlaced
  <2> QED
    BY <2>2 DEF Apart
<1> QED
  BY <1>1, <1>2, <1>3 DEF Names

LEMMA AnchorInside ==
    ASSUME Drawable, NEW width \in Nat, NEW name \in Names, NEW i \in DOMAIN RowOf(name),
           NEW sx \in {-1, 1}, NEW sy \in {-1, 1}
    PROVE  LET a == AnchorAt(width, name, i, sx, sy)
           IN  /\ a.kind = "anchor" /\ a.id = <<name, i, sx, sy>>
               /\ Inside(a, BoxAt(width, name, i))
<1> DEFINE b == BoxAt(width, name, i)
           h == ClusterHeight(RowOf(name)[i])
<1>p. BoxPlaced(b, width, name, i)
  BY BoxFacts
<1>1. /\ b.left \in Int /\ b.top \in Int /\ h \in Nat /\ h >= 320
      /\ b.right = b.left + 1040 /\ b.bottom = b.top + 2 * h
      /\ BoxX(RowOf(name), i, width) = b.left + 520 /\ BoxY(RowOf(name), name, i) = b.top + h
  BY <1>p DEF BoxPlaced
<1> DEFINE a == AnchorAt(width, name, i, sx, sy)
           x == b.left + 520 + sx * 480
           y == b.top + h + sy * (h - 40)
<1>2. a = Rect("anchor", <<name, i, sx, sy>>, x, y, 0, 0)
  BY <1>1 DEF AnchorAt, Box
<1> HIDE DEF a, b, h
<1>3. x \in Int /\ y \in Int
  BY <1>1
<1>4. /\ a.kind = "anchor" /\ a.id = <<name, i, sx, sy>>
      /\ a.left = x /\ a.right = x /\ a.top = y /\ a.bottom = y
  BY <1>2, <1>3, RectFacts
<1>5. b.left <= x /\ x <= b.right /\ b.top <= y /\ y <= b.bottom
  BY <1>1
<1> QED
  BY <1>4, <1>5 DEF Inside, a, b

\* Where the pods of a box are: in a grid that begins at x, y, under the name of
\* the box, between its sides, above its floor.
PodsPlaced(width, name, i, x, y) ==
    \A k \in 0..(RowOf(name)[i] - 1) :
      LET p == PodAt(width, name, i, k)
      IN  /\ p.kind = "pod" /\ p.id = <<name, i, k>> /\ Solid(p)
          /\ p.left = x + 176 * (k % 5) /\ p.right = p.left + 144
          /\ p.top = y + 132 * (k \div 5) /\ p.bottom = p.top + 100
          /\ Inside(p, Free(BoxAt(width, name, i)))

LEMMA PodFacts ==
    ASSUME Drawable, NEW width \in Nat, NEW name \in Names, NEW i \in DOMAIN RowOf(name)
    PROVE  \E x \in Int, y \in Int : PodsPlaced(width, name, i, x, y)
<1> DEFINE n == RowOf(name)[i]
           b == BoxAt(width, name, i)
           h == ClusterHeight(n)
           area == PodAreaH(n)
           slack == Larger(48, h - 72 - area)
           x == b.left + 96
           y == b.top + 144 + slack
<1>p. BoxPlaced(b, width, name, i)
  BY BoxFacts
<1>1. n \in Nat
  BY RowFacts
<1>2. /\ b.left \in Int /\ b.top \in Int /\ h \in Nat
      /\ b.right = b.left + 1040 /\ b.bottom = b.top + 2 * h
      /\ BoxX(RowOf(name), i, width) = b.left + 520 /\ BoxY(RowOf(name), name, i) = b.top + h
  BY <1>p DEF BoxPlaced
<1>3. /\ PodCols = 5 /\ area \in Nat /\ h >= 112 + area
      /\ \A k \in 0..(n - 1) : 66 * (k \div 5) + 50 <= area
  BY <1>1, HeightFacts
<1>4. /\ slack \in Nat /\ slack >= 48
      /\ 144 + 2 * area + slack <= 2 * h
  BY <1>2, <1>3 DEF Larger
<1>5. Span(5, 72, 16) = 424
  BY DEF Span, Larger
<1>6. /\ Free(b).left = b.left /\ Free(b).right = b.right
      /\ Free(b).top = b.top + 144 /\ Free(b).bottom = b.bottom
  BY BoxSolid
<1>7. ASSUME NEW k \in 0..(n - 1)
      PROVE  LET p == PodAt(width, name, i, k)
             IN  /\ p.kind = "pod" /\ p.id = <<name, i, k>> /\ Solid(p)
                 /\ p.left = x + 176 * (k % 5) /\ p.right = p.left + 144
                 /\ p.top = y + 132 * (k \div 5) /\ p.bottom = p.top + 100
                 /\ Inside(p, Free(b))
  <2> DEFINE p == PodAt(width, name, i, k)
             c == k % 5
             q == k \div 5
  <2>1. c \in 0..4 /\ q \in Nat
    OBVIOUS
  <2>2. 66 * q + 50 <= area
    BY <1>3
  <2>3. p = Rect("pod", <<name, i, k>>, b.left + 520 - 424 + 72 + 2 * c * (72 + 16),
                 b.top + h - h + 2 * 72 + slack + 50 + 2 * q * (50 + 16), 72, 50)
    BY <1>2, <1>3, <1>5 DEF PodAt, Pod, Box, Cell
  <2> HIDE DEF b, h, area, slack, c, q
  <2>4. /\ b.left + 520 - 424 + 72 + 2 * c * (72 + 16) = x + 72 + 176 * c
        /\ b.top + h - h + 2 * 72 + slack + 50 + 2 * q * (50 + 16) = y + 50 + 132 * q
        /\ x \in Int /\ y \in Int /\ x + 72 + 176 * c \in Int /\ y + 50 + 132 * q \in Int
    BY <1>2, <1>4, <2>1
  <2> DEFINE px == x + 72 + 176 * c
             py == y + 50 + 132 * q
  <2>5. p = Rect("pod", <<name, i, k>>, px, py, 72, 50) /\ px \in Int /\ py \in Int
    BY <2>3, <2>4
  <2> HIDE DEF p, px, py
  <2>6. /\ p.kind = "pod" /\ p.id = <<name, i, k>> /\ Solid(p)
        /\ p.left = px - 72 /\ p.right = px + 72 /\ p.top = py - 50 /\ p.bottom = py + 50
    BY <2>5, RectFacts
  <2>7. /\ p.left = x + 176 * c /\ p.right = p.left + 144
        /\ p.top = y + 132 * q /\ p.bottom = p.top + 100
    BY <2>1, <2>4, <2>6 DEF px, py
  <2>8. b.left <= p.left /\ p.right <= b.right /\ b.top + 144 <= p.top
    BY <1>2, <1>4, <2>1, <2>7
  <2>9. p.bottom <= b.bottom
    BY <1>2, <1>3, <1>4, <2>1, <2>2, <2>7
  <2>10. Inside(p, Free(b))
    BY <1>6, <2>8, <2>9 DEF Inside
  <2> QED
    BY <2>6, <2>7, <2>10 DEF p, c, q
<1>8. PodsPlaced(width, name, i, x, y)
  BY <1>7, Zenon DEF PodsPlaced
<1>9. x \in Int /\ y \in Int
  BY <1>2, <1>4
<1> HIDE DEF x, y
<1> QED
  BY <1>8, <1>9

LEMMA PodsApart ==
    ASSUME Drawable, NEW width \in Nat,
           NEW n \in Names, NEW i \in DOMAIN RowOf(n), NEW k \in 0..(RowOf(n)[i] - 1),
           NEW m \in Names, NEW j \in DOMAIN RowOf(m), NEW l \in 0..(RowOf(m)[j] - 1),
           n # m \/ i # j \/ k # l
    PROVE  Apart(PodAt(width, n, i, k), PodAt(width, m, j, l))
<1> DEFINE p == PodAt(width, n, i, k)
           q == PodAt(width, m, j, l)
           a == BoxAt(width, n, i)
           b == BoxAt(width, m, j)
<1>1. PICK x \in Int, y \in Int : PodsPlaced(width, n, i, x, y)
  BY PodFacts
<1>2. PICK u \in Int, v \in Int : PodsPlaced(width, m, j, u, v)
  BY PodFacts
<1>3. CASE n = m /\ i = j
  <2>1. /\ p.left = x + 176 * (k % 5) /\ p.right = p.left + 144
        /\ p.top = y + 132 * (k \div 5) /\ p.bottom = p.top + 100
    BY <1>1 DEF PodsPlaced
  <2>2. /\ q.left = x + 176 * (l % 5) /\ q.right = q.left + 144
        /\ q.top = y + 132 * (l \div 5) /\ q.bottom = q.top + 100
    BY <1>1, <1>3 DEF PodsPlaced
  <2>3. k \in Nat /\ l \in Nat /\ k # l
    BY <1>3
  <2>4. k % 5 # l % 5 \/ k \div 5 # l \div 5
    BY <2>3
  <2>5. k % 5 \in Int /\ l % 5 \in Int /\ k \div 5 \in Int /\ l \div 5 \in Int
    BY <2>3
  <2> HIDE DEF p, q
  <2>6. CASE k % 5 # l % 5
    <3>1. p.right <= q.left \/ q.right <= p.left
      BY <2>1, <2>2, <2>5, <2>6
    <3> QED
      BY <3>1 DEF Apart, p, q
  <2>7. CASE k \div 5 # l \div 5
    <3>1. p.bottom <= q.top \/ q.bottom <= p.top
      BY <2>1, <2>2, <2>5, <2>7
    <3> QED
      BY <3>1 DEF Apart, p, q
  <2> QED
    BY <2>4, <2>6, <2>7
<1>4. CASE n # m \/ i # j
  <2>1. Apart(a, b)
    BY <1>4, BoxesApart
  <2>2. Inside(p, Free(a)) /\ Solid(p)
    BY <1>1 DEF PodsPlaced
  <2>3. Inside(q, Free(b)) /\ Solid(q)
    BY <1>2 DEF PodsPlaced
  <2>4. /\ Solid(a) /\ Free(a).left = a.left /\ Free(a).right = a.right
        /\ Free(a).top = a.top + 144 /\ Free(a).bottom = a.bottom
    BY BoxSolid
  <2>5. /\ Solid(b) /\ Free(b).left = b.left /\ Free(b).right = b.right
        /\ Free(b).top = b.top + 144 /\ Free(b).bottom = b.bottom
    BY BoxSolid
  <2> HIDE DEF a, b, p, q
  <2>6. a.left <= p.left /\ p.right <= a.right /\ a.top <= p.top /\ p.bottom <= a.bottom
    BY <2>2, <2>4 DEF Inside, Solid
  <2>7. b.left <= q.left /\ q.right <= b.right /\ b.top <= q.top /\ q.bottom <= b.bottom
    BY <2>3, <2>5 DEF Inside, Solid
  <2>8. Apart(p, q)
    BY <2>1, <2>2, <2>3, <2>4, <2>5, <2>6, <2>7 DEF Apart, Solid
  <2> QED
    BY <2>8 DEF p, q
<1> QED
  BY <1>3, <1>4

\* The services are beside the boxes.
ServicePlaced(s, width, k) ==
    LET c == ServiceCols(width)
    IN  /\ s.kind = "service" /\ s.id = <<k>> /\ Solid(s) /\ c \in {1, 2}
        /\ k % c \in Nat /\ k \div c \in Nat
        /\ s.left = StartX(width) + 2 * ClusterAreaW + 240 + 280 * (k % c)
        /\ s.right = s.left + 236
        /\ s.top = 96 + 180 * (k \div c) /\ s.bottom = s.top + 132

LEMMA ServiceFacts ==
    ASSUME Drawable, NEW width \in Nat, NEW k \in 0..(services - 1)
    PROVE  ServicePlaced(ServiceAt(width, k), width, k)
<1> DEFINE s == ServiceAt(width, k)
           c == ServiceCols(width)
           d == k % c
           q == k \div c
           x == StartX(width) + 2 * ClusterAreaW + 358 + 280 * d
           y == 162 + 180 * q
<1>1. services > 0 /\ k \in Nat
  BY DEF Drawable
<1>2. /\ c \in {1, 2} /\ ServiceAreaGap = 120
      /\ StartX(width) \in Int /\ ClusterAreaW \in Nat
  BY <1>1, AreaFacts
<1>3. d \in Nat /\ q \in Nat
  BY <1>1, <1>2
<1>4. s = Rect("service", <<k>>, StartX(width) + 2 * (ClusterAreaW + 120) + 118 + 2 * d * (118 + 22),
               2 * 48 + 2 * q * (66 + 24) + 66, 118, 66)
  BY <1>2 DEF ServiceAt, Service, Box, Cell
<1> HIDE DEF c, d, q
<1>5. s = Rect("service", <<k>>, x, y, 118, 66) /\ x \in Int /\ y \in Int
  BY <1>2, <1>3, <1>4
<1> HIDE DEF s, x, y
<1>6. /\ s.kind = "service" /\ s.id = <<k>> /\ Solid(s)
      /\ s.left = x - 118 /\ s.right = x + 118 /\ s.top = y - 66 /\ s.bottom = y + 66
  BY <1>5, RectFacts
<1>7. /\ s.left = StartX(width) + 2 * ClusterAreaW + 240 + 280 * d /\ s.right = s.left + 236
      /\ s.top = 96 + 180 * q /\ s.bottom = s.top + 132
  BY <1>2, <1>3, <1>6 DEF x, y
<1> QED
  BY <1>2, <1>3, <1>6, <1>7 DEF ServicePlaced, s, c, d, q

\* The pods without a box are below the boxes, and no wider than they are.
OrphanPlaced(o, width, k) ==
    LET c == ClusterAreaW \div 88
    IN  /\ o.kind = "orphan" /\ o.id = <<k>> /\ Solid(o) /\ c \in Nat \ {0}
        /\ k % c \in Nat /\ k \div c \in Nat
        /\ o.left = StartX(width) + 176 * (k % c) /\ o.right = o.left + 144
        /\ o.top = 2 * OrphanTopY + 132 * (k \div c) /\ o.bottom = o.top + 100
        /\ o.right <= StartX(width) + 2 * ClusterAreaW

LEMMA OrphanFacts ==
    ASSUME Drawable, NEW width \in Nat, NEW k \in 0..(orphans - 1)
    PROVE  OrphanPlaced(OrphanAt(width, k), width, k)
<1> DEFINE o == OrphanAt(width, k)
           c == ClusterAreaW \div 88
           d == k % c
           q == k \div c
           x == StartX(width) + 176 * d + 72
           y == 2 * OrphanTopY + 132 * q + 50
<1>1. k \in Nat
  BY DEF Drawable
<1>2. /\ StartX(width) \in Int /\ ClusterAreaW \in Nat /\ ClusterAreaW >= 520
      /\ OrphanTopY \in Nat
  BY AreaFacts
<1>3. c \in Nat \ {0} /\ 88 * c <= ClusterAreaW
  BY <1>2
<1>4. d \in 0..(c - 1) /\ q \in Nat
  <2> HIDE DEF c
  <2> QED
    BY <1>1, <1>3, GridFacts
<1>5. o = Rect("orphan", <<k>>, StartX(width) + 2 * d * (72 + 16) + 72,
               2 * OrphanTopY + 2 * q * (50 + 16) + 50, 72, 50)
  BY DEF OrphanAt, Pod, Cell
<1> HIDE DEF c, d, q
<1>6. o = Rect("orphan", <<k>>, x, y, 72, 50) /\ x \in Int /\ y \in Int
  BY <1>2, <1>3, <1>4, <1>5
<1> HIDE DEF o, x, y
<1>7. /\ o.kind = "orphan" /\ o.id = <<k>> /\ Solid(o)
      /\ o.left = x - 72 /\ o.right = x + 72 /\ o.top = y - 50 /\ o.bottom = y + 50
  BY <1>6, RectFacts
<1>8. /\ o.left = StartX(width) + 176 * d /\ o.right = o.left + 144
      /\ o.top = 2 * OrphanTopY + 132 * q /\ o.bottom = o.top + 100
      /\ o.right <= StartX(width) + 2 * ClusterAreaW
  BY <1>2, <1>3, <1>4, <1>7 DEF x, y
<1> QED
  BY <1>3, <1>4, <1>7, <1>8 DEF OrphanPlaced, o, c, d, q

LEMMA ServicesApart ==
    ASSUME Drawable, NEW width \in Nat,
           NEW k \in 0..(services - 1), NEW l \in 0..(services - 1), k # l
    PROVE  Apart(ServiceAt(width, k), ServiceAt(width, l))
<1> DEFINE s == ServiceAt(width, k)
           t == ServiceAt(width, l)
           c == ServiceCols(width)
           x == StartX(width) + 2 * ClusterAreaW + 240
<1>p. ServicePlaced(s, width, k) /\ ServicePlaced(t, width, l)
  BY ServiceFacts
<1>x. x \in Int /\ k \in Nat /\ l \in Nat
  <2>1. StartX(width) \in Int /\ ClusterAreaW \in Nat
    BY AreaFacts
  <2> QED
    BY <2>1 DEF Drawable
<1>1. /\ c \in Nat \ {0} /\ k % c \in Nat /\ l % c \in Nat
      /\ k \div c \in Nat /\ l \div c \in Nat
  BY <1>p DEF ServicePlaced
<1>2. k % c # l % c \/ k \div c # l \div c
  BY <1>1, <1>x, GridFacts
<1>3. /\ s.left = x + 280 * (k % c) /\ s.right = s.left + 236
      /\ s.top = 96 + 180 * (k \div c) /\ s.bottom = s.top + 132
  BY <1>p DEF ServicePlaced
<1>4. /\ t.left = x + 280 * (l % c) /\ t.right = t.left + 236
      /\ t.top = 96 + 180 * (l \div c) /\ t.bottom = t.top + 132
  BY <1>p DEF ServicePlaced
<1> HIDE DEF s, t, x, c
<1>5. CASE k % c # l % c
  <2>1. s.right <= t.left \/ t.right <= s.left
    BY <1>1, <1>x, <1>3, <1>4, <1>5
  <2> QED
    BY <2>1 DEF Apart, s, t
<1>6. CASE k \div c # l \div c
  <2>1. s.bottom <= t.top \/ t.bottom <= s.top
    BY <1>1, <1>x, <1>3, <1>4, <1>6
  <2> QED
    BY <2>1 DEF Apart, s, t
<1> QED
  BY <1>2, <1>5, <1>6

LEMMA OrphansApart ==
    ASSUME Drawable, NEW width \in Nat,
           NEW k \in 0..(orphans - 1), NEW l \in 0..(orphans - 1), k # l
    PROVE  Apart(OrphanAt(width, k), OrphanAt(width, l))
<1> DEFINE o == OrphanAt(width, k)
           p == OrphanAt(width, l)
           c == ClusterAreaW \div 88
           x == StartX(width)
           y == 2 * OrphanTopY
<1>p. OrphanPlaced(o, width, k) /\ OrphanPlaced(p, width, l)
  BY OrphanFacts
<1>x. x \in Int /\ y \in Int /\ k \in Nat /\ l \in Nat
  <2>1. StartX(width) \in Int /\ OrphanTopY \in Nat
    BY AreaFacts
  <2> QED
    BY <2>1 DEF Drawable
<1>1. /\ c \in Nat \ {0} /\ k % c \in Nat /\ l % c \in Nat
      /\ k \div c \in Nat /\ l \div c \in Nat
  BY <1>p DEF OrphanPlaced
<1>2. /\ o.left = x + 176 * (k % c) /\ o.right = o.left + 144
      /\ o.top = y + 132 * (k \div c) /\ o.bottom = o.top + 100
  BY <1>p DEF OrphanPlaced
<1>3. /\ p.left = x + 176 * (l % c) /\ p.right = p.left + 144
      /\ p.top = y + 132 * (l \div c) /\ p.bottom = p.top + 100
  BY <1>p DEF OrphanPlaced
<1> HIDE DEF o, p, x, y, c
<1>4. k % c # l % c \/ k \div c # l \div c
  BY <1>1, <1>x, GridFacts
<1>5. CASE k % c # l % c
  <2>1. o.right <= p.left \/ p.right <= o.left
    BY <1>1, <1>x, <1>2, <1>3, <1>5
  <2> QED
    BY <2>1 DEF Apart, o, p
<1>6. CASE k \div c # l \div c
  <2>1. o.bottom <= p.top \/ p.bottom <= o.top
    BY <1>1, <1>x, <1>2, <1>3, <1>6
  <2> QED
    BY <2>1 DEF Apart, o, p
<1> QED
  BY <1>4, <1>5, <1>6

\* What is drawn, kind by kind.
IsBox(a, width) == \E name \in Names : \E i \in DOMAIN RowOf(name) : a = BoxAt(width, name, i)
IsAnchor(a, width) ==
    \E name \in Names : \E i \in DOMAIN RowOf(name), sx \in {-1, 1}, sy \in {-1, 1} :
        a = AnchorAt(width, name, i, sx, sy)
IsPod(a, width) ==
    \E name \in Names : \E i \in DOMAIN RowOf(name) : \E k \in 0..(RowOf(name)[i] - 1) :
        a = PodAt(width, name, i, k)
IsService(a, width) == \E k \in 0..(services - 1) : a = ServiceAt(width, k)
IsOrphan(a, width)  == \E k \in 0..(orphans - 1) : a = OrphanAt(width, k)

LEMMA ElementFacts ==
    ASSUME NEW width, NEW a \in ComputePositions(width)
    PROVE  \/ IsBox(a, width) \/ IsAnchor(a, width) \/ IsPod(a, width)
           \/ IsService(a, width) \/ IsOrphan(a, width)
<1>1. RowOf("master") = masters /\ RowOf("worker") = workers
  BY DEF RowOf
<1>2. ASSUME NEW name \in Names, a \in PlaceClusterRow(RowOf(name), name, width)
      PROVE  IsBox(a, width) \/ IsAnchor(a, width) \/ IsPod(a, width)
  <2>1. CASE a \in Boxes(RowOf(name), name, width)
    BY <2>1 DEF Boxes, BoxAt, IsBox
  <2>2. CASE a \in Anchors(RowOf(name), name, width)
    BY <2>2 DEF Anchors, AnchorAt, IsAnchor
  <2>3. ASSUME NEW i \in DOMAIN RowOf(name), a \in PodsIn(RowOf(name), name, i, width)
        PROVE  IsPod(a, width)
    BY <2>3 DEF PodsIn, PodAt, IsPod
  <2> QED
    BY <1>2, <2>1, <2>2, <2>3 DEF PlaceClusterRow
<1>3. ASSUME a \in PlaceServices(width)
      PROVE  IsService(a, width)
  BY <1>3 DEF PlaceServices, ServiceAt, IsService
<1>4. ASSUME a \in PlaceOrphans(width)
      PROVE  IsOrphan(a, width)
  BY <1>4 DEF PlaceOrphans, OrphanAt, IsOrphan
<1> QED
  BY <1>1, <1>2, <1>3, <1>4 DEF ComputePositions, Names

LEMMA BoxesAreDrawn ==
    ASSUME NEW width, NEW name \in Names, NEW i \in DOMAIN RowOf(name)
    PROVE  BoxAt(width, name, i) \in ComputePositions(width)
<1>1. BoxAt(width, name, i) \in PlaceClusterRow(RowOf(name), name, width)
  BY DEF BoxAt, Boxes, PlaceClusterRow
<1> QED
  BY <1>1 DEF ComputePositions, Names, RowOf

\* An element that is neither in a box nor a corner keeps apart from any other one.
LEMMA FreeElementsApart ==
    ASSUME Drawable, NEW width \in Nat,
           NEW a, IsBox(a, width) \/ IsService(a, width) \/ IsOrphan(a, width),
           NEW b, IsBox(b, width) \/ IsService(b, width) \/ IsOrphan(b, width), a # b
    PROVE  Apart(a, b)
<1>s. \A x, y : Apart(x, y) => Apart(y, x)
  BY DEF Apart
<1>a. StartX(width) \in Int /\ ClusterAreaW \in Nat /\ OrphanTopY \in Nat
  BY AreaFacts
<1>1. ASSUME NEW x, NEW y, IsBox(x, width), IsService(y, width)
      PROVE  Apart(x, y)
  <2>1. PICK name \in Names : \E i \in DOMAIN RowOf(name) : x = BoxAt(width, name, i)
    BY <1>1 DEF IsBox
  <2>2. PICK i \in DOMAIN RowOf(name) : BoxPlaced(x, width, name, i)
    BY <2>1, BoxFacts
  <2>3. PICK k \in 0..(services - 1) : ServicePlaced(y, width, k)
    BY <1>1, ServiceFacts DEF IsService
  <2>4. x.right <= StartX(width) + 2 * ClusterAreaW /\ x.right \in Int
    BY <2>2 DEF BoxPlaced
  <2>5. \E d \in Nat : y.left = StartX(width) + 2 * ClusterAreaW + 240 + 280 * d
    BY <2>3 DEF ServicePlaced
  <2>6. x.right <= y.left
    BY <1>a, <2>4, <2>5
  <2> QED
    BY <2>6 DEF Apart
<1>2. ASSUME NEW x, NEW y, IsBox(x, width), IsOrphan(y, width)
      PROVE  Apart(x, y)
  <2>1. PICK name \in Names : \E i \in DOMAIN RowOf(name) : x = BoxAt(width, name, i)
    BY <1>2 DEF IsBox
  <2>2. PICK i \in DOMAIN RowOf(name) : BoxPlaced(x, width, name, i)
    BY <2>1, BoxFacts
  <2>3. PICK k \in 0..(orphans - 1) : OrphanPlaced(y, width, k)
    BY <1>2, OrphanFacts DEF IsOrphan
  <2>4. x.bottom <= 2 * OrphanTopY /\ x.bottom \in Int
    BY <2>2 DEF BoxPlaced
  <2>5. \E q \in Nat : y.top = 2 * OrphanTopY + 132 * q
    BY <2>3 DEF OrphanPlaced
  <2>6. x.bottom <= y.top
    BY <1>a, <2>4, <2>5
  <2> QED
    BY <2>6 DEF Apart
<1>3. ASSUME NEW x, NEW y, IsService(x, width), IsOrphan(y, width)
      PROVE  Apart(x, y)
  <2>1. PICK k \in 0..(services - 1) : ServicePlaced(x, width, k)
    BY <1>3, ServiceFacts DEF IsService
  <2>2. PICK l \in 0..(orphans - 1) : OrphanPlaced(y, width, l)
    BY <1>3, OrphanFacts DEF IsOrphan
  <2>3. \E d \in Nat : x.left = StartX(width) + 2 * ClusterAreaW + 240 + 280 * d
    BY <2>1 DEF ServicePlaced
  <2>4. y.right <= StartX(width) + 2 * ClusterAreaW /\ y.right \in Int
    BY <2>2 DEF OrphanPlaced, Solid
  <2>5. y.right <= x.left
    BY <1>a, <2>3, <2>4
  <2> QED
    BY <2>5 DEF Apart
<1>4. CASE IsBox(a, width) /\ IsBox(b, width)
  BY <1>4, BoxesApart DEF IsBox
<1>5. CASE IsService(a, width) /\ IsService(b, width)
  BY <1>5, ServicesApart DEF IsService
<1>6. CASE IsOrphan(a, width) /\ IsOrphan(b, width)
  BY <1>6, OrphansApart DEF IsOrphan
<1> QED
  BY <1>s, <1>1, <1>2, <1>3, <1>4, <1>5, <1>6

LayoutInv ==
    /\ masters \in Rows /\ workers \in Rows /\ services \in Services /\ orphans \in Orphans
    /\ drawn = {} \/ \E width \in Widths : drawn = ComputePositions(width)

LEMMA KindFacts ==
    ASSUME Drawable, NEW width \in Nat, NEW a
    PROVE  /\ IsBox(a, width) => a.kind = "box"
           /\ IsAnchor(a, width) => a.kind = "anchor"
           /\ IsPod(a, width) => a.kind = "pod"
           /\ IsService(a, width) => a.kind = "service"
           /\ IsOrphan(a, width) => a.kind = "orphan"
<1>1. IsBox(a, width) => a.kind = "box"
  BY BoxFacts DEF IsBox, BoxPlaced
<1>2. IsAnchor(a, width) => a.kind = "anchor"
  BY AnchorInside DEF IsAnchor
<1>3. IsPod(a, width) => a.kind = "pod"
  BY PodFacts DEF IsPod, PodsPlaced
<1>4. IsService(a, width) => a.kind = "service"
  <2> SUFFICES ASSUME IsService(a, width) PROVE a.kind = "service"
    OBVIOUS
  <2>1. PICK k \in 0..(services - 1) : a = ServiceAt(width, k)
    BY DEF IsService
  <2>2. ServicePlaced(a, width, k)
    BY <2>1, ServiceFacts
  <2> QED
    BY <2>2, Zenon DEF ServicePlaced
<1>5. IsOrphan(a, width) => a.kind = "orphan"
  <2> SUFFICES ASSUME IsOrphan(a, width) PROVE a.kind = "orphan"
    OBVIOUS
  <2>1. PICK k \in 0..(orphans - 1) : a = OrphanAt(width, k)
    BY DEF IsOrphan
  <2>2. OrphanPlaced(a, width, k)
    BY <2>1, OrphanFacts
  <2> QED
    BY <2>2, Zenon DEF OrphanPlaced
<1> QED
  BY <1>1, <1>2, <1>3, <1>4, <1>5

LEMMA PositionsAreThose ==
    ASSUME UNCHANGED <<masters, workers, services, orphans>>, NEW width
    PROVE  ComputePositions(width)' = ComputePositions(width)
  BY DEF ComputePositions, PlaceClusterRow, PlaceServices, PlaceOrphans, Boxes, Anchors, PodsIn,
         BoxX, BoxY, TopOf, WorkerTopY, OrphanTopY, StartX, ContentW, ClusterAreaW, ServiceAreaGap,
         ServiceCols

\* For every cluster and every width of the container: each pod is drawn in the
\* box of its node and below its name, each corner in its box, and nothing else
\* overlaps.
THEOREM EveryDiagramIsClear == LayoutSpec => []DiagramIsClear
<1>1. LayoutInit => LayoutInv
  BY DEF LayoutInit, LayoutInv
<1>2. LayoutInv /\ [LayoutNext]_layoutVars => LayoutInv'
  <2> SUFFICES ASSUME LayoutInv, [LayoutNext]_layoutVars
               PROVE  LayoutInv'
    OBVIOUS
  <2>1. ASSUME NEW width \in Widths, Draw(width)
        PROVE  LayoutInv'
    <3>1. UNCHANGED <<masters, workers, services, orphans>> /\ drawn' = ComputePositions(width)
      BY <2>1 DEF Draw
    <3> QED
      BY <3>1, PositionsAreThose DEF LayoutInv
  <2>2. CASE UNCHANGED layoutVars
    <3>1. UNCHANGED <<masters, workers, services, orphans, drawn>>
      BY <2>2 DEF layoutVars
    <3>2. \A width \in Widths : ComputePositions(width)' = ComputePositions(width)
      BY <3>1, PositionsAreThose
    <3> QED
      BY <3>1, <3>2 DEF LayoutInv
  <2> QED
    BY <2>1, <2>2 DEF LayoutNext
<1>3. LayoutInv => DiagramIsClear
  <2> SUFFICES ASSUME LayoutInv, NEW a \in drawn
               PROVE  IF a.kind \in {"pod", "anchor"}
                      THEN /\ \E b \in drawn :
                                /\ b.kind = "box" /\ b.id = <<a.id[1], a.id[2]>>
                                /\ Inside(a, IF a.kind = "pod" THEN Free(b) ELSE b)
                           /\ \A b \in drawn :
                                a.kind = "pod" /\ b.kind = "pod" /\ a # b => Apart(a, b)
                      ELSE \A b \in drawn : b.kind \notin {"pod", "anchor"} /\ a # b => Apart(a, b)
    BY DEF DiagramIsClear
  <2>1. Drawable
    BY LayoutAssumption DEF LayoutInv, Drawable
  <2>2. PICK width \in Widths : drawn = ComputePositions(width)
    BY DEF LayoutInv
  <2>3. width \in Nat
    BY LayoutAssumption
  <2>4. \A b \in drawn : \/ IsBox(b, width) \/ IsAnchor(b, width) \/ IsPod(b, width)
                         \/ IsService(b, width) \/ IsOrphan(b, width)
    BY <2>2, ElementFacts
  <2>5. \A b : /\ IsBox(b, width) => b.kind = "box"
               /\ IsAnchor(b, width) => b.kind = "anchor"
               /\ IsPod(b, width) => b.kind = "pod"
               /\ IsService(b, width) => b.kind = "service"
               /\ IsOrphan(b, width) => b.kind = "orphan"
    BY <2>1, <2>3, KindFacts
  <2>6. CASE IsPod(a, width)
    <3>1. PICK name \in Names : \E i \in DOMAIN RowOf(name) :
                 \E k \in 0..(RowOf(name)[i] - 1) : a = PodAt(width, name, i, k)
      BY <2>6 DEF IsPod
    <3>2. PICK i \in DOMAIN RowOf(name) :
                 \E k \in 0..(RowOf(name)[i] - 1) : a = PodAt(width, name, i, k)
      BY <3>1
    <3>3. PICK k \in 0..(RowOf(name)[i] - 1) : a = PodAt(width, name, i, k)
      BY <3>2
    <3>4. PICK x \in Int, y \in Int : PodsPlaced(width, name, i, x, y)
      BY <2>1, <2>3, PodFacts
    <3>5. /\ a.kind = "pod" /\ a.id = <<name, i, k>>
          /\ Inside(a, Free(BoxAt(width, name, i)))
      BY <3>3, <3>4 DEF PodsPlaced
    <3>6. BoxPlaced(BoxAt(width, name, i), width, name, i) /\ BoxAt(width, name, i) \in drawn
      BY <2>1, <2>2, <2>3, BoxFacts, BoxesAreDrawn
    <3>7. BoxAt(width, name, i).kind = "box" /\ BoxAt(width, name, i).id = <<name, i>>
      BY <3>6 DEF BoxPlaced
    <3>8. a.id[1] = name /\ a.id[2] = i
      BY <3>5
    <3>9. \A b \in drawn : b.kind = "pod" /\ a # b => Apart(a, b)
      <4> SUFFICES ASSUME NEW b \in drawn, b.kind = "pod", a # b
                   PROVE  Apart(a, b)
        OBVIOUS
      <4>1. IsPod(b, width)
        BY <2>4, <2>5
      <4>2. PICK m \in Names : \E j \in DOMAIN RowOf(m) :
                   \E l \in 0..(RowOf(m)[j] - 1) : b = PodAt(width, m, j, l)
        BY <4>1 DEF IsPod
      <4>3. PICK j \in DOMAIN RowOf(m) : \E l \in 0..(RowOf(m)[j] - 1) : b = PodAt(width, m, j, l)
        BY <4>2
      <4>4. PICK l \in 0..(RowOf(m)[j] - 1) : b = PodAt(width, m, j, l)
        BY <4>3
      <4>5. name # m \/ i # j \/ k # l
        BY <3>3, <4>4
      <4> QED
        BY <2>1, <2>3, <3>3, <4>4, <4>5, PodsApart
    <3> QED
      BY <3>5, <3>6, <3>7, <3>8, <3>9
  <2>7. CASE IsAnchor(a, width)
    <3>1. PICK name \in Names : \E i \in DOMAIN RowOf(name), sx \in {-1, 1}, sy \in {-1, 1} :
                 a = AnchorAt(width, name, i, sx, sy)
      BY <2>7 DEF IsAnchor
    <3>2. PICK i \in DOMAIN RowOf(name), sx \in {-1, 1}, sy \in {-1, 1} :
                 a = AnchorAt(width, name, i, sx, sy)
      BY <3>1
    <3>3. /\ a.kind = "anchor" /\ a.id = <<name, i, sx, sy>>
          /\ Inside(a, BoxAt(width, name, i))
      BY <2>1, <2>3, <3>2, AnchorInside
    <3>4. BoxPlaced(BoxAt(width, name, i), width, name, i) /\ BoxAt(width, name, i) \in drawn
      BY <2>1, <2>2, <2>3, BoxFacts, BoxesAreDrawn
    <3>5. BoxAt(width, name, i).kind = "box" /\ BoxAt(width, name, i).id = <<name, i>>
      BY <3>4 DEF BoxPlaced
    <3>6. a.id[1] = name /\ a.id[2] = i
      BY <3>3
    <3> QED
      BY <3>3, <3>4, <3>5, <3>6
  <2>8. CASE IsBox(a, width) \/ IsService(a, width) \/ IsOrphan(a, width)
    <3>1. a.kind \notin {"pod", "anchor"}
      BY <2>5, <2>8
    <3>2. ASSUME NEW b \in drawn, b.kind \notin {"pod", "anchor"}, a # b
          PROVE  Apart(a, b)
      <4>1. IsBox(b, width) \/ IsService(b, width) \/ IsOrphan(b, width)
        BY <2>4, <2>5, <3>2
      <4> QED
        BY <2>1, <2>3, <2>8, <3>2, <4>1, FreeElementsApart
    <3> QED
      BY <3>1, <3>2
  <2> QED
    BY <2>4, <2>6, <2>7, <2>8
<1> QED
  BY <1>1, <1>2, <1>3, PTL DEF LayoutSpec
-----------------------------------------------------------------------------
(***************************************************************************)
(* The tests: what _parse_predicate reads is what the grammar calls a test,*)
(* whatever the names and the values, and it stops at its end.             *)
(***************************************************************************)
LEMMA TokenFacts ==
    ASSUME NEW ts \in Seq(Tokens), NEW i \in Nat \ {0}
    PROVE  /\ i <= Len(ts) => Kind(ts, i) \in Kinds /\ Kind(ts, i) # "EOF"
           /\ i > Len(ts)  => Kind(ts, i) = "EOF"
<1>1. CASE i <= Len(ts)
  <2>1. ts[i] \in Tokens
    BY <1>1
  <2>2. ts[i].kind \in Kinds
    BY <2>1 DEF Tokens
  <2> QED
    BY <1>1, <2>2 DEF Kind, Kinds
<1>2. CASE i > Len(ts)
  BY <1>2 DEF Kind
<1> QED
  BY <1>1, <1>2

LEMMA PassingIs ==
    ASSUME NEW name, NEW arg
    PROVE  /\ Passing(Test("is", "", name, arg)) = With(name, {arg})
           /\ Passing(Test("is", "neg", name, arg)) = Labels \ With(name, {arg})
  BY DEF Passing, Test, Holds, With, Has

\* A test whose word stands at o, behind the name at i, means the same to both.
Agree(i, o, neg) ==
    \A name, arg :
        /\ Passing(Test("in", neg, name, arg)) = Signed(i, o, With(name, arg))
        /\ \A op \in {"contains", "startsWith", "endsWith", "matches"} :
              Passing(Test(op, neg, name, arg)) = Signed(i, o, Like(op, name, arg))

LEMMA TheyAgree ==
    ASSUME NEW i \in Nat
    PROVE  Agree(i, i + 1, "") /\ Agree(i, i + 2, "neg")
<1>1. i + 2 # i + 1
  OBVIOUS
<1>5. ASSUME NEW name, NEW arg
      PROVE  /\ Passing(Test("in", "", name, arg)) = Signed(i, i + 1, With(name, arg))
             /\ Passing(Test("in", "neg", name, arg)) = Signed(i, i + 2, With(name, arg))
  <2>1. /\ Passing(Test("in", "", name, arg)) = With(name, arg)
        /\ Passing(Test("in", "neg", name, arg)) = Labels \ With(name, arg)
    BY DEF Passing, Test, Holds, With, Has
  <2>2. /\ Signed(i, i + 1, With(name, arg)) = With(name, arg)
        /\ Signed(i, i + 2, With(name, arg)) = Labels \ With(name, arg)
    BY <1>1 DEF Signed
  <2> QED
    BY <2>1, <2>2, Zenon
<1>6. ASSUME NEW name, NEW arg, NEW op \in {"contains", "startsWith", "endsWith", "matches"}
      PROVE  /\ Passing(Test(op, "", name, arg)) = Signed(i, i + 1, Like(op, name, arg))
             /\ Passing(Test(op, "neg", name, arg)) = Signed(i, i + 2, Like(op, name, arg))
  <2>1. /\ Passing(Test(op, "", name, arg)) = Like(op, name, arg)
        /\ Passing(Test(op, "neg", name, arg)) = Labels \ Like(op, name, arg)
    BY DEF Passing, Test, Holds, Like
  <2>2. /\ Signed(i, i + 1, Like(op, name, arg)) = Like(op, name, arg)
        /\ Signed(i, i + 2, Like(op, name, arg)) = Labels \ Like(op, name, arg)
    BY <1>1 DEF Signed
  <2> QED
    BY <2>1, <2>2, Zenon
<1>7. Agree(i, i + 1, "")
  BY <1>5, <1>6, Zenon DEF Agree
<1>8. Agree(i, i + 2, "neg")
  BY <1>5, <1>6, Zenon DEF Agree
<1> QED
  BY <1>7, <1>8

\* The braces end at the first "}", and what stands before it is a list.
ListEnds(ts, i, last) == last \in i..Len(ts) /\ Kind(ts, last) = "RBRACE" /\ IsList(ts, i, last - i)

InList(ts, i, neg, name, last) ==
    Parsed(Passing(Test("in", neg, name, Listed(ts, i, last - i))), last + 1)

LEMMA ValuesRead ==
    ASSUME NEW ts \in Seq(Tokens), NEW i \in Nat \ {0}, NEW neg, NEW name
    PROVE  /\ \/ ParseValues(ts, i, neg, name) = Failed
              \/ \E last : /\ ListEnds(ts, i, last)
                           /\ ParseValues(ts, i, neg, name) = InList(ts, i, neg, name, last)
           /\ \A last : ListEnds(ts, i, last)
                 => ParseValues(ts, i, neg, name) = InList(ts, i, neg, name, last)
<1> DEFINE closing == {j \in i..Len(ts) : Kind(ts, j) = "RBRACE"}
           first   == CHOOSE j \in closing : \A k \in closing : j <= k
           fits    == \A j \in i..(first - 1) :
                         \/ Kind(ts, j) = "STRING"
                         \/ Kind(ts, j) = "COMMA" /\ j > i /\ Kind(ts, j - 1) = "STRING"
<1>1. Len(ts) \in Nat
  OBVIOUS
<1>2. ASSUME NEW last, last \in i..Len(ts)
      PROVE  /\ i + (last - i) - 1 = last - 1
             /\ IsList(ts, i, last - i) <=>
                  \A j \in i..(last - 1) :
                     \/ Kind(ts, j) = "STRING"
                     \/ Kind(ts, j) = "COMMA" /\ j > i /\ Kind(ts, j - 1) = "STRING"
             /\ Listed(ts, i, last - i) = {ts[j].text : j \in {k \in i..(last - 1) : Kind(ts, k) = "STRING"}}
  <2>1. i + (last - i) - 1 = last - 1
    BY <1>1, <1>2
  <2> QED
    BY <2>1 DEF IsList, Listed
<1>3. ASSUME closing # {}
      PROVE  first \in closing /\ \A k \in closing : first <= k
  <2>1. closing \subseteq Nat
    BY <1>1
  <2>2. \E j \in closing : \A k \in closing : j <= k
    <3> HIDE DEF closing
    <3> QED
      BY <1>3, <2>1, LeastOf
  <2> QED
    BY <2>2
<1>4. ParseValues(ts, i, neg, name) =
        IF closing # {} /\ fits
        THEN Parsed(Passing(Test("in", neg, name,
                      {ts[j].text : j \in {k \in i..(first - 1) : Kind(ts, k) = "STRING"}})), first + 1)
        ELSE Failed
  BY DEF ParseValues
<1>5. CASE closing # {} /\ fits
  <2>1. first \in i..Len(ts) /\ Kind(ts, first) = "RBRACE"
    BY <1>3, <1>5
  <2> HIDE DEF first
  <2>2. ListEnds(ts, i, first)
    BY <1>2, <1>5, <2>1 DEF ListEnds
  <2>3. ParseValues(ts, i, neg, name) = InList(ts, i, neg, name, first)
    BY <1>2, <1>4, <1>5, <2>1 DEF InList
  <2>4. ASSUME NEW last, ListEnds(ts, i, last)
        PROVE  last = first
    <3>1. last \in closing
      BY <2>4 DEF ListEnds
    <3>2. first <= last
      BY <1>3, <3>1
    <3>3. ~(first < last)
      <4> SUFFICES ASSUME first < last PROVE FALSE
        OBVIOUS
      <4>1. first \in i..(last - 1)
        BY <1>1, <2>1, <2>4 DEF ListEnds
      <4>2. Kind(ts, first) = "STRING" \/ Kind(ts, first) = "COMMA"
        BY <1>2, <2>4, <4>1 DEF ListEnds
      <4> QED
        BY <2>1, <4>2
    <3> QED
      BY <1>1, <2>1, <2>4, <3>2, <3>3 DEF ListEnds
  <2> QED
    BY <2>2, <2>3, <2>4
<1>6. CASE ~(closing # {} /\ fits)
  <2>1. ParseValues(ts, i, neg, name) = Failed
    BY <1>4, <1>6
  <2>2. ASSUME NEW last, ListEnds(ts, i, last)
        PROVE  FALSE
    <3>1. last \in closing /\ closing # {}
      BY <2>2 DEF ListEnds
    <3>2. first \in closing /\ first <= last
      BY <1>3, <3>1
    <3>3. i..(first - 1) \subseteq i..(last - 1)
      <4>1. first \in i..Len(ts) /\ last \in i..Len(ts)
        BY <3>1, <3>2
      <4> HIDE DEF first
      <4> QED
        BY <1>1, <3>2, <4>1
    <3>4. fits
      BY <1>2, <2>2, <3>3 DEF ListEnds
    <3> QED
      BY <1>6, <3>1, <3>4
  <2> QED
    BY <2>1, <2>2
<1> QED
  BY <1>5, <1>6

\* There is one word behind a name.
LEMMA OneWord ==
    ASSUME NEW ts, NEW i \in Nat, NEW o, NEW p, Compares(ts, i, o, Negatable), Compares(ts, i, p, Negatable)
    PROVE  o = p
  BY DEF Compares, IsWord, Negatable

LEMMA MoreWords ==
    ASSUME NEW ts, NEW i, NEW o, NEW words \in SUBSET Negatable, Compares(ts, i, o, words)
    PROVE  Compares(ts, i, o, Negatable)
  BY DEF Compares, IsWord

\* What stands behind the word o, o = i + 1 or o = i + 2 after a "not".
OperandAt(ts, i, o, neg) == ParseOperand(ts, o + 1, ts[o].text, neg, ts[i].text)

LEMMA OperandsFound ==
    ASSUME NEW ts \in Seq(Tokens), NEW i \in 1..Len(ts), NEW o \in {i + 1, i + 2},
           Compares(ts, i, o, Negatable), NEW neg, Agree(i, o, neg), NEW n \in Nat, i + n <= Len(ts) + 1,
           NEW m \in Comparisons(ts, i, n)
    PROVE  OperandAt(ts, i, o, neg) = Parsed(m, i + n)
<1> DEFINE name == ts[i].text
           end  == i + n - 1
<1>1. /\ i \in Nat \ {0} /\ Len(ts) \in Nat /\ o \in Nat \ {0}
      /\ end + 1 = i + n
  OBVIOUS
<1>2. CASE /\ end = o + 1
           /\ m = Signed(i, o, Like(ts[o].text, name, ts[end].text))
           /\ \/ /\ Compares(ts, i, o, {"contains", "startsWith", "endsWith"})
                 /\ Kind(ts, end) = "STRING"
              \/ /\ Compares(ts, i, o, {"matches"})
                 /\ Kind(ts, end) = "REGEX" /\ ts[end].text \notin Invalid
  <2>1. ts[o].text \in {"contains", "startsWith", "endsWith", "matches"}
    BY <1>2 DEF Compares, IsWord
  <2>2. ts[o].text # "in" /\ (ts[o].text = "matches" <=> Kind(ts, end) = "REGEX")
    BY <1>2 DEF Compares, IsWord
  <2> HIDE DEF end
  <2>3. Passing(Test(ts[o].text, neg, name, ts[end].text)) = m
    BY <1>2, <2>1, Zenon DEF Agree
  <2>4. ParseOperand(ts, o + 1, ts[o].text, neg, name)
          = Parsed(Passing(Test(ts[o].text, neg, name, ts[o + 1].text)), o + 2)
    <3>1. (o + 1) + 1 = o + 2
      BY <1>1
    <3>2. CASE ts[o].text = "matches"
      BY <1>2, <2>2, <3>1, <3>2 DEF ParseOperand
    <3>3. CASE ts[o].text # "matches"
      BY <1>2, <2>2, <3>1, <3>3 DEF ParseOperand
    <3> QED
      BY <3>2, <3>3
  <2>5. i + n = o + 2
    BY <1>1, <1>2
  <2> QED
    BY <1>2, <2>3, <2>4, <2>5 DEF OperandAt
<1>3. CASE /\ end >= o + 2
           /\ m = Signed(i, o, With(name, Listed(ts, o + 2, end - o - 2)))
           /\ Compares(ts, i, o, {"in"})
           /\ Kind(ts, o + 1) = "LBRACE" /\ Kind(ts, end) = "RBRACE"
           /\ IsList(ts, o + 2, end - o - 2)
  <2>1. ts[o].text = "in"
    BY <1>3 DEF Compares, IsWord
  <2>2. end - o - 2 = end - (o + 2) /\ o + 2 \in Nat \ {0} /\ end \in (o + 2)..Len(ts)
    BY <1>3
  <2>3. ListEnds(ts, o + 2, end)
    BY <1>3, <2>2 DEF ListEnds
  <2> HIDE DEF end
  <2>4. ParseValues(ts, o + 2, neg, name) = InList(ts, o + 2, neg, name, end)
    BY <2>2, <2>3, ValuesRead
  <2>5. InList(ts, o + 2, neg, name, end) = Parsed(m, end + 1)
    BY <1>3, <2>2, Zenon DEF InList, Agree
  <2>6. ParseOperand(ts, o + 1, ts[o].text, neg, name) = ParseValues(ts, o + 2, neg, name)
    <3>1. (o + 1) + 1 = o + 2
      BY <1>1
    <3> QED
      BY <1>3, <2>1, <3>1 DEF ParseOperand
  <2> QED
    BY <1>1, <2>4, <2>5, <2>6 DEF OperandAt
<1>4. \A p \in {i + 1, i + 2} : \A words \in SUBSET Negatable : Compares(ts, i, p, words) => p = o
  BY OneWord, MoreWords
<1>5. {"contains", "startsWith", "endsWith"} \in SUBSET Negatable /\ {"matches"} \in SUBSET Negatable
      /\ {"in"} \in SUBSET Negatable
  BY DEF Negatable
<1> QED
  BY <1>2, <1>3, <1>4, <1>5 DEF Comparisons

LEMMA OperandsRead ==
    ASSUME NEW ts \in Seq(Tokens), NEW i \in 1..Len(ts), NEW o \in {i + 1, i + 2},
           Compares(ts, i, o, Negatable), NEW neg, Agree(i, o, neg)
    PROVE  \/ OperandAt(ts, i, o, neg) = Failed
           \/ \E n \in 3..(Len(ts) + 1 - i) : \E m \in Comparisons(ts, i, n) :
                 OperandAt(ts, i, o, neg) = Parsed(m, i + n)
<1> DEFINE name == ts[i].text
           r    == ParseOperand(ts, o + 1, ts[o].text, neg, name)
<1>1. /\ i \in Nat \ {0} /\ Len(ts) \in Nat /\ o \in Nat \ {0}
  OBVIOUS
<1>2. ts[o].text \in Negatable /\ (o = i + 1 \/ (o = i + 2 /\ IsWord(ts, i + 1, {"not"})))
  BY DEF Compares, IsWord
<1>w. \A words : ts[o].text \in words => Compares(ts, i, o, words)
  BY DEF Compares, IsWord
<1>3. CASE ts[o].text = "in"
  <2>0. (o + 1) + 1 = o + 2 /\ o + 2 \in Nat \ {0}
    BY <1>1
  <2>1. r = Failed \/ (Kind(ts, o + 1) = "LBRACE" /\ r = ParseValues(ts, o + 2, neg, name))
    BY <1>3, <2>0 DEF ParseOperand
  <2>2. r = Failed \/ \E last : ListEnds(ts, o + 2, last) /\ r = InList(ts, o + 2, neg, name, last)
    BY <2>0, <2>1, ValuesRead
  <2>3. ASSUME NEW last, ListEnds(ts, o + 2, last), r = InList(ts, o + 2, neg, name, last),
               Kind(ts, o + 1) = "LBRACE"
        PROVE  \E n \in 3..(Len(ts) + 1 - i) : \E m \in Comparisons(ts, i, n) : r = Parsed(m, i + n)
    <3> DEFINE n == last + 1 - i
               m == Signed(i, o, With(name, Listed(ts, o + 2, last - (o + 2))))
    <3>1. last \in (o + 2)..Len(ts) /\ Kind(ts, last) = "RBRACE" /\ IsList(ts, o + 2, last - (o + 2))
      BY <2>3 DEF ListEnds
    <3>2. n \in 3..(Len(ts) + 1 - i) /\ i + n = last + 1 /\ i + n - 1 = last
          /\ last - o - 2 = last - (o + 2) /\ last >= o + 2
      BY <1>1, <3>1
    <3>3. r = Parsed(m, last + 1)
      BY <2>3, Zenon DEF InList, Agree
    <3> HIDE DEF n, r
    <3>4. m \in Comparisons(ts, i, n)
      <4>1. Compares(ts, i, o, {"in"})
        BY <1>3, <1>w
      <4> QED
        BY <2>3, <3>1, <3>2, <4>1 DEF Comparisons
    <3> QED
      BY <3>2, <3>3, <3>4
  <2> QED
    BY <2>1, <2>2, <2>3 DEF OperandAt
<1>4. CASE ts[o].text # "in"
  <2>1. r = Failed \/ (/\ r = Parsed(Passing(Test(ts[o].text, neg, name, ts[o + 1].text)), o + 2)
                       /\ \/ ts[o].text = "matches" /\ Kind(ts, o + 1) = "REGEX"
                               /\ ts[o + 1].text \notin Invalid
                          \/ ts[o].text # "matches" /\ Kind(ts, o + 1) = "STRING")
    <3>0. (o + 1) + 1 = o + 2
      BY <1>1
    <3> QED
      BY <1>4, <3>0 DEF ParseOperand
  <2>2. CASE r = Failed
    BY <2>2 DEF OperandAt
  <2>3. CASE r # Failed
    <3> DEFINE n == o + 2 - i
               m == Signed(i, o, Like(ts[o].text, name, ts[o + 1].text))
    <3>1. o + 1 <= Len(ts)
      BY <1>1, <2>1, <2>3, TokenFacts
    <3>2. n \in 3..(Len(ts) + 1 - i) /\ i + n = o + 2 /\ i + n - 1 = o + 1
      BY <1>1, <3>1
    <3>3. ts[o].text \in {"contains", "startsWith", "endsWith", "matches"}
      BY <1>2, <1>4 DEF Negatable
    <3> HIDE DEF n
    <3>4. r = Parsed(m, o + 2)
      BY <2>1, <2>3, <3>3, Zenon DEF Agree
    <3> HIDE DEF r
    <3>5. m \in Comparisons(ts, i, n)
      <4>1. \/ Compares(ts, i, o, {"contains", "startsWith", "endsWith"}) /\ Kind(ts, o + 1) = "STRING"
            \/ /\ Compares(ts, i, o, {"matches"})
               /\ Kind(ts, o + 1) = "REGEX" /\ ts[o + 1].text \notin Invalid
        BY <1>w, <2>1, <2>3, <3>3
      <4> QED
        BY <3>2, <4>1 DEF Comparisons
    <3> QED
      BY <3>2, <3>4, <3>5 DEF OperandAt, r
  <2> QED
    BY <2>2, <2>3
<1> QED
  BY <1>3, <1>4

\* What _parse_predicate returns is a test that begins at i, and where it ends.
LEMMA TestsAreRead ==
    ASSUME NEW ts \in Seq(Tokens), NEW i \in 1..Len(ts), IsName(ts, i)
    PROVE  \/ ParsePredicate(ts, i) = Failed
           \/ \E n \in 1..(Len(ts) + 1 - i) : \E m \in TestReadings(ts, i, n) :
                 ParsePredicate(ts, i) = Parsed(m, i + n)
<1> DEFINE name == ts[i].text
           next == Kind(ts, i + 1)
           r    == ParsePredicate(ts, i)
           all  == name = "all" /\ next = "LPAREN"
           has  == name = "has" /\ next = "LPAREN"
           word == IsWord(ts, i + 1, Negatable)
           not  == IsWord(ts, i + 1, {"not"}) /\ IsWord(ts, i + 2, Negatable)
           Read(n, m) == n \in 1..(Len(ts) + 1 - i) /\ m \in TestReadings(ts, i, n) /\ r = Parsed(m, i + n)
<1>1. i \in Nat \ {0} /\ Len(ts) \in Nat
  OBVIOUS
<1>2. \A k \in {1, 2, 3} : Kind(ts, i + k) # "EOF" => i + k <= Len(ts)
  BY <1>1, TokenFacts
<1>q. SUFFICES r = Failed \/ \E n, m : Read(n, m)
  OBVIOUS
<1>3. CASE all
  <2>1. r = IF Kind(ts, i + 2) = "RPAREN" THEN Parsed(Labels, i + 3) ELSE Failed
    BY <1>3 DEF ParsePredicate
  <2>2. CASE Kind(ts, i + 2) = "RPAREN"
    <3>1. Labels \in TestReadings(ts, i, 3)
      BY <1>3, <2>2 DEF TestReadings, All
    <3>2. 3 \in 1..(Len(ts) + 1 - i)
      BY <1>1, <1>2, <2>2
    <3>3. Read(3, Labels)
      BY <2>1, <2>2, <3>1, <3>2
    <3> QED
      BY <3>3
  <2> QED
    BY <2>1, <2>2
<1>4. CASE ~all /\ has
  <2>1. r = IF Kind(ts, i + 2) \in {"IDENT", "STRING"} /\ Kind(ts, i + 3) = "RPAREN"
            THEN Parsed(Has(ts[i + 2].text), i + 4) ELSE Failed
    BY <1>4 DEF ParsePredicate
  <2>2. CASE Kind(ts, i + 2) \in {"IDENT", "STRING"} /\ Kind(ts, i + 3) = "RPAREN"
    <3>1. Has(ts[i + 2].text) \in TestReadings(ts, i, 4)
      BY <1>4, <2>2 DEF TestReadings, HasOf, IsName
    <3>2. 4 \in 1..(Len(ts) + 1 - i)
      BY <1>1, <1>2, <2>2
    <3>3. Read(4, Has(ts[i + 2].text))
      BY <2>1, <2>2, <3>1, <3>2
    <3> QED
      BY <3>3
  <2> QED
    BY <2>1, <2>2
<1>5. CASE ~all /\ ~has /\ next \in {"AND", "OR", "RPAREN", "RBRACE", "COMMA", "EOF"}
  <2>1. r = Parsed(Has(name), i + 1)
    BY <1>5 DEF ParsePredicate
  <2>2. Has(name) \in TestReadings(ts, i, 1)
    BY DEF TestReadings, Bare
  <2>3. 1 \in 1..(Len(ts) + 1 - i)
    BY <1>1
  <2>4. Read(1, Has(name))
    BY <2>1, <2>2, <2>3
  <2> QED
    BY <2>4
<1>6. CASE ~all /\ ~has /\ next \in {"EQ", "ASSIGN"}
  <2>1. r = ParseOperand(ts, i + 2, "is", "", name)
    BY <1>6 DEF ParsePredicate
  <2>2. r = Failed \/ (Kind(ts, i + 2) = "STRING" /\ r = Parsed(With(name, {ts[i + 2].text}), (i + 2) + 1))
    BY <2>1, PassingIs DEF ParseOperand
  <2>3. CASE r = Parsed(With(name, {ts[i + 2].text}), (i + 2) + 1) /\ Kind(ts, i + 2) = "STRING"
    <3>1. With(name, {ts[i + 2].text}) \in TestReadings(ts, i, 3)
      BY <1>6, <2>3 DEF TestReadings, Equal
    <3>2. 3 \in 1..(Len(ts) + 1 - i) /\ (i + 2) + 1 = i + 3
      BY <1>1, <1>2, <2>3
    <3>3. Read(3, With(name, {ts[i + 2].text}))
      BY <2>3, <3>1, <3>2
    <3> QED
      BY <3>3
  <2> QED
    BY <2>2, <2>3
<1>7. CASE ~all /\ ~has /\ next = "NE"
  <2>1. r = ParseOperand(ts, i + 2, "is", "neg", name)
    BY <1>7 DEF ParsePredicate
  <2>2. \/ r = Failed
        \/ /\ Kind(ts, i + 2) = "STRING"
           /\ r = Parsed(Labels \ With(name, {ts[i + 2].text}), (i + 2) + 1)
    BY <2>1, PassingIs DEF ParseOperand
  <2>3. CASE r = Parsed(Labels \ With(name, {ts[i + 2].text}), (i + 2) + 1) /\ Kind(ts, i + 2) = "STRING"
    <3>1. Labels \ With(name, {ts[i + 2].text}) \in TestReadings(ts, i, 3)
      BY <1>7, <2>3 DEF TestReadings, Unequal
    <3>2. 3 \in 1..(Len(ts) + 1 - i) /\ (i + 2) + 1 = i + 3
      BY <1>1, <1>2, <2>3
    <3>3. Read(3, Labels \ With(name, {ts[i + 2].text}))
      BY <2>3, <3>1, <3>2
    <3> QED
      BY <3>3
  <2> QED
    BY <2>2, <2>3
<1>8. ASSUME NEW n \in 3..(Len(ts) + 1 - i), NEW m \in Comparisons(ts, i, n),
             r = Parsed(m, i + n)
      PROVE  Read(n, m)
  <2>1. n \in 1..(Len(ts) + 1 - i)
    BY <1>1, <1>8
  <2>2. Comparisons(ts, i, n) \subseteq TestReadings(ts, i, n)
    BY DEF TestReadings
  <2> QED
    BY <1>8, <2>1, <2>2
<1>9. CASE ~all /\ ~has /\ word
  <2>1. next = "IDENT"
    BY <1>9 DEF IsWord
  <2>2. r = ParseOperand(ts, i + 2, ts[i + 1].text, "", name)
    BY <1>9, <2>1 DEF ParsePredicate
  <2>3. (i + 1) + 1 = i + 2
    BY <1>1
  <2> DEFINE o == i + 1
             neg == ""
  <2>4. r = OperandAt(ts, i, o, neg)
    BY <2>2, <2>3 DEF OperandAt
  <2>5. o \in {i + 1, i + 2} /\ Compares(ts, i, o, Negatable)
    BY <1>9 DEF Compares
  <2>6. Agree(i, o, neg)
    BY <1>1, TheyAgree
  <2> HIDE DEF o, neg, r, Read
  <2>7. \/ r = Failed
        \/ \E n \in 3..(Len(ts) + 1 - i) : \E m \in Comparisons(ts, i, n) : r = Parsed(m, i + n)
    BY <2>4, <2>5, <2>6, OperandsRead
  <2> QED
    BY <1>8, <2>7
<1>10. CASE ~all /\ ~has /\ ~word /\ not
  <2>1. next = "IDENT"
    BY <1>10 DEF IsWord
  <2>2. r = ParseOperand(ts, i + 3, ts[i + 2].text, "neg", name)
    BY <1>10, <2>1 DEF ParsePredicate
  <2>3. (i + 2) + 1 = i + 3
    BY <1>1
  <2> DEFINE o == i + 2
             neg == "neg"
  <2>4. r = OperandAt(ts, i, o, neg)
    BY <2>2, <2>3 DEF OperandAt
  <2>5. o \in {i + 1, i + 2} /\ Compares(ts, i, o, Negatable)
    BY <1>10 DEF Compares
  <2>6. Agree(i, o, neg)
    BY <1>1, TheyAgree
  <2> HIDE DEF o, neg, r, Read
  <2>7. \/ r = Failed
        \/ \E n \in 3..(Len(ts) + 1 - i) : \E m \in Comparisons(ts, i, n) : r = Parsed(m, i + n)
    BY <2>4, <2>5, <2>6, OperandsRead
  <2> QED
    BY <1>8, <2>7
<1>11. CASE /\ ~all /\ ~has /\ ~word /\ ~not
            /\ next \notin {"AND", "OR", "RPAREN", "RBRACE", "COMMA", "EOF", "EQ", "ASSIGN", "NE"}
  BY <1>11 DEF ParsePredicate
<1> HIDE DEF all, has, word, not, next, r, Read
<1> QED
  BY <1>3, <1>4, <1>5, <1>6, <1>7, <1>9, <1>10, <1>11

\* A test that a connective, a ")" or the end follows is read to its end.
LEMMA TestsAreFound ==
    ASSUME NEW ts \in Seq(Tokens), NEW i \in 1..Len(ts), NEW n \in Nat, i + n <= Len(ts) + 1,
           NEW m \in TestReadings(ts, i, n), Kind(ts, i + n) \in {"AND", "OR", "RPAREN", "EOF"}
    PROVE  IsName(ts, i) /\ n >= 1 /\ ParsePredicate(ts, i) = Parsed(m, i + n)
<1> DEFINE name == ts[i].text
           next == Kind(ts, i + 1)
           r    == ParsePredicate(ts, i)
<1>1. i \in Nat \ {0} /\ Len(ts) \in Nat
  OBVIOUS
<1>2. IsName(ts, i)
  BY DEF TestReadings
<1>3. CASE m \in Bare(ts, i, n)
  <2>1. n = 1 /\ m = Has(name)
    BY <1>3 DEF Bare
  <2>2. next \in {"AND", "OR", "RPAREN", "EOF"}
    BY <2>1
  <2>3. r = Parsed(Has(name), i + 1)
    BY <2>2 DEF ParsePredicate
  <2> QED
    BY <1>2, <2>1, <2>3
<1>4. CASE m \in All(ts, i, n)
  <2>1. n = 3 /\ m = Labels /\ name = "all" /\ next = "LPAREN" /\ Kind(ts, i + 2) = "RPAREN"
    BY <1>4 DEF All
  <2>2. r = Parsed(Labels, i + 3)
    BY <2>1 DEF ParsePredicate
  <2> QED
    BY <1>2, <2>1, <2>2
<1>5. CASE m \in HasOf(ts, i, n)
  <2>1. /\ n = 4 /\ m = Has(ts[i + 2].text) /\ name = "has" /\ next = "LPAREN"
        /\ Kind(ts, i + 2) \in {"IDENT", "STRING"} /\ Kind(ts, i + 3) = "RPAREN"
    BY <1>5 DEF HasOf, IsName
  <2>2. r = Parsed(Has(ts[i + 2].text), i + 4)
    BY <2>1 DEF ParsePredicate
  <2> QED
    BY <1>2, <2>1, <2>2
<1>6. CASE m \in Equal(ts, i, n) \cup Unequal(ts, i, n)
  <2>1. n = 3 /\ Kind(ts, i + 2) = "STRING"
    BY <1>6 DEF Equal, Unequal
  <2>2. (i + 2) + 1 = i + n
    BY <1>1, <2>1
  <2>3. CASE m \in Unequal(ts, i, n)
    <3>1. m = Labels \ With(name, {ts[i + 2].text}) /\ next = "NE"
      BY <2>3 DEF Unequal
    <3>2. r = ParseOperand(ts, i + 2, "is", "neg", name)
      BY <3>1 DEF ParsePredicate
    <3> HIDE DEF r
    <3>3. r = Parsed(m, (i + 2) + 1)
      BY <2>1, <3>1, <3>2, PassingIs DEF ParseOperand
    <3> QED
      BY <1>2, <2>1, <2>2, <3>3 DEF r
  <2>4. CASE m \in Equal(ts, i, n)
    <3>1. m = With(name, {ts[i + 2].text}) /\ next \in {"EQ", "ASSIGN"}
      BY <2>4 DEF Equal
    <3>2. r = ParseOperand(ts, i + 2, "is", "", name)
      BY <3>1 DEF ParsePredicate
    <3> HIDE DEF r
    <3>3. r = Parsed(m, (i + 2) + 1)
      BY <2>1, <3>1, <3>2, PassingIs DEF ParseOperand
    <3> QED
      BY <1>2, <2>1, <2>2, <3>3 DEF r
  <2> QED
    BY <1>6, <2>3, <2>4
<1>7. CASE m \in Comparisons(ts, i, n)
  <2>1. \A o : /\ Compares(ts, i, o, {"contains", "startsWith", "endsWith"}) => Compares(ts, i, o, Negatable)
               /\ Compares(ts, i, o, {"matches"}) => Compares(ts, i, o, Negatable)
               /\ Compares(ts, i, o, {"in"}) => Compares(ts, i, o, Negatable)
    BY DEF Compares, IsWord, Negatable
  <2>2. PICK o \in {i + 1, i + 2} : Compares(ts, i, o, Negatable) /\ i + n - 1 >= o + 1
    <3>1. \E o \in {i + 1, i + 2} : /\ Compares(ts, i, o, Negatable)
                                    /\ i + n - 1 = o + 1 \/ i + n - 1 >= o + 2
      BY <1>7, <2>1 DEF Comparisons
    <3>2. i \in Nat /\ n \in Nat
      BY <1>1
    <3> QED
      BY <3>1, <3>2
  <2>3. next = "IDENT" /\ n >= 1
    BY <1>1, <2>2 DEF Compares, IsWord
  <2>a. Agree(i, i + 1, "") /\ Agree(i, i + 2, "neg")
    BY <1>1, TheyAgree
  <2>4. CASE o = i + 1
    <3>1. IsWord(ts, i + 1, Negatable)
      BY <2>2, <2>4 DEF Compares
    <3>2. r = ParseOperand(ts, i + 2, ts[i + 1].text, "", name)
      BY <2>3, <3>1 DEF ParsePredicate
    <3>3. (i + 1) + 1 = i + 2
      BY <1>1
    <3> DEFINE neg == ""
    <3>4. r = OperandAt(ts, i, o, neg) /\ Agree(i, o, neg)
      BY <2>4, <2>a, <3>2, <3>3 DEF OperandAt
    <3> HIDE DEF neg, r
    <3>5. r = Parsed(m, i + n)
      BY <1>7, <2>2, <3>4, OperandsFound
    <3> QED
      BY <1>2, <2>3, <3>5 DEF r
  <2>5. CASE o # i + 1
    <3>1. o = i + 2 /\ IsWord(ts, i + 1, {"not"}) /\ IsWord(ts, i + 2, Negatable)
      BY <2>2, <2>5 DEF Compares
    <3>2. ~IsWord(ts, i + 1, Negatable)
      BY <3>1 DEF IsWord, Negatable
    <3>3. r = ParseOperand(ts, i + 3, ts[i + 2].text, "neg", name)
      BY <2>3, <3>1, <3>2 DEF ParsePredicate
    <3>4. (i + 2) + 1 = i + 3
      BY <1>1
    <3> DEFINE neg == "neg"
    <3>5. r = OperandAt(ts, i, o, neg) /\ Agree(i, o, neg)
      BY <2>a, <3>1, <3>3, <3>4 DEF OperandAt
    <3> HIDE DEF neg, r
    <3>6. r = Parsed(m, i + n)
      BY <1>7, <2>2, <3>5, OperandsFound
    <3> QED
      BY <1>2, <2>3, <3>6 DEF r
  <2> QED
    BY <2>4, <2>5
<1> QED
  BY <1>2, <1>3, <1>4, <1>5, <1>6, <1>7 DEF TestReadings

-----------------------------------------------------------------------------
(***************************************************************************)
(* Both charts exist.  What a stretch may mean depends on shorter ones, and*)
(* what the parser reads from a token on depends on later tokens.          *)
(***************************************************************************)
LEMMA ShortOnes ==
    ASSUME NEW ts, NEW i, NEW n \in Nat, NEW G, NEW H, \A k \in 0..(n - 1) : G[k] = H[k]
    PROVE  StretchReadings(ts, G, i, n) = StretchReadings(ts, H, i, n)
<1>1. /\ n > 1 => G[n - 1] = H[n - 1]
      /\ n > 2 => G[n - 2] = H[n - 2]
      /\ \A k \in 1..(n - 2) : G[k] = H[k] /\ G[n - k - 1] = H[n - k - 1]
  <2>1. n > 1 => n - 1 \in 0..(n - 1)
    OBVIOUS
  <2>2. n > 2 => n - 2 \in 0..(n - 1)
    OBVIOUS
  <2>3. \A k \in 1..(n - 2) : k \in 0..(n - 1) /\ n - k - 1 \in 0..(n - 1)
    OBVIOUS
  <2> QED
    BY <2>1, <2>2, <2>3
<1>2. UnaryReadings(ts, G, i, n) = UnaryReadings(ts, H, i, n)
  BY <1>1 DEF UnaryReadings
<1>3. AndChains(ts, G, i, n) = AndChains(ts, H, i, n)
  <2>1. \A k \in {k \in 1..(n - 2) : Kind(ts, i + k) = "AND"} :
           {a \cap b : a \in G[k][i].unary, b \in G[n - k - 1][i + k + 1].and}
             = {a \cap b : a \in H[k][i].unary, b \in H[n - k - 1][i + k + 1].and}
    BY <1>1
  <2> QED
    BY <2>1 DEF AndChains
<1>4. OrChains(ts, G, i, n) = OrChains(ts, H, i, n)
  <2>1. \A k \in {k \in 1..(n - 2) : Kind(ts, i + k) = "OR"} :
           {a \cup b : a \in G[k][i].and, b \in G[n - k - 1][i + k + 1].or}
             = {a \cup b : a \in H[k][i].and, b \in H[n - k - 1][i + k + 1].or}
    BY <1>1
  <2> QED
    BY <2>1 DEF OrChains
<1> QED
  BY <1>2, <1>3, <1>4 DEF StretchReadings

Row(ts, G, n) == [i \in 1..(Len(ts) + 1 - n) |-> StretchReadings(ts, G, i, n)]

LEMMA GrammarIs ==
    ASSUME NEW ts \in Seq(Tokens)
    PROVE  \A n \in 0..Len(ts) : Grammar(ts)[n] = Row(ts, Grammar(ts), n)
<1> DEFINE Upto(N) == \E G : \A n \in 0..N : G[n] = Row(ts, G, n)
           Missing == {N \in Nat : ~Upto(N)}
<1>1. Len(ts) \in Nat
  OBVIOUS
<1>2. Missing = {}
  <2> SUFFICES ASSUME Missing # {}
               PROVE  FALSE
    OBVIOUS
  <2>1. Missing \subseteq Nat
    OBVIOUS
  <2>2. PICK N \in Missing : \A k \in Missing : N <= k
    <3> HIDE DEF Missing
    <3> QED
      BY <2>1, LeastOf
  <2>3. N \in Nat
    BY <2>1, <2>2
  <2>4. \E G : \A n \in 0..(N - 1) : G[n] = Row(ts, G, n)
    <3>1. CASE N = 0
      <4>1. 0..(N - 1) = {}
        BY <3>1
      <4> QED
        BY <4>1
    <3>2. CASE N # 0
      <4>1. N - 1 \in Nat /\ ~(N <= N - 1)
        BY <2>3, <3>2
      <4>2. N - 1 \notin Missing
        BY <2>2, <4>1
      <4> QED
        BY <4>1, <4>2
    <3> QED
      BY <3>1, <3>2
  <2>5. PICK G : \A n \in 0..(N - 1) : G[n] = Row(ts, G, n)
    BY <2>4
  <2> DEFINE H == [n \in 0..N |-> Row(ts, G, n)]
  <2>6. \A n \in 0..N : H[n] = Row(ts, G, n)
    OBVIOUS
  <2> HIDE DEF H
  <2>7. \A k \in 0..(N - 1) : G[k] = H[k]
    <3>1. 0..(N - 1) \subseteq 0..N
      BY <2>3
    <3> QED
      BY <2>5, <2>6, <3>1
  <2>8. ASSUME NEW n \in 0..N
        PROVE  H[n] = Row(ts, H, n)
    <3>1. n \in Nat /\ \A k \in 0..(n - 1) : k \in 0..(N - 1)
      BY <2>3
    <3>2. \A k \in 0..(n - 1) : G[k] = H[k]
      BY <2>7, <3>1
    <3>3. ASSUME NEW i
          PROVE  StretchReadings(ts, G, i, n) = StretchReadings(ts, H, i, n)
      BY <3>1, <3>2, ShortOnes
    <3>4. Row(ts, G, n) = Row(ts, H, n)
      BY <3>3 DEF Row
    <3> QED
      BY <2>6, <3>4
  <2>9. Upto(N)
    BY <2>8
  <2> QED
    BY <2>2, <2>9
<1>3. PICK G : \A n \in 0..Len(ts) : G[n] = Row(ts, G, n)
  BY <1>1, <1>2
<1> DEFINE Is(H) == H = [n \in 0..Len(ts) |-> [i \in 1..(Len(ts) + 1 - n) |-> StretchReadings(ts, H, i, n)]]
           H == [n \in 0..Len(ts) |-> G[n]]
<1>4. Is(H)
  <2>1. \A n \in 0..Len(ts) : H[n] = G[n]
    OBVIOUS
  <2> HIDE DEF H
  <2>2. ASSUME NEW n \in 0..Len(ts)
        PROVE  G[n] = [i \in 1..(Len(ts) + 1 - n) |-> StretchReadings(ts, H, i, n)]
    <3>1. n \in Nat /\ \A k \in 0..(n - 1) : k \in 0..Len(ts)
      BY <1>1
    <3>2. \A k \in 0..(n - 1) : G[k] = H[k]
      BY <2>1, <3>1
    <3>3. ASSUME NEW i
          PROVE  StretchReadings(ts, G, i, n) = StretchReadings(ts, H, i, n)
      BY <3>1, <3>2, ShortOnes
    <3> QED
      BY <1>3, <3>3 DEF Row
  <2> QED
    BY <2>2 DEF H
<1>5. Grammar(ts) = CHOOSE F : Is(F)
  BY DEF Grammar
<1>6. Is(Grammar(ts))
  <2> HIDE DEF Is
  <2> QED
    BY <1>4, <1>5
<1>7. ASSUME NEW n \in 0..Len(ts)
      PROVE  Grammar(ts)[n] = Row(ts, Grammar(ts), n)
  <2> DEFINE F == Grammar(ts)
  <2>1. F = [k \in 0..Len(ts) |-> [i \in 1..(Len(ts) + 1 - k) |-> StretchReadings(ts, F, i, k)]]
    BY <1>6
  <2> HIDE DEF F
  <2>2. F[n] = Row(ts, F, n)
    BY <2>1 DEF Row
  <2> QED
    BY <2>2 DEF F
<1> QED
  BY <1>7

\* What the grammar says of one stretch.
LEMMA StretchIs ==
    ASSUME NEW ts \in Seq(Tokens), NEW n \in 0..Len(ts), NEW i \in 1..(Len(ts) + 1 - n)
    PROVE  LET G == Grammar(ts) IN
           /\ G[n][i].unary = UnaryReadings(ts, G, i, n)
           /\ G[n][i].and = G[n][i].unary \cup AndChains(ts, G, i, n)
           /\ G[n][i].or = G[n][i].and \cup OrChains(ts, G, i, n)
<1> DEFINE G == Grammar(ts)
<1>1. G[n] = Row(ts, G, n)
  BY GrammarIs
<1> HIDE DEF G
<1>2. G[n][i] = StretchReadings(ts, G, i, n)
  BY <1>1 DEF Row
<1>3. /\ G[n][i].unary = UnaryReadings(ts, G, i, n)
      /\ G[n][i].and = G[n][i].unary \cup AndChains(ts, G, i, n)
      /\ G[n][i].or = G[n][i].and \cup OrChains(ts, G, i, n)
  BY <1>2 DEF StretchReadings
<1> QED
  BY <1>3 DEF G

-----------------------------------------------------------------------------
(***************************************************************************)
(* Whatever the parser returns is a meaning of the stretch it has read.    *)
(***************************************************************************)
LEMMA ResultFacts ==
    ASSUME NEW m, NEW at
    PROVE  /\ Parsed(m, at).ok /\ Parsed(m, at).node = m /\ Parsed(m, at).at = at
           /\ ~Failed.ok
           /\ Parsed(m, at) # Failed
           /\ \A m2, at2 : Parsed(m, at) = Parsed(m2, at2) => m = m2
<1>1. Parsed(m, at).ok /\ Parsed(m, at).node = m /\ Parsed(m, at).at = at
  BY DEF Parsed
<1>2. ~Failed.ok
  BY DEF Failed
<1>3. ASSUME NEW m2, NEW at2, Parsed(m, at) = Parsed(m2, at2)
      PROVE  m = m2
  <2>1. Parsed(m2, at2).node = m2
    BY DEF Parsed
  <2> QED
    BY <1>1, <1>3, <2>1
<1>4. Parsed(m, at) # Failed
  BY <1>1, <1>2
<1> QED
  BY <1>1, <1>2, <1>3, <1>4

UnaryRead(ts, i, r) ==
    \/ r = Failed
    \/ \E n \in 1..(Len(ts) + 1 - i) : \E m \in Grammar(ts)[n][i].unary : r = Parsed(m, i + n)
AndRead(ts, i, r) ==
    \/ r = Failed
    \/ \E n \in 1..(Len(ts) + 1 - i) : \E m \in Grammar(ts)[n][i].and : r = Parsed(m, i + n)
OrRead(ts, i, r) ==
    \/ r = Failed
    \/ \E n \in 1..(Len(ts) + 1 - i) : \E m \in Grammar(ts)[n][i].or : r = Parsed(m, i + n)

AllRead(ts, i, r) == UnaryRead(ts, i, r.unary) /\ AndRead(ts, i, r.and) /\ OrRead(ts, i, r.or)

LEMMA UnariesAreRead ==
    ASSUME NEW ts \in Seq(Tokens), NEW i \in 1..(Len(ts) + 1), NEW from,
           \A j \in (i + 1)..(Len(ts) + 1) : AllRead(ts, j, from[j])
    PROVE  UnaryRead(ts, i, ParseUnary(ts, from, i))
<1> DEFINE G == Grammar(ts)
           r == ParseUnary(ts, from, i)
           Read(n, m) == n \in 1..(Len(ts) + 1 - i) /\ m \in G[n][i].unary /\ r = Parsed(m, i + n)
<1>1. Len(ts) \in Nat /\ i \in Nat \ {0}
  OBVIOUS
<1>2. Kind(ts, i) # "EOF" => i <= Len(ts) /\ i + 1 \in (i + 1)..(Len(ts) + 1)
  BY <1>1, TokenFacts
<1>3. SUFFICES r = Failed \/ \E n, m : Read(n, m)
  BY DEF UnaryRead
<1>4. ASSUME NEW n \in 1..(Len(ts) + 1 - i), NEW m \in UnaryReadings(ts, G, i, n), r = Parsed(m, i + n)
      PROVE  \E k, l : Read(k, l)
  <2>1. n \in 0..Len(ts) /\ i \in 1..(Len(ts) + 1 - n)
    BY <1>1
  <2>2. G[n][i].unary = UnaryReadings(ts, G, i, n)
    BY <2>1, StretchIs
  <2> HIDE DEF G, r
  <2>3. Read(n, m)
    BY <1>4, <2>2
  <2> QED
    BY <2>3
<1>5. CASE Kind(ts, i) = "NOT"
  <2> DEFINE inner == from[i + 1].unary
  <2>1. r = IF inner.ok THEN Parsed(Labels \ inner.node, inner.at) ELSE Failed
    BY <1>5 DEF ParseUnary
  <2>2. UnaryRead(ts, i + 1, inner)
    BY <1>2, <1>5 DEF AllRead
  <2>3. CASE inner.ok
    <3> HIDE DEF inner, r, Read
    <3>1. PICK n \in 1..(Len(ts) + 1 - (i + 1)) :
            \E m \in Grammar(ts)[n][i + 1].unary : inner = Parsed(m, (i + 1) + n)
      BY <2>2, <2>3, ResultFacts DEF UnaryRead
    <3>2. PICK m \in G[n][i + 1].unary : inner = Parsed(m, (i + 1) + n)
      BY <3>1
    <3>3. n + 1 \in 1..(Len(ts) + 1 - i) /\ n + 1 > 1 /\ (n + 1) - 1 = n /\ (i + 1) + n = i + (n + 1)
      BY <1>1
    <3>4. inner.node = m /\ inner.at = (i + 1) + n
      BY <3>2, ResultFacts
    <3>5. r = Parsed(Labels \ m, i + (n + 1))
      BY <2>1, <2>3, <3>3, <3>4
    <3>6. Labels \ m \in UnaryReadings(ts, G, i, n + 1)
      <4> DEFINE n1 == n + 1
      <4>1. n1 > 1 /\ n1 - 1 = n
        BY <3>3
      <4> HIDE DEF n1, G
      <4>2. Labels \ m \in UnaryReadings(ts, G, i, n1)
        BY <1>5, <3>2, <4>1 DEF UnaryReadings
      <4> QED
        BY <4>2 DEF n1
    <3> QED
      BY <1>4, <3>3, <3>5, <3>6
  <2> QED
    BY <2>1, <2>3
<1>6. CASE Kind(ts, i) = "LPAREN"
  <2> DEFINE inner == from[i + 1].or
  <2>1. r = IF inner.ok /\ Kind(ts, inner.at) = "RPAREN" THEN Parsed(inner.node, inner.at + 1) ELSE Failed
    BY <1>6 DEF ParseUnary, ParsePrimary
  <2>2. OrRead(ts, i + 1, inner)
    BY <1>2, <1>6 DEF AllRead
  <2>3. CASE inner.ok /\ Kind(ts, inner.at) = "RPAREN"
    <3> HIDE DEF inner, r, Read
    <3>1. PICK n \in 1..(Len(ts) + 1 - (i + 1)) :
            \E m \in Grammar(ts)[n][i + 1].or : inner = Parsed(m, (i + 1) + n)
      BY <2>2, <2>3, ResultFacts DEF OrRead
    <3>2. PICK m \in G[n][i + 1].or : inner = Parsed(m, (i + 1) + n)
      BY <3>1
    <3>4. inner.node = m /\ inner.at = (i + 1) + n
      BY <3>2, ResultFacts
    <3>3. Kind(ts, (i + 1) + n) = "RPAREN" /\ (i + 1) + n <= Len(ts)
      <4>1. (i + 1) + n \in Nat \ {0}
        BY <1>1
      <4>2. Kind(ts, (i + 1) + n) = "RPAREN"
        BY <2>3, <3>4
      <4> QED
        BY <4>1, <4>2, TokenFacts
    <3>n. n \in Nat /\ n >= 1
      BY <1>1
    <3>a. n + 2 \in 1..(Len(ts) + 1 - i)
      BY <1>1, <3>3, <3>n
    <3>5. n + 2 > 2 /\ (n + 2) - 2 = n
          /\ ((i + 1) + n) + 1 = i + (n + 2) /\ i + (n + 2) - 1 = (i + 1) + n
      BY <1>1, <3>n
    <3>6. r = Parsed(m, i + (n + 2))
      BY <2>1, <2>3, <3>4, <3>5
    <3>7. m \in UnaryReadings(ts, G, i, n + 2)
      <4> DEFINE n2 == n + 2
      <4>1. n2 > 2 /\ n2 - 2 = n /\ i + n2 - 1 = (i + 1) + n
        BY <3>5
      <4> HIDE DEF n2, G
      <4>2. m \in UnaryReadings(ts, G, i, n2)
        BY <1>6, <3>2, <3>3, <4>1 DEF UnaryReadings
      <4> QED
        BY <4>2 DEF n2
    <3> QED
      BY <1>4, <3>a, <3>6, <3>7
  <2> QED
    BY <2>1, <2>3
<1>7. CASE IsName(ts, i)
  <2>1. i \in 1..Len(ts)
    BY <1>1, <1>2, <1>7 DEF IsName
  <2>2. r = ParsePredicate(ts, i)
    BY <1>7 DEF ParseUnary, ParsePrimary, IsName
  <2> HIDE DEF r, Read
  <2>3. \/ r = Failed
        \/ \E n \in 1..(Len(ts) + 1 - i) : \E m \in TestReadings(ts, i, n) : r = Parsed(m, i + n)
    BY <1>7, <2>1, <2>2, TestsAreRead
  <2>4. \A n : TestReadings(ts, i, n) \subseteq UnaryReadings(ts, G, i, n)
    BY DEF UnaryReadings
  <2> QED
    BY <1>4, <2>3, <2>4
<1>8. CASE Kind(ts, i) # "NOT" /\ Kind(ts, i) # "LPAREN" /\ ~IsName(ts, i)
  BY <1>8 DEF ParseUnary, ParsePrimary, IsName
<1> HIDE DEF r, Read
<1> QED
  BY <1>5, <1>6, <1>7, <1>8

LEMMA AndsAreRead ==
    ASSUME NEW ts \in Seq(Tokens), NEW i \in 1..(Len(ts) + 1), NEW from, NEW first,
           \A j \in (i + 1)..(Len(ts) + 1) : AllRead(ts, j, from[j]), UnaryRead(ts, i, first)
    PROVE  AndRead(ts, i, ParseAnd(ts, from, first))
<1> DEFINE G == Grammar(ts)
           r == ParseAnd(ts, from, first)
           Read(n, m) == n \in 1..(Len(ts) + 1 - i) /\ m \in G[n][i].and /\ r = Parsed(m, i + n)
<1>1. Len(ts) \in Nat /\ i \in Nat \ {0}
  OBVIOUS
<1>2. SUFFICES r = Failed \/ \E n, m : Read(n, m)
  BY DEF AndRead
<1>3. CASE first = Failed
  BY <1>3, ResultFacts DEF ParseAnd
<1>4. CASE first # Failed
  <2>1. PICK k \in 1..(Len(ts) + 1 - i) : \E m \in Grammar(ts)[k][i].unary : first = Parsed(m, i + k)
    BY <1>4 DEF UnaryRead
  <2>2. PICK a \in G[k][i].unary : first = Parsed(a, i + k)
    BY <2>1
  <2>3. first.ok /\ first.node = a /\ first.at = i + k
    BY <2>2, ResultFacts
  <2>4. CASE Kind(ts, i + k) # "AND"
    <3>1. r = Parsed(a, i + k)
      BY <2>2, <2>3, <2>4 DEF ParseAnd
    <3>2. k \in 0..Len(ts) /\ i \in 1..(Len(ts) + 1 - k)
      BY <1>1
    <3>3. a \in G[k][i].and
      BY <2>2, <3>2, StretchIs
    <3> HIDE DEF r, G
    <3>4. Read(k, a)
      BY <3>1, <3>3
    <3> QED
      BY <3>4
  <2>5. CASE Kind(ts, i + k) = "AND"
    <3> DEFINE later == i + k + 1
               rest  == from[later].and
    <3>1. later \in (i + 1)..(Len(ts) + 1) /\ later = (i + k) + 1
      <4>1. i + k \in Nat \ {0}
        BY <1>1
      <4>2. i + k <= Len(ts)
        BY <2>5, <4>1, TokenFacts
      <4> QED
        BY <1>1, <4>2
    <3>2. r = IF rest.ok THEN Parsed(a \cap rest.node, rest.at) ELSE Failed
      BY <2>3, <2>5, <3>1 DEF ParseAnd
    <3>3. AndRead(ts, later, rest)
      BY <3>1 DEF AllRead
    <3>4. CASE ~rest.ok
      BY <3>2, <3>4
    <3>5. CASE rest.ok
      <4> HIDE DEF rest, later, r, Read
      <4>1. PICK l \in 1..(Len(ts) + 1 - later) :
              \E m \in Grammar(ts)[l][later].and : rest = Parsed(m, later + l)
        BY <3>3, <3>5, ResultFacts DEF AndRead
      <4>2. PICK b \in G[l][later].and : rest = Parsed(b, later + l)
        BY <4>1
      <4> DEFINE n == k + 1 + l
      <4>3. /\ n \in 1..(Len(ts) + 1 - i) /\ n \in 0..Len(ts) /\ i \in 1..(Len(ts) + 1 - n)
            /\ k \in 1..(n - 2) /\ n - k - 1 = l /\ later + l = i + n
        BY <1>1, <3>1, <4>1 DEF later
      <4>4. rest.node = b /\ rest.at = i + n
        BY <4>2, <4>3, ResultFacts
      <4> HIDE DEF n
      <4>5. r = Parsed(a \cap b, i + n)
        BY <3>2, <3>5, <4>4
      <4>6. a \cap b \in AndChains(ts, G, i, n)
        <5> DEFINE K     == {j \in 1..(n - 2) : Kind(ts, i + j) = "AND"}
                   At(j) == {x \cap y : x \in G[j][i].unary, y \in G[n - j - 1][i + j + 1].and}
        <5> HIDE DEF G
        <5>1. b \in G[n - k - 1][i + k + 1].and
          BY <4>2, <4>3 DEF later
        <5>2. a \cap b \in At(k)
          BY <2>2, <5>1
        <5>3. k \in K
          BY <2>5, <4>3
        <5>4. AndChains(ts, G, i, n) = UNION {At(j) : j \in K}
          BY DEF AndChains
        <5> HIDE DEF At, K
        <5> QED
          BY <5>2, <5>3, <5>4
      <4>7. a \cap b \in G[n][i].and
        BY <4>3, <4>6, StretchIs
      <4>8. Read(n, a \cap b)
        <5> HIDE DEF G
        <5> QED
          BY <4>3, <4>5, <4>7 DEF Read
      <4> QED
        BY <4>8
    <3> QED
      BY <3>4, <3>5
  <2> QED
    BY <2>4, <2>5
<1> QED
  BY <1>3, <1>4

LEMMA OrsAreRead ==
    ASSUME NEW ts \in Seq(Tokens), NEW i \in 1..(Len(ts) + 1), NEW from, NEW first,
           \A j \in (i + 1)..(Len(ts) + 1) : AllRead(ts, j, from[j]), AndRead(ts, i, first)
    PROVE  OrRead(ts, i, ParseOr(ts, from, first))
<1> DEFINE G == Grammar(ts)
           r == ParseOr(ts, from, first)
           Read(n, m) == n \in 1..(Len(ts) + 1 - i) /\ m \in G[n][i].or /\ r = Parsed(m, i + n)
<1>1. Len(ts) \in Nat /\ i \in Nat \ {0}
  OBVIOUS
<1>2. SUFFICES r = Failed \/ \E n, m : Read(n, m)
  BY DEF OrRead
<1>3. CASE first = Failed
  BY <1>3, ResultFacts DEF ParseOr
<1>4. CASE first # Failed
  <2>1. PICK k \in 1..(Len(ts) + 1 - i) : \E m \in Grammar(ts)[k][i].and : first = Parsed(m, i + k)
    BY <1>4 DEF AndRead
  <2>2. PICK a \in G[k][i].and : first = Parsed(a, i + k)
    BY <2>1
  <2>3. first.ok /\ first.node = a /\ first.at = i + k
    BY <2>2, ResultFacts
  <2>4. CASE Kind(ts, i + k) # "OR"
    <3>1. r = Parsed(a, i + k)
      BY <2>2, <2>3, <2>4 DEF ParseOr
    <3>2. k \in 0..Len(ts) /\ i \in 1..(Len(ts) + 1 - k)
      BY <1>1
    <3>3. a \in G[k][i].or
      BY <2>2, <3>2, StretchIs
    <3> HIDE DEF r, G
    <3>4. Read(k, a)
      BY <3>1, <3>3
    <3> QED
      BY <3>4
  <2>5. CASE Kind(ts, i + k) = "OR"
    <3> DEFINE later == i + k + 1
               rest  == from[later].or
    <3>1. later \in (i + 1)..(Len(ts) + 1) /\ later = (i + k) + 1
      <4>1. i + k \in Nat \ {0}
        BY <1>1
      <4>2. i + k <= Len(ts)
        BY <2>5, <4>1, TokenFacts
      <4> QED
        BY <1>1, <4>2
    <3>2. r = IF rest.ok THEN Parsed(a \cup rest.node, rest.at) ELSE Failed
      BY <2>3, <2>5, <3>1 DEF ParseOr
    <3>3. OrRead(ts, later, rest)
      BY <3>1 DEF AllRead
    <3>4. CASE ~rest.ok
      BY <3>2, <3>4
    <3>5. CASE rest.ok
      <4> HIDE DEF rest, later, r, Read
      <4>1. PICK l \in 1..(Len(ts) + 1 - later) :
              \E m \in Grammar(ts)[l][later].or : rest = Parsed(m, later + l)
        BY <3>3, <3>5, ResultFacts DEF OrRead
      <4>2. PICK b \in G[l][later].or : rest = Parsed(b, later + l)
        BY <4>1
      <4> DEFINE n == k + 1 + l
      <4>3. /\ n \in 1..(Len(ts) + 1 - i) /\ n \in 0..Len(ts) /\ i \in 1..(Len(ts) + 1 - n)
            /\ k \in 1..(n - 2) /\ n - k - 1 = l /\ later + l = i + n
        BY <1>1, <3>1, <4>1 DEF later
      <4>4. rest.node = b /\ rest.at = i + n
        BY <4>2, <4>3, ResultFacts
      <4> HIDE DEF n
      <4>5. r = Parsed(a \cup b, i + n)
        BY <3>2, <3>5, <4>4
      <4>6. a \cup b \in OrChains(ts, G, i, n)
        <5> DEFINE K     == {j \in 1..(n - 2) : Kind(ts, i + j) = "OR"}
                   At(j) == {x \cup y : x \in G[j][i].and, y \in G[n - j - 1][i + j + 1].or}
        <5> HIDE DEF G
        <5>1. b \in G[n - k - 1][i + k + 1].or
          BY <4>2, <4>3 DEF later
        <5>2. a \cup b \in At(k)
          BY <2>2, <5>1
        <5>3. k \in K
          BY <2>5, <4>3
        <5>4. OrChains(ts, G, i, n) = UNION {At(j) : j \in K}
          BY DEF OrChains
        <5> HIDE DEF At, K
        <5> QED
          BY <5>2, <5>3, <5>4
      <4>7. a \cup b \in G[n][i].or
        BY <4>3, <4>6, StretchIs
      <4>8. Read(n, a \cup b)
        <5> HIDE DEF G
        <5> QED
          BY <4>3, <4>5, <4>7 DEF Read
      <4> QED
        BY <4>8
    <3> QED
      BY <3>4, <3>5
  <2> QED
    BY <2>4, <2>5
<1> QED
  BY <1>3, <1>4

LEMMA EntriesAreRead ==
    ASSUME NEW ts \in Seq(Tokens), NEW i \in 1..(Len(ts) + 1), NEW from,
           \A j \in (i + 1)..(Len(ts) + 1) : AllRead(ts, j, from[j])
    PROVE  AllRead(ts, i, ParseAt(ts, from, i))
<1> DEFINE unary == ParseUnary(ts, from, i)
           and   == ParseAnd(ts, from, unary)
<1>1. UnaryRead(ts, i, unary)
  BY UnariesAreRead
<1> HIDE DEF unary
<1>2. AndRead(ts, i, and)
  BY <1>1, AndsAreRead
<1> HIDE DEF and
<1>3. OrRead(ts, i, ParseOr(ts, from, and))
  BY <1>2, OrsAreRead
<1>4. ParseAt(ts, from, i) = [unary |-> unary, and |-> and, or |-> ParseOr(ts, from, and)]
  BY DEF ParseAt, unary, and
<1> QED
  BY <1>1, <1>2, <1>3, <1>4 DEF AllRead

\* A call depends on what is returned for later tokens only.
LEMMA LaterOnes ==
    ASSUME NEW ts \in Seq(Tokens), NEW i \in 1..(Len(ts) + 1), NEW F, NEW H,
           \A j \in (i + 1)..(Len(ts) + 1) : F[j] = H[j] /\ AllRead(ts, j, F[j])
    PROVE  ParseAt(ts, F, i) = ParseAt(ts, H, i)
<1>1. Len(ts) \in Nat /\ i \in Nat \ {0}
  OBVIOUS
<1>2. Kind(ts, i) # "EOF" => F[i + 1] = H[i + 1]
  <2>1. Kind(ts, i) # "EOF" => i + 1 \in (i + 1)..(Len(ts) + 1)
    BY <1>1, TokenFacts
  <2> QED
    BY <2>1
<1>3. ParseUnary(ts, F, i) = ParseUnary(ts, H, i)
  <2>1. CASE Kind(ts, i) = "NOT"
    BY <1>2, <2>1 DEF ParseUnary
  <2>2. CASE Kind(ts, i) = "LPAREN"
    BY <1>2, <2>2 DEF ParseUnary, ParsePrimary
  <2>3. CASE Kind(ts, i) # "NOT" /\ Kind(ts, i) # "LPAREN"
    BY <2>3 DEF ParseUnary, ParsePrimary
  <2> QED
    BY <2>1, <2>2, <2>3
<1>4. ASSUME NEW first, first.ok, Kind(ts, first.at) # "EOF",
             \E n \in 1..(Len(ts) + 1 - i) : \E m : first = Parsed(m, i + n)
      PROVE  F[first.at + 1] = H[first.at + 1]
  <2>1. PICK n \in 1..(Len(ts) + 1 - i) : \E m : first = Parsed(m, i + n)
    BY <1>4
  <2>2. first.at = i + n
    BY <2>1, ResultFacts
  <2>3. i + n \in Nat \ {0}
    BY <1>1
  <2>4. i + n <= Len(ts)
    BY <1>4, <2>2, <2>3, TokenFacts
  <2>5. (i + n) + 1 \in (i + 1)..(Len(ts) + 1)
    BY <1>1, <2>4
  <2> QED
    BY <2>2, <2>5
<1>5. ASSUME NEW first, UnaryRead(ts, i, first)
      PROVE  ParseAnd(ts, F, first) = ParseAnd(ts, H, first)
  <2>1. first.ok => \E n \in 1..(Len(ts) + 1 - i) : \E m : first = Parsed(m, i + n)
    BY <1>5, ResultFacts DEF UnaryRead
  <2>2. CASE first.ok /\ Kind(ts, first.at) = "AND"
    BY <1>4, <2>1, <2>2 DEF ParseAnd
  <2>3. CASE ~(first.ok /\ Kind(ts, first.at) = "AND")
    BY <2>3 DEF ParseAnd
  <2> QED
    BY <2>2, <2>3
<1>6. ASSUME NEW first, AndRead(ts, i, first)
      PROVE  ParseOr(ts, F, first) = ParseOr(ts, H, first)
  <2>1. first.ok => \E n \in 1..(Len(ts) + 1 - i) : \E m : first = Parsed(m, i + n)
    BY <1>6, ResultFacts DEF AndRead
  <2>2. CASE first.ok /\ Kind(ts, first.at) = "OR"
    BY <1>4, <2>1, <2>2 DEF ParseOr
  <2>3. CASE ~(first.ok /\ Kind(ts, first.at) = "OR")
    BY <2>3 DEF ParseOr
  <2> QED
    BY <2>2, <2>3
<1> DEFINE unary == ParseUnary(ts, F, i)
           and   == ParseAnd(ts, F, unary)
<1>7. UnaryRead(ts, i, unary)
  BY UnariesAreRead
<1>8. ParseAnd(ts, H, unary) = and
  <2> HIDE DEF unary
  <2> QED
    BY <1>5, <1>7
<1>9. AndRead(ts, i, and)
  <2> HIDE DEF unary
  <2> QED
    BY <1>7, AndsAreRead
<1>10. ParseOr(ts, H, and) = ParseOr(ts, F, and)
  <2> HIDE DEF and
  <2> QED
    BY <1>6, <1>9
<1>11. /\ ParseAt(ts, F, i) = [unary |-> unary, and |-> and, or |-> ParseOr(ts, F, and)]
       /\ ParseAt(ts, H, i) = [unary |-> unary, and |-> and, or |-> ParseOr(ts, H, and)]
  BY <1>3, <1>8 DEF ParseAt
<1> QED
  BY <1>10, <1>11

LEMMA ParserIs ==
    ASSUME NEW ts \in Seq(Tokens)
    PROVE  \A i \in 1..(Len(ts) + 1) : Parser(ts)[i] = ParseAt(ts, Parser(ts), i)
<1> DEFINE Entry(F, i) == F[i] = ParseAt(ts, F, i) /\ AllRead(ts, i, F[i])
           Last(F, d)  == \A i \in 1..(Len(ts) + 1) : i + d > Len(ts) + 1 => Entry(F, i)
           Missing     == {d \in Nat : ~\E F : Last(F, d)}
<1>1. Len(ts) \in Nat
  OBVIOUS
<1>2. Missing = {}
  <2> SUFFICES ASSUME Missing # {}
               PROVE  FALSE
    OBVIOUS
  <2>1. Missing \subseteq Nat
    OBVIOUS
  <2>2. PICK N \in Missing : \A k \in Missing : N <= k
    <3> HIDE DEF Missing
    <3> QED
      BY <2>1, LeastOf
  <2>3. N \in Nat
    BY <2>1, <2>2
  <2>4. N # 0
    <3> SUFFICES ASSUME N = 0
                 PROVE  \E F : Last(F, 0)
      BY <2>2
    <3>1. \A i \in 1..(Len(ts) + 1) : ~(i + 0 > Len(ts) + 1)
      BY <1>1
    <3> QED
      BY <3>1
  <2>5. N - 1 \in Nat /\ ~(N <= N - 1)
    BY <2>3, <2>4
  <2>6. N - 1 \notin Missing
    BY <2>2, <2>5
  <2>7. PICK G : Last(G, N - 1)
    BY <2>5, <2>6
  <2> DEFINE H == [i \in 1..(Len(ts) + 1) |-> ParseAt(ts, G, i)]
  <2>8. \A i \in 1..(Len(ts) + 1) : H[i] = ParseAt(ts, G, i)
    OBVIOUS
  <2> HIDE DEF H
  <2>9. ASSUME NEW i \in 1..(Len(ts) + 1), i + N > Len(ts) + 1
        PROVE  Entry(H, i)
    <3>1. ASSUME NEW j \in (i + 1)..(Len(ts) + 1)
          PROVE  G[j] = H[j] /\ AllRead(ts, j, G[j])
      <4>1. j \in 1..(Len(ts) + 1) /\ j + (N - 1) > Len(ts) + 1
        BY <1>1, <2>3, <2>9
      <4>2. Entry(G, j)
        BY <2>7, <4>1
      <4> QED
        BY <2>8, <4>1, <4>2
    <3>2. ParseAt(ts, G, i) = ParseAt(ts, H, i)
      BY <3>1, LaterOnes
    <3>3. AllRead(ts, i, ParseAt(ts, G, i))
      BY <3>1, EntriesAreRead
    <3> QED
      BY <2>8, <3>2, <3>3
  <2>10. Last(H, N)
    BY <2>9
  <2> QED
    BY <2>2, <2>10
<1>3. \E F : Last(F, Len(ts) + 1)
  <2> DEFINE d == Len(ts) + 1
  <2>1. d \in Nat
    BY <1>1
  <2> HIDE DEF d, Last
  <2>2. \E F : Last(F, d)
    BY <1>2, <2>1
  <2> QED
    BY <2>2 DEF d
<1>f. PICK G : Last(G, Len(ts) + 1)
  BY <1>3
<1>4. \A i \in 1..(Len(ts) + 1) : Entry(G, i)
  <2>1. \A i \in 1..(Len(ts) + 1) : i + (Len(ts) + 1) > Len(ts) + 1
    BY <1>1
  <2> QED
    BY <1>f, <2>1
<1> DEFINE Is(F) == F = [i \in 1..(Len(ts) + 1) |-> ParseAt(ts, F, i)]
           H == [i \in 1..(Len(ts) + 1) |-> G[i]]
<1>5. Is(H)
  <2>1. \A i \in 1..(Len(ts) + 1) : H[i] = G[i]
    OBVIOUS
  <2> HIDE DEF H
  <2>2. ASSUME NEW i \in 1..(Len(ts) + 1)
        PROVE  G[i] = ParseAt(ts, H, i)
    <3>1. \A j \in (i + 1)..(Len(ts) + 1) : j \in 1..(Len(ts) + 1)
      BY <1>1
    <3>2. \A j \in (i + 1)..(Len(ts) + 1) : G[j] = H[j] /\ AllRead(ts, j, G[j])
      BY <1>4, <2>1, <3>1
    <3>3. ParseAt(ts, G, i) = ParseAt(ts, H, i)
      BY <3>2, LaterOnes
    <3> QED
      BY <1>4, <3>3
  <2> QED
    BY <2>2 DEF H
<1>6. Parser(ts) = CHOOSE F : Is(F)
  BY DEF Parser
<1>7. Is(Parser(ts))
  <2> HIDE DEF Is
  <2> QED
    BY <1>5, <1>6
<1>8. ASSUME NEW i \in 1..(Len(ts) + 1)
      PROVE  Parser(ts)[i] = ParseAt(ts, Parser(ts), i)
  <2> DEFINE F == Parser(ts)
  <2>1. F = [k \in 1..(Len(ts) + 1) |-> ParseAt(ts, F, k)]
    BY <1>7
  <2> HIDE DEF F
  <2>2. F[i] = ParseAt(ts, F, i)
    BY <2>1
  <2> QED
    BY <2>2 DEF F
<1> QED
  BY <1>8

LEMMA ParserIsSound ==
    ASSUME NEW ts \in Seq(Tokens)
    PROVE  \A i \in 1..(Len(ts) + 1) : AllRead(ts, i, Parser(ts)[i])
<1> DEFINE P == Parser(ts)
           Wrong == {d \in Nat : \E i \in 1..(Len(ts) + 1) : i + d = Len(ts) + 1 /\ ~AllRead(ts, i, P[i])}
<1>1. Len(ts) \in Nat
  OBVIOUS
<1>2. Wrong = {}
  <2> SUFFICES ASSUME Wrong # {}
               PROVE  FALSE
    OBVIOUS
  <2>1. Wrong \subseteq Nat
    OBVIOUS
  <2>2. PICK d \in Wrong : \A k \in Wrong : d <= k
    <3> HIDE DEF Wrong
    <3> QED
      BY <2>1, LeastOf
  <2>3. PICK i \in 1..(Len(ts) + 1) : i + d = Len(ts) + 1 /\ ~AllRead(ts, i, P[i])
    BY <2>2
  <2>4. d \in Nat
    BY <2>1, <2>2
  <2>5. ASSUME NEW j \in (i + 1)..(Len(ts) + 1)
        PROVE  AllRead(ts, j, P[j])
    <3> DEFINE e == Len(ts) + 1 - j
    <3>1. e \in Nat /\ ~(d <= e) /\ j + e = Len(ts) + 1 /\ j \in 1..(Len(ts) + 1)
      BY <1>1, <2>3, <2>4
    <3> HIDE DEF e
    <3>2. e \notin Wrong
      BY <2>2, <3>1
    <3> QED
      BY <3>1, <3>2
  <2>6. AllRead(ts, i, ParseAt(ts, P, i))
    BY <2>5, EntriesAreRead
  <2>7. P[i] = ParseAt(ts, P, i)
    BY ParserIs
  <2> QED
    BY <2>3, <2>6, <2>7
<1>3. ASSUME NEW i \in 1..(Len(ts) + 1)
      PROVE  AllRead(ts, i, P[i])
  <2>1. Len(ts) + 1 - i \in Nat /\ i + (Len(ts) + 1 - i) = Len(ts) + 1
    BY <1>1
  <2> QED
    BY <1>2, <2>1
<1> QED
  BY <1>3

-----------------------------------------------------------------------------
(***************************************************************************)
(* Whatever a stretch means the parser finds, if behind the stretch stands *)
(* what may follow it.                                                     *)
(***************************************************************************)
LEMMA EntryIs ==
    ASSUME NEW ts \in Seq(Tokens), NEW i \in 1..(Len(ts) + 1)
    PROVE  LET P == Parser(ts) IN
           /\ P[i].unary = ParseUnary(ts, P, i)
           /\ P[i].and = ParseAnd(ts, P, P[i].unary)
           /\ P[i].or = ParseOr(ts, P, P[i].and)
<1> DEFINE P == Parser(ts)
<1>1. P[i] = ParseAt(ts, P, i)
  BY ParserIs
<1> HIDE DEF P
<1>2. /\ P[i].unary = ParseUnary(ts, P, i)
      /\ P[i].and = ParseAnd(ts, P, P[i].unary)
      /\ P[i].or = ParseOr(ts, P, P[i].and)
  BY <1>1 DEF ParseAt
<1> QED
  BY <1>2 DEF P

\* A stretch of n tokens from i on is cut at its token k.
LEMMA CutFacts ==
    ASSUME NEW length \in Nat, NEW n \in Nat, NEW i \in 1..(length + 1 - n), NEW k \in 1..(n - 2)
    PROVE  /\ k \in 0..(n - 1) /\ i \in 1..(length + 1 - k) /\ k \in Nat
           /\ n - k - 1 \in 0..(n - 1) /\ i + k + 1 \in 1..(length + 1 - (n - k - 1))
           /\ (i + k + 1) + (n - k - 1) = i + n /\ (i + k) + 1 = i + k + 1
<1>1. i \in Nat /\ k \in Nat /\ 1 <= i /\ i <= length + 1 - n /\ 1 <= k /\ k <= n - 2
  OBVIOUS
<1>2. k \in 0..(n - 1) /\ i \in 1..(length + 1 - k)
  BY <1>1
<1>3. n - k - 1 \in 0..(n - 1)
  BY <1>1
<1>4. i + k + 1 \in 1..(length + 1 - (n - k - 1))
  BY <1>1
<1>5. (i + k + 1) + (n - k - 1) = i + n /\ (i + k) + 1 = i + k + 1
  BY <1>1
<1> QED
  BY <1>1, <1>2, <1>3, <1>4, <1>5

\* What is left of a stretch without its "!", or without its parentheses.
LEMMA PeelFacts ==
    ASSUME NEW len \in Nat, NEW n \in 0..len, NEW i \in 1..(len + 1 - n)
    PROVE  /\ n > 1 => /\ n - 1 \in 0..(n - 1)
                       /\ i + 1 \in 1..(len + 1 - (n - 1))
                       /\ (i + 1) + (n - 1) = i + n
           /\ n > 2 => /\ n - 2 \in 0..(n - 1)
                       /\ i + 1 \in 1..(len + 1 - (n - 2))
                       /\ (i + 1) + (n - 2) = i + n - 1
                       /\ ((i + 1) + (n - 2)) + 1 = i + n
  OBVIOUS

UnaryFound(ts, n) ==
    \A i \in 1..(Len(ts) + 1 - n) : \A m \in Grammar(ts)[n][i].unary :
        Kind(ts, i + n) \in {"AND", "OR", "RPAREN", "EOF"} => Parser(ts)[i].unary = Parsed(m, i + n)
AndFound(ts, n) ==
    \A i \in 1..(Len(ts) + 1 - n) : \A m \in Grammar(ts)[n][i].and :
        Kind(ts, i + n) \in {"OR", "RPAREN", "EOF"} => Parser(ts)[i].and = Parsed(m, i + n)
OrFound(ts, n) ==
    \A i \in 1..(Len(ts) + 1 - n) : \A m \in Grammar(ts)[n][i].or :
        Kind(ts, i + n) \in {"RPAREN", "EOF"} => Parser(ts)[i].or = Parsed(m, i + n)

Found(ts, n) == UnaryFound(ts, n) /\ AndFound(ts, n) /\ OrFound(ts, n)

LEMMA UnariesAreFound ==
    ASSUME NEW ts \in Seq(Tokens), NEW n \in 0..Len(ts), \A k \in 0..(n - 1) : Found(ts, k)
    PROVE  UnaryFound(ts, n)
<1> DEFINE G == Grammar(ts)
           P == Parser(ts)
<1>1. Len(ts) \in Nat /\ n \in Nat
  OBVIOUS
<1>2. SUFFICES ASSUME NEW i \in 1..(Len(ts) + 1 - n), NEW m \in G[n][i].unary,
                      Kind(ts, i + n) \in {"AND", "OR", "RPAREN", "EOF"}
               PROVE  P[i].unary = Parsed(m, i + n)
  BY DEF UnaryFound
<1>3. i \in Nat \ {0} /\ i \in 1..(Len(ts) + 1)
  BY <1>1
<1>4. P[i].unary = ParseUnary(ts, P, i)
  BY <1>3, EntryIs
<1>5. m \in UnaryReadings(ts, G, i, n)
  BY <1>2, StretchIs
<1>6. CASE m \in TestReadings(ts, i, n)
  <2>1. IsName(ts, i)
    BY <1>6 DEF TestReadings
  <2>2. i \in 1..Len(ts)
    BY <1>1, <1>3, <2>1, TokenFacts DEF IsName
  <2>3. i + n <= Len(ts) + 1
    BY <1>1
  <2>4. ParsePredicate(ts, i) = Parsed(m, i + n)
    BY <1>1, <1>2, <1>6, <2>2, <2>3, TestsAreFound
  <2>5. ParseUnary(ts, P, i) = ParsePredicate(ts, i)
    BY <2>1 DEF ParseUnary, ParsePrimary, IsName
  <2> QED
    BY <1>4, <2>4, <2>5
<1>7. CASE n > 1 /\ Kind(ts, i) = "NOT" /\ \E l \in G[n - 1][i + 1].unary : m = Labels \ l
  <2>1. PICK l \in G[n - 1][i + 1].unary : m = Labels \ l
    BY <1>7
  <2> DEFINE k == n - 1
             j == i + 1
  <2>2. k \in 0..(n - 1) /\ j \in 1..(Len(ts) + 1 - k) /\ j + k = i + n
    BY <1>1, <1>7, PeelFacts
  <2> HIDE DEF k, j
  <2>3. UnaryFound(ts, k)
    BY <2>2 DEF Found
  <2>4. l \in G[k][j].unary
    BY <2>1 DEF k, j
  <2>5. P[j].unary = Parsed(l, j + k)
    BY <1>2, <2>2, <2>3, <2>4 DEF UnaryFound
  <2>6. Parsed(l, i + n).ok /\ Parsed(l, i + n).node = l /\ Parsed(l, i + n).at = i + n
    BY ResultFacts
  <2> HIDE DEF P
  <2>7. ParseUnary(ts, P, i) = Parsed(Labels \ l, i + n)
    BY <1>7, <2>2, <2>5, <2>6 DEF ParseUnary, j
  <2> QED
    BY <1>4, <2>1, <2>7 DEF P
<1>8. CASE n > 2 /\ Kind(ts, i) = "LPAREN" /\ Kind(ts, i + n - 1) = "RPAREN" /\ m \in G[n - 2][i + 1].or
  <2> DEFINE k == n - 2
             j == i + 1
  <2>2. k \in 0..(n - 1) /\ j \in 1..(Len(ts) + 1 - k) /\ j + k = i + n - 1 /\ (j + k) + 1 = i + n
    BY <1>1, <1>8, PeelFacts
  <2>3. m \in G[k][j].or
    BY <1>8
  <2> HIDE DEF k, j
  <2>4. OrFound(ts, k)
    BY <2>2 DEF Found
  <2>5. P[j].or = Parsed(m, j + k)
    BY <1>8, <2>2, <2>3, <2>4 DEF OrFound
  <2>6. Parsed(m, j + k).ok /\ Parsed(m, j + k).node = m /\ Parsed(m, j + k).at = j + k
    BY ResultFacts
  <2> HIDE DEF P
  <2>7. ParseUnary(ts, P, i) = Parsed(m, i + n)
    BY <1>8, <2>2, <2>5, <2>6 DEF ParseUnary, ParsePrimary, j
  <2> QED
    BY <1>4, <2>7 DEF P
<1> QED
  <2> HIDE DEF G, P
  <2> QED
    BY <1>5, <1>6, <1>7, <1>8 DEF UnaryReadings

LEMMA AndsAreFound ==
    ASSUME NEW ts \in Seq(Tokens), NEW n \in 0..Len(ts), \A k \in 0..(n - 1) : Found(ts, k), UnaryFound(ts, n)
    PROVE  AndFound(ts, n)
<1> DEFINE G == Grammar(ts)
           P == Parser(ts)
<1>1. Len(ts) \in Nat /\ n \in Nat
  OBVIOUS
<1>2. SUFFICES ASSUME NEW i \in 1..(Len(ts) + 1 - n), NEW m \in G[n][i].and,
                      Kind(ts, i + n) \in {"OR", "RPAREN", "EOF"}
               PROVE  P[i].and = Parsed(m, i + n)
  BY DEF AndFound
<1>3. i \in Nat /\ i \in 1..(Len(ts) + 1)
  BY <1>1
<1>4. P[i].and = ParseAnd(ts, P, P[i].unary)
  BY <1>3, EntryIs
<1>5. G[n][i].and = G[n][i].unary \cup AndChains(ts, G, i, n)
  BY StretchIs
<1>6. CASE m \in G[n][i].unary
  <2>1. P[i].unary = Parsed(m, i + n)
    BY <1>2, <1>6 DEF UnaryFound
  <2>2. Parsed(m, i + n).at = i + n /\ Kind(ts, i + n) # "AND"
    BY <1>2, ResultFacts
  <2> QED
    BY <1>4, <2>1, <2>2 DEF ParseAnd
<1>7. CASE m \in AndChains(ts, G, i, n)
  <2> DEFINE K     == {j \in 1..(n - 2) : Kind(ts, i + j) = "AND"}
             At(j) == {x \cap y : x \in G[j][i].unary, y \in G[n - j - 1][i + j + 1].and}
  <2> HIDE DEF G
  <2>1. AndChains(ts, G, i, n) = UNION {At(j) : j \in K}
    BY DEF AndChains
  <2>2. PICK k \in K : m \in At(k)
    <3> HIDE DEF At, K
    <3> QED
      BY <1>7, <2>1
  <2>3. PICK a \in G[k][i].unary, b \in G[n - k - 1][i + k + 1].and : m = a \cap b
    BY <2>2
  <2> DEFINE later == i + k + 1
             l     == n - k - 1
  <2>4. /\ k \in 0..(n - 1) /\ i \in 1..(Len(ts) + 1 - k) /\ k \in Nat
        /\ l \in 0..(n - 1) /\ later \in 1..(Len(ts) + 1 - l)
        /\ later + l = i + n /\ (i + k) + 1 = later
    <3>1. k \in 1..(n - 2)
      BY <2>2
    <3>2. i \in 1..(Len(ts) + 1 - n)
      BY <1>2
    <3> HIDE DEF P, K, At
    <3> QED
      BY <1>1, <3>1, <3>2, CutFacts
  <2>5. Kind(ts, i + k) = "AND"
    BY <2>2
  <2> HIDE DEF later, l
  <2>6. P[i].unary = Parsed(a, i + k)
    <3>1. UnaryFound(ts, k)
      BY <2>4 DEF Found
    <3> QED
      BY <2>3, <2>4, <2>5, <3>1 DEF UnaryFound, G
  <2>7. P[later].and = Parsed(b, i + n)
    <3>1. AndFound(ts, l)
      BY <2>4 DEF Found
    <3>2. b \in G[l][later].and
      BY <2>3 DEF l, later
    <3>3. P[later].and = Parsed(b, later + l)
      BY <1>2, <2>4, <3>1, <3>2 DEF AndFound, G
    <3> QED
      BY <2>4, <3>3
  <2> HIDE DEF P
  <2>8. ParseAnd(ts, P, P[i].unary) = Parsed(a \cap b, i + n)
    <3>1. Parsed(a, i + k).ok /\ Parsed(a, i + k).node = a /\ Parsed(a, i + k).at = i + k
      BY ResultFacts
    <3>2. Parsed(b, i + n).ok /\ Parsed(b, i + n).node = b /\ Parsed(b, i + n).at = i + n
      BY ResultFacts
    <3> QED
      BY <2>4, <2>5, <2>6, <2>7, <3>1, <3>2 DEF ParseAnd
  <2> QED
    BY <1>4, <2>3, <2>8 DEF P
<1> QED
  BY <1>2, <1>5, <1>6, <1>7

LEMMA OrsAreFound ==
    ASSUME NEW ts \in Seq(Tokens), NEW n \in 0..Len(ts), \A k \in 0..(n - 1) : Found(ts, k), AndFound(ts, n)
    PROVE  OrFound(ts, n)
<1> DEFINE G == Grammar(ts)
           P == Parser(ts)
<1>1. Len(ts) \in Nat /\ n \in Nat
  OBVIOUS
<1>2. SUFFICES ASSUME NEW i \in 1..(Len(ts) + 1 - n), NEW m \in G[n][i].or,
                      Kind(ts, i + n) \in {"RPAREN", "EOF"}
               PROVE  P[i].or = Parsed(m, i + n)
  BY DEF OrFound
<1>3. i \in Nat /\ i \in 1..(Len(ts) + 1)
  BY <1>1
<1>4. P[i].or = ParseOr(ts, P, P[i].and)
  BY <1>3, EntryIs
<1>5. G[n][i].or = G[n][i].and \cup OrChains(ts, G, i, n)
  BY StretchIs
<1>6. CASE m \in G[n][i].and
  <2>1. P[i].and = Parsed(m, i + n)
    BY <1>2, <1>6 DEF AndFound
  <2>2. Parsed(m, i + n).at = i + n /\ Kind(ts, i + n) # "OR"
    BY <1>2, ResultFacts
  <2> QED
    BY <1>4, <2>1, <2>2 DEF ParseOr
<1>7. CASE m \in OrChains(ts, G, i, n)
  <2> DEFINE K     == {j \in 1..(n - 2) : Kind(ts, i + j) = "OR"}
             At(j) == {x \cup y : x \in G[j][i].and, y \in G[n - j - 1][i + j + 1].or}
  <2> HIDE DEF G
  <2>1. OrChains(ts, G, i, n) = UNION {At(j) : j \in K}
    BY DEF OrChains
  <2>2. PICK k \in K : m \in At(k)
    <3> HIDE DEF At, K
    <3> QED
      BY <1>7, <2>1
  <2>3. PICK a \in G[k][i].and, b \in G[n - k - 1][i + k + 1].or : m = a \cup b
    BY <2>2
  <2> DEFINE later == i + k + 1
             l     == n - k - 1
  <2>4. /\ k \in 0..(n - 1) /\ i \in 1..(Len(ts) + 1 - k) /\ k \in Nat
        /\ l \in 0..(n - 1) /\ later \in 1..(Len(ts) + 1 - l)
        /\ later + l = i + n /\ (i + k) + 1 = later
    <3>1. k \in 1..(n - 2)
      BY <2>2
    <3>2. i \in 1..(Len(ts) + 1 - n)
      BY <1>2
    <3> HIDE DEF P, K, At
    <3> QED
      BY <1>1, <3>1, <3>2, CutFacts
  <2>5. Kind(ts, i + k) = "OR"
    BY <2>2
  <2> HIDE DEF later, l
  <2>6. P[i].and = Parsed(a, i + k)
    <3>1. AndFound(ts, k)
      BY <2>4 DEF Found
    <3> QED
      BY <2>3, <2>4, <2>5, <3>1 DEF AndFound, G
  <2>7. P[later].or = Parsed(b, i + n)
    <3>1. OrFound(ts, l)
      BY <2>4 DEF Found
    <3>2. b \in G[l][later].or
      BY <2>3 DEF l, later
    <3>3. P[later].or = Parsed(b, later + l)
      BY <1>2, <2>4, <3>1, <3>2 DEF OrFound, G
    <3> QED
      BY <2>4, <3>3
  <2> HIDE DEF P
  <2>8. ParseOr(ts, P, P[i].and) = Parsed(a \cup b, i + n)
    <3>1. Parsed(a, i + k).ok /\ Parsed(a, i + k).node = a /\ Parsed(a, i + k).at = i + k
      BY ResultFacts
    <3>2. Parsed(b, i + n).ok /\ Parsed(b, i + n).node = b /\ Parsed(b, i + n).at = i + n
      BY ResultFacts
    <3> QED
      BY <2>4, <2>5, <2>6, <2>7, <3>1, <3>2 DEF ParseOr
  <2> QED
    BY <1>4, <2>3, <2>8 DEF P
<1> QED
  BY <1>2, <1>5, <1>6, <1>7

LEMMA ParserIsComplete ==
    ASSUME NEW ts \in Seq(Tokens)
    PROVE  \A n \in 0..Len(ts) : Found(ts, n)
<1> DEFINE Missed == {n \in 0..Len(ts) : ~Found(ts, n)}
<1>1. Len(ts) \in Nat
  OBVIOUS
<1>2. Missed = {}
  <2> SUFFICES ASSUME Missed # {}
               PROVE  FALSE
    OBVIOUS
  <2>1. Missed \subseteq Nat
    OBVIOUS
  <2>2. PICK n \in Missed : \A k \in Missed : n <= k
    <3> HIDE DEF Missed
    <3> QED
      BY <2>1, LeastOf
  <2>3. n \in 0..Len(ts) /\ ~Found(ts, n)
    BY <2>2
  <2>4. ASSUME NEW k \in 0..(n - 1)
        PROVE  Found(ts, k)
    <3>1. k \in 0..Len(ts) /\ ~(n <= k)
      BY <1>1, <2>3
    <3> QED
      BY <2>2, <3>1
  <2>5. UnaryFound(ts, n)
    BY <2>3, <2>4, UnariesAreFound
  <2>6. AndFound(ts, n)
    BY <2>3, <2>4, <2>5, AndsAreFound
  <2>7. OrFound(ts, n)
    BY <2>3, <2>4, <2>6, OrsAreFound
  <2> QED
    BY <2>3, <2>5, <2>6, <2>7 DEF Found
<1> QED
  BY <1>2
-----------------------------------------------------------------------------
\* The parser says of a selector what the grammar says, and nothing of one
\* that is none; the grammar never says two things.
LEMMA SelectorsAreUnderstood ==
    ASSUME NEW ts \in Seq(Tokens), ts # <<>>
    PROVE  /\ \A m \in Readings(ts) : ParseSelector(ts).ok /\ ParseSelector(ts).node = m
           /\ ParseSelector(ts).ok => ParseSelector(ts).node \in Readings(ts)
<1> DEFINE G == Grammar(ts)
           P == Parser(ts)
           tree == P[1].or
<1>1. Len(ts) \in Nat /\ Len(ts) # 0
  OBVIOUS
<1>2. ParseSelector(ts) = IF tree.ok /\ Kind(ts, tree.at) = "EOF" THEN tree ELSE Failed
  BY DEF ParseSelector
<1>3. Readings(ts) = G[Len(ts)][1].or
  BY DEF Readings
<1>4. ASSUME NEW m \in Readings(ts)
      PROVE  ParseSelector(ts).ok /\ ParseSelector(ts).node = m
  <2> DEFINE n == Len(ts)
  <2>1. n \in 0..Len(ts) /\ 1 \in 1..(Len(ts) + 1 - n) /\ 1 + n \in Nat \ {0} /\ 1 + n > Len(ts)
    BY <1>1
  <2>2. Kind(ts, 1 + n) = "EOF"
    BY <2>1, TokenFacts
  <2> HIDE DEF n
  <2>3. OrFound(ts, n)
    BY <2>1, ParserIsComplete DEF Found
  <2>4. m \in G[n][1].or
    BY <1>3 DEF n
  <2>5. tree = Parsed(m, 1 + n)
    BY <2>1, <2>2, <2>3, <2>4 DEF OrFound
  <2>6. tree.ok /\ tree.node = m /\ tree.at = 1 + n
    BY <2>5, ResultFacts
  <2> HIDE DEF tree
  <2> QED
    BY <1>2, <2>2, <2>6
<1>5. ASSUME ParseSelector(ts).ok
      PROVE  ParseSelector(ts).node \in Readings(ts)
  <2>1. OrRead(ts, 1, tree)
    <3>1. 1 \in 1..(Len(ts) + 1)
      BY <1>1
    <3> QED
      BY <3>1, ParserIsSound DEF AllRead
  <2> HIDE DEF tree
  <2>2. tree.ok /\ Kind(ts, tree.at) = "EOF" /\ ParseSelector(ts) = tree
    BY <1>2, <1>5, ResultFacts
  <2>3. PICK n \in 1..(Len(ts) + 1 - 1) : \E m \in Grammar(ts)[n][1].or : tree = Parsed(m, 1 + n)
    BY <2>1, <2>2, ResultFacts DEF OrRead
  <2>4. PICK m \in G[n][1].or : tree = Parsed(m, 1 + n)
    BY <2>3
  <2>5. tree.node = m /\ tree.at = 1 + n
    BY <2>4, ResultFacts
  <2>6. n = Len(ts)
    <3>1. 1 + n \in Nat \ {0} /\ n \in Nat
      OBVIOUS
    <3>2. Kind(ts, 1 + n) = "EOF"
      BY <2>2, <2>5
    <3>3. ~(1 + n <= Len(ts))
      BY <3>1, <3>2, TokenFacts
    <3> QED
      BY <1>1, <3>1, <3>3
  <2> QED
    BY <1>3, <2>2, <2>4, <2>5, <2>6
<1> QED
  BY <1>4, <1>5

IsSelector == selector \in Seq(Tokens)

LEMMA SelectorsAreTokens == SelectorSpec => []IsSelector
<1>1. SelectorInit => IsSelector
  BY DEF SelectorInit, IsSelector
<1>2. ASSUME IsSelector, NEW piece \in Pieces, Write(piece)
      PROVE  IsSelector'
  <2>1. piece \in Seq(Tokens)
    BY SelectorAssumption
  <2>2. selector' = selector \o piece
    BY <1>2 DEF Write
  <2> HIDE DEF Tokens
  <2> QED
    BY <1>2, <2>1, <2>2 DEF IsSelector
<1>3. IsSelector /\ [SelectorNext]_selector => IsSelector'
  BY <1>2 DEF SelectorNext, IsSelector
<1> QED
  BY <1>1, <1>3, PTL DEF SelectorSpec

\* What the parser makes of the selector, when there is something in it, is what
\* the grammar says of it.
LEMMA TextsAreUnderstood ==
    ASSUME IsSelector, NEW spaced \in BOOLEAN, selector # <<>> \/ spaced
    PROVE  /\ \A m1, m2 \in Meanings(spaced) : m1 = m2
           /\ IsSupported(selector) <=> Meanings(spaced) # {}
           /\ \A labels \in Labels :
                 labels \in Matching(selector) <=> \E m \in Meanings(spaced) : labels \in m
<1>1. CASE selector = <<>>
  <2>1. Meanings(spaced) = {Labels} /\ Matching(selector) = Labels /\ IsSupported(selector)
    BY <1>1 DEF Meanings, Matching, IsSupported
  <2> QED
    BY <2>1
<1>2. CASE selector # <<>>
  <2> DEFINE parse == ParseSelector(selector)
  <2>1. /\ \A m \in Readings(selector) : parse.ok /\ parse.node = m
        /\ parse.ok => parse.node \in Readings(selector)
    BY <1>2, SelectorsAreUnderstood DEF IsSelector
  <2>2. Meanings(spaced) = Readings(selector)
    BY <1>2 DEF Meanings
  <2>3. IsSupported(selector) <=> parse.ok
    BY <1>2 DEF IsSupported
  <2>4. Matching(selector) = IF parse.ok THEN parse.node ELSE {}
    BY <1>2 DEF Matching
  <2> HIDE DEF parse
  <2> QED
    BY <2>1, <2>2, <2>3, <2>4
<1> QED
  BY <1>1, <1>2

\* Whatever selector a policy has, of any length and nesting, and whatever the
\* labels of the pods: the coverage report counts for it the pods that the
\* grammar says it selects, warns of it exactly when the grammar says nothing
\* of it, and the grammar never says two things (utils.py:52-330, :370-450).
THEOREM SelectorsAreRead == SelectorSpec => []CoverageIsHonest
<1>1. ASSUME IsSelector
      PROVE  CoverageIsHonest
  <2> DEFINE policy(scoped, spaced) == [selector   |-> selector, spaced    |-> spaced,
                                        namespaced |-> scoped,   namespace |-> "here"]
             pods == [labels : Labels, namespace : {"here", "there"}]
             meant(scoped, spaced) == {pod \in pods : /\ \E m \in Meanings(spaced) : pod.labels \in m
                                                      /\ scoped => pod.namespace = "here"}
  <2> SUFFICES \A scoped, spaced \in BOOLEAN :
                  /\ \A m1, m2 \in Meanings(spaced) : m1 = m2
                  /\ (Unsupported({policy(scoped, spaced)}) = {}) <=> (Meanings(spaced) # {})
                  /\ Selected(policy(scoped, spaced), pods) = meant(scoped, spaced)
    BY Zenon DEF CoverageIsHonest
  <2>1. ASSUME NEW scoped \in BOOLEAN, NEW spaced \in BOOLEAN
        PROVE  /\ \A m1, m2 \in Meanings(spaced) : m1 = m2
               /\ (Unsupported({policy(scoped, spaced)}) = {}) <=> (Meanings(spaced) # {})
               /\ Selected(policy(scoped, spaced), pods) = meant(scoped, spaced)
    <3> DEFINE p == policy(scoped, spaced)
    <3>1. /\ p.selector = selector /\ p.spaced = spaced
          /\ p.namespaced = scoped /\ p.namespace = "here"
      OBVIOUS
    <3>2. \A pod \in pods : pod.labels \in Labels
      OBVIOUS
    <3> HIDE DEF p, pods
    <3>3. Unsupported({p}) = {q \in {p} : ~IsEmpty(q) /\ ~IsSupported(q.selector)}
      BY DEF Unsupported
    <3>4. Selected(p, pods) = {pod \in pods : /\ ~IsEmpty(p)
                                              /\ pod.labels \in Matching(selector)
                                              /\ scoped => pod.namespace = "here"}
      BY <3>1 DEF Selected
    <3>5. IsEmpty(p) <=> selector = <<>> /\ ~spaced
      BY <3>1 DEF IsEmpty
    <3>6. CASE IsEmpty(p)
      <4>1. Meanings(spaced) = {{}}
        BY <3>5, <3>6 DEF Meanings
      <4>2. Unsupported({p}) = {} /\ Selected(p, pods) = {}
        BY <3>3, <3>4, <3>6
      <4>3. meant(scoped, spaced) = {}
        BY <4>1
      <4> QED
        BY <4>1, <4>2, <4>3 DEF p
    <3>7. CASE ~IsEmpty(p)
      <4>1. /\ \A m1, m2 \in Meanings(spaced) : m1 = m2
            /\ IsSupported(selector) <=> Meanings(spaced) # {}
            /\ \A labels \in Labels :
                  labels \in Matching(selector) <=> \E m \in Meanings(spaced) : labels \in m
        BY <1>1, <3>5, <3>7, TextsAreUnderstood
      <4>2. Unsupported({p}) = {} <=> IsSupported(selector)
        BY <3>1, <3>3, <3>7
      <4>3. Selected(p, pods) = meant(scoped, spaced)
        BY <3>2, <3>4, <3>7, <4>1
      <4> QED
        BY <4>1, <4>2, <4>3 DEF p
    <3> QED
      BY <3>6, <3>7
  <2> HIDE DEF policy, pods
  <2> QED
    BY <2>1, Zenon
<1> QED
  BY <1>1, SelectorsAreTokens, PTL
=============================================================================
