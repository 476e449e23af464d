----------------------------- MODULE NetworkNav -----------------------------
(***************************************************************************)
(* Moving about in the network section (NetworkSection.tsx): the           *)
(* sub-navigation, the jumps between the endpoints and the impact of a     *)
(* policy (WorkloadEndpointsPanel.tsx, PolicyImpactPanel.tsx), and the     *)
(* position in the page that is to survive them.  All views share one      *)
(* scrolling container.  A search is abstracted to the pod it names, and   *)
(* what makes a view longer or shorter - its rows, a matrix that is        *)
(* fetched again - to how far down the container reaches.                  *)
(***************************************************************************)
EXTENDS Integers, Sequences

CONSTANTS
    Workloads,   \* pods, each an endpoint
    Impacts,     \* the policies of the matrix, in order
    NameOf,      \* NameOf[p]: the name of policy p, namespace left out
    Selects,     \* Selects[p]: the pods that policy p selects
    Reaches,     \* Reaches[p]: the pods that the rules of p match
    MaxReach     \* how far down a view may reach

VARIABLES
    view,        \* activeView
    policyView,
    policyName,  \* initialPolicyName
    picked,      \* selectedName of the impact panel, "" when it is not there
    search,      \* endpointSearch, and the panel's own copy of it
    filter,      \* endpointFilter, likewise
    saved,       \* endpointScrollTop
    origin,      \* impactOrigin
    restore,     \* pendingEndpointRestore
    hooked,      \* whether the last run of the effect left a clean-up
    frame,       \* the animation frame it asked for: an offset, Away when there is none
    scroll,      \* where the container is
    reach,       \* how far down it reaches now
    left,        \* how a tag left the endpoints, for the link back: a set of at most one
    squeezed     \* whether the table was too short for that, at the frame or since

navVars == <<view, policyView, policyName, picked, search, filter, saved, origin,
             restore, hooked, frame, scroll, reach, left, squeezed>>
stay    == <<policyView, policyName, picked, search, filter, origin>>

Views       == {"cni-health", "ipam", "topology", "endpoints", "policies"}
PolicyViews == {"definitions", "coverage", "impact"}
Filters     == {"all", "exposed", "covered"}
Policies    == {Impacts[i] : i \in DOMAIN Impacts}
Away        == -1
Nowhere     == ""

ASSUME NavAssumption == /\ Impacts \in Seq(Policies)
                        /\ Nowhere \notin Workloads \cup Policies
                        /\ MaxReach \in Nat

Exposed(w) == \A p \in Policies : w \notin Selects[p]

\* filteredEndpoints
Visible == {w \in Workloads :
               /\ filter = "exposed" => Exposed(w)
               /\ filter = "covered" => ~Exposed(w)
               /\ search # Nowhere => w = search}

\* selected: the first policy with the name, otherwise the first of all.
Opened ==
    LET named == {i \in DOMAIN Impacts : NameOf[Impacts[i]] = picked}
        i     == IF named = {} THEN 1 ELSE CHOOSE n \in named : \A k \in named : n <= k
    IN  Impacts[i]

NavInit ==
    /\ view = "cni-health" /\ policyView = "definitions"
    /\ policyName = Nowhere /\ picked = Nowhere
    /\ search = Nowhere /\ filter = "all"
    /\ saved = 0 /\ origin = FALSE /\ restore = FALSE
    /\ hooked = FALSE /\ frame = Away
    /\ scroll = 0 /\ reach \in 0..MaxReach
    /\ left = {} /\ squeezed = FALSE

Clamped(n, r) == IF n > r THEN r ELSE n

\* What is on the page is laid out anew: the container stays where it is, or as far
\* down as it still reaches.
LaidOut ==
    /\ reach'  \in 0..MaxReach
    /\ scroll' = Clamped(scroll, reach')
-----------------------------------------------------------------------------
(* The effect *)

\* The render of view v with the saved offset s, when the flag holds r: the
\* effect runs again when one of the first two changed, its clean-up first.
Render(v, s, r) ==
    /\ view'   = v
    /\ saved'  = s
    /\ IF v = view THEN UNCHANGED <<reach, scroll>> ELSE LaidOut
    /\ IF v = view /\ s = saved
       THEN restore' = r /\ UNCHANGED <<hooked, frame>>
       ELSE LET flag == r /\ ~hooked
                now  == v = "endpoints" /\ flag
            IN  /\ restore' = flag
                /\ hooked'  = now
                /\ frame'   = IF now THEN s ELSE Away

\* The callback of requestAnimationFrame.
Painted ==
    /\ frame # Away
    /\ scroll'   = IF frame > 0 THEN Clamped(frame, reach) ELSE scroll
    /\ squeezed' = (reach < frame)
    /\ frame'    = Away
    /\ UNCHANGED <<view, stay, saved, restore, hooked, reach, left>>

\* The matrix behind a view is fetched again: its table grows or shrinks.
Refetched ==
    /\ LaidOut
    /\ squeezed' = (squeezed \/ (view = "endpoints" /\ \E l \in left : reach' < l.at))
    /\ UNCHANGED <<view, stay, saved, restore, hooked, frame, left>>

\* The impact panel is there with these views, and starts with this name.
Picking(v, pv, name) ==
    picked' = IF v # "policies" \/ pv # "impact" THEN Nowhere
              ELSE IF view = "policies" /\ policyView = "impact" THEN picked ELSE name
-----------------------------------------------------------------------------
(* Slips: what a definition would be after a plausible mistake in its code. *)

\* The link back only changes the view.
BackWithoutFlag ==
    /\ view = "policies" /\ policyView = "impact" /\ origin
    /\ Render("endpoints", saved, restore)
    /\ Picking("endpoints", policyView, policyName)
    /\ UNCHANGED <<policyView, policyName, search, filter, origin, left, squeezed>>
-----------------------------------------------------------------------------
(* The user *)

Scroll(n) ==
    /\ n # scroll /\ n <= reach
    /\ scroll' = n
    /\ left' = IF view = "endpoints" THEN {} ELSE left
    /\ UNCHANGED <<view, stay, saved, restore, hooked, frame, reach, squeezed>>

\* A button of the sub-navigation.
Subnav(v) ==
    /\ origin' = FALSE
    /\ IF view = "endpoints" /\ v # "endpoints"
       THEN Render(v, scroll, TRUE)
       ELSE Render(v, saved, restore)
    /\ Picking(v, policyView, policyName)
    /\ left' = {}
    /\ UNCHANGED <<policyView, policyName, search, filter, squeezed>>

\* The buttons above the policies.
TogglePolicyView(pv) ==
    /\ view = "policies"
    /\ policyView' = pv
    /\ origin' = (origin /\ pv # "impact")
    /\ Picking(view, pv, policyName)
    /\ LaidOut
    /\ UNCHANGED <<view, policyName, search, filter, saved, restore, hooked, frame, left, squeezed>>

\* openImpact: a policy tag in the row of a pod it selects.
OpenImpact(p) ==
    /\ view = "endpoints" /\ Selects[p] \cap Visible # {}
    /\ policyName' = NameOf[p]
    /\ origin'     = TRUE
    /\ policyView' = "impact"
    /\ Render("policies", scroll, TRUE)
    /\ picked'   = NameOf[p]
    /\ left'     = {[at |-> scroll, filter |-> filter, search |-> search]}
    /\ squeezed' = FALSE
    /\ UNCHANGED <<search, filter>>

\* openEndpoint: a pod chip of the policy that is shown, or of one of its rules.
OpenEndpoint(w) ==
    /\ view = "policies" /\ policyView = "impact"
    /\ w \in Selects[Opened] \cup Reaches[Opened]
    /\ search' = w
    /\ filter' = "all"
    /\ Render("endpoints", saved, TRUE)
    /\ Picking("endpoints", policyView, policyName)
    /\ left' = {}
    /\ UNCHANGED <<policyView, policyName, origin, squeezed>>

\* backToEndpoints: the link is there when a tag led here.
BackToEndpoints ==
    /\ view = "policies" /\ policyView = "impact" /\ origin
    /\ Render("endpoints", saved, TRUE)
    /\ Picking("endpoints", policyView, policyName)
    /\ UNCHANGED <<policyView, policyName, search, filter, origin, left, squeezed>>

\* The list of policies in the impact panel.
PickPolicy(p) ==
    /\ view = "policies" /\ policyView = "impact"
    /\ picked' = NameOf[p]
    /\ LaidOut
    /\ UNCHANGED <<view, policyView, policyName, search, filter, saved, origin, restore, hooked,
                   frame, left, squeezed>>

\* handleFilterChange, handleSearchChange
FilterEndpoints(f, q) ==
    /\ view = "endpoints"
    /\ filter' = f /\ search' = q
    /\ LaidOut
    /\ left' = {}
    /\ UNCHANGED <<view, policyView, policyName, picked, saved, origin, restore, hooked, frame,
                   squeezed>>

\* Another section of the page: all of it is lost but the container.
LeaveSection ==
    /\ view' = "cni-health" /\ policyView' = "definitions"
    /\ policyName' = Nowhere /\ picked' = Nowhere
    /\ search' = Nowhere /\ filter' = "all"
    /\ saved' = 0 /\ origin' = FALSE /\ restore' = FALSE
    /\ hooked' = FALSE /\ frame' = Away
    /\ LaidOut
    /\ left' = {} /\ squeezed' = FALSE

NavNext ==
    \/ Painted \/ Refetched \/ BackToEndpoints \/ LeaveSection
    \/ \E n \in 0..MaxReach : Scroll(n)
    \/ \E v \in Views : Subnav(v)
    \/ \E pv \in PolicyViews : TogglePolicyView(pv)
    \/ \E p \in Policies : OpenImpact(p) \/ PickPolicy(p)
    \/ \E w \in Workloads : OpenEndpoint(w)
    \/ \E f \in Filters, q \in Workloads \cup {Nowhere} : FilterEndpoints(f, q)

NavSpec == NavInit /\ [][NavNext]_navVars
-----------------------------------------------------------------------------
\* "Snapshots the endpoints view (filter/search/scroll) so the remounted panel can
\* resume" (NetworkSection.tsx:44): the link back is only there when a tag of the
\* endpoints opened the impact that is shown, and holds the place of that tag ...
LinkLeadsBack ==
    view = "policies" /\ policyView = "impact" /\ origin => \E l \in left : l.at = saved

\* ... and back there, whatever was toggled, picked and fetched again meanwhile, and
\* however fast the views changed, the rows are those that were left, at the place
\* that was left once the frame is painted - unless the table was too short for it
\* then or since (NetworkSection.tsx:73-76), or was left at the top, when it stays
\* where the other view was.
EndpointsResume ==
    view = "endpoints" =>
        \A l \in left : /\ filter = l.filter /\ search = l.search
                        /\ l.at > 0 /\ frame = Away /\ ~squeezed => scroll = l.at

WayBackHolds == LinkLeadsBack /\ EndpointsResume
=============================================================================
