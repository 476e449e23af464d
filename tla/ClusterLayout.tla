--------------------------- MODULE ClusterLayout ---------------------------
(***************************************************************************)
(* Where the topology diagram draws its elements (computePositions in      *)
(* Topology.tsx): two rows of node boxes with a grid of pods in each, the  *)
(* services on the right, the pods without a box below.  Coordinates are   *)
(* in half pixels, because the code halves odd numbers.                    *)
(***************************************************************************)
EXTENDS Integers, Sequences

CONSTANTS
    Rows,       \* possible rows: the number of pods of each node
    Services,   \* possible numbers of services
    Orphans,    \* possible numbers of pods without a box
    Widths      \* possible widths of the container

ASSUME LayoutAssumption == /\ Rows \subseteq Seq(Nat)
                           /\ Services \subseteq Nat /\ Orphans \subseteq Nat /\ Widths \subseteq Nat

VARIABLES
    masters, workers,   \* the two rows
    services, orphans,
    drawn               \* the rectangles on the screen

layoutVars == <<masters, workers, services, orphans, drawn>>

\* clusterW, clusterMinH, clusterHeaderH, the two gaps, outerPad, compoundPadding
Box == [w |-> 520, minH |-> 320, header |-> 72, gapX |-> 56, gapY |-> 72, outer |-> 48, pad |-> 20]

Pod     == [w |-> 72, h |-> 50, gapX |-> 16, gapY |-> 16]
Service == [w |-> 118, h |-> 66, gapX |-> 22, gapY |-> 24]

Larger(a, b) == IF a >= b THEN a ELSE b

\* A grid: its lines, the room it takes, and where its element k (from 0) is.
Lines(n, cols)     == (n + cols - 1) \div cols
Span(n, size, gap) == Larger(0, n * (size + gap) - gap)
Cell(k, cols, tile) ==
    [x |-> 2 * (k % cols) * (tile.w + tile.gapX), y |-> 2 * (k \div cols) * (tile.h + tile.gapY)]

\* The rectangle of size w, h around x, y.
Rect(kind, id, x, y, w, h) ==
    [kind |-> kind, id |-> id, left |-> x - w, right |-> x + w, top |-> y - h, bottom |-> y + h]

PodCols     == (Box.w - 64 + Pod.gapX) \div (Pod.w + Pod.gapX)
PodAreaH(n) == Span(Lines(n, PodCols), Pod.h, Pod.gapY)
-----------------------------------------------------------------------------
(* Slips: what a definition would be after a plausible mistake in its code. *)

\* A box leaves no room between its pods' lines.
TightHeight(n) == Larger(Box.minH, Box.header + Lines(n, PodCols) * Pod.h + 40)
-----------------------------------------------------------------------------
\* clusterHeight
ClusterHeight(n) == Larger(Box.minH, Box.header + PodAreaH(n) + 40)

Tallest(row) ==
    LET heights == {ClusterHeight(row[i]) : i \in DOMAIN row}
    IN  IF row = <<>> THEN 0 ELSE CHOOSE h \in heights : \A g \in heights : g <= h

RowW(row)    == Span(Len(row), Box.w, Box.gapX)
ClusterAreaW == Larger(Box.w, Larger(RowW(masters), RowW(workers)))

ServiceAreaGap == IF services > 0 THEN 120 ELSE 0
ServiceCols(width) ==
    LET fit == (28 * width) \div (100 * (Service.w + Service.gapX))
    IN  IF services = 0 THEN 0 ELSE Larger(1, IF fit > 2 THEN 2 ELSE fit)

ContentW(width) ==
    ClusterAreaW + ServiceAreaGap + Span(ServiceCols(width), Service.w, Service.gapX)
StartX(width) == Larger(2 * Box.outer, width - ContentW(width))

WorkerTopY == Box.outer + Tallest(masters) + (IF workers # <<>> THEN Box.gapY ELSE 0)
OrphanTopY == WorkerTopY + Tallest(workers) + (IF orphans > 0 THEN Box.gapY ELSE 0)
-----------------------------------------------------------------------------
(* placeClusterRow, and the pods of each box *)

TopOf(name) == IF name = "master" THEN Box.outer ELSE WorkerTopY

BoxX(row, i, width) ==
    StartX(width) + ClusterAreaW - RowW(row) + 2 * (i - 1) * (Box.w + Box.gapX) + Box.w
BoxY(row, name, i) == 2 * TopOf(name) + ClusterHeight(row[i])

Boxes(row, name, width) ==
    {Rect("box", <<name, i>>, BoxX(row, i, width), BoxY(row, name, i), Box.w, ClusterHeight(row[i]))
        : i \in DOMAIN row}

\* The four invisible corners that keep a box at its size.
Anchors(row, name, width) ==
    {Rect("anchor", <<name, i, sx, sy>>, BoxX(row, i, width) + sx * (Box.w - 2 * Box.pad),
          BoxY(row, name, i) + sy * (ClusterHeight(row[i]) - 2 * Box.pad), 0, 0)
        : i \in DOMAIN row, sx \in {-1, 1}, sy \in {-1, 1}}

PodsIn(row, name, i, width) ==
    LET h    == ClusterHeight(row[i])
        x    == BoxX(row, i, width) - Span(PodCols, Pod.w, Pod.gapX) + Pod.w
        y    == BoxY(row, name, i) - h + 2 * Box.header
                + Larger(48, h - Box.header - PodAreaH(row[i])) + Pod.h
        at(k) == Cell(k, PodCols, Pod)
    IN  {Rect("pod", <<name, i, k>>, x + at(k).x, y + at(k).y, Pod.w, Pod.h) : k \in 0..(row[i] - 1)}

PlaceClusterRow(row, name, width) ==
    Boxes(row, name, width) \cup Anchors(row, name, width)
        \cup UNION {PodsIn(row, name, i, width) : i \in DOMAIN row}

PlaceServices(width) ==
    LET x     == StartX(width) + 2 * (ClusterAreaW + ServiceAreaGap) + Service.w
        at(k) == Cell(k, ServiceCols(width), Service)
    IN  {Rect("service", <<k>>, x + at(k).x, 2 * Box.outer + at(k).y + Service.h, Service.w, Service.h)
            : k \in 0..(services - 1)}

PlaceOrphans(width) ==
    LET at(k) == Cell(k, ClusterAreaW \div (Pod.w + Pod.gapX), Pod)
    IN  {Rect("orphan", <<k>>, StartX(width) + at(k).x + Pod.w, 2 * OrphanTopY + at(k).y + Pod.h,
              Pod.w, Pod.h) : k \in 0..(orphans - 1)}

ComputePositions(width) ==
    PlaceClusterRow(masters, "master", width) \cup PlaceClusterRow(workers, "worker", width)
        \cup PlaceServices(width) \cup PlaceOrphans(width)

LayoutInit ==
    /\ masters \in Rows /\ workers \in Rows
    /\ services \in Services /\ orphans \in Orphans
    /\ drawn = {}

\* The effect draws; the observer draws again when the container has a new width.
Draw(width) ==
    /\ drawn' = ComputePositions(width)
    /\ UNCHANGED <<masters, workers, services, orphans>>

LayoutNext == \E width \in Widths : Draw(width)

LayoutSpec == LayoutInit /\ [][LayoutNext]_layoutVars
-----------------------------------------------------------------------------
Apart(a, b) == \/ a.right <= b.left \/ b.right <= a.left
               \/ a.bottom <= b.top \/ b.bottom <= a.top

\* The part of a box that is free for its pods, under the name of its node.
Free(box) == [box EXCEPT !.top = @ + 2 * Box.header]

Inside(a, b) == /\ b.left <= a.left /\ a.right <= b.right
                /\ b.top <= a.top /\ a.bottom <= b.bottom

\* For every cluster and every width: each pod is drawn in the box of its node and
\* below its name, each corner in its box, and nothing else overlaps.
DiagramIsClear ==
    \A a \in drawn :
        IF a.kind \in {"pod", "anchor"}
        THEN /\ \E b \in drawn : /\ b.kind = "box" /\ b.id = <<a.id[1], a.id[2]>>
                                 /\ Inside(a, IF a.kind = "pod" THEN Free(b) ELSE b)
             /\ \A b \in drawn : a.kind = "pod" /\ b.kind = "pod" /\ a # b => Apart(a, b)
        ELSE \A b \in drawn : b.kind \notin {"pod", "anchor"} /\ a # b => Apart(a, b)
=============================================================================
