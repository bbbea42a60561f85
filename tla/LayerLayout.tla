----------------------------- MODULE LayerLayout -----------------------------
(***************************************************************************)
(* The layout of layer surfaces on one output (layer_surfaces/layout.rs):  *)
(* what a client asks for is made to fit what earlier surfaces left, so    *)
(* that no position or size leaves the range of a 32-bit integer.          *)
(* A rectangle is two intervals, one for each axis.                        *)
(***************************************************************************)
EXTENDS Integers

CONSTANT MaxInt     \* i32::MAX

Axes == {"x", "y"}
Edges == {"left", "right", "top", "bottom"}
Near(axis) == IF axis = "x" THEN "left" ELSE "top"
Far(axis) == IF axis = "x" THEN "right" ELSE "bottom"
AxisOf(edge) == IF edge \in {"left", "right"} THEN "x" ELSE "y"

\* Exclusive zones other than an amount in pixels.
Neutral == -1
DontCare == -2

Coordinates == (-MaxInt)..MaxInt
Request == [anchor : SUBSET Edges, margin : [Edges -> Coordinates],
            size : [Axes -> 0..MaxInt], zone : {Neutral, DontCare} \cup 0..MaxInt]

Limit(value, low, high) == IF value < low THEN low ELSE IF value > high THEN high ELSE value
AtMost(a, b) == IF a < b THEN a ELSE b

\* Geometry must stay representable after a translation by the origin of the
\* output, so the margins of an axis may be that much below zero in all.
NegativeBudget(extent, origin) ==
    LET room == MaxInt - extent - (IF origin < 0 THEN -origin ELSE origin)
    IN  IF room < 0 THEN 0 ELSE room

\* Layout::new for an output of the given size, placed at origin.
NewLayout(size, origin) ==
    [output |-> size,
     loc |-> [axis \in Axes |-> 0],
     remaining |-> size,
     budget |-> [axis \in Axes |-> NegativeBudget(size[axis], origin[axis])]]

-----------------------------------------------------------------------------
\* bound_margin: what is left of a margin, when that much is available.
BoundMargin(anchored, margin, available, budget) ==
    IF anchored THEN Limit(margin, -budget, available) ELSE margin

\* Left before right and top before bottom: the second margin of an axis gets
\* what the first one leaves.
BoundedMargins(layout, r) ==
    LET extent == IF r.zone = DontCare THEN layout.output ELSE layout.remaining
        First(axis) == BoundMargin(Near(axis) \in r.anchor, r.margin[Near(axis)],
                                   extent[axis], layout.budget[axis])
        taken(axis) == IF Near(axis) \in r.anchor THEN First(axis) ELSE 0
        Second(axis) == BoundMargin(Far(axis) \in r.anchor, r.margin[Far(axis)],
                                    extent[axis] - taken(axis),
                                    layout.budget[axis] + AtMost(taken(axis), 0))
    IN  [edge \in Edges |-> IF edge = Near(AxisOf(edge)) THEN First(AxisOf(edge))
                            ELSE Second(AxisOf(edge))]

\* What the bounded margins leave of an axis for the surface.
Available(layout, r, margin, axis) ==
    LET extent == IF r.zone = DontCare THEN layout.output[axis] ELSE layout.remaining[axis]
    IN  extent - (IF Near(axis) \in r.anchor THEN margin[Near(axis)] ELSE 0)
               - (IF Far(axis) \in r.anchor THEN margin[Far(axis)] ELSE 0)

\* The size to configure.
SizeOn(layout, r, margin, axis) ==
    LET available == Available(layout, r, margin, axis)
        asked == AtMost(r.size[axis], available)
    IN  IF {Near(axis), Far(axis)} \subseteq r.anchor THEN available
        ELSE IF asked = 0 THEN available \div 2 ELSE asked

\* exclusive_edge: the edge along which space is reserved, if there is one.
Reserves(r, edge) ==
    LET across == IF AxisOf(edge) = "x" THEN {"top", "bottom"} ELSE {"left", "right"}
    IN  r.anchor = {edge} \/ r.anchor = {edge} \cup across

\* Mutant of Reservation: the margin is added to what may be reserved.
ReservationUnlimited(layout, r, margin, edge) ==
    IF r.zone >= 0 /\ Reserves(r, edge)
    THEN AtMost(r.zone, layout.remaining[AxisOf(edge)]) + margin[edge] ELSE 0

\* What a surface with these margins takes along an edge.
Reservation(layout, r, margin, edge) ==
    IF r.zone >= 0 /\ Reserves(r, edge)
    THEN Limit(r.zone + margin[edge], 0, layout.remaining[AxisOf(edge)]) ELSE 0

\* Layout::project: the request the layer map is given in place of r, the size
\* to configure, and what the surface leaves to the next one.
Project(layout, r) ==
    LET margin == BoundedMargins(layout, r)
        taken(edge) == Reservation(layout, r, margin, edge)
        reserving == {edge \in Edges : Reserves(r, edge)}
    IN  [effective |->
            [r EXCEPT !.margin = margin,
                      !.zone = IF r.zone < 0 THEN r.zone
                               ELSE IF reserving = {} THEN Neutral
                               ELSE LET edge == CHOOSE e \in reserving : TRUE
                                    IN  taken(edge) - margin[edge]],
         size |-> [axis \in Axes |-> SizeOn(layout, r, margin, axis)],
         left |-> [layout EXCEPT
            !.loc = [axis \in Axes |-> @[axis] + taken(Near(axis))],
            !.remaining = [axis \in Axes |-> @[axis] - taken(Near(axis)) - taken(Far(axis))]]]

\* What the layer map itself takes off its zone for a request it was given.
MapReserves(effective, edge) ==
    IF effective.zone >= 0 /\ Reserves(effective, edge)
    THEN effective.zone + effective.margin[edge] ELSE 0
=============================================================================
