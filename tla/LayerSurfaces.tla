---------------------------- MODULE LayerSurfaces ----------------------------
(***************************************************************************)
(* The life of layer surfaces on one output (layer_surfaces.rs): role,     *)
(* first commit, configure, acknowledgement, buffer, unmapping by an empty *)
(* commit and mapping again, with changes of the output in between, and    *)
(* the zone they leave to windows. Which of them has the keyboard is       *)
(* modelled in Workspaces and PopupGrabs.                                  *)
(*                                                                         *)
(* The configures of a surface are numbered in the order they are sent.    *)
(***************************************************************************)
EXTENDS LayerLayout, Retaining, SequencesExt, FiniteSetsExt

CONSTANTS
    Layers,
    Requests,       \* what a client may ask for
    Default,        \* what a surface asks for at the start
    OutputSizes,    \* sizes the output may have
    Origin,         \* place of the output in the space of all outputs
    MaxConfigures,  \* bound on the configures of all surfaces
    MaxResizes      \* bound on the changes of the output

ASSUME LayoutAssumption ==
    /\ MaxInt \in Nat \ {0}
    /\ Requests \cup {Default} \subseteq Request
    /\ OutputSizes \subseteq [Axes -> 1..MaxInt]
    /\ Origin \in [Axes -> Coordinates]

VARIABLES
    surface,    \* per layer: phase, requests, buffer and configures
    map,        \* the mapped layers, in the order of the layer map
    zone,       \* the non-exclusive zone of the layer map
    output,     \* the size of the output
    told,       \* the zone last announced to API clients
    resizes

layerVars == <<surface, map, zone, output, told, resizes>>

Absent == [phase |-> "absent", first |-> 0, requested |-> Default, buffer |-> FALSE,
           sent |-> 0, open |-> {}, size |-> <<>>, cycle |-> 0, acked |-> 0]

Whole(size) == [loc |-> [axis \in Axes |-> 0], size |-> size]

LayersInit ==
    /\ surface = [l \in Layers |-> Absent]
    /\ map = <<>>
    /\ output \in OutputSizes
    /\ zone = Whole(output)
    /\ told = zone
    /\ resizes = 0

-----------------------------------------------------------------------------
(* Configures. *)

\* send_pending_configure: sent when it says something new, or is the first
\* of a mapping cycle.
Sent(s, size) ==
    IF s.size = size THEN s
    ELSE [s EXCEPT !.size = size, !.sent = @ + 1, !.open = @ \cup {s.sent + 1}]

\* configure, for a surface that is not mapped.
Configured(s, z, out) ==
    LET layout == [NewLayout(out, Origin) EXCEPT !.remaining = z.size]
    IN  Sent(s, Project(layout, s.requested).size)

\* What the mapped surfaces ask for, in the order of the layer map.
Asked(ss, m) == [i \in DOMAIN m |-> ss[m[i]].requested]

\* prepare_layer_layout and LayerMap::arrange: the layout at the start and after
\* each of the requests.
Layouts(asked, out) ==
    LET after[i \in 0..Len(asked)] ==
            IF i = 0 THEN NewLayout(out, Origin) ELSE Project(after[i - 1], asked[i]).left
    IN  after

\* What the layer map takes off an edge for the projected requests.
MapTotal(asked, layouts, edge) ==
    LET total[i \in 0..Len(asked)] ==
            IF i = 0 THEN 0
            ELSE total[i - 1] + MapReserves(Project(layouts[i - 1], asked[i]).effective, edge)
    IN  total[Len(asked)]

\* The zone the layer map computes from the projected requests.
ZoneOf(asked, out) ==
    LET Total(edge) == MapTotal(asked, Layouts(asked, out), edge)
    IN  [loc |-> [axis \in Axes |-> Total(Near(axis))],
         size |-> [axis \in Axes |-> out[axis] - Total(Near(axis)) - Total(Far(axis))]]

\* The mapped surfaces are told their new sizes.
Arranged(ss, m, out) ==
    LET layouts == Layouts(Asked(ss, m), out) IN
    [l \in Layers |->
        IF l \notin Range(m) THEN ss[l]
        ELSE LET i == CHOOSE i \in DOMAIN m : m[i] = l
             IN  Sent(ss[l], Project(layouts[i - 1], ss[l].requested).size)]

\* configure_unmapped_layers.
UnmappedConfigured(ss, z, out) ==
    [l \in Layers |-> IF ss[l].phase \in {"awaiting", "ready"}
                      THEN Configured(ss[l], z, out) ELSE ss[l]]

\* Mutant of Relaid: surfaces that wait for their first buffer are not told.
RelaidMapped(ss, m, out) ==
    /\ map' = m /\ output' = out
    /\ zone' = ZoneOf(Asked(ss, m), out)
    /\ surface' = Arranged(ss, m, out)
    /\ told' = IF zone' = zone THEN told ELSE zone'

\* The map is arranged and everybody hears of it: layer_layout_changed and
\* output_changed.
Relaid(ss, m, out) ==
    /\ map' = m /\ output' = out
    /\ zone' = ZoneOf(Asked(ss, m), out)
    /\ surface' = UnmappedConfigured(Arranged(ss, m, out), zone', out)
    /\ told' = IF zone' = zone THEN told ELSE zone'

Only(l, s) ==
    /\ surface' = [surface EXCEPT ![l] = s]
    /\ UNCHANGED <<map, zone, output, told>>

-----------------------------------------------------------------------------
(* Requests of clients. *)

\* register_layer_surface on a surface without a buffer.
Register(l) ==
    /\ surface[l].phase = "absent"
    /\ Only(l, [Absent EXCEPT !.phase = "initial"])
    /\ UNCHANGED resizes

\* What a commit leaves of the surface before commit_layer looks at it. What
\* the setters of the role asked for takes effect, and a buffer that comes too
\* early is refused.
Hooked(l, r, attach) ==
    LET s == [surface[l] EXCEPT !.requested = r]
    IN  IF attach = "buffer" /\ s.phase \in {"initial", "awaiting"} THEN [s EXCEPT !.phase = "closed"]
        ELSE [s EXCEPT !.buffer = attach = "buffer" \/ (@ /\ attach # "empty")]

\* reset: the surface starts over, but configures of the past cycle may still
\* be on their way to the client.
Restarted(s) ==
    [s EXCEPT !.phase = "initial", !.first = 0, !.requested = Default, !.size = <<>>,
              !.cycle = s.sent]

\* commit_layer after setters that leave the request r; attach is what
\* wl_surface.attach gave: a buffer, none ("empty"), or nothing new ("").
Commit(l, r, attach) ==
    LET s == Hooked(l, r, attach) IN
    /\ s.phase # "absent" /\ surface[l].phase # "closed"
    /\ UNCHANGED resizes
    /\ \/ s.phase = "closed" /\ Only(l, s)
       \/ /\ s.phase = "initial"
          /\ LET c == Configured(s, zone, output)
             IN  Only(l, [c EXCEPT !.phase = "awaiting", !.first = c.sent])
       \/ /\ s.phase = "awaiting" \/ (s.phase = "ready" /\ ~s.buffer)
          /\ Only(l, Configured(s, zone, output))
       \/ /\ s.phase = "ready" /\ s.buffer
          /\ Relaid([surface EXCEPT ![l] = [s EXCEPT !.phase = "mapped"]], Append(map, l), output)
       \/ /\ s.phase = "mapped" /\ s.buffer
          /\ Relaid([surface EXCEPT ![l] = s], map, output)
       \/ /\ s.phase = "mapped" /\ ~s.buffer
          /\ Relaid([surface EXCEPT ![l] = Restarted(s)], Retained(map, Layers \ {l}), output)

\* Mutant of Acknowledged: a configure of an earlier cycle will do.
AcknowledgedAny(s, n) ==
    [s EXCEPT !.open = {k \in @ : k > n}, !.acked = n,
              !.phase = IF @ = "awaiting" THEN "ready"
                        ELSE IF @ \in {"ready", "mapped"} THEN @ ELSE "closed"]

\* layer_configure_acknowledged: older configures count as acknowledged too;
\* one of an earlier cycle is an error.
Acknowledged(s, n) ==
    [s EXCEPT !.open = {k \in @ : k > n}, !.acked = n,
              !.phase = IF @ = "awaiting" /\ n >= s.first THEN "ready"
                        ELSE IF @ \in {"ready", "mapped"} THEN @ ELSE "closed"]

AckConfigure(l, n) ==
    /\ surface[l].phase \notin {"absent", "closed"} /\ n \in surface[l].open
    /\ Only(l, Acknowledged(surface[l], n))
    /\ UNCHANGED resizes

\* layer_destroyed: by its client, by its death or after a protocol error.
LayerDestroyed(l) ==
    /\ surface[l].phase # "absent"
    /\ Relaid([surface EXCEPT ![l] = Absent], Retained(map, Layers \ {l}), output)
    /\ UNCHANGED resizes

\* output_changed: another mode, scale or transform.
OutputChanged(size) ==
    /\ size # output /\ resizes < MaxResizes
    /\ resizes' = resizes + 1
    /\ Relaid(surface, map, size)

LayersNext ==
    /\ \/ \E l \in Layers :
           \/ Register(l) \/ LayerDestroyed(l)
           \/ \E r \in Requests \cup {surface[l].requested}, attach \in {"", "buffer", "empty"} :
                 Commit(l, r, attach)
           \/ \E n \in 1..MaxConfigures : AckConfigure(l, n)
       \/ \E size \in OutputSizes : OutputChanged(size)
    /\ FoldSet(LAMBDA l, sum : surface'[l].sent + sum, 0, Layers) <= MaxConfigures

LayersSpec == LayersInit /\ [][LayersNext]_layerVars

-----------------------------------------------------------------------------
(* Properties. *)

\* A surface is shown, or may be, only for a configure of this mapping cycle:
\* whatever was acknowledged before the surface was unmapped does not count.
\* What is shown has a buffer.
AckedInCycle ==
    \A l \in Layers :
        /\ surface[l].phase \in {"ready", "mapped"} => surface[l].acked > surface[l].cycle
        /\ surface[l].phase = "mapped" => surface[l].buffer

\* Exactly the shown surfaces are in the layer map, each once.
MapShown == Range(map) = {l \in Layers : surface[l].phase = "mapped"} /\ IsInjective(map)
CycleAcked == AckedInCycle /\ MapShown

\* Nobody works with a stale layout: whatever was mapped, unmapped, resized or
\* destroyed since, each surface that was configured knows the size it would
\* be given now, and API clients know the zone that is left.
LayoutCurrent ==
    LET layouts == Layouts(Asked(surface, map), output)
        current == [NewLayout(output, Origin) EXCEPT !.remaining = zone.size]
        Knows(l, layout) == surface[l].size = Project(layout, surface[l].requested).size
    IN  /\ told = zone
        /\ \A l \in Layers : surface[l].phase \in {"awaiting", "ready"} => Knows(l, current)
        /\ \A i \in DOMAIN map : Knows(map[i], layouts[i - 1])

\* The reservations of the layers never leave the output, whatever they ask
\* for, and the zone the map computes from the projected requests is the one
\* the projection left.
ZoneInside ==
    LET layout == Layouts(Asked(surface, map), output)[Len(map)] IN
    /\ zone = [loc |-> layout.loc, size |-> layout.remaining]
    /\ \A axis \in Axes : /\ zone.loc[axis] >= 0 /\ zone.size[axis] >= 0
                          /\ zone.loc[axis] + zone.size[axis] <= output[axis]
=============================================================================
