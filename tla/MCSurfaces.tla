------------------------------ MODULE MCSurfaces ------------------------------
(***************************************************************************)
(* Bounded instances of LayerSurfaces, Tiling, PopupGrabs and               *)
(* EventQueueView in one run: they share nothing, and each behaviour moves *)
(* one of them.                                                            *)
(***************************************************************************)
EXTENDS LayerSurfaces, Tiling, PopupGrabs, EventQueueView, TLC

VARIABLE scene
surfacesVars == <<layerVars, tilingVars, seat, viewVars, scene>>

CONSTANTS l1, l2, w1, w2, bar, m1, m2

NoMargin == [edge \in Edges |-> 0]
Plain == [anchor |-> {}, margin |-> NoMargin, size |-> [axis \in Axes |-> 0], zone |-> 0]

\* A dock with a margin that asks for more than there is, and a backdrop that
\* reaches beyond the output.
Dock == [Plain EXCEPT !.anchor = {"left"}, !.margin["left"] = 2, !.size = [x |-> 3, y |-> 4], !.zone = 9]
Backdrop == [Plain EXCEPT !.anchor = Edges, !.margin = [edge \in Edges |-> -6], !.zone = DontCare]
MCRequests == {Dock, Backdrop}
MCOutputSizes == {[x |-> 8, y |-> 6], [x |-> 4, y |-> 5]}
MCOrigin == [x |-> 3, y |-> 0]

\* Tiling: room for every tile, for one, and for none but gaps.
MCArrangements ==
  {[w |-> 12, h |-> 9, gap |-> 1, padding |-> 1, border |-> 0, ratio |-> 5],
   [w |-> 5, h |-> 4, gap |-> 3, padding |-> 0, border |-> 1, ratio |-> 9],
   [w |-> 3, h |-> 8, gap |-> 0, padding |-> 2, border |-> 0, ratio |-> 1]}

MCClient == (w1 :> "one") @@ (w2 :> "two") @@ (bar :> "one")
            @@ (m1 :> "one") @@ (m2 :> "one")

MCIds == 0..MaxPublished

SurfacesSymmetry == Permutations({l1, l2}) \cup Permutations({m1, m2})

SurfacesInit ==
  /\ scene \in {"layers", "tiling", "popups", "events"}
  /\ LayersInit /\ (scene = "layers" \/ output = CHOOSE size \in OutputSizes : TRUE)
  /\ TilingInit /\ (scene = "tiling" \/ layout = CHOOSE l \in Arrangements : TRUE)
  /\ GrabsInit /\ ViewInit

SurfacesNext ==
  \/ scene = "layers" /\ LayersNext /\ UNCHANGED <<tilingVars, seat, viewVars, scene>>
  \/ scene = "tiling" /\ TilingNext /\ UNCHANGED <<layerVars, seat, viewVars, scene>>
  \/ scene = "popups" /\ GrabsNext /\ UNCHANGED <<layerVars, tilingVars, viewVars, scene>>
  \/ scene = "events" /\ ViewNext /\ UNCHANGED <<layerVars, tilingVars, seat, scene>>

SurfacesSpec == SurfacesInit /\ [][SurfacesNext]_surfacesVars
-----------------------------------------------------------------------------
(* The invariants of each module, of the behaviours that move it. *)

\* A layer surface is shown only for a configure of its present mapping, each
\* knows its size and the clients the zone of the layout as it is now, and no
\* reservation leaves the output (layer_surfaces.rs).
LayersSound == scene = "layers" => CycleAcked /\ LayoutCurrent /\ ZoneInside

\* Tiled windows are in the slots of the present layout, and these neither
\* overlap nor leave the work area (layout.rs).
TilesKept == scene = "tiling" => EveryTileInPlace /\ SlotsFit

\* A popup grab belongs to the chain that is up, was started by a press that
\* started no other, and by none from before the keyboard changed its client
\* (popup_grabs.rs).
GrabsSound == scene = "popups" => GrabsOwned /\ PressOnce /\ PressesFollowFocus

\* Whatever was coalesced, dropped or reset, a consumer of the queue sees what
\* was published before each lifecycle event, the bytes are counted right and
\* the backlog keeps within its limits
\* (events.rs).
QueueExact == scene = "events" => CoalescingExact /\ BytesExact /\ Bounded
=============================================================================
