------------------------------ MODULE MCWindows ------------------------------
(***************************************************************************)
(* Bounded instances of seven modules about windows in one run: they share *)
(* nothing, and each behaviour moves one of them.                          *)
(***************************************************************************)
EXTENDS Decorations, WindowModes, PointerScene, HotCorners, FrameParts, FramePainting, Keys, TLC

VARIABLE scene
windowsVars == <<decorationVars, modeVars, sceneVars, cornerVars, partsVars, paintVars, board, scene>>

CONSTANTS w1, w2, bar, c1, c2, o1, o2

\* WindowModes
MCOpened == [loc |-> 2, size |-> 2]

\* PointerScene: a small window with a frame under or over one with controls
\* over the client, and a panel over part of the output.
MCStyle == (w1 :> "frame") @@ (w2 :> "overlay")
MCWidth == (w1 :> 1) @@ (w2 :> 2)
MCPanels == bar :> [layer |-> "top", covers |-> {1, 2}]

\* FrameParts: bars and buttons of both relations, windows with and without
\* room for all parts.
MCThemes == [bar : {4, 7}, border : {1}, button : {2, 5}, gap : {1}, edge : {0, 2}, count : {0, 1, 3},
             drag : {0, 2}, left : BOOLEAN, icon : BOOLEAN, centered : BOOLEAN]
MCClientSizes == [w : {6, 17}, h : {5}]

\* FramePainting: two outputs of different scales.
MCScale == (o1 :> 1) @@ (o2 :> 2)

\* Keys: a modifier alone and a key with it.
Launcher == [mods |-> {"super"}, keys |-> {}]
Terminal == [mods |-> {"super"}, keys |-> {"a"}]
MCBindings == {Launcher, Terminal}

Picked(set) == CHOOSE x \in set : TRUE

\* Of the modules that do not move there is one initial state.
WindowsInit ==
  /\ scene \in {"decorations", "modes", "pointer", "corners", "parts", "painting", "keys"}
  /\ DecorationsInit /\ (scene = "decorations" \/ deco = [mode |-> Picked(Modes), ssd |-> TRUE])
  /\ WindowModesInit /\ output = Picked(OutputSizes)
  /\ PointerSceneInit /\ pointer.at = Picked(Positions)
  /\ HotCornersInit /\ (scene = "corners" \/ acting = {})
  /\ IF scene = "parts" THEN FramePartsInit
     ELSE theme = Picked(Themes) /\ client = Picked(ClientSizes) /\ tiled = FALSE
  /\ FramePaintingInit /\ (scene = "painting" \/ <<want.kind, want.mode, want.length>> = <<"bar", "auto", 1>>)
  /\ KeysInit

WindowsNext ==
  /\ UNCHANGED scene
  /\ \/ scene = "decorations" /\ DecorationsNext
        /\ UNCHANGED <<modeVars, sceneVars, cornerVars, partsVars, paintVars, board>>
     \/ scene = "modes" /\ WindowModesNext
        /\ UNCHANGED <<decorationVars, sceneVars, cornerVars, partsVars, paintVars, board>>
     \/ scene = "pointer" /\ PointerSceneNext
        /\ UNCHANGED <<decorationVars, modeVars, cornerVars, partsVars, paintVars, board>>
     \/ scene = "corners" /\ HotCornersNext
        /\ UNCHANGED <<decorationVars, modeVars, sceneVars, partsVars, paintVars, board>>
     \/ scene = "parts" /\ FramePartsNext
        /\ UNCHANGED <<decorationVars, modeVars, sceneVars, cornerVars, paintVars, board>>
     \/ scene = "painting" /\ FramePaintingNext
        /\ UNCHANGED <<decorationVars, modeVars, sceneVars, cornerVars, partsVars, board>>
     \/ scene = "keys" /\ KeysNext
        /\ UNCHANGED <<decorationVars, modeVars, sceneVars, cornerVars, partsVars, paintVars>>

WindowsSpec == WindowsInit /\ [][WindowsNext]_windowsVars
------------------------------------------------------------------------------
(* The invariants of each module, of the behaviours that move it. *)

\* A frame is painted where the client knows of it, and only there, after any
\* negotiation, rule or reload (state.rs, handlers.rs).
FramesAgree == scene = "decorations" => FrameTold

\* A maximized or fullscreen window is where its mode puts it in the output as
\* it is now, and during a resize the edge that is not dragged stays where it
\* was, whatever size the client has got to (state.rs, grabs.rs).
PlacesKept == scene = "modes" => Placed /\ OppositeEdgeStays

\* A click goes to what is painted below the pointer, and after each iteration
\* the pointer is in the surface it is over (input.rs, render/mod.rs).
PointerAgrees == scene = "pointer" => SeenIsHit /\ FocusFollows

\* A hot corner acts once per visit, and not before the dwell is over
\* (hot_corners.rs).
CornersWait == scene = "corners" => ActsOncePerDwell

\* The parts of a frame do not cover each other, and every point of it belongs
\* to one (decorations/).
FramesUsable == scene = "parts" => FrameSound

\* An output that was rendered shows the frame as it is now, whatever was kept
\* from earlier renders (render/decoration.rs).
FramesCurrent == scene = "painting" => PaintedRight

\* No key is believed to be down that is not, after reloads and resets at any
\* time, but for a latch a reload released that was withheld (input.rs).
KeysReleased == scene = "keys" => NothingStuck
=============================================================================
