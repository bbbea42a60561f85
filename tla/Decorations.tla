----------------------------- MODULE Decorations -----------------------------
(***************************************************************************)
(* Who draws the frame of a window: the negotiation of decorations over    *)
(* xdg-decoration or the KDE protocol, window rules, hybrid controls and   *)
(* the configured policy (state.rs, handlers.rs, window_integration.rs).   *)
(*                                                                         *)
(* "server" and "client" are the two decoration modes.  Every surface has  *)
(* a cell with the mode Blair decided on; painting looks at the cell       *)
(* alone.  Fullscreen windows, which never have a frame, are left out.     *)
(***************************************************************************)
CONSTANT Framed                \* the windows

Modes == {"server", "client", "auto", "hybrid", "none"}
Sides == {"server", "client"}
Unset == "unset"

VARIABLES
  deco,      \* configuration: decorations.mode and window.server_side_decorations
  frame      \* what is known of each window
decorationVars == <<deco, frame>>

\* bound: the protocol the client negotiates with; request: what it asked for;
\* hybrid: whether it asked for hybrid controls; rule: the decoration of the
\* window rules resolved when it was configured; cell: the mode decided on;
\* pending: the mode of the next configure; told: the mode last announced to
\* the client.  ruled remembers, for the properties only, that a rule of an
\* earlier mapping may have left its mode in the cell.
Frames == [bound: {"none", "xdg", "kde"}, request: Sides \cup {Unset}, hybrid: BOOLEAN,
           rule: Sides \cup {Unset}, cell: Sides \cup {Unset}, pending: Sides \cup {Unset},
           told: Sides \cup {Unset}, configured: BOOLEAN, mapped: BOOLEAN, ruled: BOOLEAN]

NewFrame == [bound |-> "none", request |-> Unset, hybrid |-> FALSE, rule |-> Unset,
             cell |-> Unset, pending |-> Unset, told |-> Unset,
             configured |-> FALSE, mapped |-> FALSE, ruled |-> FALSE]

DecorationsInit ==
  /\ deco \in [mode: Modes, ssd: BOOLEAN]
  /\ frame = [w \in Framed |-> NewFrame]
------------------------------------------------------------------------------
Preferred(c) ==
  IF c.mode \in {"server", "hybrid"} \/ (c.mode = "auto" /\ c.ssd) THEN "server" ELSE "client"

Resolve(c, f) ==
  CASE f.rule # Unset -> f.rule
    [] f.rule = Unset /\ f.hybrid /\ c.mode \notin {"client", "none"} -> "server"
    [] OTHER -> IF c.mode = "auto" /\ c.ssd /\ f.request # Unset THEN f.request ELSE Preferred(c)

\* What painting asks: is there a frame around the window?
ServerDecorated(c, f) ==
  /\ c.mode # "none"
  /\ \/ f.cell = "server"
     \/ f.cell = Unset /\ c.mode \in {"server", "hybrid"}

\* A configure carries the pending mode to a client that speaks xdg-decoration.
Configured(f) == [f EXCEPT !.told = IF f.bound = "xdg" THEN f.pending ELSE @]

\* The mode is decided anew, and announced once the first configure is out.
Decided(c, f) ==
  LET mode == Resolve(c, f)
      g == [f EXCEPT !.cell = mode, !.pending = mode, !.ruled = FALSE]
  IN  IF f.configured THEN Configured(g) ELSE g

\* The KDE protocol has an event of its own and leaves the configure alone.
Announced(c, f) ==
  LET mode == Resolve(c, f)
  IN  [f EXCEPT !.cell = mode, !.told = mode, !.ruled = FALSE]

\* A refresh that decides the cell and forgets the client.
RefreshedSilently(c, fs) == [w \in Framed |-> [fs[w] EXCEPT !.cell = Resolve(c, fs[w])]]

\* Every window is decided anew, whatever its client negotiated.
Refreshed(c, fs) == [w \in Framed |-> Decided(c, fs[w])]
------------------------------------------------------------------------------
NewDecoration(w) ==
  /\ frame[w].bound = "none"
  /\ \E protocol \in {"xdg", "kde"} :
       LET f == [frame[w] EXCEPT !.bound = protocol]
       IN  frame' = [frame EXCEPT ![w] = IF protocol = "xdg" THEN Decided(deco, f) ELSE Announced(deco, f)]
  /\ UNCHANGED deco

RequestMode(w) ==
  /\ frame[w].bound # "none"
  /\ \E request \in Sides \cup {Unset} :
       LET f == [frame[w] EXCEPT !.request = request]
       IN  frame' = [frame EXCEPT ![w] = IF f.bound = "xdg" THEN Decided(deco, f) ELSE Announced(deco, f)]
  /\ UNCHANGED deco

\* The first commit: the rules of the moment are resolved, and a rule about
\* decorations overrides the cell.
ConfigureNew(w) ==
  /\ ~frame[w].configured
  /\ \E rule \in Sides \cup {Unset} :
       LET f == [frame[w] EXCEPT !.configured = TRUE, !.rule = rule,
                                 !.ruled = @ \/ (rule = Unset /\ frame[w].rule # Unset)]
       IN  frame' = [frame EXCEPT ![w] =
             Configured(IF rule = Unset THEN f ELSE [f EXCEPT !.cell = rule, !.pending = rule, !.ruled = FALSE])]
  /\ UNCHANGED deco

MapFrame(w) ==
  /\ frame[w].configured /\ ~frame[w].mapped
  /\ frame' = [frame EXCEPT ![w].mapped = TRUE]
  /\ UNCHANGED deco

\* The cell, the rule and what was negotiated outlive the mapping.
UnmapFrame(w) ==
  /\ frame[w].mapped
  /\ frame' = [frame EXCEPT ![w].mapped = FALSE, ![w].configured = FALSE]
  /\ UNCHANGED deco

\* One client opts in to hybrid controls, or out of them: all are refreshed.
SetHybrid(w) ==
  /\ frame' = Refreshed(deco, [frame EXCEPT ![w].hybrid = ~@])
  /\ UNCHANGED deco

ReloadDecorations ==
  /\ deco' \in [mode: Modes, ssd: BOOLEAN] \ {deco}
  /\ frame' = Refreshed(deco', frame)

DecorationsNext ==
  \/ \E w \in Framed : \/ NewDecoration(w) \/ RequestMode(w) \/ ConfigureNew(w)
                       \/ MapFrame(w) \/ UnmapFrame(w) \/ SetHybrid(w)
  \/ ReloadDecorations
DecorationsSpec == DecorationsInit /\ [][DecorationsNext]_decorationVars
------------------------------------------------------------------------------
\* Painting and the client agree: a configured client that negotiates over
\* xdg-decoration was last told the mode in its cell, so a frame is painted
\* around it only if it knows not to draw one; and that mode is the one the
\* rules, its hybrid request, its wish and the policy give now, unless a rule
\* of an earlier mapping still sits in the cell.
FrameTold ==
  \A w \in Framed : LET f == frame[w] IN
    f.bound = "xdg" /\ f.configured =>
      /\ f.told = f.cell
      /\ ServerDecorated(deco, f) => f.told = "server"
      /\ ~f.ruled => f.told = Resolve(deco, f)

\* state.rs: a client that never negotiated decorations is only framed when
\* the compositor forces them, by its policy, a rule or a wish for hybrid
\* controls; otherwise it draws its own.
UnnegotiatedUnframed ==
  \A w \in Framed : LET f == frame[w] IN
    f.mapped /\ f.bound = "none" /\ ~f.hybrid /\ f.rule = Unset /\ ~f.ruled
      => (ServerDecorated(deco, f) => deco.mode \in {"server", "hybrid"})
==============================================================================
