---------------------------- MODULE WindowsProofs ----------------------------
(***************************************************************************)
(* Proofs about HotCorners, Decorations, FrameParts, WindowModes,          *)
(* FramePainting, Keys and PointerScene, for any corners, windows, themes, *)
(* sizes, outputs, keys and panels, and about the run that moves them in   *)
(* turn.                                                                   *)
(***************************************************************************)
EXTENDS MCWindows, SequenceFacts

------------------------------------------------------------------------------
(* Hot corners.  Only the timer of the last entry is current, and what is  *)
(* left of it is what is left of the dwell.                                *)

Timer == [target: Corners, left: 0..Dwell, current: BOOLEAN]

\* The strengthening of ActsOncePerDwell.
CornersInv ==
  /\ timers \subseteq Timer
  /\ dwelt \in 0..Dwell /\ acts \in 0..1
  /\ acts = 1 => dwelt = Dwell
  /\ \A t \in timers : t.current => t.left + dwelt = Dwell /\ acts = 0
  /\ \A t, u \in timers : t.current /\ u.current => t = u

LEMMA OutdatedTimers ==
  ASSUME NEW all, all \subseteq Timer
  PROVE  Outdated(all) \subseteq Timer /\ \A t \in Outdated(all) : ~t.current
BY DEF Outdated, Timer

LEMMA CornersInitial == HotCornersInit => CornersInv
BY DwellAssumption DEF HotCornersInit, CornersInv

LEMMA CornersStep == CornersInv /\ [HotCornersNext]_cornerVars => CornersInv'
<1> SUFFICES ASSUME CornersInv, [HotCornersNext]_cornerVars
             PROVE  CornersInv'
  OBVIOUS
<1> USE DwellAssumption
<1>0. Outdated(timers) \subseteq Timer /\ \A t \in Outdated(timers) : ~t.current
  BY OutdatedTimers DEF CornersInv
<1>1. ASSUME NEW p \in Spots, CornerMotion(p)
      PROVE  CornersInv'
  <2> DEFINE entered == CornerAt(p, grabbed)
             fresh == [target |-> entered, left |-> Dwell, current |-> TRUE]
  <2>1. CASE entered = target
    BY <1>1, <2>1 DEF CornerMotion, CornersInv
  <2>2. CASE entered # target /\ entered = Elsewhere
    BY <1>0, <1>1, <2>2 DEF CornerMotion, CornersInv
  <2>3. CASE entered # target /\ entered # Elsewhere
    <3>1. timers' = Outdated(timers) \cup {fresh} /\ dwelt' = 0 /\ acts' = 0
      BY <1>1, <2>3 DEF CornerMotion
    <3>2. entered \in Corners
      BY <2>3 DEF CornerAt, Spots
    <3>3. fresh \in Timer /\ fresh.current /\ fresh.left = Dwell
      BY <3>2 DEF Timer
    <3>4. \A t \in timers' : t.current => t = fresh
      BY <1>0, <3>1
    <3>5. timers' \subseteq Timer
      BY <1>0, <3>1, <3>3
    <3> HIDE DEF fresh
    <3> QED BY <3>1, <3>3, <3>4, <3>5 DEF CornersInv
  <2> QED BY <2>1, <2>2, <2>3
<1>2. ASSUME NEW p \in Spots, CornerWarp(p)
      PROVE  CornersInv'
  BY <1>2 DEF CornerWarp, CornersInv
<1>3. ASSUME NEW t \in timers, CornerTimer(t)
      PROVE  CornersInv'
  <2>1. timers' = timers \ {t} /\ dwelt' = dwelt /\ t.left = 0
    BY <1>3 DEF CornerTimer
  <2>2. CASE acts' = acts
    BY <2>1, <2>2 DEF CornersInv
  <2>3. CASE acts' # acts
    <3>1. t.current /\ acts' = acts + 1
      BY <1>3, <2>3 DEF CornerTimer
    <3>2. acts = 0 /\ dwelt = Dwell
      BY <2>1, <3>1 DEF CornersInv
    <3>3. \A u \in timers' : ~u.current
      BY <2>1, <3>1 DEF CornersInv, Timer
    <3> QED BY <2>1, <3>1, <3>2, <3>3 DEF CornersInv
  <2> QED BY <2>2, <2>3
<1>4. CASE CornerGrab
  BY <1>4 DEF CornerGrab, CornersInv
<1>5. CASE CornerLock
  BY <1>0, <1>5 DEF CornerLock, Cancel, CornersInv
<1>6. CASE CornerPause
  BY <1>0, <1>6 DEF CornerPause, Cancel, CornersInv
<1>7. CASE CornerReload
  BY <1>0, <1>7 DEF CornerReload, Cancel, CornersInv
<1>8. CASE CornerTick
  <2> DEFINE ticked(t) == [t EXCEPT !.left = @ - 1]
  <2>1. /\ timers' = {ticked(t) : t \in timers} /\ acts' = acts
        /\ dwelt' = IF dwelt < Dwell THEN dwelt + 1 ELSE dwelt
        /\ \A t \in timers : t.left > 0
    BY <1>8 DEF CornerTick
  <2>2. ASSUME NEW t \in timers
        PROVE  /\ ticked(t) \in Timer
               /\ ticked(t).left = t.left - 1 /\ ticked(t).current = t.current
    BY <2>1 DEF CornersInv, Timer
  <2>3. ASSUME NEW t \in timers, t.current
        PROVE  ticked(t).left + dwelt' = Dwell
    <3>1. t.left + dwelt = Dwell /\ t.left \in 1..Dwell
      BY <2>1, <2>3 DEF CornersInv, Timer
    <3>2. dwelt' = dwelt + 1
      BY <2>1, <3>1 DEF CornersInv
    <3> QED BY <2>2, <3>1, <3>2 DEF CornersInv
  <2>4. timers' \subseteq Timer
    BY <2>1, <2>2
  <2>5. dwelt' \in 0..Dwell /\ (acts' = 1 => dwelt' = Dwell)
    BY <2>1 DEF CornersInv
  <2>6. ASSUME NEW u \in timers', u.current
        PROVE  u.left + dwelt' = Dwell /\ acts' = 0
    <3>1. PICK t \in timers : u = ticked(t)
      BY <2>1
    <3>2. t.current
      BY <2>2, <2>6, <3>1
    <3> QED BY <2>1, <2>3, <3>1, <3>2 DEF CornersInv
  <2>7. ASSUME NEW u \in timers', NEW v \in timers', u.current, v.current
        PROVE  u = v
    <3>1. PICK t \in timers : u = ticked(t)
      BY <2>1
    <3>2. PICK s \in timers : v = ticked(s)
      BY <2>1
    <3>3. t.current /\ s.current
      BY <2>2, <2>7, <3>1, <3>2
    <3> QED BY <3>1, <3>2, <3>3 DEF CornersInv
  <2> QED BY <2>1, <2>4, <2>5, <2>6, <2>7 DEF CornersInv
<1>9. CASE UNCHANGED cornerVars
  BY <1>9 DEF cornerVars, CornersInv
<1> QED BY <1>1, <1>2, <1>3, <1>4, <1>5, <1>6, <1>7, <1>8, <1>9 DEF HotCornersNext

\* A corner acts at most once per visit and not before the dwell is over,
\* whatever timers of earlier visits still run (hot_corners.rs), for any
\* corners and any dwell.
THEOREM CornersActOnce == HotCornersSpec => []ActsOncePerDwell
<1>1. CornersInv => ActsOncePerDwell
  BY DEF CornersInv, ActsOncePerDwell
<1> QED BY <1>1, CornersInitial, CornersStep, PTL DEF HotCornersSpec

------------------------------------------------------------------------------
(* Decorations.  A client that negotiates over xdg-decoration is about to  *)
(* be told what is in its cell, configured or not.                         *)

\* What the code keeps of one window.
FrameAgreed(c, f) ==
  f.bound = "xdg" =>
    /\ f.cell \in Sides /\ f.pending = f.cell
    /\ f.configured => f.told = f.cell
    /\ ~f.ruled => f.cell = Resolve(c, f)

\* The strengthening of FrameTold.
FramesInv ==
  /\ frame \in [Framed -> Frames]
  /\ deco \in [mode: Modes, ssd: BOOLEAN]
  /\ \A w \in Framed : FrameAgreed(deco, frame[w])

\* The mode is decided for a side.
LEMMA ResolveSide ==
  ASSUME NEW c \in [mode: Modes, ssd: BOOLEAN], NEW f \in Frames
  PROVE  Resolve(c, f) \in Sides
BY DEF Resolve, Preferred, Frames, Sides

\* Whatever was before, a window decided anew agrees.
LEMMA DecidedAgrees ==
  ASSUME NEW c \in [mode: Modes, ssd: BOOLEAN], NEW f \in Frames
  PROVE  Decided(c, f) \in Frames /\ FrameAgreed(c, Decided(c, f))
<1> DEFINE mode == Resolve(c, f)
           g == [f EXCEPT !.cell = mode, !.pending = mode, !.ruled = FALSE]
<1>1. mode \in Sides
  BY ResolveSide
<1>2. /\ g \in Frames /\ g.cell = mode /\ g.pending = mode /\ ~g.ruled
      /\ g.bound = f.bound /\ g.configured = f.configured
      /\ g.rule = f.rule /\ g.hybrid = f.hybrid /\ g.request = f.request
  BY <1>1 DEF Frames
<1>3. Decided(c, f) = IF g.configured THEN Configured(g) ELSE g
  BY <1>2 DEF Decided
<1> HIDE DEF mode, g
<1>4. \/ Decided(c, f) = g /\ ~g.configured
      \/ Decided(c, f) = [g EXCEPT !.told = IF g.bound = "xdg" THEN mode ELSE @]
  BY <1>2, <1>3 DEF Configured
<1>5. /\ Decided(c, f) \in Frames
      /\ LET d == Decided(c, f) IN
         /\ d.bound = f.bound /\ d.cell = mode /\ d.pending = mode
         /\ d.rule = f.rule /\ d.hybrid = f.hybrid /\ d.request = f.request
         /\ d.bound = "xdg" /\ d.configured => d.told = mode
  BY <1>1, <1>2, <1>4 DEF Frames
<1>6. Resolve(c, Decided(c, f)) = mode
  BY <1>5 DEF Resolve, mode
<1> QED BY <1>1, <1>5, <1>6 DEF FrameAgreed

\* The KDE protocol has no say in what an xdg-decoration client is told.
LEMMA AnnouncedAgrees ==
  ASSUME NEW c \in [mode: Modes, ssd: BOOLEAN], NEW f \in Frames, f.bound # "xdg"
  PROVE  Announced(c, f) \in Frames /\ FrameAgreed(c, Announced(c, f))
<1> DEFINE mode == Resolve(c, f)
<1>1. mode \in Sides
  BY ResolveSide
<1>2. Announced(c, f) = [f EXCEPT !.cell = mode, !.told = mode, !.ruled = FALSE]
  BY DEF Announced
<1> HIDE DEF mode
<1> QED BY <1>1, <1>2 DEF Frames, FrameAgreed

LEMMA RefreshedAgree ==
  ASSUME NEW c \in [mode: Modes, ssd: BOOLEAN], NEW fs \in [Framed -> Frames]
  PROVE  /\ Refreshed(c, fs) \in [Framed -> Frames]
         /\ \A w \in Framed : FrameAgreed(c, Refreshed(c, fs)[w])
<1>1. \A w \in Framed : Decided(c, fs[w]) \in Frames /\ FrameAgreed(c, Decided(c, fs[w]))
  BY DecidedAgrees
<1> QED BY <1>1 DEF Refreshed

\* The first commit of a mapping, whatever the rules of the moment say.
LEMMA ConfigureAgrees ==
  ASSUME FramesInv, NEW w \in Framed, ConfigureNew(w)
  PROVE  FramesInv'
<1> DEFINE old == frame[w]
<1>1. PICK rule \in Sides \cup {Unset} :
        LET f == [old EXCEPT !.configured = TRUE, !.rule = rule,
                             !.ruled = @ \/ (rule = Unset /\ old.rule # Unset)]
        IN  frame' = [frame EXCEPT ![w] =
              Configured(IF rule = Unset THEN f ELSE [f EXCEPT !.cell = rule, !.pending = rule, !.ruled = FALSE])]
  BY DEF ConfigureNew
<1> DEFINE f == [old EXCEPT !.configured = TRUE, !.rule = rule,
                            !.ruled = @ \/ (rule = Unset /\ old.rule # Unset)]
           g == IF rule = Unset THEN f ELSE [f EXCEPT !.cell = rule, !.pending = rule, !.ruled = FALSE]
<1>2. old \in Frames /\ FrameAgreed(deco, old) /\ UNCHANGED deco
  BY DEF FramesInv, ConfigureNew
<1>3. g \in Frames
  BY <1>2 DEF Frames
<1>4. g.bound = "xdg" => /\ g.cell \in Sides /\ g.pending = g.cell
                         /\ ~g.ruled => g.cell = Resolve(deco, g)
  <2>1. CASE rule = Unset
    <3>1. /\ g.bound = old.bound /\ g.cell = old.cell /\ g.pending = old.pending
          /\ g.hybrid = old.hybrid /\ g.request = old.request /\ g.rule = Unset
          /\ ~g.ruled => ~old.ruled /\ old.rule = Unset
      BY <1>2, <2>1 DEF Frames
    <3> HIDE DEF g
    <3>2. ~g.ruled => Resolve(deco, g) = Resolve(deco, old)
      BY <3>1 DEF Resolve
    <3> QED BY <1>2, <3>1, <3>2 DEF FrameAgreed
  <2>2. CASE rule # Unset
    <3>1. g.cell = rule /\ g.pending = rule /\ g.rule = rule /\ rule \in Sides
      BY <1>2, <2>2 DEF Frames
    <3> HIDE DEF g
    <3> QED BY <2>2, <3>1 DEF Resolve
  <2> QED BY <2>1, <2>2
<1> HIDE DEF f, g
<1>5. Configured(g) = [g EXCEPT !.told = IF g.bound = "xdg" THEN g.pending ELSE @]
  BY DEF Configured
<1>6. Configured(g) \in Frames /\ FrameAgreed(deco, Configured(g))
  <2>1. /\ Configured(g) \in Frames
        /\ Configured(g).bound = "xdg" => Configured(g).told = g.pending
        /\ \A field \in {"bound", "cell", "pending", "ruled", "rule", "hybrid", "request"} :
             Configured(g)[field] = g[field]
    BY <1>3, <1>5 DEF Frames
  <2>2. Resolve(deco, Configured(g)) = Resolve(deco, g)
    BY <2>1 DEF Resolve
  <2> QED BY <1>4, <2>1, <2>2 DEF FrameAgreed
<1>7. frame' = [frame EXCEPT ![w] = Configured(g)]
  BY <1>1 DEF f, g
<1> QED BY <1>2, <1>6, <1>7 DEF FramesInv

LEMMA FramesInitial == DecorationsInit => FramesInv
<1>1. NewFrame \in Frames /\ NewFrame.bound = "none"
  BY DEF NewFrame, Frames
<1> QED BY <1>1 DEF DecorationsInit, FramesInv, FrameAgreed

LEMMA FramesStep == FramesInv /\ [DecorationsNext]_decorationVars => FramesInv'
<1> SUFFICES ASSUME FramesInv, [DecorationsNext]_decorationVars
             PROVE  FramesInv'
  OBVIOUS
<1> USE DEF FramesInv
\* A client that speaks w's protocol has its mode decided or announced.
<1>0. ASSUME NEW w \in Framed, NEW f \in Frames, UNCHANGED deco,
             \/ frame' = [frame EXCEPT ![w] = Decided(deco, f)]
             \/ frame' = [frame EXCEPT ![w] = Announced(deco, f)] /\ f.bound # "xdg"
      PROVE  FramesInv'
  BY <1>0, DecidedAgrees, AnnouncedAgrees
<1>1. ASSUME NEW w \in Framed, NewDecoration(w)
      PROVE  FramesInv'
  <2>1. PICK protocol \in {"xdg", "kde"} :
          LET f == [frame[w] EXCEPT !.bound = protocol]
          IN  frame' = [frame EXCEPT ![w] = IF protocol = "xdg" THEN Decided(deco, f) ELSE Announced(deco, f)]
    BY <1>1 DEF NewDecoration
  <2> DEFINE f == [frame[w] EXCEPT !.bound = protocol]
  <2>2. f \in Frames /\ f.bound = protocol
    BY DEF Frames
  <2> QED BY <1>0, <1>1, <2>1, <2>2 DEF NewDecoration
<1>2. ASSUME NEW w \in Framed, RequestMode(w)
      PROVE  FramesInv'
  <2>1. PICK request \in Sides \cup {Unset} :
          LET f == [frame[w] EXCEPT !.request = request]
          IN  frame' = [frame EXCEPT ![w] = IF f.bound = "xdg" THEN Decided(deco, f) ELSE Announced(deco, f)]
    BY <1>2 DEF RequestMode
  <2> DEFINE f == [frame[w] EXCEPT !.request = request]
  <2>2. f \in Frames
    BY DEF Frames
  <2> HIDE DEF f
  <2>3. frame' = [frame EXCEPT ![w] = IF f.bound = "xdg" THEN Decided(deco, f) ELSE Announced(deco, f)]
    BY <2>1 DEF f
  <2> QED BY <1>0, <1>2, <2>2, <2>3 DEF RequestMode
<1>3. ASSUME NEW w \in Framed, ConfigureNew(w)
      PROVE  FramesInv'
  BY <1>3, ConfigureAgrees
<1>4. ASSUME NEW w \in Framed, MapFrame(w) \/ UnmapFrame(w)
      PROVE  FramesInv'
  <2>1. PICK f \in {[frame[w] EXCEPT !.mapped = TRUE],
                    [frame[w] EXCEPT !.mapped = FALSE, !.configured = FALSE]} :
          frame' = [frame EXCEPT ![w] = f] /\ UNCHANGED deco
    <3>1. CASE MapFrame(w)
      <4>1. frame' = [frame EXCEPT ![w] = [frame[w] EXCEPT !.mapped = TRUE]]
        BY <3>1 DEF MapFrame
      <4> QED BY <3>1, <4>1 DEF MapFrame
    <3>2. CASE UnmapFrame(w)
      <4>1. frame' = [frame EXCEPT ![w] = [frame[w] EXCEPT !.mapped = FALSE, !.configured = FALSE]]
        BY <3>2 DEF UnmapFrame, Frames
      <4> QED BY <3>2, <4>1 DEF UnmapFrame
    <3> QED BY <1>4, <3>1, <3>2
  <2>2. /\ f \in Frames /\ (f.configured => frame[w].configured)
        /\ f.bound = frame[w].bound /\ f.cell = frame[w].cell /\ f.pending = frame[w].pending
        /\ f.told = frame[w].told /\ f.ruled = frame[w].ruled
        /\ f.rule = frame[w].rule /\ f.hybrid = frame[w].hybrid /\ f.request = frame[w].request
    <3>1. frame[w] \in Frames
      OBVIOUS
    <3>2. CASE f = [frame[w] EXCEPT !.mapped = TRUE]
      BY <3>1, <3>2 DEF Frames
    <3>3. CASE f = [frame[w] EXCEPT !.mapped = FALSE, !.configured = FALSE]
      BY <3>1, <3>3 DEF Frames
    <3> QED BY <2>1, <3>2, <3>3
  <2>3. Resolve(deco, f) = Resolve(deco, frame[w])
    BY <2>2 DEF Resolve
  <2>4. FrameAgreed(deco, f)
    BY <2>2, <2>3 DEF FrameAgreed
  <2> QED BY <2>1, <2>2, <2>4
<1>5. ASSUME NEW w \in Framed, SetHybrid(w)
      PROVE  FramesInv'
  <2>1. [frame EXCEPT ![w].hybrid = ~@] \in [Framed -> Frames]
    <3>1. frame[w] \in Frames /\ (~frame[w].hybrid) \in BOOLEAN
      OBVIOUS
    <3>2. [frame[w] EXCEPT !.hybrid = ~@] \in Frames
      BY <3>1 DEF Frames
    <3> QED BY <3>2
  <2> QED BY <1>5, <2>1, RefreshedAgree DEF SetHybrid
<1>6. CASE ReloadDecorations
  <2>1. deco' \in [mode: Modes, ssd: BOOLEAN]
    BY <1>6 DEF ReloadDecorations
  <2> QED BY <1>6, <2>1, RefreshedAgree DEF ReloadDecorations
<1>7. CASE UNCHANGED decorationVars
  BY <1>7 DEF decorationVars
<1> QED BY <1>1, <1>2, <1>3, <1>4, <1>5, <1>6, <1>7 DEF DecorationsNext

LEMMA AgreedIsTold == FramesInv => FrameTold
BY DEF FramesInv, FrameAgreed, FrameTold, ServerDecorated, Sides, Unset

\* Painting and a client that negotiates over xdg-decoration agree on who draws
\* the frame, after any negotiation, rule, remapping or reload (state.rs), for
\* any windows.
THEOREM FramesAreTold == DecorationsSpec => []FrameTold
BY FramesInitial, FramesStep, AgreedIsTold, PTL DEF DecorationsSpec

------------------------------------------------------------------------------
(* The parts of a frame.  Its geometry depends on nothing but the theme,   *)
(* the size of the client and whether the window is tiled.                 *)

PartsInv == theme \in Themes /\ client \in ClientSizes /\ tiled \in BOOLEAN

LEMMA PartsInitial == FramePartsInit => PartsInv
BY DEF FramePartsInit, PartsInv

LEMMA PartsStep == PartsInv /\ [FramePartsNext]_partsVars => PartsInv'
<1> SUFFICES ASSUME PartsInv, [FramePartsNext]_partsVars
             PROVE  PartsInv'
  OBVIOUS
<1>1. CASE Retheme
  BY <1>1 DEF Retheme, PartsInv
<1>2. CASE CommitSize
  BY <1>2 DEF CommitSize, PartsInv
<1>3. CASE ChangeWindowLayout
  BY <1>3, Zenon DEF ChangeWindowLayout, PartsInv
<1>4. CASE UNCHANGED partsVars
  BY <1>4 DEF partsVars, PartsInv
<1> QED BY <1>1, <1>2, <1>3, <1>4 DEF FramePartsNext

\* Products of naturals keep their order.
LEMMA TimesMonotone ==
  ASSUME NEW a \in Int, NEW b \in Int, NEW c \in Nat, a <= b
  PROVE  a * c <= b * c
<1>1. (b - a) * c >= 0
  OBVIOUS
<1>2. (b - a) * c = b * c - a * c
  OBVIOUS
<1> QED BY <1>1, <1>2

\* Where the i-th square of a row starts, from its left end.
RowStart(i, s) == (i - 1) * (s + theme.gap)
RowLength(s) == theme.count * s + (theme.count - 1) * theme.gap

LEMMA ThemeTypes ==
  ASSUME PartsInv
  PROVE  /\ theme.bar \in Nat /\ theme.border \in 0..Margin - 1 /\ theme.button \in Nat
         /\ theme.gap \in Nat /\ theme.edge \in Nat /\ theme.count \in Nat /\ theme.drag \in Nat
         /\ theme.left \in BOOLEAN /\ theme.icon \in BOOLEAN /\ theme.centered \in BOOLEAN
         /\ client.w \in Nat /\ client.h \in Nat
         /\ Bar \in Nat /\ ButtonSize \in 0..Bar /\ IconSize \in Nat /\ LeftAnchor \in Nat
         /\ Margin \in Nat /\ Reach \in Nat /\ IconPadding \in Nat /\ TitlePadding \in Nat
<1>1. /\ theme \in [bar: Nat, border: 0..Margin - 1, button: Nat, gap: Nat, edge: Nat, count: Nat,
                    drag: Nat, left: BOOLEAN, icon: BOOLEAN, centered: BOOLEAN]
      /\ client \in [w: Nat, h: Nat]
      /\ Margin \in Nat /\ Reach \in Nat /\ IconPadding \in Nat /\ TitlePadding \in Nat
  BY FramePartsAssumption DEF PartsInv
<1>2. Bar \in Nat
  BY <1>1 DEF Bar
<1>3. ButtonSize \in 0..Bar
  BY <1>1, <1>2 DEF ButtonSize, Lower
<1>4. IconSize \in Nat
  BY <1>1, <1>2 DEF IconSize, AtLeast0
<1>5. LeftAnchor \in Nat
  BY <1>1, <1>4 DEF LeftAnchor, Upper
<1> QED BY <1>1, <1>2, <1>3, <1>4, <1>5

\* The squares of a row follow one another and fill no more than the row.
LEMMA RowFits ==
  ASSUME PartsInv, NEW s \in Nat, NEW i \in 1..theme.count
  PROVE  /\ RowStart(i, s) \in Nat /\ RowLength(s) \in Nat
         /\ RowStart(i, s) + s <= RowLength(s)
         /\ FromRight(i, theme.count, s, client.w)
              = client.w - theme.edge - RowLength(s) + RowStart(i, s)
         /\ \A j \in 1..theme.count : i < j => RowStart(i, s) + s <= RowStart(j, s)
<1> DEFINE n == theme.count
           g == theme.gap
<1>1. n \in Nat /\ g \in Nat /\ theme.edge \in Nat /\ client.w \in Nat /\ i \in 1..n
  BY ThemeTypes
<1> HIDE DEF n, g
<1>2. (i - 1) * (s + g) = i * s - s + i * g - g /\ i * s \in Int /\ i * g \in Int
  BY <1>1
<1>3. i * s <= n * s /\ i * g <= n * g
  BY <1>1, TimesMonotone
<1>4. 1 * s <= i * s /\ 1 * g <= i * g
  BY <1>1, TimesMonotone
<1>5. (n - 1) * g = n * g - g /\ n * s \in Int /\ n * g \in Int
  BY <1>1
<1>6. (n - i + 1) * s = n * s - i * s + s /\ (n - i) * g = n * g - i * g
  BY <1>1
<1>7. ASSUME NEW j \in 1..n, i < j
      PROVE  (i - 1) * (s + g) + s <= (j - 1) * (s + g)
  <2>1. (i + 1 - 1) * (s + g) <= (j - 1) * (s + g)
    BY <1>1, <1>7, TimesMonotone
  <2>2. (i + 1 - 1) * (s + g) = (i - 1) * (s + g) + s + g
    BY <1>1
  <2>3. (i - 1) * (s + g) \in Int /\ (j - 1) * (s + g) \in Int
    BY <1>1, <1>7
  <2> QED BY <1>1, <2>1, <2>2, <2>3
<1>8. /\ RowStart(i, s) = i * s - s + i * g - g
      /\ RowLength(s) = n * s + n * g - g
  BY <1>2, <1>5 DEF RowStart, RowLength, n, g
<1>9. FromRight(i, n, s, client.w) = client.w - theme.edge - (n * s - i * s + s) - (n * g - i * g)
  BY <1>6 DEF FromRight, g
<1>10. RowStart(i, s) \in Nat /\ RowLength(s) \in Nat /\ RowStart(i, s) + s <= RowLength(s)
  BY <1>1, <1>2, <1>3, <1>4, <1>5, <1>8
<1>11. FromRight(i, n, s, client.w) = client.w - theme.edge - RowLength(s) + RowStart(i, s)
  BY <1>1, <1>2, <1>5, <1>8, <1>9
<1> QED BY <1>7, <1>10, <1>11 DEF RowStart, n, g

LEMMA ButtonPlaces ==
  ASSUME PartsInv, NEW i \in 1..theme.count
  PROVE  /\ Button(i).x = (IF theme.left THEN LeftAnchor ELSE client.w - ButtonsWidth) + RowStart(i, ButtonSize)
         /\ Button(i).w = ButtonSize /\ Button(i).h = ButtonSize
         /\ Button(i).y >= -Bar /\ Button(i).y + ButtonSize <= 0
         /\ Button(i).y \in Int
         /\ ButtonsWidth = RowLength(ButtonSize) + theme.edge
         /\ RowStart(i, ButtonSize) \in Nat /\ RowLength(ButtonSize) \in Nat
         /\ RowStart(i, ButtonSize) + ButtonSize <= RowLength(ButtonSize)
         /\ \A j \in 1..theme.count :
              i < j => RowStart(i, ButtonSize) + ButtonSize <= RowStart(j, ButtonSize)
<1>1. /\ Bar \in Nat /\ ButtonSize \in 0..Bar /\ theme.count \in Nat /\ theme.edge \in Nat
      /\ LeftAnchor \in Nat /\ client.w \in Nat
  BY ThemeTypes
<1>2. ButtonSize \in Nat
  BY <1>1
<1>3. /\ RowStart(i, ButtonSize) \in Nat /\ RowLength(ButtonSize) \in Nat
      /\ RowStart(i, ButtonSize) + ButtonSize <= RowLength(ButtonSize)
      /\ FromRight(i, theme.count, ButtonSize, client.w)
           = client.w - theme.edge - RowLength(ButtonSize) + RowStart(i, ButtonSize)
      /\ \A j \in 1..theme.count :
           i < j => RowStart(i, ButtonSize) + ButtonSize <= RowStart(j, ButtonSize)
  BY <1>2, RowFits
<1>4. ButtonsWidth = RowLength(ButtonSize) + theme.edge
  BY <1>1 DEF ButtonsWidth, RowLength
<1>5. /\ Button(i).w = ButtonSize /\ Button(i).h = ButtonSize
      /\ Button(i).x = IF theme.left THEN LeftAnchor + RowStart(i, ButtonSize)
                       ELSE FromRight(i, theme.count, ButtonSize, client.w)
      /\ Button(i).y = (Bar - ButtonSize) \div 2 - Bar
  BY DEF Button, RowStart
<1>6. (Bar - ButtonSize) \div 2 \in 0..Bar - ButtonSize
  BY <1>1
<1>7. Button(i).y >= -Bar /\ Button(i).y + ButtonSize <= 0 /\ Button(i).y \in Int
  BY <1>1, <1>5, <1>6
<1> QED BY <1>1, <1>3, <1>4, <1>5, <1>7

\* However narrow the window, the parts of its frame are apart.
LEMMA PartsAreApart == PartsInv => PartsApart
<1> SUFFICES ASSUME PartsInv
             PROVE  PartsApart
  OBVIOUS
<1>1. /\ Bar \in Nat /\ ButtonSize \in 0..Bar /\ theme.count \in Nat /\ theme.edge \in Nat
      /\ theme.gap \in Nat /\ theme.button \in Nat
      /\ theme.left \in BOOLEAN /\ theme.centered \in BOOLEAN /\ tiled \in BOOLEAN
      /\ LeftAnchor \in Nat /\ client.w \in Nat /\ client.h \in Nat
      /\ IconSize \in Nat /\ IconPadding \in Nat /\ TitlePadding \in Nat
  BY ThemeTypes DEF PartsInv
<1>2. ButtonsWidth \in Nat
  <2>1. CASE theme.count = 0
    BY <2>1 DEF ButtonsWidth
  <2>2. CASE theme.count # 0
    BY <1>1, <2>2, ButtonPlaces
  <2> QED BY <2>1, <2>2
\* The title keeps between its bounds, unless it is empty.
<1>3. Title.w > 0 => Title.x >= TitleLeft /\ Title.x + Title.w <= TitleRight
  <2>1. TitleLeft \in Int /\ TitleRight \in Int
    BY <1>1, <1>2 DEF TitleLeft, TitleRight
  <2>2. CASE theme.centered
    <3>1. Center \in Int
      BY <1>1 DEF Center
    <3>2. /\ TitleHalf \in Nat
          /\ TitleHalf > 0 => TitleHalf <= Center - TitleLeft /\ TitleHalf <= TitleRight - Center
      BY <2>1, <3>1 DEF TitleHalf, AtLeast0, Lower
    <3>3. Title.x = Center - TitleHalf /\ Title.w = 2 * TitleHalf
      BY <2>2 DEF Title
    <3> QED BY <2>1, <3>1, <3>2, <3>3
  <2>3. CASE ~theme.centered
    BY <2>1, <2>3 DEF Title, AtLeast0
  <2> QED BY <1>1, <2>2, <2>3
<1>4. Title.x \in Int /\ Title.w \in Int
  <2>1. TitleLeft \in Int /\ TitleRight \in Int /\ Center \in Int
    BY <1>1, <1>2 DEF TitleLeft, TitleRight, Center
  <2>2. TitleHalf \in Nat
    BY <2>1 DEF TitleHalf, AtLeast0, Lower
  <2> QED BY <1>1, <2>1, <2>2 DEF Title, AtLeast0
<1>5. Icon.w > 0 => Icon.x + Icon.w <= LeftAnchor
  <2>1. CASE HasIcon /\ ~tiled
    <3>1. Icon.x + Icon.w <= IconSize + 2 * IconPadding
      BY <1>1, <2>1 DEF Icon
    <3>2. LeftAnchor >= IconSize + 2 * IconPadding
      BY <1>1, <2>1 DEF LeftAnchor, Upper
    <3>3. Icon.x + Icon.w \in Int
      BY <1>1, <2>1 DEF Icon
    <3> QED BY <1>1, <3>1, <3>2, <3>3
  <2>2. CASE ~(HasIcon /\ ~tiled)
    BY <2>2 DEF Icon, Nowhere
  <2> QED BY <2>1, <2>2
<1>6. Icon.x \in Int /\ Icon.w \in Int
  BY <1>1 DEF Icon, Nowhere
<1>7. TitleLeft >= LeftAnchor /\ TitleLeft \in Int
  BY <1>1, <1>2 DEF TitleLeft
<1>8. ~Overlap(Title, Icon)
  BY <1>1, <1>3, <1>4, <1>5, <1>6, <1>7 DEF Overlap
<1>9. ASSUME NEW i \in 1..theme.count
      PROVE  /\ ~Overlap(Title, Button(i))
             /\ client.w >= LeftAnchor + ButtonsWidth =>
                  ~Overlap(Icon, Button(i)) /\ (tiled \/ Within(Button(i), Titlebar))
  <2> DEFINE start == RowStart(i, ButtonSize)
  <2>1. /\ Button(i).x = (IF theme.left THEN LeftAnchor ELSE client.w - ButtonsWidth) + start
        /\ Button(i).w = ButtonSize /\ start \in Nat
        /\ start + ButtonSize <= ButtonsWidth - theme.edge
        /\ Button(i).h = ButtonSize /\ Button(i).y >= -Bar /\ Button(i).y + ButtonSize <= 0
        /\ Button(i).y \in Int
    BY <1>1, <1>9, ButtonPlaces
  <2> HIDE DEF start
  <2>2. ~Overlap(Title, Button(i))
    <3>1. CASE theme.left
      <4>1. Button(i).x + Button(i).w <= TitleLeft
        BY <1>1, <1>2, <2>1, <3>1 DEF TitleLeft
      <4>2. Button(i).x \in Int /\ Button(i).w \in Int
        BY <1>1, <2>1, <3>1
      <4> QED BY <1>3, <1>4, <1>7, <4>1, <4>2 DEF Overlap
    <3>2. CASE ~theme.left
      <4>1. Button(i).x >= TitleRight /\ TitleRight \in Int
        BY <1>1, <1>2, <2>1, <3>2 DEF TitleRight
      <4>2. Button(i).x \in Int
        BY <1>1, <1>2, <2>1, <3>2
      <4> QED BY <1>3, <1>4, <4>1, <4>2 DEF Overlap
    <3> QED BY <3>1, <3>2
  <2>3. ASSUME client.w >= LeftAnchor + ButtonsWidth
        PROVE  Button(i).x >= LeftAnchor /\ Button(i).x \in Int
               /\ Button(i).x + ButtonSize <= client.w
    BY <1>1, <1>2, <2>1, <2>3
  <2>4. ASSUME client.w >= LeftAnchor + ButtonsWidth
        PROVE  ~Overlap(Icon, Button(i))
    BY <1>1, <1>5, <1>6, <2>3, <2>4 DEF Overlap
  <2>5. ASSUME client.w >= LeftAnchor + ButtonsWidth
        PROVE  Within(Button(i), Titlebar)
    <3>1. Titlebar.x = 0 /\ Titlebar.y = -Bar /\ Titlebar.w = client.w /\ Titlebar.h = Bar
      BY DEF Titlebar
    <3> QED BY <1>1, <2>1, <2>3, <2>5, <3>1 DEF Within
  <2> QED BY <2>2, <2>4, <2>5
<1>10. ASSUME NEW i \in 1..theme.count, NEW j \in 1..theme.count, i < j
       PROVE  /\ ~Overlap(Button(i), Button(j)) /\ ~Overlap(Button(j), Button(i))
              /\ ~Overlap(OverlayButton(i), OverlayButton(j))
              /\ ~Overlap(OverlayButton(j), OverlayButton(i))
  <2>1. Button(i).x + Button(i).w <= Button(j).x /\ Button(i).x \in Int /\ Button(i).w \in Int /\ Button(j).x \in Int
    BY <1>1, <1>2, <1>10, ButtonPlaces
  <2> DEFINE size == Lower(theme.button, client.h)
  <2>2. size \in Nat
    BY <1>1 DEF Lower
  <2>3. /\ OverlayButton(i).x = FromRight(i, theme.count, size, client.w) /\ OverlayButton(i).w = size
        /\ OverlayButton(j).x = FromRight(j, theme.count, size, client.w)
    BY DEF OverlayButton
  <2> HIDE DEF size
  <2>4. /\ OverlayButton(i).x + OverlayButton(i).w <= OverlayButton(j).x
        /\ OverlayButton(i).x \in Int /\ OverlayButton(i).w \in Int /\ OverlayButton(j).x \in Int
    <3>1. /\ RowStart(i, size) \in Nat /\ RowLength(size) \in Nat
          /\ FromRight(i, theme.count, size, client.w)
               = client.w - theme.edge - RowLength(size) + RowStart(i, size)
          /\ RowStart(i, size) + size <= RowStart(j, size)
      BY <1>10, <2>2, RowFits
    <3>2. /\ RowStart(j, size) \in Nat
          /\ FromRight(j, theme.count, size, client.w)
               = client.w - theme.edge - RowLength(size) + RowStart(j, size)
      BY <1>10, <2>2, RowFits
    <3> QED BY <1>1, <2>2, <2>3, <3>1, <3>2
  <2>5. ASSUME NEW a, NEW b, a.x \in Int, a.w \in Int, b.x \in Int, a.x + a.w <= b.x
        PROVE  ~Overlap(a, b) /\ ~Overlap(b, a)
    BY <2>5 DEF Overlap
  <2>6. ~Overlap(Button(i), Button(j)) /\ ~Overlap(Button(j), Button(i))
    BY <2>1, <2>5
  <2>7. ~Overlap(OverlayButton(i), OverlayButton(j)) /\ ~Overlap(OverlayButton(j), OverlayButton(i))
    BY <2>4, <2>5
  <2> QED BY <2>6, <2>7
<1>11. \A i \in 1..theme.count : \A j \in 1..theme.count \ {i} :
          ~Overlap(Button(i), Button(j)) /\ ~Overlap(OverlayButton(i), OverlayButton(j))
  <2> TAKE i \in 1..theme.count
  <2> TAKE j \in 1..theme.count \ {i}
  <2>1. i < j \/ j < i
    BY <1>1
  <2> QED BY <1>10, <2>1
<1> QED BY <1>8, <1>9, <1>11 DEF PartsApart

\* A point is in one button at most.
LEMMA OneButton ==
  ASSUME PartsInv, NEW i \in 1..theme.count, NEW j \in 1..theme.count, NEW p, p.x \in Int,
         ContainsPoint(Button(i), p), ContainsPoint(Button(j), p)
  PROVE  i = j
<1>1. /\ ButtonSize \in Nat /\ theme.count \in Nat /\ theme.edge \in Nat /\ theme.left \in BOOLEAN
      /\ LeftAnchor \in Nat /\ client.w \in Nat
  BY ThemeTypes
<1>2. ASSUME NEW a \in 1..theme.count, NEW b \in 1..theme.count, a < b,
             ContainsPoint(Button(a), p), ContainsPoint(Button(b), p)
      PROVE  FALSE
  <2>1. Button(a).x + Button(a).w <= Button(b).x /\ Button(a).x \in Int /\ Button(a).w \in Int /\ Button(b).x \in Int
    BY <1>1, <1>2, ButtonPlaces
  <2> QED BY <1>2, <2>1 DEF ContainsPoint
<1> QED BY <1>1, <1>2

\* A point of the frame outside the titlebar and the client is near an edge.
LEMMA BorderIsNear ==
  ASSUME PartsInv, NEW x \in Int, NEW y \in Int,
         ContainsPoint(WholeFrame, [x |-> x, y |-> y]),
         tiled \/ ~ContainsPoint(Titlebar, [x |-> x, y |-> y]),
         ~ContainsPoint(ClientArea, [x |-> x, y |-> y])
  PROVE  Near([x |-> x, y |-> y]) # {}
<1> DEFINE p == [x |-> x, y |-> y]
           f == WholeFrame
<1>1. /\ Bar \in Nat /\ theme.border \in 0..Margin - 1 /\ Margin \in Nat /\ Reach \in Nat
      /\ client.w \in Nat /\ client.h \in Nat
  BY ThemeTypes
<1>2. /\ f.x = -theme.border /\ f.y = -Bar - theme.border
      /\ f.w = client.w + 2 * theme.border /\ f.h = client.h + Bar + 2 * theme.border
  BY DEF WholeFrame
<1>3. /\ x >= f.x /\ y >= f.y /\ x < f.x + f.w /\ y < f.y + f.h
  BY DEF ContainsPoint
<1>4. ContainsPoint([x |-> f.x - Reach, y |-> f.y - Reach, w |-> f.w + 2 * Reach + 1, h |-> f.h + 2 * Reach + 1], p)
  BY <1>1, <1>2, <1>3 DEF ContainsPoint
<1> HIDE DEF f
<1>5. Near(p) = {e \in {"top", "bottom", "left", "right"} :
                   CASE e = "top" -> y < f.y + Margin
                     [] e = "bottom" -> y > f.y + f.h - Margin
                     [] e = "left" -> x < f.x + Margin
                     [] e = "right" -> x > f.x + f.w - Margin}
  BY <1>4 DEF Near, f
<1>6. x < 0 \/ x >= client.w \/ y < -Bar \/ y >= client.h
  <2>1. CASE tiled
    <3>1. Bar = 0
      BY <2>1 DEF Bar
    <3> QED BY <1>1, <3>1 DEF ClientArea, ContainsPoint
  <2>2. CASE ~tiled
    BY <1>1, <2>2 DEF ClientArea, Titlebar, ContainsPoint
  <2> QED BY <2>1, <2>2
<1>7. CASE x < 0
  <2>1. x < f.x + Margin
    BY <1>1, <1>2, <1>7
  <2>2. "left" \in Near(p)
    BY <1>5, <2>1
  <2> QED BY <2>2
<1>8. CASE x >= client.w
  <2>1. x > f.x + f.w - Margin
    BY <1>1, <1>2, <1>8
  <2>2. "right" \in Near(p)
    BY <1>5, <2>1
  <2> QED BY <2>2
<1>9. CASE y < -Bar
  <2>1. y < f.y + Margin
    BY <1>1, <1>2, <1>9
  <2>2. "top" \in Near(p)
    BY <1>5, <2>1
  <2> QED BY <2>2
<1>10. CASE y >= client.h
  <2>1. y > f.y + f.h - Margin
    BY <1>1, <1>2, <1>10
  <2>2. "bottom" \in Near(p)
    BY <1>5, <2>1
  <2> QED BY <2>2
<1> QED BY <1>6, <1>7, <1>8, <1>9, <1>10

\* Each point of the frame is a corner, one button, the titlebar, the client or
\* an edge, unless it is in a margin of the titlebar.
LEMMA PointsAnswer == PartsInv => EveryPointAnswers
<1> SUFFICES ASSUME PartsInv,
                    NEW x \in WholeFrame.x .. WholeFrame.x + WholeFrame.w - 1,
                    NEW y \in WholeFrame.y .. WholeFrame.y + WholeFrame.h - 1
             PROVE  LET p == [x |-> x, y |-> y]
                        part == HitTestFrame(p)
                    IN  /\ part = <<"none">> => ContainsPoint(Titlebar, p) /\ ~ContainsPoint(DragRegion, p)
                        /\ part[1] = "button" => Cardinality(part[2]) = 1
  BY DEF EveryPointAnswers
<1> DEFINE p == [x |-> x, y |-> y]
           part == HitTestFrame(p)
           buttons == {i \in 1..theme.count : ContainsPoint(Button(i), p)}
<1>1. WholeFrame.x \in Int /\ WholeFrame.y \in Int /\ WholeFrame.w \in Int /\ WholeFrame.h \in Int
  <2>1. Bar \in Nat /\ theme.border \in Int /\ client.w \in Nat /\ client.h \in Nat
    BY ThemeTypes
  <2> QED BY <2>1 DEF WholeFrame
<1>2. x \in Int /\ y \in Int /\ ContainsPoint(WholeFrame, p)
  BY <1>1 DEF ContainsPoint
<1>3. part = <<"none">> => ContainsPoint(Titlebar, p) /\ ~ContainsPoint(DragRegion, p)
  <2>1. CASE ~tiled /\ ContainsPoint(Titlebar, p)
    BY <2>1 DEF HitTestFrame
  <2>2. CASE tiled \/ ~ContainsPoint(Titlebar, p)
    <3>1. CASE ContainsPoint(ClientArea, p)
      BY <2>2, <3>1 DEF HitTestFrame
    <3>2. CASE ~ContainsPoint(ClientArea, p)
      <4>1. Near(p) # {}
        BY <1>2, <2>2, <3>2, BorderIsNear
      <4> QED BY <2>2, <4>1 DEF HitTestFrame
    <3> QED BY <3>1, <3>2
  <2> QED BY <2>1, <2>2
<1>4. part[1] = "button" => Cardinality(part[2]) = 1
  <2> SUFFICES ASSUME part[1] = "button"
               PROVE  Cardinality(part[2]) = 1
    OBVIOUS
  <2>1. part[2] = buttons /\ buttons # {}
    BY DEF HitTestFrame
  <2>2. PICK i \in 1..theme.count : i \in buttons
    BY <2>1
  <2>3. \A j \in buttons : j = i
    BY <1>2, <2>2, OneButton
  <2>4. buttons = {i}
    BY <2>2, <2>3
  <2>5. Cardinality({i}) = 1
    BY FS_Singleton
  <2> QED BY <2>1, <2>4, <2>5
<1> QED BY <1>3, <1>4

\* The parts of a frame are apart and each of its points belongs to one of them
\* (decorations/), for any theme and any size of the window.
THEOREM FramesAreSound == FramePartsSpec => []FrameSound
<1>1. PartsInv => FrameSound
  BY PartsAreApart, PointsAnswer DEF FrameSound
<1> QED BY <1>1, PartsInitial, PartsStep, PTL DEF FramePartsSpec

------------------------------------------------------------------------------
(* The modes of a window.                                                  *)

Place == [loc : Int, size : Int]
Anchor == [left : BOOLEAN, initial : Place, active : BOOLEAN]
View == [inSpace : BOOLEAN, loc : Int, size : Int, asked : Int, maximized : BOOLEAN,
         fullscreen : BOOLEAN, minimized : Int, restore : Place, resize : Anchor,
         before : Place, off : BOOLEAN, slid : BOOLEAN]

\* What is remembered is the place before the first mode.
Remembered(v) ==
  /\ ~Moded(v) => v.restore = None
  /\ Moded(v) /\ v.before # None => v.restore = v.before

\* A window in a mode is where the mode puts it; one that is minimized will be.
At(v) == IF v.minimized = NotMinimized THEN v.loc ELSE v.minimized
InItsMode(v, out) ==
  Moded(v) /\ ~v.off =>
    /\ v.minimized # NotMinimized => ~v.inSpace
    /\ v.fullscreen => At(v) = 0 /\ v.asked = out
    /\ v.maximized /\ ~v.fullscreen => At(v) = Inset /\ v.asked = Larger(out - Frame, 1)

\* The edge that is not dragged has not moved, unless the window was put elsewhere.
EdgeKept(v) ==
  /\ v.resize.active
  /\ v.inSpace /\ ~v.slid =>
       IF v.resize.left THEN v.loc + v.size = v.resize.initial.loc + v.resize.initial.size
                        ELSE v.loc = v.resize.initial.loc

\* The strengthening of Placed, OppositeEdgeStays and RestoredStep.
ModesInv ==
  /\ output \in Nat
  /\ view \in View
  /\ Remembered(view)
  /\ InItsMode(view, output)
  /\ pointerGrab = "resize" => EdgeKept(view)

\* What a step has to keep of a window, of the output and the grab after it.
Kept(v, out, grab) ==
  v \in View /\ Remembered(v) /\ InItsMode(v, out) /\ (grab = "resize" => EdgeKept(v))

\* What being moved and being configured as well leave of a window.
Moved(v, u, loc) ==
  /\ u \in View /\ u.inSpace /\ u.loc = loc /\ u.slid = v.resize.active
  /\ u.size = v.size /\ u.minimized = v.minimized /\ u.maximized = v.maximized
  /\ u.fullscreen = v.fullscreen /\ u.restore = v.restore /\ u.before = v.before
  /\ u.resize = v.resize

LEMMA PlaceFacts ==
  ASSUME NEW v \in View, NEW size \in Int, NEW loc \in Int
  PROVE  /\ Moved(v, MoveWindow(v, loc), loc)
         /\ MoveWindow(v, loc).asked = v.asked /\ MoveWindow(v, loc).off = v.off
         /\ Moved(v, ConfigureAndPlace(v, size, loc), loc)
         /\ ConfigureAndPlace(v, size, loc).asked = size
         /\ ConfigureAndPlace(v, size, loc).off = v.off
<1>1. v.resize.active \in BOOLEAN
  BY DEF View, Anchor
<1>2. MoveWindow(v, loc) = [v EXCEPT !.inSpace = TRUE, !.loc = loc, !.slid = v.resize.active]
  BY DEF MoveWindow
<1>3. Moved(v, MoveWindow(v, loc), loc) /\ MoveWindow(v, loc).asked = v.asked /\ MoveWindow(v, loc).off = v.off
  BY <1>1, <1>2 DEF View, Moved
<1>4. ConfigureAndPlace(v, size, loc) = [MoveWindow(v, loc) EXCEPT !.asked = size]
  BY DEF ConfigureAndPlace
<1> QED BY <1>3, <1>4 DEF View, Moved

\* Placing a window by its mode keeps everything, dragged or not.
LEMMA ModePlaced ==
  ASSUME NEW v \in View, NEW out \in Nat, NEW grab, Remembered(v),
         grab = "resize" => v.resize.active,
         NEW u,
         \/ u = ApplyFullscreen(v, out) /\ v.fullscreen
         \/ u = ApplyMaximized(v, out) /\ v.maximized /\ ~v.fullscreen
  PROVE  Kept(u, out, grab)
<1> USE WindowModesAssumption
<1> DEFINE size == IF v.fullscreen THEN out ELSE Larger(out - Frame, 1)
           loc == IF v.fullscreen THEN 0 ELSE Inset
           w == ConfigureAndPlace(v, size, loc)
<1>1. /\ size \in Int /\ loc \in Int
      /\ v.fullscreen => loc = 0 /\ size = out
      /\ ~v.fullscreen => v.maximized /\ loc = Inset /\ size = Larger(out - Frame, 1)
  <2>1. Larger(out - Frame, 1) \in Int
    BY DEF Larger
  <2> QED BY <2>1
<1>2. u = [w EXCEPT !.off = v.minimized # NotMinimized]
  <2>1. CASE v.fullscreen
    BY <2>1 DEF ApplyFullscreen, ModePlace
  <2>2. CASE ~v.fullscreen
    BY <2>2 DEF ApplyMaximized, ModePlace
  <2> QED BY <2>1, <2>2
<1> HIDE DEF size, loc, w
<1>3. Moved(v, u, loc) /\ u.asked = size /\ u.off = (v.minimized # NotMinimized)
  <2>1. Moved(v, w, loc) /\ w.asked = size
    BY <1>1, PlaceFacts DEF w
  <2>2. (v.minimized # NotMinimized) \in BOOLEAN
    OBVIOUS
  <2> QED BY <1>2, <2>1, <2>2 DEF Moved, View
<1> USE DEF Moved
<1>4. Remembered(u)
  BY <1>3 DEF Remembered, Moded
<1>5. InItsMode(u, out)
  BY <1>1, <1>3 DEF InItsMode, At
<1>6. grab = "resize" => EdgeKept(u)
  BY <1>3 DEF EdgeKept
<1> QED BY <1>3, <1>4, <1>5, <1>6 DEF Kept

\* Leaving the last mode puts a window where it is remembered to have been.
LEMMA RestorePlaces ==
  ASSUME NEW v \in View, NEW out, NEW grab, ~Moded(v), grab = "resize" => EdgeKept(v)
  PROVE  /\ Kept(Restore(v), out, grab) /\ ~Moded(Restore(v))
         /\ Restore(v).resize = v.resize
         /\ v.restore # None => Restore(v).asked = v.restore.size /\ Restore(v).loc = v.restore.loc
<1> DEFINE w == [v EXCEPT !.before = None, !.off = FALSE]
<1>1. /\ w \in View /\ ~w.maximized /\ ~w.fullscreen /\ w.before = None /\ ~w.off
      /\ w.restore = v.restore /\ w.resize = v.resize
      /\ w.inSpace = v.inSpace /\ w.slid = v.slid /\ w.loc = v.loc /\ w.size = v.size
  <2>1. None \in Place
    BY DEF None, Place
  <2>2. ~v.maximized /\ ~v.fullscreen
    BY DEF Moded
  <2> QED BY <2>1, <2>2 DEF View
<1>2. CASE v.restore = None
  <2>1. Restore(v) = [w EXCEPT !.asked = 0]
    BY <1>2 DEF Restore
  <2> HIDE DEF w
  <2>2. /\ Restore(v) \in View /\ ~Restore(v).maximized /\ ~Restore(v).fullscreen
        /\ Restore(v).restore = None /\ Restore(v).resize = v.resize
        /\ Restore(v).inSpace = v.inSpace /\ Restore(v).slid = v.slid
        /\ Restore(v).loc = v.loc /\ Restore(v).size = v.size
    BY <1>1, <1>2, <2>1 DEF View
  <2> QED BY <1>2, <2>2 DEF Kept, Remembered, InItsMode, EdgeKept, Moded
<1>3. CASE v.restore # None
  <2> DEFINE p == ConfigureAndPlace(w, v.restore.size, v.restore.loc)
  <2>1. Restore(v) = [p EXCEPT !.restore = None]
    BY <1>3 DEF Restore
  <2>2. v.restore.size \in Int /\ v.restore.loc \in Int
    BY DEF View, Place
  <2>3. Moved(w, p, v.restore.loc) /\ p.asked = v.restore.size
    BY <1>1, <2>2, PlaceFacts
  <2> HIDE DEF w, p
  <2>4. None \in Place
    BY DEF None, Place
  <2>5. /\ Restore(v) \in View /\ ~Restore(v).maximized /\ ~Restore(v).fullscreen
        /\ Restore(v).restore = None /\ Restore(v).resize = v.resize
        /\ Restore(v).slid = v.resize.active
        /\ Restore(v).loc = v.restore.loc /\ Restore(v).asked = v.restore.size
    BY <1>1, <2>1, <2>3, <2>4 DEF View, Moved
  <2>6. grab = "resize" => EdgeKept(Restore(v))
    BY <2>5 DEF EdgeKept
  <2> QED BY <2>5, <2>6 DEF Kept, Remembered, InItsMode, Moded
<1> QED BY <1>2, <1>3

\* What entering a mode remembers, which is nothing new when it is the second.
LEMMA RememberFacts ==
  ASSUME NEW v \in View, Remembered(v)
  PROVE  LET r == Remember(v) IN
         /\ r \in View /\ r.resize = v.resize
         /\ r.maximized = v.maximized /\ r.fullscreen = v.fullscreen
         /\ r.before # None => r.restore = r.before
<1> DEFINE place == ElementGeometry(v)
           restore == IF v.restore = None THEN place ELSE v.restore
           before == IF Moded(v) THEN v.before ELSE place
<1>1. place \in Place /\ v.restore \in Place /\ v.before \in Place
  BY DEF ElementGeometry, View, Place, None
<1>2. Remember(v) = [v EXCEPT !.restore = restore, !.before = before]
  BY DEF Remember
<1>3. restore \in Place /\ before \in Place
  BY <1>1
<1>4. before # None => restore = before
  BY DEF Remembered
<1> HIDE DEF restore, before
<1> QED BY <1>2, <1>3, <1>4 DEF View

\* Entering or leaving the maximized mode.
LEMMA MaximizedKept ==
  ASSUME ModesInv, NEW maximized \in BOOLEAN, ~view.fullscreen
  PROVE  /\ Kept(SetMaximized(view, maximized), output, pointerGrab)
         /\ Moded(view) /\ ~Moded(SetMaximized(view, maximized)) /\ view.before # None =>
              /\ SetMaximized(view, maximized).asked = view.before.size
              /\ SetMaximized(view, maximized).loc = view.before.loc
<1>1. view \in View /\ Remembered(view) /\ output \in Nat
  BY DEF ModesInv
<1>2. CASE maximized
  <2> DEFINE r == Remember(view)
             w == [r EXCEPT !.maximized = TRUE]
  <2>1. /\ r \in View /\ r.resize = view.resize /\ r.fullscreen = view.fullscreen
        /\ r.before # None => r.restore = r.before
    BY <1>1, RememberFacts
  <2> HIDE DEF r
  <2>2. /\ w \in View /\ w.maximized /\ ~w.fullscreen /\ w.resize = view.resize
        /\ w.restore = r.restore /\ w.before = r.before
    BY <2>1 DEF View
  <2>3. SetMaximized(view, maximized) = ApplyMaximized(w, output)
    BY <1>2 DEF SetMaximized, r
  <2> HIDE DEF w
  <2>4. Remembered(w)
    BY <2>1, <2>2 DEF Remembered, Moded
  <2>5. pointerGrab = "resize" => w.resize.active
    BY <2>2 DEF ModesInv, EdgeKept
  <2>6. Kept(SetMaximized(view, maximized), output, pointerGrab)
    BY <1>1, <2>2, <2>3, <2>4, <2>5, ModePlaced
  <2>7. SetMaximized(view, maximized).maximized
    <3>1. Larger(output - Frame, 1) \in Int /\ Inset \in Int
      BY <1>1, WindowModesAssumption DEF Larger
    <3>2. Moved(w, ConfigureAndPlace(w, Larger(output - Frame, 1), Inset), Inset)
      BY <2>2, <3>1, PlaceFacts
    <3> QED BY <2>2, <2>3, <3>2 DEF ApplyMaximized, ModePlace, Moved, View
  <2> QED BY <2>6, <2>7 DEF Moded
<1>3. CASE ~maximized
  <2> DEFINE w == [view EXCEPT !.maximized = FALSE]
  <2>1. /\ w \in View /\ ~Moded(w) /\ w.resize = view.resize /\ w.restore = view.restore
        /\ w.inSpace = view.inSpace /\ w.slid = view.slid /\ w.loc = view.loc /\ w.size = view.size
    BY <1>1 DEF View, Moded
  <2>2. SetMaximized(view, maximized) = Restore(w)
    BY <1>3 DEF SetMaximized
  <2> HIDE DEF w
  <2>3. pointerGrab = "resize" => EdgeKept(w)
    BY <2>1 DEF ModesInv, EdgeKept
  <2>4. Kept(Restore(w), output, pointerGrab)
        /\ (w.restore # None => Restore(w).asked = w.restore.size /\ Restore(w).loc = w.restore.loc)
    BY <2>1, <2>3, RestorePlaces
  <2> QED BY <1>1, <2>1, <2>2, <2>4 DEF Remembered
<1> QED BY <1>2, <1>3

LEMMA FullscreenKept ==
  ASSUME ModesInv, SetFullscreen
  PROVE  /\ Kept(view', output, pointerGrab)
         /\ Moded(view) /\ ~Moded(view') /\ view.before # None =>
              view'.asked = view.before.size /\ view'.loc = view.before.loc
<1>1. /\ view \in View /\ Remembered(view) /\ output \in Nat
      /\ pointerGrab = "resize" => view.resize.active
  BY DEF ModesInv, EdgeKept
<1>2. CASE ~view.fullscreen
  <2> DEFINE r == Remember(view)
             w == [r EXCEPT !.fullscreen = TRUE]
  <2>1. r \in View /\ r.resize = view.resize /\ (r.before # None => r.restore = r.before)
    BY <1>1, RememberFacts
  <2>2. view' = ApplyFullscreen(w, output)
    BY <1>2 DEF SetFullscreen
  <2> HIDE DEF r
  <2>3. w \in View /\ w.fullscreen /\ w.resize = view.resize /\ w.restore = r.restore /\ w.before = r.before
    BY <2>1 DEF View
  <2> HIDE DEF w
  <2>4. Remembered(w)
    BY <2>1, <2>3 DEF Remembered, Moded
  <2>5. Kept(view', output, pointerGrab)
    BY <1>1, <2>2, <2>3, <2>4, ModePlaced
  <2>6. view'.fullscreen
    <3>1. Moved(w, ConfigureAndPlace(w, output, 0), 0)
      BY <1>1, <2>3, PlaceFacts
    <3> QED BY <2>2, <2>3, <3>1 DEF ApplyFullscreen, ModePlace, Moved, View
  <2> QED BY <2>5, <2>6 DEF Moded
<1>3. CASE view.fullscreen
  <2> DEFINE w == [view EXCEPT !.fullscreen = FALSE]
  <2>1. /\ w \in View /\ ~w.fullscreen /\ w.maximized = view.maximized
        /\ w.resize = view.resize /\ w.restore = view.restore /\ w.before = view.before
        /\ w.inSpace = view.inSpace /\ w.slid = view.slid /\ w.loc = view.loc /\ w.size = view.size
    BY <1>1 DEF View
  <2>2. view' = IF view.maximized THEN ApplyMaximized(w, output) ELSE Restore(w)
    <3>1. [view EXCEPT !.fullscreen = ~@] = w
      BY <1>3
    <3> QED BY <1>3, <3>1 DEF SetFullscreen
  <2> HIDE DEF w
  <2>3. pointerGrab = "resize" => EdgeKept(w)
    BY <2>1 DEF ModesInv, EdgeKept
  <2>4. CASE view.maximized
    <3>1. Remembered(w)
      BY <1>1, <1>3, <2>1, <2>4 DEF Remembered, Moded
    <3>2. Kept(view', output, pointerGrab)
      BY <1>1, <2>1, <2>2, <2>4, <3>1, ModePlaced
    <3>3. view'.maximized
      <4>1. Larger(output - Frame, 1) \in Int /\ Inset \in Int
        BY <1>1, WindowModesAssumption DEF Larger
      <4>2. Moved(w, ConfigureAndPlace(w, Larger(output - Frame, 1), Inset), Inset)
        BY <2>1, <4>1, PlaceFacts
      <4> QED BY <2>1, <2>2, <2>4, <4>2 DEF ApplyMaximized, ModePlace, Moved, View
    <3> QED BY <3>2, <3>3 DEF Moded
  <2>5. CASE ~view.maximized
    <3>1. ~Moded(w)
      BY <2>1, <2>5 DEF Moded
    <3>2. Kept(Restore(w), output, pointerGrab)
          /\ (w.restore # None => Restore(w).asked = w.restore.size /\ Restore(w).loc = w.restore.loc)
      BY <2>1, <2>3, <3>1, RestorePlaces
    <3> QED BY <1>1, <1>3, <2>1, <2>2, <2>5, <3>2 DEF Remembered, Moded
  <2> QED BY <2>4, <2>5
<1> QED BY <1>2, <1>3

\* A new output re-places what is in a mode, keeps the rest inside, and leaves
\* what is minimized alone.
LEMMA RelayoutKept ==
  ASSUME ModesInv, NEW out \in Nat
  PROVE  Kept(Relayout(view, out), out, pointerGrab) /\ (Moded(view) => Moded(Relayout(view, out)))
<1> USE WindowModesAssumption
<1>1. /\ view \in View /\ Remembered(view)
      /\ pointerGrab = "resize" => EdgeKept(view)
      /\ pointerGrab = "resize" => view.resize.active
  BY DEF ModesInv, EdgeKept
<1>2. CASE view.minimized # NotMinimized
  <2> DEFINE u == [view EXCEPT !.off = Moded(view)]
  <2>1. Relayout(view, out) = u
    BY <1>2 DEF Relayout
  <2>2. Moded(view) \in BOOLEAN
    BY DEF Moded
  <2>3. /\ u \in View /\ u.off = Moded(view)
        /\ u.maximized = view.maximized /\ u.fullscreen = view.fullscreen
        /\ u.restore = view.restore /\ u.before = view.before /\ u.resize = view.resize
        /\ u.inSpace = view.inSpace /\ u.slid = view.slid /\ u.loc = view.loc /\ u.size = view.size
    BY <1>1, <2>2 DEF View
  <2> HIDE DEF u
  <2> QED BY <1>1, <2>1, <2>3 DEF Kept, Remembered, InItsMode, EdgeKept, Moded
<1>3. CASE view.minimized = NotMinimized /\ Moded(view)
  <2> DEFINE size == IF view.fullscreen THEN out ELSE Larger(out - Frame, 1)
             loc == IF view.fullscreen THEN 0 ELSE Inset
  <2>1. Kept(Relayout(view, out), out, pointerGrab)
    BY <1>1, <1>3, ModePlaced DEF Relayout, Moded
  <2>2. size \in Int /\ loc \in Int
    BY DEF Larger
  <2>3. Moved(view, ConfigureAndPlace(view, size, loc), loc)
    BY <1>1, <2>2, PlaceFacts
  <2>4. Relayout(view, out) = [ConfigureAndPlace(view, size, loc) EXCEPT !.off = view.minimized # NotMinimized]
    BY <1>3 DEF Relayout, ApplyFullscreen, ApplyMaximized, ModePlace, Moded
  <2> QED BY <2>1, <2>3, <2>4 DEF Moded, Moved, View
<1>4. CASE view.minimized = NotMinimized /\ ~Moded(view)
  <2>1. Relayout(view, out) = KeptInside(view, out)
    BY <1>4 DEF Relayout, Moded
  <2>2. CASE KeptInside(view, out) = view
    BY <1>1, <1>4, <2>1, <2>2 DEF Kept, InItsMode
  <2>3. CASE KeptInside(view, out) # view
    <3> DEFINE size == Smaller(view.size, Larger(out - Frame, 1))
               last == Larger(out - size - Frame + Inset, Inset)
               loc == Smaller(Larger(view.loc, Inset), last)
    <3>1. size \in Int /\ loc \in Int
      <4>1. view.size \in Int /\ view.loc \in Int
        BY <1>1 DEF View
      <4>2. size \in Int
        BY <4>1 DEF Smaller, Larger
      <4>3. last \in Int
        BY <4>2 DEF Larger
      <4> QED BY <4>1, <4>2, <4>3 DEF Smaller, Larger
    <3>2. KeptInside(view, out) = ConfigureAndPlace(view, size, loc)
      BY <2>3 DEF KeptInside
    <3> HIDE DEF size, loc
    <3>3. Moved(view, ConfigureAndPlace(view, size, loc), loc)
      BY <1>1, <3>1, PlaceFacts
    <3> QED BY <1>1, <1>4, <2>1, <3>2, <3>3 DEF Kept, Moved, Moded, Remembered, InItsMode, EdgeKept
  <2> QED BY <2>2, <2>3
<1> QED BY <1>2, <1>3, <1>4

\* A move that is no change of mode puts the window elsewhere.
LEMMA MoveKept ==
  ASSUME ModesInv, NEW u \in View, NEW out \in Nat, NEW grab,
         u.maximized = view.maximized, u.fullscreen = view.fullscreen,
         u.restore = view.restore, u.before = view.before,
         u.off = Moded(view), grab = "resize" => EdgeKept(u)
  PROVE  Kept(u, out, grab) /\ (Moded(view) => Moded(u))
BY DEF ModesInv, Kept, Remembered, InItsMode, Moded

LEMMA CommitKept ==
  ASSUME ModesInv, CommitWindow
  PROVE  Kept(view', output', pointerGrab') /\ (Moded(view) => Moded(view'))
<1>1. PICK size \in {view.size} \cup (IF view.asked = 0 THEN Sizes ELSE {view.asked}) :
        view' = Anchored([view EXCEPT !.size = size])
  BY DEF CommitWindow
<1> DEFINE v == [view EXCEPT !.size = size]
<1>2. /\ view \in View /\ Remembered(view) /\ InItsMode(view, output) /\ output \in Nat
      /\ output' = output /\ pointerGrab' = pointerGrab
      /\ pointerGrab = "resize" => EdgeKept(view)
  BY DEF ModesInv, CommitWindow
<1>3. size \in Int
  BY <1>2, WindowModesAssumption DEF View
<1>4. /\ v \in View /\ v.size = size /\ v.loc = view.loc /\ v.asked = view.asked
      /\ v.maximized = view.maximized /\ v.fullscreen = view.fullscreen
      /\ v.restore = view.restore /\ v.before = view.before /\ v.resize = view.resize
      /\ v.inSpace = view.inSpace /\ v.off = view.off /\ v.minimized = view.minimized
  BY <1>2, <1>3 DEF View
<1> HIDE DEF v
<1>5. CASE v.resize = NoAnchor
  <2>1. view' = v
    BY <1>1, <1>5 DEF Anchored, v
  <2>2. pointerGrab # "resize"
    BY <1>2, <1>4, <1>5 DEF EdgeKept, NoAnchor
  <2>3. Remembered(v) /\ InItsMode(v, output) /\ (Moded(view) => Moded(v))
    BY <1>2, <1>4 DEF Remembered, InItsMode, At, Moded
  <2> QED BY <1>2, <1>4, <2>1, <2>2, <2>3 DEF Kept
<1>6. CASE v.resize # NoAnchor
  <2> DEFINE loc == LocationFor(v.resize, v.size)
             anchor == IF v.resize.active THEN v.resize ELSE NoAnchor
  <2>1. view' = [v EXCEPT !.inSpace = TRUE, !.loc = loc, !.off = Moded(v), !.slid = FALSE,
                          !.resize = anchor]
    BY <1>1, <1>6 DEF Anchored, v
  <2>2. v.resize \in Anchor /\ v.size \in Int
    BY <1>4 DEF View
  <2>3. /\ loc \in Int
        /\ IF v.resize.left THEN loc + v.size = v.resize.initial.loc + v.resize.initial.size
                            ELSE loc = v.resize.initial.loc
    BY <2>2 DEF LocationFor, Anchor, Place
  <2>4. anchor \in Anchor /\ Moded(v) \in BOOLEAN
    BY <2>2 DEF Anchor, Place, NoAnchor, None, Moded
  <2> HIDE DEF loc, anchor
  <2>5. /\ view' \in View /\ view'.loc = loc /\ view'.size = v.size /\ view'.resize = anchor
        /\ view'.maximized = view.maximized /\ view'.fullscreen = view.fullscreen
        /\ view'.restore = view.restore /\ view'.before = view.before
        /\ view'.off = Moded(v) /\ view'.inSpace
    BY <1>4, <2>1, <2>3, <2>4 DEF View
  <2>6. Moded(v) = Moded(view)
    BY <1>4 DEF Moded
  <2>7. pointerGrab = "resize" => anchor = v.resize /\ v.resize.active
    BY <1>2, <1>4 DEF EdgeKept, anchor
  <2>8. pointerGrab = "resize" => EdgeKept(view')
    BY <2>3, <2>5, <2>7 DEF EdgeKept
  <2> QED BY <1>2, <2>5, <2>6, <2>8, MoveKept
<1> QED BY <1>5, <1>6

\* Every step keeps the window and what is remembered of it; one that ends the
\* last mode restores the window.
LEMMA ModesStepKeeps ==
  ASSUME ModesInv, WindowModesNext
  PROVE  output' \in Nat /\ Kept(view', output', pointerGrab') /\ RestoredStep
<1> USE WindowModesAssumption
<1>1. /\ view \in View /\ Remembered(view) /\ InItsMode(view, output) /\ output \in Nat
      /\ pointerGrab = "resize" => EdgeKept(view) /\ view.resize.active
      /\ view.loc \in Int /\ view.size \in Int /\ view.minimized \in Int
      /\ view.resize \in Anchor /\ view.inSpace \in BOOLEAN
      /\ Moded(view) \in BOOLEAN
  BY DEF ModesInv, EdgeKept, View, Moded
<1>2. CASE Maximize
  <2>1. PICK maximized \in BOOLEAN : view' = SetMaximized(view, maximized)
    BY <1>2 DEF Maximize
  <2> QED BY <1>1, <1>2, <2>1, MaximizedKept DEF Maximize, RestoredStep
<1>3. CASE SetFullscreen
  <2>1. output' = output /\ pointerGrab' = pointerGrab
    BY <1>3 DEF SetFullscreen
  <2> QED BY <1>1, <1>3, <2>1, FullscreenKept DEF RestoredStep
<1>4. CASE MinimizeWindow
  <2>1. /\ view.inSpace /\ view' = [view EXCEPT !.minimized = view.loc, !.inSpace = FALSE]
        /\ output' = output /\ pointerGrab' = pointerGrab
    BY <1>4 DEF MinimizeWindow
  <2>2. /\ view' \in View /\ view'.minimized = view.loc /\ ~view'.inSpace /\ view'.loc = view.loc
        /\ view'.maximized = view.maximized /\ view'.fullscreen = view.fullscreen
        /\ view'.restore = view.restore /\ view'.before = view.before /\ view'.resize = view.resize
        /\ view'.off = view.off /\ view'.asked = view.asked
    BY <1>1, <2>1 DEF View
  <2>3. Remembered(view') /\ InItsMode(view', output)
    BY <1>1, <2>1, <2>2 DEF Remembered, InItsMode, At, Moded
  <2> QED BY <1>1, <2>1, <2>2, <2>3 DEF Kept, EdgeKept, RestoredStep, Moded
<1>5. CASE Unminimize
  <2>1. /\ view.minimized # NotMinimized
        /\ view' = [view EXCEPT !.minimized = NotMinimized, !.inSpace = TRUE,
                                !.loc = view.minimized, !.slid = view.resize.active]
        /\ output' = output /\ pointerGrab' = pointerGrab
    BY <1>5 DEF Unminimize
  <2>2. NotMinimized \in Int /\ view.resize.active \in BOOLEAN
    BY <1>1 DEF NotMinimized, Anchor
  <2>3. /\ view' \in View /\ view'.minimized = NotMinimized /\ view'.loc = view.minimized
        /\ view'.maximized = view.maximized /\ view'.fullscreen = view.fullscreen
        /\ view'.restore = view.restore /\ view'.before = view.before /\ view'.resize = view.resize
        /\ view'.off = view.off /\ view'.asked = view.asked /\ view'.slid = view.resize.active
    BY <1>1, <2>1, <2>2 DEF View
  <2>4. Remembered(view') /\ InItsMode(view', output)
    BY <1>1, <2>1, <2>3 DEF Remembered, InItsMode, At, Moded
  <2> QED BY <1>1, <2>1, <2>3, <2>4 DEF Kept, EdgeKept, RestoredStep, Moded
<1>6. CASE MoveResizeWindow
  <2>1. PICK size \in Sizes, loc \in Locations :
          view' = [ConfigureAndPlace(view, size, loc) EXCEPT !.off = Moded(view)]
    BY <1>6 DEF MoveResizeWindow
  <2>2. size \in Int /\ loc \in Int
    OBVIOUS
  <2>3. Moved(view, ConfigureAndPlace(view, size, loc), loc)
    BY <1>1, <2>2, PlaceFacts
  <2>4. Moved(view, view', loc) /\ view'.off = Moded(view)
    BY <1>1, <2>1, <2>3 DEF Moved, View
  <2>5. output' = output /\ pointerGrab' = pointerGrab
    BY <1>6 DEF MoveResizeWindow
  <2>6. pointerGrab = "resize" => EdgeKept(view')
    BY <1>1, <2>4 DEF Moved, EdgeKept
  <2> QED BY <1>1, <2>4, <2>5, <2>6, MoveKept DEF Moved, RestoredStep
<1>7. CASE ModesOutputChanged
  <2>1. PICK out \in OutputSizes : output' = out /\ view' = Relayout(view, out)
    BY <1>7 DEF ModesOutputChanged
  <2>2. out \in Nat /\ pointerGrab' = pointerGrab
    BY <1>7 DEF ModesOutputChanged
  <2> QED BY <2>1, <2>2, RelayoutKept DEF RestoredStep
<1>8. CASE BeginMove
  <2>1. /\ pointerGrab = "none" /\ pointerGrab' = "move" /\ ~view.fullscreen /\ output' = output
    BY <1>8 DEF BeginMove
  <2>2. CASE view.maximized
    <3> DEFINE v == SetMaximized(view, FALSE)
    <3>1. PICK loc \in Locations : view' = MoveWindow(v, loc)
      BY <1>8, <2>2 DEF BeginMove
    <3>2. Kept(v, output, pointerGrab)
      BY <2>1, MaximizedKept
    <3>3. v.maximized = FALSE /\ v.fullscreen = FALSE
      <4> DEFINE w == [view EXCEPT !.maximized = FALSE]
      <4>1. w \in View /\ ~Moded(w)
        BY <1>1, <2>1 DEF View, Moded
      <4>2. v = Restore(w)
        BY DEF SetMaximized
      <4>3. ~Moded(v)
        BY <2>1, <4>1, <4>2, RestorePlaces
      <4> QED BY <3>2, <4>3 DEF Kept, Moded, View
    <3>4. v.restore = None
      BY <3>2, <3>3 DEF Kept, Remembered, Moded
    <3> HIDE DEF v
    <3>5. Moved(v, view', loc) /\ view'.asked = v.asked
      BY <3>1, <3>2, PlaceFacts DEF Kept
    <3>6. Remembered(view') /\ InItsMode(view', output)
      BY <3>3, <3>4, <3>5 DEF Moved, Remembered, InItsMode, Moded
    <3>7. Moded(view) /\ view.before # None => view'.asked = view.before.size
      <4>1. Moded(view) /\ ~Moded(v) /\ view.before # None => v.asked = view.before.size
        BY <2>1, MaximizedKept DEF v
      <4> QED BY <3>3, <3>5, <4>1 DEF Moded
    <3> QED BY <1>1, <2>1, <3>5, <3>6, <3>7 DEF Kept, Moved, RestoredStep
  <2>3. CASE ~view.maximized
    <3>1. view' = view
      BY <1>8, <2>3 DEF BeginMove
    <3> QED BY <1>1, <2>1, <3>1 DEF Kept, RestoredStep
  <2> QED BY <2>2, <2>3
<1>9. CASE BeginResize
  <2>1. PICK left \in BOOLEAN :
          view' = [view EXCEPT !.slid = FALSE,
                    !.resize = [left |-> left, initial |-> ElementGeometry(view), active |-> TRUE]]
    BY <1>9 DEF BeginResize
  <2>2. output' = output /\ view.inSpace
    BY <1>9 DEF BeginResize
  <2> DEFINE anchor == [left |-> left, initial |-> ElementGeometry(view), active |-> TRUE]
  <2>3. /\ anchor \in Anchor /\ anchor.active /\ anchor.initial.loc = view.loc
        /\ anchor.initial.size = view.size
    BY <1>1, <2>2 DEF Anchor, Place, ElementGeometry
  <2> HIDE DEF anchor
  <2>4. view' = [view EXCEPT !.slid = FALSE, !.resize = anchor]
    BY <2>1 DEF anchor
  <2>5. /\ view' \in View /\ view'.resize = anchor /\ view'.loc = view.loc /\ view'.size = view.size
        /\ view'.maximized = view.maximized /\ view'.fullscreen = view.fullscreen
        /\ view'.restore = view.restore /\ view'.before = view.before
        /\ view'.off = view.off /\ view'.asked = view.asked
        /\ view'.minimized = view.minimized /\ view'.inSpace = view.inSpace
    BY <1>1, <2>3, <2>4 DEF View
  <2>6. Remembered(view') /\ InItsMode(view', output)
    BY <1>1, <2>5 DEF Remembered, InItsMode, At, Moded
  <2>7. EdgeKept(view')
    BY <1>1, <2>3, <2>5 DEF EdgeKept
  <2> QED BY <1>1, <2>2, <2>5, <2>6, <2>7 DEF Kept, RestoredStep, Moded
<1>10. CASE Drag
  <2>1. output' = output /\ pointerGrab' = pointerGrab
    BY <1>10 DEF Drag
  <2>2. CASE pointerGrab = "move"
    <3>1. PICK loc \in Locations : view' = [MoveWindow(view, loc) EXCEPT !.off = Moded(view)]
      BY <1>10, <2>2 DEF Drag
    <3>2. Moved(view, MoveWindow(view, loc), loc)
      BY <1>1, PlaceFacts
    <3>3. Moved(view, view', loc) /\ view'.off = Moded(view)
      BY <1>1, <3>1, <3>2 DEF Moved, View
    <3> QED BY <1>1, <2>1, <2>2, <3>3, MoveKept DEF Moved, RestoredStep
  <2>3. CASE pointerGrab = "resize"
    <3>1. PICK size \in Sizes : view' = [view EXCEPT !.asked = size, !.off = Moded(view)]
      BY <1>10, <2>3 DEF Drag
    <3>2. size \in Int
      OBVIOUS
    <3>3. /\ view' \in View /\ view'.off = Moded(view)
          /\ view'.maximized = view.maximized /\ view'.fullscreen = view.fullscreen
          /\ view'.restore = view.restore /\ view'.before = view.before /\ view'.resize = view.resize
          /\ view'.loc = view.loc /\ view'.size = view.size /\ view'.inSpace = view.inSpace
          /\ view'.slid = view.slid
      BY <1>1, <3>1, <3>2 DEF View
    <3>4. EdgeKept(view')
      BY <1>1, <2>3, <3>3 DEF EdgeKept
    <3> QED BY <1>1, <2>1, <3>3, <3>4, MoveKept DEF RestoredStep
  <2> QED BY <1>10, <2>2, <2>3 DEF Drag
<1>11. CASE EndDrag
  <2>1. /\ output' = output /\ pointerGrab' = "none"
        /\ view' = IF pointerGrab = "resize" THEN [view EXCEPT !.resize.active = FALSE, !.slid = FALSE] ELSE view
    BY <1>11 DEF EndDrag
  <2> DEFINE ended == [view.resize EXCEPT !.active = FALSE]
  <2>2. ended \in Anchor
    BY <1>1 DEF Anchor
  <2>3. [view EXCEPT !.resize.active = FALSE, !.slid = FALSE] = [view EXCEPT !.resize = ended, !.slid = FALSE]
    BY <1>1 DEF View
  <2> HIDE DEF ended
  <2>4. /\ view' \in View
        /\ view'.maximized = view.maximized /\ view'.fullscreen = view.fullscreen
        /\ view'.restore = view.restore /\ view'.before = view.before
        /\ view'.off = view.off /\ view'.asked = view.asked /\ view'.loc = view.loc
        /\ view'.minimized = view.minimized /\ view'.inSpace = view.inSpace
    BY <1>1, <2>1, <2>2, <2>3 DEF View
  <2>5. Remembered(view') /\ InItsMode(view', output)
    BY <1>1, <2>4 DEF Remembered, InItsMode, At, Moded
  <2> QED BY <1>1, <2>1, <2>4, <2>5 DEF Kept, RestoredStep, Moded
<1>12. CASE CommitWindow
  <2>1. output' = output
    BY <1>12 DEF CommitWindow
  <2> QED BY <1>1, <1>12, <2>1, CommitKept DEF RestoredStep
<1> QED BY <1>2, <1>3, <1>4, <1>5, <1>6, <1>7, <1>8, <1>9, <1>10, <1>11, <1>12 DEF WindowModesNext

LEMMA ModesInitial == WindowModesInit => ModesInv
<1> SUFFICES ASSUME WindowModesInit
             PROVE  ModesInv
  OBVIOUS
<1>1. view \in View /\ ~view.maximized /\ ~view.fullscreen /\ view.restore = None
  BY WindowModesAssumption DEF WindowModesInit, View, Place, Anchor, None, NoAnchor, NotMinimized
<1> QED BY <1>1, WindowModesAssumption DEF WindowModesInit, ModesInv, Remembered, InItsMode, Moded

LEMMA ModesStep == ModesInv /\ [WindowModesNext]_modeVars => ModesInv' /\ (RestoredStep \/ UNCHANGED modeVars)
<1> SUFFICES ASSUME ModesInv, [WindowModesNext]_modeVars
             PROVE  ModesInv' /\ (RestoredStep \/ UNCHANGED modeVars)
  OBVIOUS
<1>1. CASE WindowModesNext
  BY <1>1, ModesStepKeeps DEF Kept, ModesInv, Remembered, InItsMode, At, EdgeKept, Moded
<1>2. CASE UNCHANGED modeVars
  BY <1>2 DEF modeVars, ModesInv, Remembered, InItsMode, At, EdgeKept, Moded
<1> QED BY <1>1, <1>2

LEMMA ModesSound == ModesInv => Placed /\ OppositeEdgeStays
<1> SUFFICES ASSUME ModesInv
             PROVE  Placed /\ OppositeEdgeStays
  OBVIOUS
<1>1. Placed
  BY DEF ModesInv, InItsMode, At, Moded, Placed
<1>2. OppositeEdgeStays
  BY DEF ModesInv, EdgeKept, OppositeEdgeStays
<1> QED BY <1>1, <1>2

\* Maximized and fullscreen windows are where their mode puts them, and the edge
\* opposite to a dragged one stays (state.rs, grabs.rs), for any sizes.
THEOREM PlacesAreKept == WindowModesSpec => [](Placed /\ OppositeEdgeStays)
<1>1. ModesInv /\ [WindowModesNext]_modeVars => ModesInv'
  BY ModesStep
<1> QED BY <1>1, ModesInitial, ModesSound, PTL DEF WindowModesSpec

\* Leaving the last mode gives a window back the place it had before the first
\* (state.rs), for any sizes and any order of modes, drags and outputs.
THEOREM WindowsAreRestored == WindowModesSpec => Restored
<1>1. ModesInv /\ [WindowModesNext]_modeVars => ModesInv'
  BY ModesStep
<1>2. ModesInv /\ [WindowModesNext]_modeVars => [RestoredStep]_modeVars
  BY ModesStep
<1> QED BY <1>1, <1>2, ModesInitial, PTL DEF WindowModesSpec, Restored

------------------------------------------------------------------------------
(* What is kept of a frame.  Without the gradient the parameters tell what *)
(* is drawn over the bar, but for the row of the client it was taken from. *)

Ungraded == TitlebarModes \subseteq {"theme", "auto", "blend"}

Wishes == [kind : Kinds, mode : TitlebarModes, look : Looks, text : Texts, length : Lengths, row : {0, 1}]

\* Whether parameters are those of a bar with pixels of the client.
Blended(p) == p.kind = "bar" /\ p.fill[1] = "opaque"

\* What an output has not to repaint is what is kept.
SeenIsKept(o) ==
  /\ owed[o] # "all" => shown[o].ring = kept.params
  /\ owed[o] = "none" =>
       \A p \in kept.params :
         IF Blended(p) THEN \A strip \in kept.strip : shown[o].bar = {<<p, <<"blend", strip.row>>>>}
         ELSE shown[o].bar = {<<p, <<>>>>}
  /\ o \notin newText /\ kept.text # {} => shown[o].text = kept.text

\* The strengthening of PaintedRight.
PaintInv ==
  /\ want \in Wishes
  /\ kept = [params |-> kept.params, strip |-> kept.strip, text |-> kept.text]
  /\ owed = [o \in Outputs |-> owed[o]]
  /\ shown = [o \in Outputs |-> [ring |-> shown[o].ring, bar |-> shown[o].bar, text |-> shown[o].text]]
  /\ current \subseteq Outputs
  /\ \A o \in Outputs : SeenIsKept(o)
  /\ PaintedRight

LEMMA ParamsTell ==
  ASSUME Ungraded, NEW w \in Wishes
  PROVE  /\ FrameParams(w).kind = w.kind
         /\ Blended(FrameParams(w)) => PixelSource(w) = <<"blend", w.row>> /\ Sampled(w)
         /\ ~Blended(FrameParams(w)) => PixelSource(w) = <<>>
<1>1. w.mode \in {"theme", "auto", "blend"}
  BY DEF Wishes, Ungraded
<1>2. FrameParams(w).kind = w.kind
  BY DEF FrameParams
<1>3. CASE w.mode = "theme"
  <2>1. FrameParams(w).fill[1] = "translucent"
    BY <1>3 DEF FrameParams
  <2> QED BY <1>2, <1>3, <2>1 DEF Blended, PixelSource
<1>4. CASE w.mode = "auto"
  <2>1. FrameParams(w).fill[1] = "dominant"
    BY <1>4 DEF FrameParams
  <2> QED BY <1>2, <1>4, <2>1 DEF Blended, PixelSource
<1>5. CASE w.mode = "blend"
  <2>1. FrameParams(w).fill[1] = "opaque"
    BY <1>5 DEF FrameParams
  <2> QED BY <1>2, <1>5, <2>1 DEF Blended, PixelSource, HasTitlebar, Sampled
<1> QED BY <1>1, <1>3, <1>4, <1>5

\* Dropping parts forgets, and keeps what is left.
LEMMA RetainForgets ==
  ASSUME NEW k, k = [params |-> k.params, strip |-> k.strip, text |-> k.text], NEW w
  PROVE  LET r == RetainParts(k, w) IN
         /\ r = [params |-> r.params, strip |-> r.strip, text |-> r.text]
         /\ r.params = k.params /\ r.strip \in {k.strip, {}} /\ r.text \in {k.text, {}}
         /\ ~HasTitlebar(w) => r.text = {}
         /\ ~Sampled(w) => r.strip = {}
<1> DEFINE r == [params |-> k.params, strip |-> IF Sampled(w) THEN k.strip ELSE {},
                 text |-> IF HasTitlebar(w) THEN k.text ELSE {}]
<1>1. RetainParts(k, w) = r
  <2> DEFINE part == [params |-> k.params, strip |-> k.strip, text |-> IF HasTitlebar(w) THEN k.text ELSE {}]
  <2>1. [k EXCEPT !.text = IF HasTitlebar(w) THEN @ ELSE {}] = part
    OBVIOUS
  <2>2. [part EXCEPT !.strip = IF Sampled(w) THEN @ ELSE {}] = r
    OBVIOUS
  <2> HIDE DEF part, r
  <2> QED BY <2>1, <2>2 DEF RetainParts
<1> QED BY <1>1

\* A window that changes is painted anew; what is dropped meanwhile is not
\* missed.
LEMMA RestyleKeeps ==
  ASSUME PaintInv, want' \in Wishes, current' = {}, KeepSeen,
         kept' \in {kept, RetainParts(kept, want')}
  PROVE  PaintInv'
<1>1. /\ kept' = [params |-> kept'.params, strip |-> kept'.strip, text |-> kept'.text]
      /\ kept'.params = kept.params /\ kept'.strip \in {kept.strip, {}} /\ kept'.text \in {kept.text, {}}
  BY RetainForgets DEF PaintInv
<1>2. UNCHANGED <<owed, newText, shown>>
  BY DEF KeepSeen
<1>3. ASSUME NEW o \in Outputs
      PROVE  SeenIsKept(o)'
  <2>1. SeenIsKept(o)
    BY DEF PaintInv
  <2> QED BY <1>1, <1>2, <2>1 DEF SeenIsKept
<1> QED BY <1>1, <1>2, <1>3 DEF PaintInv, PaintedRight

LEMMA RenderKeeps ==
  ASSUME Ungraded, PaintInv, NEW o \in Outputs, RenderFrame(o)
  PROVE  PaintInv'
<1> DEFINE k == RetainParts(kept, want)
           framed == want.kind # "none"
           resampled == Sampled(want) /\ StripOf(k, o) # Sample(o)
           due == IF framed THEN Owed(k, resampled)[o] ELSE "all"
           unseen == IF TitleOf(want, o) = k.text /\ k.text # {} THEN newText ELSE Outputs
           picture == Picture(want, o)
           ringNow == IF due = "all" THEN picture.ring ELSE shown[o].ring
           barNow == IF due # "none" THEN picture.bar ELSE shown[o].bar
           textNow == IF o \in unseen THEN picture.text ELSE shown[o].text
           params == FrameParams(want)
<1>0. want \in Wishes /\ want' = want
  BY DEF PaintInv, RenderFrame
<1>1. /\ k = [params |-> k.params, strip |-> k.strip, text |-> k.text]
      /\ k.params = kept.params /\ k.strip \in {kept.strip, {}} /\ k.text \in {kept.text, {}}
      /\ ~HasTitlebar(want) => k.text = {}
  BY RetainForgets DEF PaintInv
<1>2. /\ kept' = [params |-> IF framed THEN {params} ELSE k.params,
                  strip |-> IF Sampled(want) THEN Sample(o) ELSE {}, text |-> TitleOf(want, o)]
      /\ owed' = IF framed THEN [Owed(k, resampled) EXCEPT ![o] = "none"] ELSE [owed EXCEPT ![o] = "all"]
      /\ newText' = unseen \ {o}
      /\ shown' = [shown EXCEPT ![o] = [ring |-> ringNow, bar |-> barNow, text |-> textNow]]
      /\ current' = current \cup {o}
  BY DEF RenderFrame
<1>3. Owed(k, resampled) = [i \in Outputs |-> IF {params} # k.params THEN "all"
                                             ELSE IF resampled /\ owed[i] = "none" THEN "bar" ELSE owed[i]]
  BY DEF Owed
<1>4. Sample(o) = {[length |-> want.length, scale |-> Scale[o], row |-> want.row]}
  BY DEF Sample
<1>5. ~framed => picture = Blank /\ TitleOf(want, o) = {} /\ ~Sampled(want)
  BY DEF Picture, TitleOf, HasTitlebar, Sampled
<1>6. framed => picture = [ring |-> {params}, bar |-> {<<params, PixelSource(want)>>}, text |-> TitleOf(want, o)]
  BY DEF Picture
<1>7. resampled \/ ~Sampled(want) \/ Sample(o) \subseteq kept.strip
  BY <1>1 DEF StripOf
<1>8. /\ Blended(params) => PixelSource(want) = <<"blend", want.row>> /\ Sampled(want)
      /\ ~Blended(params) => PixelSource(want) = <<>>
  BY <1>0, ParamsTell
<1>9. SeenIsKept(o)
  BY DEF PaintInv
<1> HIDE DEF k, framed, params, picture, resampled, unseen
<1>10. ringNow = picture.ring
  <2>1. CASE due = "all"
    BY <2>1
  <2>2. CASE due # "all"
    <3>1. framed /\ {params} = kept.params /\ owed[o] # "all"
      BY <1>1, <1>3, <2>2
    <3>2. shown[o].ring = {params}
      BY <1>9, <3>1 DEF SeenIsKept
    <3> QED BY <1>6, <2>2, <3>1, <3>2
  <2> QED BY <2>1, <2>2
<1>11. barNow = picture.bar
  <2>1. CASE due # "none"
    BY <2>1
  <2>2. CASE due = "none"
    <3>1. framed /\ {params} = kept.params /\ owed[o] = "none" /\ ~resampled
      BY <1>1, <1>3, <2>2
    <3>2. CASE Blended(params)
      <4> DEFINE strip == [length |-> want.length, scale |-> Scale[o], row |-> want.row]
      <4>1. strip \in kept.strip /\ strip.row = want.row
        BY <1>4, <1>7, <1>8, <3>1, <3>2
      <4> HIDE DEF strip
      <4>2. shown[o].bar = {<<params, <<"blend", want.row>>>>}
        BY <1>9, <3>1, <3>2, <4>1 DEF SeenIsKept
      <4> QED BY <1>6, <1>8, <2>2, <3>1, <3>2, <4>2
    <3>3. CASE ~Blended(params)
      <4>1. shown[o].bar = {<<params, <<>>>>}
        BY <1>9, <3>1, <3>3 DEF SeenIsKept
      <4> QED BY <1>6, <1>8, <2>2, <3>1, <3>3, <4>1
    <3> QED BY <3>2, <3>3
  <2> QED BY <2>1, <2>2
<1>12. textNow = picture.text
  <2>1. CASE o \in unseen
    BY <2>1
  <2>2. CASE o \notin unseen
    <3>1. TitleOf(want, o) = k.text /\ k.text # {} /\ o \notin newText
      BY <2>2 DEF unseen
    <3>2. shown[o].text = TitleOf(want, o)
      BY <1>1, <1>9, <3>1 DEF SeenIsKept
    <3>3. framed
      BY <1>5, <3>1
    <3> QED BY <1>6, <2>2, <3>2, <3>3
  <2> QED BY <2>1, <2>2
<1>13. [ring |-> ringNow, bar |-> barNow, text |-> textNow] = picture
  BY <1>5, <1>6, <1>10, <1>11, <1>12 DEF Blank
<1>14. picture = [ring |-> picture.ring, bar |-> picture.bar, text |-> picture.text]
  BY <1>13
<1> HIDE DEF due, ringNow, barNow, textNow
<1>15. shown' = [shown EXCEPT ![o] = picture]
  BY <1>2, <1>13
<1>16. /\ shown' = [i \in Outputs |-> [ring |-> shown'[i].ring, bar |-> shown'[i].bar, text |-> shown'[i].text]]
       /\ shown'[o] = picture /\ \A i \in Outputs \ {o} : shown'[i] = shown[i]
  BY <1>14, <1>15 DEF PaintInv
<1>17. PaintedRight'
  <2>1. \A i \in current : shown[i] = Picture(want, i)
    BY DEF PaintInv, PaintedRight
  <2>2. \A i \in current' : shown'[i] = Picture(want, i)
    BY <1>2, <1>16, <2>1 DEF PaintInv, picture
  <2> QED BY <1>0, <2>2 DEF PaintedRight
<1>18. /\ kept'.params = IF framed THEN {params} ELSE kept.params
       /\ kept'.strip = IF Sampled(want) THEN Sample(o) ELSE {}
       /\ kept'.text = TitleOf(want, o)
       /\ kept' = [params |-> kept'.params, strip |-> kept'.strip, text |-> kept'.text]
  BY <1>1, <1>2
<1>19. /\ owed' = [i \in Outputs |-> owed'[i]]
       /\ owed'[o] = IF framed THEN "none" ELSE "all"
       /\ \A i \in Outputs \ {o} : owed'[i] = IF framed THEN Owed(k, resampled)[i] ELSE owed[i]
  BY <1>2, <1>3 DEF PaintInv
<1>20. SeenIsKept(o)'
  <2>1. owed'[o] # "all" => shown'[o].ring = kept'.params
    BY <1>6, <1>16, <1>18, <1>19
  <2>2. ASSUME owed'[o] = "none", NEW p \in kept'.params
        PROVE  IF Blended(p) THEN \A strip \in kept'.strip : shown'[o].bar = {<<p, <<"blend", strip.row>>>>}
               ELSE shown'[o].bar = {<<p, <<>>>>}
    <3>1. framed /\ p = params
      BY <1>18, <1>19, <2>2
    <3>2. shown'[o].bar = {<<params, PixelSource(want)>>}
      BY <1>6, <1>16, <3>1
    <3>3. \A strip \in kept'.strip : strip.row = want.row
      BY <1>4, <1>18
    <3> QED BY <1>8, <3>1, <3>2, <3>3
  <2>3. shown'[o].text = kept'.text
    BY <1>5, <1>6, <1>16, <1>18 DEF Blank
  <2> QED BY <2>1, <2>2, <2>3 DEF SeenIsKept
<1>21. ASSUME NEW i \in Outputs \ {o}
       PROVE  SeenIsKept(i)'
  <2>0. SeenIsKept(i) /\ shown'[i] = shown[i] /\ owed'[i] = IF framed THEN Owed(k, resampled)[i] ELSE owed[i]
    BY <1>16, <1>19 DEF PaintInv
  <2>1. owed'[i] # "all" => owed[i] # "all" /\ kept'.params = kept.params
    BY <1>1, <1>3, <1>18, <2>0
  <2>2. ASSUME owed'[i] = "none", NEW p \in kept'.params
        PROVE  IF Blended(p) THEN \A strip \in kept'.strip : shown'[i].bar = {<<p, <<"blend", strip.row>>>>}
               ELSE shown'[i].bar = {<<p, <<>>>>}
    <3>1. owed[i] = "none" /\ (framed => ~resampled)
      BY <1>3, <2>0, <2>2
    <3>2. kept'.strip \subseteq kept.strip
      BY <1>5, <1>7, <1>18, <3>1
    <3> QED BY <2>0, <2>1, <2>2, <3>1, <3>2 DEF SeenIsKept
  <2>3. i \notin newText' /\ kept'.text # {} => shown'[i].text = kept'.text
    <3> SUFFICES ASSUME i \notin newText', kept'.text # {}
                 PROVE  shown'[i].text = kept'.text
      OBVIOUS
    <3>1. TitleOf(want, o) = k.text /\ k.text # {} /\ i \notin newText
      BY <1>2 DEF unseen
    <3> QED BY <1>1, <1>18, <2>0, <3>1 DEF SeenIsKept
  <2> QED BY <2>0, <2>1, <2>2, <2>3 DEF SeenIsKept
<1> QED BY <1>0, <1>2, <1>16, <1>17, <1>18, <1>19, <1>20, <1>21 DEF PaintInv

LEMMA PaintingInitial == FramePaintingInit => PaintInv
BY DEF FramePaintingInit, PaintInv, Wishes, SeenIsKept, PaintedRight, Fresh, Blank

LEMMA PaintingStep ==
  ASSUME Ungraded, PaintInv, FramePaintingNext \/ UNCHANGED paintVars
  PROVE  PaintInv'
<1>0. want \in Wishes
  BY DEF PaintInv
<1>1. CASE Repaint
  <2>1. want' \in Wishes
    BY <1>0, <1>1 DEF Repaint, Restyle, Wishes
  <2> QED BY <1>1, <2>1, RestyleKeeps DEF Repaint, Restyle
<1>2. CASE Reframe
  <2>1. want' \in Wishes
    BY <1>0, <1>2 DEF Reframe, Restyle, Wishes
  <2> QED BY <1>2, <2>1, RestyleKeeps DEF Reframe, Restyle
<1>3. CASE Retitlebar
  <2>1. want' \in Wishes
    BY <1>0, <1>3 DEF Retitlebar, Restyle, Wishes
  <2> QED BY <1>3, <2>1, RestyleKeeps DEF Retitlebar, Restyle
<1>4. CASE ReframeByOther
  <2>1. want' \in Wishes
    BY <1>0, <1>4 DEF ReframeByOther, Restyle, Wishes
  <2> QED BY <1>4, <2>1, RestyleKeeps DEF ReframeByOther, Restyle
<1>5. CASE ClearDecorations
  BY <1>5 DEF ClearDecorations, PaintInv, SeenIsKept, PaintedRight, Fresh
<1>6. ASSUME NEW o \in Outputs, RenderFrame(o)
      PROVE  PaintInv'
  BY <1>6, RenderKeeps
<1>7. CASE UNCHANGED paintVars
  BY <1>7 DEF paintVars, PaintInv, SeenIsKept, PaintedRight
<1> QED BY <1>1, <1>2, <1>3, <1>4, <1>5, <1>6, <1>7 DEF FramePaintingNext

\* An output that has been rendered shows the frame as it is
\* (render/decoration.rs), for any outputs, looks, texts and sizes, as long as
\* the titlebar is never a gradient: with one it need not, as the run
\* restyled_titlebar shows.
THEOREM FramesArePainted ==
  ASSUME Ungraded
  PROVE  FramePaintingSpec => []PaintedRight
<1>1. PaintInv /\ [FramePaintingNext]_paintVars => PaintInv'
  BY PaintingStep
<1>2. PaintInv => PaintedRight
  BY DEF PaintInv
<1> QED BY <1>1, <1>2, PaintingInitial, PTL DEF FramePaintingSpec

------------------------------------------------------------------------------
(* Keys.  What sticky keys and the registry of shortcuts keep fits the     *)
(* keys that are down, through folds over the transitions of one key.      *)

\* What sticky keys hold of a modifier, and all of the keyboard's state.
StickyModifier == [kind : {"off", "held", "latched", "locked"}, previous : {"off", "latched", "locked"}, used : BOOLEAN]
Board ==
  [down : [AllKeys -> Nat], sticky : BOOLEAN, modifier : [Modifiers -> StickyModifier], typed : SUBSET OrdinaryKeys,
   bound : SUBSET Bindings, pressed : SUBSET AllKeys, active : SUBSET Bindings, pending : SUBSET Modifiers,
   chord : BOOLEAN, suppressed : SUBSET AllKeys, told : SUBSET AllKeys, inhibited : BOOLEAN, locked : BOOLEAN,
   held : SUBSET SUBSET Modifiers, left : SUBSET Modifiers, astray : SUBSET AllKeys, fired : SUBSET Bindings]

\* What the registry and the clients leave alone.
Alike(s, t) ==
  /\ t.down = s.down /\ t.sticky = s.sticky /\ t.modifier = s.modifier /\ t.typed = s.typed
  /\ t.bound = s.bound /\ t.inhibited = s.inhibited /\ t.locked = s.locked

\* The modifiers down together, and what the registry remembers of them.
Mods(s) == s.pressed \cap Modifiers
Recalls(s, t) ==
  /\ t.pending = IF Mods(t) = {} THEN {} ELSE IF Cardinality(Mods(t)) > Cardinality(s.pending) THEN Mods(t) ELSE s.pending
  /\ t.held = IF Mods(t) = {} THEN {} ELSE s.held \cup {Mods(t)}
  /\ t.left = IF Mods(t) = {} \/ Cardinality(Mods(t)) > Cardinality(s.pending) THEN {} ELSE s.left

\* In a locked session only the client is told.
OnlyTold(s, t) ==
  /\ t.pressed = s.pressed /\ t.suppressed = s.suppressed /\ t.pending = s.pending /\ t.held = s.held /\ t.left = s.left
  /\ t.fired = s.fired

LEMMA BindingsFacts ==
  /\ Modifiers \cap OrdinaryKeys = {} /\ VtKeys \subseteq OrdinaryKeys
  /\ \A b \in Bindings : b.mods \in SUBSET Modifiers /\ b.keys \in SUBSET OrdinaryKeys
BY KeysAssumption

\* What a transition does to the registry: t is the state after it, fires the
\* shortcuts it activates.
Activating(s, k, pressed, t, fires) ==
  /\ t \in Board /\ Alike(s, t) /\ Recalls(s, t)
  /\ t.suppressed = s.suppressed /\ t.told = s.told /\ t.astray = s.astray /\ t.fired = s.fired
  /\ t.pressed = IF pressed THEN s.pressed \cup {k} ELSE s.pressed \ {k}
  /\ fires \in SUBSET Bindings
  /\ pressed => \A b \in fires : b.keys # {} /\ b.keys \subseteq t.pressed /\ b.mods = Mods(t)
  /\ ~pressed => \A b \in fires : b.keys = {} /\ b.mods = s.pending /\ s.pending # {} /\ Mods(t) = {}

LEMMA ActivatedFacts ==
  ASSUME NEW s \in Board, NEW k \in AllKeys, NEW pressed \in BOOLEAN
  PROVE  Activating(s, k, pressed, Activated(s, k, pressed).state, Activated(s, k, pressed).shortcuts)
<1> DEFINE t == Activated(s, k, pressed).state
           fires == Activated(s, k, pressed).shortcuts
           now == IF pressed THEN s.pressed \cup {k} ELSE s.pressed \ {k}
           mods == now \cap Modifiers
           chord == s.chord \/ now \cap OrdinaryKeys # {}
           released == IF mods = {} /\ ~chord THEN s.pending ELSE {}
           alone == {b \in s.bound : b.keys = {} /\ released # {} /\ b.mods = released}
           matching == {b \in s.bound : b.keys # {} /\ b.mods = mods /\ b.keys \subseteq now}
           pending == IF mods = {} THEN {} ELSE IF Cardinality(mods) > Cardinality(s.pending) THEN mods ELSE s.pending
           held == IF mods = {} THEN {} ELSE s.held \cup {mods}
           left == IF mods = {} \/ Cardinality(mods) > Cardinality(s.pending) THEN {} ELSE s.left
           active == IF pressed THEN matching ELSE s.active \cap matching
<1>1. /\ t = [s EXCEPT !.pressed = now, !.chord = chord /\ mods # {}, !.pending = pending, !.active = active, !.held = held, !.left = left]
      /\ fires = alone \cup (IF pressed THEN matching \ s.active ELSE {})
  BY DEF Activated
<1>2. /\ now \in SUBSET AllKeys /\ mods \in SUBSET Modifiers /\ chord \in BOOLEAN /\ s.pending \in SUBSET Modifiers
      /\ s.bound \in SUBSET Bindings /\ s.active \in SUBSET Bindings /\ s.held \in SUBSET SUBSET Modifiers
      /\ s.left \in SUBSET Modifiers
  BY DEF Board
<1>3. /\ pending \in SUBSET Modifiers /\ left \in SUBSET Modifiers /\ held \in SUBSET SUBSET Modifiers /\ active \in SUBSET Bindings
      /\ matching \in SUBSET Bindings /\ alone \in SUBSET Bindings
  <2> HIDE DEF now, mods, released
  <2> QED BY <1>2
<1>4. k \in now /\ pressed => mods # {} \/ chord
  BY DEF AllKeys
<1>5. pressed => alone = {}
  <2>1. pressed => released = {}
    BY <1>4
  <2> HIDE DEF released
  <2> QED BY <2>1
<1>6. /\ t \in Board /\ Alike(s, t) /\ t.pressed = now /\ t.pending = pending /\ t.held = held /\ t.left = left
      /\ t.suppressed = s.suppressed /\ t.told = s.told /\ t.astray = s.astray /\ t.fired = s.fired
  <2> DEFINE c == chord /\ mods # {}
  <2>1. c \in BOOLEAN
    OBVIOUS
  <2>2. t = [s EXCEPT !.pressed = now, !.chord = c, !.pending = pending, !.active = active, !.held = held, !.left = left]
    BY <1>1
  <2> HIDE DEF c, now, mods, pending, held, left, active, chord, t
  <2> QED BY <1>2, <1>3, <2>1, <2>2 DEF Board, Alike
<1>7. Mods(t) = mods
  BY <1>6 DEF Mods
<1>8. ~pressed => \A b \in alone : b.keys = {} /\ b.mods = s.pending /\ s.pending # {} /\ mods = {}
  OBVIOUS
<1>9. \A b \in matching : b.keys # {} /\ b.keys \subseteq now /\ b.mods = mods
  OBVIOUS
<1> HIDE DEF now, mods, pending, held, left, active, chord, t, alone, matching, released, fires
<1>10. Recalls(s, t)
  BY <1>6, <1>7 DEF Recalls, pending, held, left
<1>11. fires \in SUBSET Bindings
  BY <1>1, <1>3
<1>12. pressed => \A b \in fires : b.keys # {} /\ b.keys \subseteq t.pressed /\ b.mods = Mods(t)
  BY <1>1, <1>5, <1>6, <1>7, <1>9
<1>13. ~pressed => \A b \in fires : b.keys = {} /\ b.mods = s.pending /\ s.pending # {} /\ Mods(t) = {}
  BY <1>1, <1>6, <1>7, <1>8
<1>14. Activating(s, k, pressed, t, fires)
  BY <1>6, <1>10, <1>11, <1>12, <1>13 DEF now, Activating
<1> QED BY <1>14 DEF t, fires

LEMMA DownFacts ==
  ASSUME NEW s \in Board, NEW k \in AllKeys
  PROVE  Activating(s, k, TRUE, Activated(s, k, TRUE).state, Activated(s, k, TRUE).shortcuts)
<1>1. PICK pressed \in BOOLEAN : pressed = TRUE
  OBVIOUS
<1>2. Activating(s, k, pressed, Activated(s, k, pressed).state, Activated(s, k, pressed).shortcuts)
  BY ActivatedFacts
<1> QED BY <1>1, <1>2

LEMMA UpFacts ==
  ASSUME NEW s \in Board, NEW k \in AllKeys
  PROVE  Activating(s, k, FALSE, Activated(s, k, FALSE).state, Activated(s, k, FALSE).shortcuts)
<1>1. PICK pressed \in BOOLEAN : pressed = FALSE
  OBVIOUS
<1>2. Activating(s, k, pressed, Activated(s, k, pressed).state, Activated(s, k, pressed).shortcuts)
  BY ActivatedFacts
<1> QED BY <1>1, <1>2

\* A key goes down.
Pressing(s, t, k) ==
  /\ t \in Board /\ Alike(s, t) /\ t.astray = s.astray
  /\ s.locked => OnlyTold(s, t) /\ t.told = s.told \cup {k}
  /\ ~s.locked =>
        /\ t.pressed = s.pressed \cup {k} /\ Recalls(s, t)
        /\ \/ t.told = s.told \cup {k} /\ t.suppressed = s.suppressed
           \/ t.told = s.told /\ t.suppressed = s.suppressed \cup {k}
        /\ \A b \in t.fired : \/ b \in s.fired
                              \/ ~s.inhibited /\ b.keys # {} /\ b.keys \subseteq t.pressed /\ b.mods = Mods(t)

\* A key goes up.
Releasing(s, t, k) ==
  /\ t \in Board /\ Alike(s, t)
  /\ s.locked => OnlyTold(s, t) /\ t.told = s.told \ {k} /\ t.astray = s.astray \ {k}
  /\ ~s.locked =>
        /\ t.pressed = s.pressed \ {k} /\ Recalls(s, t)
        /\ IF k \in s.suppressed
           THEN t.told = s.told /\ t.suppressed = s.suppressed \ {k} /\ t.astray = s.astray
           ELSE t.told = s.told \ {k} /\ t.suppressed = s.suppressed /\ t.astray = s.astray \ {k}
        /\ \A b \in t.fired : \/ b \in s.fired
                              \/ ~s.inhibited /\ b.keys = {} /\ b.mods = s.pending /\ s.pending # {}

LEMMA PressingFacts ==
  ASSUME NEW s \in Board, NEW k \in AllKeys
  PROVE  Pressing(s, Transitioned(s, k, TRUE), k)
<1> DEFINE t == Transitioned(s, k, TRUE)
           a == Activated(s, k, TRUE)
           u == a.state
           shortcuts == IF s.inhibited \/ k \in VtKeys THEN {} ELSE a.shortcuts
           v == [u EXCEPT !.fired = @ \cup shortcuts]
           withheld == k \in VtKeys \/ shortcuts # {}
           told == s.told \cup {k}
           suppressed == s.suppressed \cup {k}
<1> SUFFICES Pressing(s, t, k)
  OBVIOUS
<1>1. /\ u \in Board /\ Alike(s, u) /\ Recalls(s, u)
      /\ u.suppressed = s.suppressed /\ u.told = s.told /\ u.astray = s.astray /\ u.fired = s.fired
      /\ u.pressed = s.pressed \cup {k}
      /\ a.shortcuts \in SUBSET Bindings
      /\ \A b \in a.shortcuts : b.keys # {} /\ b.keys \subseteq u.pressed /\ b.mods = Mods(u)
  BY DownFacts DEF Activating
<1>2. /\ shortcuts \in SUBSET Bindings
      /\ \A b \in shortcuts : b \in a.shortcuts /\ ~s.inhibited
  BY <1>1
<1>3. t = IF s.locked THEN [s EXCEPT !.told = told]
          ELSE IF ~withheld THEN [v EXCEPT !.told = told] ELSE [v EXCEPT !.suppressed = suppressed]
  <2>1. v.told = s.told /\ v.suppressed = s.suppressed
    <3> HIDE DEF u, shortcuts
    <3> QED BY <1>1 DEF Board
  <2> QED BY <2>1 DEF Transitioned, Forwarded
<1>4. told \in SUBSET AllKeys /\ suppressed \in SUBSET AllKeys
  BY DEF Board
<1> HIDE DEF a, u, shortcuts, withheld, told, suppressed
<1>7. /\ v \in Board /\ Alike(s, v) /\ Recalls(s, v)
      /\ v.pressed = u.pressed /\ v.suppressed = s.suppressed /\ v.told = s.told /\ v.astray = s.astray
      /\ \A b \in v.fired : b \in s.fired \/ b \in shortcuts
  <2>1. v = [u EXCEPT !.fired = u.fired \cup shortcuts]
    OBVIOUS
  <2>2. u.fired \cup shortcuts \in SUBSET Bindings
    BY <1>1, <1>2 DEF Board
  <2> HIDE DEF v
  <2>3. v \in Board
    BY <1>1, <2>1, <2>2 DEF Board
  <2>4. /\ Alike(u, v) /\ v.pressed = u.pressed /\ v.pending = u.pending /\ v.held = u.held /\ v.left = u.left
        /\ v.suppressed = u.suppressed /\ v.told = u.told /\ v.astray = u.astray /\ v.fired = u.fired \cup shortcuts
    BY <1>1, <2>1 DEF Board, Alike
  <2> QED BY <1>1, <2>3, <2>4 DEF Alike, Recalls, Mods
<1>8. Mods(v) = Mods(u)
  BY <1>7 DEF Mods
<1> HIDE DEF v
<1>9. CASE s.locked
  <2>1. t = [s EXCEPT !.told = told]
    BY <1>3, <1>9
  <2> HIDE DEF t
  <2>2. t \in Board /\ Alike(s, t)
    BY <1>4, <2>1 DEF Board, Alike
  <2>3. OnlyTold(s, t) /\ t.told = told /\ t.astray = s.astray
    BY <2>1 DEF Board, OnlyTold
  <2> QED BY <1>9, <2>2, <2>3 DEF Pressing, told
<1>10. CASE ~s.locked
  <2>1. t = IF ~withheld THEN [v EXCEPT !.told = told] ELSE [v EXCEPT !.suppressed = suppressed]
    BY <1>3, <1>10
  <2> HIDE DEF t
  <2>2. /\ t \in Board /\ Alike(v, t) /\ t.pressed = v.pressed /\ t.pending = v.pending /\ t.astray = v.astray
        /\ t.held = v.held /\ t.left = v.left /\ t.fired = v.fired
    BY <1>4, <1>7, <2>1 DEF Board, Alike
  <2>3. /\ ~withheld => t.told = told /\ t.suppressed = v.suppressed
        /\ withheld => t.told = v.told /\ t.suppressed = suppressed
    BY <1>4, <1>7, <2>1 DEF Board
  <2>4. Alike(s, t) /\ Recalls(s, t) /\ Mods(t) = Mods(u)
    BY <1>7, <1>8, <2>2 DEF Alike, Recalls, Mods
  <2>5. \A b \in t.fired : \/ b \in s.fired
                           \/ ~s.inhibited /\ b \in a.shortcuts
    BY <1>2, <1>7, <2>2
  <2>6. t.pressed = u.pressed
    BY <1>7, <2>2
  <2>7. \/ t.told = s.told \cup {k} /\ t.suppressed = s.suppressed
        \/ t.told = s.told /\ t.suppressed = s.suppressed \cup {k}
    BY <1>7, <2>3 DEF told, suppressed
  <2>8. \A b \in t.fired : \/ b \in s.fired
                           \/ ~s.inhibited /\ b.keys # {} /\ b.keys \subseteq t.pressed /\ b.mods = Mods(t)
    BY <1>1, <2>4, <2>5, <2>6
  <2>9. t.astray = s.astray
    BY <1>7, <2>2
  <2> QED BY <1>1, <1>10, <2>2, <2>4, <2>6, <2>7, <2>8, <2>9 DEF Pressing
<1> QED BY <1>9, <1>10

LEMMA ReleasingFacts ==
  ASSUME NEW s \in Board, NEW k \in AllKeys
  PROVE  Releasing(s, Transitioned(s, k, FALSE), k)
<1> DEFINE t == Transitioned(s, k, FALSE)
           a == Activated(s, k, FALSE)
           u == a.state
           shortcuts == IF s.inhibited THEN {} ELSE a.shortcuts
           v == [u EXCEPT !.fired = @ \cup shortcuts]
           withheld == k \in s.suppressed
           told == s.told \ {k}
           suppressed == s.suppressed \ {k}
           astray == s.astray \ {k}
<1> SUFFICES Releasing(s, t, k)
  OBVIOUS
<1>1. /\ u \in Board /\ Alike(s, u) /\ Recalls(s, u)
      /\ u.suppressed = s.suppressed /\ u.told = s.told /\ u.astray = s.astray /\ u.fired = s.fired
      /\ u.pressed = s.pressed \ {k}
      /\ a.shortcuts \in SUBSET Bindings
      /\ \A b \in a.shortcuts : b.keys = {} /\ b.mods = s.pending /\ s.pending # {}
  BY UpFacts DEF Activating
<1>2. /\ shortcuts \in SUBSET Bindings
      /\ \A b \in shortcuts : b \in a.shortcuts /\ ~s.inhibited
  BY <1>1
<1>3. t = IF s.locked THEN [s EXCEPT !.told = told, !.astray = astray]
          ELSE IF ~withheld THEN [v EXCEPT !.told = told, !.astray = astray] ELSE [v EXCEPT !.suppressed = suppressed]
  <2>1. v.told = s.told /\ v.suppressed = s.suppressed /\ v.astray = s.astray
    <3> HIDE DEF u, shortcuts
    <3> QED BY <1>1 DEF Board
  <2> QED BY <2>1 DEF Transitioned, Forwarded
<1>4. told \in SUBSET AllKeys /\ suppressed \in SUBSET AllKeys /\ astray \in SUBSET AllKeys
  BY DEF Board
<1>5. withheld <=> k \in s.suppressed
  OBVIOUS
<1> HIDE DEF a, u, shortcuts, withheld, told, suppressed, astray
<1>7. /\ v \in Board /\ Alike(s, v) /\ Recalls(s, v)
      /\ v.pressed = u.pressed /\ v.suppressed = s.suppressed /\ v.told = s.told /\ v.astray = s.astray
      /\ \A b \in v.fired : b \in s.fired \/ b \in shortcuts
  <2>1. v = [u EXCEPT !.fired = u.fired \cup shortcuts]
    OBVIOUS
  <2>2. u.fired \cup shortcuts \in SUBSET Bindings
    BY <1>1, <1>2 DEF Board
  <2> HIDE DEF v
  <2>3. v \in Board
    BY <1>1, <2>1, <2>2 DEF Board
  <2>4. /\ Alike(u, v) /\ v.pressed = u.pressed /\ v.pending = u.pending /\ v.held = u.held /\ v.left = u.left
        /\ v.suppressed = u.suppressed /\ v.told = u.told /\ v.astray = u.astray /\ v.fired = u.fired \cup shortcuts
    BY <1>1, <2>1 DEF Board, Alike
  <2> QED BY <1>1, <2>3, <2>4 DEF Alike, Recalls, Mods
<1>8. Mods(v) = Mods(u)
  BY <1>7 DEF Mods
<1> HIDE DEF v
<1>9. CASE s.locked
  <2>1. t = [s EXCEPT !.told = told, !.astray = astray]
    BY <1>3, <1>9
  <2> HIDE DEF t
  <2>2. t \in Board /\ Alike(s, t)
    BY <1>4, <2>1 DEF Board, Alike
  <2>3. OnlyTold(s, t) /\ t.told = told /\ t.astray = astray
    BY <2>1 DEF Board, OnlyTold
  <2> QED BY <1>9, <2>2, <2>3 DEF Releasing, told, astray
<1>10. CASE ~s.locked
  <2>1. t = IF ~withheld THEN [v EXCEPT !.told = told, !.astray = astray] ELSE [v EXCEPT !.suppressed = suppressed]
    BY <1>3, <1>10
  <2> HIDE DEF t
  <2>2. /\ t \in Board /\ Alike(v, t) /\ t.pressed = v.pressed /\ t.pending = v.pending
        /\ t.held = v.held /\ t.left = v.left /\ t.fired = v.fired
    BY <1>4, <1>7, <2>1 DEF Board, Alike
  <2>3. /\ ~withheld => t.told = told /\ t.suppressed = v.suppressed /\ t.astray = astray
        /\ withheld => t.told = v.told /\ t.suppressed = suppressed /\ t.astray = v.astray
    BY <1>4, <1>7, <2>1 DEF Board
  <2>4. Alike(s, t) /\ Recalls(s, t) /\ Mods(t) = Mods(u)
    BY <1>7, <1>8, <2>2 DEF Alike, Recalls, Mods
  <2>5. \A b \in t.fired : \/ b \in s.fired
                           \/ ~s.inhibited /\ b \in a.shortcuts
    BY <1>2, <1>7, <2>2
  <2>6. t.pressed = u.pressed
    BY <1>7, <2>2
  <2>7. IF k \in s.suppressed
        THEN t.told = s.told /\ t.suppressed = s.suppressed \ {k} /\ t.astray = s.astray
        ELSE t.told = s.told \ {k} /\ t.suppressed = s.suppressed /\ t.astray = s.astray \ {k}
    BY <1>5, <1>7, <2>3 DEF told, suppressed, astray
  <2>8. \A b \in t.fired : \/ b \in s.fired
                           \/ ~s.inhibited /\ b.keys = {} /\ b.mods = s.pending /\ s.pending # {}
    BY <1>1, <2>5
  <2> QED BY <1>1, <1>10, <2>2, <2>4, <2>6, <2>7, <2>8 DEF Releasing
<1> QED BY <1>9, <1>10

------------------------------------------------------------------------------
\* What sticky keys make of a key that goes down, before anybody hears of it.
AllButSticky(s, b) ==
  /\ b.down = s.down /\ b.sticky = s.sticky /\ b.bound = s.bound /\ b.inhibited = s.inhibited
  /\ b.locked = s.locked /\ b.pressed = s.pressed /\ b.suppressed = s.suppressed
  /\ b.pending = s.pending /\ b.held = s.held /\ b.left = s.left /\ b.told = s.told /\ b.astray = s.astray

Struck(s, b, k) ==
  /\ b \in Board /\ AllButSticky(s, b) /\ b.fired = {}
  /\ ~s.sticky => b.modifier = s.modifier /\ b.typed = s.typed
  /\ s.sticky /\ k \in Modifiers =>
        b.modifier = [s.modifier EXCEPT ![k] = ModifierDown(s, k).to] /\ b.typed = s.typed
  /\ s.sticky /\ k \notin Modifiers => b.modifier = Used(s.modifier) /\ b.typed = s.typed \cup {k}

\* The latched modifiers that an ordinary key uses up when it goes up.
Spent(s, k) ==
  IF s.typed \ {k} # {} THEN {} ELSE {m \in Modifiers : s.modifier[m] = Latched(TRUE)}

Lifted(s, b, k) ==
  /\ b \in Board /\ AllButSticky(s, b) /\ b.fired = {}
  /\ ~s.sticky => b.modifier = s.modifier /\ b.typed = s.typed
  /\ s.sticky /\ k \in Modifiers =>
        b.modifier = [s.modifier EXCEPT ![k] = ModifierUp(s, k).to] /\ b.typed = s.typed
  /\ s.sticky /\ k \notin Modifiers =>
        /\ b.modifier = [m \in Modifiers |-> IF m \in Spent(s, k) THEN Off ELSE s.modifier[m]]
        /\ b.typed = s.typed \ {k}

\* keyboard_key before it passes anything on, and what it passes on.
Before(s, k, pressed) ==
  [(IF s.sticky THEN Transformed(s, k, pressed).state ELSE s) EXCEPT !.fired = {}]
Events(s, k, pressed) ==
  IF s.sticky THEN Transformed(s, k, pressed).events ELSE <<[key |-> k, pressed |-> pressed]>>

LEMMA StruckFacts ==
  ASSUME NEW s \in Board, NEW k \in AllKeys
  PROVE  /\ Struck(s, Before(s, k, TRUE), k)
         /\ IF s.sticky /\ k \in Modifiers /\ s.modifier[k].kind # "off"
            THEN Events(s, k, TRUE) = <<>>
            ELSE Events(s, k, TRUE) = <<[key |-> k, pressed |-> TRUE]>>
<1> DEFINE b == Before(s, k, TRUE)
<1>1. CASE ~s.sticky
  <2>1. b = [s EXCEPT !.fired = {}] /\ Events(s, k, TRUE) = <<[key |-> k, pressed |-> TRUE]>>
    BY <1>1 DEF Before, Events
  <2> HIDE DEF b
  <2>2. Struck(s, b, k)
    BY <1>1, <2>1 DEF Board, Struck, AllButSticky
  <2> QED BY <1>1, <2>1, <2>2 DEF b
<1>2. CASE s.sticky /\ k \in Modifiers
  <2> DEFINE to == ModifierDown(s, k).to
  <2>1. s.modifier \in [Modifiers -> StickyModifier] /\ s.modifier[k] \in StickyModifier
    BY <1>2 DEF Board
  <2>2. to \in StickyModifier
    BY <2>1 DEF ModifierDown, StickyModifier, Held
  <2>3. ModifierDown(s, k).passed <=> s.modifier[k].kind = "off"
    BY <2>1 DEF ModifierDown, StickyModifier, Held
  <2>4. /\ b = [[s EXCEPT !.modifier[k] = to] EXCEPT !.fired = {}]
        /\ Events(s, k, TRUE) = IF ModifierDown(s, k).passed THEN <<[key |-> k, pressed |-> TRUE]>> ELSE <<>>
    BY <1>2 DEF Before, Events, Transformed
  <2> HIDE DEF b, to
  <2>5. [s.modifier EXCEPT ![k] = to] \in [Modifiers -> StickyModifier]
    BY <2>1, <2>2
  <2>6. /\ b \in Board /\ AllButSticky(s, b) /\ b.fired = {} /\ b.typed = s.typed
        /\ b.modifier = [s.modifier EXCEPT ![k] = to]
    BY <2>4, <2>5 DEF Board, AllButSticky
  <2>7. Struck(s, b, k)
    BY <1>2, <2>6 DEF Struck, to
  <2> QED BY <1>2, <2>3, <2>4, <2>7 DEF b
<1>3. CASE s.sticky /\ k \notin Modifiers
  <2>1. s.modifier \in [Modifiers -> StickyModifier] /\ k \in OrdinaryKeys /\ s.typed \cup {k} \in SUBSET OrdinaryKeys
    BY <1>3 DEF Board, AllKeys
  <2>2. Used(s.modifier) \in [Modifiers -> StickyModifier]
    BY <2>1 DEF Used, StickyModifier
  <2>3. /\ b = [[s EXCEPT !.typed = s.typed \cup {k}, !.modifier = Used(s.modifier)] EXCEPT !.fired = {}]
        /\ Events(s, k, TRUE) = <<[key |-> k, pressed |-> TRUE]>> \o [i \in 1..0 |-> Up(SetToSeq({})[i])]
    <3>1. Cardinality({}) = 0
      BY FS_EmptySet
    <3>2. s.modifier = s["modifier"]
      OBVIOUS
    <3> QED BY <1>3, <3>1 DEF Before, Events, Transformed, Board
  <2>4. Events(s, k, TRUE) = <<[key |-> k, pressed |-> TRUE]>>
    <3> DEFINE none == [i \in 1..0 |-> Up(SetToSeq({})[i])]
    <3>1. none \in Seq({}) /\ Len(none) = 0
      OBVIOUS
    <3>2. none = <<>>
      BY <3>1
    <3> HIDE DEF none
    <3>3. <<[key |-> k, pressed |-> TRUE]>> \o none = <<[key |-> k, pressed |-> TRUE]>>
      BY <3>2
    <3> QED BY <2>3, <3>3 DEF none
  <2> HIDE DEF b
  <2>5. Struck(s, b, k)
    BY <1>3, <2>1, <2>2, <2>3 DEF Board, Struck, AllButSticky
  <2> QED BY <1>3, <2>4, <2>5 DEF b
<1> QED BY <1>1, <1>2, <1>3

\* q releases k and then the modifiers in S.
Releases(q, k, S) ==
  /\ q \in Seq([key : AllKeys, pressed : BOOLEAN]) /\ Len(q) # 0
  /\ \A i \in 1..Len(q) : q[i].pressed = FALSE
  /\ q[1].key = k
  /\ \A i \in 2..Len(q) : q[i].key \in S
  /\ \A m \in S : \E i \in 2..Len(q) : q[i].key = m

\* What an ordinary key uses up.
UsedUp(s, k) == IF s.sticky /\ k \notin Modifiers THEN Spent(s, k) ELSE {}

LEMMA ReleasesOne ==
  ASSUME NEW k \in AllKeys
  PROVE  Releases(<<[key |-> k, pressed |-> FALSE]>>, k, {})
<1> DEFINE q == <<[key |-> k, pressed |-> FALSE]>>
<1>1. q \in Seq([key : AllKeys, pressed : BOOLEAN]) /\ Len(q) = 1 /\ q[1] = [key |-> k, pressed |-> FALSE]
  OBVIOUS
<1> HIDE DEF q
<1>2. Releases(q, k, {})
  BY <1>1 DEF Releases
<1> QED BY <1>2 DEF q

\* SetToSeq returns each element of a finite set.
LEMMA SetToSeqFacts ==
  ASSUME NEW S, IsFiniteSet(S)
  PROVE  /\ Cardinality(S) \in Nat
         /\ SetToSeq(S) \in [1..Cardinality(S) -> S]
         /\ \A x \in S : \E i \in 1..Cardinality(S) : SetToSeq(S)[i] = x
<1> DEFINE n == Cardinality(S)
           ks == SetToSeq(S)
<1>1. n \in Nat /\ ExistsBijection(1..n, S)
  BY FS_CardinalityType
<1>2. PICK f \in Bijection(1..n, S) : TRUE
  BY <1>1 DEF ExistsBijection
<1>3. f \in [1..n -> S] /\ IsInjective(f)
  BY <1>2 DEF Bijection, Injection, IsInjective
<1>4. ks \in [1..n -> S] /\ IsInjective(ks)
  BY <1>3 DEF SetToSeq
<1> HIDE DEF ks
<1>5. ks \in Injection(1..n, S)
  BY <1>4 DEF Injection, IsInjective
<1>6. IsFiniteSet(1..n) /\ Cardinality(1..n) = n
  BY <1>1, IntervalSize
<1>7. ks \in Surjection(1..n, S)
  BY <1>5, <1>6, FS_Injection
<1> QED BY <1>1, <1>4, <1>7 DEF Surjection, ks

LEMMA ReleasesMore ==
  ASSUME NEW k \in AllKeys, NEW S \in SUBSET Modifiers
  PROVE  Releases(<<[key |-> k, pressed |-> FALSE]>> \o [i \in 1..Cardinality(S) |-> Up(SetToSeq(S)[i])], k, S)
<1> DEFINE n == Cardinality(S)
           ks == SetToSeq(S)
           ups == [i \in 1..n |-> Up(ks[i])]
           Event == [key : AllKeys, pressed : BOOLEAN]
           first == <<[key |-> k, pressed |-> FALSE]>>
           q == first \o ups
<1>1. IsFiniteSet(S)
  BY KeysAssumption, FS_Subset
<1>2. n \in Nat /\ ks \in [1..n -> S] /\ \A x \in S : \E i \in 1..n : ks[i] = x
  BY <1>1, SetToSeqFacts
<1> HIDE DEF n, ks
<1>3. \A i \in 1..n : Up(ks[i]) \in Event
  BY <1>2 DEF Up, AllKeys
<1>4. first \in Seq(Event) /\ Len(first) = 1 /\ first[1] = [key |-> k, pressed |-> FALSE]
  OBVIOUS
<1>5. ups \in Seq(Event) /\ Len(ups) = n /\ \A i \in 1..n : ups[i] = [key |-> ks[i], pressed |-> FALSE]
  BY <1>2, <1>3 DEF Up
<1> HIDE DEF first, ups, Event
<1>6. /\ q \in Seq(Event) /\ Len(q) = 1 + n /\ q[1] = first[1]
      /\ \A i \in 1..n : q[1 + i] = ups[i]
  <2>1. PICK f \in Seq(Event) : f = first
    BY <1>4
  <2>2. PICK u \in Seq(Event) : u = ups
    BY <1>5
  <2>3. /\ f \o u \in Seq(Event) /\ Len(f \o u) = Len(f) + Len(u)
        /\ \A i \in 1..Len(f) : (f \o u)[i] = f[i]
        /\ \A i \in 1..Len(u) : (f \o u)[Len(f) + i] = u[i]
    BY ConcatAt
  <2>4. q = f \o u
    BY <2>1, <2>2
  <2>5. Len(f) = 1 /\ Len(u) = n
    <3>1. Len(first) = 1 /\ Len(ups) = n
      BY <1>4, <1>5
    <3> QED BY <2>1, <2>2, <3>1, Zenon
  <2>6. 1 \in 1..Len(f)
    BY <2>5
  <2> HIDE DEF q
  <2> QED BY <1>2, <2>1, <2>2, <2>3, <2>4, <2>5, <2>6
<1> HIDE DEF q
<1>7. \A i \in 2..Len(q) : i - 1 \in 1..n /\ 1 + (i - 1) = i
  BY <1>2, <1>6
<1>8. \A i \in 2..Len(q) : q[i].key = ks[i - 1] /\ q[i].pressed = FALSE /\ ks[i - 1] \in S
  <2> TAKE i \in 2..Len(q)
  <2> DEFINE j == i - 1
  <2>1. j \in 1..n /\ 1 + j = i
    BY <1>7
  <2> HIDE DEF j
  <2>2. q[i] = ups[j]
    BY <1>6, <2>1
  <2>3. ks[j] \in S
    BY <1>2, <2>1
  <2> QED BY <1>5, <2>1, <2>2, <2>3 DEF j
<1>9. \A i \in 1..Len(q) : q[i].pressed = FALSE
  <2> TAKE i \in 1..Len(q)
  <2>1. CASE i = 1
    BY <1>4, <1>6, <2>1
  <2>2. CASE i # 1
    <3>1. i \in 2..Len(q)
      BY <2>2
    <3> QED BY <1>8, <3>1
  <2> QED BY <2>1, <2>2
<1>10. \A m \in S : \E i \in 2..Len(q) : q[i].key = m
  <2> TAKE m \in S
  <2>1. PICK i \in 1..n : ks[i] = m
    BY <1>2
  <2>2. 1 + i \in 2..Len(q)
    BY <1>2, <1>6
  <2>3. q[1 + i] = ups[i]
    BY <1>6
  <2> QED BY <1>5, <2>1, <2>2, <2>3
<1>11. Releases(q, k, S)
  <2>1. Len(q) # 0 /\ q[1].key = k
    BY <1>2, <1>4, <1>6
  <2>2. \A i \in 2..Len(q) : q[i].key \in S
    BY <1>8
  <2> QED BY <1>6, <1>9, <1>10, <2>1, <2>2 DEF Releases, Event
<1> QED BY <1>11 DEF q, first, ups, n, ks

LEMMA LiftedFacts ==
  ASSUME NEW s \in Board, NEW k \in AllKeys
  PROVE  /\ Lifted(s, Before(s, k, FALSE), k)
         /\ IF s.sticky /\ k \in Modifiers /\ ModifierUp(s, k).to # Off
            THEN Events(s, k, FALSE) = <<>>
            ELSE Releases(Events(s, k, FALSE), k, UsedUp(s, k))
<1> DEFINE b == Before(s, k, FALSE)
<1>1. CASE ~s.sticky
  <2>1. b = [s EXCEPT !.fired = {}] /\ Events(s, k, FALSE) = <<[key |-> k, pressed |-> FALSE]>>
    BY <1>1 DEF Before, Events
  <2> HIDE DEF b
  <2>2. Lifted(s, b, k)
    BY <1>1, <2>1 DEF Board, Lifted, AllButSticky
  <2>3. Releases(Events(s, k, FALSE), k, UsedUp(s, k))
    BY <1>1, <2>1, ReleasesOne DEF UsedUp
  <2> QED BY <1>1, <2>2, <2>3 DEF b
<1>2. CASE s.sticky /\ k \in Modifiers
  <2> DEFINE to == ModifierUp(s, k).to
  <2>1. s.modifier \in [Modifiers -> StickyModifier] /\ s.modifier[k] \in StickyModifier
    BY <1>2 DEF Board
  <2>2. to \in StickyModifier
    BY <2>1 DEF ModifierUp, StickyModifier, Held, Latched, Locked, Off
  <2>3. ModifierUp(s, k).passed <=> to = Off
    BY <2>1 DEF ModifierUp, StickyModifier, Held, Latched, Locked, Off
  <2>4. /\ b = [[s EXCEPT !.modifier[k] = to] EXCEPT !.fired = {}]
        /\ Events(s, k, FALSE) = IF ModifierUp(s, k).passed THEN <<[key |-> k, pressed |-> FALSE]>> ELSE <<>>
    BY <1>2 DEF Before, Events, Transformed
  <2> HIDE DEF b, to
  <2>5. [s.modifier EXCEPT ![k] = to] \in [Modifiers -> StickyModifier]
    BY <2>1, <2>2
  <2>6. /\ b \in Board /\ AllButSticky(s, b) /\ b.fired = {} /\ b.typed = s.typed
        /\ b.modifier = [s.modifier EXCEPT ![k] = to]
    BY <2>4, <2>5 DEF Board, AllButSticky
  <2>7. Lifted(s, b, k)
    BY <1>2, <2>6 DEF Lifted, to
  <2>8. UsedUp(s, k) = {}
    BY <1>2 DEF UsedUp
  <2>9. to = Off => Releases(Events(s, k, FALSE), k, UsedUp(s, k))
    BY <2>3, <2>4, <2>8, ReleasesOne
  <2>10. to # Off => Events(s, k, FALSE) = <<>>
    BY <2>3, <2>4
  <2> QED BY <1>2, <2>7, <2>9, <2>10 DEF b, to
<1>3. CASE s.sticky /\ k \notin Modifiers
  <2> DEFINE spent == Spent(s, k)
             modifier == [m \in Modifiers |-> IF m \in spent THEN Off ELSE s.modifier[m]]
  <2>1. s.modifier \in [Modifiers -> StickyModifier] /\ k \in OrdinaryKeys /\ s.typed \ {k} \in SUBSET OrdinaryKeys
    BY <1>3 DEF Board, AllKeys
  <2>2. /\ b = [[s EXCEPT !.typed = s.typed \ {k}, !.modifier = modifier] EXCEPT !.fired = {}]
        /\ Events(s, k, FALSE) = <<[key |-> k, pressed |-> FALSE]>> \o [i \in 1..Cardinality(spent) |-> Up(SetToSeq(spent)[i])]
    BY <1>3, <2>1 DEF Before, Events, Transformed, Spent, Board
  <2>3. spent \in SUBSET Modifiers
    BY DEF Spent
  <2> HIDE DEF b, spent
  <2>4. modifier \in [Modifiers -> StickyModifier]
    BY <2>1 DEF StickyModifier, Off
  <2> HIDE DEF modifier
  <2>5. b \in Board /\ AllButSticky(s, b) /\ b.fired = {} /\ b.typed = s.typed \ {k} /\ b.modifier = modifier
    BY <2>1, <2>2, <2>4 DEF Board, AllButSticky
  <2>6. Lifted(s, b, k)
    BY <1>3, <2>5 DEF Lifted, modifier, spent
  <2>7. Releases(Events(s, k, FALSE), k, spent)
    BY <2>2, <2>3, ReleasesMore
  <2>8. spent = UsedUp(s, k)
    BY <1>3 DEF UsedUp, spent
  <2> QED BY <1>3, <2>6, <2>7, <2>8 DEF b
<1> QED BY <1>1, <1>2, <1>3

------------------------------------------------------------------------------
LEMMA TransitionedIn ==
  ASSUME NEW s \in Board, NEW k \in AllKeys, NEW pressed \in BOOLEAN
  PROVE  Transitioned(s, k, pressed) \in Board
<1>1. CASE pressed = TRUE
  <2>1. Transitioned(s, k, TRUE) \in Board
    BY PressingFacts DEF Pressing
  <2> QED BY <1>1, <2>1
<1>2. CASE pressed = FALSE
  <2>1. Transitioned(s, k, FALSE) \in Board
    BY ReleasingFacts DEF Releasing
  <2> QED BY <1>2, <2>1
<1> QED BY <1>1, <1>2

\* The transitions of q, one after the other.
Hears(g, base, q) ==
  /\ g \in [0..Len(q) -> Board] /\ g[0] = base
  /\ \A i \in 1..Len(q) : g[i] = Transitioned(g[i - 1], q[i].key, q[i].pressed)

LEMMA TransitionsSteps ==
  ASSUME NEW base \in Board, NEW q \in Seq([key : AllKeys, pressed : BOOLEAN])
  PROVE  \E g : /\ Hears(g, base, q)
                /\ FoldLeft(LAMBDA t, e : Transitioned(t, e.key, e.pressed), base, q) = g[Len(q)]
<1> DEFINE n == Len(q)
           A == Board
           step == [x \in (1..n) \X A |-> Transitioned(x[2], q[x[1]].key, q[x[1]].pressed)]
           Equation(f) == f = [s \in SUBSET DOMAIN q |->
                                 IF s = {} THEN base
                                 ELSE Transitioned(f[s \ {Max(s)}], q[Max(s)].key, q[Max(s)].pressed)]
           c == CHOOSE f : Equation(f)
<1>1. n \in Nat /\ DOMAIN q = 1..n
  OBVIOUS
<1>2. \A i \in 1..n : q[i].key \in AllKeys /\ q[i].pressed \in BOOLEAN
  <2> DEFINE Event == [key : AllKeys, pressed : BOOLEAN]
  <2>1. \A e \in Event : e.key \in AllKeys /\ e.pressed \in BOOLEAN
    OBVIOUS
  <2>2. q \in Seq(Event)
    OBVIOUS
  <2> HIDE DEF Event
  <2>3. \A i \in 1..n : q[i] \in Event
    BY <2>2
  <2> QED BY <2>1, <2>3, Zenon
<1>3. /\ step \in Steps(n, A)
      /\ \A i \in 1..n, a \in A : step[<<i, a>>] = Transitioned(a, q[i].key, q[i].pressed)
  <2> SUFFICES ASSUME NEW i \in 1..n, NEW a \in A PROVE Transitioned(a, q[i].key, q[i].pressed) \in A
    BY <1>1 DEF Steps
  <2> QED BY <1>2, TransitionedIn
<1>4. base \in A
  OBVIOUS
<1>5. \A s \in SUBSET (1..n) : s # {} => Max(s) \in 1..n /\ s \ {Max(s)} \in SUBSET (1..n)
  <2> SUFFICES ASSUME NEW s \in SUBSET (1..n), s # {} PROVE Max(s) \in s
    OBVIOUS
  <2>1. s \in SUBSET (0..n)
    OBVIOUS
  <2> QED BY <1>1, <2>1, GreatestUpTo
<1> HIDE DEF n, step, A
<1>6. PICK f : FoldsSets(f, n, A, base, step)
  BY <1>1, <1>3, <1>4, FoldExists
<1>7. Equation(f)
  BY <1>1, <1>3, <1>5, <1>6 DEF FoldsSets
<1>8. Equation(c)
  <2> HIDE DEF Equation
  <2> QED BY <1>7
<1>9. FoldLeft(LAMBDA t, e : Transitioned(t, e.key, e.pressed), base, q) = c[1..n]
  BY <1>1 DEF FoldLeft, MapThenFoldSet
<1> HIDE DEF c
<1>10. Follows(c, n, A, base, step)
  BY <1>1, <1>3, <1>5, <1>8 DEF Follows
<1>11. PICK g : Computed(g, n, A, base, step) /\ c[1..n] = g[n]
  BY <1>1, <1>3, <1>4, <1>10, FoldValue
<1>12. g \in [0..n -> A] /\ g[0] = base /\ \A i \in 1..n : g[i] = step[<<i, g[i - 1]>>]
  BY <1>11 DEF Computed
<1>13. \A i \in 1..n : g[i - 1] \in A
  BY <1>1, <1>12
<1>14. Hears(g, base, q)
  BY <1>3, <1>12, <1>13 DEF A, Hears, n
<1> QED BY <1>9, <1>11, <1>14 DEF n

\* No key, or one that goes down.
LEMMA KeyedFew ==
  ASSUME NEW s \in Board, NEW k \in AllKeys, NEW pressed \in BOOLEAN
  PROVE  /\ Before(s, k, pressed) \in Board /\ Events(s, k, pressed) = <<>>
            => Keyed(s, k, pressed) = Before(s, k, pressed)
         /\ Before(s, k, pressed) \in Board /\ Events(s, k, pressed) = <<[key |-> k, pressed |-> pressed]>>
            => Keyed(s, k, pressed) = Transitioned(Before(s, k, pressed), k, pressed)
<1> DEFINE b == Before(s, k, pressed)
           q == Events(s, k, pressed)
           Event == [key : AllKeys, pressed : BOOLEAN]
<1>1. Keyed(s, k, pressed) = FoldLeft(LAMBDA t, e : Transitioned(t, e.key, e.pressed), b, q)
  BY DEF Keyed, Before, Events
<1> HIDE DEF b, q
<1>2. ASSUME b \in Board, q = <<>> PROVE Keyed(s, k, pressed) = b
  <2>1. q \in Seq(Event) /\ Len(q) = 0
    BY <1>2
  <2>2. PICK g : Hears(g, b, q) /\ FoldLeft(LAMBDA t, e : Transitioned(t, e.key, e.pressed), b, q) = g[Len(q)]
    BY <1>2, <2>1, TransitionsSteps
  <2> QED BY <1>1, <2>1, <2>2 DEF Hears
<1>3. ASSUME b \in Board, q = <<[key |-> k, pressed |-> pressed]>> PROVE Keyed(s, k, pressed) = Transitioned(b, k, pressed)
  <2>1. q \in Seq(Event) /\ Len(q) = 1 /\ q[1].key = k /\ q[1].pressed = pressed
    BY <1>3
  <2>2. PICK g : Hears(g, b, q) /\ FoldLeft(LAMBDA t, e : Transitioned(t, e.key, e.pressed), b, q) = g[Len(q)]
    BY <1>3, <2>1, TransitionsSteps
  <2>3. 1 \in 1..Len(q) /\ 1 - 1 = 0
    BY <2>1
  <2>4. g[1] = Transitioned(g[1 - 1], q[1].key, q[1].pressed) /\ g[0] = b
    BY <2>2, <2>3, Zenon DEF Hears
  <2>5. g[1] = Transitioned(b, k, pressed)
    BY <2>1, <2>3, <2>4, Zenon
  <2>6. g[Len(q)] = g[1]
    BY <2>1
  <2> QED BY <1>1, <2>2, <2>5, <2>6, Zenon
<1> QED BY <1>2, <1>3 DEF b, q

------------------------------------------------------------------------------
\* What is remembered of the modifiers fits those that are down.
Orderly(s) ==
  /\ s.locked => s.pressed = {} /\ s.suppressed = {}
  /\ s.pending \in s.held \cup {s.left, {}}
  /\ Cardinality(Mods(s)) <= Cardinality(s.pending)

\* From s to t the keys in K go up.
Relieved(s, t, K) ==
  /\ t \in Board /\ Alike(s, t)
  /\ t.pressed = s.pressed \ K /\ t.suppressed \subseteq s.suppressed \ K
  /\ t.told \subseteq s.told /\ t.told \cap K \subseteq s.suppressed
  /\ s.astray \ K \subseteq t.astray /\ s.astray \cap t.told \subseteq t.astray
  /\ t.pending \in {s.pending, {}}
  /\ \A b \in t.fired : \/ b \in s.fired
                        \/ /\ ~s.locked /\ ~s.inhibited
                           /\ b.keys = {} /\ b.mods = s.pending /\ s.pending # {}

LEMMA ModsSize ==
  ASSUME NEW S \in SUBSET Modifiers, NEW T, T \subseteq S
  PROVE  /\ Cardinality(S) \in Nat /\ Cardinality(T) \in Nat /\ Cardinality(T) <= Cardinality(S)
         /\ Cardinality({}) = 0
<1>1. IsFiniteSet(S)
  BY KeysAssumption, FS_Subset
<1> QED BY <1>1, FS_Subset, FS_CardinalityType, FS_EmptySet

LEMMA RememberedOrderly ==
  ASSUME NEW s \in Board, Orderly(s), NEW t \in Board, Recalls(s, t)
  PROVE  /\ t.pending \in t.held \cup {t.left, {}}
         /\ Cardinality(Mods(t)) <= Cardinality(t.pending)
         /\ Mods(t) \subseteq Mods(s) => t.pending \in {s.pending, {}}
<1>1. /\ Mods(t) \in SUBSET Modifiers /\ Mods(s) \in SUBSET Modifiers
      /\ s.pending \in SUBSET Modifiers
  BY DEF Mods, Board
<1>2. /\ Cardinality(Mods(t)) \in Nat /\ Cardinality(s.pending) \in Nat /\ Cardinality(Mods(s)) \in Nat
      /\ Cardinality({}) = 0
  BY <1>1, ModsSize
<1>3. Mods(t) \subseteq Mods(s) => Cardinality(Mods(t)) <= Cardinality(Mods(s))
  BY <1>1, ModsSize
<1>4. Cardinality(Mods(s)) <= Cardinality(s.pending) /\ s.pending \in s.held \cup {s.left, {}}
  BY DEF Orderly
<1>5. CASE Mods(t) = {}
  BY <1>2, <1>5 DEF Recalls
<1>6. CASE Mods(t) # {} /\ Cardinality(Mods(t)) > Cardinality(s.pending)
  BY <1>2, <1>3, <1>4, <1>6 DEF Recalls
<1>7. CASE Mods(t) # {} /\ ~(Cardinality(Mods(t)) > Cardinality(s.pending))
  BY <1>2, <1>4, <1>7 DEF Recalls
<1> QED BY <1>5, <1>6, <1>7

LEMMA PressedOrderly ==
  ASSUME NEW s \in Board, Orderly(s), NEW k, NEW t, Pressing(s, t, k)
  PROVE  Orderly(t)
<1>1. t \in Board /\ t.locked = s.locked
  BY DEF Pressing, Alike
<1>2. CASE s.locked
  BY <1>1, <1>2 DEF Pressing, OnlyTold, Orderly, Mods
<1>3. CASE ~s.locked
  <2>1. Recalls(s, t)
    BY <1>3 DEF Pressing
  <2> QED BY <1>1, <1>3, <2>1, RememberedOrderly DEF Orderly
<1> QED BY <1>2, <1>3

LEMMA ReleasedOrderly ==
  ASSUME NEW s \in Board, Orderly(s), NEW k, NEW t, Releasing(s, t, k)
  PROVE  Orderly(t) /\ Relieved(s, t, {k})
<1>1. t \in Board /\ Alike(s, t) /\ t.locked = s.locked
  BY DEF Releasing, Alike
<1>2. CASE s.locked
  <2>1. Orderly(t)
    BY <1>1, <1>2 DEF Releasing, OnlyTold, Orderly, Mods
  <2>2. OnlyTold(s, t) /\ t.told = s.told \ {k} /\ t.astray = s.astray \ {k} /\ s.pressed = {} /\ s.suppressed = {}
    BY <1>2 DEF Releasing, Orderly
  <2> QED BY <1>1, <2>1, <2>2 DEF OnlyTold, Relieved
<1>3. CASE ~s.locked
  <2>1. Recalls(s, t) /\ t.pressed = s.pressed \ {k}
    BY <1>3 DEF Releasing
  <2>2. Mods(t) \subseteq Mods(s)
    BY <2>1 DEF Mods
  <2>3. /\ t.pending \in t.held \cup {t.left, {}} /\ Cardinality(Mods(t)) <= Cardinality(t.pending)
        /\ t.pending \in {s.pending, {}}
    BY <1>1, <2>1, <2>2, RememberedOrderly
  <2>4. Orderly(t)
    BY <1>1, <1>3, <2>3 DEF Orderly
  <2>5. /\ t.suppressed \subseteq s.suppressed \ {k} /\ t.told \subseteq s.told /\ t.told \cap {k} \subseteq s.suppressed
        /\ s.astray \ {k} \subseteq t.astray /\ s.astray \cap t.told \subseteq t.astray
    BY <1>3 DEF Releasing
  <2>6. \A b \in t.fired : \/ b \in s.fired
                           \/ ~s.inhibited /\ b.keys = {} /\ b.mods = s.pending /\ s.pending # {}
    BY <1>3 DEF Releasing
  <2> QED BY <1>1, <1>3, <2>1, <2>3, <2>4, <2>5, <2>6 DEF Relieved
<1> QED BY <1>2, <1>3

LEMMA RelievedBoth ==
  ASSUME NEW s \in Board, NEW t, NEW u, NEW K, NEW L, Relieved(s, t, K), Relieved(t, u, L)
  PROVE  Relieved(s, u, K \cup L)
<1>1. /\ u \in Board /\ Alike(s, u)
      /\ u.pressed = s.pressed \ (K \cup L) /\ u.suppressed \subseteq s.suppressed \ (K \cup L)
      /\ u.pending \in {s.pending, {}}
  BY DEF Relieved, Alike
<1>2. /\ u.told \subseteq s.told /\ u.told \cap (K \cup L) \subseteq s.suppressed
      /\ s.astray \ (K \cup L) \subseteq u.astray /\ s.astray \cap u.told \subseteq u.astray
  BY DEF Relieved
<1>3. ASSUME NEW b \in u.fired
      PROVE  \/ b \in s.fired
             \/ /\ ~s.locked /\ ~s.inhibited
                /\ b.keys = {} /\ b.mods = s.pending /\ s.pending # {}
  <2>1. t.locked = s.locked /\ t.inhibited = s.inhibited /\ t.pending \in {s.pending, {}}
    BY DEF Relieved, Alike
  <2>2. CASE b \in t.fired
    BY <2>2 DEF Relieved
  <2>3. CASE b \notin t.fired
    <3>1. /\ ~t.locked /\ ~t.inhibited
          /\ b.keys = {} /\ b.mods = t.pending /\ t.pending # {}
      BY <2>3 DEF Relieved
    <3> QED BY <2>1, <3>1
  <2> QED BY <2>2, <2>3
<1> QED BY <1>1, <1>2, <1>3 DEF Relieved

LEMMA RelievedNone ==
  ASSUME NEW s \in Board
  PROVE  Relieved(s, s, {})
BY DEF Relieved, Alike

\* A key goes up, and with it what it uses up.
LEMMA KeyedReleases ==
  ASSUME NEW s \in Board, NEW k \in AllKeys, NEW b \in Board, b = Before(s, k, FALSE), Orderly(b),
         NEW S \in SUBSET Modifiers, Releases(Events(s, k, FALSE), k, S)
  PROVE  LET u == Transitioned(b, k, FALSE)
             t == Keyed(s, k, FALSE)
         IN  Releasing(b, u, k) /\ Relieved(u, t, S) /\ Relieved(b, t, {k} \cup S) /\ Orderly(t)
<1> DEFINE q == Events(s, k, FALSE)
           u == Transitioned(b, k, FALSE)
           t == Keyed(s, k, FALSE)
           n == Len(q)
           Gone(i) == {q[j].key : j \in 2..i}
<1>1. t = FoldLeft(LAMBDA x, e : Transitioned(x, e.key, e.pressed), b, q)
  BY DEF Keyed, Before, Events
<1>2. Releases(q, k, S)
  OBVIOUS
<1> HIDE DEF q, t
<1>3. PICK g : Hears(g, b, q) /\ FoldLeft(LAMBDA x, e : Transitioned(x, e.key, e.pressed), b, q) = g[Len(q)]
  BY <1>2, TransitionsSteps DEF Releases
<1>4. t = g[n]
  BY <1>1, <1>3
<1>5. n \in Nat /\ n >= 1 /\ q[1].key = k
  BY <1>2 DEF Releases
<1> HIDE DEF n
<1>6. \A i \in 1..n : g[i] = Transitioned(g[i - 1], q[i].key, FALSE)
  <2> TAKE i \in 1..n
  <2>1. g[i] = Transitioned(g[i - 1], q[i].key, q[i].pressed)
    BY <1>3 DEF Hears, n
  <2>2. q[i].pressed = FALSE
    BY <1>2 DEF Releases, n
  <2> QED BY <2>1, <2>2
<1>7. g[0] = b /\ g[1] = u
  <2>1. g[0] = b
    BY <1>3 DEF Hears
  <2>2. g[1] = Transitioned(g[1 - 1], q[1].key, FALSE)
    <3>1. 1 \in 1..n
      BY <1>5
    <3> QED BY <3>1, <1>6, Zenon
  <2>3. 1 - 1 = 0
    OBVIOUS
  <2> QED BY <1>5, <2>1, <2>2, <2>3
<1>8. Releasing(b, u, k)
  BY ReleasingFacts
<1> HIDE DEF u
<1>9. Orderly(u) /\ Relieved(b, u, {k}) /\ u \in Board
  <2>1. Orderly(u) /\ Relieved(b, u, {k})
    BY <1>8, ReleasedOrderly
  <2> QED BY <2>1 DEF Relieved
<1> DEFINE Fine == {m \in 0..(n - 1) : g[m + 1] \in Board /\ Orderly(g[m + 1]) /\ Relieved(u, g[m + 1], Gone(m + 1))}
<1>10. 0 \in Fine
  <2>1. Gone(1) = {} /\ 0 + 1 = 1 /\ 0 \in 0..(n - 1)
    BY <1>5
  <2>2. Relieved(u, u, {})
    BY <1>9, RelievedNone
  <2> HIDE DEF Gone
  <2> QED BY <1>7, <1>9, <2>1, <2>2
<1>11. ASSUME NEW m \in 0..(n - 1), m # n - 1, m \in Fine
       PROVE  m + 1 \in Fine
  <2> DEFINE x == g[m + 1]
             p == m + 2
             y == g[p]
             e == q[p].key
  <2>1. x \in Board /\ Orderly(x) /\ Relieved(u, x, Gone(m + 1))
    BY <1>11
  <2>2. p \in 1..n /\ p \in 2..n /\ p - 1 = m + 1 /\ (m + 1) + 1 = p /\ m + 1 \in 0..(n - 1) /\ m + 1 \in Nat
    BY <1>5, <1>11
  <2>3. y = Transitioned(g[p - 1], q[p].key, FALSE)
    BY <1>6, <2>2
  <2>4. e \in AllKeys
    BY <1>2, <2>2 DEF Releases, n, AllKeys
  <2>5. Releasing(x, y, e)
    BY <2>1, <2>2, <2>3, <2>4, ReleasingFacts
  <2>6. Gone(p) = Gone(m + 1) \cup {e}
    <3>1. 2..p = (2..(m + 1)) \cup {p}
      BY <2>2
    <3> QED BY <3>1
  <2> HIDE DEF x, y, e, p, Gone
  <2>7. Orderly(y) /\ Relieved(x, y, {e})
    BY <2>1, <2>5, ReleasedOrderly
  <2>8. Relieved(u, y, Gone(m + 1) \cup {e})
    BY <1>9, <2>1, <2>7, RelievedBoth
  <2>9. Relieved(u, y, Gone(p)) /\ y \in Board
    BY <2>6, <2>7, <2>8 DEF Relieved
  <2> QED BY <2>2, <2>7, <2>9 DEF y
<1>12. n - 1 \in Fine
  <2>1. n - 1 \in Nat
    BY <1>5
  <2> HIDE DEF Fine
  <2> DEFINE N == n - 1
  <2>2. Fine \subseteq 0..N
    BY DEF Fine
  <2>3. \A m \in 0..N : m # N /\ m \in Fine => m + 1 \in Fine
    BY <1>11
  <2>4. N \in Nat
    BY <2>1
  <2> HIDE DEF N
  <2>5. 0..N \subseteq Fine
    BY <1>10, <2>2, <2>3, <2>4, InductionUpTo
  <2>6. N \in Fine
    BY <2>4, <2>5
  <2> QED BY <2>6 DEF N
<1>13. Gone(n) = S
  BY <1>2, <1>5 DEF Releases, n
<1>14. (n - 1) + 1 = n
  BY <1>5
<1> HIDE DEF Gone
<1>15. Orderly(t) /\ Relieved(u, t, S)
  BY <1>4, <1>12, <1>13, <1>14
<1>16. Relieved(b, t, {k} \cup S)
  BY <1>9, <1>15, RelievedBoth
<1> QED BY <1>8, <1>15, <1>16 DEF u, t

LEMMA SameOrderly ==
  ASSUME NEW s, NEW b, AllButSticky(s, b), Orderly(s)
  PROVE  Orderly(b)
BY DEF AllButSticky, Orderly, Mods

\* What keyboard_key does when a key goes down.
LEMMA DownOutcome ==
  ASSUME NEW s \in Board, Orderly(s), NEW k \in AllKeys
  PROVE  LET b == Before(s, k, TRUE)
             t == Keyed(s, k, TRUE)
         IN  /\ Struck(s, b, k) /\ Orderly(b)
             /\ t \in Board /\ Orderly(t) /\ t.down = s.down
             /\ IF s.sticky /\ k \in Modifiers /\ s.modifier[k].kind # "off"
                THEN t = b ELSE Pressing(b, t, k)
<1> DEFINE b == Before(s, k, TRUE)
           t == Keyed(s, k, TRUE)
           Idle == s.sticky /\ k \in Modifiers /\ s.modifier[k].kind # "off"
           q == Events(s, k, TRUE)
<1>1. Struck(s, b, k) /\ IF Idle THEN q = <<>> ELSE q = <<[key |-> k, pressed |-> TRUE]>>
  BY StruckFacts
<1>2. PICK pressed \in BOOLEAN : pressed = TRUE
  OBVIOUS
<1>3. /\ Before(s, k, pressed) \in Board /\ Events(s, k, pressed) = <<>>
         => Keyed(s, k, pressed) = Before(s, k, pressed)
      /\ Before(s, k, pressed) \in Board /\ Events(s, k, pressed) = <<[key |-> k, pressed |-> pressed]>>
         => Keyed(s, k, pressed) = Transitioned(Before(s, k, pressed), k, pressed)
  BY KeyedFew
<1>4. b \in Board /\ Orderly(b) /\ b.down = s.down
  <2> HIDE DEF b
  <2> QED BY <1>1, SameOrderly DEF Struck, AllButSticky
<1>5. /\ q = <<>> => t = b
      /\ q = <<[key |-> k, pressed |-> TRUE]>> => t = Transitioned(b, k, TRUE)
  BY <1>2, <1>3, <1>4
<1>6. CASE Idle
  BY <1>1, <1>4, <1>5, <1>6
<1>7. CASE ~Idle
  <2>1. t = Transitioned(b, k, TRUE)
    BY <1>1, <1>5, <1>7
  <2> HIDE DEF b, t
  <2>2. Pressing(b, t, k)
    BY <1>4, <2>1, PressingFacts
  <2>3. Orderly(t)
    BY <1>4, <2>2, PressedOrderly
  <2>4. t \in Board /\ t.down = b.down
    BY <2>2 DEF Pressing, Alike
  <2> QED BY <1>1, <1>4, <1>7, <2>2, <2>3, <2>4 DEF b, t
<1> QED BY <1>6, <1>7

\* What it does when a key goes up.
LEMMA UpOutcome ==
  ASSUME NEW s \in Board, Orderly(s), NEW k \in AllKeys
  PROVE  LET b == Before(s, k, FALSE)
             u == Transitioned(b, k, FALSE)
             t == Keyed(s, k, FALSE)
         IN  /\ Lifted(s, b, k) /\ Orderly(b)
             /\ t \in Board /\ Orderly(t) /\ t.down = s.down
             /\ IF s.sticky /\ k \in Modifiers /\ ModifierUp(s, k).to # Off
                THEN t = b
                ELSE Releasing(b, u, k) /\ Relieved(u, t, UsedUp(s, k)) /\ Relieved(b, t, {k} \cup UsedUp(s, k))
<1> DEFINE b == Before(s, k, FALSE)
           u == Transitioned(b, k, FALSE)
           t == Keyed(s, k, FALSE)
           Idle == s.sticky /\ k \in Modifiers /\ ModifierUp(s, k).to # Off
           q == Events(s, k, FALSE)
           S == UsedUp(s, k)
<1>1. Lifted(s, b, k) /\ IF Idle THEN q = <<>> ELSE Releases(q, k, S)
  BY LiftedFacts
<1>2. b \in Board /\ Orderly(b) /\ b.down = s.down
  <2> HIDE DEF b
  <2> QED BY <1>1, SameOrderly DEF Lifted, AllButSticky
<1>3. CASE Idle
  <2>1. PICK pressed \in BOOLEAN : pressed = FALSE
    OBVIOUS
  <2>2. /\ Before(s, k, pressed) \in Board /\ Events(s, k, pressed) = <<>>
           => Keyed(s, k, pressed) = Before(s, k, pressed)
    BY KeyedFew
  <2>3. t = b
    BY <1>1, <1>2, <1>3, <2>1, <2>2
  <2> QED BY <1>1, <1>2, <1>3, <2>3
<1>4. CASE ~Idle
  <2>1. S \in SUBSET Modifiers
    BY DEF UsedUp, Spent
  <2>2. Releases(q, k, S)
    BY <1>1, <1>4
  <2> HIDE DEF S
  <2>3. Releasing(b, u, k) /\ Relieved(u, t, S) /\ Relieved(b, t, {k} \cup S) /\ Orderly(t)
    BY <1>2, <2>1, <2>2, KeyedReleases
  <2> HIDE DEF b, t, u
  <2>4. t \in Board /\ t.down = b.down
    BY <2>3 DEF Relieved, Alike
  <2> QED BY <1>1, <1>2, <1>4, <2>3, <2>4 DEF b, t, u, S
<1> QED BY <1>3, <1>4

------------------------------------------------------------------------------
\* What is behind FiresWhatIsHeld: a shortcut with keys sees only keys that are
\* down, and one without only modifiers that were held, or left by a reload.
KeysSound(s) == Orderly(s) /\ \A k \in s.pressed \cap OrdinaryKeys : s.down[k] > 0
KeysInv == board \in Board /\ KeysSound(board)

Fires(s, t) ==
  \A b \in t.fired :
     /\ ~s.locked /\ ~s.inhibited
     /\ b.keys # {} => /\ \A k \in b.keys : t.down[k] > 0
                       /\ b.mods = {m \in Modifiers : m \in t.pressed}
     /\ b.keys = {} => b.mods \in s.held \cup {s.left}

\* What release_sticky_keys and reset_keyboard_state leave.
Spared(s, r) ==
  /\ r.down = s.down /\ r.sticky = s.sticky /\ r.locked = s.locked
  /\ r.modifier = [m \in Modifiers |-> Off] /\ r.typed = {} /\ r.fired = {}
  /\ r.told = s.told \ Virtual(s)
Unstuck(s, r) ==
  /\ r \in Board /\ Spared(s, r)
  /\ r.pressed = s.pressed \ Virtual(s) /\ r.suppressed = s.suppressed
  /\ r.pending = s.pending
  /\ r.held = IF Mods(r) = {} THEN {} ELSE s.held
  /\ r.left = IF Mods(r) = {} THEN s.pending ELSE s.left
  /\ r.astray = s.astray \cup (Virtual(s) \cap s.suppressed)
Wiped(s, r) ==
  /\ r \in Board /\ Spared(s, r)
  /\ r.pressed = {} /\ r.suppressed = {} /\ r.pending = {} /\ r.held = {} /\ r.left = {}
  /\ r.astray = s.astray \cap s.told

LEMMA ResetFacts ==
  ASSUME NEW s \in Board
  PROVE  Unstuck(s, StickyReleased(s)) /\ Wiped(s, Reset(s))
<1> DEFINE V == Virtual(s)
           off == [m \in Modifiers |-> Off]
           held == IF (s.pressed \ V) \cap Modifiers = {} THEN {} ELSE s.held
           left == IF (s.pressed \ V) \cap Modifiers = {} THEN s.pending ELSE s.left
           lost == s.astray \cup (V \cap s.suppressed)
           still == s.astray \cap s.told
           r == StickyReleased(s)
           x == Reset(s)
<1>1. /\ off \in [Modifiers -> StickyModifier] /\ held \in SUBSET SUBSET Modifiers /\ left \in SUBSET Modifiers
      /\ lost \in SUBSET AllKeys /\ still \in SUBSET AllKeys
  BY DEF Off, StickyModifier, Board
<1>2. r = [s EXCEPT !.modifier = off, !.typed = {}, !.fired = {}, !.told = s.told \ V, !.pressed = s.pressed \ V,
                    !.held = held, !.left = left, !.astray = lost]
  BY DEF StickyReleased, Board
<1>3. x = [r EXCEPT !.pressed = {}, !.active = {}, !.pending = {}, !.chord = FALSE,
                    !.suppressed = {}, !.held = {}, !.left = {}, !.astray = still]
  BY DEF Reset
<1> HIDE DEF off, V, held, left, lost, still, r, x
<1>4. /\ r \in Board
      /\ r.down = s.down /\ r.sticky = s.sticky /\ r.locked = s.locked
      /\ r.modifier = off /\ r.typed = {} /\ r.fired = {} /\ r.told = s.told \ V
      /\ r.pressed = s.pressed \ V /\ r.suppressed = s.suppressed
      /\ r.pending = s.pending /\ r.held = held /\ r.left = left /\ r.astray = lost
  BY <1>1, <1>2 DEF Board
<1>5. /\ x \in Board
      /\ x.down = r.down /\ x.sticky = r.sticky /\ x.locked = r.locked
      /\ x.modifier = r.modifier /\ x.typed = r.typed /\ x.fired = r.fired /\ x.told = r.told
      /\ x.pressed = {} /\ x.suppressed = {} /\ x.pending = {} /\ x.held = {} /\ x.left = {} /\ x.astray = still
  BY <1>1, <1>3, <1>4 DEF Board
<1>6. Mods(r) = (s.pressed \ V) \cap Modifiers
  BY <1>4 DEF Mods
<1>7. Unstuck(s, r)
  BY <1>4, <1>6 DEF Unstuck, Spared, off, V, held, left, lost
<1>8. Wiped(s, x)
  BY <1>4, <1>5 DEF Wiped, Spared, off, V, still
<1> QED BY <1>7, <1>8 DEF r, x

LEMMA KeysInitial == KeysInit => KeysInv
<1> SUFFICES ASSUME KeysInit PROVE KeysInv
  OBVIOUS
<1>1. board \in Board
  BY DEF KeysInit, Board, StickyModifier, Off
<1>2. board.pressed = {} /\ board.suppressed = {} /\ board.pending = {}
  BY DEF KeysInit
<1>3. Mods(board) = {}
  BY <1>2 DEF Mods
<1> QED BY <1>1, <1>2, <1>3, ModsSize DEF KeysInv, KeysSound, Orderly

\* A key goes down or up on one keyboard more or less.
Counted(t, x, k, n) ==
  /\ x \in Board /\ x.down = [t.down EXCEPT ![k] = n]
  /\ x.sticky = t.sticky /\ x.modifier = t.modifier /\ x.typed = t.typed /\ x.bound = t.bound
  /\ x.pressed = t.pressed /\ x.pending = t.pending /\ x.suppressed = t.suppressed
  /\ x.told = t.told /\ x.inhibited = t.inhibited /\ x.locked = t.locked
  /\ x.held = t.held /\ x.left = t.left /\ x.astray = t.astray /\ x.fired = t.fired

LEMMA CountedFacts ==
  ASSUME NEW t \in Board, NEW k \in AllKeys, NEW n \in Nat
  PROVE  Counted(t, [t EXCEPT !.down[k] = n], k, n)
<1>1. [t.down EXCEPT ![k] = n] \in [AllKeys -> Nat]
  BY DEF Board
<1> QED BY <1>1 DEF Board, Counted

LEMMA KeyDownSound ==
  ASSUME KeysInv, NEW k \in AllKeys, KeyDown(k)
  PROVE  KeysInv' /\ Fires(board, board')
<1> DEFINE s == board
           b == Before(board, k, TRUE)
           t == Keyed(board, k, TRUE)
           Idle == board.sticky /\ k \in Modifiers /\ board.modifier[k].kind # "off"
           n == board.down[k] + 1
<1>1. s \in Board /\ Orderly(s) /\ \A j \in s.pressed \cap OrdinaryKeys : s.down[j] > 0
  BY DEF KeysInv, KeysSound
<1>2. /\ Struck(s, b, k)
      /\ t \in Board /\ Orderly(t) /\ t.down = s.down
      /\ IF Idle THEN t = b ELSE Pressing(b, t, k)
  BY <1>1, DownOutcome
<1>3. n \in Nat /\ n > 0 /\ board' = [t EXCEPT !.down[k] = n]
  <2>1. board' = [t EXCEPT !.down[k] = t.down[k] + 1]
    BY DEF KeyDown
  <2>2. t.down[k] = s.down[k] /\ s.down[k] \in Nat
    BY <1>1, <1>2 DEF Board, KeyDown
  <2> HIDE DEF t
  <2> QED BY <2>1, <2>2
<1> HIDE DEF b, t, n, Idle
<1>4. b \in Board /\ AllButSticky(s, b) /\ b.fired = {}
  BY <1>2 DEF Struck
<1>5. /\ board' \in Board /\ board'.down = [t.down EXCEPT ![k] = n]
      /\ board'.pressed = t.pressed /\ board'.pending = t.pending /\ board'.suppressed = t.suppressed
      /\ board'.locked = t.locked /\ board'.held = t.held /\ board'.left = t.left /\ board'.fired = t.fired
  <2> DEFINE x == board'
  <2>1. x = [t EXCEPT !.down[k] = n] /\ t \in Board /\ n \in Nat
    BY <1>2, <1>3
  <2>2. Counted(t, x, k, n)
    BY <2>1, CountedFacts
  <2> QED BY <2>2 DEF Counted
<1>6. Mods(board') = Mods(t)
  BY <1>5 DEF Mods
<1>7. Orderly(board')
  BY <1>2, <1>5, <1>6 DEF Orderly
<1>8. t.pressed \subseteq s.pressed \cup {k}
  BY <1>2, <1>4 DEF Pressing, OnlyTold, AllButSticky
<1>9. \A j \in board'.pressed \cap OrdinaryKeys : board'.down[j] > 0
  <2> TAKE j \in board'.pressed \cap OrdinaryKeys
  <2>1. j \in AllKeys /\ s.down \in [AllKeys -> Nat]
    BY <1>1 DEF AllKeys, Board
  <2>2. CASE j = k
    BY <1>2, <1>3, <1>5, <2>1, <2>2
  <2>3. CASE j # k
    BY <1>1, <1>2, <1>5, <1>8, <2>1, <2>3
  <2> QED BY <2>2, <2>3
<1>10. Fires(s, board')
  <2> SUFFICES ASSUME NEW f \in board'.fired
               PROVE  /\ ~s.locked /\ ~s.inhibited
                      /\ f.keys # {} => /\ \A j \in f.keys : board'.down[j] > 0
                                        /\ f.mods = {m \in Modifiers : m \in board'.pressed}
                      /\ f.keys = {} => f.mods \in s.held \cup {s.left}
    BY DEF Fires
  <2>1. f \in t.fired /\ t # b /\ f \in Bindings
    BY <1>4, <1>5 DEF Board
  <2>2. Pressing(b, t, k) /\ b.locked = s.locked /\ b.inhibited = s.inhibited
    BY <1>2, <1>4, <2>1 DEF AllButSticky
  <2>3. ~s.locked
    BY <1>4, <2>1, <2>2 DEF Pressing, OnlyTold
  <2>4. ~s.inhibited /\ f.keys # {} /\ f.keys \subseteq t.pressed /\ f.mods = Mods(t)
    BY <1>4, <2>1, <2>2, <2>3 DEF Pressing
  <2>5. f.keys \subseteq board'.pressed \cap OrdinaryKeys
    BY <1>5, <2>1, <2>4, BindingsFacts
  <2>6. f.mods = {m \in Modifiers : m \in board'.pressed}
    BY <1>6, <2>4 DEF Mods
  <2> QED BY <1>9, <2>3, <2>4, <2>5, <2>6
<1> QED BY <1>5, <1>7, <1>9, <1>10 DEF KeysInv, KeysSound

LEMMA KeyUpSound ==
  ASSUME KeysInv, NEW k \in AllKeys, KeyUp(k)
  PROVE  KeysInv' /\ Fires(board, board')
<1> DEFINE s == board
           b == Before(board, k, FALSE)
           u == Transitioned(b, k, FALSE)
           t == Keyed(board, k, FALSE)
           Idle == board.sticky /\ k \in Modifiers /\ ModifierUp(board, k).to # Off
           K == {k} \cup UsedUp(board, k)
           n == board.down[k] - 1
<1>1. s \in Board /\ Orderly(s) /\ \A j \in s.pressed \cap OrdinaryKeys : s.down[j] > 0
  BY DEF KeysInv, KeysSound
<1>2. /\ Lifted(s, b, k)
      /\ t \in Board /\ Orderly(t) /\ t.down = s.down
      /\ IF Idle THEN t = b ELSE Releasing(b, u, k) /\ Relieved(u, t, UsedUp(s, k)) /\ Relieved(b, t, K)
  BY <1>1, UpOutcome
<1>3. n \in Nat /\ board' = [t EXCEPT !.down[k] = n]
  <2>1. board' = [t EXCEPT !.down[k] = t.down[k] - 1]
    BY DEF KeyUp
  <2>2. t.down[k] = s.down[k] /\ s.down[k] \in Nat /\ s.down[k] > 0
    BY <1>1, <1>2 DEF Board, KeyUp
  <2> HIDE DEF t
  <2> QED BY <2>1, <2>2
<1>4. k \in K
  OBVIOUS
<1> HIDE DEF b, u, t, n, K, Idle
<1>5. b \in Board /\ AllButSticky(s, b) /\ b.fired = {}
  BY <1>2 DEF Lifted
<1>6. /\ board' \in Board /\ board'.down = [t.down EXCEPT ![k] = n]
      /\ board'.pressed = t.pressed /\ board'.pending = t.pending /\ board'.suppressed = t.suppressed
      /\ board'.locked = t.locked /\ board'.held = t.held /\ board'.left = t.left /\ board'.fired = t.fired
  <2> DEFINE x == board'
  <2>1. x = [t EXCEPT !.down[k] = n] /\ t \in Board /\ n \in Nat
    BY <1>2, <1>3
  <2>2. Counted(t, x, k, n)
    BY <2>1, CountedFacts
  <2> QED BY <2>2 DEF Counted
<1>7. Mods(board') = Mods(t)
  BY <1>6 DEF Mods
<1>8. Orderly(board')
  BY <1>2, <1>6, <1>7 DEF Orderly
<1>9. t.pressed \subseteq s.pressed /\ (k \in OrdinaryKeys => k \notin t.pressed)
  <2>1. CASE Idle
    BY <1>2, <1>5, <2>1, KeysAssumption DEF AllButSticky, Idle
  <2>2. CASE ~Idle
    BY <1>2, <1>4, <1>5, <2>2 DEF AllButSticky, Relieved
  <2> QED BY <2>1, <2>2
<1>10. \A j \in board'.pressed \cap OrdinaryKeys : board'.down[j] > 0
  <2> TAKE j \in board'.pressed \cap OrdinaryKeys
  <2>1. j \in AllKeys /\ s.down \in [AllKeys -> Nat] /\ j # k /\ j \in s.pressed
    BY <1>1, <1>6, <1>9 DEF AllKeys, Board
  <2> QED BY <1>1, <1>2, <1>6, <2>1
<1>11. Fires(s, board')
  <2> SUFFICES ASSUME NEW f \in board'.fired
               PROVE  /\ ~s.locked /\ ~s.inhibited
                      /\ f.keys # {} => /\ \A j \in f.keys : board'.down[j] > 0
                                        /\ f.mods = {m \in Modifiers : m \in board'.pressed}
                      /\ f.keys = {} => f.mods \in s.held \cup {s.left}
    BY DEF Fires
  <2>1. f \in t.fired /\ t # b
    BY <1>5, <1>6
  <2>2. Relieved(b, t, K) /\ b.locked = s.locked /\ b.inhibited = s.inhibited /\ b.pending = s.pending
    BY <1>2, <1>5, <2>1 DEF AllButSticky
  <2>3. /\ ~b.locked /\ ~b.inhibited
        /\ f.keys = {} /\ f.mods = b.pending /\ b.pending # {}
    BY <1>5, <2>1, <2>2 DEF Relieved
  <2>4. s.pending \in s.held \cup {s.left}
    BY <1>1, <2>2, <2>3 DEF Orderly
  <2> QED BY <2>2, <2>3, <2>4
<1> QED BY <1>6, <1>8, <1>10, <1>11 DEF KeysInv, KeysSound

LEMMA QuietFires ==
  ASSUME NEW s, NEW t, t.fired = {}
  PROVE  Fires(s, t)
BY DEF Fires

\* They are sound.
LEMMA UnstuckSound ==
  ASSUME NEW s \in Board, KeysSound(s), NEW r, Unstuck(s, r)
  PROVE  KeysSound(r)
<1>1. r.pressed \subseteq s.pressed /\ Mods(r) \subseteq Mods(s)
  BY DEF Unstuck, Mods
<1>2. Mods(s) \in SUBSET Modifiers
  BY DEF Mods, Board
<1>3. /\ Cardinality(Mods(r)) <= Cardinality(Mods(s))
      /\ Cardinality(Mods(r)) \in Nat /\ Cardinality(Mods(s)) \in Nat
  BY <1>1, <1>2, ModsSize
<1>4. Cardinality(s.pending) \in Nat
  <2>1. s.pending \in SUBSET Modifiers
    BY DEF Board
  <2> QED BY <2>1, ModsSize
<1>5. Orderly(r)
  <2>1. /\ r.locked = s.locked /\ r.suppressed = s.suppressed /\ r.pending = s.pending
        /\ r.pending = r.left \/ (r.held = s.held /\ r.left = s.left)
    BY DEF Unstuck, Spared
  <2> QED BY <1>1, <1>3, <1>4, <2>1 DEF Orderly, KeysSound
<1> QED BY <1>1, <1>5 DEF KeysSound, Unstuck, Spared

LEMMA WipedSound ==
  ASSUME NEW s, NEW r, Wiped(s, r)
  PROVE  KeysSound(r)
<1>1. Mods(r) = {} /\ r.pending = {}
  BY DEF Wiped, Mods
<1>2. Cardinality({}) = 0
  BY FS_EmptySet
<1> QED BY <1>1, <1>2 DEF KeysSound, Orderly, Wiped

------------------------------------------------------------------------------
\* What is behind KeysReleased when a key is down on one keyboard at most.
ReallyDown(s) == {k \in AllKeys : s.down[k] > 0} \cup Virtual(s)

Believed(s) ==
  /\ s.pressed \subseteq ReallyDown(s)
  /\ s.told \cup s.suppressed \subseteq ReallyDown(s) \cup s.astray
  /\ s.told \cap s.suppressed \subseteq s.astray
Sticking(s) ==
  /\ \A m \in Modifiers : s.modifier[m].kind = "held" => s.down[m] = 1
  /\ \A m \in Virtual(s) : s.down[m] = 0
  /\ ~s.sticky => \A m \in Modifiers : s.modifier[m] = Off
KeysExact(s) == (\A k \in AllKeys : s.down[k] <= 1) /\ Believed(s) /\ Sticking(s)

LEMMA KindsDiffer ==
  /\ Off.kind = "off" /\ Locked.kind = "locked"
  /\ \A used \in BOOLEAN : Latched(used).kind = "latched"
  /\ \A p, used : Held(p, used).kind = "held"
BY DEF Off, Locked, Latched, Held

\* A reset keeps nothing but what is down, or astray.
LEMMA ResetExact ==
  ASSUME NEW s \in Board, KeysExact(s), NEW r \in Board, r.down = s.down,
         r.modifier = [m \in Modifiers |-> Off], r.told = s.told \ Virtual(s),
         r.pressed \subseteq s.pressed \ Virtual(s), r.suppressed \subseteq s.suppressed,
         s.astray \cap s.told \subseteq r.astray,
         r.suppressed = {} \/ s.astray \cup (Virtual(s) \cap s.suppressed) \subseteq r.astray
  PROVE  KeysExact(r)
<1>1. \A m \in Modifiers : r.modifier[m] = Off
  OBVIOUS
<1>2. Virtual(r) = {}
  BY <1>1, KindsDiffer DEF Virtual
<1>3. ReallyDown(r) = {k \in AllKeys : s.down[k] > 0} /\ ReallyDown(s) = ReallyDown(r) \cup Virtual(s)
  BY <1>2 DEF ReallyDown
<1>4. Believed(r)
  <2>1. /\ s.pressed \subseteq ReallyDown(s)
        /\ s.told \cup s.suppressed \subseteq ReallyDown(s) \cup s.astray
        /\ s.told \cap s.suppressed \subseteq s.astray
    BY DEF KeysExact, Believed
  <2> QED BY <1>3, <2>1 DEF Believed
<1>5. Sticking(r)
  BY <1>1, <1>2, KindsDiffer DEF Sticking
<1> QED BY <1>4, <1>5 DEF KeysExact

\* The state a key that goes down leaves, on the one keyboard.
LEMMA KeyDownExact ==
  ASSUME NEW s \in Board, Orderly(s), KeysExact(s), NEW k \in AllKeys, s.down[k] = 0,
         NEW b, Struck(s, b, k), NEW t \in Board,
         IF s.sticky /\ k \in Modifiers /\ s.modifier[k].kind # "off" THEN t = b ELSE Pressing(b, t, k),
         NEW x, Counted(t, x, k, 1)
  PROVE  KeysExact(x)
<1> DEFINE Idle == s.sticky /\ k \in Modifiers /\ s.modifier[k].kind # "off"
<1>1. /\ b \in Board /\ b.down = s.down /\ b.sticky = s.sticky /\ b.locked = s.locked /\ b.told = s.told
      /\ b.pressed = s.pressed /\ b.suppressed = s.suppressed /\ b.astray = s.astray
  BY DEF Struck, AllButSticky
<1>2. /\ t.down = b.down /\ t.sticky = b.sticky /\ t.modifier = b.modifier /\ t.astray = b.astray
  BY DEF Pressing, Alike
<1>3. /\ x \in Board /\ x.down = [s.down EXCEPT ![k] = 1] /\ x.sticky = s.sticky
      /\ x.modifier = b.modifier /\ x.astray = s.astray
      /\ x.pressed = t.pressed /\ x.suppressed = t.suppressed /\ x.told = t.told
  BY <1>1, <1>2 DEF Counted
<1>4. s.down \in [AllKeys -> Nat] /\ s.modifier \in [Modifiers -> StickyModifier]
  BY DEF Board
<1>5. /\ x.down[k] = 1 /\ \A j \in AllKeys : j # k => x.down[j] = s.down[j]
      /\ \A j \in AllKeys : x.down[j] <= 1
  BY <1>3, <1>4 DEF KeysExact
<1>6. Modifiers \subseteq AllKeys
  BY DEF AllKeys
\* The modifiers.
<1>7. \A m \in Modifiers : m # k => x.modifier[m].kind = s.modifier[m].kind
  <2> TAKE m \in Modifiers
  <2>1. CASE ~s.sticky
    BY <1>3, <2>1 DEF Struck
  <2>2. CASE s.sticky /\ k \in Modifiers
    BY <1>3, <1>4, <2>2 DEF Struck
  <2>3. CASE s.sticky /\ k \notin Modifiers
    <3>1. b.modifier = Used(s.modifier)
      BY <2>3 DEF Struck
    <3>2. b.modifier[m].kind = s.modifier[m].kind
      BY <1>4, <3>1 DEF Used, StickyModifier
    <3> QED BY <1>3, <3>2
  <2> QED BY <2>1, <2>2, <2>3
<1>8. k \in Modifiers => /\ s.sticky => x.modifier[k] = Held(s.modifier[k].kind, s.typed # {})
                         /\ ~s.sticky => x.modifier[k] = Off
  <2> SUFFICES ASSUME k \in Modifiers
               PROVE  /\ s.sticky => x.modifier[k] = Held(s.modifier[k].kind, s.typed # {})
                      /\ ~s.sticky => x.modifier[k] = Off
    OBVIOUS
  <2>1. s.modifier[k].kind # "held"
    BY DEF KeysExact, Sticking
  <2>2. ModifierDown(s, k).to = Held(s.modifier[k].kind, s.typed # {})
    BY <2>1 DEF ModifierDown
  <2>3. s.sticky => x.modifier = [s.modifier EXCEPT ![k] = ModifierDown(s, k).to]
    BY <1>3 DEF Struck
  <2>4. ~s.sticky => x.modifier[k] = Off
    BY <1>3 DEF Struck, KeysExact, Sticking
  <2> QED BY <1>4, <2>2, <2>3, <2>4
<1>9. Virtual(x) = Virtual(s) \ {k}
  <2>1. k \notin Virtual(x)
    BY <1>8, KindsDiffer DEF Virtual
  <2>2. \A m \in Modifiers : m # k => (m \in Virtual(x) <=> m \in Virtual(s))
    BY <1>7 DEF Virtual
  <2> QED BY <2>1, <2>2 DEF Virtual
<1>10. ReallyDown(x) = ReallyDown(s) \cup {k}
  BY <1>5, <1>9 DEF ReallyDown
\* What is believed.
<1>11. ~Idle => k \notin ReallyDown(s)
  <2>1. k \in Virtual(s) => Idle
    BY KindsDiffer DEF Virtual, KeysExact, Sticking
  <2> QED BY <2>1 DEF ReallyDown
<1>12. /\ x.pressed \subseteq s.pressed \cup {k} /\ x.told \subseteq s.told \cup {k} /\ x.suppressed \subseteq s.suppressed \cup {k}
       /\ x.told \cap x.suppressed \subseteq s.astray
  <2>1. CASE Idle
    <3>1. t = b
      BY <2>1
    <3> QED BY <1>1, <1>3, <3>1 DEF KeysExact, Believed
  <2>2. CASE ~Idle
    <3>1. Pressing(b, t, k)
      BY <2>2
    <3>2. k \notin s.astray => k \notin s.told /\ k \notin s.suppressed
      BY <1>11, <2>2 DEF KeysExact, Believed
    <3>3. s.told \cap s.suppressed \subseteq s.astray
      BY DEF KeysExact, Believed
    <3>4. CASE s.locked
      BY <1>1, <1>3, <3>1, <3>2, <3>3, <3>4 DEF Pressing, OnlyTold
    <3>5. CASE ~s.locked
      <4>1. /\ t.pressed = s.pressed \cup {k}
            /\ \/ t.told = s.told \cup {k} /\ t.suppressed = s.suppressed
               \/ t.told = s.told /\ t.suppressed = s.suppressed \cup {k}
        BY <1>1, <3>1, <3>5 DEF Pressing
      <4> QED BY <1>3, <3>2, <3>3, <4>1
    <3> QED BY <3>4, <3>5
  <2> QED BY <2>1, <2>2
<1>13. Believed(x)
  <2>1. /\ s.pressed \subseteq ReallyDown(s)
        /\ s.told \cup s.suppressed \subseteq ReallyDown(s) \cup s.astray
    BY DEF KeysExact, Believed
  <2> QED BY <1>3, <1>10, <1>12, <2>1 DEF Believed
\* What a sticky modifier is.
<1>14. \A m \in Modifiers : x.modifier[m].kind = "held" => x.down[m] = 1
  BY <1>5, <1>6, <1>7 DEF KeysExact, Sticking
<1>15. \A m \in Virtual(x) : x.down[m] = 0
  <2> TAKE m \in Virtual(x)
  <2>1. m \in Virtual(s) /\ m # k /\ m \in AllKeys
    BY <1>6, <1>9 DEF Virtual
  <2> QED BY <1>5, <2>1 DEF KeysExact, Sticking
<1>16. ~x.sticky => \A m \in Modifiers : x.modifier[m] = Off
  BY <1>3 DEF Struck, KeysExact, Sticking
<1>17. Sticking(x)
  BY <1>14, <1>15, <1>16 DEF Sticking
<1> QED BY <1>5, <1>13, <1>17 DEF KeysExact

\* What becomes of a modifier that goes up.
LEMMA LiftedModifier ==
  ASSUME NEW s \in Board, NEW k \in Modifiers
  PROVE  LET to == ModifierUp(s, k).to
         IN  /\ to.kind # "held"
             /\ to # Off => to.kind \in {"latched", "locked"}
<1>1. s.modifier[k] \in StickyModifier
  BY DEF Board
<1> QED BY <1>1 DEF ModifierUp, StickyModifier, Held, Latched, Locked, Off

\* The state a key that goes up leaves, on the one keyboard.
LEMMA KeyUpExact ==
  ASSUME NEW s \in Board, Orderly(s), KeysExact(s), NEW k \in AllKeys, s.down[k] > 0,
         NEW b, Lifted(s, b, k), NEW u, NEW t \in Board,
         IF s.sticky /\ k \in Modifiers /\ ModifierUp(s, k).to # Off THEN t = b
         ELSE Releasing(b, u, k) /\ Relieved(b, t, {k} \cup UsedUp(s, k)),
         NEW x, Counted(t, x, k, 0)
  PROVE  KeysExact(x)
<1> DEFINE Idle == s.sticky /\ k \in Modifiers /\ ModifierUp(s, k).to # Off
           S == UsedUp(s, k)
<1>1. /\ b \in Board /\ b.down = s.down /\ b.sticky = s.sticky /\ b.locked = s.locked /\ b.told = s.told
      /\ b.pressed = s.pressed /\ b.suppressed = s.suppressed /\ b.astray = s.astray
  BY DEF Lifted, AllButSticky
<1>2. /\ t.down = b.down /\ t.sticky = b.sticky /\ t.modifier = b.modifier
  BY DEF Relieved, Alike
<1>3. /\ x \in Board /\ x.down = [s.down EXCEPT ![k] = 0] /\ x.sticky = s.sticky
      /\ x.modifier = b.modifier /\ x.astray = t.astray
      /\ x.pressed = t.pressed /\ x.suppressed = t.suppressed /\ x.told = t.told
  BY <1>1, <1>2 DEF Counted
<1>4. s.down \in [AllKeys -> Nat] /\ s.modifier \in [Modifiers -> StickyModifier]
  BY DEF Board
<1>5. /\ x.down[k] = 0 /\ \A j \in AllKeys : j # k => x.down[j] = s.down[j]
      /\ \A j \in AllKeys : x.down[j] <= 1
  BY <1>3, <1>4 DEF KeysExact
<1>6. Modifiers \subseteq AllKeys /\ s.down[k] = 1
  BY <1>4 DEF AllKeys, KeysExact
<1>7. k \notin Virtual(s)
  BY <1>6 DEF KeysExact, Sticking
<1>8. S \subseteq Virtual(s)
  BY KindsDiffer DEF UsedUp, Spent, Virtual
\* The modifiers.
<1>9. \A m \in Modifiers : m # k => x.modifier[m] = IF m \in S THEN Off ELSE s.modifier[m]
  <2> TAKE m \in Modifiers
  <2>1. CASE ~s.sticky
    BY <1>3, <2>1 DEF Lifted, UsedUp
  <2>2. CASE s.sticky /\ k \in Modifiers
    <3> DEFINE to == ModifierUp(s, k).to
    <3>1. b.modifier = [s.modifier EXCEPT ![k] = to] /\ S = {}
      BY <2>2 DEF Lifted, UsedUp
    <3> HIDE DEF to, S
    <3> QED BY <1>3, <1>4, <3>1
  <2>3. CASE s.sticky /\ k \notin Modifiers
    BY <1>3, <2>3 DEF Lifted, UsedUp
  <2> QED BY <2>1, <2>2, <2>3
<1>10. k \in Modifiers => x.modifier[k] = IF s.sticky THEN ModifierUp(s, k).to ELSE Off
  <2> SUFFICES ASSUME k \in Modifiers
               PROVE  x.modifier[k] = IF s.sticky THEN ModifierUp(s, k).to ELSE Off
    OBVIOUS
  <2>1. CASE ~s.sticky
    BY <1>3, <2>1 DEF Lifted, KeysExact, Sticking
  <2>2. CASE s.sticky
    <3> DEFINE to == ModifierUp(s, k).to
    <3>1. b.modifier = [s.modifier EXCEPT ![k] = to]
      BY <2>2 DEF Lifted
    <3> HIDE DEF to
    <3>2. b.modifier[k] = to
      BY <1>4, <3>1
    <3> QED BY <1>3, <2>2, <3>2 DEF to
  <2> QED BY <2>1, <2>2
<1>11. Virtual(x) = (Virtual(s) \ S) \cup (IF Idle THEN {k} ELSE {})
  <2>1. \A m \in Modifiers : m # k => (m \in Virtual(x) <=> m \in Virtual(s) \ S)
    BY <1>9, KindsDiffer DEF Virtual
  <2>2. k \in Virtual(x) <=> Idle
    <3>1. CASE k \in Modifiers
      BY <1>10, <3>1, LiftedModifier, KindsDiffer DEF Virtual
    <3>2. CASE k \notin Modifiers
      BY <3>2 DEF Virtual
    <3> QED BY <3>1, <3>2
  <2>3. Virtual(x) \subseteq Modifiers /\ Virtual(s) \subseteq Modifiers
    BY DEF Virtual
  <2>4. Idle => k \in Modifiers
    OBVIOUS
  <2> HIDE DEF Idle, S
  <2> QED BY <1>7, <2>1, <2>2, <2>3, <2>4
<1>12. Idle => S = {}
  BY DEF UsedUp
\* What is believed.
<1>13. /\ Idle => x.told = s.told /\ x.pressed = s.pressed /\ x.suppressed = s.suppressed /\ x.astray = s.astray
       /\ ~Idle => /\ x.pressed = s.pressed \ ({k} \cup S) /\ x.suppressed \subseteq s.suppressed \ ({k} \cup S)
                   /\ x.told \subseteq s.told /\ x.told \cap ({k} \cup S) \subseteq s.suppressed
                   /\ s.astray \ ({k} \cup S) \subseteq x.astray /\ s.astray \cap x.told \subseteq x.astray
  <2>1. CASE Idle
    <3>1. t = b
      BY <2>1
    <3> QED BY <1>1, <1>3, <2>1, <3>1
  <2>2. CASE ~Idle
    <3>1. Relieved(b, t, {k} \cup S)
      BY <2>2
    <3> HIDE DEF S
    <3> QED BY <1>1, <1>3, <2>2, <3>1 DEF Relieved
  <2> QED BY <2>1, <2>2
<1> HIDE DEF Idle, S
<1>14. ReallyDown(s) \ ({k} \cup S) \subseteq ReallyDown(x) /\ (Idle => ReallyDown(s) \subseteq ReallyDown(x))
  <2>1. \A j \in AllKeys : j # k /\ s.down[j] > 0 => j \in ReallyDown(x)
    BY <1>5 DEF ReallyDown
  <2>2. \A j \in Virtual(s) : j \notin S => j \in ReallyDown(x)
    BY <1>11 DEF ReallyDown
  <2>3. Idle => k \in ReallyDown(x)
    BY <1>11 DEF ReallyDown
  <2> QED BY <1>12, <2>1, <2>2, <2>3 DEF ReallyDown
<1>15. Believed(x)
  <2>1. /\ s.pressed \subseteq ReallyDown(s)
        /\ s.told \cup s.suppressed \subseteq ReallyDown(s) \cup s.astray
        /\ s.told \cap s.suppressed \subseteq s.astray
    BY DEF KeysExact, Believed
  <2>2. CASE Idle
    BY <1>13, <1>14, <2>1, <2>2 DEF Believed
  <2>3. CASE ~Idle
    BY <1>13, <1>14, <2>1, <2>3 DEF Believed
  <2> QED BY <2>2, <2>3
\* What a sticky modifier is.
<1>16. \A m \in Modifiers : x.modifier[m].kind = "held" => x.down[m] = 1
  <2> TAKE m \in Modifiers
  <2>1. CASE m = k
    <3>1. x.modifier[k].kind # "held"
      BY <1>10, <2>1, LiftedModifier, KindsDiffer
    <3> QED BY <2>1, <3>1
  <2>2. CASE m # k
    BY <1>5, <1>6, <1>9, <2>2, KindsDiffer DEF KeysExact, Sticking
  <2> QED BY <2>1, <2>2
<1>17. \A m \in Virtual(x) : x.down[m] = 0
  <2> TAKE m \in Virtual(x)
  <2>1. m \in AllKeys
    BY <1>6 DEF Virtual
  <2>2. m # k => m \in Virtual(s)
    BY <1>11
  <2> QED BY <1>5, <2>1, <2>2 DEF KeysExact, Sticking
<1>18. ~x.sticky => \A m \in Modifiers : x.modifier[m] = Off
  BY <1>3 DEF Lifted, KeysExact, Sticking
<1>19. Sticking(x)
  BY <1>16, <1>17, <1>18 DEF Sticking
<1> QED BY <1>5, <1>15, <1>19 DEF KeysExact

------------------------------------------------------------------------------
\* The steps that are not a key.
Clears(s, r) ==
  /\ r \in Board /\ KeysSound(r) /\ r.fired = {} /\ r.down = s.down
  /\ r.modifier = [m \in Modifiers |-> Off] /\ r.told = s.told \ Virtual(s)
  /\ r.pressed \subseteq s.pressed \ Virtual(s) /\ r.suppressed \subseteq s.suppressed
  /\ s.astray \cap s.told \subseteq r.astray
  /\ r.suppressed = {} \/ s.astray \cup (Virtual(s) \cap s.suppressed) \subseteq r.astray

Keeps(s, r) ==
  /\ r \in Board /\ KeysSound(r) /\ r.fired = {} /\ r.down = s.down
  /\ r.modifier = s.modifier /\ r.told = s.told /\ r.astray = s.astray
  /\ r.pressed = s.pressed /\ r.suppressed = s.suppressed
  /\ r.sticky # s.sticky => r.sticky

LEMMA ClearingSteps ==
  ASSUME KeysInv, LockKeys \/ UnlockKeys \/ PauseSession \/ ChangeKeymap \/ SetSticky(FALSE)
  PROVE  Clears(board, board')
<1> DEFINE s == board
           r == StickyReleased(board)
           x == Reset(board)
           y == board'
<1>1. s \in Board /\ KeysSound(s)
  BY DEF KeysInv
<1>2. Unstuck(s, r) /\ Wiped(s, x) /\ KeysSound(r) /\ KeysSound(x)
  BY <1>1, ResetFacts, UnstuckSound, WipedSound
<1> HIDE DEF r, x
<1>4. ASSUME NEW locked \in BOOLEAN, y = [x EXCEPT !.locked = locked] PROVE Clears(s, y)
  <2> HIDE DEF y
  <2>1. /\ y \in Board /\ y.pressed = {} /\ y.suppressed = {} /\ y.pending = {} /\ y.held = {}
        /\ y.down = s.down /\ y.fired = {} /\ y.astray = s.astray \cap s.told
        /\ y.modifier = [m \in Modifiers |-> Off] /\ y.told = s.told \ Virtual(s)
    <3>1. /\ x \in Board /\ x.pressed = {} /\ x.suppressed = {} /\ x.pending = {} /\ x.held = {}
          /\ x.down = s.down /\ x.fired = {} /\ x.astray = s.astray \cap s.told
          /\ x.modifier = [m \in Modifiers |-> Off] /\ x.told = s.told \ Virtual(s)
      BY <1>2 DEF Wiped, Spared
    <3>2. /\ y \in Board /\ y.pressed = x.pressed /\ y.suppressed = x.suppressed /\ y.pending = x.pending
          /\ y.held = x.held /\ y.down = x.down /\ y.fired = x.fired /\ y.astray = x.astray
          /\ y.modifier = x.modifier /\ y.told = x.told
      BY <1>4, <3>1 DEF Board
    <3> QED BY <3>1, <3>2
  <2>2. Cardinality({}) = 0 /\ Mods(y) = {}
    BY <2>1, FS_EmptySet DEF Mods
  <2>3. KeysSound(y)
    BY <2>1, <2>2 DEF KeysSound, Orderly
  <2> QED BY <2>1, <2>3 DEF Clears
<1>5. CASE LockKeys \/ UnlockKeys
  <2>1. y = [x EXCEPT !.locked = TRUE] \/ y = [x EXCEPT !.locked = FALSE]
    BY <1>5 DEF LockKeys, UnlockKeys, x
  <2> HIDE DEF y
  <2>2. PICK locked \in BOOLEAN : y = [x EXCEPT !.locked = locked]
    BY <2>1
  <2> QED BY <1>4, <2>2 DEF y
<1>6. CASE PauseSession
  <2>1. y = x
    BY <1>6 DEF PauseSession, x
  <2> QED BY <1>2, <2>1 DEF Wiped, Spared, Clears
<1>7. CASE ChangeKeymap
  <2>1. y = r
    BY <1>7 DEF ChangeKeymap, r
  <2> QED BY <1>2, <2>1 DEF Unstuck, Spared, Clears
<1>8. CASE SetSticky(FALSE)
  <2>1. y = [r EXCEPT !.sticky = FALSE, !.fired = {}]
    BY <1>8 DEF SetSticky, r
  <2> HIDE DEF y
  <2>2. /\ y \in Board /\ y.pressed = r.pressed /\ y.suppressed = r.suppressed /\ y.pending = r.pending
        /\ y.held = r.held /\ y.left = r.left /\ y.down = r.down /\ y.fired = {} /\ y.locked = r.locked
        /\ y.modifier = r.modifier /\ y.told = r.told /\ y.astray = r.astray
    BY <1>2, <2>1 DEF Board, Unstuck
  <2>3. Mods(y) = Mods(r)
    BY <2>2 DEF Mods
  <2>4. KeysSound(y)
    BY <1>2, <2>2, <2>3 DEF KeysSound, Orderly
  <2> QED BY <1>2, <2>2, <2>4 DEF Unstuck, Spared, Clears, y
<1> QED BY <1>5, <1>6, <1>7, <1>8

LEMMA KeepingSteps ==
  ASSUME KeysInv, \/ SetSticky(TRUE) \/ Inhibit
                  \/ \E b \in Bindings : Bind(b) \/ Unbind(b)
  PROVE  Keeps(board, board')
<1> DEFINE s == board
           y == board'
<1>1. s \in Board /\ KeysSound(s)
  BY DEF KeysInv
<1>2. ASSUME /\ y \in Board /\ y.fired = {} /\ y.down = s.down /\ y.locked = s.locked
             /\ y.modifier = s.modifier /\ y.told = s.told /\ y.astray = s.astray
             /\ y.pressed = s.pressed /\ y.suppressed = s.suppressed
             /\ y.pending = s.pending /\ y.held = s.held /\ y.left = s.left,
             y.sticky # s.sticky => y.sticky
      PROVE  Keeps(s, y)
  <2>1. Mods(y) = Mods(s)
    BY <1>2 DEF Mods
  <2>2. KeysSound(y)
    BY <1>1, <1>2, <2>1 DEF KeysSound, Orderly
  <2> QED BY <1>2, <2>2 DEF Keeps
<1>3. CASE SetSticky(TRUE)
  <2>1. y = [s EXCEPT !.sticky = TRUE, !.fired = {}]
    BY <1>3 DEF SetSticky
  <2> HIDE DEF y
  <2>2. /\ y \in Board /\ y.fired = {} /\ y.down = s.down /\ y.locked = s.locked
        /\ y.modifier = s.modifier /\ y.told = s.told /\ y.astray = s.astray
        /\ y.pressed = s.pressed /\ y.suppressed = s.suppressed
        /\ y.pending = s.pending /\ y.held = s.held /\ y.left = s.left /\ y.sticky
    BY <1>1, <2>1 DEF Board
  <2> QED BY <1>2, <2>1, <2>2 DEF y
<1>4. CASE Inhibit
  <2>1. y = [s EXCEPT !.inhibited = ~s.inhibited, !.fired = {}]
    BY <1>4 DEF Inhibit
  <2>2. PICK v \in BOOLEAN : y = [s EXCEPT !.inhibited = v, !.fired = {}]
    BY <2>1
  <2> HIDE DEF y
  <2>3. /\ y \in Board /\ y.fired = {} /\ y.down = s.down /\ y.locked = s.locked
        /\ y.modifier = s.modifier /\ y.told = s.told /\ y.astray = s.astray
        /\ y.pressed = s.pressed /\ y.suppressed = s.suppressed
        /\ y.pending = s.pending /\ y.held = s.held /\ y.left = s.left /\ y.sticky = s.sticky
    BY <1>1, <2>2 DEF Board
  <2> QED BY <1>2, <2>3 DEF y
<1>5. ASSUME NEW b \in Bindings, Bind(b) \/ Unbind(b) PROVE Keeps(s, y)
  <2>1. PICK some \in SUBSET Bindings : y = [s EXCEPT !.bound = some, !.active = s.active \ {b}, !.fired = {}]
    <3>1. s.bound \cup {b} \in SUBSET Bindings /\ s.bound \ {b} \in SUBSET Bindings
      BY <1>1 DEF Board
    <3> QED BY <1>5, <3>1 DEF Bind, Unbind
  <2>2. s.active \ {b} \in SUBSET Bindings
    BY <1>1 DEF Board
  <2> HIDE DEF y
  <2>3. /\ y \in Board /\ y.fired = {} /\ y.down = s.down /\ y.locked = s.locked
        /\ y.modifier = s.modifier /\ y.told = s.told /\ y.astray = s.astray
        /\ y.pressed = s.pressed /\ y.suppressed = s.suppressed
        /\ y.pending = s.pending /\ y.held = s.held /\ y.left = s.left /\ y.sticky = s.sticky
    BY <1>1, <2>1, <2>2 DEF Board
  <2> QED BY <1>2, <2>3 DEF y
<1> QED BY <1>3, <1>4, <1>5

LEMMA KeysCases ==
  ASSUME KeysNext
  PROVE  \/ \E k \in AllKeys : KeyDown(k) \/ KeyUp(k)
         \/ LockKeys \/ UnlockKeys \/ PauseSession \/ ChangeKeymap \/ SetSticky(FALSE)
         \/ SetSticky(TRUE) \/ Inhibit
         \/ \E b \in Bindings : Bind(b) \/ Unbind(b)
<1>1. CASE \E on \in BOOLEAN : SetSticky(on)
  <2>1. PICK on \in BOOLEAN : SetSticky(on)
    BY <1>1
  <2>2. on = TRUE \/ on = FALSE
    OBVIOUS
  <2> QED BY <2>1, <2>2
<1> QED BY <1>1 DEF KeysNext

\* Every step keeps the invariant, and activates what is held.
LEMMA KeysStep ==
  ASSUME KeysInv, KeysNext
  PROVE  KeysInv' /\ Fires(board, board')
<1>1. CASE \E k \in AllKeys : KeyDown(k) \/ KeyUp(k)
  BY <1>1, KeyDownSound, KeyUpSound
<1>2. CASE LockKeys \/ UnlockKeys \/ PauseSession \/ ChangeKeymap \/ SetSticky(FALSE)
  BY <1>2, ClearingSteps, QuietFires DEF Clears, KeysInv
<1>3. CASE SetSticky(TRUE) \/ Inhibit \/ \E b \in Bindings : Bind(b) \/ Unbind(b)
  <2>1. Keeps(board, board')
    BY <1>3, KeepingSteps
  <2> QED BY <2>1, QuietFires DEF Keeps, KeysInv
<1> QED BY <1>1, <1>2, <1>3, KeysCases

LEMMA KeysExactInitial == KeysInit => KeysExact(board)
<1> SUFFICES ASSUME KeysInit PROVE KeysExact(board)
  OBVIOUS
<1>1. /\ \A m \in Modifiers : board.modifier[m] = Off
      /\ \A k \in AllKeys : board.down[k] = 0
      /\ board.told = {} /\ board.pressed = {} /\ board.suppressed = {}
  BY DEF KeysInit
<1>2. Virtual(board) = {}
  BY <1>1, KindsDiffer DEF Virtual
<1> QED BY <1>1, <1>2, KindsDiffer DEF KeysExact, Believed, Sticking

LEMMA KeysExactStep ==
  ASSUME MaxDown = 1, KeysInv, KeysExact(board), KeysNext
  PROVE  KeysExact(board')
<1> DEFINE s == board
<1>1. s \in Board /\ KeysSound(s) /\ Orderly(s)
  BY DEF KeysInv, KeysSound
<1>2. ASSUME NEW k \in AllKeys, KeyDown(k) PROVE KeysExact(board')
  <2> DEFINE b == Before(s, k, TRUE)
             t == Keyed(s, k, TRUE)
             x == board'
  <2>1. /\ Struck(s, b, k) /\ t \in Board /\ t.down = s.down
        /\ IF s.sticky /\ k \in Modifiers /\ s.modifier[k].kind # "off" THEN t = b ELSE Pressing(b, t, k)
    BY <1>1, DownOutcome
  <2>2. x = [t EXCEPT !.down[k] = t.down[k] + 1] /\ s.down[k] < 1
    BY <1>2 DEF KeyDown
  <2> HIDE DEF b, t, x
  <2>3. s.down[k] = 0
    <3>1. s.down[k] \in Nat
      BY <1>1 DEF Board
    <3> QED BY <2>2, <3>1
  <2>4. x = [t EXCEPT !.down[k] = 1]
    BY <2>1, <2>2, <2>3
  <2>5. Counted(t, x, k, 1)
    BY <2>1, <2>4, CountedFacts
  <2>6. KeysExact(x)
    BY <1>1, <2>1, <2>3, <2>5, KeyDownExact
  <2> QED BY <2>6 DEF x
<1>3. ASSUME NEW k \in AllKeys, KeyUp(k) PROVE KeysExact(board')
  <2> DEFINE b == Before(s, k, FALSE)
             u == Transitioned(b, k, FALSE)
             t == Keyed(s, k, FALSE)
             x == board'
  <2>1. /\ Lifted(s, b, k) /\ t \in Board /\ t.down = s.down
        /\ IF s.sticky /\ k \in Modifiers /\ ModifierUp(s, k).to # Off THEN t = b
           ELSE Releasing(b, u, k) /\ Relieved(b, t, {k} \cup UsedUp(s, k))
    BY <1>1, UpOutcome
  <2>2. x = [t EXCEPT !.down[k] = t.down[k] - 1] /\ s.down[k] > 0
    BY <1>3 DEF KeyUp
  <2> HIDE DEF b, u, t, x
  <2>3. s.down[k] - 1 = 0
    <3>1. s.down[k] \in Nat /\ s.down[k] <= 1
      BY <1>1 DEF Board, KeysExact
    <3> QED BY <2>2, <3>1
  <2>4. x = [t EXCEPT !.down[k] = 0]
    BY <2>1, <2>2, <2>3
  <2>5. Counted(t, x, k, 0)
    BY <2>1, <2>4, CountedFacts
  <2>6. KeysExact(x)
    BY <1>1, <2>1, <2>2, <2>5, KeyUpExact
  <2> QED BY <2>6 DEF x
<1>4. CASE LockKeys \/ UnlockKeys \/ PauseSession \/ ChangeKeymap \/ SetSticky(FALSE)
  <2> DEFINE x == board'
  <2>1. Clears(s, x)
    BY <1>4, ClearingSteps
  <2> HIDE DEF x
  <2>2. KeysExact(x)
    BY <1>1, <2>1, ResetExact DEF Clears
  <2> QED BY <2>2 DEF x
<1>5. CASE SetSticky(TRUE) \/ Inhibit \/ \E b \in Bindings : Bind(b) \/ Unbind(b)
  <2> DEFINE x == board'
  <2>1. Keeps(s, x)
    BY <1>5, KeepingSteps
  <2>0. x.sticky \in BOOLEAN /\ s.sticky \in BOOLEAN
    BY <1>1, <2>1 DEF Keeps, Board
  <2> HIDE DEF x
  <2>2. Virtual(x) = Virtual(s)
    BY <2>1 DEF Keeps, Virtual
  <2>3. ReallyDown(x) = ReallyDown(s)
    BY <2>1, <2>2 DEF Keeps, ReallyDown
  <2>4. Believed(x)
    BY <2>1, <2>3 DEF Keeps, KeysExact, Believed
  <2>5. Sticking(x)
    BY <2>0, <2>1, <2>2 DEF Keeps, KeysExact, Sticking
  <2>6. KeysExact(x)
    BY <2>1, <2>4, <2>5 DEF Keeps, KeysExact
  <2> QED BY <2>6 DEF x
<1> QED BY <1>2, <1>3, <1>4, <1>5, KeysCases

------------------------------------------------------------------------------
(* The scene and the pointer.  What is hit in a layer, a window and the    *)
(* stack is the last thing painted there, part by part: each part of the   *)
(* scene is a block of the sequence that is painted, and the foremost of   *)
(* two blocks is that of the later one if it has anything at the point.    *)
(* So the two orders agree in every scene; that the focus follows is kept  *)
(* step by step, as every operation either marks the focus or leaves       *)
(* alone what is below the pointer.                                        *)

\* The things that are hit and painted, where, and the elements of a scene.
Parts == {"frame", "client", "popup"}
Things == {Nobody, Locker} \cup (Parts \X Apps) \cup ({"panel"} \X DOMAIN Panels)
Places == Int \cup Points \cup UNION {Panels[l].covers : l \in DOMAIN Panels}
Shapes == [is : Things, area : SUBSET Places]

\* Nothing is painted for nobody.
Named(s) == \A i \in 1..Len(s) : s[i].is # Nobody

\* The element at p that is painted last.
LEMMA ForemostAt ==
  ASSUME NEW s \in Seq(Shapes), NEW p
  PROVE  /\ (\A i \in 1..Len(s) : p \notin s[i].area) => Foremost(s, p) = Nobody
         /\ \A i \in 1..Len(s) : p \in s[i].area /\ (\A j \in 1..Len(s) : j > i => p \notin s[j].area)
                                   => Foremost(s, p) = s[i].is
<1> DEFINE n == Len(s)
           P == {i \in DOMAIN s : p \in s[i].area}
<1>1. n \in Nat /\ P \in SUBSET (1..n) /\ \A i \in 1..n : i \in P <=> p \in s[i].area
  OBVIOUS
<1>2. Foremost(s, p) = IF P = {} THEN Nobody ELSE s[Max(P)].is
  BY DEF Foremost
<1> HIDE DEF n, P
<1>3. \A i \in P : (\A j \in 1..n : j > i => j \notin P) => Max(P) = i
  BY <1>1, MaxIsLast
<1>4. (\A i \in 1..n : p \notin s[i].area) => Foremost(s, p) = Nobody
  BY <1>1, <1>2
<1>5. ASSUME NEW i \in 1..n, p \in s[i].area, \A j \in 1..n : j > i => p \notin s[j].area
      PROVE  Foremost(s, p) = s[i].is
  BY <1>1, <1>2, <1>3, <1>5
<1> QED BY <1>4, <1>5 DEF n

\* There is one or none.
LEMMA ForemostSome ==
  ASSUME NEW s \in Seq(Shapes), NEW p
  PROVE  \/ /\ \A i \in 1..Len(s) : p \notin s[i].area
            /\ Foremost(s, p) = Nobody
         \/ \E i \in 1..Len(s) : /\ p \in s[i].area /\ \A j \in 1..Len(s) : j > i => p \notin s[j].area
                                 /\ Foremost(s, p) = s[i].is
<1> DEFINE n == Len(s)
           P == {i \in 1..n : p \in s[i].area}
<1>1. n \in Nat /\ P \in SUBSET (1..n)
  OBVIOUS
<1>2. \A i \in 1..n : i \in P <=> p \in s[i].area
  OBVIOUS
<1> HIDE DEF n, P
<1>3. P = {} \/ \E i \in P : \A j \in 1..n : j > i => j \notin P
  BY <1>1, LastPosition
<1>4. CASE P = {}
  <2>1. \A i \in 1..n : p \notin s[i].area
    BY <1>2, <1>4
  <2> QED BY <2>1, ForemostAt DEF n
<1>5. CASE P # {}
  <2>1. PICK i \in P : \A j \in 1..n : j > i => j \notin P
    BY <1>3, <1>5
  <2>2. i \in 1..n /\ p \in s[i].area /\ \A j \in 1..n : j > i => p \notin s[j].area
    BY <1>1, <1>2, <2>1
  <2> QED BY <2>2, ForemostAt DEF n
<1> QED BY <1>4, <1>5

\* What comes later covers what comes earlier.
LEMMA ForemostBoth ==
  ASSUME NEW a \in Seq(Shapes), NEW b \in Seq(Shapes), NEW p, Named(b)
  PROVE  /\ a \o b \in Seq(Shapes)
         /\ Foremost(a \o b, p) = FirstOf(Foremost(b, p), Foremost(a, p))
         /\ Named(a) => Named(a \o b)
<1> DEFINE c == a \o b
           m == Len(a)
           n == Len(b)
<1>1. /\ c \in Seq(Shapes) /\ m \in Nat /\ n \in Nat /\ Len(c) = m + n
      /\ \A i \in 1..m : c[i] = a[i]
      /\ \A i \in 1..n : c[m + i] = b[i]
  BY ConcatAt
<1>2. \A k \in 1..(m + n) : k \in 1..m \/ (k - m \in 1..n /\ c[k] = b[k - m])
  <2> SUFFICES ASSUME NEW k \in 1..(m + n), k \notin 1..m PROVE k - m \in 1..n /\ c[k] = b[k - m]
    OBVIOUS
  <2>1. k - m \in 1..n /\ m + (k - m) = k
    BY <1>1
  <2> QED BY <1>1, <2>1
<1>3. \A i \in 1..m : i \in 1..(m + n)
  BY <1>1
<1>4. \A i \in 1..n : m + i \in 1..(m + n)
  BY <1>1
<1> HIDE DEF c, m, n
<1>5. Named(a) => Named(c)
  <2> SUFFICES ASSUME Named(a), NEW k \in 1..(m + n) PROVE c[k].is # Nobody
    BY <1>1 DEF Named
  <2> QED BY <1>1, <1>2 DEF Named, m, n
<1>6. Foremost(c, p) = FirstOf(Foremost(b, p), Foremost(a, p))
  <2>1. CASE \A i \in 1..n : p \notin b[i].area
    <3>1. Foremost(b, p) = Nobody
      BY <2>1, ForemostAt DEF n
    <3>2. \A k \in 1..(m + n) : k \in 1..m \/ p \notin c[k].area
      BY <1>2, <2>1
    <3>3. CASE \A i \in 1..m : p \notin a[i].area
      <4>1. \A k \in 1..(m + n) : p \notin c[k].area
        BY <1>1, <3>2, <3>3
      <4>2. Foremost(c, p) = Nobody /\ Foremost(a, p) = Nobody
        BY <1>1, <3>3, <4>1, ForemostAt DEF m
      <4> QED BY <3>1, <4>2 DEF FirstOf
    <3>4. CASE \E i \in 1..m : p \in a[i].area
      <4>1. PICK i \in 1..m : /\ p \in a[i].area /\ \A j \in 1..m : j > i => p \notin a[j].area
                              /\ Foremost(a, p) = a[i].is
        BY <3>4, ForemostSome DEF m
      <4>2. i \in 1..(m + n) /\ p \in c[i].area /\ c[i] = a[i]
        BY <1>1, <1>3, <4>1
      <4>3. \A k \in 1..(m + n) : k > i => p \notin c[k].area
        BY <1>1, <3>2, <4>1
      <4>4. Foremost(c, p) = c[i].is
        BY <1>1, <4>2, <4>3, ForemostAt
      <4> QED BY <3>1, <4>1, <4>2, <4>4 DEF FirstOf
    <3> QED BY <3>3, <3>4
  <2>2. CASE \E i \in 1..n : p \in b[i].area
    <3>1. PICK i \in 1..n : /\ p \in b[i].area /\ \A j \in 1..n : j > i => p \notin b[j].area
                            /\ Foremost(b, p) = b[i].is
      BY <2>2, ForemostSome DEF n
    <3>2. m + i \in 1..(m + n) /\ c[m + i] = b[i]
      BY <1>1, <1>4
    <3>3. \A k \in 1..(m + n) : k > m + i => p \notin c[k].area
      <4> SUFFICES ASSUME NEW k \in 1..(m + n), k > m + i PROVE p \notin c[k].area
        OBVIOUS
      <4>1. k \notin 1..m /\ k - m > i
        BY <1>1, <3>1
      <4>2. k - m \in 1..n /\ c[k] = b[k - m]
        BY <1>2, <4>1
      <4> QED BY <3>1, <4>1, <4>2
    <3> DEFINE k == m + i
    <3>6. k \in 1..Len(c) /\ p \in c[k].area /\ \A j \in 1..Len(c) : j > k => p \notin c[j].area
      BY <1>1, <3>1, <3>2, <3>3
    <3> HIDE DEF k
    <3>7. Foremost(c, p) = c[k].is
      BY <1>1, <3>6, ForemostAt
    <3>4. Foremost(c, p) = c[m + i].is
      BY <3>7 DEF k
    <3>5. b[i].is # Nobody
      BY DEF Named, n
    <3> QED BY <3>1, <3>2, <3>4, <3>5 DEF FirstOf
  <2> QED BY <2>1, <2>2
<1> QED BY <1>1, <1>5, <1>6 DEF c

\* Nothing is painted.
LEMMA ForemostNone == \A p : Foremost(<<>>, p) = Nobody /\ Named(<<>>) /\ <<>> \in Seq(Shapes)
<1> TAKE p
<1> DEFINE s == <<>>
<1>1. s \in Seq(Shapes) /\ Len(s) = 0
  OBVIOUS
<1> HIDE DEF s
<1>2. \A i \in 1..Len(s) : FALSE
  BY <1>1
<1>3. Foremost(s, p) = Nobody
  BY <1>1, <1>2, ForemostAt
<1> QED BY <1>1, <1>2, <1>3 DEF Named, s

\* The panels of a layer are painted in the order in which they are hit.
LEMMA PanelsSeen ==
  ASSUME panels \in Seq(DOMAIN Panels), NEW layer, NEW p
  PROVE  /\ OnLayer(layer) \in Seq(Shapes) /\ Named(OnLayer(layer))
         /\ Foremost(OnLayer(layer), p) = LayerTarget(layer, p)
<1> DEFINE A == {l \in DOMAIN Panels : Panels[l].layer = layer}
           B == {l \in DOMAIN Panels : Panels[l].layer = layer /\ p \in Panels[l].covers}
           on == Retained(panels, A)
           H == {k \in DOMAIN panels : Panels[panels[k]].layer = layer /\ p \in Panels[panels[k]].covers}
           s == [i \in DOMAIN on |-> [is |-> <<"panel", on[i]>>, area |-> Panels[on[i]].covers]]
           n == Len(panels)
           m == Len(on)
<1>1. PICK e : Picks(e, on, panels, n, A)
  BY RetainedPicks
<1>2. on \in Seq(DOMAIN Panels) /\ m \in Nat /\ n \in Nat /\ DOMAIN on = 1..m
      /\ \A i \in 1..m : on[i] \in DOMAIN Panels
  BY RetainedPicks
<1>3. /\ e \in [1..m -> 1..n]
      /\ \A i \in 1..m : on[i] = panels[e[i]] /\ on[i] \in A
      /\ \A i, j \in 1..m : i < j => e[i] < e[j]
      /\ \A k \in 1..n : panels[k] \in A => \E i \in 1..m : e[i] = k
  BY <1>1 DEF Picks
<1>4. OnLayer(layer) = s
  BY DEF OnLayer
<1>5. LayerTarget(layer, p) = IF H = {} THEN Nobody ELSE <<"panel", panels[Max(H)]>>
  BY DEF LayerTarget
<1>6. \A l \in DOMAIN Panels : l \in B <=> l \in A /\ p \in Panels[l].covers
  OBVIOUS
<1>7. B \subseteq A /\ \A i \in 1..n : panels[i] \in DOMAIN Panels
  OBVIOUS
<1>8. /\ (\A i \in 1..n : panels[i] \notin B) => LayerTarget(layer, p) = Nobody
      /\ \A i \in 1..n : panels[i] \in B /\ (\A j \in 1..n : j > i => panels[j] \notin B)
                           => LayerTarget(layer, p) = <<"panel", panels[i]>>
  <2>1. H \in SUBSET (1..n) /\ \A i \in 1..n : i \in H <=> panels[i] \in B
    BY <1>7
  <2> HIDE DEF H, B, n
  <2>2. \A i \in H : (\A j \in 1..n : j > i => j \notin H) => Max(H) = i
    BY <1>2, <2>1, MaxIsLast
  <2> QED BY <1>5, <2>1, <2>2
<1> HIDE DEF on, A, B, H
<1>9. s \in Seq(Shapes) /\ Len(s) = m /\ Named(s)
  <2>1. \A i \in 1..m : s[i].is = <<"panel", on[i]>> /\ s[i].area = Panels[on[i]].covers /\ s[i] \in Shapes
    BY <1>2 DEF Shapes, Things, Places
  <2>2. s = [i \in 1..m |-> s[i]]
    BY <1>2
  <2>3. s \in [1..m -> Shapes]
    BY <2>1, <2>2
  <2>4. s \in Seq(Shapes) /\ Len(s) = m
    BY <1>2, <2>3
  <2>5. \A i \in 1..m : s[i].is # Nobody
    BY <2>1 DEF Nobody
  <2> QED BY <2>4, <2>5 DEF Named
<1>10. \A i \in 1..m : /\ s[i].is = <<"panel", panels[e[i]]>> /\ e[i] \in 1..n
                       /\ p \in s[i].area <=> panels[e[i]] \in B
  BY <1>2, <1>3, <1>6, <1>7
<1> HIDE DEF s
<1>11. CASE \A i \in 1..m : p \notin s[i].area
  <2>1. \A k \in 1..n : panels[k] \notin B
    BY <1>3, <1>7, <1>10, <1>11
  <2>2. Foremost(s, p) = Nobody
    BY <1>9, <1>11, ForemostAt
  <2> QED BY <1>4, <1>8, <1>9, <2>1, <2>2
<1>12. CASE \E i \in 1..m : p \in s[i].area
  <2>1. PICK i \in 1..m : /\ p \in s[i].area /\ \A j \in 1..m : j > i => p \notin s[j].area
                          /\ Foremost(s, p) = s[i].is
    BY <1>9, <1>12, ForemostSome
  <2>2. e[i] \in 1..n /\ panels[e[i]] \in B
    BY <1>10, <2>1
  <2>3. \A k \in 1..n : k > e[i] => panels[k] \notin B
    <3> SUFFICES ASSUME NEW k \in 1..n, k > e[i], panels[k] \in B PROVE FALSE
      OBVIOUS
    <3>1. PICK j \in 1..m : e[j] = k
      BY <1>3, <1>7
    <3>2. p \in s[j].area
      BY <1>10, <3>1
    <3>3. ~(j > i)
      BY <2>1, <3>2
    <3>4. j = i \/ j < i
      BY <1>2, <3>3
    <3>5. j < i => e[j] < e[i]
      BY <1>3
    <3> QED BY <1>3, <3>1, <3>4, <3>5
  <2>4. LayerTarget(layer, p) = <<"panel", panels[e[i]]>>
    BY <1>8, <2>2, <2>3
  <2> QED BY <1>4, <1>9, <1>10, <2>1, <2>4
<1> QED BY <1>11, <1>12

\* The types of the windows.
AppTypes == app \in [Apps -> [at : Int, fullscreen : BOOLEAN, popup : BOOLEAN]]

\* Whatever of a window is painted at p.
WindowSeenAt(w, p) == Foremost(WindowElements(w), p)

LEMMA WindowAreas ==
  ASSUME AppTypes, NEW w \in Apps
  PROVE  /\ Client(w) \in SUBSET Int /\ Popup(w) \in SUBSET Int /\ Controls(w) \in SUBSET Int
         /\ FrameBy(w, 0) \in SUBSET Int /\ FrameBy(w, 0) \subseteq FrameBy(w, Outset)
         /\ Controls(w) # {} => FrameBy(w, Outset) = {}
<1>1. app[w].at \in Int /\ Width[w] \in Nat /\ Outset \in Nat
  BY PointerSceneAssumption DEF AppTypes
<1> DEFINE at == app[w].at
           width == Width[w]
<1>2. at \in Int /\ width \in Nat
  BY <1>1
<1>3. Client(w) = at .. (at + width - 1)
  BY DEF Client
<1>4. Popup(w) = IF app[w].popup THEN {at + width - 1, at + width} ELSE {}
  BY DEF Popup
<1>5. Controls(w) = IF Style[w] = "overlay" /\ ~app[w].fullscreen THEN {at + width - 1} ELSE {}
  BY DEF Controls
<1>6. \A o : FrameBy(w, o) = IF Style[w] = "frame" /\ ~app[w].fullscreen THEN (at - 1 - o) .. (at + width + o) ELSE {}
  BY DEF FrameBy
<1> HIDE DEF at, width
<1>7. (at - 1 - 0) .. (at + width + 0) \subseteq (at - 1 - Outset) .. (at + width + Outset)
  BY <1>1, <1>2
<1>8. (at - 1 - 0) .. (at + width + 0) \in SUBSET Int /\ at .. (at + width - 1) \in SUBSET Int
  BY <1>2
<1>9. Client(w) \in SUBSET Int /\ Popup(w) \in SUBSET Int /\ Controls(w) \in SUBSET Int
  <2>1. at + width - 1 \in Int /\ at + width \in Int
    BY <1>2
  <2> QED BY <1>3, <1>4, <1>5, <1>8, <2>1
<1>10. FrameBy(w, 0) \in SUBSET Int
  BY <1>6, <1>8
<1>11. FrameBy(w, 0) \subseteq FrameBy(w, Outset)
  BY <1>6, <1>7
<1>12. Controls(w) # {} => FrameBy(w, Outset) = {}
  BY <1>5, <1>6
<1> QED BY <1>9, <1>10, <1>11, <1>12

\* What is painted of a window at p is what is hit of it; but its controls go
\* before its popup, and its handles are not painted.
Agreed(w, p) ==
    LET hit == WindowTarget(w, p)
        seen == Foremost(WindowElements(w), p)
    IN  \/ hit = seen
        \/ hit = <<"frame", w>> /\ p \in Controls(w) /\ seen = <<"popup", w>>
        \/ hit = <<"frame", w>> /\ p \in FrameBy(w, Outset) \ FrameBy(w, 0) /\ seen = Nobody

LEMMA WindowSeen ==
  ASSUME AppTypes, NEW w \in Apps, NEW p
  PROVE  /\ WindowElements(w) \in Seq(Shapes) /\ Named(WindowElements(w))
         /\ Agreed(w, p)
         /\ Foremost(WindowElements(w), p) \in {Nobody} \cup (Parts \X {w})
<1> DEFINE backing == [is |-> <<"frame", w>>, area |-> FrameBy(w, 0)]
           body == [is |-> <<"client", w>>, area |-> Client(w)]
           controls == [is |-> <<"frame", w>>, area |-> Controls(w)]
           popup == [is |-> <<"popup", w>>, area |-> Popup(w)]
           s == << backing, body, controls, popup >>
<1>1. WindowElements(w) = s
  BY DEF WindowElements
<1>2. /\ Client(w) \in SUBSET Places /\ Popup(w) \in SUBSET Places /\ Controls(w) \in SUBSET Places
      /\ FrameBy(w, 0) \in SUBSET Places
  BY WindowAreas DEF Places
<1>3. /\ <<"frame", w>> \in Things /\ <<"client", w>> \in Things /\ <<"popup", w>> \in Things
  BY DEF Things, Parts
<1>4. backing \in Shapes /\ body \in Shapes /\ controls \in Shapes /\ popup \in Shapes
  BY <1>2, <1>3 DEF Shapes
<1>5. /\ backing.is = <<"frame", w>> /\ backing.area = FrameBy(w, 0)
      /\ body.is = <<"client", w>> /\ body.area = Client(w)
      /\ controls.is = <<"frame", w>> /\ controls.area = Controls(w)
      /\ popup.is = <<"popup", w>> /\ popup.area = Popup(w)
  OBVIOUS
<1> HIDE DEF backing, body, controls, popup
<1>6. s \in Seq(Shapes) /\ Len(s) = 4 /\ s[1] = backing /\ s[2] = body /\ s[3] = controls /\ s[4] = popup
  BY <1>4
<1> HIDE DEF s
<1>7. 1..Len(s) = {1, 2, 3, 4}
  BY <1>6
<1>8. <<"frame", w>> # Nobody /\ <<"client", w>> # Nobody /\ <<"popup", w>> # Nobody
  BY DEF Nobody
<1>9. Named(s)
  BY <1>5, <1>6, <1>7, <1>8 DEF Named
<1>10. /\ (\A i \in 1..Len(s) : p \notin s[i].area) => Foremost(s, p) = Nobody
       /\ \A i \in 1..Len(s) : p \in s[i].area /\ (\A j \in 1..Len(s) : j > i => p \notin s[j].area)
                                 => Foremost(s, p) = s[i].is
  BY <1>6, ForemostAt
<1> DEFINE F == Foremost(s, p)
<1> HIDE DEF F
<1>24. \A i \in {1, 2, 3, 4} : p \in s[i].area /\ (\A j \in {1, 2, 3, 4} : j > i => p \notin s[j].area)
                                => F = s[i].is
  BY <1>7, <1>10 DEF F
<1>25. /\ p \in s[4].area => F = s[4].is
       /\ p \notin s[4].area /\ p \in s[3].area => F = s[3].is
       /\ p \notin s[4].area /\ p \notin s[3].area /\ p \in s[2].area => F = s[2].is
       /\ p \notin s[4].area /\ p \notin s[3].area /\ p \notin s[2].area /\ p \in s[1].area => F = s[1].is
  BY <1>24
<1>11. p \in Popup(w) => Foremost(s, p) = <<"popup", w>>
  BY <1>5, <1>6, <1>25 DEF F
<1>12. p \notin Popup(w) /\ p \in Controls(w) => Foremost(s, p) = <<"frame", w>>
  BY <1>5, <1>6, <1>25 DEF F
<1>13. p \notin Popup(w) /\ p \notin Controls(w) /\ p \in Client(w) => Foremost(s, p) = <<"client", w>>
  BY <1>5, <1>6, <1>25 DEF F
<1>14. p \notin Popup(w) /\ p \notin Controls(w) /\ p \notin Client(w) /\ p \in FrameBy(w, 0)
         => Foremost(s, p) = <<"frame", w>>
  BY <1>5, <1>6, <1>25 DEF F
<1>15. p \notin Popup(w) /\ p \notin Controls(w) /\ p \notin Client(w) /\ p \notin FrameBy(w, 0)
         => Foremost(s, p) = Nobody
  BY <1>5, <1>6, <1>7, <1>10
<1>16. FrameBy(w, 0) \subseteq FrameBy(w, Outset)
  BY WindowAreas
<1> DEFINE hit == WindowTarget(w, p)
<1>17. p \in Controls(w) => hit = <<"frame", w>>
  BY DEF WindowTarget
<1>18. p \in Popup(w) /\ p \notin Controls(w) => hit = <<"popup", w>>
  BY DEF WindowTarget
<1>19. p \in Client(w) /\ p \notin Popup(w) /\ p \notin Controls(w) => hit = <<"client", w>>
  BY DEF WindowTarget
<1>20. p \notin Controls(w) /\ p \notin Client(w) /\ p \notin Popup(w) /\ p \in FrameBy(w, Outset)
         => hit = <<"frame", w>>
  BY DEF WindowTarget
<1>21. p \notin Controls(w) /\ p \notin Client(w) /\ p \notin Popup(w) /\ p \notin FrameBy(w, Outset)
         => hit = Nobody
  BY DEF WindowTarget
<1> HIDE DEF hit
<1>22. Agreed(w, p)
  <2>1. \/ hit = Foremost(s, p)
        \/ hit = <<"frame", w>> /\ p \in Controls(w) /\ Foremost(s, p) = <<"popup", w>>
        \/ hit = <<"frame", w>> /\ p \in FrameBy(w, Outset) \ FrameBy(w, 0) /\ Foremost(s, p) = Nobody
    BY <1>11, <1>12, <1>13, <1>14, <1>15, <1>16, <1>17, <1>18, <1>19, <1>20, <1>21
  <2> QED BY <1>1, <2>1 DEF Agreed, hit
<1>23. Foremost(s, p) \in {Nobody} \cup (Parts \X {w})
  <2>1. {<<"popup", w>>, <<"frame", w>>, <<"client", w>>} \subseteq Parts \X {w}
    BY DEF Parts
  <2> QED BY <1>11, <1>12, <1>13, <1>14, <1>15, <2>1
<1> QED BY <1>1, <1>6, <1>9, <1>22, <1>23

\* Windows one over the other: the last that has something at p is seen.
Painted(z) == FlattenSeq([i \in DOMAIN z |-> WindowElements(z[i])])

LEMMA BlocksSeen ==
  ASSUME AppTypes, NEW z \in Seq(Apps), NEW p
  PROVE  /\ Painted(z) \in Seq(Shapes) /\ Named(Painted(z))
         /\ (\A i \in 1..Len(z) : WindowSeenAt(z[i], p) = Nobody) => Foremost(Painted(z), p) = Nobody
         /\ \A i \in 1..Len(z) : /\ WindowSeenAt(z[i], p) # Nobody
                                 /\ \A j \in 1..Len(z) : j > i => WindowSeenAt(z[j], p) = Nobody
                                 => Foremost(Painted(z), p) = WindowSeenAt(z[i], p)
<1> DEFINE n == Len(z)
           b == [i \in DOMAIN z |-> WindowElements(z[i])]
<1>1. n \in Nat /\ DOMAIN z = 1..n /\ \A i \in 1..n : z[i] \in Apps
  OBVIOUS
<1>2. \A i \in 1..n : WindowElements(z[i]) \in Seq(Shapes) /\ Named(WindowElements(z[i]))
  BY <1>1, WindowSeen
<1>3. b \in Seq(Seq(Shapes)) /\ Len(b) = n /\ \A i \in 1..n : b[i] = WindowElements(z[i])
  <2>1. \A i \in 1..n : b[i] = WindowElements(z[i])
    BY <1>1
  <2>2. b = [i \in 1..n |-> b[i]]
    BY <1>1
  <2> HIDE DEF b
  <2>3. b \in [1..n -> Seq(Shapes)]
    BY <1>2, <2>1, <2>2
  <2> QED BY <1>1, <2>1, <2>3
<1>4. Painted(z) = FlattenSeq(b)
  BY DEF Painted
<1> HIDE DEF b
<1>5. PICK g : Joins(g, b, Shapes) /\ FlattenSeq(b) = g[n]
  BY <1>3, FlattenSteps
<1>6. /\ g \in [0..n -> Seq(Shapes)] /\ g[0] = <<>>
      /\ \A i \in 1..n : g[i] = g[i - 1] \o WindowElements(z[i])
  BY <1>3, <1>5 DEF Joins
<1> DEFINE W(i) == WindowSeenAt(z[i], p)
           Upto(k) == /\ Named(g[k])
                      /\ (\A i \in 1..k : W(i) = Nobody) => Foremost(g[k], p) = Nobody
                      /\ \A i \in 1..k : /\ W(i) # Nobody
                                         /\ \A j \in 1..k : j > i => W(j) = Nobody
                                         => Foremost(g[k], p) = W(i)
           Done == {k \in 0..n : Upto(k)}
<1>7. 0 \in Done
  <2>1. Named(g[0]) /\ Foremost(g[0], p) = Nobody
    BY <1>6, ForemostNone
  <2> QED BY <1>1, <2>1
<1> HIDE DEF Done
<1>8. ASSUME NEW k \in 0..n, k # n, k \in Done PROVE k + 1 \in Done
  <2> HIDE DEF n, W, Upto
  <2>0. k # n /\ n \in Nat
    BY <1>1, <1>8
  <2>1. k + 1 \in 1..n /\ (k + 1) - 1 = k /\ k + 1 \in 0..n
    BY <2>0
  <2> USE DEF n, W, Upto
  <2> DEFINE a == g[k]
             c == WindowElements(z[k + 1])
             d == g[k + 1]
  <2>2. a \in Seq(Shapes) /\ c \in Seq(Shapes) /\ Named(c) /\ d = a \o c
    BY <1>2, <1>6, <2>1
  <2>3. Foremost(c, p) = W(k + 1)
    BY DEF WindowSeenAt
  <2>4. Upto(k)
    BY <1>8 DEF Done
  <2>5. Named(a)
    BY <2>4
  <2> HIDE DEF a, c, d
  <2>6. Foremost(d, p) = FirstOf(Foremost(c, p), Foremost(a, p)) /\ Named(d)
    BY <2>2, <2>5, ForemostBoth
  <2>7. Foremost(d, p) = IF W(k + 1) # Nobody THEN W(k + 1) ELSE Foremost(a, p)
    BY <2>3, <2>6 DEF FirstOf
  <2>8. /\ (\A i \in 1..k : W(i) = Nobody) => Foremost(a, p) = Nobody
        /\ \A i \in 1..k : /\ W(i) # Nobody
                           /\ \A j \in 1..k : j > i => W(j) = Nobody
                           => Foremost(a, p) = W(i)
    BY <2>4 DEF a
  <2>9. \A i \in 1..(k + 1) : i \in 1..k \/ i = k + 1
    BY <1>8
  <2>10. \A i \in 1..k : i \in 1..(k + 1) /\ k + 1 > i
    BY <1>8
  <2>11. k + 1 \in 1..(k + 1)
    BY <1>8
  <2> HIDE DEF W
  <2>12. (\A i \in 1..(k + 1) : W(i) = Nobody) => Foremost(d, p) = Nobody
    BY <2>7, <2>8, <2>10, <2>11
  <2>13. ASSUME NEW i \in 1..(k + 1), W(i) # Nobody, \A j \in 1..(k + 1) : j > i => W(j) = Nobody
         PROVE  Foremost(d, p) = W(i)
    <3>1. CASE i = k + 1
      BY <2>7, <2>13, <3>1
    <3>2. CASE i \in 1..k
      <4>1. W(k + 1) = Nobody
        BY <2>10, <2>11, <2>13, <3>2
      <4>2. \A j \in 1..k : j > i => W(j) = Nobody
        BY <2>10, <2>13
      <4> QED BY <2>7, <2>8, <2>13, <3>2, <4>1, <4>2
    <3> QED BY <2>9, <3>1, <3>2
  <2> QED BY <2>1, <2>6, <2>12, <2>13 DEF d, Done
<1>9. n \in Done
  <2>1. 0..n \subseteq Done
    BY <1>1, <1>7, <1>8, InductionUpTo
  <2> QED BY <1>1, <2>1
<1>10. Upto(n)
  BY <1>9 DEF Done
<1> QED BY <1>1, <1>4, <1>5, <1>6, <1>10

\* What is known of the scene.
SceneTypes ==
    /\ AppTypes /\ stack \in Seq(Apps) /\ IsInjective(stack)
    /\ panels \in Seq(DOMAIN Panels)

LEMMA ZOrderedFacts ==
  ASSUME SceneTypes
  PROVE  ZOrdered \in Seq(Apps) /\ IsInjective(ZOrdered)
<1> DEFINE S(full, top) == {w \in Apps : app[w].fullscreen = full /\ (w \in OnTop) = top}
           R(full, top) == Retained(stack, S(full, top))
<1>1. ZOrdered = ((R(FALSE, FALSE) \o R(FALSE, TRUE)) \o R(TRUE, FALSE)) \o R(TRUE, TRUE)
  BY DEF ZOrdered
<1>2. stack \in Seq(Apps) /\ IsInjective(stack)
  BY DEF SceneTypes
<1>3. /\ S(FALSE, FALSE) \cap S(FALSE, TRUE) = {}
      /\ (S(FALSE, FALSE) \cup S(FALSE, TRUE)) \cap S(TRUE, FALSE) = {}
      /\ (S(FALSE, FALSE) \cup S(FALSE, TRUE) \cup S(TRUE, FALSE)) \cap S(TRUE, TRUE) = {}
  OBVIOUS
<1> HIDE DEF S
<1>4. ASSUME NEW f \in BOOLEAN, NEW t \in BOOLEAN
      PROVE  R(f, t) \in Seq(Apps) /\ Range(R(f, t)) \subseteq S(f, t) /\ IsInjective(R(f, t))
  <2> DEFINE K == S(f, t)
  <2> HIDE DEF K
  <2>1. /\ Retained(stack, K) \in Seq(Apps) /\ IsInjective(Retained(stack, K))
        /\ Range(Retained(stack, K)) = Range(stack) \cap K
    BY <1>2, RetainedFacts
  <2> QED BY <2>1 DEF K
<1>5. \A f \in BOOLEAN, t \in BOOLEAN :
         R(f, t) \in Seq(Apps) /\ Range(R(f, t)) \subseteq S(f, t) /\ IsInjective(R(f, t))
  BY <1>4
<1> DEFINE a == R(FALSE, FALSE)
           b == R(FALSE, TRUE)
           c == R(TRUE, FALSE)
           d == R(TRUE, TRUE)
<1>6. /\ a \in Seq(Apps) /\ Range(a) \subseteq S(FALSE, FALSE) /\ IsInjective(a)
      /\ b \in Seq(Apps) /\ Range(b) \subseteq S(FALSE, TRUE) /\ IsInjective(b)
      /\ c \in Seq(Apps) /\ Range(c) \subseteq S(TRUE, FALSE) /\ IsInjective(c)
      /\ d \in Seq(Apps) /\ Range(d) \subseteq S(TRUE, TRUE) /\ IsInjective(d)
  <2> HIDE DEF R
  <2> QED BY <1>5
<1>7. ZOrdered = ((a \o b) \o c) \o d
  BY <1>1
<1> HIDE DEF R, a, b, c, d
<1> DEFINE ab == a \o b
<1>8. ab \in Seq(Apps) /\ Range(ab) = Range(a) \cup Range(b) /\ IsInjective(ab)
  <2>1. Range(a) \cap Range(b) = {}
    BY <1>3, <1>6
  <2> QED BY <1>6, <2>1, ConcatFacts
<1> DEFINE abc == ab \o c
<1>9. abc \in Seq(Apps) /\ Range(abc) = Range(ab) \cup Range(c) /\ IsInjective(abc)
  <2> HIDE DEF ab
  <2>1. Range(ab) \cap Range(c) = {}
    BY <1>3, <1>6, <1>8
  <2> QED BY <1>6, <1>8, <2>1, ConcatFacts
<1>10. abc \o d \in Seq(Apps) /\ IsInjective(abc \o d)
  <2> HIDE DEF ab, abc
  <2>1. Range(abc) \cap Range(d) = {}
    BY <1>3, <1>6, <1>8, <1>9
  <2> QED BY <1>6, <1>9, <2>1, ConcatFacts
<1> QED BY <1>7, <1>10

\* What is hit at p is what is seen there, but for a window's handles, which are
\* over what is behind it, and its controls, which come before its popup.
Fair(hit, seen, p) ==
    \/ hit = seen
    \/ \E w \in Apps :
          /\ hit = <<"frame", w>>
          /\ \/ /\ p \in FrameBy(w, Outset) \ FrameBy(w, 0)
                /\ seen \notin (Parts \X FromUp(w)) \cup ({"panel"} \X UpperPanels)
             \/ p \in Controls(w) /\ seen = <<"popup", w>>

\* The stack of windows: hit or seen, it is the same, or a handle.
LEMMA StackSeen ==
  ASSUME SceneTypes, NEW p
  PROVE  LET hit == StackTarget(p)
             seen == Foremost(Painted(ZOrdered), p)
         IN  /\ hit = Nobody => seen = Nobody
             /\ Fair(hit, seen, p)
             /\ \A other \in {Nobody} \cup ({"panel"} \X (DOMAIN Panels \ UpperPanels)) :
                   seen = Nobody => hit = Nobody \/ Fair(hit, other, p)
<1> DEFINE z == ZOrdered
           n == Len(z)
           hit == StackTarget(p)
           seen == Foremost(Painted(z), p)
           T(i) == WindowTarget(z[i], p)
           W(i) == WindowSeenAt(z[i], p)
<1>1. z \in Seq(Apps) /\ IsInjective(z) /\ n \in Nat /\ AppTypes /\ DOMAIN z = 1..n
  BY ZOrderedFacts DEF SceneTypes
<1>2. \A i \in 1..n : z[i] \in Apps
  BY <1>1
<1>3. \A i \in 1..n : \/ T(i) = W(i)
                      \/ T(i) = <<"frame", z[i]>> /\ p \in Controls(z[i]) /\ W(i) = <<"popup", z[i]>>
                      \/ T(i) = <<"frame", z[i]>> /\ p \in FrameBy(z[i], Outset) \ FrameBy(z[i], 0) /\ W(i) = Nobody
  BY <1>1, <1>2, WindowSeen DEF Agreed, WindowSeenAt
<1>4. \A i \in 1..n : W(i) \in {Nobody} \cup (Parts \X {z[i]})
  BY <1>1, <1>2, WindowSeen DEF WindowSeenAt
<1>5. /\ (\A i \in 1..n : W(i) = Nobody) => seen = Nobody
      /\ \A i \in 1..n : W(i) # Nobody /\ (\A j \in 1..n : j > i => W(j) = Nobody) => seen = W(i)
  <2> HIDE DEF z
  <2> QED BY <1>1, BlocksSeen
<1>6. /\ (\A i \in 1..n : T(i) = Nobody) => hit = Nobody
      /\ \A i \in 1..n : T(i) # Nobody /\ (\A j \in 1..n : j > i => T(j) = Nobody) => hit = T(i)
  <2> DEFINE H == {i \in 1..n : T(i) # Nobody}
  <2>1. hit = IF H = {} THEN Nobody ELSE T(Max(H))
    BY <1>1 DEF StackTarget
  <2>2. H \in SUBSET (1..n) /\ \A i \in 1..n : i \in H <=> T(i) # Nobody
    OBVIOUS
  <2> HIDE DEF H, n, hit, T
  <2>3. \A i \in H : (\A j \in 1..n : j > i => j \notin H) => Max(H) = i
    BY <1>1, <2>2, MaxIsLast
  <2> QED BY <2>1, <2>2, <2>3
<1> DEFINE P == {i \in 1..n : T(i) # Nobody}
<1>7. P = {} \/ \E i \in P : \A j \in 1..n : j > i => j \notin P
  <2>1. P \in SUBSET (1..n)
    OBVIOUS
  <2> HIDE DEF P, n
  <2> QED BY <1>1, <2>1, LastPosition
<1>8. \A w : <<"frame", w>> # Nobody /\ <<"popup", w>> # Nobody
  BY DEF Nobody
<1> HIDE DEF z, hit, seen, n, T, W
<1>9. CASE P = {}
  <2>1. \A i \in 1..n : T(i) = Nobody
    BY <1>9
  <2>2. \A i \in 1..n : W(i) = Nobody
    BY <1>3, <1>8, <2>1
  <2>3. hit = Nobody /\ seen = Nobody
    BY <1>5, <1>6, <2>1, <2>2
  <2> QED BY <2>3 DEF Fair, hit, seen, z
<1>10. CASE P # {}
  <2>1. PICK i \in 1..n : T(i) # Nobody /\ \A j \in 1..n : j > i => T(j) = Nobody
    BY <1>7, <1>10
  <2>2. hit = T(i)
    BY <1>6, <2>1
  <2>3. \A j \in 1..n : j > i => W(j) = Nobody
    BY <1>3, <1>8, <2>1
  <2> DEFINE w == z[i]
  <2>4. w \in Apps
    BY <1>2
  <2>5. CASE W(i) # Nobody
    <3>1. seen = W(i)
      BY <1>5, <2>3, <2>5
    <3>2. hit = seen \/ (hit = <<"frame", w>> /\ p \in Controls(w) /\ seen = <<"popup", w>>)
      BY <1>3, <2>2, <2>5, <3>1
    <3>3. Fair(hit, seen, p)
      BY <2>4, <3>2 DEF Fair
    <3> QED BY <2>1, <2>2, <2>5, <3>1, <3>3 DEF hit, seen, z
  <2>6. CASE W(i) = Nobody
    <3>1. hit = <<"frame", w>> /\ p \in FrameBy(w, Outset) \ FrameBy(w, 0)
      BY <1>3, <1>8, <2>1, <2>2, <2>6
    <3>2. \A x : x \notin (Parts \X FromUp(w)) \cup ({"panel"} \X UpperPanels) => Fair(hit, x, p)
      BY <2>4, <3>1 DEF Fair
    <3>3. \A other \in {Nobody} \cup ({"panel"} \X (DOMAIN Panels \ UpperPanels)) : Fair(hit, other, p)
      <4> SUFFICES ASSUME NEW other \in {Nobody} \cup ({"panel"} \X (DOMAIN Panels \ UpperPanels))
                   PROVE  other \notin (Parts \X FromUp(w)) \cup ({"panel"} \X UpperPanels)
        BY <3>2
      <4>1. CASE other = Nobody
        BY <4>1 DEF Nobody
      <4>2. CASE other \in {"panel"} \X (DOMAIN Panels \ UpperPanels)
        BY <4>2 DEF Parts
      <4> QED BY <4>1, <4>2
    <3>4. Fair(hit, seen, p)
      <4>1. CASE seen = Nobody
        BY <3>3, <4>1
      <4>2. CASE seen # Nobody
        <5> DEFINE Q == {j \in 1..n : W(j) # Nobody}
        <5>1. Q \in SUBSET (1..n) /\ Q # {}
          BY <1>5, <4>2
        <5>2. \A j \in 1..n : j \in Q <=> W(j) # Nobody
          OBVIOUS
        <5> HIDE DEF Q
        <5>3. PICK j \in Q : \A k \in 1..n : k > j => k \notin Q
          BY <1>1, <5>1, LastPosition
        <5>4. j \in 1..n /\ W(j) # Nobody /\ seen = W(j)
          BY <1>5, <5>1, <5>2, <5>3
        <5>5. seen \in Parts \X {z[j]}
          BY <1>4, <4>2, <5>4
        <5>6. j < i
          BY <1>1, <2>3, <2>6, <5>4
        <5>7. z[j] \notin FromUp(w)
          <6> SUFFICES ASSUME z[j] \in FromUp(w) PROVE FALSE
            OBVIOUS
          <6>1. PICK k \in DOMAIN z : z[k] = z[j] /\ \E m \in 1..k : z[m] = w
            BY DEF FromUp, z
          <6>2. k = j
            BY <1>1, <5>4, <6>1 DEF IsInjective
          <6>3. PICK m \in 1..j : z[m] = z[i]
            BY <6>1, <6>2
          <6>4. m \in 1..n /\ m # i
            BY <1>1, <5>4, <5>6
          <6> QED BY <1>1, <6>3, <6>4 DEF IsInjective
        <5>8. seen \notin (Parts \X FromUp(w)) \cup ({"panel"} \X UpperPanels)
          BY <5>5, <5>7 DEF Parts
        <5> QED BY <3>2, <5>8
      <4> QED BY <4>1, <4>2
    <3>5. hit # Nobody
      BY <2>1, <2>2
    <3> QED BY <3>3, <3>4, <3>5 DEF hit, seen, z
  <2> QED BY <2>5, <2>6
<1> QED BY <1>9, <1>10

\* The panel that is hit is of the layer asked for.
LEMMA LayerTargetFacts ==
  ASSUME SceneTypes, NEW layer, NEW p
  PROVE  LayerTarget(layer, p) \in {Nobody} \cup ({"panel"} \X {l \in DOMAIN Panels : Panels[l].layer = layer})
<1> DEFINE H == {k \in DOMAIN panels : Panels[panels[k]].layer = layer /\ p \in Panels[panels[k]].covers}
<1>1. LayerTarget(layer, p) = IF H = {} THEN Nobody ELSE <<"panel", panels[Max(H)]>>
  BY DEF LayerTarget
<1>2. H # {} => Max(H) \in H
  <2>1. H \in SUBSET (1..Len(panels)) /\ Len(panels) \in Nat
    BY DEF SceneTypes
  <2> HIDE DEF H
  <2> QED BY <2>1, MaxPosition
<1>3. \A k \in H : panels[k] \in DOMAIN Panels /\ Panels[panels[k]].layer = layer
  BY DEF SceneTypes
<1> HIDE DEF H
<1> QED BY <1>1, <1>2, <1>3

LEMMA LockSeen ==
  ASSUME SceneTypes, lock # "open", NEW p \in Points
  PROVE  PointerTarget(p) = Foremost(SceneElements, p)
<1> DEFINE back == <<[is |-> Nobody, area |-> Points]>>
           front == IF lock = "shown" THEN <<[is |-> Locker, area |-> Points]>> ELSE <<>>
<1>1. SceneElements = back \o front
  BY DEF SceneElements
<1>2. PointerTarget(p) = IF lock = "shown" THEN Locker ELSE Nobody
  BY DEF PointerTarget
<1>3. ASSUME NEW x \in {Nobody, Locker}
      PROVE  <<[is |-> x, area |-> Points]>> \in Seq(Shapes) /\ Foremost(<<[is |-> x, area |-> Points]>>, p) = x
  <2> DEFINE s == <<[is |-> x, area |-> Points]>>
  <2>1. [is |-> x, area |-> Points] \in Shapes
    BY DEF Shapes, Things, Places
  <2>2. s \in Seq(Shapes) /\ Len(s) = 1 /\ s[1].is = x /\ s[1].area = Points
    BY <2>1
  <2> HIDE DEF s
  <2>3. 1 \in 1..Len(s) /\ \A j \in 1..Len(s) : ~(j > 1)
    BY <2>2
  <2>4. Foremost(s, p) = s[1].is
    BY <2>2, <2>3, ForemostAt
  <2> QED BY <2>2, <2>4 DEF s
<1>4. back \in Seq(Shapes) /\ Foremost(back, p) = Nobody
  BY <1>3
<1>5. Locker # Nobody
  BY DEF Locker, Nobody
<1>6. front \in Seq(Shapes) /\ Named(front) /\ Foremost(front, p) = IF lock = "shown" THEN Locker ELSE Nobody
  <2>1. CASE lock = "shown"
    <3> DEFINE s == <<[is |-> Locker, area |-> Points]>>
    <3>1. s \in Seq(Shapes) /\ Foremost(s, p) = Locker
      BY <1>3
    <3>2. Len(s) = 1 /\ s[1].is = Locker
      OBVIOUS
    <3>3. front = s
      BY <2>1
    <3> HIDE DEF s, front
    <3>4. 1..Len(s) = {1}
      BY <3>2
    <3>5. Named(s)
      BY <1>5, <3>2, <3>4 DEF Named
    <3> QED BY <2>1, <3>1, <3>3, <3>5
  <2>2. CASE lock # "shown"
    <3>1. front = <<>>
      BY <2>2
    <3> HIDE DEF front
    <3> QED BY <2>2, <3>1, ForemostNone
  <2> QED BY <2>1, <2>2
<1> HIDE DEF front, back
<1>7. Foremost(back \o front, p) = FirstOf(Foremost(front, p), Foremost(back, p))
  BY <1>4, <1>6, ForemostBoth
<1> QED BY <1>1, <1>2, <1>4, <1>6, <1>7 DEF FirstOf

LEMMA DesktopSeen ==
  ASSUME SceneTypes, lock = "open", NEW p
  PROVE  Fair(PointerTarget(p), Foremost(SceneElements, p), p)
<1> DEFINE O == OnLayer("overlay")
           U == OnLayer("top")
           B == OnLayer("bottom")
           G == OnLayer("background")
           F == Painted(ZOrdered)
           St == StackTarget(p)
           HitOn(layer) == LayerTarget(layer, p)
           Under == {Nobody} \cup ({"panel"} \X (DOMAIN Panels \ UpperPanels))
<1>1. /\ O \in Seq(Shapes) /\ Named(O) /\ Foremost(O, p) = HitOn("overlay")
      /\ U \in Seq(Shapes) /\ Named(U) /\ Foremost(U, p) = HitOn("top")
      /\ B \in Seq(Shapes) /\ Named(B) /\ Foremost(B, p) = HitOn("bottom")
      /\ G \in Seq(Shapes) /\ Named(G) /\ Foremost(G, p) = HitOn("background")
  BY PanelsSeen DEF SceneTypes
<1>2. F \in Seq(Shapes) /\ Named(F)
  BY ZOrderedFacts, BlocksSeen DEF SceneTypes
<1>3. SceneElements = IF Covered THEN F \o O ELSE (((G \o B) \o F) \o U) \o O
  BY DEF SceneElements, Painted
<1>4. PointerTarget(p) = FirstOf(UpperTarget(p), FirstOf(St, LowerTarget(p)))
  BY DEF PointerTarget
<1>5. HitOn("bottom") \in Under /\ HitOn("background") \in Under
  BY LayerTargetFacts DEF UpperPanels
<1>6. /\ St = Nobody => Foremost(F, p) = Nobody
      /\ Fair(St, Foremost(F, p), p)
      /\ \A other \in Under : Foremost(F, p) = Nobody => St = Nobody \/ Fair(St, other, p)
  BY StackSeen
<1> DEFINE seen == Foremost(SceneElements, p)
           hit == PointerTarget(p)
<1>7. \A x : Fair(x, x, p)
  BY DEF Fair
<1>8. Nobody \in Under
  OBVIOUS
<1> HIDE DEF O, U, B, G, F, St, HitOn, Under
<1>9. ASSUME NEW upper, NEW lower \in Under, hit = FirstOf(upper, FirstOf(St, lower)),
             seen = FirstOf(upper, FirstOf(Foremost(F, p), lower))
      PROVE  Fair(hit, seen, p)
  <2> HIDE DEF hit, seen
  <2>1. CASE upper # Nobody
    BY <1>7, <1>9, <2>1 DEF FirstOf
  <2>2. CASE upper = Nobody
    <3>1. hit = FirstOf(St, lower) /\ seen = FirstOf(Foremost(F, p), lower)
      BY <1>9, <2>2 DEF FirstOf
    <3>2. CASE St = Nobody
      BY <1>6, <1>7, <3>1, <3>2 DEF FirstOf
    <3>3. CASE St # Nobody /\ Foremost(F, p) # Nobody
      BY <1>6, <3>1, <3>3 DEF FirstOf
    <3>4. CASE St # Nobody /\ Foremost(F, p) = Nobody
      BY <1>6, <1>9, <3>1, <3>4 DEF FirstOf
    <3> QED BY <3>2, <3>3, <3>4
  <2> QED BY <2>1, <2>2
<1>10. CASE Covered
  <2>1. UpperTarget(p) = HitOn("overlay") /\ LowerTarget(p) = Nobody
    BY <1>10 DEF UpperTarget, LowerTarget, FirstOf, HitOn
  <2>2. seen = FirstOf(HitOn("overlay"), Foremost(F, p))
    BY <1>1, <1>2, <1>3, <1>10, ForemostBoth
  <2>3. FirstOf(Foremost(F, p), Nobody) = Foremost(F, p)
    BY DEF FirstOf
  <2>4. hit = FirstOf(HitOn("overlay"), FirstOf(St, Nobody))
    BY <1>4, <2>1
  <2>5. seen = FirstOf(HitOn("overlay"), FirstOf(Foremost(F, p), Nobody))
    BY <2>2, <2>3
  <2> HIDE DEF hit, seen
  <2>6. Fair(hit, seen, p)
    BY <1>8, <1>9, <2>4, <2>5
  <2> QED BY <2>6 DEF hit, seen
<1>11. CASE ~Covered
  <2> DEFINE lower == FirstOf(HitOn("bottom"), HitOn("background"))
             upper == FirstOf(HitOn("overlay"), HitOn("top"))
             e1 == G \o B
             e2 == e1 \o F
             e3 == e2 \o U
             e4 == e3 \o O
  <2>1. UpperTarget(p) = upper /\ LowerTarget(p) = lower
    BY <1>11 DEF UpperTarget, LowerTarget, HitOn
  <2>2. SceneElements = e4
    BY <1>3, <1>11
  <2>3. e1 \in Seq(Shapes) /\ Foremost(e1, p) = lower
    BY <1>1, ForemostBoth
  <2>4. lower \in Under
    BY <1>5 DEF FirstOf
  <2> HIDE DEF e1
  <2>5. e2 \in Seq(Shapes) /\ Foremost(e2, p) = FirstOf(Foremost(F, p), lower)
    BY <1>2, <2>3, ForemostBoth
  <2> HIDE DEF e2, lower
  <2>6. e3 \in Seq(Shapes) /\ Foremost(e3, p) = FirstOf(HitOn("top"), FirstOf(Foremost(F, p), lower))
    BY <1>1, <2>5, ForemostBoth
  <2> HIDE DEF e3
  <2>7. Foremost(e4, p) = FirstOf(HitOn("overlay"), FirstOf(HitOn("top"), FirstOf(Foremost(F, p), lower)))
    BY <1>1, <2>6, ForemostBoth
  <2> HIDE DEF e4
  <2>8. seen = FirstOf(upper, FirstOf(Foremost(F, p), lower))
    BY <2>2, <2>7 DEF FirstOf
  <2>9. hit = FirstOf(upper, FirstOf(St, lower))
    BY <1>4, <2>1
  <2> HIDE DEF hit, seen, upper
  <2>10. Fair(hit, seen, p)
    BY <1>9, <2>4, <2>8, <2>9
  <2> QED BY <2>10 DEF hit, seen
<1> QED BY <1>10, <1>11

LEMMA SceneSeen == SceneTypes => SeenIsHit
<1> SUFFICES ASSUME SceneTypes, NEW p \in Points
             PROVE  Fair(PointerTarget(p), Foremost(SceneElements, p), p)
  BY DEF SeenIsHit, Fair, Parts
<1>1. CASE lock # "open"
  BY <1>1, LockSeen DEF Fair
<1>2. CASE lock = "open"
  BY <1>2, DesktopSeen
<1> QED BY <1>1, <1>2

\* What is known of the pointer.
PointerShape ==
    /\ pointer = [at |-> pointer.at, focus |-> pointer.focus, grabbed |-> pointer.grabbed, under |-> pointer.under]
    /\ pointer.at \in Positions /\ pointer.grabbed \in BOOLEAN

\* Unless someone has asked for a look at the focus, or nobody did who should
\* have, the pointer is in what is below it, or will be after its grab.
Followed ==
    \A p \in Positions : p = pointer.at /\ ~dirty /\ ~stale
                           => (IF pointer.grabbed THEN pointer.under ELSE pointer.focus) = SurfaceUnder(p)

\* The inductive invariant of PointerScene.
PointerInv ==
    /\ SceneTypes /\ PointerShape /\ Followed
    /\ dirty \in BOOLEAN /\ settled \in BOOLEAN /\ stale \in BOOLEAN
    /\ settled => ~dirty

\* What is below a point depends on the scene alone.
LEMMA UnderSame ==
  ASSUME UNCHANGED <<stack, app, panels, lock>>, NEW p
  PROVE  SurfaceUnder(p)' = SurfaceUnder(p)
<1>0. stack' = stack /\ app' = app /\ panels' = panels /\ lock' = lock
  OBVIOUS
<1>1. ASSUME NEW w PROVE WindowTarget(w, p)' = WindowTarget(w, p)
  BY <1>0 DEF WindowTarget, Controls, Popup, Client, FrameBy
<1>2. ZOrdered' = ZOrdered
  BY <1>0 DEF ZOrdered
<1>3. Covered' = Covered
  BY <1>0, <1>2 DEF Covered
<1>4. StackTarget(p)' = StackTarget(p)
  BY <1>1, <1>2 DEF StackTarget
<1>5. ASSUME NEW layer PROVE LayerTarget(layer, p)' = LayerTarget(layer, p)
  BY <1>0 DEF LayerTarget
<1>6. UpperTarget(p)' = UpperTarget(p) /\ LowerTarget(p)' = LowerTarget(p)
  BY <1>3, <1>5 DEF UpperTarget, LowerTarget, FirstOf
<1>7. PointerTarget(p)' = PointerTarget(p)
  BY <1>0, <1>4, <1>6 DEF PointerTarget, FirstOf
<1> QED BY <1>7 DEF SurfaceUnder, IsFrame

\* Raising a window, and taking one away, leaves each there once.
LEMMA RaisedFacts ==
  ASSUME SceneTypes, NEW w \in Apps
  PROVE  Raised(w) \in Seq(Apps) /\ IsInjective(Raised(w))
<1> DEFINE S == Range(stack) \ {w}
           rest == Retained(stack, S)
<1>1. rest \in Seq(Apps) /\ IsInjective(rest) /\ Range(rest) = Range(stack) \cap S
  <2> HIDE DEF S
  <2> QED BY RetainedFacts DEF SceneTypes
<1>2. w \notin Range(rest)
  BY <1>1
<1> HIDE DEF rest
<1>3. Append(rest, w) \in Seq(Apps) /\ IsInjective(Append(rest, w))
  BY <1>1, <1>2, AppendFacts
<1> QED BY <1>3 DEF Raised, Without, rest

LEMMA WithoutFacts ==
  ASSUME NEW T, NEW s \in Seq(T), NEW x
  PROVE  Without(s, x) \in Seq(T) /\ (IsInjective(s) => IsInjective(Without(s, x)))
<1> DEFINE S == Range(s) \ {x}
<1> HIDE DEF S
<1>1. Retained(s, S) \in Seq(T) /\ (IsInjective(s) => IsInjective(Retained(s, S)))
  BY RetainedFacts
<1> QED BY <1>1 DEF Without, S

LEMMA NewAppType == NewApp \in [at : Int, fullscreen : BOOLEAN, popup : BOOLEAN]
<1>1. (CHOOSE p \in Homes : TRUE) \in Int
  BY PointerSceneAssumption
<1> QED BY <1>1 DEF NewApp

LEMMA PointerInitial == PointerSceneInit => PointerInv
<1> SUFFICES ASSUME PointerSceneInit PROVE PointerInv
  OBVIOUS
<1>1. /\ stack = <<>> /\ panels = <<>> /\ lock = "open" /\ app = [w \in Apps |-> NewApp]
      /\ dirty = FALSE /\ settled = TRUE /\ stale = FALSE
      /\ pointer \in [at : Positions, focus : {Nobody}, grabbed : {FALSE}, under : {Nobody}]
  BY DEF PointerSceneInit
<1>2. SceneTypes
  <2>1. AppTypes
    BY <1>1, NewAppType DEF AppTypes
  <2>2. stack \in Seq(Apps) /\ panels \in Seq(DOMAIN Panels)
    BY <1>1
  <2>3. IsInjective(stack)
    BY <1>1, EmptyFacts
  <2> QED BY <2>1, <2>2, <2>3 DEF SceneTypes
<1>3. PointerShape /\ pointer.focus = Nobody /\ pointer.grabbed = FALSE
  BY <1>1 DEF PointerShape
<1>4. ASSUME NEW p PROVE SurfaceUnder(p) = Nobody
  <2>1. \A S : Retained(<<>>, S) = <<>>
    <3> TAKE S
    <3> DEFINE e == <<>>
    <3>1. e \in Seq({}) /\ Len(e) = 0
      OBVIOUS
    <3> HIDE DEF e
    <3>2. Retained(e, S) \in Seq({}) /\ Len(Retained(e, S)) \in 0..Len(e)
      BY <3>1, RetainedFacts
    <3>3. Len(Retained(e, S)) = 0
      BY <3>1, <3>2
    <3>4. Retained(e, S) = <<>>
      BY <3>2, <3>3
    <3> QED BY <3>4 DEF e
  <2>2. \A layer : LayerTarget(layer, p) = Nobody
    BY <1>1 DEF LayerTarget
  <2>3. ZOrdered = <<>>
    <3> DEFINE R(S) == Retained(stack, S)
    <3>1. \A S : R(S) = <<>>
      BY <1>1, <2>1
    <3>2. ZOrdered = R({w \in Apps : app[w].fullscreen = FALSE /\ (w \in OnTop) = FALSE})
                     \o R({w \in Apps : app[w].fullscreen = FALSE /\ (w \in OnTop) = TRUE})
                     \o R({w \in Apps : app[w].fullscreen = TRUE /\ (w \in OnTop) = FALSE})
                     \o R({w \in Apps : app[w].fullscreen = TRUE /\ (w \in OnTop) = TRUE})
      BY DEF ZOrdered
    <3> HIDE DEF R
    <3>3. ZOrdered = <<>> \o <<>> \o <<>> \o <<>>
      BY <3>1, <3>2
    <3> QED BY <3>3
  <2>4. StackTarget(p) = Nobody
    BY <2>3 DEF StackTarget
  <2>5. PointerTarget(p) = Nobody
    BY <1>1, <2>2, <2>4 DEF PointerTarget, UpperTarget, LowerTarget, FirstOf
  <2>6. ~IsFrame(Nobody)
    BY DEF IsFrame, Nobody
  <2> QED BY <2>5, <2>6 DEF SurfaceUnder
<1> QED BY <1>1, <1>2, <1>3, <1>4 DEF PointerInv, Followed

\* Whoever changes the scene asks for a look, or is excused.
LEMMA SceneChanged ==
  ASSUME PointerInv, SceneTypes', PointerShape', dirty' \in BOOLEAN, stale' \in BOOLEAN,
         settled' = FALSE, dirty' \/ stale'
  PROVE  PointerInv'
BY DEF PointerInv, Followed

LEMMA PointerStep == PointerInv /\ [PointerSceneNext]_sceneVars => PointerInv'
<1> SUFFICES ASSUME PointerInv, [PointerSceneNext]_sceneVars PROVE PointerInv'
  OBVIOUS
<1>0. /\ SceneTypes /\ PointerShape /\ dirty \in BOOLEAN /\ settled \in BOOLEAN /\ stale \in BOOLEAN
      /\ AppTypes /\ stack \in Seq(Apps) /\ IsInjective(stack) /\ panels \in Seq(DOMAIN Panels)
  BY DEF PointerInv, SceneTypes
<1>1. UNCHANGED pointer => PointerShape'
  BY <1>0 DEF PointerShape
<1>2. ASSUME NEW w \in Apps, ShowApp(w) PROVE PointerInv'
  <2>1. PICK at \in Homes : app' = [app EXCEPT ![w] = [NewApp EXCEPT !.at = at]]
    BY <1>2 DEF ShowApp
  <2>2. AppTypes'
    <3>1. at \in Int
      BY PointerSceneAssumption
    <3>2. [NewApp EXCEPT !.at = at] \in [at : Int, fullscreen : BOOLEAN, popup : BOOLEAN]
      BY <3>1, NewAppType
    <3> QED BY <1>0, <2>1, <3>2 DEF AppTypes
  <2>3. w \notin Range(stack)
    BY <1>2 DEF ShowApp, On
  <2>4. stack' \in Seq(Apps) /\ IsInjective(stack')
    <3>1. stack' = Append(stack, w)
      BY <1>2 DEF ShowApp
    <3> QED BY <1>0, <2>3, <3>1, AppendFacts
  <2>5. SceneTypes'
    BY <1>0, <1>2, <2>2, <2>4 DEF SceneTypes, ShowApp
  <2> QED BY <1>0, <1>1, <1>2, <2>5, SceneChanged DEF ShowApp, Dirty
<1>3. ASSUME NEW w \in Apps, HideApp(w) PROVE PointerInv'
  <2>1. AppTypes'
    BY <1>0, <1>3, NewAppType DEF AppTypes, HideApp
  <2>2. stack' \in Seq(Apps) /\ IsInjective(stack')
    <3>1. stack' = Without(stack, w)
      BY <1>3 DEF HideApp
    <3> QED BY <1>0, <3>1, WithoutFacts
  <2>3. SceneTypes'
    BY <1>0, <1>3, <2>1, <2>2 DEF SceneTypes, HideApp
  <2> QED BY <1>0, <1>1, <1>3, <2>3, SceneChanged DEF HideApp, Dirty
<1>4. ASSUME NEW w \in Apps, FocusApp(w) PROVE PointerInv'
  <2>1. stack' \in Seq(Apps) /\ IsInjective(stack')
    BY <1>0, <1>4, RaisedFacts DEF FocusApp
  <2>2. SceneTypes'
    BY <1>0, <1>4, <2>1 DEF SceneTypes, FocusApp, AppTypes
  <2> QED BY <1>0, <1>1, <1>4, <2>2, SceneChanged DEF FocusApp, Dirty
<1>5. ASSUME NEW w \in Apps, MoveApp(w) PROVE PointerInv'
  <2>1. PICK at \in Homes : app' = [app EXCEPT ![w].at = at]
    BY <1>5 DEF MoveApp
  <2>2. AppTypes'
    <3>1. at \in Int
      BY PointerSceneAssumption
    <3> QED BY <1>0, <2>1, <3>1 DEF AppTypes
  <2>3. stack' \in Seq(Apps) /\ IsInjective(stack')
    BY <1>0, <1>5, RaisedFacts DEF MoveApp
  <2>4. SceneTypes'
    BY <1>0, <1>5, <2>2, <2>3 DEF SceneTypes, MoveApp
  <2> QED BY <1>0, <1>1, <1>5, <2>4, SceneChanged DEF MoveApp, Dirty
<1>6. ASSUME NEW w \in Apps, FullscreenApp(w) PROVE PointerInv'
  <2>1. PICK at \in IF app[w].fullscreen THEN Homes ELSE {1} :
           /\ app' = [app EXCEPT ![w].fullscreen = ~@, ![w].at = at]
           /\ stack' = IF app[w].fullscreen /\ at = app[w].at THEN stack ELSE Raised(w)
           /\ IF at = app[w].at THEN Unmarked ELSE Dirty
    BY <1>6 DEF FullscreenApp
  <2>2. AppTypes'
    <3>1. at \in Int
      BY PointerSceneAssumption
    <3> QED BY <1>0, <2>1, <3>1 DEF AppTypes
  <2>3. stack' \in Seq(Apps) /\ IsInjective(stack')
    BY <1>0, <2>1, RaisedFacts
  <2>4. SceneTypes'
    BY <1>0, <1>6, <2>2, <2>3 DEF SceneTypes, FullscreenApp
  <2>5. UNCHANGED pointer
    BY <1>6 DEF FullscreenApp
  <2> QED BY <1>0, <1>1, <2>1, <2>4, <2>5, SceneChanged DEF Unmarked, Dirty
<1>7. ASSUME NEW w \in Apps, CommitApp(w) \/ PopupDestroyed(w) PROVE PointerInv'
  <2>1. AppTypes'
    BY <1>0, <1>7 DEF AppTypes, CommitApp, PopupDestroyed
  <2>2. SceneTypes'
    BY <1>0, <1>7, <2>1 DEF SceneTypes, CommitApp, PopupDestroyed
  <2> QED BY <1>0, <1>1, <1>7, <2>2, SceneChanged DEF CommitApp, PopupDestroyed, Unmarked, Dirty
<1>8. ASSUME NEW l \in DOMAIN Panels, LayoutChanged(l) PROVE PointerInv'
  <2>1. panels' \in Seq(DOMAIN Panels)
    <3>1. Without(panels, l) \in Seq(DOMAIN Panels) /\ Append(panels, l) \in Seq(DOMAIN Panels)
      BY <1>0, WithoutFacts
    <3> QED BY <1>8, <3>1 DEF LayoutChanged
  <2>2. SceneTypes'
    BY <1>0, <1>8, <2>1 DEF SceneTypes, LayoutChanged, AppTypes
  <2> QED BY <1>0, <1>1, <1>8, <2>2, SceneChanged DEF LayoutChanged, Dirty
<1>9. ASSUME LockScreen \/ LockSurfaceCommits PROVE PointerInv'
  <2>1. SceneTypes'
    BY <1>0, <1>9 DEF SceneTypes, AppTypes, LockScreen, LockSurfaceCommits
  <2>2. PointerShape'
    BY <1>0, <1>9 DEF PointerShape, LockScreen, LockSurfaceCommits
  <2> QED BY <1>0, <1>9, <2>1, <2>2, SceneChanged DEF LockScreen, LockSurfaceCommits, Dirty
<1>10. UNCHANGED <<stack, app, panels, lock>> => SceneTypes'
  BY <1>0 DEF SceneTypes, AppTypes
<1>11. ASSUME MovePointer PROVE PointerInv'
  <2>1. PICK q \in Positions \ {pointer.at} :
           /\ pointer' = IF pointer.grabbed THEN [pointer EXCEPT !.at = q, !.under = SurfaceUnder(q)]
                         ELSE [pointer EXCEPT !.at = q, !.focus = SurfaceUnder(q)]
           /\ \/ UNCHANGED <<stack, dirty>>
              \/ /\ ~pointer.grabbed
                 /\ \E w \in Apps : stack' = Raised(w)
                 /\ dirty' = TRUE
    BY <1>11 DEF MovePointer
  <2>2. settled' = FALSE /\ stale' = (stale /\ pointer.grabbed) /\ UNCHANGED <<app, panels, lock>>
    BY <1>11 DEF MovePointer
  <2>3. /\ PointerShape' /\ pointer'.at = q /\ pointer'.grabbed = pointer.grabbed
        /\ (IF pointer'.grabbed THEN pointer'.under ELSE pointer'.focus) = SurfaceUnder(q)
    BY <1>0, <2>1 DEF PointerShape
  <2>4. CASE UNCHANGED <<stack, dirty>>
    <3>1. SceneTypes'
      BY <1>10, <2>2, <2>4
    <3>2. SurfaceUnder(q)' = SurfaceUnder(q)
      BY <2>2, <2>4, UnderSame
    <3>3. Followed'
      BY <2>3, <3>2 DEF Followed
    <3> QED BY <1>0, <2>2, <2>3, <2>4, <3>1, <3>3 DEF PointerInv
  <2>5. CASE dirty' = TRUE /\ \E w \in Apps : stack' = Raised(w)
    <3>1. stack' \in Seq(Apps) /\ IsInjective(stack')
      BY <1>0, <2>5, RaisedFacts
    <3>2. SceneTypes'
      BY <1>0, <2>2, <3>1 DEF SceneTypes, AppTypes
    <3> QED BY <1>0, <2>2, <2>3, <2>5, <3>2, SceneChanged
  <2> QED BY <2>1, <2>4, <2>5
<1>12. ASSUME PressButton PROVE PointerInv'
  <2> DEFINE below == PointerTarget(pointer.at)
             onWindow == \E w \in Apps : below \in {<<part, w>> : part \in {"frame", "client", "popup"}}
  <2>1. /\ IF onWindow THEN stack' = Raised(below[2]) /\ dirty' = TRUE ELSE UNCHANGED <<stack, dirty>>
        /\ pointer' = IF IsFrame(below) THEN pointer ELSE [pointer EXCEPT !.grabbed = TRUE, !.under = pointer.focus]
        /\ ~pointer.grabbed /\ settled' = FALSE /\ UNCHANGED <<app, panels, lock, stale>>
    BY <1>12 DEF PressButton
  <2> HIDE DEF below
  <2>2. PointerShape' /\ pointer'.at = pointer.at
    BY <1>0, <2>1 DEF PointerShape
  <2>3. CASE onWindow
    <3>1. below[2] \in Apps
      BY <2>3
    <3>2. stack' \in Seq(Apps) /\ IsInjective(stack')
      BY <1>0, <2>1, <2>3, <3>1, RaisedFacts
    <3>3. SceneTypes'
      BY <1>0, <2>1, <3>2 DEF SceneTypes, AppTypes
    <3> QED BY <1>0, <2>1, <2>2, <2>3, <3>3, SceneChanged
  <2>4. CASE ~onWindow
    <3>1. ~IsFrame(below)
      BY <2>4 DEF IsFrame
    <3>2. pointer'.grabbed = TRUE /\ pointer'.under = pointer.focus
      BY <1>0, <2>1, <3>1 DEF PointerShape
    <3>3. UNCHANGED <<stack, app, panels, lock, dirty, stale>>
      BY <2>1, <2>4
    <3>4. ASSUME NEW p \in Positions, p = pointer'.at, ~dirty', ~stale'
          PROVE  (IF pointer'.grabbed THEN pointer'.under ELSE pointer'.focus) = SurfaceUnder(p)'
      <4>1. SurfaceUnder(p)' = SurfaceUnder(p)
        BY <3>3, UnderSame
      <4>2. pointer.focus = SurfaceUnder(p)
        BY <2>1, <2>2, <3>3, <3>4 DEF PointerInv, Followed
      <4> QED BY <3>2, <4>1, <4>2
    <3>5. Followed'
      BY <3>4 DEF Followed
    <3>6. SceneTypes'
      BY <1>10, <3>3
    <3> QED BY <1>0, <2>1, <2>2, <3>3, <3>5, <3>6 DEF PointerInv
  <2> QED BY <2>3, <2>4
<1>13. ASSUME ReleaseButton PROVE PointerInv'
  <2>1. /\ pointer.grabbed /\ pointer' = [pointer EXCEPT !.grabbed = FALSE, !.focus = pointer.under, !.under = Nobody]
        /\ settled' = FALSE /\ UNCHANGED <<stack, app, panels, lock, dirty, stale>>
    BY <1>13 DEF ReleaseButton
  <2>2. PointerShape' /\ pointer'.at = pointer.at /\ pointer'.grabbed = FALSE /\ pointer'.focus = pointer.under
    BY <1>0, <2>1 DEF PointerShape
  <2>3. ASSUME NEW p \in Positions, p = pointer'.at, ~dirty', ~stale'
        PROVE  (IF pointer'.grabbed THEN pointer'.under ELSE pointer'.focus) = SurfaceUnder(p)'
    <3>1. SurfaceUnder(p)' = SurfaceUnder(p)
      BY <2>1, UnderSame
    <3>2. pointer.under = SurfaceUnder(p)
      BY <2>1, <2>2, <2>3 DEF PointerInv, Followed
    <3> QED BY <2>2, <3>1, <3>2
  <2>4. Followed'
    BY <2>3 DEF Followed
  <2>5. SceneTypes'
    BY <1>10, <2>1
  <2> QED BY <1>0, <2>1, <2>2, <2>4, <2>5 DEF PointerInv
<1>14. ASSUME RefreshPointer PROVE PointerInv'
  <2>1. /\ settled' = TRUE /\ dirty' = FALSE /\ UNCHANGED <<stack, app, panels, lock>>
        /\ IF dirty /\ ~pointer.grabbed
           THEN pointer' = [pointer EXCEPT !.focus = SurfaceUnder(pointer.at)] /\ stale' = FALSE
           ELSE UNCHANGED pointer /\ stale' = (stale \/ dirty)
    BY <1>14 DEF RefreshPointer
  <2>2. PointerShape' /\ pointer'.at = pointer.at /\ pointer'.grabbed = pointer.grabbed
    BY <1>0, <2>1 DEF PointerShape
  <2>3. ASSUME NEW p \in Positions, p = pointer'.at, ~dirty', ~stale'
        PROVE  (IF pointer'.grabbed THEN pointer'.under ELSE pointer'.focus) = SurfaceUnder(p)'
    <3>1. SurfaceUnder(p)' = SurfaceUnder(p)
      BY <2>1, UnderSame
    <3>2. CASE dirty /\ ~pointer.grabbed
      <4>1. pointer'.focus = SurfaceUnder(pointer.at)
        BY <1>0, <2>1, <3>2 DEF PointerShape
      <4> QED BY <2>2, <2>3, <3>1, <3>2, <4>1
    <3>3. CASE ~(dirty /\ ~pointer.grabbed)
      <4>1. ~dirty /\ ~stale /\ pointer' = pointer
        BY <1>0, <2>1, <2>3, <3>3
      <4>2. (IF pointer.grabbed THEN pointer.under ELSE pointer.focus) = SurfaceUnder(p)
        BY <2>2, <2>3, <4>1 DEF PointerInv, Followed
      <4> QED BY <3>1, <4>1, <4>2
    <3> QED BY <3>2, <3>3
  <2>4. Followed'
    BY <2>3 DEF Followed
  <2>5. SceneTypes'
    BY <1>10, <2>1
  <2> QED BY <1>0, <2>1, <2>2, <2>4, <2>5 DEF PointerInv
<1>15. CASE UNCHANGED sceneVars
  <2>1. UNCHANGED <<stack, app, panels, lock, pointer, dirty, settled, stale>>
    BY <1>15 DEF sceneVars
  <2>2. ASSUME NEW p \in Positions, p = pointer'.at, ~dirty', ~stale'
        PROVE  (IF pointer'.grabbed THEN pointer'.under ELSE pointer'.focus) = SurfaceUnder(p)'
    <3>1. SurfaceUnder(p)' = SurfaceUnder(p)
      BY <2>1, UnderSame
    <3> QED BY <2>1, <2>2, <3>1 DEF PointerInv, Followed
  <2>3. Followed' /\ SceneTypes' /\ PointerShape'
    BY <1>1, <1>10, <2>1, <2>2 DEF Followed
  <2> QED BY <2>1, <2>3 DEF PointerInv
<1> QED BY <1>2, <1>3, <1>4, <1>5, <1>6, <1>7, <1>8, <1>9, <1>11, <1>12, <1>13, <1>14, <1>15 DEF PointerSceneNext

LEMMA PointerSound == PointerInv => SeenIsHit /\ FocusFollows
<1> SUFFICES ASSUME PointerInv PROVE SeenIsHit /\ FocusFollows
  OBVIOUS
<1>1. SeenIsHit
  BY SceneSeen DEF PointerInv
<1>2. FocusFollows
  BY DEF PointerInv, PointerShape, Followed, FocusFollows
<1> QED BY <1>1, <1>2

\* Whatever the windows, the panels, the lock and the pointer do, what is hit is
\* what is painted last, and when an iteration of the loop has ended the pointer
\* is in it, but after a commit or a change of mode that asks for no look at the
\* focus (input.rs, render/mod.rs, state.rs).
THEOREM PointerFollows == PointerSceneSpec => [](SeenIsHit /\ FocusFollows)
BY PointerInitial, PointerStep, PointerSound, PTL DEF PointerSceneSpec

------------------------------------------------------------------------------
(* The run, which moves one module at a time and leaves the others alone.  *)

WindowsInv == CornersInv /\ FramesInv /\ ModesInv /\ (scene = "parts" => PartsInv)

LEMMA WindowsInvariance == WindowsSpec => []WindowsInv
<1>1. WindowsInit => WindowsInv
  BY CornersInitial, FramesInitial, ModesInitial, PartsInitial DEF WindowsInit, WindowsInv
<1>2. WindowsInv /\ [WindowsNext]_windowsVars => WindowsInv'
  <2> SUFFICES ASSUME WindowsInv, [WindowsNext]_windowsVars
               PROVE  WindowsInv'
    OBVIOUS
  <2>1. HotCornersNext \/ UNCHANGED cornerVars
    BY DEF WindowsNext, windowsVars
  <2>2. DecorationsNext \/ UNCHANGED decorationVars
    BY DEF WindowsNext, windowsVars
  <2>3. CornersInv'
    BY <2>1, CornersStep DEF WindowsInv
  <2>4. FramesInv'
    BY <2>2, FramesStep DEF WindowsInv
  <2>5. scene' = "parts" => PartsInv'
    <3>1. scene' = scene /\ (FramePartsNext \/ UNCHANGED partsVars)
      BY DEF WindowsNext, windowsVars
    <3> QED BY <3>1, PartsStep DEF WindowsInv
  <2>6. WindowModesNext \/ UNCHANGED modeVars
    BY DEF WindowsNext, windowsVars
  <2>7. ModesInv'
    BY <2>6, ModesStep DEF WindowsInv
  <2> QED BY <2>3, <2>4, <2>5, <2>7 DEF WindowsInv
<1> QED BY <1>1, <1>2, PTL DEF WindowsSpec

\* What the run checks of hot corners holds for any corners and any dwell.
THEOREM CornersAlwaysWait == WindowsSpec => []CornersWait
<1>1. WindowsInv => CornersWait
  BY DEF WindowsInv, CornersInv, CornersWait, ActsOncePerDwell
<1> QED BY <1>1, WindowsInvariance, PTL

\* What the run checks of decorations holds for any windows.
THEOREM FramesAlwaysAgree == WindowsSpec => []FramesAgree
<1>1. WindowsInv => FramesAgree
  BY AgreedIsTold DEF WindowsInv, FramesAgree
<1> QED BY <1>1, WindowsInvariance, PTL

\* What the run checks of the parts of a frame holds for any theme and size.
THEOREM FramesAlwaysUsable == WindowsSpec => []FramesUsable
<1>1. WindowsInv => FramesUsable
  <2>1. PartsInv => FrameSound
    BY PartsAreApart, PointsAnswer DEF FrameSound
  <2> QED BY <2>1 DEF WindowsInv, FramesUsable
<1> QED BY <1>1, WindowsInvariance, PTL

\* What the run checks of the modes of a window holds for any sizes.
THEOREM PlacesAlwaysKept == WindowsSpec => []PlacesKept
<1>1. WindowsInv => PlacesKept
  BY ModesSound DEF WindowsInv, PlacesKept
<1> QED BY <1>1, WindowsInvariance, PTL

\* So does what it checks of the steps that leave the last mode.
THEOREM AlwaysRestored == WindowsSpec => Restored
<1>1. WindowsInv /\ [WindowsNext]_windowsVars => [RestoredStep]_modeVars
  <2> SUFFICES ASSUME WindowsInv, [WindowsNext]_windowsVars
               PROVE  RestoredStep \/ UNCHANGED modeVars
    OBVIOUS
  <2>1. WindowModesNext \/ UNCHANGED modeVars
    BY DEF WindowsNext, windowsVars
  <2> QED BY <2>1, ModesStep DEF WindowsInv
<1> QED BY <1>1, WindowsInvariance, PTL DEF WindowsSpec, Restored

\* What the run checks of painting holds for any outputs, looks and texts, as
\* long as the titlebar is never a gradient.
THEOREM FramesAlwaysPainted ==
  ASSUME Ungraded
  PROVE  WindowsSpec => []FramesCurrent
<1>1. WindowsInit => PaintInv
  BY PaintingInitial DEF WindowsInit
<1>2. PaintInv /\ [WindowsNext]_windowsVars => PaintInv'
  <2>1. [WindowsNext]_windowsVars => FramePaintingNext \/ UNCHANGED paintVars
    BY DEF WindowsNext, windowsVars
  <2> QED BY <2>1, PaintingStep
<1>3. PaintInv => FramesCurrent
  BY DEF PaintInv, FramesCurrent
<1> QED BY <1>1, <1>2, <1>3, PTL DEF WindowsSpec

\* What it checks of the pointer holds for any windows, placed anywhere and of any
\* width and frame, any panels and any reach of the handles.
THEOREM PointerAlwaysAgrees == WindowsSpec => []PointerAgrees
<1>1. WindowsInit => PointerInv
  BY PointerInitial DEF WindowsInit
<1>2. PointerInv /\ [WindowsNext]_windowsVars => PointerInv'
  <2>1. [WindowsNext]_windowsVars => [PointerSceneNext]_sceneVars
    BY DEF WindowsNext, windowsVars
  <2> QED BY <2>1, PointerStep
<1>3. PointerInv => PointerAgrees
  BY PointerSound DEF PointerAgrees
<1> QED BY <1>1, <1>2, <1>3, PTL DEF WindowsSpec

LEMMA KeysInvariance == WindowsSpec => []KeysInv
<1>1. WindowsInit => KeysInv
  BY KeysInitial DEF WindowsInit
<1>2. KeysInv /\ [WindowsNext]_windowsVars => KeysInv'
  <2> SUFFICES ASSUME KeysInv, [WindowsNext]_windowsVars PROVE KeysInv'
    OBVIOUS
  <2>1. KeysNext \/ board' = board
    BY DEF WindowsNext, windowsVars
  <2>2. CASE board' = board
    BY <2>2 DEF KeysInv
  <2> QED BY <2>1, <2>2, KeysStep
<1> QED BY <1>1, <1>2, PTL DEF WindowsSpec

\* What the run checks of shortcuts holds for any modifiers, keys and bindings,
\* and any number of keyboards that hold a key down, with reloads and resets
\* at any time and the exception FiresWhatIsHeld names (shortcuts.rs, input.rs).
THEOREM AlwaysFiresWhatIsHeld == WindowsSpec => FiresWhatIsHeld
<1> DEFINE Now == \A b \in board'.fired :
                    /\ ~board.locked /\ ~board.inhibited
                    /\ b.keys # {} => /\ \A k \in b.keys : board'.down[k] > 0
                                      /\ b.mods = {m \in Modifiers : m \in board'.pressed}
                    /\ b.keys = {} => b.mods \in board.held \cup {board.left}
<1>1. KeysInv /\ [WindowsNext]_windowsVars => [Now]_board
  <2> SUFFICES ASSUME KeysInv, [WindowsNext]_windowsVars, board' # board PROVE Now
    OBVIOUS
  <2>1. KeysNext
    BY DEF WindowsNext, windowsVars
  <2>2. Fires(board, board')
    BY <2>1, KeysStep
  <2> QED BY <2>2 DEF Fires
<1>2. FiresWhatIsHeld <=> [][Now]_board
  BY DEF FiresWhatIsHeld
<1> QED BY <1>1, <1>2, KeysInvariance, PTL DEF WindowsSpec

\* What it checks of keys that are released holds for any modifiers, keys and
\* bindings, with reloads and resets while keys are down and the exception
\* NothingStuck names, as long as a key is down on one keyboard at most: on two
\* it need not (accessibility.rs keeps one state for a modifier).
THEOREM KeysAlwaysReleased ==
  ASSUME MaxDown = 1
  PROVE  WindowsSpec => []KeysReleased
<1>1. WindowsInit => KeysExact(board)
  BY KeysExactInitial DEF WindowsInit
<1>2. KeysInv /\ KeysExact(board) /\ [WindowsNext]_windowsVars => KeysExact(board)'
  <2> SUFFICES ASSUME KeysInv, KeysExact(board), [WindowsNext]_windowsVars PROVE KeysExact(board')
    OBVIOUS
  <2>1. KeysNext \/ board' = board
    BY DEF WindowsNext, windowsVars
  <2>2. CASE board' = board
    BY <2>2
  <2> QED BY <2>1, <2>2, KeysExactStep
<1>3. KeysExact(board) => KeysReleased
  <2> SUFFICES ASSUME KeysExact(board) PROVE NothingStuck
    BY DEF KeysReleased
  <2>1. board.sticky \/ Virtual(board) = {}
    BY KindsDiffer DEF KeysExact, Sticking, Virtual
  <2> QED BY <2>1 DEF KeysExact, Believed, ReallyDown, NothingStuck
<1> QED BY <1>1, <1>2, <1>3, KeysInvariance, PTL DEF WindowsSpec
=============================================================================
