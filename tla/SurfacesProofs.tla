---------------------------- MODULE SurfacesProofs ----------------------------
(***************************************************************************)
(* Proofs about Tiling, for any windows, workspaces and layouts, about     *)
(* LayerSurfaces, for any surfaces, requests and outputs, about PopupGrabs, *)
(* for any clients, windows, panels, popups and presses, and about the run *)
(* that moves them and others in turn.                                     *)
(***************************************************************************)
EXTENDS MCSurfaces, SequenceFacts

------------------------------------------------------------------------------
(* The slots.                                                              *)

LEMMA Quotient ==
  ASSUME NEW a \in Nat, NEW d \in Nat \ {0}
  PROVE  /\ a \div d \in Nat /\ (a \div d) * d <= a
         /\ a >= d => a \div d >= 1
OBVIOUS

LEMMA Multiples ==
  ASSUME NEW i \in Nat, NEW j \in Nat, i < j, NEW step \in Nat
  PROVE  i * step \in Nat /\ i * step + step <= j * step
<1>1. j - i - 1 \in Nat /\ j = i + 1 + (j - i - 1)
  OBVIOUS
<1>2. j * step = i * step + step + (j - i - 1) * step
  BY <1>1
<1>3. (j - i - 1) * step \in Nat /\ i * step \in Nat
  BY <1>1
<1> QED BY <1>2, <1>3

Area == [x : Nat, y : Nat, w : Nat \ {0}, h : Nat \ {0}]
Fits(r, a) ==
  /\ r.w >= 1 /\ r.h >= 1
  /\ r.x >= a.x /\ r.y >= a.y
  /\ r.x + r.w <= a.x + a.w /\ r.y + r.h <= a.y + a.h

\* A height for the stack leaves room for the gaps between its tiles.
LEMMA StackHeight ==
  ASSUME NEW h \in Nat, NEW gap \in Nat, NEW n \in Nat, n >= 2, h >= (n - 1) + gap * (n - 2)
  PROVE  LET q == (h - gap * (n - 2)) \div (n - 1) IN
         q \in Nat /\ q >= 1 /\ (n - 2) * (q + gap) \in Nat /\ (n - 2) * (q + gap) + q <= h
<1> DEFINE q == (h - gap * (n - 2)) \div (n - 1)
<1>1. gap * (n - 2) \in Nat /\ h - gap * (n - 2) \in Nat /\ n - 1 \in Nat \ {0} /\ n - 2 \in Nat
  OBVIOUS
<1>2. q \in Nat /\ q >= 1 /\ q * (n - 1) <= h - gap * (n - 2)
  <2> DEFINE room == h - gap * (n - 2)
             d == n - 1
  <2>1. room \in Nat /\ d \in Nat \ {0} /\ room >= d
    BY <1>1
  <2> HIDE DEF room, d
  <2>2. room \div d \in Nat /\ (room \div d) * d <= room /\ room \div d >= 1
    BY <2>1, Quotient
  <2> QED BY <2>2 DEF room, d
<1> HIDE DEF q
<1>3. (n - 2) * (q + gap) = (n - 2) * q + gap * (n - 2) /\ q * (n - 1) = (n - 2) * q + q
  BY <1>1, <1>2
<1>4. (n - 2) * q \in Nat
  BY <1>1, <1>2
<1> QED BY <1>1, <1>2, <1>3, <1>4 DEF q

LEMMA StackFits ==
  ASSUME NEW a \in Area, NEW n \in Nat, n >= 2, NEW gap \in Nat, NEW ratio \in Nat,
         a.w >= gap + 2, a.h >= (n - 1) + gap * (n - 2),
         NEW i \in 1..n
  PROVE  LET s == MasterStack(a, n, gap, ratio) IN
         /\ Fits(s[i], a)
         /\ \A j \in 1..n : j # i => Apart(s[i], s[j])
<1> DEFINE s == MasterStack(a, n, gap, ratio)
           q == (a.h - gap * (n - 2)) \div (n - 1)
           share == ((a.w - gap) * Clamp(ratio, 1, 9) * 2 + 10) \div 20
           master == Clamp(share, 1, Most(a.w - gap - 1, 1))
           width == Most(a.w - master - gap, 1)
           height == Most((a.h - gap * ((n - 1) - 1)) \div (n - 1), 1)
           Y(k) == a.y + (k - 2) * (q + gap)
<1>1. a.x \in Nat /\ a.y \in Nat /\ a.w \in Nat /\ a.h \in Nat
  BY DEF Area
<1>2. q \in Nat /\ q >= 1 /\ (n - 2) * (q + gap) \in Nat /\ (n - 2) * (q + gap) + q <= a.h
  BY <1>1, StackHeight
<1>3. height = q
  <2>1. (n - 1) - 1 = n - 2
    OBVIOUS
  <2>2. height = Most(q, 1)
    BY <2>1
  <2> HIDE DEF height, q
  <2> QED BY <1>2, <2>2 DEF Most
<1>4. share \in Int
  <2>1. (a.w - gap) * Clamp(ratio, 1, 9) * 2 + 10 \in Int
    BY <1>1 DEF Clamp, Most, Least
  <2> QED BY <2>1
<1>5. master \in Nat /\ 1 <= master /\ master <= a.w - gap - 1
  <2> HIDE DEF share
  <2> QED BY <1>1, <1>4 DEF Clamp, Most, Least
<1>6. width = a.w - master - gap
  <2> HIDE DEF master
  <2> QED BY <1>1, <1>5 DEF Most
<1>7. s = [k \in 1..n |->
             IF k = 1 THEN [a EXCEPT !.w = master]
             ELSE [x |-> a.x + master + gap, y |-> Y(k), w |-> a.w - master - gap,
                   h |-> IF k = n THEN Most(a.y + a.h - Y(k), 1) ELSE q]]
  <2>1. s = [k \in 1..n |->
               IF k = 1 THEN [a EXCEPT !.w = master]
               ELSE [x |-> a.x + master + gap, y |-> a.y + (k - 2) * (height + gap), w |-> width,
                     h |-> IF k = n THEN Most(a.y + a.h - (a.y + (k - 2) * (height + gap)), 1) ELSE height]]
    <3>1. ~(n <= 1)
      OBVIOUS
    <3> QED BY <3>1, Zenon DEF MasterStack
  <2> HIDE DEF height, width, master, q
  <2> QED BY <1>3, <1>6, <2>1
<1> HIDE DEF q, share, master, width, height
<1>8. \A k \in 2..n : Y(k) \in Nat /\ Y(k) >= a.y /\ Y(k) + q <= a.y + a.h
  <2> SUFFICES ASSUME NEW k \in 2..n
               PROVE  Y(k) \in Nat /\ Y(k) >= a.y /\ Y(k) + q <= a.y + a.h
    OBVIOUS
  <2>1. CASE k = n
    BY <1>1, <1>2, <2>1
  <2>2. CASE k # n
    <3>1. k - 2 \in Nat /\ n - 2 \in Nat /\ k - 2 < n - 2 /\ q + gap \in Nat
      BY <1>2, <2>2
    <3>2. (k - 2) * (q + gap) \in Nat /\ (k - 2) * (q + gap) + (q + gap) <= (n - 2) * (q + gap)
      BY <3>1, Multiples
    <3> HIDE DEF Y
    <3>3. Y(k) = a.y + (k - 2) * (q + gap)
      BY DEF Y
    <3> QED BY <1>1, <1>2, <3>2, <3>3
  <2> QED BY <2>1, <2>2
<1>9. \A k, m \in 2..n : k < m => Y(k) + q <= Y(m)
  <2> SUFFICES ASSUME NEW k \in 2..n, NEW m \in 2..n, k < m
               PROVE  Y(k) + q <= Y(m)
    OBVIOUS
  <2>1. k - 2 \in Nat /\ m - 2 \in Nat /\ k - 2 < m - 2 /\ q + gap \in Nat
    BY <1>2
  <2>2. (k - 2) * (q + gap) \in Nat /\ (k - 2) * (q + gap) + (q + gap) <= (m - 2) * (q + gap)
    BY <2>1, Multiples
  <2>3. (m - 2) * (q + gap) \in Nat
    BY <2>1, Multiples
  <2> QED BY <1>1, <1>2, <2>2, <2>3
<1> HIDE DEF Y, s
<1>10. s[1].x = a.x /\ s[1].y = a.y /\ s[1].w = master /\ s[1].h = a.h
  BY <1>7 DEF Area
<1>11. ASSUME NEW k \in 2..n
       PROVE  /\ s[k].x = a.x + master + gap /\ s[k].y = Y(k) /\ s[k].w = a.w - master - gap
              /\ s[k].h >= q /\ s[k].h \in Nat
              /\ k # n => s[k].h = q
              /\ Y(k) + s[k].h <= a.y + a.h
  <2>1. /\ s[k].x = a.x + master + gap /\ s[k].y = Y(k) /\ s[k].w = a.w - master - gap
        /\ s[k].h = IF k = n THEN Most(a.y + a.h - Y(k), 1) ELSE q
    BY <1>7
  <2> QED BY <1>1, <1>2, <1>8, <2>1 DEF Most
<1>12. Fits(s[i], a)
  <2>1. CASE i = 1
    BY <1>1, <1>5, <1>10, <2>1, <1>2 DEF Fits, Area
  <2>2. CASE i # 1
    <3>1. i \in 2..n
      BY <2>2
    <3> QED BY <1>1, <1>2, <1>5, <1>8, <1>11, <3>1 DEF Fits
  <2> QED BY <2>1, <2>2
<1>13. \A j \in 1..n : j # i => Apart(s[i], s[j])
  <2> SUFFICES ASSUME NEW j \in 1..n, j # i
               PROVE  Apart(s[i], s[j])
    OBVIOUS
  <2>1. CASE i = 1
    <3>1. j \in 2..n
      BY <2>1
    <3> QED BY <1>1, <1>5, <1>10, <1>11, <2>1, <3>1 DEF Apart
  <2>2. CASE j = 1
    <3>1. i \in 2..n
      BY <2>2
    <3> QED BY <1>1, <1>5, <1>10, <1>11, <2>2, <3>1 DEF Apart
  <2>3. CASE i # 1 /\ j # 1
    <3>1. i \in 2..n /\ j \in 2..n
      BY <2>3
    <3>2. CASE i < j
      <4>1. i # n /\ Y(i) + q <= Y(j)
        BY <1>9, <3>1, <3>2
      <4> QED BY <1>11, <3>1, <4>1 DEF Apart
    <3>3. CASE j < i
      <4>1. j # n /\ Y(j) + q <= Y(i)
        BY <1>9, <3>1, <3>3
      <4> QED BY <1>11, <3>1, <4>1 DEF Apart
    <3> QED BY <3>1, <3>2, <3>3
  <2> QED BY <2>1, <2>2, <2>3
<1> QED BY <1>12, <1>13 DEF s

\* Different windows have different ranks, from one to the number of windows.
LEMMA RanksUpTo ==
  ASSUME NEW S, IsFiniteSet(S), S \subseteq Nat, NEW w \in S
  PROVE  Rank(S, w) \in 1..Cardinality(S)
<1> DEFINE T == {v \in S : v <= w}
<1>1. T \in SUBSET S /\ w \in T
  OBVIOUS
<1>2. IsFiniteSet(T) /\ Cardinality(T) <= Cardinality(S) /\ Cardinality(T) \in Nat /\ Cardinality(S) \in Nat
  BY <1>1, FS_Subset, FS_CardinalityType
<1>3. Cardinality(T) # 0
  BY <1>1, <1>2, FS_EmptySet
<1> QED BY <1>2, <1>3 DEF Rank

LEMMA RanksDiffer ==
  ASSUME NEW S, IsFiniteSet(S), S \subseteq Nat, NEW v \in S, NEW w \in S, v < w
  PROVE  Rank(S, v) # Rank(S, w)
<1> DEFINE T == {u \in S : u <= v}
           U == {u \in S : u <= w}
<1>1. T \in SUBSET U /\ w \in U /\ w \notin T
  <2>1. w <= w /\ ~(w <= v) /\ \A u \in S : u <= v => u <= w
    OBVIOUS
  <2> QED BY <2>1, Zenon
<1>2. IsFiniteSet(U)
  BY FS_Subset
<1>3. Cardinality(T) # Cardinality(U)
  BY <1>1, <1>2, FS_Subset
<1> QED BY <1>3 DEF Rank

LEMMA LayoutArea ==
  ASSUME NEW l \in Arrangements
  PROVE  Padded(l) \in Area /\ Gap(l) \in Nat /\ l.ratio \in Nat /\ l.border \in Nat
<1>1. l.w \in Nat \ {0} /\ l.h \in Nat \ {0} /\ l.gap \in Nat /\ l.padding \in Nat /\ l.ratio \in Nat /\ l.border \in Nat
  BY TilingAssumption
<1>2. Least(l.w, l.h) \in Nat /\ Least(l.w, l.h) \div 2 \in Nat /\ Least(l.w, l.h) \div 4 \in Nat
  BY <1>1 DEF Least
<1> QED BY <1>1, <1>2 DEF Padded, Gap, Clamp, Most, Least, Area

LEMMA SlotsAlwaysFit == layout \in Arrangements => SlotsFit
<1> SUFFICES ASSUME layout \in Arrangements, NEW id \in Spaces
             PROVE  LET slots == Slots(layout, tiles, id)
                        area == Padded(layout)
                        n == Cardinality(Here(tiles, id))
                        roomy == n <= 1 \/ (area.w >= Gap(layout) + 2 /\ area.h >= (n - 1) + Gap(layout) * (n - 2))
                    IN  roomy => \A w \in Here(tiles, id) :
                          LET r == slots[w] IN
                          /\ r.w >= 1 /\ r.h >= 1
                          /\ r.x >= area.x /\ r.y >= area.y
                          /\ r.x + r.w <= area.x + area.w /\ r.y + r.h <= area.y + area.h
                          /\ \A v \in Here(tiles, id) \ {w} : Apart(r, slots[v])
  BY DEF SlotsFit
<1> DEFINE windows == Here(tiles, id)
           area == Padded(layout)
           gap == Gap(layout)
           n == Cardinality(windows)
           stack == MasterStack(area, n, gap, layout.ratio)
           slots == Slots(layout, tiles, id)
<1>1. IsFiniteSet(windows) /\ windows \subseteq Nat /\ n \in Nat
  <2>1. windows \in SUBSET Tiled
    BY DEF Here
  <2> QED BY <2>1, TilingAssumption, FS_Subset, FS_CardinalityType
<1>2. area \in Area /\ gap \in Nat /\ layout.ratio \in Nat
  BY LayoutArea
<1>3. slots = [w \in windows |-> stack[Rank(windows, w)]]
  BY DEF Slots
<1> HIDE DEF windows, area, gap, n, stack, slots
<1> SUFFICES ASSUME n <= 1 \/ (area.w >= gap + 2 /\ area.h >= (n - 1) + gap * (n - 2)),
                    NEW w \in windows
             PROVE  Fits(slots[w], area) /\ \A v \in windows \ {w} : Apart(slots[w], slots[v])
  BY DEF windows, area, gap, n, slots, Fits
<1>4. Rank(windows, w) \in 1..n
  BY <1>1, RanksUpTo DEF n
<1>5. CASE n <= 1
  <2>1. n = 1 /\ Rank(windows, w) = 1
    BY <1>1, <1>4, <1>5
  <2>2. slots[w] = area
    BY <1>3, <2>1 DEF stack, MasterStack
  <2>3. \A v \in windows : v = w
    <3> SUFFICES ASSUME NEW v \in windows, v # w
                 PROVE  FALSE
      OBVIOUS
    <3>1. Rank(windows, v) \in 1..n
      BY <1>1, RanksUpTo DEF n
    <3>2. v \in Nat /\ w \in Nat /\ (v < w \/ w < v)
      BY <1>1
    <3>3. Rank(windows, v) # Rank(windows, w)
      BY <1>1, <3>2, RanksDiffer
    <3> QED BY <2>1, <3>1, <3>3
  <2>4. Fits(area, area)
    BY <1>2 DEF Fits, Area
  <2> QED BY <2>2, <2>3, <2>4
<1>6. CASE ~(n <= 1)
  <2>1. n >= 2 /\ area.w >= gap + 2 /\ area.h >= (n - 1) + gap * (n - 2)
    BY <1>1, <1>6
  <2>2. /\ Fits(stack[Rank(windows, w)], area)
        /\ \A j \in 1..n : j # Rank(windows, w) => Apart(stack[Rank(windows, w)], stack[j])
    BY <1>1, <1>2, <1>4, <2>1, StackFits DEF stack
  <2>3. ASSUME NEW v \in windows \ {w}
        PROVE  Apart(slots[w], slots[v])
    <3>1. Rank(windows, v) \in 1..n
      BY <1>1, RanksUpTo DEF n
    <3>2. v \in Nat /\ w \in Nat /\ (v < w \/ w < v)
      BY <1>1
    <3>3. Rank(windows, v) # Rank(windows, w)
      BY <1>1, <3>2, RanksDiffer
    <3> QED BY <1>3, <2>2, <3>1, <3>3
  <2> QED BY <1>3, <2>2, <2>3
<1> QED BY <1>5, <1>6

------------------------------------------------------------------------------
(* The tiles.                                                              *)

TilesAre(ts) ==
  ts = [w \in Tiled |-> [on |-> ts[w].on, minimized |-> ts[w].minimized,
                        fullscreen |-> ts[w].fullscreen, at |-> ts[w].at]]

\* The windows of a workspace are where its layout puts them, which matters as
\* long as none of them is fullscreen.
InPlace(l, ts, id) == \A w \in Here(ts, id) : ts[w].at = Inside(l, Slots(l, ts, id)[w])
Covered(ts, id) == \E w \in Tiled : ts[w].on = id /\ ts[w].fullscreen

\* EveryTileInPlace, with the type of the tiles.
TilingInv ==
  /\ layout \in Arrangements /\ TilesAre(tiles)
  /\ \A id \in Spaces : ~Covered(tiles, id) => InPlace(layout, tiles, id)

LEMMA TileAt ==
  ASSUME NEW ts, TilesAre(ts), NEW w \in Tiled
  PROVE  ts[w] = [on |-> ts[w].on, minimized |-> ts[w].minimized, fullscreen |-> ts[w].fullscreen, at |-> ts[w].at]
BY DEF TilesAre

\* Two arrangements agree on a workspace.
Agree(ts, us, id) ==
  /\ Here(us, id) = Here(ts, id) /\ \A w \in Here(ts, id) : us[w].at = ts[w].at
  /\ Covered(ts, id) => Covered(us, id)

LEMMA AgreeingPlaces ==
  ASSUME NEW l, NEW ts, NEW us, NEW id, Agree(ts, us, id), InPlace(l, ts, id)
  PROVE  InPlace(l, us, id)
BY DEF Agree, InPlace, Slots

\* Laying out a workspace puts its windows in place and leaves the others.
LEMMA RetilePlaces ==
  ASSUME NEW l, NEW ts, TilesAre(ts), NEW id
  PROVE  LET us == Retile(l, ts, id) IN
         /\ TilesAre(us) /\ InPlace(l, us, id)
         /\ \A i : i # id => Agree(ts, us, i)
         /\ \A i : Covered(us, i) <=> Covered(ts, i)
         /\ \A w \in Tiled : us[w].on = ts[w].on
<1> DEFINE us == Retile(l, ts, id)
           slots == Slots(l, ts, id)
<1>1. us = [w \in Tiled |-> [on |-> ts[w].on, minimized |-> ts[w].minimized, fullscreen |-> ts[w].fullscreen,
                             at |-> IF w \in Here(ts, id) THEN Inside(l, slots[w]) ELSE ts[w].at]]
  <2> DEFINE place(w) == Inside(l, slots[w])
  <2>1. us = [w \in Tiled |-> IF w \in Here(ts, id) THEN [ts[w] EXCEPT !.at = place(w)] ELSE ts[w]]
    BY DEF Retile
  <2> HIDE DEF place, us
  <2>2. us = [w \in Tiled |-> [on |-> ts[w].on, minimized |-> ts[w].minimized, fullscreen |-> ts[w].fullscreen,
                               at |-> IF w \in Here(ts, id) THEN place(w) ELSE ts[w].at]]
    BY <2>1 DEF TilesAre
  <2> QED BY <2>2 DEF place
<1> HIDE DEF us, slots
<1>2. TilesAre(us)
  BY <1>1 DEF TilesAre
<1>3. \A w \in Tiled : us[w].on = ts[w].on /\ us[w].minimized = ts[w].minimized /\ us[w].fullscreen = ts[w].fullscreen
  BY <1>1
<1>4. \A i : Here(us, i) = Here(ts, i) /\ (Covered(us, i) <=> Covered(ts, i))
  BY <1>3 DEF Here, Covered
<1>5. InPlace(l, us, id)
  <2>1. Slots(l, us, id) = slots
    BY <1>4 DEF Slots, slots
  <2>2. \A w \in Here(ts, id) : us[w].at = Inside(l, slots[w])
    BY <1>1 DEF Here
  <2> QED BY <1>4, <2>1, <2>2 DEF InPlace
<1>6. ASSUME NEW i, i # id
      PROVE  Agree(ts, us, i)
  <2>1. \A w \in Here(ts, i) : us[w].at = ts[w].at
    BY <1>1, <1>6 DEF Here
  <2> QED BY <1>4, <2>1 DEF Agree
<1> QED BY <1>2, <1>3, <1>4, <1>5, <1>6 DEF us

\* A change of one window keeps every workspace that it is not on, before or
\* after, and laying out one that it is on puts that in place.
LEMMA ChangeThenRetile ==
  ASSUME TilingInv, NEW ts, TilesAre(ts), NEW id,
         \A i \in Spaces : i # id => Agree(tiles, ts, i),
         tiles' = Retile(layout, ts, id), layout' = layout
  PROVE  TilingInv'
<1>1. /\ TilesAre(tiles') /\ InPlace(layout, tiles', id)
      /\ \A i : i # id => Agree(ts, tiles', i)
  BY RetilePlaces
<1>2. ASSUME NEW i \in Spaces, ~Covered(tiles', i)
      PROVE  InPlace(layout', tiles', i)
  <2>1. CASE i = id
    BY <1>1, <2>1
  <2>2. CASE i # id
    <3>1. Agree(tiles, ts, i) /\ Agree(ts, tiles', i)
      BY <1>1, <2>2
    <3>2. ~Covered(ts, i) /\ ~Covered(tiles, i)
      BY <1>2, <3>1 DEF Agree
    <3>3. InPlace(layout, ts, i)
      BY <3>1, <3>2, AgreeingPlaces DEF TilingInv
    <3> QED BY <3>1, <3>3, AgreeingPlaces
  <2> QED BY <2>1, <2>2
<1> QED BY <1>1, <1>2 DEF TilingInv

\* Two arrangements that differ in one window agree on the workspaces that it
\* is on in neither.
LEMMA OneWindow ==
  ASSUME NEW ts, NEW us, NEW w \in Tiled, \A v \in Tiled \ {w} : us[v] = ts[v],
         NEW i, ts[w].on # i, us[w].on # i
  PROVE  Agree(ts, us, i)
<1>1. Here(us, i) = Here(ts, i)
  BY DEF Here
<1>2. \A v \in Here(ts, i) : us[v].at = ts[v].at
  BY DEF Here
<1>3. Covered(ts, i) => Covered(us, i)
  BY DEF Covered
<1> QED BY <1>1, <1>2, <1>3 DEF Agree

LEMMA TilingInitial == TilingInit => TilingInv
<1> SUFFICES ASSUME TilingInit
             PROVE  TilingInv
  OBVIOUS
<1>1. \A w \in Tiled : tiles[w].on = NoSpace
  BY DEF TilingInit
<1>2. \A id \in Spaces : Here(tiles, id) = {}
  BY <1>1, TilingAssumption DEF Here
<1>3. TilesAre(tiles)
  BY DEF TilingInit, TilesAre
<1> QED BY <1>2, <1>3 DEF TilingInit, TilingInv, InPlace

LEMMA TilingStep == TilingInv /\ [TilingNext]_tilingVars => TilingInv'
<1> SUFFICES ASSUME TilingInv, [TilingNext]_tilingVars
             PROVE  TilingInv'
  OBVIOUS
<1>0. TilesAre(tiles) /\ layout \in Arrangements
  BY DEF TilingInv
\* A window changes and the one workspace it is on is laid out.
<1>1. ASSUME NEW w \in Tiled, NEW t, NEW id, t = [on |-> t.on, minimized |-> t.minimized, fullscreen |-> t.fullscreen, at |-> t.at],
             {tiles[w].on, t.on} \subseteq {id, NoSpace},
             tiles' = Retile(layout, [tiles EXCEPT ![w] = t], id), layout' = layout
      PROVE  TilingInv'
  <2> DEFINE ts == [tiles EXCEPT ![w] = t]
  <2>1. TilesAre(ts) /\ ts[w] = t /\ \A v \in Tiled \ {w} : ts[v] = tiles[v]
    BY <1>0, <1>1 DEF TilesAre
  <2> HIDE DEF ts
  <2>2. ASSUME NEW i \in Spaces, i # id
        PROVE  Agree(tiles, ts, i)
    <3>1. tiles[w].on # i /\ ts[w].on # i
      BY <1>1, <2>1, <2>2, TilingAssumption
    <3> QED BY <2>1, <3>1, OneWindow
  <2> QED BY <1>1, <2>1, <2>2, ChangeThenRetile DEF ts
<1>2. ASSUME NEW w \in Tiled, NEW id \in Spaces, MapTile(w, id)
      PROVE  TilingInv'
  <2> DEFINE r == [on |-> id, minimized |-> tiles[w].minimized, fullscreen |-> tiles[w].fullscreen, at |-> tiles[w].at]
             t(m) == [on |-> id, minimized |-> tiles[w].minimized, fullscreen |-> m, at |-> tiles[w].at]
  <2>1. ASSUME NEW m \in BOOLEAN
        PROVE  [tiles EXCEPT ![w].on = id, ![w].fullscreen = m] = [tiles EXCEPT ![w] = t(m)]
    <3>1. tiles[w] = [on |-> tiles[w].on, minimized |-> tiles[w].minimized,
                     fullscreen |-> tiles[w].fullscreen, at |-> tiles[w].at]
      BY <1>0, TileAt
    <3>2. [tiles[w] EXCEPT !.on = id] = r
      BY <3>1
    <3>3. [r EXCEPT !.fullscreen = m] = t(m)
      OBVIOUS
    <3> HIDE DEF r, t
    <3>4. [tiles EXCEPT ![w].on = id, ![w].fullscreen = m] = [[tiles EXCEPT ![w] = r] EXCEPT ![w].fullscreen = m]
      BY <3>2
    <3>5. [[tiles EXCEPT ![w] = r] EXCEPT ![w].fullscreen = m] = [tiles EXCEPT ![w] = t(m)]
      BY <1>0, <3>3 DEF TilesAre
    <3> QED BY <3>4, <3>5
  <2>2. PICK m \in BOOLEAN : tiles' = Retile(layout, [tiles EXCEPT ![w].on = id, ![w].fullscreen = m], id)
    BY <1>2 DEF MapTile
  <2>3. tiles' = Retile(layout, [tiles EXCEPT ![w] = t(m)], id) /\ layout' = layout /\ tiles[w].on = NoSpace
    BY <1>2, <2>1, <2>2 DEF MapTile
  <2> QED BY <1>1, <2>3
<1>3. ASSUME NEW w \in Tiled, UnmapTile(w)
      PROVE  TilingInv'
  <2> DEFINE r == [on |-> NoSpace, minimized |-> tiles[w].minimized, fullscreen |-> tiles[w].fullscreen, at |-> tiles[w].at]
             s(m) == [on |-> NoSpace, minimized |-> m, fullscreen |-> tiles[w].fullscreen, at |-> tiles[w].at]
             t(m) == [on |-> NoSpace, minimized |-> m, fullscreen |-> tiles[w].fullscreen, at |-> NoTile]
  <2>1. ASSUME NEW m \in BOOLEAN
        PROVE  [tiles EXCEPT ![w] = [@ EXCEPT !.on = NoSpace, !.minimized = m, !.at = NoTile]] = [tiles EXCEPT ![w] = t(m)]
    <3>1. tiles[w] = [on |-> tiles[w].on, minimized |-> tiles[w].minimized,
                     fullscreen |-> tiles[w].fullscreen, at |-> tiles[w].at]
      BY <1>0, TileAt
    <3>2. [tiles[w] EXCEPT !.on = NoSpace] = r
      BY <3>1
    <3>3. [r EXCEPT !.minimized = m] = s(m) /\ [s(m) EXCEPT !.at = NoTile] = t(m)
      OBVIOUS
    <3> HIDE DEF r, s, t
    <3>4. [tiles[w] EXCEPT !.on = NoSpace, !.minimized = m, !.at = NoTile] = t(m)
      BY <3>2, <3>3
    <3> QED BY <3>4
  <2>2. PICK m \in BOOLEAN : tiles' = Retile(layout, [tiles EXCEPT ![w] = [@ EXCEPT !.on = NoSpace, !.minimized = m, !.at = NoTile]], tiles[w].on)
    BY <1>3 DEF UnmapTile
  <2>3. tiles' = Retile(layout, [tiles EXCEPT ![w] = t(m)], tiles[w].on) /\ layout' = layout
    BY <1>3, <2>1, <2>2 DEF UnmapTile
  <2> QED BY <1>1, <2>3
<1>4. ASSUME NEW w \in Tiled, MinimizeTile(w) \/ UnminimizeTile(w)
      PROVE  TilingInv'
  <2> DEFINE t(m) == [on |-> tiles[w].on, minimized |-> m, fullscreen |-> tiles[w].fullscreen, at |-> tiles[w].at]
  <2>1. ASSUME NEW m \in BOOLEAN
        PROVE  [tiles EXCEPT ![w].minimized = m] = [tiles EXCEPT ![w] = t(m)]
    <3>1. tiles[w] = [on |-> tiles[w].on, minimized |-> tiles[w].minimized,
                     fullscreen |-> tiles[w].fullscreen, at |-> tiles[w].at]
      BY <1>0, TileAt
    <3>2. [tiles[w] EXCEPT !.minimized = m] = t(m)
      BY <3>1
    <3> HIDE DEF t
    <3> QED BY <3>2
  <2>2. PICK m \in BOOLEAN : tiles' = Retile(layout, [tiles EXCEPT ![w].minimized = m], tiles[w].on)
    BY <1>4 DEF MinimizeTile, UnminimizeTile
  <2>3. tiles' = Retile(layout, [tiles EXCEPT ![w] = t(m)], tiles[w].on) /\ layout' = layout
    BY <1>4, <2>1, <2>2 DEF MinimizeTile, UnminimizeTile
  <2> QED BY <1>1, <2>3
<1>5. ASSUME NEW w \in Tiled, NEW id \in Spaces, MoveTile(w, id)
      PROVE  TilingInv'
  <2> DEFINE from == tiles[w].on
             t == [on |-> id, minimized |-> tiles[w].minimized, fullscreen |-> tiles[w].fullscreen, at |-> tiles[w].at]
             ts == [tiles EXCEPT ![w] = t]
             us == Retile(layout, ts, from)
  <2>1. [tiles EXCEPT ![w].on = id] = ts
    <3>1. tiles[w] = [on |-> tiles[w].on, minimized |-> tiles[w].minimized,
                     fullscreen |-> tiles[w].fullscreen, at |-> tiles[w].at]
      BY <1>0, TileAt
    <3>2. [tiles[w] EXCEPT !.on = id] = t
      BY <3>1
    <3> HIDE DEF t
    <3> QED BY <3>2
  <2>2. tiles' = Retile(layout, us, id) /\ layout' = layout /\ from # id
    BY <1>5, <2>1 DEF MoveTile
  <2>3. TilesAre(ts) /\ ts[w].on = id /\ \A v \in Tiled \ {w} : ts[v] = tiles[v]
    BY <1>0 DEF TilesAre
  <2> HIDE DEF ts, us
  <2>4. /\ TilesAre(us) /\ InPlace(layout, us, from)
        /\ \A i : i # from => Agree(ts, us, i)
        /\ \A i : Covered(us, i) <=> Covered(ts, i)
    BY <2>3, RetilePlaces DEF us
  <2>5. /\ TilesAre(tiles') /\ InPlace(layout, tiles', id)
        /\ \A i : i # id => Agree(us, tiles', i)
        /\ \A i : Covered(tiles', i) <=> Covered(us, i)
    BY <2>2, <2>4, RetilePlaces
  <2>6. ASSUME NEW i \in Spaces, ~Covered(tiles', i)
        PROVE  InPlace(layout', tiles', i)
    <3>1. CASE i = id
      BY <2>2, <2>5, <3>1
    <3>2. CASE i = from
      <4>1. Agree(us, tiles', i)
        BY <2>2, <2>5, <3>2
      <4> QED BY <2>2, <2>4, <3>2, <4>1, AgreeingPlaces
    <3>3. CASE i # id /\ i # from
      <4>1. Agree(tiles, ts, i)
        BY <2>3, <3>3, OneWindow
      <4>2. Agree(ts, us, i) /\ Agree(us, tiles', i)
        BY <2>4, <2>5, <3>3
      <4>3. ~Covered(tiles, i)
        BY <2>4, <2>5, <2>6, <4>1 DEF Agree
      <4>4. InPlace(layout, tiles, i)
        BY <4>3 DEF TilingInv
      <4>5. InPlace(layout, ts, i)
        BY <4>1, <4>4, AgreeingPlaces
      <4>6. InPlace(layout, us, i)
        BY <4>2, <4>5, AgreeingPlaces
      <4> QED BY <2>2, <4>2, <4>6, AgreeingPlaces
    <3> QED BY <3>1, <3>2, <3>3
  <2> QED BY <1>0, <2>2, <2>5, <2>6 DEF TilingInv
<1>6. ASSUME NEW w \in Tiled, FullscreenTile(w)
      PROVE  TilingInv'
  <2> DEFINE t == [on |-> tiles[w].on, minimized |-> tiles[w].minimized, fullscreen |-> ~tiles[w].fullscreen, at |-> tiles[w].at]
  <2>1. [tiles EXCEPT ![w].fullscreen = ~@] = [tiles EXCEPT ![w] = t]
    <3>1. tiles[w] = [on |-> tiles[w].on, minimized |-> tiles[w].minimized,
                     fullscreen |-> tiles[w].fullscreen, at |-> tiles[w].at]
      BY <1>0, TileAt
    <3>2. [tiles[w] EXCEPT !.fullscreen = ~@] = t
      BY <3>1
    <3> HIDE DEF t
    <3> QED BY <3>2
  <2>2. CASE tiles[w].fullscreen
    <3>1. tiles' = Retile(layout, [tiles EXCEPT ![w] = t], tiles[w].on) /\ layout' = layout
      BY <1>6, <2>1, <2>2 DEF FullscreenTile
    <3>2. t.on = tiles[w].on /\ t = [on |-> t.on, minimized |-> t.minimized, fullscreen |-> t.fullscreen, at |-> t.at]
      OBVIOUS
    <3> HIDE DEF t
    <3>3. {tiles[w].on, t.on} \subseteq {tiles[w].on, NoSpace}
      BY <3>2
    <3> QED BY <1>1, <3>1, <3>2, <3>3
  <2>3. CASE ~tiles[w].fullscreen
    <3> DEFINE full == [x |-> 0, y |-> 0, w |-> layout.w, h |-> layout.h]
               u == [on |-> tiles[w].on, minimized |-> tiles[w].minimized, fullscreen |-> ~tiles[w].fullscreen, at |-> full]
    <3>1. tiles' = [tiles EXCEPT ![w] = u] /\ layout' = layout
      <4>1. tiles' = [[tiles EXCEPT ![w] = t] EXCEPT ![w] = FullscreenAt(layout, @)] /\ layout' = layout
        BY <1>6, <2>1, <2>3 DEF FullscreenTile
      <4>2. FullscreenAt(layout, t) = u
        BY DEF FullscreenAt
      <4> HIDE DEF t, u
      <4> QED BY <1>0, <4>1, <4>2 DEF TilesAre
    <3>2. TilesAre(tiles') /\ tiles'[w] = u /\ \A v \in Tiled \ {w} : tiles'[v] = tiles[v]
      BY <1>0, <3>1 DEF TilesAre
    <3>3. Covered(tiles', tiles[w].on) /\ tiles'[w].on = tiles[w].on
      <4>1. u.on = tiles[w].on /\ (u.fullscreen <=> ~tiles[w].fullscreen)
        OBVIOUS
      <4> HIDE DEF u
      <4> QED BY <2>3, <3>2, <4>1 DEF Covered
    <3>4. ASSUME NEW i \in Spaces, ~Covered(tiles', i)
          PROVE  InPlace(layout, tiles', i)
      <4>1. Agree(tiles, tiles', i)
        <5> HIDE DEF u
        <5> QED BY <3>2, <3>3, <3>4, OneWindow
      <4>2. InPlace(layout, tiles, i)
        BY <3>4, <4>1 DEF Agree, TilingInv
      <4> QED BY <4>1, <4>2, AgreeingPlaces
    <3> QED BY <1>0, <3>1, <3>2, <3>4 DEF TilingInv
  <2> QED BY <2>2, <2>3
<1>7. CASE ChangeLayout
  <2> DEFINE tile(w) == Inside(layout', Slots(layout', tiles, tiles[w].on)[w])
             full == [x |-> 0, y |-> 0, w |-> layout'.w, h |-> layout'.h]
             at(w) == IF tiles[w].on = NoSpace \/ tiles[w].minimized THEN tiles[w].at
                      ELSE IF tiles[w].fullscreen THEN full ELSE tile(w)
  <2>1. tiles' = [w \in Tiled |-> IF tiles[w].on = NoSpace \/ tiles[w].minimized THEN tiles[w]
                                 ELSE IF tiles[w].fullscreen THEN [tiles[w] EXCEPT !.at = full]
                                 ELSE [tiles[w] EXCEPT !.at = tile(w)]]
    BY <1>7 DEF ChangeLayout, RelayoutAll, FullscreenAt
  <2> HIDE DEF tile, full
  <2>2. tiles' = [w \in Tiled |-> [on |-> tiles[w].on, minimized |-> tiles[w].minimized,
                                  fullscreen |-> tiles[w].fullscreen, at |-> at(w)]]
    BY <1>0, <2>1 DEF TilesAre
  <2>3. TilesAre(tiles')
    BY <2>2 DEF TilesAre
  <2>4. \A i : Here(tiles', i) = Here(tiles, i)
    BY <2>2 DEF Here
  <2>5. ASSUME NEW i \in Spaces
        PROVE  InPlace(layout', tiles', i)
    <3>1. \A w \in Here(tiles, i) : tiles'[w].at = tile(w) /\ tiles[w].on = i
      BY <2>2, TilingAssumption DEF Here
    <3>2. Slots(layout', tiles', i) = Slots(layout', tiles, i)
      BY <2>4 DEF Slots
    <3> QED BY <2>4, <3>1, <3>2 DEF InPlace, tile
  <2>6. layout' \in Arrangements
    BY <1>7 DEF ChangeLayout
  <2> QED BY <2>3, <2>5, <2>6 DEF TilingInv
<1>8. CASE UNCHANGED tilingVars
  BY <1>8 DEF tilingVars, TilingInv
<1> QED BY <1>2, <1>3, <1>4, <1>5, <1>6, <1>7, <1>8 DEF TilingNext

LEMMA TilesSound == TilingInv => EveryTileInPlace /\ SlotsFit
<1>1. TilingInv => EveryTileInPlace
  BY DEF TilingInv, EveryTileInPlace, InPlace, Covered
<1> QED BY <1>1, SlotsAlwaysFit DEF TilingInv

\* Tiled windows are where the present layout puts them, without overlap and
\* within the work area (state.rs, layout.rs), for any windows, workspaces,
\* ratios, gaps and sizes.
THEOREM TilesAreKept == TilingSpec => [](EveryTileInPlace /\ SlotsFit)
BY TilingInitial, TilingStep, TilesSound, PTL DEF TilingSpec

------------------------------------------------------------------------------
(* Layer surfaces: whatever was sent before a surface was unmapped is below *)
(* all that is sent after.                                                  *)

Fields == {"phase", "first", "requested", "buffer", "sent", "open", "size", "cycle", "acked"}

SurfaceLike(s) == DOMAIN s = Fields

\* Configures are counted up, and those on their way are above the last one
\* acknowledged.
InOrder(s) ==
  /\ {s.first, s.sent, s.cycle, s.acked} \cup s.open \subseteq Nat
  /\ s.acked <= s.sent /\ s.cycle <= s.sent
  /\ \A k \in s.open : s.acked < k /\ k <= s.sent

\* A size was configured in this cycle, awaited configures are of this cycle,
\* and so is what a shown surface has acknowledged.
OfThisCycle(s) ==
  /\ s.size # <<>> => s.sent > s.cycle
  /\ s.phase = "awaiting" => s.first > s.cycle
  /\ s.phase \in {"ready", "mapped"} => s.acked > s.cycle
  /\ s.phase = "mapped" => s.buffer

Cycled(s) == SurfaceLike(s) /\ InOrder(s) /\ OfThisCycle(s)

\* The strengthening of AckedInCycle: every configure is above the cycles past.
CycleInv == surface = [l \in Layers |-> surface[l]] /\ \A l \in Layers : Cycled(surface[l])

\* The fields a change leaves alone.
LEMMA SentFields ==
  ASSUME NEW s, SurfaceLike(s), NEW size, s.size # size
  PROVE  LET c == Sent(s, size) IN
         /\ SurfaceLike(c) /\ c.size = size
         /\ c.sent = s.sent + 1 /\ c.open = s.open \cup {s.sent + 1}
         /\ c.phase = s.phase /\ c.first = s.first /\ c.buffer = s.buffer
         /\ c.cycle = s.cycle /\ c.acked = s.acked /\ c.requested = s.requested
<1> DEFINE b == [s EXCEPT !.size = size]
          d == [b EXCEPT !.sent = b.sent + 1]
          c == [d EXCEPT !.open = d.open \cup {s.sent + 1}]
<1>1. SurfaceLike(b) /\ b.size = size /\ b.sent = s.sent /\ b.open = s.open /\ b.phase = s.phase /\ b.first = s.first /\ b.buffer = s.buffer /\ b.cycle = s.cycle /\ b.acked = s.acked /\ b.requested = s.requested
  BY DEF SurfaceLike, Fields
<1>2. SurfaceLike(d) /\ d.sent = b.sent + 1 /\ d.size = b.size /\ d.open = b.open /\ d.phase = b.phase /\ d.first = b.first /\ d.buffer = b.buffer /\ d.cycle = b.cycle /\ d.acked = b.acked /\ d.requested = b.requested
  <2> HIDE DEF b
  <2> QED BY <1>1 DEF SurfaceLike, Fields
<1>3. SurfaceLike(c) /\ c.sent = d.sent /\ c.size = d.size /\ c.open = d.open \cup {s.sent + 1} /\ c.phase = d.phase /\ c.first = d.first /\ c.buffer = d.buffer /\ c.cycle = d.cycle /\ c.acked = d.acked /\ c.requested = d.requested
  <2> HIDE DEF d
  <2> QED BY <1>2 DEF SurfaceLike, Fields
<1>4. Sent(s, size) = c
  BY DEF Sent
<1> HIDE DEF b, d, c
<1> QED BY <1>1, <1>2, <1>3, <1>4

LEMMA SentCounts ==
  ASSUME NEW s, Cycled(s), NEW size
  PROVE  LET c == Sent(s, size) IN
         /\ Cycled(c) /\ c.size = size
         /\ c.phase = s.phase /\ c.first = s.first /\ c.buffer = s.buffer
         /\ c.cycle = s.cycle /\ c.acked = s.acked
<1> DEFINE c == Sent(s, size)
<1>1. CASE s.size = size
  BY <1>1 DEF Sent
<1>2. CASE s.size # size
  <2>1. /\ SurfaceLike(c) /\ c.size = size
        /\ c.sent = s.sent + 1 /\ c.open = s.open \cup {s.sent + 1}
        /\ c.phase = s.phase /\ c.first = s.first /\ c.buffer = s.buffer
        /\ c.cycle = s.cycle /\ c.acked = s.acked
    BY <1>2, SentFields DEF Cycled
  <2> HIDE DEF c
  <2>2. InOrder(c)
    BY <2>1 DEF Cycled, InOrder
  <2>3. OfThisCycle(c)
    <3>1. c.sent > c.cycle
      BY <2>1 DEF Cycled, InOrder
    <3> QED BY <2>1, <3>1 DEF Cycled, OfThisCycle
  <2> QED BY <2>1, <2>2, <2>3 DEF Cycled, c
<1> QED BY <1>1, <1>2

LEMMA PhaseFields ==
  ASSUME NEW s, SurfaceLike(s), NEW p
  PROVE  LET h == [s EXCEPT !.phase = p] IN
         /\ SurfaceLike(h) /\ h.sent = s.sent /\ h.open = s.open /\ h.first = s.first
         /\ h.size = s.size /\ h.cycle = s.cycle /\ h.acked = s.acked /\ h.phase = p /\ h.buffer = s.buffer
         /\ h.requested = s.requested
BY DEF SurfaceLike, Fields

LEMMA BufferFields ==
  ASSUME NEW s, SurfaceLike(s), NEW m
  PROVE  LET h == [s EXCEPT !.buffer = m] IN
         /\ SurfaceLike(h) /\ h.sent = s.sent /\ h.open = s.open /\ h.first = s.first
         /\ h.size = s.size /\ h.cycle = s.cycle /\ h.acked = s.acked /\ h.phase = s.phase /\ h.buffer = m
         /\ h.requested = s.requested
BY DEF SurfaceLike, Fields

LEMMA HookedFields ==
  ASSUME NEW l, SurfaceLike(surface[l]), NEW r, NEW attach
  PROVE  LET s == surface[l]
             h == Hooked(l, r, attach) IN
         /\ SurfaceLike(h) /\ h.requested = r
         /\ h.sent = s.sent /\ h.open = s.open /\ h.first = s.first /\ h.size = s.size
         /\ h.cycle = s.cycle /\ h.acked = s.acked
         /\ h.phase = s.phase \/ (h.phase = "closed" /\ s.phase \in {"initial", "awaiting"})
<1> DEFINE s == surface[l]
           a == [s EXCEPT !.requested = r]
           h == Hooked(l, r, attach)
<1>1. /\ SurfaceLike(a) /\ a.sent = s.sent /\ a.open = s.open /\ a.first = s.first
      /\ a.size = s.size /\ a.cycle = s.cycle /\ a.acked = s.acked /\ a.phase = s.phase
      /\ a.requested = r
  BY DEF SurfaceLike, Fields
<1>2. h = IF attach = "buffer" /\ a.phase \in {"initial", "awaiting"} THEN [a EXCEPT !.phase = "closed"]
          ELSE [a EXCEPT !.buffer = attach = "buffer" \/ (a.buffer /\ attach # "empty")]
  BY DEF Hooked
<1>3. PICK m : m = (attach = "buffer" \/ (a.buffer /\ attach # "empty"))
  OBVIOUS
<1>4. \/ h = [a EXCEPT !.phase = "closed"] /\ a.phase \in {"initial", "awaiting"}
      \/ h = [a EXCEPT !.buffer = m]
  BY <1>2, <1>3, Zenon
<1>5. /\ SurfaceLike(h) /\ h.sent = a.sent /\ h.open = a.open /\ h.first = a.first /\ h.size = a.size
      /\ h.cycle = a.cycle /\ h.acked = a.acked /\ h.requested = a.requested
      /\ h.phase = a.phase \/ (h.phase = "closed" /\ a.phase \in {"initial", "awaiting"})
  <2>1. CASE h = [a EXCEPT !.phase = "closed"] /\ a.phase \in {"initial", "awaiting"}
    <3>1. LET b == [a EXCEPT !.phase = "closed"] IN
          /\ SurfaceLike(b) /\ b.sent = a.sent /\ b.open = a.open /\ b.first = a.first /\ b.size = a.size
          /\ b.cycle = a.cycle /\ b.acked = a.acked /\ b.phase = "closed" /\ b.requested = a.requested
      <4> HIDE DEF a
      <4> QED BY <1>1, PhaseFields
    <3> HIDE DEF a, h
    <3> QED BY <2>1, <3>1, Zenon
  <2>2. CASE h = [a EXCEPT !.buffer = m]
    <3>1. LET b == [a EXCEPT !.buffer = m] IN
          /\ SurfaceLike(b) /\ b.sent = a.sent /\ b.open = a.open /\ b.first = a.first /\ b.size = a.size
          /\ b.cycle = a.cycle /\ b.acked = a.acked /\ b.phase = a.phase /\ b.requested = a.requested
      <4> HIDE DEF a
      <4> QED BY <1>1, BufferFields
    <3> HIDE DEF a, h
    <3> QED BY <2>2, <3>1, Zenon
  <2> QED BY <1>4, <2>1, <2>2
<1> HIDE DEF a, h, s
<1>6. /\ SurfaceLike(h) /\ h.sent = s.sent /\ h.open = s.open /\ h.first = s.first /\ h.size = s.size
      /\ h.cycle = s.cycle /\ h.acked = s.acked /\ h.requested = r
      /\ h.phase = s.phase \/ (h.phase = "closed" /\ s.phase \in {"initial", "awaiting"})
  BY <1>1, <1>5
<1> QED BY <1>6 DEF h, s

LEMMA SizeProjected ==
  ASSUME NEW before, NEW r
  PROVE  Project(before, r).size # <<>>
<1> DEFINE f == [axis \in Axes |-> SizeOn(before, r, BoundedMargins(before, r), axis)]
<1>1. Project(before, r).size = f
  BY DEF Project
<1>2. "x" \in DOMAIN f
  BY DEF Axes
<1>3. DOMAIN << >> = 1..0
  OBVIOUS
<1>4. "x" \notin DOMAIN << >>
  OBVIOUS
<1> HIDE DEF f
<1> QED BY <1>1, <1>2, <1>4

LEMMA ConfiguredCounts ==
  ASSUME NEW s, Cycled(s), NEW z, NEW out
  PROVE  LET c == Configured(s, z, out) IN
         /\ Cycled(c) /\ c.size # <<>> /\ c.phase = s.phase
<1> DEFINE size == Project([NewLayout(out, Origin) EXCEPT !.remaining = z.size], s.requested).size
<1>1. size # <<>>
  BY SizeProjected
<1>2. Configured(s, z, out) = Sent(s, size)
  BY DEF Configured
<1> HIDE DEF size
<1> QED BY <1>1, <1>2, SentCounts

\* A new layout only adds configures.
LEMMA RelaidCounts ==
  ASSUME NEW ss, \A l \in Layers : Cycled(ss[l]), NEW m, NEW out, Relaid(ss, m, out)
  PROVE  CycleInv'
<1> DEFINE arranged == Arranged(ss, m, out)
<1>1. \A l \in Layers : Cycled(arranged[l])
  <2> SUFFICES ASSUME NEW l \in Layers
               PROVE  Cycled(arranged[l])
    OBVIOUS
  <2> DEFINE size == LET i == CHOOSE i \in DOMAIN m : m[i] = l
                     IN  Project(Layouts(Asked(ss, m), out)[i - 1], ss[l].requested).size
  <2>1. arranged[l] = IF l \notin Range(m) THEN ss[l] ELSE Sent(ss[l], size)
    BY DEF Arranged
  <2> HIDE DEF size, arranged
  <2> QED BY <2>1, SentCounts
<1>2. surface' = [l \in Layers |-> IF arranged[l].phase \in {"awaiting", "ready"}
                                   THEN Configured(arranged[l], zone', out) ELSE arranged[l]]
  BY DEF Relaid, UnmappedConfigured
<1> HIDE DEF arranged
<1> QED BY <1>1, <1>2, ConfiguredCounts DEF CycleInv

LEMMA OnlyCounts ==
  ASSUME CycleInv, NEW l \in Layers, NEW s, Cycled(s), Only(l, s)
  PROVE  CycleInv'
BY DEF CycleInv, Only

LEMMA CycleInitial == LayersInit => CycleInv
<1>1. Cycled(Absent)
  BY DEF Cycled, SurfaceLike, Fields, InOrder, OfThisCycle, Absent
<1> QED BY <1>1 DEF LayersInit, CycleInv


LEMMA HookedCounts ==
  ASSUME NEW l, Cycled(surface[l]), NEW r, NEW attach
  PROVE  LET h == Hooked(l, r, attach) IN
         /\ SurfaceLike(h) /\ InOrder(h)
         /\ (h.phase = "mapped" => h.buffer) => OfThisCycle(h)
<1> DEFINE h == Hooked(l, r, attach)
           s == surface[l]
<1>1. /\ SurfaceLike(h)
      /\ h.sent = s.sent /\ h.open = s.open /\ h.first = s.first /\ h.size = s.size
      /\ h.cycle = s.cycle /\ h.acked = s.acked
      /\ h.phase = s.phase \/ h.phase = "closed"
  BY HookedFields DEF Cycled
<1>2. Cycled(s)
  OBVIOUS
<1> HIDE DEF h, s
<1>3. InOrder(h)
  BY <1>1, <1>2 DEF Cycled, InOrder
<1>4. (h.phase = "mapped" => h.buffer) => OfThisCycle(h)
  BY <1>1, <1>2 DEF Cycled, OfThisCycle
<1> QED BY <1>1, <1>3, <1>4 DEF h

LEMMA AwaitedCounts ==
  ASSUME NEW c, Cycled(c), c.size # <<>>
  PROVE  Cycled([c EXCEPT !.phase = "awaiting", !.first = c.sent])
<1> DEFINE a == [c EXCEPT !.phase = "awaiting", !.first = c.sent]
<1>1. /\ SurfaceLike(a) /\ a.phase = "awaiting" /\ a.first = c.sent
      /\ a.sent = c.sent /\ a.open = c.open /\ a.size = c.size /\ a.cycle = c.cycle /\ a.acked = c.acked
  BY DEF Cycled, SurfaceLike, Fields
<1> HIDE DEF a
<1>2. InOrder(a)
  BY <1>1 DEF Cycled, InOrder
<1>3. OfThisCycle(a)
  BY <1>1 DEF Cycled, InOrder, OfThisCycle
<1> QED BY <1>1, <1>2, <1>3 DEF Cycled, a

LEMMA RestartedCounts ==
  ASSUME NEW s, SurfaceLike(s), InOrder(s)
  PROVE  Cycled(Restarted(s))
<1> DEFINE a == Restarted(s)
<1>1. /\ SurfaceLike(a) /\ a.phase = "initial" /\ a.first = 0 /\ a.cycle = s.sent
      /\ a.sent = s.sent /\ a.open = s.open /\ a.size = <<>> /\ a.acked = s.acked
  BY DEF Restarted, SurfaceLike, Fields
<1> HIDE DEF a
<1>2. InOrder(a)
  BY <1>1 DEF InOrder
<1>3. OfThisCycle(a)
  BY <1>1 DEF OfThisCycle
<1> QED BY <1>1, <1>2, <1>3 DEF Cycled, a

LEMMA AcknowledgedCounts ==
  ASSUME NEW s, Cycled(s), NEW n \in s.open
  PROVE  Cycled(Acknowledged(s, n))
<1> DEFINE a == Acknowledged(s, n)
           p == IF s.phase = "awaiting" /\ n >= s.first THEN "ready"
                ELSE IF s.phase \in {"ready", "mapped"} THEN s.phase ELSE "closed"
           b == [s EXCEPT !.open = {k \in s.open : k > n}]
           c == [b EXCEPT !.acked = n]
<1>1. /\ SurfaceLike(b) /\ b.open = {k \in s.open : k > n} /\ b.first = s.first /\ b.buffer = s.buffer
      /\ b.sent = s.sent /\ b.size = s.size /\ b.cycle = s.cycle /\ b.phase = s.phase
  BY DEF Cycled, SurfaceLike, Fields
<1>2. /\ SurfaceLike(c) /\ c.open = b.open /\ c.first = b.first /\ c.buffer = b.buffer
      /\ c.sent = b.sent /\ c.size = b.size /\ c.cycle = b.cycle /\ c.acked = n
  <2> HIDE DEF b
  <2> QED BY <1>1 DEF SurfaceLike, Fields
<1>3. a = [c EXCEPT !.phase = p]
  BY DEF Acknowledged
<1>4. /\ SurfaceLike(a) /\ a.open = {k \in s.open : k > n} /\ a.first = s.first /\ a.buffer = s.buffer
      /\ a.sent = s.sent /\ a.size = s.size /\ a.cycle = s.cycle /\ a.acked = n /\ a.phase = p
  <2>1. LET d == [c EXCEPT !.phase = p] IN
        /\ SurfaceLike(d) /\ d.sent = c.sent /\ d.open = c.open /\ d.first = c.first
        /\ d.size = c.size /\ d.cycle = c.cycle /\ d.acked = c.acked /\ d.phase = p /\ d.buffer = c.buffer
    <3> HIDE DEF c, p
    <3> QED BY <1>2, PhaseFields
  <2> HIDE DEF a, b, c, p
  <2> QED BY <2>1, <1>1, <1>2, <1>3
<1>5. /\ n \in Nat /\ s.acked < n /\ n <= s.sent
  BY DEF Cycled, InOrder
<1>6. InOrder(a)
  <2> HIDE DEF a, p
  <2> QED BY <1>4, <1>5 DEF Cycled, InOrder
<1>7. OfThisCycle(a)
  <2>1. a.phase # "awaiting" /\ (a.size # <<>> => a.sent > a.cycle)
    <3> HIDE DEF a
    <3> QED BY <1>4 DEF Cycled, OfThisCycle
  <2>2. a.phase \in {"ready", "mapped"} => a.acked > a.cycle
    <3>1. s.phase = "awaiting" => s.first > s.cycle
      BY DEF Cycled, OfThisCycle
    <3>2. s.phase \in {"ready", "mapped"} => s.acked > s.cycle
      BY DEF Cycled, OfThisCycle
    <3>3. {s.first, s.cycle, s.acked} \subseteq Nat
      BY DEF Cycled, InOrder
    <3> HIDE DEF a
    <3> QED BY <1>4, <1>5, <3>1, <3>2, <3>3
  <2>3. a.phase = "mapped" => a.buffer
    <3>1. a.phase = "mapped" => s.phase = "mapped"
      <4> HIDE DEF a
      <4> QED BY <1>4
    <3> HIDE DEF a
    <3> QED BY <1>4, <3>1 DEF Cycled, OfThisCycle
  <2> HIDE DEF a
  <2> QED BY <2>1, <2>2, <2>3 DEF OfThisCycle
<1> HIDE DEF a
<1> QED BY <1>4, <1>6, <1>7 DEF Cycled, a

\* The layers but for one are as they were.
LEMMA OneLayerCounts ==
  ASSUME CycleInv, NEW l \in Layers, NEW s, Cycled(s)
  PROVE  \A k \in Layers : Cycled([surface EXCEPT ![l] = s][k])
BY DEF CycleInv

LEMMA CommitCounts ==
  ASSUME CycleInv, NEW l \in Layers, NEW r, NEW attach, Commit(l, r, attach)
  PROVE  CycleInv'
<1> DEFINE s == Hooked(l, r, attach)
<1>1. SurfaceLike(s) /\ InOrder(s) /\ ((s.phase = "mapped" => s.buffer) => OfThisCycle(s))
  BY HookedCounts DEF CycleInv
<1>2. s.phase # "mapped" \/ s.buffer => Cycled(s)
  <2> HIDE DEF s
  <2> QED BY <1>1 DEF Cycled
<1>3. \/ s.phase = "closed" /\ Only(l, s)
      \/ /\ s.phase = "initial"
         /\ LET c == Configured(s, zone, output)
            IN  Only(l, [c EXCEPT !.phase = "awaiting", !.first = c.sent])
      \/ s.phase \in {"awaiting", "ready"} /\ Only(l, Configured(s, zone, output))
      \/ /\ s.phase = "ready" /\ s.buffer
         /\ Relaid([surface EXCEPT ![l] = [s EXCEPT !.phase = "mapped"]], Append(map, l), output)
      \/ s.phase = "mapped" /\ s.buffer /\ Relaid([surface EXCEPT ![l] = s], map, output)
      \/ /\ s.phase = "mapped"
         /\ Relaid([surface EXCEPT ![l] = Restarted(s)], Retained(map, Layers \ {l}), output)
  <2> HIDE DEF s
  <2> QED BY Zenon DEF Commit, s
<1> HIDE DEF s
<1>4. CASE s.phase = "closed" /\ Only(l, s)
  BY <1>2, <1>4, OnlyCounts
<1>5. CASE /\ s.phase = "initial"
           /\ LET c == Configured(s, zone, output)
              IN  Only(l, [c EXCEPT !.phase = "awaiting", !.first = c.sent])
  <2> DEFINE c == Configured(s, zone, output)
             a == [c EXCEPT !.phase = "awaiting", !.first = c.sent]
  <2>1. Cycled(c) /\ c.size # <<>>
    BY <1>2, <1>5, ConfiguredCounts
  <2>2. Cycled(a)
    <3> HIDE DEF c
    <3> QED BY <2>1, AwaitedCounts
  <2>3. Only(l, a)
    BY <1>5
  <2> HIDE DEF a
  <2> QED BY <2>2, <2>3, OnlyCounts
<1>6. CASE s.phase \in {"awaiting", "ready"} /\ Only(l, Configured(s, zone, output))
  BY <1>2, <1>6, ConfiguredCounts, OnlyCounts
<1>7. CASE /\ s.phase = "ready" /\ s.buffer
           /\ Relaid([surface EXCEPT ![l] = [s EXCEPT !.phase = "mapped"]], Append(map, l), output)
  <2> DEFINE a == [s EXCEPT !.phase = "mapped"]
  <2>1. /\ SurfaceLike(a) /\ a.sent = s.sent /\ a.open = s.open /\ a.first = s.first
        /\ a.size = s.size /\ a.cycle = s.cycle /\ a.acked = s.acked /\ a.phase = "mapped" /\ a.buffer = s.buffer
    BY <1>1, PhaseFields
  <2>2. Cycled(a)
    <3> HIDE DEF a
    <3>1. InOrder(a)
      BY <1>1, <2>1 DEF InOrder
    <3>2. OfThisCycle(a)
      <4>1. a.buffer
        BY <1>7, <2>1
      <4>2. s.acked > s.cycle /\ (s.size # <<>> => s.sent > s.cycle)
        BY <1>1, <1>7 DEF OfThisCycle
      <4> QED BY <2>1, <4>1, <4>2 DEF OfThisCycle
    <3> QED BY <2>1, <3>1, <3>2 DEF Cycled
  <2>3. Relaid([surface EXCEPT ![l] = a], Append(map, l), output)
    BY <1>7
  <2> HIDE DEF a
  <2> QED BY <2>2, <2>3, OneLayerCounts, RelaidCounts
<1>8. CASE s.phase = "mapped" /\ s.buffer /\ Relaid([surface EXCEPT ![l] = s], map, output)
  BY <1>2, <1>8, OneLayerCounts, RelaidCounts
<1>9. CASE /\ s.phase = "mapped"
           /\ Relaid([surface EXCEPT ![l] = Restarted(s)], Retained(map, Layers \ {l}), output)
  BY <1>1, <1>9, RestartedCounts, OneLayerCounts, RelaidCounts
<1> QED BY <1>3, <1>4, <1>5, <1>6, <1>7, <1>8, <1>9

LEMMA CycleStep == CycleInv /\ [LayersNext]_layerVars => CycleInv'
<1> SUFFICES ASSUME CycleInv, [LayersNext]_layerVars PROVE CycleInv'
  OBVIOUS
<1>1. Cycled(Absent)
  BY DEF Cycled, SurfaceLike, Fields, InOrder, OfThisCycle, Absent
<1>2. ASSUME NEW l \in Layers, Register(l) PROVE CycleInv'
  <2> DEFINE a == [Absent EXCEPT !.phase = "initial"]
  <2>1. Cycled(a)
    BY DEF Cycled, SurfaceLike, Fields, InOrder, OfThisCycle, Absent
  <2>2. Only(l, a)
    BY <1>2 DEF Register
  <2> HIDE DEF a
  <2> QED BY <2>1, <2>2, OnlyCounts
<1>3. ASSUME NEW l \in Layers, LayerDestroyed(l) PROVE CycleInv'
  BY <1>1, <1>3, OneLayerCounts, RelaidCounts DEF LayerDestroyed
<1>4. ASSUME NEW l \in Layers, NEW n, AckConfigure(l, n) PROVE CycleInv'
  <2>1. n \in surface[l].open /\ Cycled(surface[l]) /\ Only(l, Acknowledged(surface[l], n))
    BY <1>4 DEF AckConfigure, CycleInv
  <2> QED BY <2>1, AcknowledgedCounts, OnlyCounts
<1>5. ASSUME NEW size, OutputChanged(size) PROVE CycleInv'
  BY <1>5, RelaidCounts DEF OutputChanged, CycleInv
<1>6. CASE UNCHANGED layerVars
  BY <1>6 DEF layerVars, CycleInv
<1> QED BY <1>2, <1>3, <1>4, <1>5, <1>6, CommitCounts DEF LayersNext

LEMMA CyclesAcked == CycleInv => AckedInCycle
BY DEF CycleInv, Cycled, OfThisCycle, AckedInCycle

\* A layer surface is shown, or may be, only for a configure of its present
\* mapping (layer_surfaces.rs), for any surfaces, requests and outputs.
THEOREM LayersAreAcked == LayersSpec => []AckedInCycle
BY CycleInitial, CycleStep, CyclesAcked, PTL DEF LayersSpec

------------------------------------------------------------------------------
(* The layout of layer surfaces: what is reserved is there, and the layer  *)
(* map reserves for a projected request what the projection left out.       *)

\* An edge along which space is reserved is anchored, and there is no other.
LEMMA OneReserves ==
  ASSUME NEW r, r.anchor \in SUBSET Edges, NEW e \in Edges, Reserves(r, e)
  PROVE  /\ e \in r.anchor
         /\ \A f \in Edges : Reserves(r, f) => f = e
         /\ \A axis \in Axes : e = Far(axis) => Near(axis) \notin r.anchor
<1>1. \/ e = "left" /\ (r.anchor = {"left"} \/ r.anchor = {"left", "top", "bottom"})
      \/ e = "right" /\ (r.anchor = {"right"} \/ r.anchor = {"right", "top", "bottom"})
      \/ e = "top" /\ (r.anchor = {"top"} \/ r.anchor = {"top", "left", "right"})
      \/ e = "bottom" /\ (r.anchor = {"bottom"} \/ r.anchor = {"bottom", "left", "right"})
  BY DEF Reserves, Edges, AxisOf
<1>2. \A f \in Edges : Reserves(r, f) => \/ r.anchor = {f}
                                         \/ f \in {"left", "right"} /\ r.anchor = {f, "top", "bottom"}
                                         \/ f \in {"top", "bottom"} /\ r.anchor = {f, "left", "right"}
  BY DEF Reserves, Edges, AxisOf
<1>3. e \in r.anchor
  BY <1>1
<1>4. ASSUME NEW f \in Edges, Reserves(r, f) PROVE f = e
  <2>1. \/ r.anchor = {f}
        \/ f \in {"left", "right"} /\ r.anchor = {f, "top", "bottom"}
        \/ f \in {"top", "bottom"} /\ r.anchor = {f, "left", "right"}
    BY <1>2, <1>4
  <2> QED BY <1>1, <2>1
<1>5. ASSUME NEW axis \in Axes, e = Far(axis) PROVE Near(axis) \notin r.anchor
  BY <1>1, <1>5 DEF Axes, Near, Far
<1> QED BY <1>3, <1>4, <1>5

\* The axes and their edges.
LEMMA EdgeFacts ==
  /\ \A axis \in Axes : /\ Near(axis) \in Edges /\ Far(axis) \in Edges /\ Near(axis) # Far(axis)
                        /\ AxisOf(Near(axis)) = axis /\ AxisOf(Far(axis)) = axis
  /\ \A e \in Edges : AxisOf(e) \in Axes /\ (e = Near(AxisOf(e)) \/ e = Far(AxisOf(e)))
BY DEF Axes, Edges, Near, Far, AxisOf

\* The layouts of an output: what was reserved and what is left is inside.
Room(out) ==
    {room \in [output : {out}, loc : [Axes -> Nat], remaining : [Axes -> Nat], budget : [Axes -> Nat]] :
        \A axis \in Axes : room.loc[axis] + room.remaining[axis] <= out[axis]}

LEMMA RoomFacts ==
  ASSUME NEW out, NEW room \in Room(out), NEW axis \in Axes
  PROVE  /\ room.output = out /\ room.loc[axis] \in Nat /\ room.remaining[axis] \in Nat
         /\ room.budget[axis] \in Nat /\ room.loc[axis] + room.remaining[axis] <= out[axis]
BY DEF Room

LEMMA RequestFacts ==
  ASSUME MaxInt \in Nat, NEW r \in Request
  PROVE  /\ r.anchor \in SUBSET Edges /\ r.zone \in Int
         /\ \A e \in Edges : r.margin[e] \in Int
         /\ r.zone # DontCare => r.zone >= 0 \/ r.zone = Neutral
BY DEF Request, Coordinates, Neutral, DontCare

\* The margin along which space is reserved is no more than what is left.
LEMMA MarginBounded ==
  ASSUME MaxInt \in Nat, NEW out, NEW room \in Room(out), NEW r \in Request, r.zone >= 0,
         NEW e \in Edges, Reserves(r, e)
  PROVE  LET margin == BoundedMargins(room, r)
         IN  margin[e] \in Int /\ margin[e] <= room.remaining[AxisOf(e)]
<1> DEFINE axis == AxisOf(e)
           rem == room.remaining[axis]
           budget == room.budget[axis]
           margin == BoundedMargins(room, r)
<1>1. axis \in Axes /\ (e = Near(axis) \/ e = Far(axis)) /\ Near(axis) # Far(axis)
  BY EdgeFacts
<1>2. rem \in Nat /\ budget \in Nat
  BY <1>1, RoomFacts
<1>3. r.margin[e] \in Int /\ r.zone # DontCare
  BY RequestFacts DEF DontCare
<1>4. e \in r.anchor /\ (e = Far(axis) => Near(axis) \notin r.anchor)
  BY <1>1, OneReserves, RequestFacts
<1>5. CASE e = Near(axis)
  <2>1. margin[e] = Limit(r.margin[e], -budget, rem)
    BY <1>3, <1>4, <1>5 DEF BoundedMargins, BoundMargin
  <2> HIDE DEF margin
  <2>2. margin[e] \in Int /\ margin[e] <= rem
    BY <1>2, <1>3, <2>1 DEF Limit
  <2> QED BY <2>2 DEF margin
<1>6. CASE e = Far(axis)
  <2>1. margin[e] = Limit(r.margin[e], -(budget + AtMost(0, 0)), rem - 0)
    BY <1>1, <1>3, <1>4, <1>6 DEF BoundedMargins, BoundMargin
  <2> HIDE DEF margin
  <2>2. margin[e] \in Int /\ margin[e] <= rem
    BY <1>2, <1>3, <2>1 DEF Limit, AtMost
  <2> QED BY <2>2 DEF margin
<1> QED BY <1>1, <1>5, <1>6

\* What is taken along an edge is there.
LEMMA ReservationFits ==
  ASSUME MaxInt \in Nat, NEW out, NEW room \in Room(out), NEW r \in Request, NEW e \in Edges
  PROVE  LET taken == Reservation(room, r, BoundedMargins(room, r), e)
         IN  /\ taken \in 0..room.remaining[AxisOf(e)]
             /\ ~Reserves(r, e) => taken = 0
<1> DEFINE margin == BoundedMargins(room, r)
           taken == Reservation(room, r, margin, e)
<1>1. room.remaining[AxisOf(e)] \in Nat /\ r.zone \in Int
  BY EdgeFacts, RoomFacts, RequestFacts
<1>2. CASE r.zone >= 0 /\ Reserves(r, e)
  <2>1. taken = Limit(r.zone + margin[e], 0, room.remaining[AxisOf(e)]) /\ margin[e] \in Int
    BY <1>2, MarginBounded DEF Reservation
  <2> HIDE DEF taken, margin
  <2>2. taken \in 0..room.remaining[AxisOf(e)]
    BY <1>1, <1>2, <2>1 DEF Limit
  <2> QED BY <1>2, <2>2 DEF taken, margin
<1>3. CASE ~(r.zone >= 0 /\ Reserves(r, e))
  BY <1>1, <1>3 DEF Reservation
<1> QED BY <1>2, <1>3

\* What is taken of one axis, where only one edge can reserve, and what is left.
LEMMA LeftInRoom ==
  ASSUME MaxInt \in Nat, NEW out \in [Axes -> Nat], NEW room \in Room(out), NEW r \in Request
  PROVE  LET margin == BoundedMargins(room, r)
             left == Project(room, r).left
             taken(e) == Reservation(room, r, margin, e)
         IN  /\ left \in Room(out)
             /\ \A axis \in Axes :
                   /\ left.loc[axis] = room.loc[axis] + taken(Near(axis))
                   /\ left.remaining[axis] = room.remaining[axis] - taken(Near(axis)) - taken(Far(axis))
<1> DEFINE margin == BoundedMargins(room, r)
           left == Project(room, r).left
           taken(e) == Reservation(room, r, margin, e)
           loc == [axis \in Axes |-> room.loc[axis] + taken(Near(axis))]
           remaining == [axis \in Axes |-> room.remaining[axis] - taken(Near(axis)) - taken(Far(axis))]
<1>1. room \in [output : {out}, loc : [Axes -> Nat], remaining : [Axes -> Nat], budget : [Axes -> Nat]]
  BY DEF Room
<1>2. left = [room EXCEPT !.loc = loc, !.remaining = remaining]
  BY <1>1 DEF Project
<1>3. ASSUME NEW axis \in Axes
      PROVE  /\ room.loc[axis] + taken(Near(axis)) \in Nat
             /\ room.remaining[axis] - taken(Near(axis)) - taken(Far(axis)) \in Nat
             /\ room.loc[axis] + taken(Near(axis)) + (room.remaining[axis] - taken(Near(axis)) - taken(Far(axis))) <= out[axis]
  <2>1. /\ Near(axis) \in Edges /\ Far(axis) \in Edges /\ Near(axis) # Far(axis)
        /\ AxisOf(Near(axis)) = axis /\ AxisOf(Far(axis)) = axis
    BY EdgeFacts
  <2>2. ~Reserves(r, Near(axis)) \/ ~Reserves(r, Far(axis))
    BY <2>1, OneReserves, RequestFacts
  <2>3. /\ taken(Near(axis)) \in 0..room.remaining[axis] /\ taken(Far(axis)) \in 0..room.remaining[axis]
        /\ taken(Near(axis)) = 0 \/ taken(Far(axis)) = 0
    BY <2>1, <2>2, ReservationFits
  <2>4. room.loc[axis] \in Nat /\ room.remaining[axis] \in Nat /\ room.loc[axis] + room.remaining[axis] <= out[axis]
    BY RoomFacts
  <2>5. PICK a, b, c, d : a = taken(Near(axis)) /\ b = taken(Far(axis)) /\ c = room.loc[axis] /\ d = room.remaining[axis]
    OBVIOUS
  <2>6. out[axis] \in Nat
    OBVIOUS
  <2> HIDE DEF taken
  <2>7. a \in 0..d /\ b \in 0..d /\ (a = 0 \/ b = 0) /\ c \in Nat /\ d \in Nat
    BY <2>3, <2>4, <2>5
  <2>8. c + a \in Nat /\ d - a - b \in Nat /\ c + a + (d - a - b) \in Nat /\ c + a + (d - a - b) <= c + d
    BY <2>7
  <2> QED BY <2>4, <2>5, <2>6, <2>7, <2>8
<1>4. loc \in [Axes -> Nat] /\ remaining \in [Axes -> Nat]
  BY <1>3
<1>5. \A axis \in Axes : loc[axis] + remaining[axis] <= out[axis]
  BY <1>3
<1>6. /\ left.loc = loc /\ left.remaining = remaining
      /\ left \in [output : {out}, loc : [Axes -> Nat], remaining : [Axes -> Nat], budget : [Axes -> Nat]]
  <2> HIDE DEF loc, remaining, left
  <2> QED BY <1>1, <1>2, <1>4
<1>7. left \in Room(out)
  <2> HIDE DEF loc, remaining, left
  <2> QED BY <1>5, <1>6 DEF Room
<1>8. \A axis \in Axes : /\ left.loc[axis] = room.loc[axis] + taken(Near(axis))
                         /\ left.remaining[axis] = room.remaining[axis] - taken(Near(axis)) - taken(Far(axis))
  <2> HIDE DEF left
  <2> QED BY <1>6
<1> QED BY <1>7, <1>8

\* The layer map reserves for the projected request what the projection has.
LEMMA MapAgrees ==
  ASSUME MaxInt \in Nat, NEW out, NEW room \in Room(out), NEW r \in Request, NEW e \in Edges
  PROVE  MapReserves(Project(room, r).effective, e) = Reservation(room, r, BoundedMargins(room, r), e)
<1> DEFINE margin == BoundedMargins(room, r)
           taken(f) == Reservation(room, r, margin, f)
           reserving == {f \in Edges : Reserves(r, f)}
           amount == IF r.zone < 0 THEN r.zone ELSE IF reserving = {} THEN Neutral
                     ELSE LET f == CHOOSE f \in reserving : TRUE IN taken(f) - margin[f]
           eff == Project(room, r).effective
<1>1. eff.anchor = r.anchor /\ eff.margin = margin /\ eff.zone = amount
  <2>1. eff = [r EXCEPT !.margin = margin, !.zone = amount]
    BY DEF Project
  <2> HIDE DEF margin, amount, eff
  <2> QED BY <2>1 DEF Request
<1>2. r.zone \in Int /\ r.anchor \in SUBSET Edges
  BY RequestFacts
<1>3. Reserves(eff, e) <=> Reserves(r, e)
  <2> HIDE DEF eff
  <2> QED BY <1>1 DEF Reserves
<1>4. MapReserves(eff, e) = IF amount >= 0 /\ Reserves(r, e) THEN amount + margin[e] ELSE 0
  <2> HIDE DEF eff, amount, margin
  <2> QED BY <1>1, <1>3 DEF MapReserves
<1>5. CASE r.zone < 0
  <2>1. ~(amount >= 0) /\ ~(r.zone >= 0)
    BY <1>2, <1>5
  <2>2. Reservation(room, r, margin, e) = 0
    BY <2>1 DEF Reservation
  <2> HIDE DEF amount, margin, eff
  <2>3. MapReserves(eff, e) = Reservation(room, r, margin, e)
    BY <1>4, <2>1, <2>2
  <2> QED BY <2>3 DEF eff, margin
<1>6. CASE ~(r.zone < 0) /\ ~Reserves(r, e)
  <2>1. Reservation(room, r, margin, e) = 0
    BY <1>6 DEF Reservation
  <2> HIDE DEF amount, margin, eff
  <2>2. MapReserves(eff, e) = Reservation(room, r, margin, e)
    BY <1>4, <1>6, <2>1
  <2> QED BY <2>2 DEF eff, margin
<1>7. CASE ~(r.zone < 0) /\ Reserves(r, e)
  <2>1. reserving = {e}
    BY <1>2, <1>7, OneReserves
  <2>2. amount = taken(e) - margin[e]
    BY <1>7, <2>1
  <2>3. margin[e] \in Int /\ margin[e] <= room.remaining[AxisOf(e)] /\ r.zone >= 0
    BY <1>2, <1>7, MarginBounded
  <2>4. taken(e) = Limit(r.zone + margin[e], 0, room.remaining[AxisOf(e)]) /\ room.remaining[AxisOf(e)] \in Nat
    BY <1>7, <2>3, EdgeFacts, RoomFacts DEF Reservation
  <2> HIDE DEF amount, margin, eff, taken
  <2>5. taken(e) \in Int /\ taken(e) >= margin[e]
    BY <1>2, <2>3, <2>4 DEF Limit
  <2>6. amount >= 0 /\ amount + margin[e] = taken(e)
    BY <2>2, <2>3, <2>5
  <2>7. MapReserves(eff, e) = taken(e)
    BY <1>4, <1>7, <2>6
  <2> QED BY <2>7 DEF eff, taken, margin
<1> QED BY <1>5, <1>6, <1>7

\* A new layout leaves everything.
LEMMA NewInRoom ==
  ASSUME MaxInt \in Nat, NEW out \in [Axes -> Nat], NEW origin \in [Axes -> Int]
  PROVE  LET room == NewLayout(out, origin)
         IN  /\ room \in Room(out)
             /\ room.loc = [axis \in Axes |-> 0] /\ room.remaining = out
<1> DEFINE budget == [axis \in Axes |-> NegativeBudget(out[axis], origin[axis])]
           room == NewLayout(out, origin)
           none == [axis \in Axes |-> 0]
<1>1. budget \in [Axes -> Nat]
  <2> SUFFICES ASSUME NEW axis \in Axes PROVE NegativeBudget(out[axis], origin[axis]) \in Nat
    OBVIOUS
  <2>1. out[axis] \in Nat /\ origin[axis] \in Int
    OBVIOUS
  <2> QED BY <2>1 DEF NegativeBudget
<1>2. none \in [Axes -> Nat] /\ \A axis \in Axes : none[axis] = 0
  OBVIOUS
<1>3. room = [output |-> out, loc |-> none, remaining |-> out, budget |-> budget]
  BY DEF NewLayout
<1> HIDE DEF budget, none, room
<1>4. /\ room \in [output : {out}, loc : [Axes -> Nat], remaining : [Axes -> Nat], budget : [Axes -> Nat]]
      /\ room.loc = none /\ room.remaining = out
  BY <1>1, <1>2, <1>3
<1>5. \A axis \in Axes : room.loc[axis] + room.remaining[axis] <= out[axis]
  BY <1>2, <1>4
<1>6. room \in Room(out)
  BY <1>4, <1>5 DEF Room
<1> QED BY <1>4, <1>6 DEF room, none

\* What LayoutAssumption gives of the place of the output.
LEMMA Placed0 == MaxInt \in Nat /\ Origin \in [Axes -> Int]
<1>1. MaxInt \in Nat /\ Origin \in [Axes -> Coordinates]
  BY LayoutAssumption
<1>2. Coordinates \subseteq Int
  BY <1>1 DEF Coordinates
<1> QED BY <1>1, <1>2

\* The layouts one after the other: each is inside, and leaves the next.
LEMMA LayoutsSteps ==
  ASSUME NEW asked \in Seq(Request), NEW out \in [Axes -> Nat]
  PROVE  LET layouts == Layouts(asked, out)
         IN  /\ layouts \in [0..Len(asked) -> Room(out)]
             /\ layouts[0] = NewLayout(out, Origin)
             /\ \A i \in 1..Len(asked) : layouts[i] = Project(layouts[i - 1], asked[i]).left
<1> DEFINE n == Len(asked)
           A == Room(out)
           base == NewLayout(out, Origin)
           step == [x \in (1..n) \X A |-> Project(x[2], asked[x[1]]).left]
           Equation(f) == f = [i \in 0..n |-> IF i = 0 THEN base ELSE Project(f[i - 1], asked[i]).left]
           c == CHOOSE f : Equation(f)
<1>1. n \in Nat /\ base \in A /\ \A i \in 1..n : asked[i] \in Request
  <2>1. NewLayout(out, Origin) \in Room(out)
    BY NewInRoom, Placed0, Zenon
  <2> QED BY <2>1
<1>2. \A i \in 1..n, a \in A : Project(a, asked[i]).left \in A
  BY <1>1, LeftInRoom, Placed0
<1> HIDE DEF A, base
<1>3. step \in Steps(n, A)
  <2> SUFFICES ASSUME NEW i \in 1..n, NEW a \in A PROVE Project(a, asked[i]).left \in A
    BY DEF Steps
  <2> QED BY <1>2
<1>4. \A i \in 1..n, a \in A : step[<<i, a>>] = Project(a, asked[i]).left
  OBVIOUS
<1>5. PICK g : Computed(g, n, A, base, step)
  <2> HIDE DEF step, n
  <2> QED BY <1>1, <1>3, RecursionUpTo
<1>6. g \in [0..n -> A] /\ g[0] = base /\ \A i \in 1..n : g[i] = Project(g[i - 1], asked[i]).left
  <2>1. g \in [0..n -> A] /\ g[0] = base /\ \A i \in 1..n : g[i] = step[<<i, g[i - 1]>>]
    BY <1>5 DEF Computed
  <2> HIDE DEF step
  <2>2. \A i \in 1..n : g[i - 1] \in A
    <3> SUFFICES ASSUME NEW i \in 1..n PROVE g[i - 1] \in A
      OBVIOUS
    <3>1. i - 1 \in 0..n
      BY <1>1
    <3> HIDE DEF n
    <3> QED BY <2>1, <3>1
  <2> QED BY <1>4, <2>1, <2>2
<1>7. Equation(g)
  <2> DEFINE h == [i \in 0..n |-> IF i = 0 THEN base ELSE Project(g[i - 1], asked[i]).left]
  <2>1. \A i \in 0..n : g[i] = h[i]
    BY <1>6
  <2>2. g = [i \in 0..n |-> g[i]] /\ h = [i \in 0..n |-> h[i]]
    BY <1>6
  <2> QED BY <2>1, <2>2
<1>8. Equation(c)
  <2> HIDE DEF Equation
  <2> QED BY <1>7
<1>9. Layouts(asked, out) = c
  BY DEF Layouts, base
<1> HIDE DEF c
<1>10. \A i \in 0..n : c[i] = IF i = 0 THEN base ELSE Project(c[i - 1], asked[i]).left
  <2> DEFINE D == 0..n
  <2>1. c = [i \in D |-> IF i = 0 THEN base ELSE Project(c[i - 1], asked[i]).left]
    BY <1>8
  <2> HIDE DEF D
  <2>2. \A i \in D : c[i] = IF i = 0 THEN base ELSE Project(c[i - 1], asked[i]).left
    BY <2>1, Zenon
  <2> QED BY <2>2 DEF D
<1>11. DOMAIN c = 0..n /\ c = [i \in 0..n |-> c[i]]
  <2> DEFINE D == 0..n
             F(i) == IF i = 0 THEN base ELSE Project(c[i - 1], asked[i]).left
  <2>1. c = [i \in D |-> F(i)]
    BY <1>8
  <2> HIDE DEF D, F
  <2>2. DOMAIN c = D /\ c = [i \in D |-> c[i]]
    BY <2>1
  <2> QED BY <2>2 DEF D
<1> DEFINE Same == {i \in 0..n : c[i] = g[i]}
<1>12. 0 \in Same
  BY <1>1, <1>6, <1>10
<1>13. ASSUME NEW i \in 0..n, i # n, i \in Same PROVE i + 1 \in Same
  <2>1. i + 1 \in 1..n /\ i + 1 \in 0..n /\ (i + 1) - 1 = i /\ i + 1 # 0
    BY <1>1, <1>13
  <2>2. c[i + 1] = Project(c[i], asked[i + 1]).left
    BY <1>10, <2>1
  <2>3. g[i + 1] = Project(g[i], asked[i + 1]).left
    BY <1>6, <2>1
  <2> QED BY <1>13, <2>1, <2>2, <2>3
<1> HIDE DEF Same, n
<1>14. 0..n \subseteq Same
  BY <1>1, <1>12, <1>13, InductionUpTo
<1>15. \A i \in 0..n : c[i] = g[i]
  BY <1>14 DEF Same
<1>16. c = g
  <2>1. g = [i \in 0..n |-> g[i]]
    BY <1>6
  <2> QED BY <1>11, <1>15, <2>1
<1> QED BY <1>6, <1>9, <1>16 DEF n, A, base

\* What the layer map takes off an edge for each request, and the running
\* total of that.
MapTakes(asked, layouts, edge, i) == MapReserves(Project(layouts[i - 1], asked[i]).effective, edge)

MapCounts(asked, layouts, edge) ==
    \A i \in 1..Len(asked) : MapTakes(asked, layouts, edge, i) \in Int

MapTallied(asked, layouts, edge) ==
    \E t \in [0..Len(asked) -> Int] :
        /\ t[0] = 0
        /\ \A i \in 1..Len(asked) : t[i] = t[i - 1] + MapTakes(asked, layouts, edge, i)
        /\ MapTotal(asked, layouts, edge) = t[Len(asked)]

LEMMA TotalSteps ==
  ASSUME NEW asked \in Seq(Request), NEW layouts, NEW edge, MapCounts(asked, layouts, edge)
  PROVE  MapTallied(asked, layouts, edge)
<1> DEFINE n == Len(asked)
           M(i) == MapReserves(Project(layouts[i - 1], asked[i]).effective, edge)
           step == [x \in (1..n) \X Int |-> x[2] + M(x[1])]
           Equation(f) == f = [i \in 0..n |-> IF i = 0 THEN 0 ELSE f[i - 1] + M(i)]
           c == CHOOSE f : Equation(f)
<1>1. n \in Nat /\ \A i \in 1..n : M(i) \in Int
  BY DEF MapCounts, MapTakes
<1>2. MapTotal(asked, layouts, edge) = c[n]
  BY DEF MapTotal
<1> HIDE DEF M
<1>3. step \in Steps(n, Int)
  <2> SUFFICES ASSUME NEW i \in 1..n, NEW a \in Int PROVE a + M(i) \in Int
    BY DEF Steps
  <2> QED BY <1>1
<1>4. \A i \in 1..n, a \in Int : step[<<i, a>>] = a + M(i)
  OBVIOUS
<1>5. PICK g : Computed(g, n, Int, 0, step)
  <2> HIDE DEF step, n
  <2> DEFINE I == Int
  <2>1. 0 \in I /\ n \in Nat /\ step \in Steps(n, I)
    BY <1>1, <1>3
  <2> HIDE DEF I
  <2>2. \E g : Computed(g, n, I, 0, step)
    BY <2>1, RecursionUpTo
  <2> QED BY <2>2 DEF I
<1>6. g \in [0..n -> Int] /\ g[0] = 0 /\ \A i \in 1..n : g[i] = g[i - 1] + M(i)
  <2>1. g \in [0..n -> Int] /\ g[0] = 0 /\ \A i \in 1..n : g[i] = step[<<i, g[i - 1]>>]
    BY <1>5 DEF Computed
  <2> HIDE DEF step
  <2>2. \A i \in 1..n : g[i - 1] \in Int
    <3> SUFFICES ASSUME NEW i \in 1..n PROVE g[i - 1] \in Int
      OBVIOUS
    <3>1. i - 1 \in 0..n
      BY <1>1
    <3> HIDE DEF n
    <3> QED BY <2>1, <3>1
  <2> QED BY <1>4, <2>1, <2>2
<1>7. Equation(g)
  <2> DEFINE h == [i \in 0..n |-> IF i = 0 THEN 0 ELSE g[i - 1] + M(i)]
  <2>1. \A i \in 0..n : g[i] = h[i]
    BY <1>6
  <2>2. g = [i \in 0..n |-> g[i]] /\ h = [i \in 0..n |-> h[i]]
    BY <1>6
  <2> QED BY <2>1, <2>2
<1>8. Equation(c)
  <2> HIDE DEF Equation
  <2> QED BY <1>7
<1> HIDE DEF c
<1>9. \A i \in 0..n : c[i] = IF i = 0 THEN 0 ELSE c[i - 1] + M(i)
  <2> DEFINE D == 0..n
  <2>1. c = [i \in D |-> IF i = 0 THEN 0 ELSE c[i - 1] + M(i)]
    BY <1>8
  <2> HIDE DEF D
  <2>2. \A i \in D : c[i] = IF i = 0 THEN 0 ELSE c[i - 1] + M(i)
    BY <2>1, Zenon
  <2> QED BY <2>2 DEF D
<1> DEFINE Same == {i \in 0..n : c[i] = g[i]}
<1>10. 0 \in Same
  BY <1>1, <1>6, <1>9
<1>11. ASSUME NEW i \in 0..n, i # n, i \in Same PROVE i + 1 \in Same
  <2>1. i + 1 \in 1..n /\ i + 1 \in 0..n /\ (i + 1) - 1 = i /\ i + 1 # 0
    BY <1>1, <1>11
  <2>2. c[i + 1] = c[i] + M(i + 1)
    BY <1>9, <2>1
  <2>3. g[i + 1] = g[i] + M(i + 1)
    BY <1>6, <2>1
  <2> QED BY <1>11, <2>1, <2>2, <2>3
<1> HIDE DEF Same, n
<1>12. 0..n \subseteq Same
  BY <1>1, <1>10, <1>11, InductionUpTo
<1>13. c[n] = g[n]
  BY <1>1, <1>12 DEF Same
<1> QED BY <1>2, <1>6, <1>13 DEF M, n, MapTallied, MapTakes

\* The zone of the layer map is what the layouts leave.
LEMMA ZoneIsLeft ==
  ASSUME NEW asked \in Seq(Request), NEW out \in [Axes -> Nat]
  PROVE  LET room == Layouts(asked, out)[Len(asked)]
         IN  ZoneOf(asked, out) = [loc |-> room.loc, size |-> room.remaining]
<1> DEFINE n == Len(asked)
           L == Layouts(asked, out)
           M(i, edge) == MapReserves(Project(L[i - 1], asked[i]).effective, edge)
           Total(edge) == MapTotal(asked, L, edge)
<1>1. L \in [0..n -> Room(out)] /\ L[0] = NewLayout(out, Origin) /\ n \in Nat
      /\ \A i \in 1..n : L[i] = Project(L[i - 1], asked[i]).left
  BY LayoutsSteps
<1>2. \A i \in 1..n : asked[i] \in Request /\ i - 1 \in 0..n
  OBVIOUS
<1>3. L[0].loc = [axis \in Axes |-> 0] /\ L[0].remaining = out
  <2>1. LET room == NewLayout(out, Origin)
        IN  room \in Room(out) /\ room.loc = [axis \in Axes |-> 0] /\ room.remaining = out
    BY NewInRoom, Placed0, Zenon
  <2> QED BY <1>1, <2>1, Zenon
<1>4. ZoneOf(asked, out) = [loc |-> [axis \in Axes |-> Total(Near(axis))],
                            size |-> [axis \in Axes |-> out[axis] - Total(Near(axis)) - Total(Far(axis))]]
  BY DEF ZoneOf
<1> HIDE DEF L
<1>5. ASSUME NEW i \in 1..n
      PROVE  /\ \A edge \in Edges : M(i, edge) \in Int
             /\ \A axis \in Axes :
                   /\ L[i].loc[axis] = L[i - 1].loc[axis] + M(i, Near(axis))
                   /\ L[i].remaining[axis] = L[i - 1].remaining[axis] - M(i, Near(axis)) - M(i, Far(axis))
  <2>1. L[i - 1] \in Room(out) /\ asked[i] \in Request
    BY <1>1, <1>2
  <2> DEFINE R(edge) == Reservation(L[i - 1], asked[i], BoundedMargins(L[i - 1], asked[i]), edge)
  <2>2. \A edge \in Edges : M(i, edge) = R(edge)
    BY <2>1, MapAgrees, Placed0
  <2>3. \A edge \in Edges : R(edge) \in 0..L[i - 1].remaining[AxisOf(edge)]
    BY <2>1, ReservationFits, Placed0
  <2>4. \A axis \in Axes :
           /\ L[i].loc[axis] = L[i - 1].loc[axis] + R(Near(axis))
           /\ L[i].remaining[axis] = L[i - 1].remaining[axis] - R(Near(axis)) - R(Far(axis))
    <3> DEFINE left == Project(L[i - 1], asked[i]).left
    <3>1. \A axis \in Axes :
             /\ left.loc[axis] = L[i - 1].loc[axis] + R(Near(axis))
             /\ left.remaining[axis] = L[i - 1].remaining[axis] - R(Near(axis)) - R(Far(axis))
      BY <2>1, LeftInRoom, Placed0, Zenon
    <3>2. L[i] = left
      BY <1>1
    <3> HIDE DEF left, R
    <3> QED BY <3>1, <3>2, Zenon
  <2> HIDE DEF R, M
  <2>5. \A edge \in Edges : M(i, edge) \in Int
    BY <2>2, <2>3
  <2> QED BY <2>2, <2>4, <2>5, EdgeFacts
<1>6. ASSUME NEW axis \in Axes
      PROVE  /\ L[n].loc[axis] = Total(Near(axis))
             /\ L[n].remaining[axis] = out[axis] - Total(Near(axis)) - Total(Far(axis))
  <2>1. Near(axis) \in Edges /\ Far(axis) \in Edges
    BY EdgeFacts
  <2>0. ASSUME NEW edge \in Edges
        PROVE  \E t \in [0..n -> Int] :
                  t[0] = 0 /\ (\A i \in 1..n : t[i] = t[i - 1] + M(i, edge)) /\ Total(edge) = t[n]
    <3>1. MapCounts(asked, L, edge)
      BY <1>5 DEF MapCounts, MapTakes
    <3>2. MapTallied(asked, L, edge)
      BY <3>1, TotalSteps
    <3> QED BY <3>2, Zenon DEF MapTallied, MapTakes
  <2> HIDE DEF M, Total
  <2>2. PICK a \in [0..n -> Int] :
           a[0] = 0 /\ (\A i \in 1..n : a[i] = a[i - 1] + M(i, Near(axis))) /\ Total(Near(axis)) = a[n]
    BY <2>0, <2>1
  <2>3. PICK b \in [0..n -> Int] :
           b[0] = 0 /\ (\A i \in 1..n : b[i] = b[i - 1] + M(i, Far(axis))) /\ Total(Far(axis)) = b[n]
    BY <2>0, <2>1
  <2> DEFINE Same == {i \in 0..n : /\ L[i].loc[axis] = a[i]
                                   /\ L[i].remaining[axis] = out[axis] - a[i] - b[i]}
  <2>4. 0 \in Same
    BY <1>1, <1>3, <2>2, <2>3
  <2>5. ASSUME NEW i \in 0..n, i # n, i \in Same PROVE i + 1 \in Same
    <3>1. i + 1 \in 1..n /\ i + 1 \in 0..n /\ (i + 1) - 1 = i
      BY <1>1, <2>5
    <3>2. PICK x, y \in Int : x = M(i + 1, Near(axis)) /\ y = M(i + 1, Far(axis))
      BY <1>5, <2>1, <3>1
    <3>3. /\ L[i + 1].loc[axis] = L[i].loc[axis] + x
          /\ L[i + 1].remaining[axis] = L[i].remaining[axis] - x - y
      BY <1>5, <3>1, <3>2
    <3>4. a[i + 1] = a[i] + x /\ b[i + 1] = b[i] + y /\ a[i] \in Int /\ b[i] \in Int /\ out[axis] \in Int
      BY <2>2, <2>3, <3>1, <3>2
    <3>5. L[i].loc[axis] = a[i] /\ L[i].remaining[axis] = out[axis] - a[i] - b[i]
      BY <2>5
    <3>6. L[i + 1].remaining[axis] = out[axis] - a[i + 1] - b[i + 1]
      BY <3>3, <3>4, <3>5
    <3> QED BY <3>1, <3>3, <3>4, <3>5, <3>6
  <2> HIDE DEF Same, n
  <2>6. 0..n \subseteq Same
    BY <1>1, <2>4, <2>5, InductionUpTo
  <2>7. n \in Same
    BY <1>1, <2>6
  <2> QED BY <2>2, <2>3, <2>7 DEF Same
<1>7. L[n] \in Room(out)
  BY <1>1
<1>8. L[n].loc \in [Axes -> Nat] /\ L[n].remaining \in [Axes -> Nat]
  BY <1>7 DEF Room
<1>9. [axis \in Axes |-> Total(Near(axis))] = L[n].loc
  <2> HIDE DEF Total, n
  <2> QED BY <1>6, <1>8
<1>10. [axis \in Axes |-> out[axis] - Total(Near(axis)) - Total(Far(axis))] = L[n].remaining
  <2> HIDE DEF Total, n
  <2> QED BY <1>6, <1>8
<1> HIDE DEF Total
<1> QED BY <1>4, <1>9, <1>10 DEF L

------------------------------------------------------------------------------
(* Every layer surface knows the present layout.                           *)

\* The layout that a surface which is not mapped is configured by.
Present(z, out) == [NewLayout(out, Origin) EXCEPT !.remaining = z.size]

\* The size of a surface is the one this layout gives it.
SizedBy(s, before) == s.size = Project(before, s.requested).size

\* m has the mapped surfaces of ss, each once.
Shows(m, ss) ==
  /\ m \in Seq(Layers)
  /\ Range(m) = {l \in Layers : ss[l].phase = "mapped"} /\ IsInjective(m)

Asks(ss) == \A l \in Layers : ss[l].requested \in Request

\* LayoutCurrent with the types it rests on, and the zone as it was computed.
LayoutInv ==
  /\ Asks(surface) /\ Shows(map, surface)
  /\ output \in [Axes -> Nat] /\ zone = ZoneOf(Asked(surface, map), output) /\ told = zone
  /\ \A l \in Layers : surface[l].phase \in {"awaiting", "ready"}
                          => SizedBy(surface[l], Present(zone, output))
  /\ \A i \in DOMAIN map : SizedBy(surface[map[i]], Layouts(Asked(surface, map), output)[i - 1])

\* What a configure leaves of a surface.
LEMMA SentKeeps ==
  ASSUME NEW s, SurfaceLike(s), NEW size
  PROVE  LET c == Sent(s, size)
         IN  SurfaceLike(c) /\ c.size = size /\ c.phase = s.phase /\ c.requested = s.requested
<1>1. CASE s.size = size
  BY <1>1 DEF Sent
<1>2. CASE s.size # size
  BY <1>2, SentFields
<1> QED BY <1>1, <1>2

LEMMA ConfiguredKeeps ==
  ASSUME NEW s, SurfaceLike(s), NEW z, NEW out
  PROVE  LET c == Configured(s, z, out)
         IN  /\ SurfaceLike(c) /\ c.phase = s.phase /\ c.requested = s.requested
             /\ SizedBy(c, Present(z, out))
<1> DEFINE size == Project(Present(z, out), s.requested).size
           c == Configured(s, z, out)
<1>1. c = Sent(s, size)
  BY DEF Configured, Present
<1> HIDE DEF size, c
<1>2. SurfaceLike(c) /\ c.size = size /\ c.phase = s.phase /\ c.requested = s.requested
  BY <1>1, SentKeeps
<1>3. SizedBy(c, Present(z, out))
  BY <1>2 DEF SizedBy, size
<1> QED BY <1>2, <1>3 DEF c

\* Whatever was done to the surfaces, arranging the map for an output leaves
\* every one of them with its present size.
LEMMA RelaidCurrent ==
  ASSUME told = zone, NEW ss, \A l \in Layers : SurfaceLike(ss[l]), Asks(ss),
         NEW m, Shows(m, ss), NEW out \in [Axes -> Nat], Relaid(ss, m, out)
  PROVE  LayoutInv'
<1> DEFINE arranged == Arranged(ss, m, out)
           layouts == Layouts(Asked(ss, m), out)
<1>1. /\ map' = m /\ output' = out /\ zone' = ZoneOf(Asked(ss, m), out)
      /\ surface' = [l \in Layers |-> IF arranged[l].phase \in {"awaiting", "ready"}
                                      THEN Configured(arranged[l], zone', out) ELSE arranged[l]]
      /\ told' = IF zone' = zone THEN told ELSE zone'
  BY DEF Relaid, UnmappedConfigured
<1>2. told' = zone'
  BY <1>1
<1>3. ASSUME NEW l \in Layers
      PROVE  /\ SurfaceLike(arranged[l])
             /\ arranged[l].phase = ss[l].phase /\ arranged[l].requested = ss[l].requested
             /\ \A i \in DOMAIN m : m[i] = l => SizedBy(arranged[l], layouts[i - 1])
  <2> DEFINE at == CHOOSE i \in DOMAIN m : m[i] = l
             size == Project(layouts[at - 1], ss[l].requested).size
  <2>1. arranged[l] = IF l \notin Range(m) THEN ss[l] ELSE Sent(ss[l], size)
    BY DEF Arranged
  <2>2. \A i \in DOMAIN m : m[i] = l => l \in Range(m) /\ i = at
    <3> SUFFICES ASSUME NEW i \in DOMAIN m, m[i] = l PROVE l \in Range(m) /\ i = at
      OBVIOUS
    <3>1. at \in DOMAIN m /\ m[at] = l
      OBVIOUS
    <3>2. l \in Range(m)
      BY DEF Range
    <3> HIDE DEF at
    <3> QED BY <3>1, <3>2 DEF Shows, IsInjective
  <2> HIDE DEF arranged, layouts, at
  <2>3. CASE l \notin Range(m)
    <3> HIDE DEF size
    <3> QED BY <2>1, <2>2, <2>3
  <2>4. CASE l \in Range(m)
    <3>1. arranged[l] = Sent(ss[l], size)
      BY <2>1, <2>4
    <3> HIDE DEF size
    <3>2. /\ SurfaceLike(arranged[l]) /\ arranged[l].size = size
          /\ arranged[l].phase = ss[l].phase /\ arranged[l].requested = ss[l].requested
      BY <3>1, SentKeeps
    <3>3. SizedBy(arranged[l], layouts[at - 1])
      BY <3>2 DEF SizedBy, size
    <3> QED BY <2>2, <3>2, <3>3
  <2> QED BY <2>3, <2>4
<1> HIDE DEF arranged, layouts
<1>4. ASSUME NEW l \in Layers
      PROVE  /\ surface'[l].phase = ss[l].phase /\ surface'[l].requested = ss[l].requested
             /\ ss[l].phase \in {"awaiting", "ready"} => SizedBy(surface'[l], Present(zone', out))
             /\ ss[l].phase \notin {"awaiting", "ready"} => surface'[l] = arranged[l]
  <2>1. surface'[l] = IF ss[l].phase \in {"awaiting", "ready"}
                      THEN Configured(arranged[l], zone', out) ELSE arranged[l]
    BY <1>1, <1>3
  <2>2. CASE ss[l].phase \in {"awaiting", "ready"}
    BY <1>3, <2>1, <2>2, ConfiguredKeeps
  <2>3. CASE ss[l].phase \notin {"awaiting", "ready"}
    BY <1>3, <2>1, <2>3
  <2> QED BY <2>2, <2>3
<1>5. m \in Seq(Layers) /\ \A i \in DOMAIN m : m[i] \in Layers /\ ss[m[i]].phase = "mapped"
  BY DEF Shows, Range
<1>6. Asked(surface', m) = Asked(ss, m)
  <2>1. \A i \in DOMAIN m : surface'[m[i]].requested = ss[m[i]].requested
    BY <1>4, <1>5
  <2> QED BY <2>1 DEF Asked
<1>7. Asks(surface') /\ Shows(m, surface')
  BY <1>4 DEF Asks, Shows
<1>8. \A i \in DOMAIN m : SizedBy(surface'[m[i]], layouts[i - 1])
  BY <1>3, <1>4, <1>5
<1>9. \A l \in Layers : surface'[l].phase \in {"awaiting", "ready"}
                           => SizedBy(surface'[l], Present(zone', out))
  BY <1>4
<1> QED BY <1>1, <1>2, <1>6, <1>7, <1>8, <1>9 DEF LayoutInv, layouts

\* One surface changes, is mapped as before, and knows its size.
LEMMA OnlyCurrent ==
  ASSUME LayoutInv, surface = [l \in Layers |-> surface[l]], NEW l \in Layers, NEW s, Only(l, s),
         s.requested \in Request, s.phase = "mapped" <=> surface[l].phase = "mapped",
         s.phase = "mapped" => s.requested = surface[l].requested /\ s.size = surface[l].size,
         s.phase \in {"awaiting", "ready"} => SizedBy(s, Present(zone, output))
  PROVE  LayoutInv'
<1>1. /\ map' = map /\ zone' = zone /\ output' = output /\ told' = told
      /\ \A k \in Layers : surface'[k] = IF k = l THEN s ELSE surface[k]
  BY DEF Only
<1>2. \A i \in DOMAIN map : map[i] \in Layers /\ surface[map[i]].phase = "mapped"
  BY DEF LayoutInv, Shows, Range
<1>3. \A i \in DOMAIN map : /\ surface'[map[i]].requested = surface[map[i]].requested
                            /\ surface'[map[i]].size = surface[map[i]].size
  BY <1>1, <1>2
<1>4. Asked(surface', map) = Asked(surface, map)
  BY <1>3 DEF Asked
<1>5. Asks(surface') /\ Shows(map, surface')
  BY <1>1 DEF LayoutInv, Asks, Shows
<1>6. \A i \in DOMAIN map : SizedBy(surface'[map[i]], Layouts(Asked(surface, map), output)[i - 1])
  BY <1>3 DEF LayoutInv, SizedBy
<1>7. \A k \in Layers : surface'[k].phase \in {"awaiting", "ready"}
                           => SizedBy(surface'[k], Present(zone, output))
  BY <1>1 DEF LayoutInv
<1> QED BY <1>1, <1>4, <1>5, <1>6, <1>7 DEF LayoutInv

LEMMA AbsentFacts ==
  /\ SurfaceLike(Absent) /\ Absent.phase = "absent" /\ Absent.requested = Default
  /\ SurfaceLike([Absent EXCEPT !.phase = "initial"])
  /\ [Absent EXCEPT !.phase = "initial"].phase = "initial"
  /\ [Absent EXCEPT !.phase = "initial"].requested = Default
BY DEF Absent, SurfaceLike, Fields

LEMMA RequestsFacts == Default \in Request /\ Requests \subseteq Request
BY LayoutAssumption

LEMMA OutputFacts == OutputSizes \subseteq [Axes -> Nat]
<1>1. MaxInt \in Nat /\ OutputSizes \subseteq [Axes -> 1..MaxInt]
  BY LayoutAssumption
<1>2. 1..MaxInt \subseteq Nat
  BY <1>1
<1> QED BY <1>1, <1>2

LEMMA LayoutInitial == LayersInit => LayoutInv
<1> SUFFICES ASSUME LayersInit PROVE LayoutInv
  OBVIOUS
<1> DEFINE none == Asked(surface, map)
<1>1. /\ surface = [l \in Layers |-> Absent] /\ map = <<>> /\ output \in [Axes -> Nat]
      /\ zone = Whole(output) /\ told = zone
  BY OutputFacts DEF LayersInit
<1>2. Asks(surface) /\ \A l \in Layers : surface[l].phase = "absent"
  BY <1>1, AbsentFacts, RequestsFacts DEF Asks
<1>3. map \in Seq(Layers) /\ DOMAIN map = {} /\ Range(map) = {}
  BY <1>1 DEF Range
<1>4. Shows(map, surface)
  BY <1>2, <1>3 DEF Shows, IsInjective
<1>5. none \in Seq(Request) /\ Len(none) = 0
  <2>1. none = [i \in 1..0 |-> surface[map[i]].requested]
    BY <1>1 DEF Asked
  <2> HIDE DEF none
  <2>2. none \in [1..0 -> Request]
    BY <2>1
  <2> QED BY <2>2
<1>6. zone = ZoneOf(none, output)
  <2> HIDE DEF none
  <2> DEFINE room == Layouts(none, output)[0]
  <2>1. ZoneOf(none, output) = [loc |-> room.loc, size |-> room.remaining]
    BY <1>1, <1>5, ZoneIsLeft
  <2>2. room = NewLayout(output, Origin)
    BY <1>1, <1>5, LayoutsSteps
  <2>3. room.loc = [axis \in Axes |-> 0] /\ room.remaining = output
    BY <1>1, <2>2, NewInRoom, Placed0
  <2> QED BY <1>1, <2>1, <2>3 DEF Whole
<1> QED BY <1>1, <1>2, <1>3, <1>4, <1>6 DEF LayoutInv

\* A surface leaves the map.
LEMMA WithoutShows ==
  ASSUME LayoutInv, surface = [k \in Layers |-> surface[k]], NEW l \in Layers, NEW s, s.phase # "mapped"
  PROVE  Shows(Retained(map, Layers \ {l}), [surface EXCEPT ![l] = s])
<1> DEFINE m == Retained(map, Layers \ {l})
           ss == [surface EXCEPT ![l] = s]
<1>1. map \in Seq(Layers) /\ Range(map) = {k \in Layers : surface[k].phase = "mapped"} /\ IsInjective(map)
  BY DEF LayoutInv, Shows
<1>2. m \in Seq(Layers) /\ Range(m) = Range(map) \cap (Layers \ {l}) /\ IsInjective(m)
  BY <1>1, RetainedFacts
<1>3. \A k \in Layers : ss[k] = IF k = l THEN s ELSE surface[k]
  OBVIOUS
<1> HIDE DEF m, ss
<1> QED BY <1>1, <1>2, <1>3 DEF Shows, m, ss

\* A surface is mapped.
LEMMA WithShows ==
  ASSUME LayoutInv, surface = [k \in Layers |-> surface[k]], NEW l \in Layers,
         surface[l].phase # "mapped", NEW s, s.phase = "mapped"
  PROVE  Shows(Append(map, l), [surface EXCEPT ![l] = s])
<1> DEFINE m == Append(map, l)
           ss == [surface EXCEPT ![l] = s]
<1>1. map \in Seq(Layers) /\ Range(map) = {k \in Layers : surface[k].phase = "mapped"} /\ IsInjective(map)
  BY DEF LayoutInv, Shows
<1>2. m \in Seq(Layers) /\ Range(m) = Range(map) \cup {l} /\ IsInjective(m)
  <2>1. l \notin Range(map)
    BY <1>1
  <2>2. /\ m \in Seq(Layers) /\ Range(m) = Range(map) \cup {l}
        /\ IsInjective(map) /\ l \notin Range(map) => IsInjective(m)
    <3>1. map \in Seq(Layers) /\ l \in Layers
      BY <1>1
    <3> HIDE DEF ss
    <3> QED BY <3>1, AppendFacts
  <2> QED BY <1>1, <2>1, <2>2
<1>3. \A k \in Layers : ss[k] = IF k = l THEN s ELSE surface[k]
  OBVIOUS
<1> HIDE DEF m, ss
<1> QED BY <1>1, <1>2, <1>3 DEF Shows, m, ss

\* The surfaces but for one are as they were.
LEMMA OneLayerAsks ==
  ASSUME CycleInv, LayoutInv, NEW l \in Layers, NEW s, SurfaceLike(s), s.requested \in Request
  PROVE  LET ss == [surface EXCEPT ![l] = s]
         IN  (\A k \in Layers : SurfaceLike(ss[k])) /\ Asks(ss)
<1> DEFINE ss == [surface EXCEPT ![l] = s]
<1>1. \A k \in Layers : ss[k] = IF k = l THEN s ELSE surface[k]
  BY DEF CycleInv
<1> HIDE DEF ss
<1>2. \A k \in Layers : SurfaceLike(ss[k])
  BY <1>1 DEF CycleInv, Cycled
<1>3. Asks(ss)
  BY <1>1 DEF LayoutInv, Asks
<1> QED BY <1>2, <1>3 DEF ss

LEMMA CommitCurrent ==
  ASSUME CycleInv, LayoutInv, NEW l \in Layers, NEW r \in Requests \cup {surface[l].requested},
         NEW attach, Commit(l, r, attach)
  PROVE  LayoutInv'
<1> DEFINE s == Hooked(l, r, attach)
<1>1. /\ SurfaceLike(s) /\ s.requested = r /\ s.size = surface[l].size
      /\ s.phase = surface[l].phase \/ (s.phase = "closed" /\ surface[l].phase \in {"initial", "awaiting"})
  BY HookedFields DEF CycleInv, Cycled
<1>2. r \in Request /\ Default \in Request
  BY RequestsFacts DEF LayoutInv, Asks
<1>3. surface = [k \in Layers |-> surface[k]] /\ told = zone /\ output \in [Axes -> Nat]
  BY DEF CycleInv, LayoutInv
<1>4. \/ s.phase = "closed" /\ Only(l, s)
      \/ /\ s.phase = "initial"
         /\ LET c == Configured(s, zone, output)
            IN  Only(l, [c EXCEPT !.phase = "awaiting", !.first = c.sent])
      \/ s.phase \in {"awaiting", "ready"} /\ Only(l, Configured(s, zone, output))
      \/ /\ s.phase = "ready"
         /\ Relaid([surface EXCEPT ![l] = [s EXCEPT !.phase = "mapped"]], Append(map, l), output)
      \/ s.phase = "mapped" /\ Relaid([surface EXCEPT ![l] = s], map, output)
      \/ /\ s.phase = "mapped"
         /\ Relaid([surface EXCEPT ![l] = Restarted(s)], Retained(map, Layers \ {l}), output)
  <2> HIDE DEF s
  <2> QED BY Zenon DEF Commit, s
<1> HIDE DEF s
<1>5. CASE s.phase = "closed" /\ Only(l, s)
  <2>1. ~(s.phase = "mapped") /\ ~(s.phase \in {"awaiting", "ready"}) /\ ~(surface[l].phase = "mapped")
    BY <1>1, <1>5
  <2>2. s.requested \in Request
    BY <1>1, <1>2
  <2> QED BY <1>3, <1>5, <2>1, <2>2, OnlyCurrent
<1>6. CASE /\ s.phase = "initial"
           /\ LET c == Configured(s, zone, output)
              IN  Only(l, [c EXCEPT !.phase = "awaiting", !.first = c.sent])
  <2> DEFINE c == Configured(s, zone, output)
             a == [c EXCEPT !.phase = "awaiting", !.first = c.sent]
  <2>1. SurfaceLike(c) /\ c.requested = r /\ SizedBy(c, Present(zone, output))
    BY <1>1, ConfiguredKeeps
  <2>2. Only(l, a)
    BY <1>6
  <2> HIDE DEF c
  <2>3. a.phase = "awaiting" /\ a.requested = r /\ a.size = c.size
    BY <2>1 DEF SurfaceLike, Fields
  <2> HIDE DEF a
  <2>4. SizedBy(a, Present(zone, output))
    BY <2>1, <2>3 DEF SizedBy
  <2>5. ~(a.phase = "mapped") /\ ~(surface[l].phase = "mapped") /\ a.requested \in Request
    BY <1>1, <1>2, <1>6, <2>3
  <2> QED BY <1>3, <2>2, <2>4, <2>5, OnlyCurrent
<1>7. CASE s.phase \in {"awaiting", "ready"} /\ Only(l, Configured(s, zone, output))
  <2> DEFINE c == Configured(s, zone, output)
  <2>1. c.phase = s.phase /\ c.requested = r /\ SizedBy(c, Present(zone, output)) /\ Only(l, c)
    BY <1>1, <1>7, ConfiguredKeeps
  <2> HIDE DEF c
  <2>2. ~(c.phase = "mapped") /\ ~(surface[l].phase = "mapped") /\ c.requested \in Request
    BY <1>1, <1>2, <1>7, <2>1
  <2> QED BY <1>3, <2>1, <2>2, OnlyCurrent
<1>8. CASE /\ s.phase = "ready"
           /\ Relaid([surface EXCEPT ![l] = [s EXCEPT !.phase = "mapped"]], Append(map, l), output)
  <2> DEFINE a == [s EXCEPT !.phase = "mapped"]
  <2>1. SurfaceLike(a) /\ a.phase = "mapped" /\ a.requested \in Request
    BY <1>1, <1>2, PhaseFields
  <2>2. Relaid([surface EXCEPT ![l] = a], Append(map, l), output)
    BY <1>8
  <2> HIDE DEF a
  <2>3. surface[l].phase # "mapped"
    BY <1>1, <1>8
  <2> DEFINE ss == [surface EXCEPT ![l] = a]
  <2>4. (\A k \in Layers : SurfaceLike(ss[k])) /\ Asks(ss)
    BY <2>1, OneLayerAsks
  <2>5. Shows(Append(map, l), ss)
    BY <1>3, <2>1, <2>3, WithShows
  <2> HIDE DEF ss
  <2> QED BY <1>3, <2>2, <2>4, <2>5, RelaidCurrent DEF ss
<1>9. CASE s.phase = "mapped" /\ Relaid([surface EXCEPT ![l] = s], map, output)
  <2> DEFINE ss == [surface EXCEPT ![l] = s]
  <2>1. (\A k \in Layers : SurfaceLike(ss[k])) /\ Asks(ss)
    BY <1>1, <1>2, OneLayerAsks
  <2>2. \A k \in Layers : ss[k] = IF k = l THEN s ELSE surface[k]
    BY <1>3
  <2>3. surface[l].phase = "mapped"
    BY <1>1, <1>9
  <2> HIDE DEF ss
  <2>4. \A k \in Layers : ss[k].phase = "mapped" <=> surface[k].phase = "mapped"
    BY <1>9, <2>2, <2>3
  <2>5. Shows(map, ss)
    BY <2>4 DEF LayoutInv, Shows
  <2> QED BY <1>3, <1>9, <2>1, <2>5, RelaidCurrent DEF ss
<1>10. CASE /\ s.phase = "mapped"
            /\ Relaid([surface EXCEPT ![l] = Restarted(s)], Retained(map, Layers \ {l}), output)
  <2> DEFINE a == Restarted(s)
             ss == [surface EXCEPT ![l] = a]
  <2>1. SurfaceLike(a) /\ a.phase = "initial" /\ a.requested = Default
    BY <1>1 DEF Restarted, SurfaceLike, Fields
  <2> HIDE DEF a
  <2>2. (\A k \in Layers : SurfaceLike(ss[k])) /\ Asks(ss)
    BY <1>2, <2>1, OneLayerAsks
  <2>3. Shows(Retained(map, Layers \ {l}), ss)
    BY <1>3, <2>1, WithoutShows
  <2> HIDE DEF ss
  <2> QED BY <1>3, <1>10, <2>2, <2>3, RelaidCurrent DEF ss, a
<1> QED BY <1>4, <1>5, <1>6, <1>7, <1>8, <1>9, <1>10

\* An acknowledgement changes neither the size nor the request.
LEMMA AcknowledgedKeeps ==
  ASSUME NEW s, SurfaceLike(s), s.phase \notin {"absent", "closed"}, NEW n
  PROVE  LET a == Acknowledged(s, n)
         IN  /\ a.requested = s.requested /\ a.size = s.size
             /\ a.phase = "mapped" <=> s.phase = "mapped"
             /\ a.phase \in {"awaiting", "ready"} => s.phase \in {"awaiting", "ready"}
<1> DEFINE a == Acknowledged(s, n)
           p == IF s.phase = "awaiting" /\ n >= s.first THEN "ready"
                ELSE IF s.phase \in {"ready", "mapped"} THEN s.phase ELSE "closed"
           b == [s EXCEPT !.open = {k \in s.open : k > n}]
           c == [b EXCEPT !.acked = n]
<1>1. SurfaceLike(b) /\ b.size = s.size /\ b.requested = s.requested /\ b.phase = s.phase
  BY DEF SurfaceLike, Fields
<1>2. SurfaceLike(c) /\ c.size = s.size /\ c.requested = s.requested
  <2> HIDE DEF b
  <2> QED BY <1>1 DEF SurfaceLike, Fields
<1>3. a = [c EXCEPT !.phase = p]
  BY DEF Acknowledged
<1> HIDE DEF a, c
<1>4. a.size = s.size /\ a.requested = s.requested /\ a.phase = p
  <2> HIDE DEF p
  <2> QED BY <1>2, <1>3 DEF SurfaceLike, Fields
<1> QED BY <1>4 DEF a

LEMMA LayoutStep == CycleInv /\ LayoutInv /\ [LayersNext]_layerVars => LayoutInv'
<1> SUFFICES ASSUME CycleInv, LayoutInv, [LayersNext]_layerVars PROVE LayoutInv'
  OBVIOUS
<1>1. /\ surface = [k \in Layers |-> surface[k]] /\ told = zone /\ output \in [Axes -> Nat]
      /\ \A k \in Layers : SurfaceLike(surface[k])
      /\ Asks(surface) /\ Shows(map, surface)
  BY DEF CycleInv, Cycled, LayoutInv
<1>2. ASSUME NEW l \in Layers, Register(l) PROVE LayoutInv'
  <2> DEFINE a == [Absent EXCEPT !.phase = "initial"]
  <2>1. Only(l, a) /\ surface[l].phase = "absent"
    BY <1>2 DEF Register
  <2>2. a.phase = "initial" /\ a.requested \in Request
    BY AbsentFacts, RequestsFacts
  <2> HIDE DEF a
  <2>3. ~(a.phase = "mapped") /\ ~(surface[l].phase = "mapped") /\ ~(a.phase \in {"awaiting", "ready"})
    BY <2>1, <2>2
  <2> QED BY <1>1, <2>1, <2>2, <2>3, OnlyCurrent
<1>3. ASSUME NEW l \in Layers, LayerDestroyed(l) PROVE LayoutInv'
  <2> DEFINE ss == [surface EXCEPT ![l] = Absent]
  <2>1. Relaid(ss, Retained(map, Layers \ {l}), output)
    BY <1>3 DEF LayerDestroyed
  <2>2. SurfaceLike(Absent) /\ Absent.phase # "mapped" /\ Absent.requested \in Request
    BY AbsentFacts, RequestsFacts
  <2>3. (\A k \in Layers : SurfaceLike(ss[k])) /\ Asks(ss)
    BY <2>2, OneLayerAsks
  <2>4. Shows(Retained(map, Layers \ {l}), ss)
    BY <1>1, <2>2, WithoutShows
  <2> HIDE DEF ss
  <2> QED BY <1>1, <2>1, <2>3, <2>4, RelaidCurrent
<1>4. ASSUME NEW l \in Layers, NEW n, AckConfigure(l, n) PROVE LayoutInv'
  <2> DEFINE s == surface[l]
             a == Acknowledged(s, n)
  <2>1. Only(l, a) /\ s.phase \notin {"absent", "closed"} /\ SurfaceLike(s) /\ s.requested \in Request
    BY <1>1, <1>4 DEF AckConfigure, Asks
  <2>2. s.phase \in {"awaiting", "ready"} => SizedBy(s, Present(zone, output))
    BY DEF LayoutInv
  <2> HIDE DEF s
  <2>3. /\ a.requested = s.requested /\ a.size = s.size
        /\ a.phase = "mapped" <=> s.phase = "mapped"
        /\ a.phase \in {"awaiting", "ready"} => s.phase \in {"awaiting", "ready"}
    BY <2>1, AcknowledgedKeeps
  <2> HIDE DEF a
  <2>4. a.phase \in {"awaiting", "ready"} => SizedBy(a, Present(zone, output))
    BY <2>2, <2>3 DEF SizedBy
  <2>5. a.requested \in Request
    BY <2>1, <2>3
  <2> QED BY <1>1, <2>1, <2>3, <2>4, <2>5, OnlyCurrent DEF s
<1>5. ASSUME NEW size \in OutputSizes, OutputChanged(size) PROVE LayoutInv'
  BY <1>1, <1>5, OutputFacts, RelaidCurrent DEF OutputChanged
<1>6. CASE UNCHANGED layerVars
  BY <1>6 DEF layerVars, LayoutInv, Asks, Shows
<1> QED BY <1>2, <1>3, <1>4, <1>5, <1>6, CommitCurrent DEF LayersNext

LEMMA LayoutSound == CycleInv /\ LayoutInv => CycleAcked /\ LayoutCurrent /\ ZoneInside
<1> SUFFICES ASSUME CycleInv, LayoutInv PROVE CycleAcked /\ LayoutCurrent /\ ZoneInside
  OBVIOUS
<1>1. CycleAcked
  BY CyclesAcked DEF CycleAcked, MapShown, LayoutInv, Shows
<1>2. LayoutCurrent
  BY DEF LayoutInv, LayoutCurrent, SizedBy, Present
<1>3. ZoneInside
  <2> DEFINE asked == Asked(surface, map)
             room == Layouts(asked, output)[Len(map)]
  <2>1. map \in Seq(Layers) /\ Asks(surface) /\ output \in [Axes -> Nat] /\ zone = ZoneOf(asked, output)
    BY DEF LayoutInv, Shows
  <2>2. asked \in Seq(Request) /\ Len(asked) = Len(map)
    <3>1. asked = [i \in 1..Len(map) |-> surface[map[i]].requested]
      BY <2>1 DEF Asked
    <3>2. \A i \in 1..Len(map) : surface[map[i]].requested \in Request
      BY <2>1 DEF Asks
    <3> HIDE DEF asked
    <3> QED BY <2>1, <3>1, <3>2
  <2> HIDE DEF asked
  <2>3. zone = [loc |-> room.loc, size |-> room.remaining]
    BY <2>1, <2>2, ZoneIsLeft
  <2>4. room \in Room(output)
    <3>1. Len(map) \in 0..Len(asked) /\ Layouts(asked, output) \in [0..Len(asked) -> Room(output)]
      BY <2>1, <2>2, LayoutsSteps
    <3> QED BY <3>1
  <2>5. zone.loc = room.loc /\ zone.size = room.remaining
    BY <2>3
  <2> HIDE DEF room
  <2>6. \A axis \in Axes : /\ zone.loc[axis] >= 0 /\ zone.size[axis] >= 0
                           /\ zone.loc[axis] + zone.size[axis] <= output[axis]
    BY <2>4, <2>5, RoomFacts
  <2> QED BY <2>3, <2>6 DEF ZoneInside, room, asked
<1> QED BY <1>1, <1>2, <1>3

\* Every surface that was configured knows the size it would be given now, API
\* clients know the zone that is left, and the zone is inside the output
\* (layer_surfaces.rs), for any surfaces, requests and outputs.
THEOREM LayersAreCurrent == LayersSpec => [](CycleAcked /\ LayoutCurrent /\ ZoneInside)
<1>1. LayersInit => CycleInv /\ LayoutInv
  BY CycleInitial, LayoutInitial
<1>2. CycleInv /\ LayoutInv /\ [LayersNext]_layerVars => CycleInv' /\ LayoutInv'
  BY CycleStep, LayoutStep
<1> QED BY <1>1, <1>2, LayoutSound, PTL DEF LayersSpec

------------------------------------------------------------------------------
(* The run, which moves one module at a time and leaves the others alone.  *)

\* What the run checks of tiles holds for any windows and layouts.
THEOREM TilesAlwaysKept == SurfacesSpec => []TilesKept
<1>1. SurfacesInit => TilingInv
  BY TilingInitial DEF SurfacesInit
<1>2. TilingInv /\ [SurfacesNext]_surfacesVars => TilingInv'
  <2>1. [SurfacesNext]_surfacesVars => TilingNext \/ UNCHANGED tilingVars
    BY DEF SurfacesNext, surfacesVars
  <2> QED BY <2>1, TilingStep
<1>3. TilingInv => TilesKept
  BY TilesSound DEF TilesKept
<1> QED BY <1>1, <1>2, <1>3, PTL DEF SurfacesSpec

\* And it shows layer surfaces for none but configures of this mapping.
THEOREM LayersAlwaysAcked == SurfacesSpec => []AckedInCycle
<1>1. SurfacesInit => CycleInv
  BY CycleInitial DEF SurfacesInit
<1>2. CycleInv /\ [SurfacesNext]_surfacesVars => CycleInv'
  <2>1. [SurfacesNext]_surfacesVars => LayersNext \/ UNCHANGED layerVars
    BY DEF SurfacesNext, surfacesVars
  <2> QED BY <2>1, CycleStep
<1>3. CycleInv => AckedInCycle
  BY CyclesAcked
<1> QED BY <1>1, <1>2, <1>3, PTL DEF SurfacesSpec

\* And what the run checks of layer surfaces: they are shown for configures of
\* this mapping, in the order of the map, they know the present layout, and
\* nothing they reserve leaves the output (layer_surfaces.rs).
THEOREM LayersAlwaysSound == SurfacesSpec => []LayersSound
<1>1. SurfacesInit => CycleInv /\ LayoutInv
  BY CycleInitial, LayoutInitial DEF SurfacesInit
<1>2. CycleInv /\ LayoutInv /\ [SurfacesNext]_surfacesVars => CycleInv' /\ LayoutInv'
  <2>1. [SurfacesNext]_surfacesVars => LayersNext \/ UNCHANGED layerVars
    BY DEF SurfacesNext, surfacesVars
  <2> QED BY <2>1, CycleStep, LayoutStep
<1>3. CycleInv /\ LayoutInv => LayersSound
  BY LayoutSound DEF LayersSound
<1> QED BY <1>1, <1>2, <1>3, PTL DEF SurfacesSpec

------------------------------------------------------------------------------
(* The event queue by itself.                                              *)

-----------------------------------------------------------------------------
(* The byte ledger: the running totals of a backlog.  It says without       *)
(* recursion that b is the sum of the sizes in q, and that no event is       *)
(* larger than the total.                                                    *)

Totals(s, q, b) ==
    /\ s[0] = 0
    /\ s[Len(q)] = b
    /\ \A i \in 1..Len(q) : s[i] = s[i - 1] + q[i].size
    /\ \A m, n \in 0..Len(q) : m <= n => s[m] <= s[n]

Ledger(q, b) == \E s \in [0..Len(q) -> Nat] : Totals(s, q, b)

\* An empty backlog retains nothing.
LEMMA LedgerEmpty == Ledger(<<>>, 0)
<1> DEFINE s == [i \in 0..0 |-> 0]
<1>1. Len(<<>>) = 0
  OBVIOUS
<1>2. s \in [0..0 -> Nat] /\ s[0] = 0
  OBVIOUS
<1>3. Totals(s, <<>>, 0)
  BY <1>1, <1>2 DEF Totals
<1> HIDE DEF s
<1> QED BY <1>1, <1>2, <1>3 DEF Ledger

\* Appending an event adds its size.
LEMMA LedgerAppend ==
    ASSUME NEW q \in Seq(Event), NEW b, NEW e \in Event, Ledger(q, b)
    PROVE  Ledger(Append(q, e), b + e.size) /\ b + e.size \in Nat
<1>1. e.size \in Nat
  BY SizesAssumption DEF Event
<1>2. PICK s \in [0..Len(q) -> Nat] : /\ s[0] = 0
                                       /\ s[Len(q)] = b
                                       /\ \A i \in 1..Len(q) : s[i] = s[i - 1] + q[i].size
                                       /\ \A m, n \in 0..Len(q) : m <= n => s[m] <= s[n]
  BY DEF Ledger, Totals
<1>3. b \in Nat
  BY <1>2
<1> DEFINE t == [i \in 0..Len(q) + 1 |-> IF i <= Len(q) THEN s[i] ELSE b + e.size]
<1>4. t \in [0..Len(Append(q, e)) -> Nat]
  BY <1>1, <1>2, <1>3
<1>5. t[0] = 0 /\ t[Len(Append(q, e))] = b + e.size
  BY <1>2
<1>6. \A i \in 1..Len(Append(q, e)) : t[i] = t[i - 1] + Append(q, e)[i].size
  BY <1>1, <1>2, <1>3
<1>7. \A i, j \in 0..Len(Append(q, e)) : i <= j => t[i] <= t[j]
  BY <1>1, <1>2, <1>3
<1> HIDE DEF t
<1>8. Totals(t, Append(q, e), b + e.size)
  BY <1>5, <1>6, <1>7 DEF Totals
<1> QED BY <1>1, <1>3, <1>4, <1>8 DEF Ledger

\* Removing an event takes exactly its size off.
LEMMA LedgerRemove ==
    ASSUME NEW q \in Seq(Event), NEW b, NEW k \in 1..Len(q), Ledger(q, b)
    PROVE  Ledger(RemoveAt(q, k), b - q[k].size) /\ b - q[k].size \in Nat
<1>1. \A i \in 1..Len(q) : q[i].size \in Nat
  <2> TAKE i \in 1..Len(q)
  <2>1. q[i] \in Event
    BY ElementOfSeq
  <2> QED BY <2>1, SizesAssumption DEF Event
<1>2. PICK s \in [0..Len(q) -> Nat] : /\ s[0] = 0
                                       /\ s[Len(q)] = b
                                       /\ \A i \in 1..Len(q) : s[i] = s[i - 1] + q[i].size
                                       /\ \A m, n \in 0..Len(q) : m <= n => s[m] <= s[n]
  BY DEF Ledger, Totals
<1> DEFINE r == RemoveAt(q, k)
           size == q[k].size
           t == [i \in 0..Len(q) - 1 |-> IF i < k THEN s[i] ELSE s[i + 1] - size]
<1>3. /\ Len(r) = Len(q) - 1
      /\ \A i \in 1..Len(q) - 1 : r[i] = IF i < k THEN q[i] ELSE q[i + 1]
  BY RemoveAtProperties, Zenon
<1>4. s[k] = s[k - 1] + size /\ s[k - 1] \in Nat /\ size \in Nat /\ s[k] \in Nat
  BY <1>1, <1>2
<1>5. \A i \in k..Len(q) : s[i] \in Nat /\ s[i] >= s[k]
  BY <1>2
<1>6. \A i \in 0..k - 1 : s[i] \in Nat /\ s[i] <= s[k - 1]
  BY <1>2
<1> HIDE DEF r, size
<1>7. t \in [0..Len(r) -> Nat]
  <2> SUFFICES ASSUME NEW i \in 0..Len(q) - 1 PROVE t[i] \in Nat
    BY <1>3
  <2>1. CASE i < k
    BY <2>1, <1>2
  <2>2. CASE ~ (i < k)
    <3>1. i + 1 \in k..Len(q)
      BY <2>2
    <3>2. s[i + 1] \in Nat /\ s[i + 1] >= s[k]
      BY <3>1, <1>5
    <3> QED BY <2>2, <3>2, <1>4
  <2> QED BY <2>1, <2>2
<1>8. t[0] = 0
  BY <1>2
<1>9. t[Len(r)] = b - size
  <2>1. CASE k = Len(q)
    BY <2>1, <1>2, <1>3, <1>4
  <2>2. CASE k < Len(q)
    BY <2>2, <1>2, <1>3, <1>4
  <2> QED BY <2>1, <2>2
<1>10. ASSUME NEW i \in 1..Len(r) PROVE t[i] = t[i - 1] + r[i].size
  <2>1. CASE i < k
    <3>1. t[i] = s[i] /\ t[i - 1] = s[i - 1] /\ r[i] = q[i] /\ i \in 1..Len(q)
      BY <2>1, <1>3
    <3> QED BY <3>1, <1>2
  <2>2. CASE i = k
    <3>1. k + 1 \in 1..Len(q) /\ k \in 1..Len(q) - 1 /\ (k + 1) - 1 = k
      BY <2>2, <1>3
    <3>2. t[k] = s[k + 1] - size /\ t[k - 1] = s[k - 1] /\ r[k] = q[k + 1]
      BY <3>1, <1>3
    <3>3. s[k + 1] = s[(k + 1) - 1] + q[k + 1].size
      BY <3>1, <1>2
    <3>4. q[k + 1].size \in Nat
      BY <3>1, <1>1
    <3>5. t[k] = t[k - 1] + r[k].size
      BY <3>1, <3>2, <3>3, <3>4, <1>4
    <3> QED BY <3>5, <2>2
  <2>3. CASE i > k
    <3>1. i + 1 \in 1..Len(q) /\ (i + 1) - 1 = i /\ (i - 1) + 1 = i /\ i \in 1..Len(q) - 1
      BY <2>3, <1>3
    <3>2. t[i] = s[i + 1] - size /\ t[i - 1] = s[i] - size /\ r[i] = q[i + 1]
      <4>1. i - 1 \in 0..Len(q) - 1 /\ ~ (i - 1 < k) /\ ~ (i < k)
        BY <2>3, <3>1
      <4>2. t[i - 1] = s[(i - 1) + 1] - size
        BY <4>1
      <4> QED BY <4>1, <4>2, <3>1, <1>3
    <3>3. s[i + 1] = s[i] + q[i + 1].size
      BY <3>1, <1>2
    <3>4. q[i + 1].size \in Nat /\ s[i] \in Nat
      BY <3>1, <1>1
    <3>5. r[i].size = q[i + 1].size
      BY <3>2, Zenon
    <3>6. size \in Nat
      BY <1>4
    <3>7. ASSUME NEW u \in Nat, NEW v \in Nat, NEW w \in Nat
          PROVE  (u + v) - w = (u - w) + v
      OBVIOUS
    <3>8. t[i] = (s[i] + q[i + 1].size) - size
      BY <3>2, <3>3, Zenon
    <3>9. (s[i] + q[i + 1].size) - size = (s[i] - size) + q[i + 1].size
      BY <3>4, <3>6, <3>7, Zenon
    <3> HIDE DEF t
    <3>10. t[i] = (s[i] - size) + q[i + 1].size
      BY <3>8, <3>9, Zenon
    <3>11. t[i - 1] = s[i] - size
      BY <3>2, Zenon
    <3> QED BY <3>5, <3>10, <3>11, Zenon
  <2> QED BY <2>1, <2>2, <2>3, <1>3
<1>11. ASSUME NEW i \in 0..Len(r), NEW j \in 0..Len(r), i <= j PROVE t[i] <= t[j]
  <2>1. CASE j < k
    BY <2>1, <1>2, <1>3, <1>11
  <2>2. CASE i < k /\ ~ (j < k)
    <3>1. t[i] = s[i] /\ t[j] = s[j + 1] - size /\ j + 1 \in k..Len(q) /\ i \in 0..k - 1
      BY <2>2, <1>3
    <3>2. s[i] <= s[k - 1] /\ s[j + 1] >= s[k] /\ s[i] \in Nat /\ s[j + 1] \in Nat
      BY <3>1, <1>5, <1>6
    <3> QED BY <3>1, <3>2, <1>4
  <2>3. CASE ~ (i < k)
    <3>1. /\ t[i] = s[i + 1] - size
          /\ t[j] = s[j + 1] - size
          /\ i + 1 \in 0..Len(q) /\ j + 1 \in 0..Len(q) /\ i + 1 <= j + 1
      BY <2>3, <1>3, <1>11
    <3>2. s[i + 1] <= s[j + 1] /\ s[i + 1] \in Nat /\ s[j + 1] \in Nat
      BY <3>1, <1>2
    <3> QED BY <3>1, <3>2, <1>4
  <2> QED BY <2>1, <2>2, <2>3, <1>3
<1> HIDE DEF t
<1>12. b - size \in Nat
  BY <1>7, <1>9, <1>3
<1>13. Totals(t, r, b - size)
  BY <1>8, <1>9, <1>10, <1>11 DEF Totals
<1>14. Ledger(r, b - size)
  BY <1>7, <1>13 DEF Ledger
<1> QED BY <1>12, <1>14 DEF r, size

\* Removing the superseded update keeps the ledger and frees no more room
\* than it had.
LEMMA KeptProperties ==
    ASSUME NEW e \in Event, events \in Seq(Event), Ledger(events, bytes)
    PROVE  /\ Kept(e) \in Seq(Event)
           /\ Len(Kept(e)) <= Len(events)
           /\ Ledger(Kept(e), KeptBytes(e))
<1>1. CASE Superseded(e) = {}
  BY <1>1 DEF Kept, KeptBytes
<1>2. CASE Superseded(e) # {}
  <2> DEFINE k == Max(Superseded(e))
  <2>1. Superseded(e) \in SUBSET (1..Len(events)) /\ Len(events) \in Nat
    BY DEF Superseded
  <2>2. k \in 1..Len(events)
    BY <1>2, <2>1, MaxPosition
  <2>3. Kept(e) = RemoveAt(events, k) /\ KeptBytes(e) = bytes - events[k].size
    BY <1>2 DEF Kept, KeptBytes
  <2> HIDE DEF k
  <2>4. /\ RemoveAt(events, k) \in Seq(Event)
        /\ Len(RemoveAt(events, k)) = Len(events) - 1
    BY <2>2, RemoveAtProperties, Zenon
  <2>5. Ledger(RemoveAt(events, k), bytes - events[k].size)
    BY <2>2, LedgerRemove, Zenon
  <2> QED BY <2>1, <2>3, <2>4, <2>5
<1> QED BY <1>1, <1>2

\* Taking the oldest event is removing the first one.
LEMMA TailIsRemoveAt ==
    ASSUME NEW q \in Seq(Event), q # <<>>
    PROVE  Tail(q) = RemoveAt(q, 1) /\ Head(q) = q[1] /\ 1 \in 1..Len(q)
<1>1. Len(q) \in Nat /\ Len(q) >= 1
  BY EmptySeq
<1>2. SubSeq(q, 1, 0) = <<>>
  BY SubSeqEmpty
<1>3. SubSeq(q, 2, Len(q)) = Tail(q) /\ Tail(q) \in Seq(Event)
  BY TailIsSubSeq, HeadTailProperties
<1>4. <<>> \o Tail(q) = Tail(q)
  BY <1>3, ConcatEmptySeq
<1>5. 1 - 1 = 0 /\ 1 + 1 = 2
  OBVIOUS
<1>6. RemoveAt(q, 1) = SubSeq(q, 1, 0) \o SubSeq(q, 2, Len(q))
  BY <1>5 DEF RemoveAt
<1> QED BY <1>1, <1>2, <1>3, <1>4, <1>6

-----------------------------------------------------------------------------
(* The inductive invariant: the queue's own properties and the ledger, which *)
(* shows that the subtractions of send and recv never go below zero.         *)

IInv == TypeOK /\ Bounded /\ NoLostWakeup /\ Ledger(events, bytes)

LEMMA InitEstablishes == Init => IInv
<1> SUFFICES ASSUME Init PROVE IInv
  OBVIOUS
<1>1. TypeOK
  <2>1. <<>> \in Seq(Event)
    BY EmptySeq, Zenon
  <2> QED BY <2>1 DEF Init, TypeOK
<1>2. Bounded
  BY LimitsAssumption DEF Init, Bounded
<1>3. NoLostWakeup
  BY DEF Init, NoLostWakeup
<1>4. Ledger(events, bytes)
  BY LedgerEmpty DEF Init
<1> QED BY <1>1, <1>2, <1>3, <1>4 DEF IInv

\* A notification leaves no receiver asleep, whatever there is to receive.
LEMMA NotifyWakes ==
    ASSUME TypeOK, Notify
    PROVE  /\ permit' \in BOOLEAN
           /\ receiver' \in {"running", "await", "parked", "ended"}
           /\ receiver' # "parked"
           /\ receiver' = "await" => permit'
BY DEF TypeOK, Notify

\* Queueing an event.
LEMMA SendQueuedStep ==
    ASSUME NEW e \in Event, IInv, SendQueued(e)
    PROVE  IInv'
<1> USE DEF IInv
<1>1. /\ Kept(e) \in Seq(Event)
      /\ Len(Kept(e)) <= Len(events)
      /\ Ledger(Kept(e), KeptBytes(e))
  BY KeptProperties DEF TypeOK
<1>2. Ledger(events', bytes') /\ bytes' \in Nat
  BY <1>1, LedgerAppend DEF SendQueued
<1>3. events' \in Seq(Event) /\ Len(events') = Len(Kept(e)) + 1
  BY <1>1, AppendProperties DEF SendQueued
<1>4. TypeOK'
  BY <1>2, <1>3, NotifyWakes DEF SendQueued, TypeOK
<1>5. Len(Kept(e)) # EventCapacity /\ Len(Kept(e)) \in Nat /\ bytes' <= EventBytes
  BY <1>1, <1>2, LimitsAssumption DEF SendQueued, Overflows
<1>6. Bounded'
  BY <1>1, <1>3, <1>5, LimitsAssumption DEF SendQueued, Bounded, TypeOK
<1>7. NoLostWakeup'
  BY NotifyWakes DEF SendQueued, NoLostWakeup
<1> QED BY <1>2, <1>4, <1>6, <1>7

\* Discarding the backlog for a reset, by overflow or on request.
LEMMA ResetStep ==
    ASSUME IInv, ~ receiverClosed, events' = <<>>, bytes' = 0, resetPending',
           resetPending' \in BOOLEAN, UNCHANGED <<producerClosed, receiverClosed>>, Notify
    PROVE  IInv'
<1> USE DEF IInv
<1>1. TypeOK'
  BY NotifyWakes DEF TypeOK
<1>2. Bounded'
  BY LimitsAssumption DEF Bounded, TypeOK
<1>3. NoLostWakeup'
  BY NotifyWakes DEF NoLostWakeup
<1>4. Ledger(events', bytes')
  BY LedgerEmpty
<1> QED BY <1>1, <1>2, <1>3, <1>4

\* Receiving an event.
LEMMA RecvEventStep ==
    ASSUME IInv, RecvEvent
    PROVE  IInv'
<1> USE DEF IInv
<1>1. events \in Seq(Event) /\ events # <<>>
  BY DEF TypeOK, RecvEvent
<1>2. /\ events' = RemoveAt(events, 1)
      /\ bytes' = bytes - events[1].size
      /\ 1 \in 1..Len(events)
  BY <1>1, TailIsRemoveAt DEF RecvEvent
<1>3. Ledger(events', bytes') /\ bytes' \in Nat
  BY <1>1, <1>2, LedgerRemove
<1>4. events' \in Seq(Event) /\ Len(events') = Len(events) - 1
  BY <1>1, <1>2, RemoveAtProperties
<1>5. TypeOK'
  BY <1>3, <1>4 DEF TypeOK, RecvEvent
<1>6. events[1].size \in Nat
  <2>1. events[1] \in Event
    BY <1>1, <1>2, ElementOfSeq, Zenon
  <2> QED BY <2>1, SizesAssumption DEF Event
<1>7. Bounded'
  BY <1>1, <1>2, <1>4, <1>6, LimitsAssumption DEF Bounded, RecvEvent, TypeOK
<1>8. NoLostWakeup'
  BY DEF NoLostWakeup, RecvEvent
<1> QED BY <1>3, <1>5, <1>7, <1>8

LEMMA StepPreserves == IInv /\ [Next]_queueVars => IInv'
<1> SUFFICES ASSUME IInv, [Next]_queueVars PROVE IInv'
  OBVIOUS
<1>1. CASE UNCHANGED queueVars
  <2>1. TypeOK'
    BY <1>1 DEF IInv, TypeOK, queueVars, buffer
  <2>2. Bounded'
    BY <1>1 DEF IInv, Bounded, queueVars, buffer
  <2>3. NoLostWakeup'
    BY <1>1 DEF IInv, NoLostWakeup, queueVars, buffer
  <2>4. Ledger(events', bytes')
    BY <1>1 DEF IInv, queueVars, buffer
  <2> QED BY <2>1, <2>2, <2>3, <2>4 DEF IInv
<1>2. CASE \E e \in Event : Send(e)
  <2> PICK e \in Event : Send(e)
    BY <1>2
  <2>1. CASE SendQueued(e)
    BY <2>1, SendQueuedStep
  <2>2. CASE SendReset(e)
    BY <2>2, ResetStep DEF SendReset
  <2>3. CASE SendDropped
    BY <2>3, <1>1 DEF SendDropped
  <2> QED BY <2>1, <2>2, <2>3 DEF Send
<1>3. CASE Reset
  <2>1. CASE receiverClosed
    BY <2>1, <1>1, <1>3 DEF Reset
  <2>2. CASE ~ receiverClosed
    BY <2>2, <1>3, ResetStep DEF Reset
  <2> QED BY <2>1, <2>2
<1>4. CASE CloseProducer
  <2>1. TypeOK'
    BY <1>4, NotifyWakes DEF CloseProducer, TypeOK, IInv
  <2>2. Bounded'
    BY <1>4 DEF CloseProducer, Bounded, IInv
  <2>3. NoLostWakeup'
    BY <1>4, NotifyWakes DEF CloseProducer, NoLostWakeup, IInv
  <2>4. Ledger(events', bytes')
    BY <1>4 DEF CloseProducer, IInv
  <2> QED BY <2>1, <2>2, <2>3, <2>4 DEF IInv
<1>5. CASE RecvReset
  <2>1. TypeOK'
    BY <1>5 DEF RecvReset, TypeOK, IInv
  <2>2. Bounded'
    BY <1>5 DEF RecvReset, Bounded, IInv
  <2>3. NoLostWakeup'
    BY <1>5 DEF RecvReset, NoLostWakeup, IInv
  <2>4. Ledger(events', bytes')
    BY <1>5 DEF RecvReset, IInv
  <2> QED BY <2>1, <2>2, <2>3, <2>4 DEF IInv
<1>6. CASE RecvEvent
  BY <1>6, RecvEventStep
<1>7. CASE RecvNothing
  <2>1. TypeOK'
    BY <1>7 DEF RecvNothing, TypeOK, IInv, buffer
  <2>2. Bounded'
    BY <1>7 DEF RecvNothing, Bounded, IInv, buffer
  <2>3. NoLostWakeup'
    BY <1>7 DEF RecvNothing, NoLostWakeup, IInv, buffer
  <2>4. Ledger(events', bytes')
    BY <1>7 DEF RecvNothing, IInv, buffer
  <2> QED BY <2>1, <2>2, <2>3, <2>4 DEF IInv
<1>8. CASE Await
  <2>1. TypeOK'
    BY <1>8 DEF Await, TypeOK, IInv, buffer
  <2>2. Bounded'
    BY <1>8 DEF Await, Bounded, IInv, buffer
  <2>3. NoLostWakeup'
    BY <1>8 DEF Await, NoLostWakeup, IInv, buffer, TypeOK
  <2>4. Ledger(events', bytes')
    BY <1>8 DEF Await, IInv, buffer
  <2> QED BY <2>1, <2>2, <2>3, <2>4 DEF IInv
<1>9. CASE CloseReceiver
  <2>1. TypeOK'
    <3>1. <<>> \in Seq(Event)
      BY EmptySeq, Zenon
    <3> QED BY <1>9, <3>1 DEF CloseReceiver, TypeOK, IInv
  <2>2. Bounded'
    BY <1>9, LimitsAssumption DEF CloseReceiver, Bounded, IInv
  <2>3. NoLostWakeup'
    BY <1>9 DEF CloseReceiver, NoLostWakeup, IInv
  <2>4. Ledger(events', bytes')
    BY <1>9, LedgerEmpty DEF CloseReceiver
  <2> QED BY <2>1, <2>2, <2>3, <2>4 DEF IInv
<1> QED BY <1>1, <1>2, <1>3, <1>4, <1>5, <1>6, <1>7, <1>8, <1>9 DEF Next

\* The invariant holds in every reachable state of the queue.
THEOREM Invariance == Spec => []IInv
<1>1. Init => IInv
  BY InitEstablishes
<1>2. IInv /\ [Next]_queueVars => IInv'
  BY StepPreserves
<1> QED BY <1>1, <1>2, PTL DEF Spec

\* Every variable keeps its type; above all the unsigned byte count never
\* goes below zero, whatever is coalesced, received, reset or closed.
THEOREM QueueTypeOK == Spec => []TypeOK
<1>1. IInv => TypeOK
  BY DEF IInv
<1> QED BY <1>1, Invariance, PTL

\* The backlog stays within EVENT_CAPACITY and EVENT_BYTES, a pending reset
\* stands alone and a closed receiver retains nothing.
THEOREM QueueBounded == Spec => []Bounded
<1>1. IInv => Bounded
  BY DEF IInv
<1> QED BY <1>1, Invariance, PTL

\* recv() never sleeps through an event, a reset or the end of the stream.
THEOREM QueueNoLostWakeup == Spec => []NoLostWakeup
<1>1. IInv => NoLostWakeup
  BY DEF IInv
<1> QED BY <1>1, Invariance, PTL

------------------------------------------------------------------------------
(* The event queue between a publisher and a consumer.                     *)

\* Replay and the sum of BytesExact, of any backlog q and view w.
ReplayOf(q, w, n) ==
    [k \in Keys |->
        LET updates == {i \in 1..n : q[i].key = k}
        IN  IF updates = {} THEN w[k] ELSE q[Max(updates)].id]
Sum(q) == FoldLeft(LAMBDA sum, e : sum + e.size, 0, q)

\* CoalescingExact, for the backlog q, the view w, the latest values l and the
\* publications p.
Exact(q, w, l, p) ==
    /\ ReplayOf(q, w, Len(q)) = l
    /\ \A i \in DOMAIN q :
          /\ q[i].key = Lifecycle => ReplayOf(q, w, i - 1) = p[q[i].id]
          /\ \A j \in 1..i - 1 : q[j].id < q[i].id

Values == [Keys -> Nat]

\* The publications so far, and the events among them that are queued.
Listed(q, l, p) ==
    /\ p \in Seq(Values) /\ Len(p) >= 1 /\ p[Len(p)] = l
    /\ \A i \in DOMAIN q : q[i].id \in Nat /\ 1 <= q[i].id /\ q[i].id < Len(p)

ViewInv ==
    /\ IInv
    /\ latest \in Values /\ view \in Values
    /\ Listed(events, latest, published)
    /\ ~resetPending /\ ~receiverClosed => Exact(events, view, latest, published)

\* The ledger holds the sum.
LEMMA LedgerSum ==
    ASSUME NEW q \in Seq(Event), NEW b, Ledger(q, b)
    PROVE  b = Sum(q)
<1> DEFINE n == Len(q)
           A == Nat
           step == [x \in (1..n) \X A |-> x[2] + q[x[1]].size]
           Equation(f) == f = [s \in SUBSET DOMAIN q |->
                                  IF s = {} THEN 0 ELSE f[s \ {Max(s)}] + q[Max(s)].size]
           c == CHOOSE f : Equation(f)
<1>1. n \in Nat /\ DOMAIN q = 1..n
  OBVIOUS
<1>2. \A i \in 1..n : q[i].size \in A
  <2> SUFFICES ASSUME NEW i \in 1..n PROVE q[i].size \in Nat
    OBVIOUS
  <2>1. q[i] \in Event
    BY <1>1, ElementOfSeq
  <2> QED BY <2>1, SizesAssumption DEF Event
<1>3. /\ step \in Steps(n, A)
      /\ \A i \in 1..n, a \in A : step[<<i, a>>] = a + q[i].size
  BY <1>1, <1>2 DEF Steps
<1>18. 0 \in A
  OBVIOUS
<1>4. \A s \in SUBSET (1..n) : s # {} => Max(s) \in 1..n /\ s \ {Max(s)} \in SUBSET (1..n)
  <2> SUFFICES ASSUME NEW s \in SUBSET (1..n), s # {} PROVE Max(s) \in s
    OBVIOUS
  <2>1. s \in SUBSET (0..n)
    OBVIOUS
  <2> QED BY <1>1, <2>1, GreatestUpTo
<1> HIDE DEF n, step, A
<1>5. PICK f : FoldsSets(f, n, A, 0, step)
  BY <1>1, <1>3, <1>18, FoldExists
<1>6. Equation(f)
  BY <1>1, <1>3, <1>4, <1>5 DEF FoldsSets
<1>7. Equation(c)
  <2> HIDE DEF Equation
  <2> QED BY <1>6
<1>8. Sum(q) = c[1..n]
  BY <1>1 DEF Sum, FoldLeft, MapThenFoldSet
<1> HIDE DEF c
<1>9. Follows(c, n, A, 0, step)
  BY <1>1, <1>3, <1>4, <1>7 DEF Follows
<1>10. PICK g : Computed(g, n, A, 0, step) /\ c[1..n] = g[n]
  BY <1>1, <1>3, <1>9, <1>18, FoldValue
<1>11. /\ g \in [0..n -> Nat] /\ g[0] = 0
       /\ \A i \in 1..n : g[i] = g[i - 1] + q[i].size
  <2>1. g \in [0..n -> A] /\ g[0] = 0 /\ \A i \in 1..n : g[i] = step[<<i, g[i - 1]>>]
    BY <1>10 DEF Computed
  <2>2. \A i \in 1..n : g[i - 1] \in A
    BY <1>1, <2>1
  <2> QED BY <1>3, <2>1, <2>2 DEF A
<1>12. PICK s \in [0..n -> Nat] : Totals(s, q, b)
  BY DEF Ledger, n
<1>13. s[0] = 0 /\ s[n] = b /\ \A i \in 1..n : s[i] = s[i - 1] + q[i].size
  BY <1>12 DEF Totals, n
<1> DEFINE Same == {k \in 0..n : s[k] = g[k]}
<1>14. 0 \in Same
  BY <1>1, <1>11, <1>13
<1>15. \A k \in 0..n : k # n /\ k \in Same => k + 1 \in Same
  <2> SUFFICES ASSUME NEW k \in 0..n, k # n, s[k] = g[k] PROVE k + 1 \in 0..n /\ s[k + 1] = g[k + 1]
    OBVIOUS
  <2>1. k + 1 \in 1..n /\ (k + 1) - 1 = k
    BY <1>1
  <2> QED BY <2>1, <1>11, <1>13
<1> HIDE DEF Same
<1>16. 0..n \subseteq Same
  BY <1>1, <1>14, <1>15, InductionUpTo
<1>17. n \in Same
  BY <1>1, <1>16
<1> QED BY <1>8, <1>10, <1>13, <1>17 DEF Same

LEMMA ReplaySays ==
    ASSUME NEW q, NEW w, NEW n \in Nat, NEW k \in Keys
    PROVE  Says(q, w, n, k, ReplayOf(q, w, n)[k])
<1> DEFINE updates == {i \in 1..n : q[i].key = k}
<1>1. ReplayOf(q, w, n)[k] = IF updates = {} THEN w[k] ELSE q[Max(updates)].id
  BY DEF ReplayOf
<1>2. CASE updates = {}
  BY <1>1, <1>2 DEF Says
<1>3. CASE updates # {}
  <2>1. updates \in SUBSET (1..n)
    OBVIOUS
  <2> DEFINE m == Max(updates)
  <2>2. m \in updates /\ \A j \in updates : m >= j
    <3> HIDE DEF updates
    <3> QED BY <1>3, <2>1, MaxPosition
  <2> HIDE DEF m
  <2>3. m \in 1..n /\ q[m].key = k /\ \A j \in 1..n : j > m => q[j].key # k
    BY <2>2
  <2>4. ReplayOf(q, w, n)[k] = q[m].id
    BY <1>1, <1>3 DEF m
  <2> QED BY <2>3, <2>4 DEF Says
<1> QED BY <1>2, <1>3

\* A replay is what every key was last set to.
LEMMA ReplayIs ==
    ASSUME NEW q, NEW w, NEW n \in Nat, NEW l,
           l = [k \in Keys |-> l[k]], \A k \in Keys : Says(q, w, n, k, l[k])
    PROVE  ReplayOf(q, w, n) = l
<1>1. ASSUME NEW k \in Keys PROVE ReplayOf(q, w, n)[k] = l[k]
  BY ReplaySays, SaysOne
<1>2. ReplayOf(q, w, n) = [k \in Keys |-> ReplayOf(q, w, n)[k]]
  BY DEF ReplayOf
<1> QED BY <1>1, <1>2

LEMMA ReplaySame ==
    ASSUME NEW q, NEW r, NEW w, NEW n \in Nat, \A i \in 1..n : r[i] = q[i]
    PROVE  ReplayOf(r, w, n) = ReplayOf(q, w, n)
<1> DEFINE l == ReplayOf(q, w, n)
<1>1. l = [k \in Keys |-> l[k]]
  BY DEF ReplayOf
<1>2. \A k \in Keys : Says(q, w, n, k, l[k])
  BY ReplaySays
<1> HIDE DEF l
<1>3. \A k \in Keys : Says(r, w, n, k, l[k])
  BY <1>2 DEF Says
<1> QED BY <1>1, <1>3, ReplayIs DEF l

\* The consumer takes the first event: what is left replays the same.
LEMMA TailReplays ==
    ASSUME NEW q \in Seq(Event), q # <<>>, NEW w \in Values,
           NEW n \in Nat, n + 1 <= Len(q), q[1].id \in Nat
    PROVE  LET taken == IF q[1].key = Lifecycle THEN w ELSE [w EXCEPT ![q[1].key] = q[1].id]
           IN  ReplayOf(Tail(q), taken, n) = ReplayOf(q, w, n + 1)
<1> DEFINE taken == IF q[1].key = Lifecycle THEN w ELSE [w EXCEPT ![q[1].key] = q[1].id]
           t == Tail(q)
           l == ReplayOf(q, w, n + 1)
           m == n + 1
<1>1. l = [k \in Keys |-> l[k]]
  BY DEF ReplayOf
<1>2. m \in Nat /\ \A k \in Keys : Says(q, w, m, k, l[k])
  BY ReplaySays
<1>3. \A i \in 1..n : t[i] = q[i + 1]
  OBVIOUS
<1>4. q[1].key \in Keys \cup {Lifecycle}
  <2>1. q[1] \in Event
    BY ElementOfSeq
  <2> QED BY <2>1 DEF Event
<1>5. \A k \in Keys : taken[k] = IF q[1].key = k THEN q[1].id ELSE w[k]
  BY <1>4, KeysAssumption DEF Values
<1> HIDE DEF l, taken, t
<1>6. ASSUME NEW k \in Keys PROVE Says(t, taken, n, k, l[k])
  <2>1. CASE w[k] = l[k] /\ \A i \in 1..m : q[i].key # k
    <3>1. 1 \in 1..m /\ \A i \in 1..n : i + 1 \in 1..m
      OBVIOUS
    <3>2. taken[k] = l[k]
      BY <1>5, <2>1, <3>1
    <3>3. \A i \in 1..n : t[i].key # k
      BY <1>3, <2>1, <3>1
    <3> QED BY <3>2, <3>3 DEF Says
  <2>2. CASE \E i \in 1..m : q[i].key = k /\ q[i].id = l[k] /\ \A j \in 1..m : j > i => q[j].key # k
    <3>1. PICK i \in 1..m : q[i].key = k /\ q[i].id = l[k] /\ \A j \in 1..m : j > i => q[j].key # k
      BY <2>2
    <3>2. CASE i = 1
      <4>1. taken[k] = l[k]
        BY <1>5, <3>1, <3>2
      <4>2. \A j \in 1..n : t[j].key # k
        <5> SUFFICES ASSUME NEW j \in 1..n PROVE t[j].key # k
          OBVIOUS
        <5>1. j + 1 \in 1..m /\ j + 1 > i
          BY <3>2
        <5> QED BY <1>3, <3>1, <5>1
      <4> QED BY <4>1, <4>2 DEF Says
    <3>3. CASE i # 1
      <4>1. i - 1 \in 1..n /\ (i - 1) + 1 = i
        BY <3>3
      <4>2. t[i - 1] = q[i]
        BY <1>3, <4>1
      <4>3. \A j \in 1..n : j > i - 1 => t[j].key # k
        <5> SUFFICES ASSUME NEW j \in 1..n, j > i - 1 PROVE t[j].key # k
          OBVIOUS
        <5>1. j + 1 \in 1..m /\ j + 1 > i
          BY <3>3
        <5> QED BY <1>3, <3>1, <5>1
      <4> QED BY <3>1, <4>1, <4>2, <4>3 DEF Says
    <3> QED BY <3>2, <3>3
  <2> QED BY <1>2, <2>1, <2>2 DEF Says
<1>7. ReplayOf(t, taken, n) = l
  BY <1>1, <1>6, ReplayIs
<1> QED BY <1>7 DEF l, taken, t

\* Receiving an event keeps what the backlog tells.
LEMMA TakenExact ==
    ASSUME NEW q \in Seq(Event), q # <<>>, NEW w \in Values, NEW l, NEW p,
           Exact(q, w, l, p), Listed(q, l, p)
    PROVE  LET taken == IF q[1].key = Lifecycle THEN w ELSE [w EXCEPT ![q[1].key] = q[1].id]
           IN  Exact(Tail(q), taken, l, p) /\ Listed(Tail(q), l, p) /\ taken \in Values
<1> DEFINE taken == IF q[1].key = Lifecycle THEN w ELSE [w EXCEPT ![q[1].key] = q[1].id]
           t == Tail(q)
           n == Len(q)
<1>1. /\ n \in Nat /\ n >= 1 /\ DOMAIN q = 1..n /\ 1 \in 1..n
      /\ Len(t) = n - 1 /\ DOMAIN t = 1..(n - 1) /\ \A i \in 1..(n - 1) : t[i] = q[i + 1]
  BY EmptySeq
<1>2. q[1].id \in Nat
  BY <1>1 DEF Listed
<1>3. taken \in Values
  BY <1>2 DEF Values
<1>4. \A m \in Nat : m + 1 <= n => ReplayOf(t, taken, m) = ReplayOf(q, w, m + 1)
  BY <1>2, TailReplays
<1> HIDE DEF taken, t, n
<1>5. ReplayOf(t, taken, Len(t)) = l
  <2>1. n - 1 \in Nat /\ (n - 1) + 1 = n
    BY <1>1
  <2> QED BY <1>1, <1>4, <2>1 DEF Exact, n
<1>6. ASSUME NEW i \in DOMAIN t
      PROVE  /\ t[i].key = Lifecycle => ReplayOf(t, taken, i - 1) = p[t[i].id]
             /\ \A j \in 1..i - 1 : t[j].id < t[i].id
             /\ t[i].id \in Nat /\ 1 <= t[i].id /\ t[i].id < Len(p)
  <2>1. /\ i + 1 \in DOMAIN q /\ t[i] = q[i + 1] /\ (i + 1) - 1 = i /\ i - 1 \in Nat /\ (i - 1) + 1 = i
        /\ i <= n
    BY <1>1
  <2>2. ReplayOf(t, taken, i - 1) = ReplayOf(q, w, i)
    BY <1>4, <2>1
  <2>3. \A j \in 1..i - 1 : j + 1 \in 1..(i + 1) - 1 /\ t[j] = q[j + 1]
    BY <1>1, <2>1
  <2>4. /\ q[i + 1].key = Lifecycle => ReplayOf(q, w, (i + 1) - 1) = p[q[i + 1].id]
        /\ \A j \in 1..(i + 1) - 1 : q[j].id < q[i + 1].id
    BY <2>1 DEF Exact
  <2> QED BY <2>1, <2>2, <2>3, <2>4 DEF Listed
<1>7. Exact(t, taken, l, p)
  BY <1>5, <1>6 DEF Exact
<1>8. Listed(t, l, p)
  BY <1>6 DEF Listed
<1> QED BY <1>3, <1>7, <1>8 DEF taken, t

\* Exact, but for the last value of the key.
ExactBut(q, w, l, p, key) ==
    /\ \A k \in Keys : k # key => ReplayOf(q, w, Len(q))[k] = l[k]
    /\ \A i \in DOMAIN q :
          /\ q[i].key = Lifecycle => ReplayOf(q, w, i - 1) = p[q[i].id]
          /\ \A j \in 1..i - 1 : q[j].id < q[i].id

\* Queueing an event behind a backlog that need not tell of its key.
LEMMA QueuedExact ==
    ASSUME NEW q \in Seq(Event), NEW w \in Values, NEW l \in Values, NEW p,
           NEW e \in Event, e.id = Len(p), ExactBut(q, w, l, p, e.key), Listed(q, l, p)
    PROVE  LET now == IF e.key = Lifecycle THEN l ELSE [l EXCEPT ![e.key] = e.id]
           IN  /\ now \in Values /\ Listed(Append(q, e), now, Append(p, now))
               /\ Exact(Append(q, e), w, now, Append(p, now))
<1> DEFINE now == IF e.key = Lifecycle THEN l ELSE [l EXCEPT ![e.key] = e.id]
           n == Len(q)
           r == Append(q, e)
           pp == Append(p, now)
<1>1. /\ n \in Nat /\ DOMAIN q = 1..n /\ r \in Seq(Event) /\ Len(r) = n + 1 /\ DOMAIN r = 1..(n + 1)
      /\ r[n + 1] = e /\ \A i \in 1..n : r[i] = q[i]
  OBVIOUS
<1>2. /\ p \in Seq(Values) /\ Len(p) \in Nat /\ Len(p) >= 1 /\ p[Len(p)] = l
      /\ \A i \in 1..n : q[i].id \in Nat /\ 1 <= q[i].id /\ q[i].id < Len(p)
  BY <1>1 DEF Listed
<1>3. now \in Values /\ \A k \in Keys : now[k] = IF k = e.key THEN e.id ELSE l[k]
  BY <1>2, KeysAssumption DEF Values
<1> HIDE DEF now
<1>4. /\ pp \in Seq(Values) /\ Len(pp) = Len(p) + 1 /\ pp[Len(pp)] = now
      /\ \A i \in 1..Len(p) : pp[i] = p[i]
  BY <1>2, <1>3
<1> HIDE DEF n, r, pp
<1>5. \A i \in 1..(n + 1) : i = n + 1 \/ i \in 1..n
  BY <1>1
<1>6. Listed(r, now, pp)
  BY <1>1, <1>2, <1>4, <1>5 DEF Listed
<1>7. ReplayOf(r, w, n + 1) = now
  <2>1. now = [k \in Keys |-> now[k]]
    BY <1>3 DEF Values
  <2>2. ASSUME NEW k \in Keys PROVE Says(r, w, n + 1, k, now[k])
    <3>1. CASE k = e.key
      <4>1. n + 1 \in 1..(n + 1) /\ \A j \in 1..(n + 1) : ~(j > n + 1)
        BY <1>1
      <4> QED BY <1>1, <1>3, <3>1, <4>1 DEF Says
    <3>2. CASE k # e.key
      <4>1. Says(q, w, n, k, l[k])
        BY <1>1, <3>2, ReplaySays DEF ExactBut, n
      <4>2. \A i \in 1..n : i \in 1..(n + 1)
        BY <1>1
      <4> QED BY <1>1, <1>3, <1>5, <3>2, <4>1, <4>2 DEF Says
    <3> QED BY <3>1, <3>2
  <2> QED BY <1>1, <2>1, <2>2, ReplayIs
<1>8. ASSUME NEW i \in 1..(n + 1)
      PROVE  /\ r[i].key = Lifecycle => ReplayOf(r, w, i - 1) = pp[r[i].id]
             /\ \A j \in 1..i - 1 : r[j].id < r[i].id
  <2>1. i - 1 \in Nat /\ i - 1 <= n /\ \A j \in 1..i - 1 : j \in 1..n /\ r[j] = q[j]
    BY <1>1
  <2>2. ReplayOf(r, w, i - 1) = ReplayOf(q, w, i - 1)
    BY <2>1, ReplaySame
  <2>3. CASE i \in 1..n
    <3>1. /\ q[i].key = Lifecycle => ReplayOf(q, w, i - 1) = p[q[i].id]
          /\ \A j \in 1..i - 1 : q[j].id < q[i].id
      BY <1>1, <2>3 DEF ExactBut
    <3>2. r[i] = q[i] /\ q[i].id \in Nat /\ 1 <= q[i].id /\ q[i].id < Len(p)
      BY <1>1, <1>2, <2>3
    <3>4. q[i].id \in 1..Len(p)
      BY <1>2, <3>2
    <3> QED BY <1>4, <2>1, <2>2, <3>1, <3>2, <3>4
  <2>4. CASE i = n + 1
    <3>1. i - 1 = n
      BY <1>1, <2>4
    <3>2. e.key = Lifecycle => ReplayOf(r, w, i - 1) = l
      <4> SUFFICES ASSUME e.key = Lifecycle PROVE ReplayOf(q, w, n) = l
        BY <2>2, <3>1
      <4>1. \A k \in Keys : ReplayOf(q, w, n)[k] = l[k]
        BY KeysAssumption DEF ExactBut, n
      <4>2. /\ ReplayOf(q, w, n) = [k \in Keys |-> ReplayOf(q, w, n)[k]]
            /\ l = [k \in Keys |-> l[k]]
        BY DEF ReplayOf, Values
      <4> QED BY <4>1, <4>2
    <3>3. r[i] = e /\ e.id \in 1..Len(p)
      BY <1>1, <1>2, <2>4
    <3>4. pp[r[i].id] = l
      BY <1>2, <1>4, <3>3
    <3> QED BY <1>2, <2>1, <3>2, <3>3, <3>4
  <2> QED BY <1>5, <2>3, <2>4
<1>9. Exact(r, w, now, pp)
  BY <1>1, <1>7, <1>8 DEF Exact
<1> QED BY <1>3, <1>6, <1>9 DEF now, r, pp

\* Removing an update after which no lifecycle event is queued.
LEMMA RemovedExact ==
    ASSUME NEW q \in Seq(Event), NEW w \in Values, NEW l \in Values, NEW p,
           Exact(q, w, l, p), Listed(q, l, p),
           NEW c \in 1..Len(q), q[c].key # Lifecycle, \A j \in c..Len(q) : q[j].key # Lifecycle
    PROVE  ExactBut(RemoveAt(q, c), w, l, p, q[c].key) /\ Listed(RemoveAt(q, c), l, p)
<1> DEFINE r == RemoveAt(q, c)
           n == Len(q)
           key == q[c].key
<1>1. /\ r \in Seq(Event) /\ Len(r) = n - 1 /\ n \in Nat /\ DOMAIN q = 1..n
      /\ \A i \in 1..n - 1 : r[i] = IF i < c THEN q[i] ELSE q[i + 1]
  <2>1. /\ r \in Seq(Event) /\ Len(r) = n - 1
        /\ \A i \in 1..n - 1 : r[i] = IF i < c THEN q[i] ELSE q[i + 1]
    BY RemoveAtProperties, Zenon
  <2>2. n \in Nat /\ DOMAIN q = 1..n
    OBVIOUS
  <2> QED BY <2>1, <2>2
<1>2. DOMAIN r = 1..n - 1 /\ n - 1 \in Nat /\ c \in 1..n
  BY <1>1
<1> HIDE DEF r, n
<1>3. ASSUME NEW k \in Keys, k # key PROVE ReplayOf(r, w, n - 1)[k] = l[k]
  <2>1. Says(q, w, n, k, l[k])
    BY <1>1, ReplaySays DEF Exact, n
  <2>2. Says(r, w, n - 1, k, l[k])
    <3>1. CASE w[k] = l[k] /\ \A i \in 1..n : q[i].key # k
      <4>1. \A i \in 1..n - 1 : i \in 1..n /\ i + 1 \in 1..n
        BY <1>1
      <4> QED BY <1>1, <3>1, <4>1 DEF Says
    <3>2. CASE \E i \in 1..n : q[i].key = k /\ q[i].id = l[k] /\ \A j \in 1..n : j > i => q[j].key # k
      <4>1. PICK i \in 1..n : q[i].key = k /\ q[i].id = l[k] /\ \A j \in 1..n : j > i => q[j].key # k
        BY <3>2
      <4>2. i # c
        BY <1>3, <4>1 DEF key
      <4> DEFINE m == IF i < c THEN i ELSE i - 1
      <4>3. m \in 1..n - 1 /\ r[m] = q[i]
        <5>1. CASE i < c
          BY <1>1, <1>2, <5>1
        <5>2. CASE ~(i < c)
          <6>1. i > c /\ i - 1 \in 1..n - 1 /\ (i - 1) + 1 = i /\ ~(i - 1 < c)
            BY <1>1, <1>2, <4>2, <5>2
          <6> QED BY <1>1, <5>2, <6>1
        <5> QED BY <5>1, <5>2
      <4>4. ASSUME NEW j \in 1..n - 1, j > m PROVE r[j].key # k
        <5>1. CASE j < c
          <6>1. i < c /\ j > i /\ j \in 1..n
            BY <1>1, <1>2, <4>2, <4>4, <5>1
          <6> QED BY <1>1, <4>1, <5>1, <6>1
        <5>2. CASE ~(j < c)
          <6>1. j + 1 > i /\ j + 1 \in 1..n
            BY <1>1, <1>2, <4>4, <5>2
          <6> QED BY <1>1, <4>1, <5>2, <6>1
        <5> QED BY <5>1, <5>2
      <4> HIDE DEF m
      <4> QED BY <4>1, <4>3, <4>4 DEF Says
    <3> QED BY <2>1, <3>1, <3>2 DEF Says
  <2> QED BY <1>2, <2>2, ReplaySays, SaysOne
<1>4. ASSUME NEW i \in 1..n - 1
      PROVE  /\ r[i].key = Lifecycle => ReplayOf(r, w, i - 1) = p[r[i].id]
             /\ \A j \in 1..i - 1 : r[j].id < r[i].id
             /\ r[i].id \in Nat /\ 1 <= r[i].id /\ r[i].id < Len(p)
  <2>1. CASE i < c
    <3>1. /\ i \in 1..n /\ r[i] = q[i] /\ i - 1 \in Nat
          /\ \A j \in 1..i - 1 : r[j] = q[j]
      BY <1>1, <1>2, <2>1
    <3>2. ReplayOf(r, w, i - 1) = ReplayOf(q, w, i - 1)
      BY <3>1, ReplaySame
    <3> QED BY <1>1, <3>1, <3>2 DEF Exact, Listed
  <2>2. CASE ~(i < c)
    <3>1. i + 1 \in 1..n /\ i + 1 \in c..Len(q) /\ r[i] = q[i + 1] /\ (i + 1) - 1 = i
      BY <1>1, <1>2, <2>2 DEF n
    <3>2. \A j \in 1..i - 1 : \E m \in 1..i : r[j] = q[m]
      <4> SUFFICES ASSUME NEW j \in 1..i - 1 PROVE \E m \in 1..i : r[j] = q[m]
        OBVIOUS
      <4>1. j \in 1..n - 1 /\ j \in 1..i /\ j + 1 \in 1..i
        BY <1>1
      <4> QED BY <1>1, <4>1
    <3>3. \A m \in 1..i : q[m].id < q[i + 1].id
      BY <1>1, <3>1 DEF Exact
    <3> QED BY <1>1, <3>1, <3>2, <3>3 DEF Listed
  <2> QED BY <2>1, <2>2
<1>5. ExactBut(r, w, l, p, key)
  BY <1>1, <1>2, <1>3, <1>4 DEF ExactBut
<1>6. Listed(r, l, p)
  BY <1>2, <1>4 DEF Listed
<1> QED BY <1>5, <1>6 DEF r, key

\* The backlog send queues an event behind.
LEMMA KeptExact ==
    ASSUME NEW e \in Event, events \in Seq(Event), view \in Values, latest \in Values, NEW p,
           Exact(events, view, latest, p), Listed(events, latest, p)
    PROVE  ExactBut(Kept(e), view, latest, p, e.key) /\ Listed(Kept(e), latest, p)
<1>1. CASE Superseded(e) = {}
  <2>1. Kept(e) = events
    BY <1>1 DEF Kept
  <2> QED BY <2>1 DEF Exact, ExactBut
<1>2. CASE Superseded(e) # {}
  <2> DEFINE c == Max(Superseded(e))
  <2>1. Superseded(e) \in SUBSET (1..Len(events)) /\ Len(events) \in Nat
    BY DEF Superseded
  <2>2. c \in Superseded(e) /\ c \in 1..Len(events)
    BY <1>2, <2>1, MaxPosition
  <2>3. Kept(e) = RemoveAt(events, c)
    BY <1>2 DEF Kept
  <2> HIDE DEF c
  <2>4. /\ events[c].key # Lifecycle /\ events[c].key = e.key
        /\ \A j \in c..Len(events) : events[j].key # Lifecycle
    BY <2>2 DEF Superseded
  <2>5. ExactBut(RemoveAt(events, c), view, latest, p, events[c].key) /\ Listed(RemoveAt(events, c), latest, p)
    BY <2>2, <2>4, RemovedExact
  <2> QED BY <2>3, <2>4, <2>5
<1> QED BY <1>1, <1>2

LEMMA EmptyListed ==
    ASSUME NEW l, NEW p, p \in Seq(Values), Len(p) >= 1, p[Len(p)] = l
    PROVE  Listed(<<>>, l, p)
BY DEF Listed

\* An event that is published.
LEMMA PublishKeeps ==
    ASSUME ViewInv, NEW key \in Keys \cup {Lifecycle}, NEW size \in Sizes, Publish(key, size)
    PROVE  (\E e \in Event : Send(e)) /\ (IInv' => ViewInv')
<1> DEFINE n == Len(published)
           e == [key |-> key, id |-> n, size |-> size]
           now == IF key = Lifecycle THEN latest ELSE [latest EXCEPT ![key] = n]
<1>1. /\ latest \in Values /\ view \in Values /\ Listed(events, latest, published)
      /\ published \in Seq(Values) /\ n >= 1 /\ n \in Nat /\ published[n] = latest
      /\ events \in Seq(Event)
  BY DEF ViewInv, Listed, IInv, TypeOK
<1>2. n <= MaxPublished /\ n \in Ids
  <2>1. n <= MaxPublished
    BY DEF Publish
  <2>2. n \in 1..MaxPublished
    BY <1>1, <2>1, IdsAssumption
  <2> QED BY <2>1, <2>2, IdsAssumption
<1>3. e \in Event /\ e.id = n /\ e.key = key
  BY <1>2 DEF Event
<1>4. /\ Send(e) /\ latest' = now /\ published' = Append(published, now) /\ view' = view
  <2>1. latest' = now /\ published' = Append(published, latest')
    BY DEF Publish
  <2> QED BY <2>1 DEF Publish
<1>5. now \in Values
  BY <1>1, KeysAssumption DEF Values
<1> DEFINE pp == Append(published, now)
<1>6. pp \in Seq(Values) /\ Len(pp) >= 1 /\ pp[Len(pp)] = now /\ Len(pp) = n + 1
  BY <1>1, <1>5
<1>7. now = IF e.key = Lifecycle THEN latest ELSE [latest EXCEPT ![e.key] = e.id]
  BY <1>3
<1> HIDE DEF e, now, n, pp
<1>8. CASE SendQueued(e)
  <2>1. /\ ~receiverClosed /\ ~resetPending /\ events' = Append(Kept(e), e)
        /\ UNCHANGED <<resetPending, receiverClosed>>
    BY <1>8 DEF SendQueued
  <2>2. Exact(events, view, latest, published)
    BY <2>1 DEF ViewInv
  <2>3. ExactBut(Kept(e), view, latest, published, e.key) /\ Listed(Kept(e), latest, published)
    BY <1>1, <1>3, <2>2, KeptExact
  <2>4. Kept(e) \in Seq(Event)
    BY <1>1, <1>3, KeptProperties DEF ViewInv, IInv
  <2> DEFINE q == Kept(e)
  <2> HIDE DEF q
  <2>5. Listed(Append(q, e), now, Append(published, now)) /\ Exact(Append(q, e), view, now, Append(published, now))
    BY <1>1, <1>3, <1>7, <2>3, <2>4, QueuedExact DEF q, n
  <2> QED BY <1>1, <1>3, <1>4, <1>5, <2>1, <2>5 DEF ViewInv, q
<1>9. CASE SendReset(e)
  <2>1. events' = <<>> /\ resetPending'
    BY <1>9 DEF SendReset
  <2>2. Listed(events', now, pp)
    BY <1>6, <2>1, EmptyListed
  <2> QED BY <1>1, <1>3, <1>4, <1>5, <2>1, <2>2 DEF ViewInv, pp
<1>10. CASE SendDropped
  <2>1. (receiverClosed \/ resetPending) /\ UNCHANGED <<events, resetPending, receiverClosed>>
    BY <1>10 DEF SendDropped, queueVars, buffer
  <2>2. events = <<>>
    BY <2>1 DEF ViewInv, IInv, Bounded
  <2>3. Listed(events', now, pp)
    BY <1>6, <2>1, <2>2, EmptyListed
  <2> QED BY <1>1, <1>3, <1>4, <1>5, <2>1, <2>3 DEF ViewInv, pp
<1> QED BY <1>3, <1>4, <1>8, <1>9, <1>10 DEF Send

LEMMA ViewInitial == ViewInit => ViewInv
<1> SUFFICES ASSUME ViewInit PROVE ViewInv
  OBVIOUS
<1> DEFINE zero == [k \in Keys |-> 0]
<1>1. IInv /\ events = <<>> /\ latest = zero /\ view = zero /\ published = <<zero>>
  BY InitEstablishes DEF ViewInit, Init
<1>2. zero \in Values
  BY DEF Values
<1>3. /\ <<zero>> \in Seq(Values) /\ Len(<<zero>>) >= 1 /\ <<zero>>[Len(<<zero>>)] = zero
  BY <1>2
<1>4. Listed(<<>>, zero, <<zero>>)
  BY <1>3, EmptyListed
<1>5. Exact(<<>>, zero, zero, <<zero>>)
  <2>1. 0 \in Nat /\ \A i \in 1..0 : FALSE
    OBVIOUS
  <2>2. zero = [k \in Keys |-> zero[k]] /\ \A k \in Keys : Says(<<>>, zero, 0, k, zero[k])
    BY <2>1 DEF Says
  <2> HIDE DEF zero
  <2>3. ReplayOf(<<>>, zero, 0) = zero
    BY <2>1, <2>2, ReplayIs
  <2>4. Len(<<>>) = 0 /\ DOMAIN <<>> = {}
    OBVIOUS
  <2> QED BY <2>3, <2>4 DEF Exact
<1> QED BY <1>1, <1>2, <1>4, <1>5 DEF ViewInv

LEMMA ViewStep == ViewInv /\ [ViewNext]_viewVars => ViewInv'
<1> SUFFICES ASSUME ViewInv, [ViewNext]_viewVars PROVE ViewInv'
  OBVIOUS
<1> USE DEF ViewInv
<1>1. ASSUME NEW key \in Keys \cup {Lifecycle}, NEW size \in Sizes, Publish(key, size) PROVE ViewInv'
  <2>1. (\E e \in Event : Send(e)) /\ (IInv' => ViewInv')
    BY <1>1, PublishKeeps
  <2>2. IInv'
    BY <2>1, StepPreserves DEF Next
  <2> QED BY <2>1, <2>2
<1>2. CASE ConsumeEvent
  <2> DEFINE taken == IF events[1].key = Lifecycle THEN view ELSE [view EXCEPT ![events[1].key] = events[1].id]
  <2>1. RecvEvent /\ UNCHANGED <<latest, published>>
    BY <1>2 DEF ConsumeEvent
  <2>2. IInv'
    BY <2>1, StepPreserves DEF Next
  <2>3. /\ events \in Seq(Event) /\ events # <<>> /\ events' = Tail(events)
        /\ ~resetPending /\ ~receiverClosed /\ UNCHANGED <<resetPending, receiverClosed>>
    BY <2>1 DEF RecvEvent, IInv, TypeOK
  <2>4. view' = taken
    BY <1>2, <2>3, TailIsRemoveAt DEF ConsumeEvent
  <2>5. Exact(Tail(events), taken, latest, published) /\ Listed(Tail(events), latest, published) /\ taken \in Values
    BY <2>3, TakenExact
  <2> HIDE DEF taken
  <2> QED BY <2>1, <2>2, <2>3, <2>4, <2>5
<1>3. CASE ConsumeReset
  <2>1. RecvReset /\ view' = latest /\ UNCHANGED <<latest, published>>
    BY <1>3 DEF ConsumeReset
  <2>2. IInv'
    BY <2>1, StepPreserves DEF Next
  <2>3. events = <<>> /\ events' = events
    BY <2>1 DEF RecvReset, IInv, Bounded
  <2>4. Exact(<<>>, latest, latest, published)
    <3>1. 0 \in Nat /\ \A i \in 1..0 : FALSE
      OBVIOUS
    <3>2. latest = [k \in Keys |-> latest[k]] /\ \A k \in Keys : Says(<<>>, latest, 0, k, latest[k])
      BY <3>1 DEF Says, Values
    <3>3. ReplayOf(<<>>, latest, 0) = latest
      BY <3>1, <3>2, ReplayIs
    <3>4. Len(<<>>) = 0 /\ DOMAIN <<>> = {}
      OBVIOUS
    <3> QED BY <3>3, <3>4 DEF Exact
  <2> QED BY <2>1, <2>2, <2>3, <2>4
<1>4. CASE (Reset \/ CloseProducer \/ RecvNothing \/ Await \/ CloseReceiver) /\ UNCHANGED ghosts
  <2>1. IInv'
    BY <1>4, StepPreserves DEF Next
  <2>2. UNCHANGED <<latest, view, published>>
    BY <1>4 DEF ghosts
  <2>3. CASE UNCHANGED <<events, resetPending, receiverClosed>>
    BY <2>1, <2>2, <2>3
  <2>4. CASE events' = <<>> /\ (resetPending' \/ receiverClosed')
    <3>1. Listed(events', latest, published)
      BY <2>4, EmptyListed DEF Listed
    <3> QED BY <2>1, <2>2, <2>4, <3>1
  <2>5. UNCHANGED <<events, resetPending, receiverClosed>> \/ (events' = <<>> /\ (resetPending' \/ receiverClosed'))
    BY <1>4 DEF Reset, CloseProducer, RecvNothing, Await, CloseReceiver, queueVars, buffer
  <2> QED BY <2>3, <2>4, <2>5
<1>5. CASE UNCHANGED viewVars
  <2>1. UNCHANGED queueVars /\ UNCHANGED <<latest, view, published>>
    BY <1>5 DEF viewVars, ghosts
  <2>2. IInv'
    BY <2>1, StepPreserves
  <2>3. UNCHANGED <<events, resetPending, receiverClosed>>
    BY <2>1 DEF queueVars, buffer
  <2> QED BY <2>1, <2>2, <2>3
<1> QED BY <1>1, <1>2, <1>3, <1>4, <1>5 DEF ViewNext

LEMMA ViewSound == ViewInv => CoalescingExact /\ BytesExact /\ Bounded /\ NoLostWakeup
<1> SUFFICES ASSUME ViewInv PROVE CoalescingExact /\ BytesExact /\ Bounded /\ NoLostWakeup
  OBVIOUS
<1>1. CoalescingExact
  BY DEF ViewInv, CoalescingExact, Exact, Replay, ReplayOf
<1>2. BytesExact
  BY LedgerSum DEF ViewInv, IInv, TypeOK, BytesExact, Sum
<1> QED BY <1>1, <1>2 DEF ViewInv, IInv

\* The queue of the run: it is the one that moves, or nothing of it does.
LEMMA QueueOfTheRun == SurfacesSpec => []ViewInv
<1>1. SurfacesInit => ViewInv
  BY ViewInitial DEF SurfacesInit
<1>2. ViewInv /\ [SurfacesNext]_surfacesVars => ViewInv'
  <2>1. [SurfacesNext]_surfacesVars => ViewNext \/ UNCHANGED viewVars
    BY DEF SurfacesNext, surfacesVars
  <2> QED BY <2>1, ViewStep
<1> QED BY <1>1, <1>2, PTL DEF SurfacesSpec

\* Coalescing, overflow and resets lose nothing a consumer could tell: at each
\* lifecycle event it sees what was published before it, the backlog brings it
\* up to date, and the bytes counted are those of the backlog (events.rs), for
\* any keys, sizes and limits.
THEOREM QueueIsExact == SurfacesSpec => []QueueExact
BY QueueOfTheRun, ViewSound, PTL DEF QueueExact

\* recv() never sleeps through what there is to receive, in the run as well.
THEOREM ReceiversAreWoken == SurfacesSpec => []NoLostWakeup
BY QueueOfTheRun, ViewSound, PTL

------------------------------------------------------------------------------
(* The grabs of popups: what is above a popup, the inductive invariant, each *)
(* helper that changes who has the keyboard or the pointer, then the actions. *)

\* h goes from x to the parent of each popup it meets, in n steps.
Climbs(h, s, x, n) ==
    /\ h = [k \in 0..n |-> h[k]] /\ h[0] = x
    /\ \A k \in 1..n : h[k] = IF h[k - 1] \in Popups THEN s.parent[h[k - 1]] ELSE h[k - 1]

\* RootOf returns what has been reached after as many steps as there are popups.
LEMMA ParentsUp ==
  ASSUME NEW s, NEW x, NEW h, Cardinality(Popups) \in Nat, Climbs(h, s, x, Cardinality(Popups))
  PROVE  RootOf(s, x) = h[Cardinality(Popups)]
<1> DEFINE N == Cardinality(Popups)
<1>0. /\ N \in Nat /\ h = [k \in 0..N |-> h[k]] /\ h[0] = x
      /\ \A k \in 1..N : h[k] = IF h[k - 1] \in Popups THEN s.parent[h[k - 1]] ELSE h[k - 1]
  BY DEF Climbs
<1> DEFINE Equation(f) == f = [k \in 0..N |-> IF k = 0 THEN x
                                              ELSE IF f[k - 1] \in Popups THEN s.parent[f[k - 1]]
                                              ELSE f[k - 1]]
           c == CHOOSE f : Equation(f)
<1>1. RootOf(s, x) = c[N]
  BY DEF RootOf
<1> HIDE DEF N
<1>2. Equation(h)
  <2> DEFINE e == [k \in 0..N |-> IF k = 0 THEN x ELSE IF h[k - 1] \in Popups THEN s.parent[h[k - 1]]
                                  ELSE h[k - 1]]
  <2>1. \A k \in 0..N : h[k] = e[k]
    <3> SUFFICES ASSUME NEW k \in 0..N PROVE h[k] = e[k]
      OBVIOUS
    <3>1. k = 0 \/ k \in 1..N
      BY <1>0
    <3> QED BY <1>0, <3>1
  <2>2. e = [k \in 0..N |-> e[k]]
    OBVIOUS
  <2> HIDE DEF e
  <2>3. h = e
    BY <1>0, <2>1, <2>2
  <2> QED BY <2>3 DEF e
<1>3. Equation(c)
  <2> HIDE DEF Equation
  <2> QED BY <1>2
<1>4. \A k \in 0..N : c[k] = IF k = 0 THEN x ELSE IF c[k - 1] \in Popups THEN s.parent[c[k - 1]] ELSE c[k - 1]
  <2> HIDE DEF c
  <2> DEFINE D == 0..N
  <2>1. c = [k \in D |-> IF k = 0 THEN x ELSE IF c[k - 1] \in Popups THEN s.parent[c[k - 1]] ELSE c[k - 1]]
    BY <1>3
  <2> HIDE DEF D
  <2>2. \A k \in D : c[k] = IF k = 0 THEN x ELSE IF c[k - 1] \in Popups THEN s.parent[c[k - 1]] ELSE c[k - 1]
    BY <2>1, Zenon
  <2> QED BY <2>2 DEF D
<1> HIDE DEF c, Equation
<1> DEFINE Same == {k \in 0..N : c[k] = h[k]}
<1>5. 0 \in Same
  BY <1>0, <1>4
<1>6. ASSUME NEW k \in 0..N, k # N, k \in Same PROVE k + 1 \in Same
  <2>1. k + 1 \in 1..N /\ k + 1 \in 0..N /\ k + 1 # 0 /\ (k + 1) - 1 = k
    BY <1>0, <1>6
  <2>2. c[k] = h[k]
    BY <1>6
  <2>3. c[k + 1] = IF c[k] \in Popups THEN s.parent[c[k]] ELSE c[k]
    BY <1>4, <2>1
  <2>4. h[k + 1] = IF h[k] \in Popups THEN s.parent[h[k]] ELSE h[k]
    BY <1>0, <2>1
  <2> QED BY <2>1, <2>2, <2>3, <2>4
<1>7. N \in Same
  <2> HIDE DEF Same
  <2>1. 0..N \subseteq Same
    BY <1>0, <1>5, <1>6, InductionUpTo
  <2> QED BY <1>0, <2>1
<1>8. RootOf(s, x) = h[N]
  BY <1>1, <1>7
<1> QED BY <1>8 DEF N

LEMMA PopupsFinite == Cardinality(Popups) \in Nat
BY GrabsAssumption, FS_CardinalityType

\* What is no popup is its own root.
LEMMA RootItself ==
  ASSUME NEW s, NEW x, x \notin Popups
  PROVE  RootOf(s, x) = x
<1> DEFINE N == Cardinality(Popups)
           h == [k \in 0..N |-> x]
<1>1. N \in Nat
  BY PopupsFinite
<1> HIDE DEF N
<1>2. h = [k \in 0..N |-> h[k]] /\ h[0] = x /\ h[N] = x
  BY <1>1
<1>3. \A k \in 1..N : h[k] = IF h[k - 1] \in Popups THEN s.parent[h[k - 1]] ELSE h[k - 1]
  BY <1>1
<1>4. Climbs(h, s, x, N)
  BY <1>2, <1>3 DEF Climbs
<1> HIDE DEF h
<1> QED BY <1>1, <1>2, <1>4, ParentsUp DEF N

\* A chain of popups, each on the one before and the first on root, has this root.
LEMMA RootOfChain ==
  ASSUME NEW s, NEW q \in Seq(Popups), q # <<>>, IsInjective(q), NEW root, root \notin Popups,
         \A i \in 1..Len(q) : s.parent[q[i]] = IF i = 1 THEN root ELSE q[i - 1]
  PROVE  RootOf(s, q[Len(q)]) = root
<1> DEFINE N == Cardinality(Popups)
           n == Len(q)
           h == [k \in 0..N |-> IF k < n THEN q[n - k] ELSE root]
<1>1. N \in Nat /\ n \in Nat /\ n > 0
  BY PopupsFinite
<1>2. n <= N
  <2>1. \A i, j \in 1..n : q[i] = q[j] => i = j
    BY DEF IsInjective
  <2>2. q \in [1..n -> Popups] /\ IsFiniteSet(Popups)
    BY GrabsAssumption
  <2>3. Cardinality(1..n) = n /\ IsFiniteSet(1..n)
    BY <1>1, IntervalSize
  <2> DEFINE I == 1..n
  <2> HIDE DEF n, N, I
  <2>4. q \in [I -> Popups] /\ (\A i, j \in I : q[i] = q[j] => i = j)
    BY <2>1, <2>2 DEF I
  <2>5. q \in Injection(I, Popups)
    BY <2>4 DEF Injection, IsInjective
  <2>6. Cardinality(I) <= Cardinality(Popups)
    BY <2>2, <2>3, <2>5, FS_Injection DEF I
  <2> QED BY <2>3, <2>6 DEF N, I
<1> HIDE DEF N
<1>3. h = [k \in 0..N |-> h[k]] /\ h[0] = q[n] /\ h[N] = root
  BY <1>1, <1>2
<1>4. \A k \in 1..N : h[k] = IF h[k - 1] \in Popups THEN s.parent[h[k - 1]] ELSE h[k - 1]
  <2> SUFFICES ASSUME NEW k \in 1..N
               PROVE  h[k] = IF h[k - 1] \in Popups THEN s.parent[h[k - 1]] ELSE h[k - 1]
    OBVIOUS
  <2>1. CASE k - 1 < n
    <3>1. h[k - 1] = q[n - (k - 1)] /\ n - (k - 1) \in 1..n
      BY <1>1, <2>1
    <3>2. q[n - (k - 1)] \in Popups
      BY <3>1
    <3>3. s.parent[q[n - (k - 1)]] = IF n - (k - 1) = 1 THEN root ELSE q[n - (k - 1) - 1]
      BY <3>1
    <3>4. n - (k - 1) - 1 = n - k /\ (n - (k - 1) = 1 <=> ~(k < n))
      BY <1>1, <2>1
    <3> QED BY <1>1, <3>1, <3>2, <3>3, <3>4
  <2>2. CASE ~(k - 1 < n)
    BY <1>1, <2>2
  <2> QED BY <2>1, <2>2
<1>5. Climbs(h, s, q[n], N)
  BY <1>3, <1>4 DEF Climbs
<1>6. RootOf(s, q[n]) = h[N]
  <2> HIDE DEF h, n
  <2> QED BY <1>1, <1>5, ParentsUp DEF N
<1> QED BY <1>3, <1>6

\* What the seat can hold.
Surfaces == Roots \cup Popups
Anybody == Surfaces \cup {Nobody}
Presses == [kind : {"keyboard", "pointer", "touch"}, serial : Nat, client : Range(Client)]
PointerGrabs == [kind : {"none", "click", "popup", "move"}, serial : Nat, focus : Anybody]
Grabs == [root : Anybody, serial : Nat, previous : Nat]
Seats ==
    [roots : SUBSET Roots, parent : [Popups -> Anybody], chain : Seq(Popups),
     dismissed : SUBSET Popups, focus : Anybody, kgrab : Nat, at : Roots \cup {Nobody},
     pgrab : PointerGrabs, touch : Anybody \cup {NoTouch}, grab : Grabs,
     presses : Seq(Presses), known : Anybody, origin : Nat, locked : BOOLEAN,
     serial : Nat, moved : Nat, begun : [1..MaxSerial -> Nat]]

\* The chain climbs from the root of its grab, one popup on the other, and has
\* one client; without a grab there is none.
ChainUp(s) ==
    /\ IsInjective(s.chain)
    /\ s.chain # <<>> => s.grab # NoGrab
    /\ \A i \in 1..Len(s.chain) :
          /\ SameClient(s.chain[i], s.grab.root)
          /\ s.parent[s.chain[i]] = IF i = 1 THEN s.grab.root ELSE s.chain[i - 1]
    /\ s.grab # NoGrab => s.grab.root \in Roots

\* A keyboard grab answers the popup grab.
KeysHeld(s) == s.kgrab # 0 => s.grab # NoGrab /\ Matching(s.grab, s.kgrab)

\* The clients know of the focus as it is, and no press of a key is older than
\* the last time the keyboard changed hands.
PressesKept(s) ==
    /\ s.known \in {s.focus, Nobody} /\ s.moved <= s.serial
    /\ \A p \in Range(s.presses) : p.kind = "keyboard" => p.serial > s.moved

\* A press that opened a chain opens no other: it is neither remembered nor
\* what a click holds the pointer for.
BegunOnce(s) ==
    \A n \in 1..MaxSerial :
        /\ s.begun[n] <= 1
        /\ s.begun[n] # 0 =>
              /\ n <= s.serial /\ ~(s.pgrab.kind = "click" /\ s.pgrab.serial = n)
              /\ \A p \in Range(s.presses) : p.serial # n

\* What holds in the middle of a handler, while grabs are being replaced.
Loose(s) == s \in Seats /\ ChainUp(s) /\ KeysHeld(s) /\ PressesKept(s) /\ BegunOnce(s)

\* A popup's pointer grab answers the popup grab.
PointerHeld(s) == s.pgrab.kind = "popup" => s.grab # NoGrab /\ Matching(s.grab, s.pgrab.serial)

\* A keyboard grab keeps the keyboard with the client of the chain, and no
\* popup has it otherwise.
FocusHeld(s) ==
    /\ s.kgrab # 0 => SameClient(s.focus, s.grab.root)
    /\ s.focus \in Popups => s.kgrab # 0

Sound(s) == Loose(s) /\ PointerHeld(s) /\ FocusHeld(s)

\* The claims on the keyboard: none of two panels, nothing under the lock, and
\* the panel that wants the keyboard has it, or its popups do.
OnePanel(s) == \A x, y \in s.roots \cap Panels : x = y

Guarded(s) ==
    /\ OnePanel(s)
    /\ s.locked => s.grab = NoGrab /\ s.focus = Nobody
    /\ ~s.locked /\ Exclusive(s) # Nobody =>
          /\ s.grab # NoGrab => s.grab.root = Exclusive(s)
          /\ s.kgrab = 0 => s.focus = Exclusive(s)

\* What a change of the keyboard leaves alone, and what one of the focus does.
Steady(s, t) ==
    /\ t.roots = s.roots /\ t.parent = s.parent /\ t.at = s.at /\ t.touch = s.touch
    /\ t.locked = s.locked /\ t.serial = s.serial /\ t.begun = s.begun

GrabsSame(s, t) == t.chain = s.chain /\ t.dismissed = s.dismissed /\ t.grab = s.grab /\ t.pgrab = s.pgrab

LEMMA SeatTypes ==
  ASSUME NEW s \in Seats
  PROVE  /\ s.roots \in SUBSET Roots /\ s.parent \in [Popups -> Anybody] /\ s.chain \in Seq(Popups)
         /\ s.dismissed \in SUBSET Popups /\ s.focus \in Anybody /\ s.kgrab \in Nat
         /\ s.at \in Roots \cup {Nobody} /\ s.pgrab \in PointerGrabs /\ s.touch \in Anybody \cup {NoTouch}
         /\ s.grab \in Grabs /\ s.presses \in Seq(Presses) /\ s.known \in Anybody /\ s.origin \in Nat
         /\ s.locked \in BOOLEAN /\ s.serial \in Nat /\ s.moved \in Nat /\ s.begun \in [1..MaxSerial -> Nat]
BY DEF Seats

LEMMA NobodyApart == Nobody \notin Surfaces /\ Roots \cap Popups = {} /\ DOMAIN Client = Surfaces
BY GrabsAssumption DEF Surfaces

\* What a change of focus to a surface writes.
LEMMA GivenFields ==
  ASSUME NEW s \in Seats, NEW f \in Surfaces, s.focus # f
  PROVE  LET t == Given(s, f) IN
         /\ t \in Seats /\ Steady(s, t) /\ GrabsSame(s, t) /\ t.kgrab = s.kgrab
         /\ t.focus = f /\ t.known = f
         /\ t.moved = IF SameClient(s.focus, f) THEN s.moved ELSE s.serial
         /\ t.presses = IF SameClient(s.known, f) THEN s.presses ELSE <<>>
<1>1. f # Nobody
  BY NobodyApart
<1> DEFINE u == [s EXCEPT !.focus = f, !.moved = IF SameClient(s.focus, f) THEN @ ELSE s.serial]
<1>2. Given(s, f) = Reported(u, f)
  BY <1>1 DEF Given
<1>3. /\ u \in Seats /\ Steady(s, u) /\ GrabsSame(s, u) /\ u.kgrab = s.kgrab /\ u.focus = f
      /\ u.known = s.known /\ u.presses = s.presses
      /\ u.moved = IF SameClient(s.focus, f) THEN s.moved ELSE s.serial
  BY DEF Seats, Steady, GrabsSame, Anybody
<1> HIDE DEF u
<1>4. CASE SameClient(u.known, f)
  <2>1. Reported(u, f) = [u EXCEPT !.known = f]
    BY <1>4 DEF Reported
  <2> DEFINE t == [u EXCEPT !.known = f]
  <2>2. /\ t \in Seats /\ Steady(u, t) /\ GrabsSame(u, t) /\ t.kgrab = u.kgrab /\ t.focus = u.focus
        /\ t.known = f /\ t.moved = u.moved /\ t.presses = u.presses
    BY <1>3 DEF Seats, Steady, GrabsSame, Anybody
  <2> HIDE DEF t
  <2> QED BY <1>2, <1>3, <1>4, <2>1, <2>2 DEF t, Steady, GrabsSame
<1>5. CASE ~SameClient(u.known, f)
  <2>1. Reported(u, f) = [u EXCEPT !.known = f, !.presses = <<>>, !.origin = 0]
    BY <1>5 DEF Reported
  <2> DEFINE t == [u EXCEPT !.known = f, !.presses = <<>>, !.origin = 0]
  <2>2. /\ t \in Seats /\ Steady(u, t) /\ GrabsSame(u, t) /\ t.kgrab = u.kgrab /\ t.focus = u.focus
        /\ t.known = f /\ t.moved = u.moved /\ t.presses = <<>>
    <3>1. <<>> \in Seq(Presses)
      OBVIOUS
    <3> QED BY <1>3, <3>1 DEF Seats, Steady, GrabsSame, Anybody
  <2> HIDE DEF t
  <2> QED BY <1>2, <1>3, <1>5, <2>1, <2>2 DEF t, Steady, GrabsSame
<1> QED BY <1>4, <1>5

\* A surface gets the keyboard, and no press outlives that wrongly.
LEMMA GivenLoose ==
  ASSUME NEW s, Loose(s), NEW f \in Surfaces
  PROVE  LET t == Given(s, f) IN
         Loose(t) /\ Steady(s, t) /\ GrabsSame(s, t) /\ t.kgrab = s.kgrab /\ t.focus = f
<1> DEFINE t == Given(s, f)
<1>1. CASE s.focus = f
  <2>1. t = s
    BY <1>1 DEF Given
  <2> QED BY <1>1, <2>1 DEF Steady, GrabsSame
<1>2. CASE s.focus # f
  <2>1. /\ t \in Seats /\ Steady(s, t) /\ GrabsSame(s, t) /\ t.kgrab = s.kgrab
        /\ t.focus = f /\ t.known = f
        /\ t.moved = IF SameClient(s.focus, f) THEN s.moved ELSE s.serial
        /\ t.presses = IF SameClient(s.known, f) THEN s.presses ELSE <<>>
    BY <1>2, GivenFields DEF Loose
  <2> HIDE DEF t
  <2>2. ChainUp(t) /\ KeysHeld(t)
    BY <2>1 DEF Loose, ChainUp, KeysHeld, Steady, GrabsSame
  <2>3. s.known = s.focus \/ ~SameClient(s.known, f)
    BY NobodyApart DEF Loose, PressesKept, SameClient
  <2>4. Range(t.presses) \subseteq Range(s.presses) /\ (t.moved = s.moved \/ (t.moved = s.serial /\ Range(t.presses) = {}))
    BY <2>1, <2>3, EmptyFacts
  <2>5. PressesKept(t)
    BY <2>1, <2>4, SeatTypes DEF Loose, PressesKept, Steady
  <2>6. BegunOnce(t)
    BY <2>1, <2>4 DEF Loose, BegunOnce, Steady, GrabsSame
  <2> QED BY <2>1, <2>2, <2>5, <2>6 DEF Loose, t
<1> QED BY <1>1, <1>2

\* The keyboard is with nobody, and everyone hears of it: no press is left.
LEMMA SilentLoose ==
  ASSUME NEW s \in Seats, ChainUp(s), KeysHeld(s), BegunOnce(s), s.focus = Nobody, s.moved <= s.serial
  PROVE  LET t == Reported(s, Nobody) IN
         Loose(t) /\ Steady(s, t) /\ GrabsSame(s, t) /\ t.kgrab = s.kgrab /\ t.focus = Nobody
<1> DEFINE t == [s EXCEPT !.known = Nobody, !.presses = <<>>, !.origin = 0]
<1>1. Reported(s, Nobody) = t
  BY NobodyApart DEF Reported, SameClient
<1>2. <<>> \in Seq(Presses) /\ Range(<<>>) = {}
  BY EmptyFacts
<1>3. /\ t \in Seats /\ Steady(s, t) /\ GrabsSame(s, t) /\ t.kgrab = s.kgrab /\ t.focus = s.focus
      /\ t.known = Nobody /\ t.moved = s.moved /\ t.presses = <<>>
  BY <1>2 DEF Seats, Steady, GrabsSame, Anybody
<1> HIDE DEF t
<1>4. ChainUp(t) /\ KeysHeld(t)
  BY <1>3 DEF ChainUp, KeysHeld, Steady, GrabsSame
<1>5. PressesKept(t) /\ BegunOnce(t)
  BY <1>2, <1>3 DEF PressesKept, BegunOnce, Steady, GrabsSame
<1> QED BY <1>1, <1>3, <1>4, <1>5 DEF Loose

LEMMA TakenLoose ==
  ASSUME NEW s, Loose(s)
  PROVE  LET t == Reported(Given(s, Nobody), Nobody) IN
         s.focus # Nobody =>
           Loose(t) /\ Steady(s, t) /\ GrabsSame(s, t) /\ t.kgrab = s.kgrab /\ t.focus = Nobody
<1> SUFFICES ASSUME s.focus # Nobody
             PROVE  LET t == Reported(Given(s, Nobody), Nobody) IN
                    Loose(t) /\ Steady(s, t) /\ GrabsSame(s, t) /\ t.kgrab = s.kgrab /\ t.focus = Nobody
  OBVIOUS
<1> DEFINE u == [s EXCEPT !.focus = Nobody, !.moved = s.serial]
<1>1. Given(s, Nobody) = u
  BY NobodyApart DEF Given, SameClient
<1>2. /\ u \in Seats /\ Steady(s, u) /\ GrabsSame(s, u) /\ u.kgrab = s.kgrab /\ u.focus = Nobody
      /\ u.presses = s.presses /\ u.moved = s.serial
  BY DEF Loose, Seats, Steady, GrabsSame, Anybody
<1> HIDE DEF u
<1>3. ChainUp(u) /\ KeysHeld(u) /\ BegunOnce(u)
  BY <1>2 DEF Loose, ChainUp, KeysHeld, BegunOnce, Steady, GrabsSame
<1>4. u.moved <= u.serial /\ u.serial = s.serial
  BY <1>2, SeatTypes DEF Loose, Steady
<1> DEFINE t == Reported(u, Nobody)
<1>5. Loose(t) /\ Steady(u, t) /\ GrabsSame(u, t) /\ t.kgrab = u.kgrab /\ t.focus = Nobody
  BY <1>2, <1>3, <1>4, SilentLoose
<1> HIDE DEF t
<1>6. Loose(t) /\ Steady(s, t) /\ GrabsSame(s, t) /\ t.kgrab = s.kgrab /\ t.focus = Nobody
  BY <1>2, <1>5 DEF Steady, GrabsSame
<1> QED BY <1>1, <1>6 DEF t

\* The keyboard grab is given up.
LEMMA ReleasedLoose ==
  ASSUME NEW s, Loose(s)
  PROVE  LET t == [s EXCEPT !.kgrab = 0] IN
         Loose(t) /\ Steady(s, t) /\ GrabsSame(s, t) /\ t.kgrab = 0 /\ t.focus = s.focus
<1> DEFINE t == [s EXCEPT !.kgrab = 0]
<1>1. /\ t \in Seats /\ Steady(s, t) /\ GrabsSame(s, t) /\ t.kgrab = 0 /\ t.focus = s.focus
      /\ t.known = s.known /\ t.moved = s.moved /\ t.presses = s.presses
  BY DEF Loose, Seats, Steady, GrabsSame, Anybody
<1> HIDE DEF t
<1>2. ChainUp(t) /\ KeysHeld(t) /\ PressesKept(t) /\ BegunOnce(t)
  BY <1>1 DEF Loose, ChainUp, KeysHeld, PressesKept, BegunOnce, Steady, GrabsSame
<1> QED BY <1>1, <1>2 DEF Loose, t

\* The grab is on a surface of the client whose surface is below the chain.
LEMMA CurrentFacts ==
  ASSUME NEW s \in Seats, ChainUp(s), s.grab # NoGrab
  PROVE  /\ Current(s) \in Surfaces /\ SameClient(Current(s), s.grab.root)
         /\ Current(s) \in Popups <=> s.chain # <<>>
         /\ s.chain = <<>> => Current(s) = s.grab.root
         /\ RootOf(s, Current(s)) = s.grab.root
         /\ s.grab.root \in Roots
<1>1. s.grab.root \in Roots /\ s.grab.root \in Surfaces /\ s.grab.root \notin Popups
  BY NobodyApart DEF ChainUp, Surfaces
<1>2. SameClient(s.grab.root, s.grab.root)
  BY <1>1, NobodyApart DEF SameClient
<1>3. CASE s.chain = <<>>
  <2>1. Current(s) = s.grab.root
    BY <1>3 DEF Current
  <2>2. RootOf(s, s.grab.root) = s.grab.root
    BY <1>1, RootItself
  <2> QED BY <1>1, <1>2, <1>3, <2>1, <2>2
<1>4. CASE s.chain # <<>>
  <2> DEFINE q == s.chain
             root == s.grab.root
  <2>1. q \in Seq(Popups) /\ IsInjective(q) /\ root \notin Popups
    BY <1>1, SeatTypes DEF ChainUp
  <2>2. \A i \in 1..Len(q) : SameClient(q[i], root) /\ s.parent[q[i]] = IF i = 1 THEN root ELSE q[i - 1]
    BY DEF ChainUp
  <2>3. Current(s) = q[Len(q)]
    BY <1>4 DEF Current, Last
  <2> HIDE DEF q, root
  <2>4. q # <<>>
    BY <1>4 DEF q
  <2>5. Len(q) \in 1..Len(q) /\ q[Len(q)] \in Popups
    BY <2>1, <2>4
  <2>6. RootOf(s, q[Len(q)]) = root
    BY <2>1, <2>2, <2>4, RootOfChain
  <2> QED BY <1>1, <1>4, <2>2, <2>3, <2>5, <2>6 DEF Surfaces, root
<1> QED BY <1>3, <1>4

\* What becomes of the keyboard when it is offered to f: a chain keeps it, or
\* f gets it.
Offering(s, t, f) ==
    /\ Loose(t) /\ Steady(s, t) /\ GrabsSame(s, t)
    /\ \/ t.kgrab = s.kgrab /\ t.focus = s.focus /\ (s.focus = f \/ s.kgrab # 0)
       \/ t.kgrab = 0 /\ t.focus = f
       \/ t.kgrab = s.kgrab /\ t.kgrab # 0 /\ t.focus = f /\ SameClient(f, s.grab.root)

LEMMA OfferedLoose ==
  ASSUME NEW s, Loose(s), NEW f \in Roots
  PROVE  Offering(s, Offered(s, f), f)
<1>1. f \in Surfaces
  BY DEF Surfaces
<1>2. CASE s.kgrab = 0 \/ f = Current(s)
  <2> DEFINE t == Given(s, f)
  <2>1. Offered(s, f) = t
    BY <1>2 DEF Offered
  <2>2. Loose(t) /\ Steady(s, t) /\ GrabsSame(s, t) /\ t.kgrab = s.kgrab /\ t.focus = f
    BY <1>1, GivenLoose
  <2>3. s.kgrab # 0 => SameClient(f, s.grab.root)
    BY <1>2, CurrentFacts DEF Loose, KeysHeld
  <2> HIDE DEF t
  <2> QED BY <2>1, <2>2, <2>3 DEF Offering
<1>3. CASE ~(s.kgrab = 0 \/ f = Current(s)) /\ Ended(s)
  <2> DEFINE u == [s EXCEPT !.kgrab = 0]
             t == Given(u, f)
  <2>1. Offered(s, f) = t
    BY <1>3 DEF Offered
  <2>2. Loose(u) /\ Steady(s, u) /\ GrabsSame(s, u) /\ u.kgrab = 0
    BY ReleasedLoose
  <2> HIDE DEF u
  <2>3. Loose(t) /\ Steady(u, t) /\ GrabsSame(u, t) /\ t.kgrab = u.kgrab /\ t.focus = f
    BY <1>1, <2>2, GivenLoose
  <2> HIDE DEF t
  <2> QED BY <2>1, <2>2, <2>3 DEF Offering, Steady, GrabsSame
<1>4. CASE ~(s.kgrab = 0 \/ f = Current(s)) /\ ~Ended(s)
  <2>1. Offered(s, f) = s
    BY <1>4 DEF Offered
  <2> QED BY <1>4, <2>1 DEF Offering, Steady, GrabsSame
<1> QED BY <1>2, <1>3, <1>4

LEMMA DirectedLoose ==
  ASSUME NEW s, Loose(s), NEW f \in Roots \cup {Nobody}
  PROVE  Offering(s, Directed(s, f), f)
<1> DEFINE t == Offered(s, f)
<1>1. CASE s.focus = f
  <2>1. Directed(s, f) = s
    BY <1>1 DEF Directed
  <2> QED BY <1>1, <2>1 DEF Offering, Steady, GrabsSame
<1>2. CASE s.focus # f /\ f # Nobody
  <2>1. Offering(s, t, f)
    BY <1>2, OfferedLoose
  <2> HIDE DEF t
  <2>2. CASE t.focus # Nobody
    <3>1. Directed(s, f) = t
      BY <1>2, <2>2 DEF Directed, t
    <3> QED BY <2>1, <3>1
  <2>3. CASE t.focus = Nobody
    <3> DEFINE v == Reported(t, Nobody)
    <3>1. Directed(s, f) = v
      BY <1>2, <2>3 DEF Directed, t
    <3>2. t \in Seats /\ ChainUp(t) /\ KeysHeld(t) /\ BegunOnce(t) /\ t.moved <= t.serial
      BY <2>1 DEF Offering, Loose, PressesKept
    <3>3. Loose(v) /\ Steady(t, v) /\ GrabsSame(t, v) /\ v.kgrab = t.kgrab /\ v.focus = Nobody
      BY <2>3, <3>2, SilentLoose
    <3> HIDE DEF v
    <3> QED BY <2>1, <2>3, <3>1, <3>3 DEF Offering, Steady, GrabsSame
  <2> QED BY <2>2, <2>3
<1>3. CASE s.focus # f /\ f = Nobody
  <2>1. CASE s.kgrab = 0
    <3> DEFINE v == Reported(Given(s, Nobody), Nobody)
    <3>1. Loose(v) /\ Steady(s, v) /\ GrabsSame(s, v) /\ v.kgrab = s.kgrab /\ v.focus = Nobody
      BY <1>3, TakenLoose
    <3>2. t = Given(s, Nobody)
      BY <1>3, <2>1 DEF Offered
    <3>3. Given(s, Nobody).focus = Nobody
      BY <1>3, NobodyApart DEF Given, Loose, Seats, SameClient
    <3>4. Directed(s, f) = v
      BY <1>3, <3>2, <3>3 DEF Directed
    <3> HIDE DEF v
    <3> QED BY <1>3, <2>1, <3>1, <3>4 DEF Offering
  <2>2. CASE s.kgrab # 0
    <3>1. Current(s) # Nobody
      BY <2>2, CurrentFacts, NobodyApart DEF Loose, KeysHeld
    <3>2. CASE Ended(s)
      <4> DEFINE u == [s EXCEPT !.kgrab = 0]
                 v == Reported(Given(u, Nobody), Nobody)
      <4>1. Loose(u) /\ Steady(s, u) /\ GrabsSame(s, u) /\ u.kgrab = 0 /\ u.focus = s.focus
        BY ReleasedLoose
      <4>2. t = Given(u, Nobody)
        BY <1>3, <2>2, <3>1, <3>2 DEF Offered
      <4> HIDE DEF u
      <4>3. Loose(v) /\ Steady(u, v) /\ GrabsSame(u, v) /\ v.kgrab = u.kgrab /\ v.focus = Nobody
        BY <1>3, <4>1, TakenLoose
      <4>4. Given(u, Nobody).focus = Nobody
        BY <1>3, <4>1, NobodyApart DEF Given, Loose, Seats, SameClient
      <4>5. Directed(s, f) = v
        BY <1>3, <4>2, <4>4 DEF Directed
      <4> HIDE DEF v
      <4> QED BY <1>3, <4>1, <4>3, <4>5 DEF Offering, Steady, GrabsSame
    <3>3. CASE ~Ended(s)
      <4>1. t = s
        BY <1>3, <2>2, <3>1, <3>3 DEF Offered
      <4>2. Directed(s, f) = s
        BY <1>3, <4>1 DEF Directed
      <4> QED BY <2>2, <4>2 DEF Offering, Steady, GrabsSame
    <3> QED BY <3>2, <3>3
  <2> QED BY <2>1, <2>2
<1> QED BY <1>2, <1>3, <1>1

\* Nothing changes about who has the pointer, and whoever has the keyboard may.
LEMMA DirectedSound ==
  ASSUME NEW s, Sound(s), NEW f \in Roots \cup {Nobody}
  PROVE  LET t == Directed(s, f) IN
         /\ Sound(t) /\ Steady(s, t) /\ GrabsSame(s, t)
         /\ t.kgrab \in {s.kgrab, 0} /\ (t.kgrab = 0 => t.focus = f)
<1> DEFINE t == Directed(s, f)
<1>1. Offering(s, t, f)
  BY DirectedLoose DEF Sound
<1>2. f \notin Popups
  BY NobodyApart DEF Surfaces
<1> HIDE DEF t
<1>3. PointerHeld(t)
  BY <1>1 DEF Sound, Offering, PointerHeld, GrabsSame
<1>4. FocusHeld(t)
  BY <1>1, <1>2 DEF Sound, Offering, FocusHeld, GrabsSame
<1>5. t.kgrab \in {s.kgrab, 0} /\ (t.kgrab = 0 => t.focus = f)
  BY <1>1 DEF Offering
<1> QED BY <1>1, <1>3, <1>4, <1>5 DEF Sound, Offering, t

LEMMA ExclusiveFacts ==
  ASSUME NEW s
  PROVE  /\ Exclusive(s) = Nobody <=> s.roots \cap Panels = {}
         /\ Exclusive(s) # Nobody => Exclusive(s) \in s.roots \cap Panels
<1> DEFINE up == s.roots \cap Panels
<1>1. Nobody \notin up
  BY NobodyApart DEF Surfaces, Roots
<1>2. CASE up = {}
  BY <1>2 DEF Exclusive
<1>3. CASE up # {}
  <2>1. Exclusive(s) = CHOOSE x \in up : TRUE
    BY <1>3 DEF Exclusive
  <2>2. (CHOOSE x \in up : TRUE) \in up
    BY <1>3
  <2> QED BY <1>1, <1>3, <2>1, <2>2
<1> QED BY <1>2, <1>3

LEMMA ExclusiveSame ==
  ASSUME NEW s, NEW t, t.roots = s.roots
  PROVE  Exclusive(t) = Exclusive(s)
BY DEF Exclusive

LEMMA ClaimedFacts ==
  ASSUME NEW s \in Seats, NEW f \in Roots \cup {Nobody}
  PROVE  /\ Claimed(s, f) \in Roots \cup {Nobody}
         /\ s.locked => Claimed(s, f) = Nobody
         /\ ~s.locked /\ Exclusive(s) # Nobody => Claimed(s, f) = Exclusive(s)
BY ExclusiveFacts DEF Claimed, Roots

\* A pointer grab may always be dropped.
LEMMA UnpointedLoose ==
  ASSUME NEW s, Loose(s)
  PROVE  LET t == [s EXCEPT !.pgrab = NoPointerGrab] IN
         /\ Loose(t) /\ Steady(s, t) /\ t.chain = s.chain /\ t.dismissed = s.dismissed /\ t.grab = s.grab
         /\ t.pgrab.kind = "none" /\ t.kgrab = s.kgrab /\ t.focus = s.focus
<1> DEFINE t == [s EXCEPT !.pgrab = NoPointerGrab]
<1>1. NoPointerGrab \in PointerGrabs /\ NoPointerGrab.kind = "none"
  BY DEF NoPointerGrab, PointerGrabs, Anybody
<1>2. /\ t \in Seats /\ Steady(s, t) /\ t.chain = s.chain /\ t.dismissed = s.dismissed /\ t.grab = s.grab
      /\ t.pgrab = NoPointerGrab /\ t.kgrab = s.kgrab /\ t.focus = s.focus
      /\ t.known = s.known /\ t.moved = s.moved /\ t.presses = s.presses
  BY <1>1 DEF Loose, Seats, Steady
<1> HIDE DEF t
<1>3. ChainUp(t) /\ KeysHeld(t) /\ PressesKept(t)
  BY <1>2 DEF Loose, ChainUp, KeysHeld, PressesKept, Steady
<1>4. BegunOnce(t)
  BY <1>1, <1>2 DEF Loose, BegunOnce, Steady
<1> QED BY <1>1, <1>2, <1>3, <1>4 DEF Loose, t

LEMMA UnpointedSound ==
  ASSUME NEW s, Sound(s)
  PROVE  LET t == [s EXCEPT !.pgrab = NoPointerGrab] IN
         /\ Sound(t) /\ Steady(s, t) /\ t.chain = s.chain /\ t.dismissed = s.dismissed /\ t.grab = s.grab
         /\ t.kgrab = s.kgrab /\ t.focus = s.focus /\ t.pgrab.kind = "none"
<1> DEFINE t == [s EXCEPT !.pgrab = NoPointerGrab]
<1>1. /\ Loose(t) /\ Steady(s, t) /\ t.chain = s.chain /\ t.dismissed = s.dismissed /\ t.grab = s.grab
      /\ t.pgrab.kind = "none" /\ t.kgrab = s.kgrab /\ t.focus = s.focus
  BY UnpointedLoose DEF Sound
<1> HIDE DEF t
<1> QED BY <1>1 DEF Sound, PointerHeld, FocusHeld, t

\* The claims on the keyboard are met when focus and grabs are as they were.
LEMMA GuardedSame ==
  ASSUME NEW s, NEW t, Guarded(s), t.roots = s.roots, t.locked = s.locked, t.grab = s.grab,
         t.kgrab = s.kgrab, t.focus = s.focus
  PROVE  Guarded(t)
BY ExclusiveSame DEF Guarded, OnePanel

\* The popup pointer grab gives its keyboard grab up: the root gets the keyboard.
LEMMA KeyboardUnsetSound ==
  ASSUME NEW s, Sound(s)
  PROVE  LET t == KeyboardUnset(s) IN
         /\ Sound(t) /\ Steady(s, t) /\ GrabsSame(s, t) /\ t.kgrab = 0
         /\ Guarded(s) => Guarded(t)
<1> DEFINE t == KeyboardUnset(s)
<1>1. CASE s.kgrab = 0
  <2>1. t = s
    BY <1>1 DEF KeyboardUnset, Matching
  <2> QED BY <1>1, <2>1 DEF Steady, GrabsSame
<1>2. CASE s.kgrab # 0
  <2> DEFINE u == [s EXCEPT !.kgrab = 0]
             root == s.grab.root
  <2>1. s.grab # NoGrab /\ Matching(s.grab, s.kgrab) /\ root \in Surfaces /\ root \notin Popups
    BY <1>2, CurrentFacts, NobodyApart DEF Sound, Loose, KeysHeld, Surfaces
  <2>2. t = Given(u, root)
    BY <2>1 DEF KeyboardUnset
  <2>3. Loose(u) /\ Steady(s, u) /\ GrabsSame(s, u) /\ u.kgrab = 0
    BY ReleasedLoose DEF Sound
  <2> HIDE DEF u, root, t
  <2>4. Loose(t) /\ Steady(u, t) /\ GrabsSame(u, t) /\ t.kgrab = u.kgrab /\ t.focus = root
    BY <2>1, <2>2, <2>3, GivenLoose
  <2>5. Steady(s, t) /\ GrabsSame(s, t) /\ t.kgrab = 0
    BY <2>3, <2>4 DEF Steady, GrabsSame
  <2>6. PointerHeld(t) /\ FocusHeld(t)
    BY <2>1, <2>4, <2>5 DEF Sound, PointerHeld, FocusHeld, GrabsSame
  <2>7. Guarded(s) => Guarded(t)
    <3>1. Exclusive(t) = Exclusive(s)
      BY <2>5, ExclusiveSame DEF Steady
    <3> QED BY <2>1, <2>4, <2>5, <3>1 DEF Guarded, OnePanel, Steady, GrabsSame, root
  <2> QED BY <2>4, <2>5, <2>6, <2>7 DEF Sound, t
<1> QED BY <1>1, <1>2

\* What refresh_popup_grab does: nothing without a grab, the keyboard goes to
\* the top of a chain that is up, and the grab of one that is over is dropped.
Refreshing(s, t) ==
    \/ s.grab = NoGrab /\ t = s
    \/ /\ s.grab # NoGrab /\ s.chain # <<>> /\ GrabsSame(s, t) /\ t.kgrab = s.kgrab
       /\ t.focus = IF s.kgrab # 0 THEN Current(s) ELSE s.focus
    \/ /\ s.grab # NoGrab /\ s.chain = <<>>
       /\ t.chain = s.chain /\ t.dismissed = s.dismissed
       /\ t.grab = NoGrab /\ t.kgrab = 0
       /\ t.focus = IF s.kgrab # 0
                    THEN Claimed(s, IF s.grab.root \in s.roots THEN s.grab.root ELSE Nobody) ELSE s.focus

LEMMA RefreshedActive ==
  ASSUME NEW s, Sound(s), s.grab # NoGrab, s.chain # <<>>
  PROVE  LET t == Refreshed(s) IN Sound(t) /\ Steady(s, t) /\ Refreshing(s, t)
<1> DEFINE t == Refreshed(s)
           f == Current(s)
<1>1. Active(s)
  BY DEF Active
<1>2. f \in Surfaces /\ SameClient(f, s.grab.root)
  BY CurrentFacts DEF Sound, Loose
<1>3. CASE s.kgrab # 0 /\ s.focus # f
  <2>1. Matching(s.grab, s.kgrab)
    BY <1>3 DEF Sound, Loose, KeysHeld
  <2>2. t = Offered(s, f)
    BY <1>1, <1>3, <2>1 DEF Refreshed
  <2>3. Offered(s, f) = Given(s, f)
    BY DEF Offered
  <2> HIDE DEF t, f
  <2>4. Loose(t) /\ Steady(s, t) /\ GrabsSame(s, t) /\ t.kgrab = s.kgrab /\ t.focus = f
    BY <1>2, <2>2, <2>3, GivenLoose DEF Sound
  <2>5. PointerHeld(t) /\ FocusHeld(t)
    BY <1>2, <1>3, <2>4 DEF Sound, PointerHeld, FocusHeld, GrabsSame
  <2> QED BY <1>3, <2>4, <2>5 DEF Sound, Refreshing, t, f
<1>4. CASE ~(s.kgrab # 0 /\ s.focus # f)
  <2>1. t = s
    BY <1>1, <1>4 DEF Refreshed, Matching
  <2> QED BY <1>4, <2>1 DEF Refreshing, Steady, GrabsSame
<1> QED BY <1>3, <1>4

LEMMA RefreshedOver ==
  ASSUME NEW s, Sound(s), s.grab # NoGrab, s.chain = <<>>
  PROVE  LET t == Refreshed(s) IN Sound(t) /\ Steady(s, t) /\ Refreshing(s, t)
<1> DEFINE t == Refreshed(s)
           g == s.grab
           c == Claimed(s, IF g.root \in s.roots THEN g.root ELSE Nobody)
           taken == [s EXCEPT !.grab = NoGrab, !.origin = 0]
           u == [taken EXCEPT !.kgrab = 0]
           back == IF ~Matching(g, s.kgrab) THEN taken ELSE Directed(u, c)
<1>1. ~Active(s) /\ (s.kgrab # 0 <=> Matching(g, s.kgrab))
  BY DEF Active, Sound, Loose, KeysHeld, Matching
<1>2. t = IF s.pgrab.kind = "popup" /\ Matching(g, s.pgrab.serial)
          THEN [back EXCEPT !.pgrab = NoPointerGrab] ELSE back
  BY <1>1 DEF Refreshed
<1>3. c \in Roots \cup {Nobody} /\ c \notin Popups
  BY ClaimedFacts, NobodyApart DEF Sound, Loose, Seats, Surfaces
<1>4. NoGrab \in Grabs
  BY DEF NoGrab, Grabs, Anybody
<1>5. /\ u \in Seats /\ Steady(s, u) /\ u.chain = s.chain /\ u.dismissed = s.dismissed /\ u.grab = NoGrab
      /\ u.pgrab = s.pgrab /\ u.kgrab = 0 /\ u.focus = s.focus
      /\ u.known = s.known /\ u.moved = s.moved /\ u.presses = s.presses
  BY <1>4 DEF Sound, Loose, Seats, Steady
<1>6. s.kgrab = 0 => taken = u
  BY DEF Sound, Loose, Seats
<1> HIDE DEF c, t, u, taken
<1>7. Loose(u)
  <2>1. IsInjective(<<>>) /\ Len(<<>>) = 0
    BY EmptyFacts
  <2>2. ChainUp(u) /\ KeysHeld(u)
    BY <1>5, <2>1 DEF ChainUp, KeysHeld
  <2>3. PressesKept(u) /\ BegunOnce(u)
    BY <1>5 DEF Sound, Loose, PressesKept, BegunOnce, Steady
  <2> QED BY <1>5, <2>2, <2>3 DEF Loose
<1>8. /\ Loose(back) /\ Steady(s, back) /\ GrabsSame(u, back) /\ back.kgrab = 0
      /\ back.focus = IF s.kgrab # 0 THEN c ELSE s.focus
  <2>1. CASE s.kgrab = 0
    <3>1. back = u
      BY <1>1, <1>6, <2>1
    <3> QED BY <1>5, <1>7, <2>1, <3>1 DEF GrabsSame
  <2>2. CASE s.kgrab # 0
    <3>1. back = Directed(u, c)
      BY <1>1, <2>2
    <3>2. Offering(u, back, c)
      BY <1>3, <1>7, <3>1, DirectedLoose
    <3> HIDE DEF back
    <3> QED BY <1>5, <2>2, <3>2 DEF Offering, Steady
  <2> QED BY <2>1, <2>2
<1> HIDE DEF back
<1>9. /\ Loose(t) /\ Steady(s, t) /\ t.chain = s.chain /\ t.dismissed = s.dismissed /\ t.grab = NoGrab
      /\ t.pgrab.kind # "popup" /\ t.kgrab = 0 /\ t.focus = back.focus
  <2>1. CASE s.pgrab.kind = "popup"
    <3>1. t = [back EXCEPT !.pgrab = NoPointerGrab]
      BY <1>2, <2>1 DEF Sound, PointerHeld
    <3>2. /\ Loose(t) /\ Steady(back, t) /\ t.chain = back.chain /\ t.dismissed = back.dismissed
          /\ t.grab = back.grab /\ t.pgrab.kind = "none" /\ t.kgrab = back.kgrab /\ t.focus = back.focus
      BY <1>8, <3>1, UnpointedLoose
    <3> QED BY <1>5, <1>8, <3>2 DEF Steady, GrabsSame
  <2>2. CASE s.pgrab.kind # "popup"
    <3>1. t = back
      BY <1>2, <2>2
    <3> QED BY <1>5, <1>8, <2>2, <3>1 DEF GrabsSame
  <2> QED BY <2>1, <2>2
<1>10. PointerHeld(t) /\ FocusHeld(t)
  BY <1>3, <1>8, <1>9 DEF Sound, PointerHeld, FocusHeld
<1> QED BY <1>8, <1>9, <1>10 DEF Sound, Refreshing, t, c

LEMMA RefreshedSound ==
  ASSUME NEW s, Sound(s)
  PROVE  LET t == Refreshed(s) IN
         /\ Sound(t) /\ Steady(s, t) /\ Refreshing(s, t)
         /\ Guarded(s) => Guarded(t)
<1> DEFINE t == Refreshed(s)
<1>1. Sound(t) /\ Steady(s, t) /\ Refreshing(s, t)
  <2>1. CASE s.grab = NoGrab
    <3>1. t = s
      BY <2>1 DEF Refreshed
    <3> QED BY <2>1, <3>1 DEF Refreshing, Steady
  <2> QED BY <2>1, RefreshedActive, RefreshedOver
<1> HIDE DEF t
<1>2. ASSUME Guarded(s) PROVE Guarded(t)
  <2>1. Exclusive(t) = Exclusive(s)
    BY <1>1, ExclusiveSame DEF Steady
  <2>2. OnePanel(t)
    BY <1>1, <1>2 DEF Guarded, OnePanel, Steady
  <2>3. CASE s.grab = NoGrab
    BY <1>1, <1>2, <2>3 DEF Refreshing
  <2>4. CASE s.grab # NoGrab /\ s.chain # <<>>
    BY <1>1, <1>2, <2>1, <2>2, <2>4 DEF Refreshing, Guarded, Steady, GrabsSame
  <2>5. CASE s.grab # NoGrab /\ s.chain = <<>>
    <3> DEFINE f == IF s.grab.root \in s.roots THEN s.grab.root ELSE Nobody
    <3>1. f \in Roots \cup {Nobody} /\ s \in Seats
      BY DEF Sound, Loose, Seats
    <3>2. ~s.locked /\ Exclusive(s) # Nobody => Claimed(s, f) = Exclusive(s)
      BY <3>1, ClaimedFacts
    <3>3. t.grab = NoGrab /\ t.kgrab = 0 /\ t.focus = IF s.kgrab # 0 THEN Claimed(s, f) ELSE s.focus
      BY <1>1, <2>5 DEF Refreshing
    <3> HIDE DEF f
    <3> QED BY <1>1, <1>2, <2>1, <2>2, <2>5, <3>2, <3>3 DEF Guarded, Steady
  <2> QED BY <2>3, <2>4, <2>5
<1> QED BY <1>1, <1>2 DEF t

\* What has no part in the invariant may change, presses may be forgotten, and
\* a pointer grab that is not a popup's may end.
LEMMA CarriedSound ==
  ASSUME NEW s, Sound(s), NEW t \in Seats,
         t.chain = s.chain, t.parent = s.parent, t.grab = s.grab, t.kgrab = s.kgrab,
         t.focus = s.focus, t.known \in {s.known, Nobody}, t.moved = s.moved,
         t.serial >= s.serial, t.begun = s.begun, Range(t.presses) \subseteq Range(s.presses),
         \/ t.pgrab.kind = s.pgrab.kind /\ t.pgrab.serial = s.pgrab.serial
         \/ t.pgrab.kind \in {"none", "move"}
  PROVE  /\ Sound(t)
         /\ Guarded(s) /\ t.roots = s.roots /\ t.locked = s.locked => Guarded(t)
<1>1. s.serial \in Nat /\ t.serial \in Nat /\ s.moved \in Nat
  BY SeatTypes DEF Sound, Loose
<1>2. ChainUp(t) /\ KeysHeld(t)
  BY DEF Sound, Loose, ChainUp, KeysHeld
<1>3. PressesKept(t)
  BY <1>1 DEF Sound, Loose, PressesKept
<1>4. BegunOnce(t)
  BY <1>1 DEF Sound, Loose, BegunOnce
<1>5. PointerHeld(t) /\ FocusHeld(t)
  BY DEF Sound, PointerHeld, FocusHeld
<1> QED BY <1>2, <1>3, <1>4, <1>5, GuardedSame DEF Sound, Loose

LEMMA UngrabbedSound ==
  ASSUME NEW s, Sound(s)
  PROVE  LET t == Ungrabbed(s) IN
         /\ Sound(t) /\ Steady(s, t) /\ t.chain = <<>> /\ t.grab = s.grab /\ t.pgrab = s.pgrab
         /\ Guarded(s) => Guarded(t)
<1> DEFINE t == Ungrabbed(s)
<1>1. <<>> \in Seq(Popups) /\ IsInjective(<<>>) /\ Len(<<>>) = 0
  BY EmptyFacts
<1>2. Range(s.chain) \subseteq Popups
  BY SeatTypes DEF Sound, Loose, Range
<1>3. /\ t \in Seats /\ Steady(s, t) /\ t.chain = <<>> /\ t.grab = s.grab /\ t.pgrab = s.pgrab
      /\ t.kgrab = s.kgrab /\ t.focus = s.focus /\ t.known = s.known /\ t.moved = s.moved
      /\ t.presses = s.presses
  BY <1>1, <1>2 DEF Sound, Loose, Seats, Steady, Ungrabbed
<1> HIDE DEF t
<1>4. ChainUp(t)
  BY <1>1, <1>3 DEF Sound, Loose, ChainUp
<1>5. KeysHeld(t) /\ PressesKept(t) /\ BegunOnce(t)
  BY <1>3 DEF Sound, Loose, KeysHeld, PressesKept, BegunOnce, Steady
<1>6. PointerHeld(t) /\ FocusHeld(t)
  BY <1>3 DEF Sound, PointerHeld, FocusHeld
<1>7. Guarded(s) => Guarded(t)
  BY <1>3, GuardedSame DEF Steady
<1> QED BY <1>3, <1>4, <1>5, <1>6, <1>7 DEF Sound, Loose, t

LEMMA DismissedSound ==
  ASSUME NEW s, Sound(s)
  PROVE  LET t == Dismissed(s) IN
         /\ Sound(t) /\ Steady(s, t) /\ t.grab = NoGrab /\ t.kgrab = 0
         /\ Guarded(s) => Guarded(t)
<1> DEFINE t == Dismissed(s)
<1>1. CASE s.grab = NoGrab
  <2>1. t = s
    BY <1>1 DEF Dismissed
  <2> QED BY <1>1, <2>1 DEF Steady, Sound, Loose, KeysHeld
<1>2. CASE s.grab # NoGrab
  <2> DEFINE u == Ungrabbed(s)
  <2>1. t = Refreshed(u)
    BY <1>2 DEF Dismissed
  <2>2. Sound(u) /\ Steady(s, u) /\ u.chain = <<>> /\ u.grab = s.grab /\ (Guarded(s) => Guarded(u))
    BY UngrabbedSound
  <2> HIDE DEF u
  <2>3. Sound(t) /\ Steady(u, t) /\ Refreshing(u, t) /\ (Guarded(u) => Guarded(t))
    BY <2>1, <2>2, RefreshedSound
  <2> HIDE DEF t
  <2>4. t.grab = NoGrab /\ t.kgrab = 0
    BY <1>2, <2>2, <2>3 DEF Refreshing
  <2> QED BY <2>2, <2>3, <2>4 DEF Steady, t
<1> QED BY <1>1, <1>2

\* set_keyboard_focus meets the claims on the keyboard, also those that are new.
LEMMA FocusedSound ==
  ASSUME NEW s, Sound(s), NEW f \in Roots \cup {Nobody}, OnePanel(s), s.locked => s.grab = NoGrab
  PROVE  LET t == Focused(s, f) IN Sound(t) /\ Steady(s, t) /\ Guarded(t)
<1> DEFINE t == Focused(s, f)
           foreign == ~s.locked /\ Exclusive(s) # Nobody /\ s.grab # NoGrab /\ s.grab.root # Exclusive(s)
           r == IF foreign THEN Dismissed(s) ELSE s
           c == Claimed(s, f)
<1>1. t = Directed(r, c)
  BY DEF Focused
<1>2. /\ c \in Roots \cup {Nobody} /\ (s.locked => c = Nobody)
      /\ ~s.locked /\ Exclusive(s) # Nobody => c = Exclusive(s)
  BY ClaimedFacts DEF Sound, Loose
<1>3. Sound(r) /\ Steady(s, r) /\ r.grab = IF foreign THEN NoGrab ELSE s.grab
  BY DismissedSound DEF Steady
<1> HIDE DEF r, c, t
<1>4. /\ Sound(t) /\ Steady(r, t) /\ GrabsSame(r, t)
      /\ t.kgrab \in {r.kgrab, 0} /\ (t.kgrab = 0 => t.focus = c)
  BY <1>1, <1>2, <1>3, DirectedSound
<1>5. Steady(s, t) /\ t.grab = IF foreign THEN NoGrab ELSE s.grab
  BY <1>3, <1>4 DEF Steady, GrabsSame
<1>6. Exclusive(t) = Exclusive(s)
  BY <1>5, ExclusiveSame DEF Steady
<1>7. t.grab = NoGrab => t.kgrab = 0
  BY <1>4 DEF Sound, Loose, KeysHeld
<1>8. Guarded(t)
  BY <1>2, <1>4, <1>5, <1>6, <1>7 DEF Guarded, OnePanel, Steady
<1> QED BY <1>4, <1>5, <1>8 DEF t

-----------------------------------------------------------------------------
(* Presses.                                                                *)

\* The next press is of a serial that has opened nothing.
Fresh(s) == \A n \in 1..MaxSerial : s.begun[n] # 0 => n < s.serial

LEMMA KeptPresses ==
  ASSUME NEW q \in Seq(Presses), NEW S
  PROVE  Retained(q, S) \in Seq(Presses) /\ Range(Retained(q, S)) \subseteq Range(q)
<1> DEFINE T == Presses
<1>1. q \in Seq(T)
  OBVIOUS
<1> HIDE DEF T
<1>2. Retained(q, S) \in Seq(T) /\ Range(Retained(q, S)) = Range(q) \cap S
  BY <1>1, RetainedFacts
<1> QED BY <1>2 DEF T

LEMMA CountedSound ==
  ASSUME NEW s, Sound(s)
  PROVE  LET t == Counted(s) IN
         /\ Sound(t) /\ Fresh(t) /\ t.moved < t.serial /\ (Guarded(s) => Guarded(t))
         /\ t.serial = s.serial + 1 /\ t.roots = s.roots /\ t.locked = s.locked /\ t.touch = s.touch
<1> DEFINE n == s.serial + 1
           t == [s EXCEPT !.serial = n]
<1>0. Counted(s) = t
  BY DEF Counted
<1>1. s.serial \in Nat /\ s.moved \in Nat /\ s.moved <= s.serial /\ n \in Nat
  BY SeatTypes DEF Sound, Loose, PressesKept
<1> HIDE DEF n
<1>2. /\ t \in Seats /\ t.serial = n /\ t.roots = s.roots /\ t.locked = s.locked
      /\ t.chain = s.chain /\ t.parent = s.parent /\ t.grab = s.grab /\ t.kgrab = s.kgrab
      /\ t.focus = s.focus /\ t.known = s.known /\ t.moved = s.moved /\ t.begun = s.begun
      /\ t.presses = s.presses /\ t.pgrab = s.pgrab /\ t.touch = s.touch
  BY <1>1 DEF Sound, Loose, Seats
<1> HIDE DEF t
<1>3. Sound(t) /\ (Guarded(s) => Guarded(t))
  BY <1>1, <1>2, CarriedSound DEF n
<1>4. Fresh(t)
  BY <1>1, <1>2 DEF Sound, Loose, BegunOnce, Fresh, n
<1> QED BY <1>0, <1>1, <1>2, <1>3, <1>4 DEF t, n

LEMMA RevokedSound ==
  ASSUME NEW s, Sound(s), NEW kind
  PROVE  LET t == Revoked(s, kind) IN
         /\ Sound(t) /\ Steady(s, t) /\ GrabsSame(s, t) /\ t.kgrab = s.kgrab /\ t.focus = s.focus
         /\ Guarded(s) => Guarded(t)
<1> DEFINE q == Retained(s.presses, {p \in Range(s.presses) : p.kind # kind})
           t == Revoked(s, kind)
<1>1. q \in Seq(Presses) /\ Range(q) \subseteq Range(s.presses)
  BY KeptPresses, SeatTypes DEF Sound, Loose
<1>2. t = [s EXCEPT !.presses = q]
  BY DEF Revoked
<1> HIDE DEF q, t
<1>3. /\ t \in Seats /\ Steady(s, t) /\ GrabsSame(s, t) /\ t.kgrab = s.kgrab /\ t.focus = s.focus
      /\ t.known = s.known /\ t.moved = s.moved /\ t.presses = q
  BY <1>1, <1>2 DEF Sound, Loose, Seats, Steady, GrabsSame
<1>4. s.serial \in Nat
  BY SeatTypes DEF Sound, Loose
<1>5. Sound(t) /\ (Guarded(s) => Guarded(t))
  BY <1>1, <1>3, <1>4, CarriedSound DEF Steady, GrabsSame
<1> QED BY <1>3, <1>5 DEF t

LEMMA TouchCancelledSound ==
  ASSUME NEW s, Sound(s)
  PROVE  LET t == TouchCancelled(s) IN
         /\ Sound(t) /\ GrabsSame(s, t) /\ t.kgrab = s.kgrab /\ t.focus = s.focus
         /\ t.roots = s.roots /\ t.locked = s.locked /\ t.parent = s.parent
         /\ t.serial = s.serial /\ t.begun = s.begun /\ t.moved = s.moved /\ t.at = s.at
         /\ t.known = s.known /\ Range(t.presses) \subseteq Range(s.presses)
         /\ Guarded(s) => Guarded(t)
<1> DEFINE q == Retained(s.presses, {p \in Range(s.presses) : p.kind # "touch"})
           t == TouchCancelled(s)
<1>1. q \in Seq(Presses) /\ Range(q) \subseteq Range(s.presses)
  BY KeptPresses, SeatTypes DEF Sound, Loose
<1>2. t = [[s EXCEPT !.presses = q] EXCEPT !.touch = NoTouch]
  BY DEF TouchCancelled, Revoked
<1> HIDE DEF q, t
<1>3. /\ t \in Seats /\ GrabsSame(s, t) /\ t.kgrab = s.kgrab /\ t.focus = s.focus
      /\ t.roots = s.roots /\ t.locked = s.locked /\ t.parent = s.parent /\ t.at = s.at
      /\ t.serial = s.serial /\ t.begun = s.begun
      /\ t.known = s.known /\ t.moved = s.moved /\ t.presses = q
  BY <1>1, <1>2 DEF Sound, Loose, Seats, GrabsSame
<1>4. s.serial \in Nat
  BY SeatTypes DEF Sound, Loose
<1>5. Sound(t) /\ (Guarded(s) => Guarded(t))
  BY <1>1, <1>3, <1>4, CarriedSound DEF GrabsSame
<1> QED BY <1>1, <1>3, <1>5 DEF t

\* A press is remembered: no grab was granted for it, and the keyboard has not
\* changed its client since.
LEMMA RecordedSound ==
  ASSUME NEW s, Sound(s), Guarded(s), Fresh(s), NEW kind \in {"keyboard", "pointer", "touch"},
         NEW f \in Anybody, kind = "keyboard" => s.moved < s.serial
  PROVE  Sound(Recorded(s, kind, f)) /\ Guarded(Recorded(s, kind, f))
<1> DEFINE kept == Retained(s.presses, {p \in Range(s.presses) : p.client = Client[f]})
           room == IF Len(kept) >= MaxInputs THEN Tail(kept) ELSE kept
           press == [kind |-> kind, serial |-> s.serial, client |-> Client[f]]
           q == Append(room, press)
           t == [s EXCEPT !.presses = q]
<1>1. CASE s.locked \/ f = Nobody
  BY <1>1 DEF Recorded
<1>2. CASE ~(s.locked \/ f = Nobody)
  <2>1. Recorded(s, kind, f) = t
    BY <1>2 DEF Recorded
  <2>2. s.serial \in Nat /\ s.moved \in Nat /\ s.presses \in Seq(Presses)
    BY SeatTypes DEF Sound, Loose
  <2>3. press \in Presses /\ press.serial = s.serial /\ press.kind = kind
    <3>1. Client[f] \in Range(Client)
      BY <1>2, NobodyApart DEF Anybody, Range
    <3> QED BY <2>2, <3>1 DEF Presses
  <2>4. kept \in Seq(Presses) /\ Range(kept) \subseteq Range(s.presses)
    BY <2>2, KeptPresses
  <2> DEFINE T == Presses
  <2> HIDE DEF kept, press, T
  <2>5. room \in Seq(T) /\ Range(room) \subseteq Range(s.presses)
    <3>1. kept \in Seq(T)
      BY <2>4 DEF T
    <3>2. CASE Len(kept) >= MaxInputs
      <4>1. kept # <<>>
        BY <3>2, <3>1, GrabsAssumption
      <4> QED BY <2>4, <3>1, <3>2, <4>1, TailFacts
    <3>3. CASE ~(Len(kept) >= MaxInputs)
      BY <2>4, <3>1, <3>3
    <3> QED BY <3>2, <3>3
  <2> HIDE DEF room
  <2>6. q \in Seq(T) /\ Range(q) \subseteq Range(s.presses) \cup {press}
    <3>1. press \in T
      BY <2>3 DEF T
    <3>2. q \in Seq(T) /\ Range(q) = Range(room) \cup {press}
      BY <2>5, <3>1, AppendFacts
    <3> QED BY <2>5, <3>2
  <2> HIDE DEF q
  <2>7. /\ t \in Seats /\ Steady(s, t) /\ GrabsSame(s, t) /\ t.kgrab = s.kgrab /\ t.focus = s.focus
        /\ t.known = s.known /\ t.moved = s.moved /\ t.presses = q
    BY <2>6 DEF Sound, Loose, Seats, Steady, GrabsSame, T
  <2> HIDE DEF t
  <2>8. ChainUp(t) /\ KeysHeld(t)
    BY <2>7 DEF Sound, Loose, ChainUp, KeysHeld, Steady, GrabsSame
  <2>9. PressesKept(t)
    BY <2>2, <2>3, <2>6, <2>7 DEF Sound, Loose, PressesKept, Steady
  <2>10. BegunOnce(t)
    BY <2>2, <2>3, <2>6, <2>7 DEF Sound, Loose, BegunOnce, Fresh, Steady, GrabsSame
  <2>11. PointerHeld(t) /\ FocusHeld(t)
    BY <2>7 DEF Sound, PointerHeld, FocusHeld, GrabsSame
  <2>12. Guarded(t)
    BY <2>7, GuardedSame DEF Steady, GrabsSame
  <2> QED BY <2>1, <2>7, <2>8, <2>9, <2>10, <2>11, <2>12 DEF Sound, Loose
<1> QED BY <1>1, <1>2

\* The inductive invariant of PopupGrabs.
GrabsInv == Sound(seat) /\ Guarded(seat)

LEMMA GrabsInitial == GrabsInit => GrabsInv
<1> SUFFICES ASSUME GrabsInit PROVE GrabsInv
  OBVIOUS
<1>1. MaxSerial \in Nat /\ Windows \cap Panels = {}
  BY GrabsAssumption
<1>2. NoPointerGrab \in PointerGrabs /\ NoGrab \in Grabs /\ <<>> \in Seq(Popups) /\ <<>> \in Seq(Presses)
  BY DEF NoPointerGrab, PointerGrabs, NoGrab, Grabs, Anybody
<1>3. seat \in Seats
  BY <1>2 DEF GrabsInit, Seats, Anybody, Roots
<1>4. /\ seat.roots = Windows /\ seat.chain = <<>> /\ seat.focus = Nobody /\ seat.kgrab = 0
      /\ seat.pgrab = NoPointerGrab /\ seat.grab = NoGrab /\ seat.presses = <<>> /\ seat.known = Nobody
      /\ seat.serial = 0 /\ seat.moved = 0 /\ seat.begun = [n \in 1..MaxSerial |-> 0]
  BY DEF GrabsInit
<1>5. Range(<<>>) = {} /\ IsInjective(<<>>) /\ Len(<<>>) = 0
  BY EmptyFacts
<1>6. ChainUp(seat) /\ KeysHeld(seat)
  BY <1>4, <1>5 DEF ChainUp, KeysHeld
<1>7. PressesKept(seat) /\ BegunOnce(seat)
  BY <1>4, <1>5 DEF PressesKept, BegunOnce
<1>8. PointerHeld(seat) /\ FocusHeld(seat)
  BY <1>4, NobodyApart DEF PointerHeld, FocusHeld, NoPointerGrab, Surfaces
<1>9. Exclusive(seat) = Nobody
  BY <1>1, <1>4, ExclusiveFacts
<1>10. Guarded(seat)
  BY <1>1, <1>4, <1>9 DEF Guarded, OnePanel
<1> QED BY <1>3, <1>6, <1>7, <1>8, <1>10 DEF GrabsInv, Sound, Loose

LEMMA PointerFocusFacts ==
  ASSUME NEW s \in Seats
  PROVE  PointerFocus(s) \in Anybody
<1>1. s.at \in Anybody /\ s.pgrab \in PointerGrabs /\ Nobody \in Anybody
  BY SeatTypes DEF Anybody, Surfaces
<1>2. s.pgrab.kind \in {"none", "click", "popup", "move"} /\ s.pgrab.focus \in Anybody
  BY <1>1 DEF PointerGrabs
<1> QED BY <1>1, <1>2 DEF PointerFocus

\* A grabbed key reaches the chain: its top has the keyboard already, or is of
\* the same client as the popup that had it.
LEMMA KeyStep == GrabsInv /\ Key => GrabsInv'
<1> SUFFICES ASSUME GrabsInv, Key PROVE GrabsInv'
  OBVIOUS
<1> DEFINE s == Counted(seat)
           f == Current(s)
           t == IF s.kgrab = 0 THEN s ELSE [Given(s, f) EXCEPT !.kgrab = IF Ended(s) THEN 0 ELSE @]
<1>1. seat' = Recorded(t, "keyboard", t.focus)
  BY DEF Key
<1>2. Sound(s) /\ Guarded(s) /\ Fresh(s) /\ s.moved < s.serial
  BY CountedSound DEF GrabsInv
<1> HIDE DEF s
<1>3. Sound(t) /\ Guarded(t) /\ Fresh(t) /\ t.moved < t.serial
  <2>1. CASE s.kgrab = 0
    BY <1>2, <2>1
  <2>2. CASE s.kgrab # 0
    <3> DEFINE v == Given(s, f)
    <3>1. /\ s \in Seats /\ s.grab # NoGrab /\ f \in Surfaces /\ SameClient(f, s.grab.root)
          /\ s.chain = <<>> => f = s.grab.root
      BY <1>2, <2>2, CurrentFacts DEF Sound, Loose, KeysHeld
    <3>2. SameClient(s.focus, f)
      BY <1>2, <2>2, <3>1 DEF Sound, FocusHeld, SameClient
    <3>3. Loose(v) /\ Steady(s, v) /\ GrabsSame(s, v) /\ v.kgrab = s.kgrab /\ v.focus = f
      BY <1>2, <3>1, GivenLoose DEF Sound
    <3>4. v.moved = s.moved
      <4>1. CASE s.focus = f
        BY <4>1 DEF Given
      <4>2. CASE s.focus # f
        BY <3>1, <3>2, <4>2, GivenFields
      <4> QED BY <4>1, <4>2
    <3>5. Fresh(v) /\ v.moved < v.serial
      BY <1>2, <3>3, <3>4 DEF Fresh, Steady
    <3>6. PointerHeld(v)
      BY <1>2, <3>3 DEF Sound, PointerHeld, GrabsSame
    <3>7. Exclusive(v) = Exclusive(s)
      BY <3>3, ExclusiveSame DEF Steady
    <3> HIDE DEF f
    <3>8. CASE Ended(s)
      <4> DEFINE u == [v EXCEPT !.kgrab = 0]
      <4>1. t = u
        BY <2>2, <3>8
      <4>2. Loose(u) /\ Steady(v, u) /\ GrabsSame(v, u) /\ u.kgrab = 0 /\ u.focus = v.focus /\ u.moved = v.moved
        BY <3>3, ReleasedLoose
      <4>3. f = s.grab.root /\ f \notin Popups
        BY <3>1, <3>8, <1>2, NobodyApart DEF Ended, Sound, Loose, ChainUp, Surfaces
      <4> HIDE DEF v, u, t
      <4>4. PointerHeld(u) /\ FocusHeld(u)
        BY <3>3, <3>6, <4>2, <4>3 DEF PointerHeld, FocusHeld, GrabsSame
      <4>5. Exclusive(u) = Exclusive(s)
        BY <3>7, <4>2, ExclusiveSame DEF Steady
      <4>6. Guarded(u)
        BY <1>2, <3>1, <3>3, <4>2, <4>3, <4>5 DEF Guarded, OnePanel, Steady, GrabsSame
      <4> QED BY <3>5, <4>1, <4>2, <4>4, <4>6 DEF Sound, Fresh, Steady
    <3>9. CASE ~Ended(s)
      <4>1. t = v
        BY <2>2, <3>9, <3>3 DEF Loose, Seats
      <4> HIDE DEF v, t
      <4>2. FocusHeld(v)
        BY <2>2, <3>1, <3>3 DEF FocusHeld, GrabsSame
      <4>3. Guarded(v)
        BY <1>2, <2>2, <3>1, <3>3, <3>7 DEF Guarded, OnePanel, Steady, GrabsSame
      <4> QED BY <3>3, <3>5, <3>6, <4>1, <4>2, <4>3 DEF Sound
    <3> QED BY <3>8, <3>9
  <2> QED BY <2>1, <2>2
<1> HIDE DEF t
<1>4. t.focus \in Anybody
  BY <1>3, SeatTypes DEF Sound, Loose
<1> QED BY <1>1, <1>3, <1>4, RecordedSound DEF GrabsInv

\* What a button press outside a chain, or after it, makes of the grabs.
LEMMA PointerUnsetSound ==
  ASSUME NEW s, Sound(s), Guarded(s)
  PROVE  LET t == KeyboardUnset([s EXCEPT !.pgrab = NoPointerGrab]) IN
         Sound(t) /\ Guarded(t) /\ Steady(s, t)
<1> DEFINE u == [s EXCEPT !.pgrab = NoPointerGrab]
           t == KeyboardUnset(u)
<1>1. Sound(u) /\ Steady(s, u) /\ u.grab = s.grab /\ u.kgrab = s.kgrab /\ u.focus = s.focus
  BY UnpointedSound
<1> HIDE DEF u
<1>2. Guarded(u)
  BY <1>1, GuardedSame DEF Steady
<1>3. Sound(t) /\ Steady(u, t) /\ (Guarded(u) => Guarded(t))
  BY <1>1, KeyboardUnsetSound
<1> HIDE DEF t
<1>4. Steady(s, t)
  BY <1>1, <1>3 DEF Steady
<1> QED BY <1>2, <1>3, <1>4 DEF t, u

LEMMA ButtonStep == GrabsInv /\ Button => GrabsInv'
<1> SUFFICES ASSUME GrabsInv, Button PROVE GrabsInv'
  OBVIOUS
<1> DEFINE s == Counted(seat)
           over == PointerFocus(s)
           c == Focused(s, RootOf(s, s.at))
           click == [kind |-> "click", serial |-> s.serial, focus |-> s.at]
           clicked == [c EXCEPT !.pgrab = click]
           outside == KeyboardUnset([Ungrabbed(s) EXCEPT !.pgrab = NoPointerGrab])
           after == KeyboardUnset([s EXCEPT !.pgrab = NoPointerGrab])
<1>1. \/ seat' = Recorded(clicked, "pointer", over)
      \/ seat' = Recorded(s, "pointer", over)
      \/ seat' = s
      \/ seat' = outside
      \/ seat' = Recorded(after, "pointer", over)
  BY DEF Button
<1>2. Sound(s) /\ Guarded(s) /\ Fresh(s)
  BY CountedSound DEF GrabsInv
<1> HIDE DEF s
<1>3. over \in Anybody
  BY <1>2, PointerFocusFacts DEF Sound, Loose
<1>4. s.at \in Roots \cup {Nobody} /\ s.serial \in Nat
  BY <1>2, SeatTypes DEF Sound, Loose
<1>5. RootOf(s, s.at) = s.at
  BY <1>4, RootItself, NobodyApart DEF Surfaces
<1>6. Sound(clicked) /\ Guarded(clicked) /\ Fresh(clicked)
  <2>1. Sound(c) /\ Steady(s, c) /\ Guarded(c)
    BY <1>2, <1>4, <1>5, FocusedSound DEF Guarded
  <2>2. click \in PointerGrabs /\ click.kind = "click" /\ click.serial = s.serial
    BY <1>4 DEF PointerGrabs, Anybody, Surfaces
  <2> HIDE DEF c, click
  <2>3. /\ clicked \in Seats /\ Steady(c, clicked) /\ clicked.chain = c.chain /\ clicked.grab = c.grab
        /\ clicked.kgrab = c.kgrab /\ clicked.focus = c.focus /\ clicked.known = c.known
        /\ clicked.moved = c.moved /\ clicked.presses = c.presses /\ clicked.pgrab = click
    BY <2>1, <2>2 DEF Sound, Loose, Seats, Steady
  <2> HIDE DEF clicked
  <2>4. Fresh(clicked)
    BY <1>2, <2>1, <2>3 DEF Fresh, Steady
  <2>5. ChainUp(clicked) /\ KeysHeld(clicked) /\ PressesKept(clicked)
    BY <2>1, <2>3 DEF Sound, Loose, ChainUp, KeysHeld, PressesKept, Steady
  <2>6. BegunOnce(clicked)
    <3>1. click.serial = clicked.serial
      BY <2>1, <2>2, <2>3 DEF Steady
    <3>2. \A n \in 1..MaxSerial : clicked.begun[n] # 0 => n # click.serial
      BY <2>4, <3>1, <1>4, <2>2 DEF Fresh
    <3> QED BY <2>1, <2>3, <3>2 DEF Sound, Loose, BegunOnce, Steady
  <2>7. PointerHeld(clicked) /\ FocusHeld(clicked)
    BY <2>1, <2>2, <2>3 DEF Sound, PointerHeld, FocusHeld
  <2>8. Guarded(clicked)
    BY <2>1, <2>3, GuardedSame DEF Steady
  <2> QED BY <2>3, <2>4, <2>5, <2>6, <2>7, <2>8 DEF Sound, Loose
<1>7. Sound(outside) /\ Guarded(outside)
  <2>1. Sound(Ungrabbed(s)) /\ Guarded(Ungrabbed(s))
    BY <1>2, UngrabbedSound
  <2> QED BY <2>1, PointerUnsetSound
<1>8. Sound(after) /\ Guarded(after) /\ Fresh(after)
  BY <1>2, PointerUnsetSound DEF Fresh, Steady
<1> HIDE DEF clicked, outside, after, over
<1>9. CASE seat' = Recorded(clicked, "pointer", over)
  BY <1>3, <1>6, <1>9, RecordedSound DEF GrabsInv
<1>10. CASE seat' = Recorded(s, "pointer", over)
  BY <1>2, <1>3, <1>10, RecordedSound DEF GrabsInv
<1>11. CASE seat' = Recorded(after, "pointer", over)
  BY <1>3, <1>8, <1>11, RecordedSound DEF GrabsInv
<1>12. CASE seat' = s
  BY <1>2, <1>12 DEF GrabsInv
<1>13. CASE seat' = outside
  BY <1>7, <1>13 DEF GrabsInv
<1> QED BY <1>1, <1>9, <1>10, <1>11, <1>12, <1>13

LEMMA PointingSound ==
  ASSUME NEW s, Sound(s), Guarded(s), NEW x \in Roots \cup {Nobody}
  PROVE  Sound([s EXCEPT !.at = x]) /\ Guarded([s EXCEPT !.at = x])
<1> DEFINE t == [s EXCEPT !.at = x]
<1>1. /\ t \in Seats /\ t.serial = s.serial /\ t.roots = s.roots /\ t.locked = s.locked
      /\ t.chain = s.chain /\ t.parent = s.parent /\ t.grab = s.grab /\ t.kgrab = s.kgrab
      /\ t.focus = s.focus /\ t.known = s.known /\ t.moved = s.moved /\ t.begun = s.begun
      /\ t.presses = s.presses /\ t.pgrab = s.pgrab /\ s.serial \in Nat
  BY SeatTypes DEF Sound, Loose, Seats
<1> HIDE DEF t
<1>2. s.serial >= s.serial
  BY <1>1
<1>3. Sound(t) /\ Guarded(t)
  BY <1>1, <1>2, CarriedSound
<1> QED BY <1>3 DEF t

LEMMA TouchingSound ==
  ASSUME NEW s, Sound(s), Guarded(s), NEW x \in Anybody \cup {NoTouch}
  PROVE  /\ Sound([s EXCEPT !.touch = x]) /\ Guarded([s EXCEPT !.touch = x])
         /\ Fresh(s) => Fresh([s EXCEPT !.touch = x])
<1> DEFINE t == [s EXCEPT !.touch = x]
<1>1. /\ t \in Seats /\ t.serial = s.serial /\ t.roots = s.roots /\ t.locked = s.locked
      /\ t.chain = s.chain /\ t.parent = s.parent /\ t.grab = s.grab /\ t.kgrab = s.kgrab
      /\ t.focus = s.focus /\ t.known = s.known /\ t.moved = s.moved /\ t.begun = s.begun
      /\ t.presses = s.presses /\ t.pgrab = s.pgrab /\ s.serial \in Nat
  BY SeatTypes DEF Sound, Loose, Seats
<1> HIDE DEF t
<1>2. s.serial >= s.serial
  BY <1>1
<1>3. Sound(t) /\ Guarded(t)
  BY <1>1, <1>2, CarriedSound
<1> QED BY <1>1, <1>3 DEF t, Fresh

LEMMA PointerMovesStep ==
  ASSUME GrabsInv, NEW x \in seat.roots \cup {Nobody}, PointerMoves(x)
  PROVE  GrabsInv'
<1> DEFINE u == KeyboardUnset([seat EXCEPT !.pgrab = NoPointerGrab])
<1>1. x \in Roots \cup {Nobody}
  BY SeatTypes DEF GrabsInv, Sound, Loose
<1>2. Sound(u) /\ Guarded(u)
  BY PointerUnsetSound DEF GrabsInv
<1>3. seat' = [u EXCEPT !.at = x] \/ seat' = [seat EXCEPT !.at = x]
  BY DEF PointerMoves
<1> HIDE DEF u
<1> QED BY <1>1, <1>2, <1>3, PointingSound DEF GrabsInv

LEMMA TouchDownStep ==
  ASSUME GrabsInv, NEW x \in seat.roots, TouchDown(x)
  PROVE  GrabsInv'
<1> DEFINE b == IF seat.touch = Nobody THEN TouchCancelled(seat) ELSE seat
           s == Counted(b)
           r == Refreshed(s)
           asked == IF r.grab # NoGrab /\ ~SameClient(x, Current(r)) THEN Dismissed(r) ELSE r
           c == Focused(asked, RootOf(asked, x))
           down == [c EXCEPT !.touch = x]
<1>1. seat' = IF s.touch = NoTouch THEN Recorded(down, "touch", x) ELSE Recorded(s, "touch", s.touch)
  BY DEF TouchDown
<1>2. Sound(b) /\ Guarded(b)
  BY TouchCancelledSound DEF GrabsInv
<1>3. x \in Roots /\ x \in Anybody /\ x \notin Popups
  BY SeatTypes, NobodyApart DEF GrabsInv, Sound, Loose, Anybody, Surfaces
<1> HIDE DEF b
<1>4. Sound(s) /\ Guarded(s) /\ Fresh(s)
  BY <1>2, CountedSound
<1> HIDE DEF s
<1>5. Sound(r) /\ Guarded(r) /\ Steady(s, r)
  BY <1>4, RefreshedSound
<1> HIDE DEF r
<1>6. Sound(asked) /\ Guarded(asked) /\ Steady(s, asked)
  BY <1>5, DismissedSound DEF Steady
<1> HIDE DEF asked
<1>7. RootOf(asked, x) = x
  BY <1>3, RootItself
<1>8. Sound(c) /\ Guarded(c) /\ Steady(asked, c)
  BY <1>3, <1>6, <1>7, FocusedSound DEF Guarded
<1> HIDE DEF c
<1>9. Fresh(c)
  BY <1>4, <1>6, <1>8 DEF Fresh, Steady
<1>10. Sound(down) /\ Guarded(down) /\ Fresh(down)
  BY <1>3, <1>8, <1>9, TouchingSound
<1> HIDE DEF down
<1>11. s.touch # NoTouch => s.touch \in Anybody
  BY <1>4, SeatTypes DEF Sound, Loose
<1>12. CASE s.touch = NoTouch
  BY <1>1, <1>3, <1>10, <1>12, RecordedSound DEF GrabsInv
<1>13. CASE s.touch # NoTouch
  BY <1>1, <1>4, <1>11, <1>13, RecordedSound DEF GrabsInv
<1> QED BY <1>12, <1>13

LEMMA ButtonsUpStep == GrabsInv /\ ButtonsUp => GrabsInv'
<1> SUFFICES ASSUME GrabsInv, ButtonsUp PROVE GrabsInv'
  OBVIOUS
<1> DEFINE t == [seat EXCEPT !.pgrab = NoPointerGrab]
<1>1. seat' = t
  BY DEF ButtonsUp
<1>2. /\ Sound(t) /\ Steady(seat, t) /\ t.grab = seat.grab
      /\ t.kgrab = seat.kgrab /\ t.focus = seat.focus
  BY UnpointedSound DEF GrabsInv
<1> HIDE DEF t
<1>3. Guarded(t)
  BY <1>2, GuardedSame DEF GrabsInv, Steady
<1> QED BY <1>1, <1>2, <1>3 DEF GrabsInv

LEMMA TouchUpStep == GrabsInv /\ TouchUp => GrabsInv'
BY TouchingSound DEF GrabsInv, TouchUp

LEMMA ForgottenSound ==
  ASSUME NEW s, Sound(s), Guarded(s), NEW q \in Seq(Presses), Range(q) \subseteq Range(s.presses)
  PROVE  LET t == [s EXCEPT !.presses = q] IN
         Sound(t) /\ Guarded(t) /\ Steady(s, t) /\ GrabsSame(s, t)
<1> DEFINE t == [s EXCEPT !.presses = q]
<1>1. /\ t \in Seats /\ Steady(s, t) /\ GrabsSame(s, t) /\ t.kgrab = s.kgrab /\ t.focus = s.focus
      /\ t.known = s.known /\ t.moved = s.moved /\ t.presses = q
  BY DEF Sound, Loose, Seats, Steady, GrabsSame
<1>2. s.serial \in Nat
  BY SeatTypes DEF Sound, Loose
<1> HIDE DEF t
<1>3. Sound(t) /\ Guarded(t)
  BY <1>1, <1>2, CarriedSound DEF Steady, GrabsSame
<1> QED BY <1>1, <1>3 DEF t

LEMMA ElapseStep == GrabsInv /\ Elapse => GrabsInv'
<1> SUFFICES ASSUME GrabsInv, Elapse PROVE GrabsInv'
  OBVIOUS
<1> DEFINE q == seat.presses
           r == Tail(q)
           T == Presses
<1>1. q \in Seq(T) /\ q # <<>>
  BY SeatTypes DEF GrabsInv, Sound, Loose, Elapse
<1>2. seat' = [seat EXCEPT !.presses = r]
  BY DEF Elapse
<1> HIDE DEF T
<1>3. r \in Seq(T) /\ Range(r) \subseteq Range(q)
  <2> HIDE DEF q
  <2> QED BY <1>1, TailFacts
<1> HIDE DEF r
<1> QED BY <1>2, <1>3, ForgottenSound DEF GrabsInv, T

\* What the end of an iteration of the event loop leaves.
LEMMA SettledSound ==
  ASSUME NEW s, Sound(s), Guarded(s)
  PROVE  \E u : Settled(s) = Refreshed(u) /\ Sound(u) /\ Guarded(u)
<1> DEFINE left == {p \in s.dismissed : s.parent[p] # Nobody}
           u == [s EXCEPT !.dismissed = left]
<1>1. Settled(s) = Refreshed(u)
  BY DEF Settled
<1>2. left \in SUBSET Popups
  BY SeatTypes DEF Sound, Loose
<1> HIDE DEF left
<1>3. /\ u \in Seats /\ u.serial = s.serial /\ u.roots = s.roots /\ u.locked = s.locked
      /\ u.chain = s.chain /\ u.parent = s.parent /\ u.grab = s.grab /\ u.kgrab = s.kgrab
      /\ u.focus = s.focus /\ u.known = s.known /\ u.moved = s.moved /\ u.begun = s.begun
      /\ u.presses = s.presses /\ u.pgrab = s.pgrab /\ s.serial \in Nat
  BY <1>2, SeatTypes DEF Sound, Loose, Seats
<1> HIDE DEF u
<1>4. s.serial >= s.serial
  BY <1>3
<1>5. Sound(u) /\ Guarded(u)
  BY <1>3, <1>4, CarriedSound
<1> QED BY <1>1, <1>5

LEMMA RefreshStep == GrabsInv /\ Refresh => GrabsInv'
<1> SUFFICES ASSUME GrabsInv, Refresh PROVE GrabsInv'
  OBVIOUS
<1>1. PICK u : Settled(seat) = Refreshed(u) /\ Sound(u) /\ Guarded(u)
  BY SettledSound DEF GrabsInv
<1> QED BY <1>1, RefreshedSound DEF GrabsInv, Refresh

LEMMA LockedSound ==
  ASSUME NEW s, Sound(s), NEW b \in BOOLEAN
  PROVE  LET t == [s EXCEPT !.locked = b] IN
         Sound(t) /\ t.roots = s.roots /\ t.locked = b /\ t.grab = s.grab
<1> DEFINE t == [s EXCEPT !.locked = b]
<1>1. /\ t \in Seats /\ t.serial = s.serial /\ t.roots = s.roots /\ t.locked = b
      /\ t.chain = s.chain /\ t.parent = s.parent /\ t.grab = s.grab /\ t.kgrab = s.kgrab
      /\ t.focus = s.focus /\ t.known = s.known /\ t.moved = s.moved /\ t.begun = s.begun
      /\ t.presses = s.presses /\ t.pgrab = s.pgrab /\ s.serial \in Nat
  BY SeatTypes DEF Sound, Loose, Seats
<1> HIDE DEF t
<1>2. s.serial >= s.serial
  BY <1>1
<1>3. Sound(t)
  BY <1>1, <1>2, CarriedSound
<1> QED BY <1>1, <1>3 DEF t

\* Everything that was going on with the seat is over.
LEMMA CancelledSound ==
  ASSUME NEW s, Sound(s)
  PROVE  LET t == Cancelled(s) IN
         Sound(t) /\ t.grab = NoGrab /\ t.roots = s.roots /\ t.locked = s.locked
<1> DEFINE clear == [s EXCEPT !.presses = <<>>, !.origin = 0, !.known = Nobody]
           free == Dismissed(clear)
           still == IF free.pgrab.kind = "popup" THEN KeyboardUnset(free) ELSE free
           away == [[still EXCEPT !.pgrab = NoPointerGrab] EXCEPT !.at = Nobody]
           calm == TouchCancelled(away)
           t == [calm EXCEPT !.kgrab = 0]
<1>1. Cancelled(s) = [TouchCancelled([still EXCEPT !.pgrab = NoPointerGrab, !.at = Nobody]) EXCEPT !.kgrab = 0]
  BY DEF Cancelled
<1>2. [still EXCEPT !.pgrab = NoPointerGrab, !.at = Nobody] = away
  OBVIOUS
<1>3. Cancelled(s) = t
  BY <1>1, <1>2, Zenon
<1>4. /\ clear \in Seats /\ clear.serial = s.serial /\ clear.roots = s.roots /\ clear.locked = s.locked
      /\ clear.chain = s.chain /\ clear.parent = s.parent /\ clear.grab = s.grab /\ clear.kgrab = s.kgrab
      /\ clear.focus = s.focus /\ clear.known = Nobody /\ clear.moved = s.moved /\ clear.begun = s.begun
      /\ clear.presses = <<>> /\ clear.pgrab = s.pgrab /\ s.serial \in Nat
  <2>1. <<>> \in Seq(Presses)
    OBVIOUS
  <2> QED BY <2>1, SeatTypes DEF Sound, Loose, Seats, Anybody
<1> HIDE DEF clear
<1>5. Sound(clear)
  <2>1. Range(clear.presses) \subseteq Range(s.presses) /\ s.serial >= s.serial
    BY <1>4, EmptyFacts
  <2> QED BY <1>4, <2>1, CarriedSound
<1>6. Sound(free) /\ Steady(clear, free) /\ free.grab = NoGrab /\ free.kgrab = 0
  BY <1>5, DismissedSound
<1> HIDE DEF free
<1>7. /\ Sound(still) /\ still.roots = s.roots /\ still.locked = s.locked /\ still.grab = NoGrab
      /\ still.kgrab = 0
  BY <1>4, <1>6, KeyboardUnsetSound DEF Steady, GrabsSame
<1> HIDE DEF still
<1>8. /\ Sound(away) /\ away.roots = s.roots /\ away.locked = s.locked /\ away.grab = NoGrab
      /\ away.kgrab = 0
  <2> DEFINE u == [still EXCEPT !.pgrab = NoPointerGrab]
  <2>1. Sound(u) /\ u.roots = s.roots /\ u.locked = s.locked /\ u.grab = NoGrab /\ u.kgrab = 0
    BY <1>7, UnpointedSound DEF Steady
  <2> HIDE DEF u
  <2> DEFINE a == [u EXCEPT !.at = Nobody]
  <2>2. /\ a \in Seats /\ a.serial = u.serial /\ a.roots = u.roots /\ a.locked = u.locked
        /\ a.chain = u.chain /\ a.parent = u.parent /\ a.grab = u.grab /\ a.kgrab = u.kgrab
        /\ a.focus = u.focus /\ a.known = u.known /\ a.moved = u.moved /\ a.begun = u.begun
        /\ a.presses = u.presses /\ a.pgrab = u.pgrab /\ u.serial \in Nat
    BY <2>1, SeatTypes DEF Sound, Loose, Seats
  <2> HIDE DEF a
  <2>3. u.serial >= u.serial
    BY <2>2
  <2>4. Sound(a)
    BY <2>1, <2>2, <2>3, CarriedSound
  <2> QED BY <2>1, <2>2, <2>4 DEF a, u
<1> HIDE DEF away
<1>9. Sound(calm) /\ calm.roots = s.roots /\ calm.locked = s.locked /\ calm.grab = NoGrab /\ calm.kgrab = 0
  BY <1>8, TouchCancelledSound DEF GrabsSame
<1> HIDE DEF calm
<1>10. t = calm
  BY <1>9 DEF Sound, Loose, Seats
<1> QED BY <1>3, <1>9, <1>10

LEMMA LockStep == GrabsInv /\ Lock => GrabsInv'
<1> SUFFICES ASSUME GrabsInv, Lock PROVE GrabsInv'
  OBVIOUS
<1> DEFINE s == [seat EXCEPT !.locked = TRUE]
           u == Cancelled(s)
<1>1. seat' = Focused(u, Nobody)
  BY DEF Lock
<1>2. PICK b \in BOOLEAN : b = TRUE
  OBVIOUS
<1>3. Sound(s) /\ s.roots = seat.roots
  <2>1. s = [seat EXCEPT !.locked = b]
    BY <1>2
  <2> HIDE DEF s
  <2> QED BY <2>1, LockedSound DEF GrabsInv
<1> HIDE DEF s
<1>4. Sound(u) /\ u.grab = NoGrab /\ u.roots = seat.roots
  BY <1>3, CancelledSound
<1> HIDE DEF u
<1>5. OnePanel(u)
  BY <1>4 DEF GrabsInv, Guarded, OnePanel
<1> QED BY <1>1, <1>4, <1>5, FocusedSound DEF GrabsInv

LEMMA UnlockStep == GrabsInv /\ Unlock => GrabsInv'
<1> SUFFICES ASSUME GrabsInv, Unlock PROVE GrabsInv'
  OBVIOUS
<1> DEFINE s == Cancelled(seat)
           u == [s EXCEPT !.locked = FALSE]
<1>1. seat' = Focused(u, Nobody)
  BY DEF Unlock
<1>2. Sound(s) /\ s.grab = NoGrab /\ s.roots = seat.roots
  BY CancelledSound DEF GrabsInv
<1> HIDE DEF s
<1>3. PICK b \in BOOLEAN : b = FALSE
  OBVIOUS
<1>4. Sound(u) /\ u.grab = NoGrab /\ u.roots = seat.roots
  <2>1. u = [s EXCEPT !.locked = b]
    BY <1>3
  <2> HIDE DEF u
  <2> QED BY <1>2, <2>1, LockedSound
<1> HIDE DEF u
<1>5. OnePanel(u)
  BY <1>4 DEF GrabsInv, Guarded, OnePanel
<1> QED BY <1>1, <1>4, <1>5, FocusedSound DEF GrabsInv

LEMMA BeginMoveStep ==
  ASSUME GrabsInv, NEW w \in Windows, BeginMove(w)
  PROVE  GrabsInv'
<1> DEFINE s == Focused(seat, w)
           u == IF s.pgrab.kind = "popup" THEN KeyboardUnset(s) ELSE s
           move == [kind |-> "move", serial |-> u.pgrab.serial, focus |-> Nobody]
           t == [u EXCEPT !.pgrab = move]
<1>1. seat' = t
  BY DEF BeginMove
<1>2. Sound(s) /\ Guarded(s)
  <2>1. w \in Roots \cup {Nobody}
    BY DEF Roots
  <2> QED BY <2>1, FocusedSound DEF GrabsInv, Guarded
<1> HIDE DEF s
<1>3. Sound(u) /\ Guarded(u)
  BY <1>2, KeyboardUnsetSound
<1> HIDE DEF u
<1>4. move \in PointerGrabs /\ move.kind = "move"
  <2>1. u.pgrab.serial \in Nat
    BY <1>3, SeatTypes DEF Sound, Loose, PointerGrabs
  <2> QED BY <2>1 DEF PointerGrabs, Anybody
<1> HIDE DEF move
<1>5. /\ t \in Seats /\ t.serial = u.serial /\ t.roots = u.roots /\ t.locked = u.locked
      /\ t.chain = u.chain /\ t.parent = u.parent /\ t.grab = u.grab /\ t.kgrab = u.kgrab
      /\ t.focus = u.focus /\ t.known = u.known /\ t.moved = u.moved /\ t.begun = u.begun
      /\ t.presses = u.presses /\ t.pgrab = move /\ u.serial \in Nat
  BY <1>3, <1>4, SeatTypes DEF Sound, Loose, Seats
<1> HIDE DEF t
<1>6. u.serial >= u.serial
  BY <1>5
<1>7. Sound(t) /\ Guarded(t)
  BY <1>3, <1>4, <1>5, <1>6, CarriedSound
<1> QED BY <1>1, <1>7 DEF GrabsInv

\* Which roots there are matters to the claims on the keyboard only.
LEMMA RootsSound ==
  ASSUME NEW s, Sound(s), NEW roots \in SUBSET Roots
  PROVE  LET t == [s EXCEPT !.roots = roots] IN
         /\ Sound(t) /\ t.roots = roots /\ t.locked = s.locked /\ t.grab = s.grab
         /\ t.kgrab = s.kgrab /\ t.focus = s.focus
<1> DEFINE t == [s EXCEPT !.roots = roots]
<1>1. /\ t \in Seats /\ t.serial = s.serial /\ t.roots = roots /\ t.locked = s.locked
      /\ t.chain = s.chain /\ t.parent = s.parent /\ t.grab = s.grab /\ t.kgrab = s.kgrab
      /\ t.focus = s.focus /\ t.known = s.known /\ t.moved = s.moved /\ t.begun = s.begun
      /\ t.presses = s.presses /\ t.pgrab = s.pgrab /\ s.serial \in Nat
  BY SeatTypes DEF Sound, Loose, Seats
<1> HIDE DEF t
<1>2. s.serial >= s.serial
  BY <1>1
<1>3. Sound(t)
  BY <1>1, <1>2, CarriedSound
<1> QED BY <1>1, <1>3 DEF t

LEMMA MapPanelStep ==
  ASSUME GrabsInv, NEW x \in Panels, MapPanel(x)
  PROVE  GrabsInv'
<1> DEFINE roots == seat.roots \cup {x}
           s == [seat EXCEPT !.roots = roots]
<1>1. seat' = IF s.locked THEN s ELSE Focused(s, x)
  BY DEF MapPanel
<1>2. x \in Roots \cup {Nobody} /\ roots \in SUBSET Roots /\ seat.roots \cap Panels = {}
  BY SeatTypes DEF GrabsInv, Sound, Loose, Roots, MapPanel
<1> HIDE DEF roots
<1>3. /\ Sound(s) /\ s.roots = roots /\ s.locked = seat.locked /\ s.grab = seat.grab
      /\ s.kgrab = seat.kgrab /\ s.focus = seat.focus
  BY <1>2, RootsSound DEF GrabsInv
<1> HIDE DEF s
<1>4. OnePanel(s)
  BY <1>2, <1>3 DEF OnePanel, roots
<1>5. s.locked => s.grab = NoGrab /\ s.focus = Nobody
  BY <1>3 DEF GrabsInv, Guarded
<1>6. CASE s.locked
  BY <1>1, <1>3, <1>4, <1>5, <1>6 DEF GrabsInv, Guarded
<1>7. CASE ~s.locked
  BY <1>1, <1>2, <1>3, <1>4, <1>7, FocusedSound DEF GrabsInv
<1> QED BY <1>6, <1>7

\* No panel is up: nothing has a claim on the keyboard.
LEMMA UnclaimedGuarded ==
  ASSUME NEW s, s.roots \cap Panels = {}, s.locked => s.grab = NoGrab /\ s.focus = Nobody
  PROVE  Guarded(s)
BY ExclusiveFacts DEF Guarded, OnePanel

LEMMA UnmapPanelStep ==
  ASSUME GrabsInv, NEW x \in Panels, NEW w \in Windows \cup {Nobody}, UnmapPanel(x, w)
  PROVE  GrabsInv'
<1> DEFINE roots == seat.roots \ {x}
           s == [seat EXCEPT !.roots = roots]
           ended == IF s.grab.root = x THEN Dismissed(s) ELSE s
           refocused == IF x = RootOf(seat, seat.focus) \/ ended.focus \in {x, Nobody}
                        THEN Focused(ended, w) ELSE ended
           owner == IF seat.pgrab.kind = "click" THEN seat.pgrab.focus ELSE Nobody
           calm == IF seat.touch = x THEN TouchCancelled(refocused) ELSE refocused
           grab == IF owner = x THEN NoPointerGrab ELSE calm.pgrab
           at == IF calm.at = x THEN Nobody ELSE calm.at
           t == [calm EXCEPT !.pgrab = grab, !.at = at]
<1>1. seat' = t
  BY DEF UnmapPanel
<1>2. w \in Roots \cup {Nobody} /\ roots \in SUBSET Roots /\ roots \cap Panels = {}
  BY SeatTypes DEF GrabsInv, Sound, Loose, Guarded, OnePanel, Roots, UnmapPanel
<1> HIDE DEF roots, owner
<1>3. Sound(s) /\ s.roots = roots /\ Guarded(s)
  <2>1. /\ Sound(s) /\ s.roots = roots /\ s.locked = seat.locked /\ s.grab = seat.grab
        /\ s.kgrab = seat.kgrab /\ s.focus = seat.focus
    BY <1>2, RootsSound DEF GrabsInv
  <2> HIDE DEF s
  <2> QED BY <1>2, <2>1, UnclaimedGuarded DEF GrabsInv, Guarded
<1> HIDE DEF s
<1>4. Sound(ended) /\ ended.roots = roots /\ Guarded(ended)
  BY <1>3, DismissedSound DEF Steady
<1> HIDE DEF ended
<1>5. Sound(refocused) /\ refocused.roots = roots /\ Guarded(refocused)
  BY <1>2, <1>4, FocusedSound DEF Steady, Guarded
<1> HIDE DEF refocused
<1>6. Sound(calm) /\ Guarded(calm)
  BY <1>5, TouchCancelledSound
<1> HIDE DEF calm
<1> DEFINE u == IF owner = x THEN [calm EXCEPT !.pgrab = NoPointerGrab] ELSE calm
<1>7. Sound(u) /\ Guarded(u)
  <2> DEFINE v == [calm EXCEPT !.pgrab = NoPointerGrab]
  <2>1. /\ Sound(v) /\ Steady(calm, v) /\ v.grab = calm.grab /\ v.kgrab = calm.kgrab /\ v.focus = calm.focus
    BY <1>6, UnpointedSound
  <2> HIDE DEF v
  <2>2. Guarded(v)
    BY <1>6, <2>1, GuardedSame DEF Steady
  <2> QED BY <1>6, <2>1, <2>2 DEF v
<1>8. t = [u EXCEPT !.at = at]
  BY <1>6 DEF Sound, Loose, Seats
<1>9. at \in Roots \cup {Nobody}
  BY <1>6, SeatTypes DEF Sound, Loose
<1> HIDE DEF u, at
<1>10. Sound([u EXCEPT !.at = at]) /\ Guarded([u EXCEPT !.at = at])
  BY <1>7, <1>9, PointingSound
<1> QED BY <1>1, <1>8, <1>10 DEF GrabsInv

-----------------------------------------------------------------------------
(* Surfaces that go away. *)

\* When the front of the chain stays and nothing behind it does, what is left
\* is sound.
LEMMA WithoutSound ==
  ASSUME NEW s, Sound(s), NEW gone, NEW m \in 0..Len(s.chain),
         \A i \in 1..Len(s.chain) : s.chain[i] \notin gone <=> i <= m
  PROVE  LET t == Without(s, gone) IN
         /\ Sound(t) /\ (Guarded(s) => Guarded(t))
         /\ t.roots = s.roots \ gone /\ t.locked = s.locked /\ t.grab = s.grab
         /\ t.parent = [p \in Popups |-> IF p \in gone THEN Nobody ELSE s.parent[p]]
<1> DEFINE q == s.chain
           r == Retained(q, Popups \ gone)
           Alive(x) == IF x \in gone THEN Nobody ELSE x
           parent == [p \in Popups |-> IF p \in gone THEN Nobody ELSE s.parent[p]]
           focus == IF s.pgrab.kind = "click" THEN Alive(s.pgrab.focus) ELSE s.pgrab.focus
           grab == [s.pgrab EXCEPT !.focus = focus]
           at == Alive(s.at)
           touch == Alive(s.touch)
           roots == s.roots \ gone
           t == [s EXCEPT !.roots = roots, !.parent = parent, !.chain = r, !.at = at, !.touch = touch,
                          !.pgrab = grab]
<1>1. Without(s, gone) = t
  BY DEF Without
<1>2. q \in Seq(Popups) /\ IsInjective(q)
  BY SeatTypes DEF Sound, Loose, ChainUp
<1>3. /\ r \in Seq(Popups) /\ IsInjective(r) /\ Len(r) = m
      /\ \A i \in 1..m : r[i] = q[i]
  <2>1. \A i \in 1..Len(q) : q[i] \in Popups \ gone <=> i <= m
    BY <1>2
  <2>2. m \in 0..Len(q)
    OBVIOUS
  <2> HIDE DEF q
  <2> QED BY <1>2, <2>1, <2>2, RetainedFront, RetainedFacts
<1> HIDE DEF r
<1>4. /\ parent \in [Popups -> Anybody] /\ at \in Roots \cup {Nobody} /\ touch \in Anybody \cup {NoTouch}
      /\ roots \in SUBSET Roots
  BY SeatTypes DEF Sound, Loose, Anybody
<1>5. grab \in PointerGrabs /\ grab.kind = s.pgrab.kind /\ grab.serial = s.pgrab.serial
  <2>1. s.pgrab \in PointerGrabs
    BY SeatTypes DEF Sound, Loose
  <2>2. focus \in Anybody
    BY <2>1 DEF PointerGrabs, Anybody
  <2> HIDE DEF focus
  <2> QED BY <2>1, <2>2 DEF PointerGrabs
<1> HIDE DEF grab, at, touch, roots
<1>6. /\ t \in Seats /\ t.serial = s.serial /\ t.roots = roots /\ t.locked = s.locked
      /\ t.chain = r /\ t.parent = parent /\ t.grab = s.grab /\ t.kgrab = s.kgrab
      /\ t.focus = s.focus /\ t.known = s.known /\ t.moved = s.moved /\ t.begun = s.begun
      /\ t.presses = s.presses /\ t.pgrab = grab
  <2> HIDE DEF parent
  <2> QED BY <1>3, <1>4, <1>5 DEF Sound, Loose, Seats
<1> HIDE DEF t
<1>7. ChainUp(t)
  <2>1. s.chain # <<>> => s.grab # NoGrab
    BY DEF Sound, Loose, ChainUp
  <2>2. r # <<>> => q # <<>>
    BY <1>2, <1>3
  <2>3. s.grab # NoGrab => s.grab.root \in Roots
    BY DEF Sound, Loose, ChainUp
  <2>4. ASSUME NEW i \in 1..Len(r)
        PROVE  SameClient(r[i], s.grab.root) /\ parent[r[i]] = IF i = 1 THEN s.grab.root ELSE r[i - 1]
    <3>1. i \in 1..m /\ i \in 1..Len(q) /\ r[i] = q[i] /\ (i # 1 => i - 1 \in 1..m)
      BY <1>2, <1>3
    <3>2. q[i] \in Popups /\ q[i] \notin gone
      BY <1>2, <3>1
    <3>3. SameClient(q[i], s.grab.root) /\ s.parent[q[i]] = IF i = 1 THEN s.grab.root ELSE q[i - 1]
      BY <3>1 DEF Sound, Loose, ChainUp
    <3>4. parent[q[i]] = s.parent[q[i]]
      BY <3>2
    <3>5. i # 1 => r[i - 1] = q[i - 1]
      BY <1>3, <3>1
    <3> HIDE DEF q, parent
    <3> QED BY <3>1, <3>3, <3>4, <3>5
  <2> HIDE DEF q, parent
  <2> QED BY <1>3, <1>6, <2>1, <2>2, <2>3, <2>4 DEF ChainUp, q
<1>8. KeysHeld(t) /\ PressesKept(t)
  BY <1>6 DEF Sound, Loose, KeysHeld, PressesKept
<1>9. BegunOnce(t) /\ PointerHeld(t) /\ FocusHeld(t)
  BY <1>5, <1>6 DEF Sound, Loose, BegunOnce, PointerHeld, FocusHeld
<1>10. Guarded(s) => Guarded(t)
  <2> SUFFICES ASSUME Guarded(s) PROVE Guarded(t)
    OBVIOUS
  <2>1. t.roots \cap Panels \subseteq s.roots \cap Panels
    BY <1>6 DEF roots
  <2>2. Exclusive(t) # Nobody => Exclusive(t) = Exclusive(s) /\ Exclusive(s) # Nobody
    <3>1. Exclusive(t) # Nobody => Exclusive(t) \in t.roots \cap Panels
      BY ExclusiveFacts
    <3>2. /\ Exclusive(s) = Nobody <=> s.roots \cap Panels = {}
          /\ Exclusive(s) # Nobody => Exclusive(s) \in s.roots \cap Panels
      BY ExclusiveFacts
    <3> QED BY <2>1, <3>1, <3>2 DEF Guarded, OnePanel
  <2> QED BY <1>6, <2>1, <2>2 DEF Guarded, OnePanel
<1> QED BY <1>1, <1>6, <1>7, <1>8, <1>9, <1>10 DEF Sound, Loose, roots

LEMMA ChainMembers ==
  ASSUME NEW s, Sound(s), NEW i \in 1..Len(s.chain)
  PROVE  /\ s.chain[i] \in Popups /\ s.parent[s.chain[i]] # Nobody
         /\ Client[s.chain[i]] = Client[s.grab.root]
<1>1. s.chain \in Seq(Popups) /\ s.chain # <<>>
  BY SeatTypes DEF Sound, Loose
<1>2. SameClient(s.chain[i], s.grab.root) /\ s.parent[s.chain[i]] = IF i = 1 THEN s.grab.root ELSE s.chain[i - 1]
  BY DEF Sound, Loose, ChainUp
<1>3. s.grab.root \in Surfaces
  BY <1>1 DEF Sound, Loose, ChainUp, Surfaces
<1>4. i # 1 => s.chain[i - 1] \in Popups
  BY <1>1
<1> QED BY <1>1, <1>2, <1>3, <1>4, NobodyApart DEF SameClient, Surfaces

LEMMA DestroyPopupStep ==
  ASSUME GrabsInv, NEW p \in Popups, DestroyPopup(p)
  PROVE  GrabsInv'
<1> DEFINE q == seat.chain
           n == Len(q)
           t == Without(seat, {p})
           dismissed == IF p \in Range(seat.chain) THEN t.dismissed \cup {p} ELSE t.dismissed
           u == [t EXCEPT !.dismissed = dismissed]
<1>1. seat' = u
  BY DEF DestroyPopup
<1>2. q \in Seq(Popups) /\ n \in Nat /\ \A i, j \in 1..n : q[i] = q[j] => i = j
  BY SeatTypes DEF GrabsInv, Sound, Loose, ChainUp, IsInjective
<1>3. \A i \in 1..n : i # n => q[i] # p
  <2> SUFFICES ASSUME NEW i \in 1..n, i # n PROVE q[i] # p
    OBVIOUS
  <2>1. i + 1 \in 1..n /\ i + 1 # 1 /\ (i + 1) - 1 = i
    BY <1>2
  <2>2. seat.parent[q[i + 1]] = q[i] /\ q[i + 1] \in Popups
    BY <1>2, <2>1 DEF GrabsInv, Sound, Loose, ChainUp
  <2> QED BY <2>2 DEF DestroyPopup
<1>4. \E m \in 0..n : \A i \in 1..n : q[i] \notin {p} <=> i <= m
  <2>1. CASE n # 0 /\ q[n] = p
    <3>1. n - 1 \in 0..n /\ \A i \in 1..n : i <= n - 1 <=> i # n
      BY <1>2, <2>1
    <3> QED BY <1>3, <2>1, <3>1
  <2>2. CASE ~(n # 0 /\ q[n] = p)
    <3>1. \A i \in 1..n : q[i] # p /\ i <= n
      BY <1>2, <1>3, <2>2
    <3> QED BY <1>2, <3>1
  <2> QED BY <2>1, <2>2
<1>5. Sound(t) /\ Guarded(t)
  BY <1>4, WithoutSound DEF GrabsInv
<1> HIDE DEF t
<1>6. dismissed \in SUBSET Popups
  BY <1>5, SeatTypes DEF Sound, Loose
<1> HIDE DEF dismissed
<1>7. /\ u \in Seats /\ u.serial = t.serial /\ u.roots = t.roots /\ u.locked = t.locked
      /\ u.chain = t.chain /\ u.parent = t.parent /\ u.grab = t.grab /\ u.kgrab = t.kgrab
      /\ u.focus = t.focus /\ u.known = t.known /\ u.moved = t.moved /\ u.begun = t.begun
      /\ u.presses = t.presses /\ u.pgrab = t.pgrab /\ t.serial \in Nat
  BY <1>5, <1>6, SeatTypes DEF Sound, Loose, Seats
<1> HIDE DEF u
<1>8. t.serial >= t.serial
  BY <1>7
<1>9. Sound(u) /\ Guarded(u)
  BY <1>5, <1>7, <1>8, CarriedSound
<1> QED BY <1>1, <1>9 DEF GrabsInv

\* The popups of a client: a chain has all of its popups among them, or none.
Owned(s, c) == {p \in Popups : s.parent[p] # Nobody /\ Client[p] = c}

LEMMA PopupsGoneSound ==
  ASSUME NEW s, Sound(s), Guarded(s), NEW c
  PROVE  LET t == Without(s, Owned(s, c)) IN
         Sound(t) /\ Guarded(t) /\ t.roots = s.roots
<1> DEFINE gone == Owned(s, c)
           n == Len(s.chain)
           m == IF Client[s.grab.root] = c THEN 0 ELSE n
           t == Without(s, gone)
<1>1. n \in Nat /\ m \in 0..n
  BY SeatTypes DEF Sound, Loose
<1>2. \A i \in 1..n : s.chain[i] \notin gone <=> i <= m
  <2> SUFFICES ASSUME NEW i \in 1..n PROVE s.chain[i] \notin gone <=> i <= m
    OBVIOUS
  <2>1. s.chain[i] \in gone <=> Client[s.grab.root] = c
    BY ChainMembers DEF Owned
  <2> QED BY <1>1, <2>1
<1>3. gone \cap Roots = {}
  BY NobodyApart DEF Owned
<1> HIDE DEF gone, m
<1>4. Sound(t) /\ Guarded(t) /\ t.roots = s.roots \ gone
  BY <1>1, <1>2, WithoutSound
<1>5. s.roots \ gone = s.roots
  BY <1>3, SeatTypes DEF Sound, Loose
<1> QED BY <1>4, <1>5 DEF gone

LEMMA RootsGoneSound ==
  ASSUME NEW s, Sound(s), Guarded(s), NEW gone \in SUBSET Roots
  PROVE  LET t == Without(s, gone) IN
         Sound(t) /\ Guarded(t) /\ t.parent = s.parent
<1> DEFINE n == Len(s.chain)
           t == Without(s, gone)
           parent == [p \in Popups |-> IF p \in gone THEN Nobody ELSE s.parent[p]]
<1>1. s.chain \in Seq(Popups) /\ n \in Nat /\ n \in 0..n /\ s.parent \in [Popups -> Anybody]
  BY SeatTypes DEF Sound, Loose
<1>2. \A i \in 1..n : s.chain[i] \notin gone <=> i <= n
  BY <1>1, NobodyApart
<1>3. Sound(t) /\ Guarded(t) /\ t.parent = parent
  BY <1>1, <1>2, WithoutSound
<1>4. parent = s.parent
  BY <1>1, NobodyApart
<1> QED BY <1>3, <1>4

LEMMA ClientDiesStep ==
  ASSUME GrabsInv, NEW c \in Range(Client), NEW w \in Windows \cup {Nobody}, ClientDies(c, w)
  PROVE  GrabsInv'
<1> DEFINE roots == {x \in seat.roots : Client[x] = c}
           popups == Owned(seat, c)
           q == Retained(seat.presses, {p \in Range(seat.presses) : p.client # c})
           dead == [seat EXCEPT !.presses = q]
           Off(s) == IF RootOf(s, s.focus) \in roots \cup {Nobody} THEN Focused(Without(s, roots), w)
                     ELSE Without(s, roots)
<1>1. seat' = Without(Off(dead), popups) \/ seat' = Off(Without(dead, popups))
  BY DEF ClientDies, Owned
<1>2. q \in Seq(Presses) /\ Range(q) \subseteq Range(seat.presses)
  BY KeptPresses, SeatTypes DEF GrabsInv, Sound, Loose
<1>3. roots \in SUBSET Roots /\ w \in Roots \cup {Nobody}
  BY SeatTypes DEF GrabsInv, Sound, Loose, Roots
<1> HIDE DEF q, roots
<1>4. Sound(dead) /\ Guarded(dead) /\ dead.parent = seat.parent
  BY <1>2, ForgottenSound DEF GrabsInv, Steady
<1> HIDE DEF dead
<1>5. ASSUME NEW s, Sound(s), Guarded(s)
      PROVE  Sound(Off(s)) /\ Guarded(Off(s)) /\ Off(s).parent = s.parent
  <2> DEFINE v == Without(s, roots)
             f == Focused(v, w)
  <2>1. Sound(v) /\ Guarded(v) /\ v.parent = s.parent
    BY <1>3, <1>5, RootsGoneSound
  <2> HIDE DEF v
  <2>2. Sound(f) /\ Guarded(f) /\ Steady(v, f)
    BY <1>3, <2>1, FocusedSound DEF Guarded
  <2> HIDE DEF f
  <2> QED BY <2>1, <2>2 DEF Steady, f, v
<1>6. CASE seat' = Without(Off(dead), popups)
  <2> DEFINE s == Off(dead)
  <2>1. Sound(s) /\ Guarded(s) /\ s.parent = seat.parent
    BY <1>4, <1>5
  <2> HIDE DEF s
  <2>2. popups = Owned(s, c)
    BY <2>1 DEF Owned
  <2>3. seat' = Without(s, Owned(s, c))
    BY <1>6, <2>2 DEF s
  <2> QED BY <2>1, <2>3, PopupsGoneSound DEF GrabsInv
<1>7. CASE seat' = Off(Without(dead, popups))
  <2> DEFINE s == Without(dead, popups)
  <2>1. popups = Owned(dead, c)
    BY <1>4 DEF Owned
  <2>2. Sound(s) /\ Guarded(s)
    BY <1>4, <2>1, PopupsGoneSound
  <2> HIDE DEF s
  <2>3. Sound(Off(s)) /\ Guarded(Off(s))
    BY <1>5, <2>2
  <2> QED BY <1>7, <2>3 DEF GrabsInv, s
<1> QED BY <1>1, <1>6, <1>7

\* A popup that joins a chain: the surfaces it is on lead to the same root.
LEMMA JoinedChain ==
  ASSUME NEW s \in Seats, ChainUp(s), NEW p \in Popups, p \notin Range(s.chain),
         NEW root \in Roots, s.chain # <<>> => root = s.grab.root,
         SameClient(p, root), s.parent[p] = IF s.chain = <<>> THEN root ELSE Last(s.chain)
  PROVE  LET q == Append(s.chain, p) IN
         /\ q \in Seq(Popups) /\ IsInjective(q) /\ q # <<>> /\ Last(q) = p /\ Len(q) \in Nat
         /\ \A i \in 1..Len(q) : SameClient(q[i], root) /\ s.parent[q[i]] = IF i = 1 THEN root ELSE q[i - 1]
<1> DEFINE r == s.chain
           n == Len(r)
           q == Append(r, p)
<1>1. r \in Seq(Popups) /\ n \in Nat /\ IsInjective(r) /\ p \notin Range(r)
  BY SeatTypes DEF ChainUp
<1>2. \A i \in 1..n : SameClient(r[i], root) /\ s.parent[r[i]] = IF i = 1 THEN root ELSE r[i - 1]
  BY <1>1 DEF ChainUp
<1>3. s.parent[p] = IF r = <<>> THEN root ELSE r[n]
  BY DEF Last
<1> HIDE DEF r
<1>4. q \in Seq(Popups) /\ IsInjective(q)
  BY <1>1, AppendFacts
<1>5. Len(q) = n + 1 /\ \A i \in 1..(n + 1) : q[i] = IF i <= n THEN r[i] ELSE p
  BY <1>1
<1>6. q # <<>> /\ Last(q) = p
  <2>1. Last(q) = q[n + 1]
    BY <1>5 DEF Last
  <2> QED BY <1>1, <1>5, <2>1
<1>7. ASSUME NEW i \in 1..Len(q)
      PROVE  SameClient(q[i], root) /\ s.parent[q[i]] = IF i = 1 THEN root ELSE q[i - 1]
  <2>1. CASE i <= n
    <3>1. i \in 1..n /\ q[i] = r[i] /\ (i # 1 => q[i - 1] = r[i - 1])
      BY <1>1, <1>5, <2>1
    <3> QED BY <1>2, <3>1
  <2>2. CASE ~(i <= n)
    <3>1. i = n + 1 /\ q[i] = p
      BY <1>1, <1>5, <2>2
    <3>2. CASE n = 0
      <4>1. r = <<>> /\ i = 1
        BY <1>1, <3>1, <3>2
      <4> QED BY <1>3, <3>1, <4>1
    <3>3. CASE n # 0
      <4>1. r # <<>> /\ i # 1 /\ i - 1 = n /\ q[n] = r[n]
        BY <1>1, <1>5, <3>1, <3>3
      <4> QED BY <1>3, <3>1, <4>1
    <3> QED BY <3>2, <3>3
  <2> QED BY <2>1, <2>2
<1>8. Len(q) \in Nat
  BY <1>1, <1>5
<1> QED BY <1>4, <1>6, <1>7, <1>8 DEF r

LEMMA ParentsDecide ==
  ASSUME NEW s, NEW t, t.parent = s.parent, NEW x
  PROVE  RootOf(t, x) = RootOf(s, x)
BY DEF RootOf

\* What a grant for press n leaves of it.
Seized(v, n, origin, fresh) ==
    [v EXCEPT !.kgrab = n, !.presses = Retained(@, {x \in Range(@) : x.serial # n}),
              !.origin = origin, !.begun[n] = IF fresh THEN @ + 1 ELSE @]

LEMMA SeizedFields ==
  ASSUME NEW v \in Seats, NEW n \in Nat, NEW q \in Seq(Presses), NEW origin \in Nat,
         NEW begun \in [1..MaxSerial -> Nat]
  PROVE  LET t == [v EXCEPT !.kgrab = n, !.presses = q, !.origin = origin, !.begun = begun] IN
         /\ t \in Seats /\ t.roots = v.roots /\ t.parent = v.parent /\ t.chain = v.chain
         /\ t.locked = v.locked /\ t.serial = v.serial /\ t.grab = v.grab /\ t.pgrab = v.pgrab
         /\ t.focus = v.focus /\ t.known = v.known /\ t.moved = v.moved
         /\ t.kgrab = n /\ t.presses = q /\ t.begun = begun
BY DEF Seats

\* The popup has the keyboard and the pointer: the last step of a grant.
LEMMA SeizedSound ==
  ASSUME NEW u, Loose(u), NEW p \in Popups, u.chain # <<>>, Current(u) = p, ~u.locked,
         u.grab \in Grabs, NEW n \in Nat \ {0}, u.grab.serial = n, u.grab # NoGrab, n <= u.serial,
         u.pgrab.kind = "popup", u.pgrab.serial = n,
         NEW fresh \in BOOLEAN, fresh /\ n \in 1..MaxSerial => u.begun[n] = 0,
         NEW origin \in Nat, OnePanel(u), Exclusive(u) \in {Nobody, u.grab.root},
         NEW t, t = Seized(Offered(u, p), n, origin, fresh)
  PROVE  Sound(t) /\ Guarded(t)
<1> DEFINE v == Offered(u, p)
           q == Retained(v.presses, {x \in Range(v.presses) : x.serial # n})
           begun == [v.begun EXCEPT ![n] = IF fresh THEN v.begun[n] + 1 ELSE v.begun[n]]
<1>1. p \in Surfaces /\ SameClient(p, u.grab.root)
  BY CurrentFacts DEF Loose
<1>2. v = Given(u, p)
  BY DEF Offered
<1>3. Loose(v) /\ Steady(u, v) /\ GrabsSame(u, v) /\ v.kgrab = u.kgrab /\ v.focus = p
  BY <1>1, <1>2, GivenLoose
<1>4. t = [v EXCEPT !.kgrab = n, !.presses = q, !.origin = origin, !.begun = begun]
  BY DEF Seized
<1> HIDE DEF v
<1>5. v.begun \in [1..MaxSerial -> Nat] /\ v.presses \in Seq(Presses)
  BY <1>3, SeatTypes DEF Loose
<1>6. q \in Seq(Presses) /\ Range(q) \subseteq Range(v.presses) /\ \A x \in Range(q) : x.serial # n
  <2> DEFINE T == Presses
             r == v.presses
             S == {x \in Range(r) : x.serial # n}
  <2>1. r \in Seq(T)
    BY <1>5
  <2> HIDE DEF T, r
  <2>2. Retained(r, S) \in Seq(T) /\ Range(Retained(r, S)) = Range(r) \cap S
    BY <2>1, RetainedFacts
  <2> QED BY <2>2 DEF T, r
<1>7. \A k \in 1..MaxSerial : begun[k] = v.begun[k] \/ (k = n /\ fresh /\ begun[k] = v.begun[k] + 1)
  <2> DEFINE f == v.begun
             m == IF fresh THEN f[n] + 1 ELSE f[n]
  <2>1. f \in [1..MaxSerial -> Nat]
    BY <1>5
  <2>2. begun = [f EXCEPT ![n] = m]
    OBVIOUS
  <2>3. m = f[n] \/ (fresh /\ m = f[n] + 1)
    OBVIOUS
  <2> HIDE DEF f, m, begun
  <2>4. \A k \in 1..MaxSerial : begun[k] = IF k = n THEN m ELSE f[k]
    BY <2>1, <2>2
  <2>5. \A k \in 1..MaxSerial : begun[k] = f[k] \/ (k = n /\ fresh /\ begun[k] = f[k] + 1)
    BY <2>3, <2>4
  <2> QED BY <2>5 DEF f
<1>8. begun \in [1..MaxSerial -> Nat]
  <2>1. \A k \in 1..MaxSerial : begun[k] \in Nat
    <3> SUFFICES ASSUME NEW k \in 1..MaxSerial PROVE begun[k] \in Nat
      OBVIOUS
    <3>1. v.begun[k] \in Nat
      BY <1>5
    <3>2. begun[k] = v.begun[k] \/ begun[k] = v.begun[k] + 1
      BY <1>7
    <3> HIDE DEF begun
    <3> QED BY <3>1, <3>2
  <2>2. begun = [k \in 1..MaxSerial |-> begun[k]]
    BY <1>5
  <2> HIDE DEF begun
  <2> QED BY <2>1, <2>2
<1> HIDE DEF q, begun
<1>9. /\ t \in Seats /\ t.roots = v.roots /\ t.parent = v.parent /\ t.chain = v.chain
      /\ t.locked = v.locked /\ t.serial = v.serial /\ t.grab = v.grab /\ t.pgrab = v.pgrab
      /\ t.focus = v.focus /\ t.known = v.known /\ t.moved = v.moved
      /\ t.kgrab = n /\ t.presses = q /\ t.begun = begun
  <2>1. v \in Seats
    BY <1>3 DEF Loose
  <2>2. n \in Nat
    OBVIOUS
  <2> DEFINE w == [v EXCEPT !.kgrab = n, !.presses = q, !.origin = origin, !.begun = begun]
  <2>3. q \in Seq(Presses)
    BY <1>6
  <2>4. /\ w \in Seats /\ w.roots = v.roots /\ w.parent = v.parent /\ w.chain = v.chain
        /\ w.locked = v.locked /\ w.serial = v.serial /\ w.grab = v.grab /\ w.pgrab = v.pgrab
        /\ w.focus = v.focus /\ w.known = v.known /\ w.moved = v.moved
        /\ w.kgrab = n /\ w.presses = q /\ w.begun = begun
    <3> HIDE DEF q, begun, v
    <3> QED BY <1>8, <2>1, <2>2, <2>3 DEF Seats
  <2> HIDE DEF w
  <2>5. t = w
    BY <1>4 DEF w
  <2> QED BY <2>4, <2>5
<1>10. ChainUp(t)
  BY <1>3, <1>9 DEF Loose, ChainUp
<1>11. KeysHeld(t) /\ PointerHeld(t) /\ FocusHeld(t)
  BY <1>1, <1>3, <1>9 DEF KeysHeld, PointerHeld, FocusHeld, Matching, GrabsSame
<1>12. PressesKept(t)
  BY <1>3, <1>6, <1>9 DEF Loose, PressesKept
<1>13. BegunOnce(t)
  <2> SUFFICES ASSUME NEW k \in 1..MaxSerial
               PROVE  /\ t.begun[k] <= 1
                      /\ t.begun[k] # 0 =>
                            /\ k <= t.serial /\ ~(t.pgrab.kind = "click" /\ t.pgrab.serial = k)
                            /\ \A x \in Range(t.presses) : x.serial # k
    BY DEF BegunOnce
  <2>1. t.pgrab.kind # "click" /\ t.serial = u.serial
    BY <1>3, <1>9 DEF Steady, GrabsSame
  <2>2. CASE k = n
    <3>1. t.begun[k] <= 1
      <4>1. v.begun[k] <= 1 /\ v.begun[k] \in Nat
        BY <1>3, <1>5 DEF Loose, BegunOnce
      <4>2. fresh => v.begun[k] = 0
        BY <1>3, <2>2 DEF Steady
      <4>3. begun[k] = v.begun[k] \/ (fresh /\ begun[k] = v.begun[k] + 1)
        BY <1>7
      <4>4. begun[k] = v.begun[k] \/ begun[k] = 0 + 1
        BY <4>2, <4>3
      <4> QED BY <1>9, <4>1, <4>4
    <3> QED BY <1>6, <1>9, <2>1, <2>2, <3>1
  <2>3. CASE k # n
    <3>1. t.begun[k] = v.begun[k]
      BY <1>7, <1>9, <2>3
    <3> QED BY <1>3, <1>6, <1>9, <2>1, <3>1 DEF Loose, BegunOnce, Steady
  <2> QED BY <2>2, <2>3
<1>14. Guarded(t)
  <2>1. t.roots = u.roots /\ t.locked = u.locked /\ t.grab = u.grab /\ t.kgrab = n
    BY <1>3, <1>9 DEF Steady, GrabsSame
  <2>2. Exclusive(t) = Exclusive(u)
    BY <2>1, ExclusiveSame
  <2> QED BY <2>1, <2>2 DEF Guarded, OnePanel
<1> QED BY <1>9, <1>10, <1>11, <1>12, <1>13, <1>14 DEF Sound, Loose

\* The press a first grab answers has opened no chain before.
LEMMA PressUnused ==
  ASSUME NEW s, Sound(s), NEW p, NEW n \in 1..MaxSerial, Authorized(s, p, n), ~Active(s)
  PROVE  s.begun[n] = 0
<1>1. CASE Pressed(s, p, n)
  <2>1. PICK i \in DOMAIN s.presses : s.presses[i].serial = n
    BY <1>1 DEF Pressed
  <2>2. s.presses[i] \in Range(s.presses)
    BY <2>1 DEF Range
  <2> QED BY <2>1, <2>2 DEF Sound, Loose, BegunOnce
<1>2. CASE Clicked(s, p, n) /\ s.pgrab.serial = n
  BY <1>2 DEF Clicked, Sound, Loose, BegunOnce
<1>3. ~ChainSerial(s, n)
  BY DEF ChainSerial
<1> QED BY <1>1, <1>2, <1>3 DEF Authorized

\* The chain q ends with p and climbs from the root, one client throughout.
Rises(s, q, p, root) ==
    /\ q \in Seq(Popups) /\ IsInjective(q) /\ q # <<>> /\ Last(q) = p /\ Len(q) \in Nat
    /\ \A i \in 1..Len(q) : SameClient(q[i], root) /\ s.parent[q[i]] = IF i = 1 THEN root ELSE q[i - 1]

\* The same for a chain named before it is built.
LEMMA JoinedAs ==
  ASSUME NEW s \in Seats, ChainUp(s), NEW p \in Popups, p \notin Range(s.chain),
         NEW root \in Roots, s.chain # <<>> => root = s.grab.root,
         SameClient(p, root), s.parent[p] = IF s.chain = <<>> THEN root ELSE Last(s.chain),
         NEW q, q = Append(s.chain, p)
  PROVE  Rises(s, q, p, root)
BY JoinedChain DEF Rises

\* The popup is on the top of the chain, or on the root of one that starts.
LEMMA AuthorizedOn ==
  ASSUME NEW s, Sound(s), s.chain = <<>> => s.grab = NoGrab,
         NEW p \in Popups, p \notin Range(s.chain), SameClient(s.parent[p], p),
         NEW n, Authorized(s, p, n)
  PROVE  LET root == RootOf(s, p)
             q == Append(s.chain, p)
         IN  /\ root \in s.roots /\ root \in Roots /\ (s.chain # <<>> => root = s.grab.root)
             /\ q \in Seq(Popups) /\ IsInjective(q) /\ q # <<>> /\ Last(q) = p
             /\ \A i \in 1..Len(q) : SameClient(q[i], root) /\ s.parent[q[i]] = IF i = 1 THEN root ELSE q[i - 1]
<1> DEFINE root == RootOf(s, p)
           q == Append(s.chain, p)
<1>0. s \in Seats /\ ChainUp(s)
  BY DEF Sound, Loose
<1>1. root \in s.roots /\ root \in Roots
  BY <1>0, SeatTypes DEF Authorized
<1>2. CASE s.chain = <<>>
  <2>1. s.parent[p] = root
    BY <1>2 DEF Authorized, Active
  <2>2. SameClient(p, root)
    BY <2>1 DEF SameClient
  <2> HIDE DEF root
  <2> QED BY <1>0, <1>1, <1>2, <2>1, <2>2, JoinedChain DEF root
<1>3. CASE s.chain # <<>>
  <2> DEFINE base == s.grab.root
  <2>1. s.grab # NoGrab /\ Active(s)
    BY <1>0, <1>3 DEF ChainUp, Active
  <2>2. s.parent[p] = Last(s.chain) /\ Current(s) = Last(s.chain)
    BY <1>3, <2>1 DEF Authorized, Current
  <2>3. SameClient(Current(s), base) /\ base \in Roots
    BY <1>0, <2>1, CurrentFacts
  <2>4. SameClient(p, base)
    BY <2>2, <2>3 DEF SameClient
  <2>5. /\ q \in Seq(Popups) /\ IsInjective(q) /\ q # <<>> /\ Last(q) = p /\ Len(q) \in Nat
        /\ \A i \in 1..Len(q) : SameClient(q[i], base) /\ s.parent[q[i]] = IF i = 1 THEN base ELSE q[i - 1]
    <3>1. s.chain # <<>> => base = s.grab.root
      OBVIOUS
    <3>2. s.parent[p] = IF s.chain = <<>> THEN base ELSE Last(s.chain)
      BY <1>3, <2>2
    <3>3. base \in Roots
      BY <2>3
    <3>4. q = Append(s.chain, p)
      OBVIOUS
    <3> HIDE DEF base, root, q
    <3>5. Rises(s, q, p, base)
      BY <1>0, <2>4, <3>1, <3>2, <3>3, <3>4, JoinedAs
    <3> QED BY <3>5 DEF Rises
  <2>6. root = base
    <3>1. q[Len(q)] = p
      BY <2>5 DEF Last
    <3>2. base \notin Popups
      BY <2>3, NobodyApart
    <3> HIDE DEF q, base
    <3>3. RootOf(s, q[Len(q)]) = base
      BY <2>5, <3>2, RootOfChain
    <3> QED BY <3>1, <3>3
  <2> QED BY <1>1, <2>5, <2>6
<1> QED BY <1>2, <1>3

LEMMA GrantedSound ==
  ASSUME NEW s, Sound(s), Guarded(s), s.chain = <<>> => s.grab = NoGrab,
         NEW p \in Popups, p \notin Range(s.chain), SameClient(s.parent[p], p),
         NEW n \in Nat \ {0}, n <= s.serial, Authorized(s, p, n),
         NEW previous \in Nat, Active(s) => previous = s.grab.serial
  PROVE  Sound(Granted(s, p, n, previous)) /\ Guarded(Granted(s, p, n, previous))
<1> DEFINE root == RootOf(s, p)
           g == [root |-> root, serial |-> n, previous |-> previous]
           calm == IF s.touch = NoTouch \/ SameClient(s.touch, p) THEN s ELSE TouchCancelled(s)
           q == Append(calm.chain, p)
           held == [calm EXCEPT !.chain = q]
           freed == IF s.pgrab.kind = "popup" THEN KeyboardUnset(held) ELSE held
           popup == [kind |-> "popup", serial |-> n, focus |-> g.root]
           u == [freed EXCEPT !.pgrab = popup, !.grab = g]
           given == Offered(u, p)
           t == [given EXCEPT !.kgrab = n, !.presses = Retained(@, {x \in Range(@) : x.serial # n}),
                              !.origin = IF Active(s) THEN @ ELSE n,
                              !.begun[n] = IF Active(s) THEN @ ELSE @ + 1]
<1>1. Granted(s, p, n, previous) = t
  BY DEF Granted
<1>2. /\ Sound(calm) /\ GrabsSame(s, calm) /\ calm.kgrab = s.kgrab /\ calm.focus = s.focus
      /\ calm.roots = s.roots /\ calm.locked = s.locked /\ calm.parent = s.parent
      /\ calm.serial = s.serial /\ calm.begun = s.begun
  BY TouchCancelledSound DEF GrabsSame
<1>3. /\ root \in s.roots /\ root \in Roots /\ (s.chain # <<>> => root = s.grab.root)
      /\ q \in Seq(Popups) /\ IsInjective(q) /\ q # <<>> /\ Last(q) = p
      /\ \A i \in 1..Len(q) : SameClient(q[i], root) /\ s.parent[q[i]] = IF i = 1 THEN root ELSE q[i - 1]
  <2> DEFINE k == Append(s.chain, p)
  <2>1. q = k
    BY <1>2 DEF GrabsSame
  <2>2. /\ root \in s.roots /\ root \in Roots /\ (s.chain # <<>> => root = s.grab.root)
        /\ k \in Seq(Popups) /\ IsInjective(k) /\ k # <<>> /\ Last(k) = p
        /\ \A i \in 1..Len(k) : SameClient(k[i], root) /\ s.parent[k[i]] = IF i = 1 THEN root ELSE k[i - 1]
    BY AuthorizedOn
  <2> HIDE DEF root, calm, k
  <2> QED BY <2>1, <2>2
<1>4. /\ g.root = root /\ g.serial = n /\ g \in Grabs /\ g # NoGrab /\ (Active(s) => Matching(g, s.grab.serial) \/ s.grab.serial = 0)
  BY <1>3, NobodyApart DEF Grabs, NoGrab, Anybody, Surfaces, Matching
<1>5. popup \in PointerGrabs /\ popup.kind = "popup" /\ popup.serial = n
  BY <1>3 DEF PointerGrabs, Anybody, Surfaces
<1>6. Active(s) <=> s.chain # <<>>
  BY DEF Active, Sound, Loose, ChainUp
<1> HIDE DEF root, calm, g, q, popup
<1>7. /\ held \in Seats /\ Steady(calm, held) /\ held.chain = q /\ held.grab = calm.grab
      /\ held.pgrab = calm.pgrab /\ held.kgrab = calm.kgrab /\ held.focus = calm.focus
      /\ held.known = calm.known /\ held.moved = calm.moved /\ held.presses = calm.presses
  BY <1>2, <1>3 DEF Sound, Loose, Seats, Steady
<1> HIDE DEF held
<1>8. PressesKept(held) /\ BegunOnce(held) /\ KeysHeld(held) /\ PointerHeld(held) /\ FocusHeld(held)
  BY <1>2, <1>7 DEF Sound, Loose, PressesKept, BegunOnce, KeysHeld, PointerHeld, FocusHeld, Steady
<1>9. /\ freed \in Seats /\ freed.chain = q /\ freed.parent = s.parent /\ freed.roots = s.roots
      /\ freed.locked = s.locked /\ freed.serial = s.serial /\ freed.begun = s.begun
      /\ PressesKept(freed) /\ BegunOnce(freed)
      /\ freed.kgrab # 0 => freed.kgrab = s.kgrab /\ s.pgrab.kind # "popup"
  <2>1. CASE s.pgrab.kind = "popup"
    <3>1. s.grab # NoGrab /\ s.chain # <<>>
      BY <2>1 DEF Sound, PointerHeld
    <3>2. root = held.grab.root /\ held.grab # NoGrab
      BY <1>2, <1>3, <1>7, <3>1 DEF GrabsSame
    <3>3. ChainUp(held)
      BY <1>2, <1>3, <1>7, <3>2 DEF ChainUp, Steady
    <3>4. Sound(held)
      BY <1>7, <1>8, <3>3 DEF Sound, Loose
    <3> DEFINE k == KeyboardUnset(held)
    <3>5. Sound(k) /\ Steady(held, k) /\ GrabsSame(held, k) /\ k.kgrab = 0
      BY <3>4, KeyboardUnsetSound
    <3>6. freed = k
      BY <2>1
    <3> HIDE DEF k, freed
    <3> QED BY <1>2, <1>7, <3>5, <3>6 DEF Sound, Loose, Steady, GrabsSame
  <2>2. CASE s.pgrab.kind # "popup"
    <3>1. freed = held
      BY <2>2
    <3> HIDE DEF freed
    <3> QED BY <1>2, <1>7, <1>8, <2>2, <3>1 DEF Steady
  <2> QED BY <2>1, <2>2
<1> HIDE DEF freed
<1>10. /\ u \in Seats /\ u.chain = q /\ u.parent = s.parent /\ u.roots = s.roots
       /\ u.locked = s.locked /\ u.serial = s.serial /\ u.begun = s.begun
       /\ u.kgrab = freed.kgrab /\ u.pgrab = popup /\ u.grab = g /\ u.focus = freed.focus
       /\ u.known = freed.known /\ u.moved = freed.moved /\ u.presses = freed.presses
  BY <1>4, <1>5, <1>9 DEF Seats
<1> HIDE DEF u
<1>11. Loose(u)
  <2>1. ChainUp(u)
    BY <1>3, <1>4, <1>10 DEF ChainUp
  <2>2. KeysHeld(u)
    <3> SUFFICES ASSUME u.kgrab # 0 PROVE Matching(g, u.kgrab)
      BY <1>4, <1>10 DEF KeysHeld
    <3>1. u.kgrab = s.kgrab /\ s.kgrab # 0
      BY <1>9, <1>10
    <3>2. Active(s) /\ s.kgrab = s.grab.serial
      BY <3>1 DEF Authorized
    <3> QED BY <1>4, <3>1, <3>2
  <2>3. PressesKept(u)
    BY <1>9, <1>10 DEF PressesKept
  <2>4. BegunOnce(u)
    BY <1>5, <1>9, <1>10 DEF BegunOnce
  <2> QED BY <1>10, <2>1, <2>2, <2>3, <2>4 DEF Loose
<1>12. Current(u) = p
  BY <1>3, <1>10 DEF Current
<1>13. ~u.locked /\ OnePanel(u) /\ Exclusive(u) \in {Nobody, g.root}
  <2>1. Exclusive(u) = Exclusive(s)
    BY <1>10, ExclusiveSame
  <2> QED BY <1>4, <1>10, <2>1 DEF Authorized, Guarded, OnePanel, root
<1>14. given = Given(u, p) /\ Loose(Given(u, p))
  <2>1. given = Given(u, p)
    BY <1>12 DEF Offered
  <2>2. p \in Surfaces
    BY DEF Surfaces
  <2> QED BY <1>11, <2>1, <2>2, GivenLoose
<1> DEFINE origin == IF Active(s) THEN given.origin ELSE n
<1>15. origin \in Nat
  BY <1>14, SeatTypes DEF Loose
<1>16. /\ u.chain # <<>> /\ u.grab \in Grabs /\ u.grab.serial = n /\ u.grab # NoGrab /\ n <= u.serial
       /\ u.pgrab.kind = "popup" /\ u.pgrab.serial = n /\ Exclusive(u) \in {Nobody, u.grab.root}
  BY <1>3, <1>4, <1>5, <1>10, <1>13
<1>17. \E fresh \in BOOLEAN : /\ fresh /\ n \in 1..MaxSerial => u.begun[n] = 0
                              /\ t = Seized(given, n, origin, fresh)
  <2>1. CASE Active(s)
    <3>1. PICK fresh \in BOOLEAN : fresh = FALSE
      OBVIOUS
    <3>2. t = Seized(given, n, origin, fresh)
      BY <2>1, <3>1 DEF Seized
    <3> HIDE DEF t, origin, given
    <3> QED BY <3>1, <3>2
  <2>2. CASE ~Active(s)
    <3>1. PICK fresh \in BOOLEAN : fresh = TRUE
      OBVIOUS
    <3>2. t = Seized(given, n, origin, fresh)
      BY <2>2, <3>1 DEF Seized
    <3>3. n \in 1..MaxSerial => u.begun[n] = 0
      BY <1>10, <2>2, PressUnused
    <3> HIDE DEF t, origin, given
    <3> QED BY <3>1, <3>2, <3>3
  <2> QED BY <2>1, <2>2
<1> HIDE DEF t, origin
<1>18. Sound(t) /\ Guarded(t)
  BY <1>11, <1>12, <1>13, <1>15, <1>16, <1>17, SeizedSound
<1> QED BY <1>1, <1>18

LEMMA GrabPopupStep ==
  ASSUME GrabsInv, NEW p \in Popups, NEW x \in Roots \cup Popups, NEW n \in 1..seat.serial,
         GrabPopup(p, x, n)
  PROVE  GrabsInv'
<1> DEFINE r == Refreshed(seat)
           parent == [r.parent EXCEPT ![p] = x]
           s == [r EXCEPT !.parent = parent]
<1>1. /\ Sound(r) /\ Guarded(r) /\ Steady(seat, r) /\ Refreshing(seat, r)
  BY RefreshedSound DEF GrabsInv
<1>2. r.chain = <<>> => r.grab = NoGrab
  <2> HIDE DEF r
  <2> QED BY <1>1 DEF Refreshing, GrabsSame, GrabsInv, Sound, Loose, ChainUp
<1>3. SameClient(x, p) /\ seat.parent[p] = Nobody
  BY DEF GrabPopup
<1>4. \/ seat' = r
      \/ /\ Authorized(s, p, n)
         /\ \E previous \in IF Active(s) THEN {s.grab.serial} ELSE {0, seat.grab.serial} :
               seat' = Granted(s, p, n, previous)
  BY DEF GrabPopup
<1> HIDE DEF r
<1>5. CASE seat' = r
  BY <1>1, <1>5 DEF GrabsInv
<1>6. CASE /\ Authorized(s, p, n)
           /\ \E previous \in IF Active(s) THEN {s.grab.serial} ELSE {0, seat.grab.serial} :
                 seat' = Granted(s, p, n, previous)
  <2>1. /\ r \in Seats /\ r.chain \in Seq(Popups) /\ r.parent \in [Popups -> Anybody]
        /\ r.serial \in Nat /\ r.serial = seat.serial /\ r.grab \in Grabs /\ seat.grab \in Grabs
    BY <1>1, SeatTypes DEF GrabsInv, Sound, Loose, Steady
  <2>2. \A i \in 1..Len(r.chain) : r.chain[i] # p
    <3> SUFFICES ASSUME NEW i \in 1..Len(r.chain) PROVE r.chain[i] # p
      OBVIOUS
    <3>1. r.parent[r.chain[i]] # Nobody
      BY <1>1, ChainMembers
    <3> QED BY <1>1, <1>3, <3>1 DEF Steady
  <2>3. parent \in [Popups -> Anybody] /\ parent[p] = x /\ \A k \in Popups : k # p => parent[k] = r.parent[k]
    BY <2>1 DEF Anybody, Surfaces
  <2> HIDE DEF parent
  <2>4. /\ s \in Seats /\ s.serial = r.serial /\ s.roots = r.roots /\ s.locked = r.locked
        /\ s.chain = r.chain /\ s.parent = parent /\ s.grab = r.grab /\ s.kgrab = r.kgrab
        /\ s.focus = r.focus /\ s.known = r.known /\ s.moved = r.moved /\ s.begun = r.begun
        /\ s.presses = r.presses /\ s.pgrab = r.pgrab
    BY <2>1, <2>3 DEF Seats
  <2> HIDE DEF s
  <2>5. ChainUp(s)
    <3>1. \A i \in 1..Len(r.chain) : parent[r.chain[i]] = r.parent[r.chain[i]]
      BY <2>1, <2>2, <2>3
    <3> QED BY <1>1, <2>4, <3>1 DEF Sound, Loose, ChainUp
  <2>6. KeysHeld(s) /\ PressesKept(s) /\ BegunOnce(s) /\ PointerHeld(s) /\ FocusHeld(s)
    BY <1>1, <2>4 DEF Sound, Loose, KeysHeld, PressesKept, BegunOnce, PointerHeld, FocusHeld
  <2>7. Sound(s) /\ Guarded(s)
    BY <1>1, <2>4, <2>5, <2>6, GuardedSame DEF Sound, Loose
  <2>8. p \notin Range(s.chain) /\ (s.chain = <<>> => s.grab = NoGrab) /\ SameClient(s.parent[p], p)
    BY <1>2, <1>3, <2>1, <2>2, <2>3, <2>4 DEF Range
  <2>9. n \in Nat \ {0} /\ n <= s.serial
    BY <2>1, <2>4
  <2>10. PICK previous \in IF Active(s) THEN {s.grab.serial} ELSE {0, seat.grab.serial} :
             seat' = Granted(s, p, n, previous)
    BY <1>6
  <2>11. previous \in Nat /\ (Active(s) => previous = s.grab.serial)
    BY <2>1, <2>4, <2>10 DEF Grabs
  <2> QED BY <1>6, <2>7, <2>8, <2>9, <2>10, <2>11, GrantedSound DEF GrabsInv
<1> QED BY <1>4, <1>5, <1>6

LEMMA GrabsStep == GrabsInv /\ [GrabsNext]_seat => GrabsInv'
<1> SUFFICES ASSUME GrabsInv, [GrabsNext]_seat PROVE GrabsInv'
  OBVIOUS
<1>1. CASE Key \/ Button \/ ButtonsUp \/ TouchUp \/ Elapse \/ Refresh \/ Lock \/ Unlock
  BY <1>1, KeyStep, ButtonStep, ButtonsUpStep, TouchUpStep, ElapseStep, RefreshStep, LockStep, UnlockStep
<1>2. CASE \E x \in seat.roots \cup {Nobody} : PointerMoves(x)
  BY <1>2, PointerMovesStep
<1>3. CASE \E x \in seat.roots : TouchDown(x)
  BY <1>3, TouchDownStep
<1>4. CASE \E p \in Popups : DestroyPopup(p)
  BY <1>4, DestroyPopupStep
<1>5. CASE \E p \in Popups, x \in Roots \cup Popups, n \in 1..seat.serial : GrabPopup(p, x, n)
  BY <1>5, GrabPopupStep
<1>6. CASE \E w \in Windows : BeginMove(w)
  BY <1>6, BeginMoveStep
<1>7. CASE \E x \in Panels : MapPanel(x)
  BY <1>7, MapPanelStep
<1>8. CASE \E x \in Panels, w \in Windows \cup {Nobody} : UnmapPanel(x, w)
  BY <1>8, UnmapPanelStep
<1>9. CASE \E c \in Range(Client), w \in Windows \cup {Nobody} : ClientDies(c, w)
  BY <1>9, ClientDiesStep
<1>10. CASE UNCHANGED seat
  BY <1>10 DEF GrabsInv
<1> QED BY <1>1, <1>2, <1>3, <1>4, <1>5, <1>6, <1>7, <1>8, <1>9, <1>10 DEF GrabsNext

\* At the end of an iteration of the event loop no grab of a popup is without
\* its chain, and whoever has the keyboard may have it.
LEMMA OwnedWhenSettled == GrabsInv => GrabsOwned
<1> SUFFICES ASSUME GrabsInv PROVE GrabsOwned
  OBVIOUS
<1> DEFINE s == Settled(seat)
<1>1. PICK u : s = Refreshed(u) /\ Sound(u) /\ Guarded(u)
  BY SettledSound DEF GrabsInv
<1>2. Sound(s) /\ Guarded(s) /\ Refreshing(u, s)
  BY <1>1, RefreshedSound
<1> HIDE DEF s
<1>3. s.grab # NoGrab => s.chain # <<>> /\ (s.kgrab # 0 => s.focus = Current(s))
  BY <1>2 DEF Refreshing, GrabsSame, Current
<1>4. s.kgrab # 0 => Active(s) /\ Matching(s.grab, s.kgrab) /\ s.focus = Current(s)
  BY <1>2, <1>3 DEF Sound, Loose, KeysHeld, Active
<1>5. s.pgrab.kind = "popup" => Active(s) /\ Matching(s.grab, s.pgrab.serial)
  BY <1>2, <1>3 DEF Sound, PointerHeld, Active
<1>6. s.focus \in Popups => s.kgrab # 0 /\ s.focus = Current(s)
  BY <1>2, <1>4 DEF Sound, FocusHeld
<1>7. s.locked => s.grab = NoGrab /\ s.focus = Nobody
  BY <1>2 DEF Guarded
<1>8. Exclusive(s) # Nobody /\ ~s.locked => RootOf(s, s.focus) = Exclusive(s)
  <2> SUFFICES ASSUME Exclusive(s) # Nobody, ~s.locked PROVE RootOf(s, s.focus) = Exclusive(s)
    OBVIOUS
  <2>1. CASE s.kgrab = 0
    <3>1. s.focus = Exclusive(s)
      BY <1>2, <2>1 DEF Guarded
    <3>2. s.focus \notin Popups
      BY <1>2, <2>1 DEF Sound, FocusHeld
    <3>3. RootOf(s, s.focus) = s.focus
      BY <3>2, RootItself
    <3> QED BY <3>1, <3>3
  <2>2. CASE s.kgrab # 0
    <3>1. s.grab # NoGrab /\ s.focus = Current(s)
      BY <1>4, <2>2 DEF Active
    <3>2. s.grab.root = Exclusive(s)
      BY <1>2, <3>1 DEF Guarded
    <3>3. RootOf(s, Current(s)) = s.grab.root
      BY <1>2, <3>1, CurrentFacts DEF Sound, Loose
    <3> QED BY <3>1, <3>2, <3>3
  <2> QED BY <2>1, <2>2
<1>9. s = Settled(seat)
  BY DEF s
<1> HIDE DEF Settled
<1> QED BY <1>4, <1>5, <1>6, <1>7, <1>8, <1>9 DEF GrabsOwned

LEMMA PressesSound == GrabsInv => PressOnce /\ PressesFollowFocus
<1> SUFFICES ASSUME GrabsInv PROVE PressOnce /\ PressesFollowFocus
  OBVIOUS
<1>1. PressOnce
  BY SeatTypes DEF GrabsInv, Sound, Loose, BegunOnce, PressOnce
<1>2. PressesFollowFocus
  BY DEF GrabsInv, Sound, Loose, PressesKept, PressesFollowFocus, Range
<1> QED BY <1>1, <1>2

\* Under any order of presses, focus changes, locks, panels, dying clients and
\* popups, no grab of a popup outlives its chain, one press opens one chain at
\* most and a press of a key is forgotten when the keyboard changes hands
\* (popup_grabs.rs).
THEOREM GrabsKept == GrabsSpec => [](GrabsOwned /\ PressOnce /\ PressesFollowFocus)
<1>1. GrabsInv => GrabsOwned /\ PressOnce /\ PressesFollowFocus
  BY OwnedWhenSettled, PressesSound
<1> QED BY <1>1, GrabsInitial, GrabsStep, PTL DEF GrabsSpec

\* The same of the run, which moves the seat or leaves it alone.
THEOREM GrabsAlwaysSound == SurfacesSpec => []GrabsSound
<1>1. SurfacesInit => GrabsInv
  BY GrabsInitial DEF SurfacesInit
<1>2. GrabsInv /\ [SurfacesNext]_surfacesVars => GrabsInv'
  <2>1. [SurfacesNext]_surfacesVars => [GrabsNext]_seat
    BY DEF SurfacesNext, surfacesVars
  <2> QED BY <2>1, GrabsStep
<1>3. GrabsInv => GrabsSound
  BY OwnedWhenSettled, PressesSound DEF GrabsSound
<1> QED BY <1>1, <1>2, <1>3, PTL DEF SurfacesSpec
==============================================================================
