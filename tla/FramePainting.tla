----------------------------- MODULE FramePainting -----------------------------
(***************************************************************************)
(* What is painted of a window's frame and what of it is painted again     *)
(* (render/decoration.rs, render/mod.rs).  Rendered titles and buttons,    *)
(* the sampled top row of the client and the parameters of the frame are   *)
(* kept from frame to frame, once for all outputs; an output repaints only *)
(* what it has not seen yet.                                               *)
(*                                                                         *)
(* One window.  The commit counters of smithay are here what each output   *)
(* has still to repaint.  A text is whatever a title or a button shows.    *)
(***************************************************************************)
EXTENDS Integers
CONSTANTS Outputs,    \* outputs that show the window
          Scale,      \* of each
          TitlebarModes, \* titlebar_color: "theme", "auto", "blend" or "gradient"
          Kinds,      \* "bar": a frame with titlebar, "outline", "none": fullscreen
          Looks,      \* focused or not, and the colours of the theme
          Texts, Lengths

VARIABLES
  want,      \* how the window is now: kind, mode, look, text, length, top row
  kept,      \* WindowDecoration: params, strip, text
  owed,      \* each output: what of the frame is damaged, "all", "bar" or "none"
  newText,   \* outputs that have not painted the text that is kept
  shown,     \* each output: ring, bar and text on the screen
  current    \* outputs rendered since the window last changed
paintVars == <<want, kept, owed, newText, shown, current>>

\* What is kept and what is shown are sets of one value, or of none.
Fresh == [params |-> {}, strip |-> {}, text |-> {}]
Blank == [ring |-> {}, bar |-> {}, text |-> {}]

FramePaintingInit ==
  /\ want \in [kind : Kinds, mode : TitlebarModes, look : Looks, text : Texts, length : Lengths, row : {0}]
  /\ kept = Fresh
  /\ owed = [o \in Outputs |-> "all"] /\ newText = Outputs
  /\ shown = [o \in Outputs |-> Blank] /\ current = {}
------------------------------------------------------------------------------
\* decoration_layout
HasTitlebar(w) == w.kind = "bar"
Sampled(w) == HasTitlebar(w) /\ w.mode \in {"auto", "blend", "gradient"}

\* The colour behind the text.
Background(w) == IF Sampled(w) THEN <<w.look, w.row>> ELSE <<w.look>>

FrameParams(w) ==
  [kind |-> w.kind, look |-> w.look, length |-> w.length,
   fill |-> CASE w.mode = "auto" -> <<"dominant", Background(w)>>
              [] w.mode = "theme" -> <<"translucent", w.look>>
              [] OTHER -> <<"opaque", w.look>>]
\* Drawn over the bar by a program of its own.
PixelSource(w) ==
  IF HasTitlebar(w) /\ w.mode \in {"blend", "gradient"} THEN <<w.mode, w.row>> ELSE <<>>

\* What a rendered title or button is kept under.
TextKey(w, o) == <<w.text, w.look, Background(w), w.length, Scale[o]>>

\* The title or button an output needs, if any.
TitleOf(w, o) == IF HasTitlebar(w) THEN {TextKey(w, o)} ELSE {}

\* Everything of the window that the output o is to show.
Picture(w, o) ==
  IF w.kind = "none" THEN Blank
  ELSE [ring |-> {FrameParams(w)}, bar |-> {<<FrameParams(w), PixelSource(w)>>}, text |-> TitleOf(w, o)]

\* retain_parts: what the frame no longer has is dropped.
RetainParts(k, w) ==
  [k EXCEPT !.text = IF HasTitlebar(w) THEN @ ELSE {}, !.strip = IF Sampled(w) THEN @ ELSE {}]
------------------------------------------------------------------------------
Restyle(w) == want' = w /\ w # want /\ current' = {}
KeepSeen == UNCHANGED <<owed, newText, shown>>

\* Focus, a new title, the client's top row.
Repaint ==
  /\ \E look \in Looks, text \in Texts, row \in {0, 1} :
       Restyle([want EXCEPT !.look = look, !.text = text, !.row = row])
  /\ UNCHANGED kept /\ KeepSeen

\* Fullscreen, a negotiated mode, a commit of another size: the buffers of
\* parts that go are released at once.
Reframe ==
  /\ \E kind \in Kinds, length \in Lengths :
       Restyle([want EXCEPT !.kind = kind, !.length = length])
  /\ kept' = RetainParts(kept, want') /\ KeepSeen

\* The theme or the configuration is read again.
Retitlebar ==
  /\ \E mode \in TitlebarModes : Restyle([want EXCEPT !.mode = mode])
  /\ kept' = RetainParts(kept, want') /\ KeepSeen

\* A mode that another client's request for hybrid controls has changed.
ReframeByOther ==
  /\ \E kind \in Kinds \ {"none"} : want.kind # "none" /\ Restyle([want EXCEPT !.kind = kind])
  /\ UNCHANGED kept /\ KeepSeen

\* Another icon theme; or the window is unmapped and mapped again.
ClearDecorations ==
  /\ kept # Fresh /\ kept' = Fresh
  /\ owed' = [o \in Outputs |-> "all"] /\ newText' = Outputs /\ current' = {}
  /\ UNCHANGED <<want, shown>>
------------------------------------------------------------------------------
\* titlebar_pixel_source: the strip is of one length and scale.
StripOf(k, o) ==
  {strip \in k.strip : strip.length = want.length /\ strip.scale = Scale[o]}

\* The row it is to show.
Sample(o) == {[length |-> want.length, scale |-> Scale[o], row |-> want.row]}

\* A new sample asks nobody to repaint.
OwedUnsampled(k, sampled) ==
  [o \in Outputs |-> IF {FrameParams(want)} # k.params THEN "all" ELSE owed[o]]

\* The damage bag after this frame's update.
Owed(k, sampled) ==
  [o \in Outputs |-> IF {FrameParams(want)} # k.params THEN "all"
                   ELSE IF sampled /\ owed[o] = "none" THEN "bar" ELSE owed[o]]

\* An output repaints what it owes, and all of what was not there.
RenderFrame(o) ==
  LET k == RetainParts(kept, want)
      framed == want.kind # "none"
      resampled == Sampled(want) /\ StripOf(k, o) # Sample(o)
      due == IF framed THEN Owed(k, resampled)[o] ELSE "all"
      unseen == IF TitleOf(want, o) = k.text /\ k.text # {} THEN newText ELSE Outputs
      part(name, repainted) == IF repainted THEN Picture(want, o)[name] ELSE shown[o][name]
  IN  /\ kept' = [params |-> IF framed THEN {FrameParams(want)} ELSE k.params,
                  strip |-> IF Sampled(want) THEN Sample(o) ELSE {}, text |-> TitleOf(want, o)]
      /\ owed' = IF framed THEN [Owed(k, resampled) EXCEPT ![o] = "none"] ELSE [owed EXCEPT ![o] = "all"]
      /\ newText' = unseen \ {o}
      /\ shown' = [shown EXCEPT ![o] = [ring |-> part("ring", due = "all"), bar |-> part("bar", due # "none"),
                                        text |-> part("text", o \in unseen)]]
      /\ current' = current \cup {o}
      /\ UNCHANGED want

FramePaintingNext ==
  \/ Repaint \/ Reframe \/ Retitlebar \/ ReframeByOther \/ ClearDecorations
  \/ \E o \in Outputs \ current : RenderFrame(o)
FramePaintingSpec == FramePaintingInit /\ [][FramePaintingNext]_paintVars
------------------------------------------------------------------------------
\* An output that has been rendered since the window last changed shows the
\* frame as it is: nothing that was kept, and nothing that was not repainted,
\* is of an earlier focus, title, theme, size or client content.
PaintedRight == \A o \in current : shown[o] = Picture(want, o)
==============================================================================
