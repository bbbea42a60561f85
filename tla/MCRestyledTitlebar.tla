-------------------------- MODULE MCRestyledTitlebar --------------------------
(* Instance of FramePainting with two kinds of sampled titlebars. *)
EXTENDS FramePainting, TLC

CONSTANTS o1, o2

MCScale == (o1 :> 1) @@ (o2 :> 1)
=============================================================================
