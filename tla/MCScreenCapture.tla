-------------------------- MODULE MCScreenCapture --------------------------
(* Bounded instances of ScreenCapture: two frames and one Screenshot call. *)
EXTENDS ScreenCapture

MCOwnerOf == [c \in Calls |-> CHOOSE o \in Owners : TRUE]
=============================================================================
