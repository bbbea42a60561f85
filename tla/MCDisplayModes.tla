--------------------------- MODULE MCDisplayModes ---------------------------
(* Bounded instances of DisplayModes. *)
EXTENDS DisplayModes, TLC

CONSTANTS us, de, unknown, m1, m2, d1, d2

MCDefaults == [layout |-> us, pointer |-> 0, mode |-> Automatic, reload |-> TRUE]

Asking(layout, pointer, m, reload) ==
    [layout |-> layout, pointer |-> pointer, mode |-> m, reload |-> reload]

\* The layout, the pointer or both change, once with another mode, once without
\* reloading; and a layout there is no keymap for.
MCAsked == {Asking(us, 0, m2, TRUE), Asking(us, 1, Automatic, FALSE),
            Asking(de, 1, Automatic, TRUE), Asking(unknown, 1, Automatic, TRUE)}

\* The user writes nothing, or a mode, and turns reloading off.
MCEdits == {<<>>, [mode |-> m2, reload |-> FALSE]}

\* A fragment sets the pointer and the mode, or a layout there is no keymap for.
MCFragments == {<<>>, [pointer |-> 1, mode |-> m2], [layout |-> unknown]}

\* Files that say nothing and are left alone.
MCNothing == {<<>>}

MCSymmetry == Permutations(Devices)
=============================================================================
