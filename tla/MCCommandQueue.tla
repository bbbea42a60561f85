--------------------------- MODULE MCCommandQueue ---------------------------
EXTENDS CommandQueue

\* A client registers something, and leaves.
Binding == {[kind |-> "bind", bytes |-> 1], [kind |-> "unbind", bytes |-> 1]}
=============================================================================
