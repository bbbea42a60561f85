---------------------------- MODULE MCWorkspaces ----------------------------
EXTENDS Workspaces, TLC

CONSTANTS w1, w2

NoPins == [id \in Ids |-> NoOutput]

Fixed == [count |-> 2, dynamic |-> FALSE, wrap |-> TRUE, pins |-> NoPins,
          focus_new |-> TRUE, focus_previous |-> TRUE, sloppy |-> FALSE]
Growing == [count |-> 1, dynamic |-> TRUE, wrap |-> FALSE, pins |-> NoPins,
            focus_new |-> FALSE, focus_previous |-> TRUE, sloppy |-> TRUE]
Single == [count |-> 1, dynamic |-> FALSE, wrap |-> FALSE, pins |-> [NoPins EXCEPT ![1] = 1],
           focus_new |-> TRUE, focus_previous |-> FALSE, sloppy |-> FALSE]

\* One output and two windows, with workspaces that come and go with the
\* configuration and on demand; two outputs and one window, with workspaces
\* that are free or pinned; one window on two workspaces, and two on one, with
\* layer surfaces and a locker.
MCSessions ==
    <<[outputs |-> 1, windows |-> 2, workspaces |-> 2,
       configs |-> {Fixed, Growing, Single}, layers |-> {}, locking |-> FALSE],
      [outputs |-> 2, windows |-> 1, workspaces |-> 3,
       configs |-> {[Growing EXCEPT !.count = 2],
                    [Fixed EXCEPT !.count = 3, !.pins = [NoPins EXCEPT ![3] = 1, ![1] = 2]]},
       layers |-> {}, locking |-> FALSE],
      [outputs |-> 1, windows |-> 1, workspaces |-> 2, configs |-> {Fixed},
       layers |-> {"none", "demand", "exclusive"}, locking |-> TRUE],
      [outputs |-> 1, windows |-> 2, workspaces |-> 1,
       configs |-> {[Single EXCEPT !.focus_previous = TRUE]},
       layers |-> {"demand", "exclusive"}, locking |-> TRUE]>>

WindowsSymmetry == Permutations({w1, w2})
=============================================================================
