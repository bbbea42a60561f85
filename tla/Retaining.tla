------------------------------ MODULE Retaining ------------------------------
(***************************************************************************)
(* Vec::retain and its like: what is left of a sequence when only the      *)
(* members of a set are kept. The same as SelectSeq with a test, written   *)
(* with a set so that it can be reasoned about.                            *)
(***************************************************************************)
EXTENDS Integers, Sequences

\* The elements of s that are in S, in their order.
Retained(s, S) ==
    LET kept[i \in 0..Len(s)] ==
            IF i = 0 THEN <<>>
            ELSE IF s[i] \in S THEN Append(kept[i - 1], s[i])
            ELSE kept[i - 1]
    IN  kept[Len(s)]
=============================================================================
