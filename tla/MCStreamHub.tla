---------------------------- MODULE MCStreamHub ----------------------------
(* Two publishers and a few writers of one key.                            *)
EXTENDS StreamHub, TLC

CONSTANTS x1, x2

\* Publishers are interchangeable.
Symmetry == Permutations({x1, x2})

\* Who connects in one behaviour of the liveness run: one publisher and any
\* writers, or both publishers and no writer.  Nobody is obliged to connect,
\* so this restricts the environment only.
FewConnections ==
    \/ \E x \in Readers : \A y \in Readers \ {x} : hpc[y] = "idle"
    \/ \A w \in Writers : wpc[w] = "idle"

FewSpec == Init /\ [][Next /\ FewConnections']_vars /\ Fairness
=============================================================================
