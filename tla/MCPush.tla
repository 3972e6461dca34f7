------------------------------ MODULE MCPush ------------------------------
EXTENDS StaticPush, TLC

\* Two streams of the same name, of an application that is configured to push
\* and of one that is not.
Apps == [live |-> <<"u">>, other |-> <<>>]
AppOf == [l \in Loops |-> IF l = "l1" THEN "live" ELSE "other"]

Spec == PushSpec /\ PushFairness
=============================================================================
