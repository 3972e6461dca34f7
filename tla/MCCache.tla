------------------------------ MODULE MCCache ------------------------------
(* Instances of Cache for TLC.                                             *)
EXTENDS Cache

\* One packet of each kind that is cached once, two of the others.
MCPackets == {[kind |-> k, id |-> i] : k \in {"key", "inter"}, i \in 1 .. 2}
             \cup {[kind |-> k, id |-> 1] : k \in Kinds}
=============================================================================
