------------------------------ MODULE MCRelay ------------------------------
EXTENDS Relay, TLC

\* Two starts and two stops of one session.
Opers == <<"start", "start", "stop", "stop">>

Spec == RelaySpec /\ RelayFairness
=============================================================================
