------------------------------ MODULE MCFlight ------------------------------
(* Flight with a pair that has to be cut by an odd amount *)
EXTENDS Flight

MCScales == {2, 4}
MCCmds == {[pos |-> -5, rate_lim |-> 1, brake |-> FALSE],
           [pos |-> 0, rate_lim |-> 0, brake |-> TRUE]}
MCStates == {STANDBY, OPERATIONAL, PASSIVE}
=============================================================================
