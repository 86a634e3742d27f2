-------------------------- MODULE MCSensorConfigs --------------------------
(* A key for the kind of connection and two of its parameters, which UdpParams reads in *)
(* another order than it writes them. *)
EXTENDS SensorConfigs

MCKeys == <<"connection", "port", "address">>
MCLoadKeys == <<"connection", "address", "port">>
MCDefault == [connection |-> 0, port |-> 0, address |-> 0]
MCConfigs == {[k \in ToSet(MCKeys) |-> i] : i \in {1, 2}}
=============================================================================
