---------------------------- MODULE MCPluginProcess ----------------------------
EXTENDS PluginProcess

CONSTANTS a1, a2, c1

MCPorts == [p \in Process |-> IF p \in Controller THEN {} ELSE {"9091", "metrics"}]

(* deploy/ gives the controller and the agents of its node one file.       *)
MCEndpoint == [p \in Process |-> "csi.sock"]
=============================================================================
