------------------------------- MODULE MCAgentRpc -------------------------------
EXTENDS AgentRpc

CONSTANTS k1, k2, k3
=============================================================================
