--------------------------- MODULE MCPowerDaemon ---------------------------
(* Instances of PowerDaemon for TLC, with the values of MCPowerGovernor.    *)
EXTENDS PowerDaemon, MCPowerGovernor

=============================================================================
