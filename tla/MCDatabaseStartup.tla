------------------------- MODULE MCDatabaseStartup -------------------------
(* Small instances of DatabaseStartup: their constants are given in the cfgs. *)
EXTENDS DatabaseStartup

CONSTANTS aServer, aPort

\* Servers and ports can be renamed: at most one of three processes is on a port
\* of its own, and no step changes a port.
PortsUpToNames == \A p \in Servers \ {aServer} : port[p] = aPort
=============================================================================
