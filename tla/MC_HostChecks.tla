--------------------------- MODULE MC_HostChecks ---------------------------
(* Instances of HostChecks for TLC. *)
EXTENDS HostChecks

CONSTANTS router, server

\* the server behind the router
Behind == [h \in Hosts |-> IF h = server THEN <<router>> ELSE <<>>]
\* the server's only attempt needs synchronous checks of the router
OneAndTwo == [h \in Hosts |-> IF h = server THEN 1 ELSE 2]
\* the router has a check interval, or is checked on demand only
RouterOrNone == {{}, {router}}
=============================================================================
