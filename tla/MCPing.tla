-------------------------------- MODULE MCPing --------------------------------
(* Model values for the runs of Ping. *)
EXTENDS Ping

CONSTANTS h1, h2

TwoHosts == {h1, h2}
===============================================================================
