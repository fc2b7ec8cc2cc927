--------------------------- MODULE MCDaemonStream ---------------------------
(* Instances of DaemonStream for TLC.                                       *)
EXTENDS DaemonStream

CONSTANTS c1, c2

MCClients == {c1, c2}
=============================================================================
