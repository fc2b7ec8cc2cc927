--------------------------- MODULE MCPtyLifecycle ---------------------------
(* An instance of PtyLifecycle for TLC: two callers, two exit codes; one     *)
(* caller also waits by itself.                                             *)
EXTENDS PtyLifecycle, TLC

CONSTANTS c1, c2, ok, sig

MCCallers == {c1, c2}
MCCodes == {ok, sig}
MCRawWaiters == {c1}
=============================================================================
