--------------------------- MODULE MCDaemonLaunch ---------------------------
EXTENDS DaemonLaunch, TLC
CONSTANTS p1, p2, p3, d1, d2
MCProcs == {p1, p2, p3}
MCRestarters == {p3}
MCDaemons == {d1, d2}
=============================================================================
