------------------------- MODULE MCDaemonLifecycle -------------------------
EXTENDS DaemonLifecycle
CONSTANTS d1, d2, c1
=============================================================================
