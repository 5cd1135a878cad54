----------------------------- MODULE MCStartup -----------------------------
EXTENDS Startup

CONSTANTS s1, s2

Pair == {s1, s2}
=============================================================================
