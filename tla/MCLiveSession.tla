--------------------------- MODULE MCLiveSession ---------------------------
EXTENDS LiveSession

CONSTANTS c1, c2, p
=============================================================================
