---------------------------- MODULE MCRtspServer ----------------------------
\* Four clients for RtspServer: one more than the slots, and slots enough for
\* swap_remove to leave a hole in the middle.
EXTENDS RtspServer

CONSTANTS c1, c2, c3, c4

FourConns == {c1, c2, c3, c4}
=============================================================================
