---------------------------- MODULE MCStreamService ----------------------------
\* A short message queue for AndroidStream; the constants are in the .cfg files.
EXTENDS AndroidStream
=============================================================================
