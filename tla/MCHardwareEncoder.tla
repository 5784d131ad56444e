--------------------------- MODULE MCHardwareEncoder ---------------------------
\* Small transforms and channels for MftEncoder; the constants are in the .cfg files.
EXTENDS MftEncoder
=============================================================================
