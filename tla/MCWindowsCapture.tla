--------------------------- MODULE MCWindowsCapture ---------------------------
\* A channel of two samples for WindowsCapture; the constants are in the .cfg files.
EXTENDS WindowsCapture
=============================================================================
