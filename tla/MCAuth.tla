------------------------------- MODULE MCAuth -------------------------------
\* Three faults: a lost session and two errors, before or after the restart.
EXTENDS Auth
=============================================================================
