------------------------------ MODULE MCSleep -------------------------------
EXTENDS SleepHandshake
=============================================================================
