----------------------------- MODULE MCCodexHost -----------------------------
EXTENDS CodexHost
CONSTANTS aa, ab, t1
=============================================================================
