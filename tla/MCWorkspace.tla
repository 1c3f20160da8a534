---------------------------- MODULE MCWorkspace -----------------------------
EXTENDS Workspace

CONSTANTS s1, s2
=============================================================================
