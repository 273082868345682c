----------------------------- MODULE MCRestore -----------------------------
EXTENDS Restore
=============================================================================
