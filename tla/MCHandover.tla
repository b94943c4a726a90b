----------------------------- MODULE MCHandover -----------------------------
EXTENDS Handover
=============================================================================
