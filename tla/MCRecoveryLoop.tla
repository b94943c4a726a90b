--------------------------- MODULE MCRecoveryLoop ---------------------------
EXTENDS RecoveryLoop
=============================================================================
