--------------------------- MODULE MCDiagnostics ---------------------------
EXTENDS Diagnostics
=============================================================================
