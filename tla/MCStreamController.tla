------------------------- MODULE MCStreamController -------------------------
EXTENDS StreamController
=============================================================================
