---------------------------- MODULE MCTransport ----------------------------
EXTENDS Transport
=============================================================================
