---------------------------- MODULE MCEngineLink ----------------------------
\* The synchronous engine connection, for TLC.
EXTENDS EngineLink
=============================================================================
