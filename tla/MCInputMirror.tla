---------------------------- MODULE MCInputMirror ----------------------------
\* The mirror of the reading, for TLC.
EXTENDS InputMirror
=============================================================================
