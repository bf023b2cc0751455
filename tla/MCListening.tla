---------------------------- MODULE MCListening ----------------------------
EXTENDS Listening
=============================================================================
