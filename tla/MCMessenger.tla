----------------------------- MODULE MCMessenger -----------------------------
EXTENDS Messenger
=============================================================================
