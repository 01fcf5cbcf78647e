---------------------------- MODULE MCClaudeBridge ----------------------------
EXTENDS ClaudeBridge
=============================================================================
