---------------------------- MODULE MCWsCapability ----------------------------
EXTENDS WsCapability, TLC
=============================================================================
