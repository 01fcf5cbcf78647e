----------------------------- MODULE MCSyncWatch -----------------------------
EXTENDS SyncWatch, TLC

CONSTANTS w1, w2
=============================================================================
