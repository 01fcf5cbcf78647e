----------------------------- MODULE MCWsBridge ------------------------------
EXTENDS WsBridge

CONSTANTS l1, l2, l3, t1, t2
=============================================================================
