------------------------------ MODULE MCSyncRun ------------------------------
EXTENDS SyncRun

CONSTANTS k1, k2, w1, w2

MCSha == [k \in Keys |-> k]
MCName == [k \in Keys |-> k]
MCSize == [k \in Keys |-> 1]
MCPhoto == [k \in Keys |-> k]
=============================================================================
