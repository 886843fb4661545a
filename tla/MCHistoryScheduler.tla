------------------------- MODULE MCHistoryScheduler -------------------------
EXTENDS HistoryScheduler, TLC
CONSTANTS v1, v2, v3
=============================================================================
