------------------------- MODULE MCResumableEffect -------------------------
EXTENDS ResumableEffect, TLC

CONSTANTS a, b, k1, w1

MCPartitionOf == k1 :> w1
=============================================================================
