---------------------------- MODULE MCStateEvents ----------------------------
EXTENDS StateEvents
CONSTANTS k1, v1, v2

MCInitMaps == [Keys -> {v1, Nothing}]
=============================================================================
