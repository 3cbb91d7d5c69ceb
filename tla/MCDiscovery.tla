---------------------------- MODULE MCDiscovery ----------------------------
EXTENDS Discovery

CONSTANTS a1, a2

MCAddrs == {a1, a2}
MCSeedSeq == <<a1>>
MCRequestCounts == {1, 2}
=============================================================================
