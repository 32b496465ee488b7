------------------------ MODULE MC_EndpointSlices ------------------------
EXTENDS EndpointSlices, TLC
CONSTANTS s1, a1, a2, n1
MCSvcs == {s1}
MCAddrs == {a1, a2}
MCPortNames == {n1}
MCPortNum == {80}
MCPortNums == {80, 81}
==============================================================================
