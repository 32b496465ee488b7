---------------------------- MODULE MC_NfProxy ----------------------------
EXTENDS NfProxy, TLC
CONSTANTS s1, s2, a1, a2, n1
MCSvcs == {s1}
MCAddrs == {a1, a2}
MCPortNames == {n1}
MCPortNums == {80, 81}
MCPortNum == {80}
==============================================================================
