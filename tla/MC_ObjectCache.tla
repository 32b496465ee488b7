--------------------------- MODULE MC_ObjectCache ---------------------------
EXTENDS ObjectCache
CONSTANTS n1, v1, v2, c1, c2
MCNames    == {n1}
MCVersions == {v1, v2}
MCClients  == {c1, c2}
=============================================================================
