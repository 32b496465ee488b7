----------------------------- MODULE CacheSpec -----------------------------
(***************************************************************************)
(* What the object cache promises (spec 4.2): per kind, a map from object  *)
(* name to the version of the object stored last under that name; a get    *)
(* returns that version, or NotFound when nothing is stored.               *)
(***************************************************************************)
CONSTANTS Kinds, Names, Versions, Clients, NotFound

VARIABLES
    stored,   \* stored[kd][n]: the version stored last, or NotFound
    got       \* got[c]: what client c's last get returned

vars == <<stored, got>>

Init ==
    /\ stored = [kd \in Kinds |-> [n \in Names |-> NotFound]]
    /\ got = [c \in Clients |-> NotFound]

Store(kd, n, v) ==
    /\ stored' = [stored EXCEPT ![kd][n] = v]
    /\ UNCHANGED got

Remove(kd, n) ==
    /\ stored' = [stored EXCEPT ![kd][n] = NotFound]
    /\ UNCHANGED got

Get(c, kd, n) ==
    /\ got' = [got EXCEPT ![c] = stored[kd][n]]
    /\ UNCHANGED stored

Next ==
    \E kd \in Kinds, n \in Names :
        \/ \E v \in Versions : Store(kd, n, v)
        \/ Remove(kd, n)
        \/ \E c \in Clients : Get(c, kd, n)

Spec == Init /\ [][Next]_vars
=============================================================================
