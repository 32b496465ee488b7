-------------------------- MODULE EndpointRegistry --------------------------
(***************************************************************************)
(* What the endpoint handlers promise (spec 4.5.3, P5): per service port,   *)
(* endpointsMap follows the endpoints the API lists as ready. The API may   *)
(* change what it lists at any time; the proxy installs a listed endpoint   *)
(* or removes one that is no longer listed, one at a time, and never the    *)
(* other way round. Once the API stops changing, what is installed          *)
(* eventually equals what is listed.                                        *)
(***************************************************************************)
CONSTANTS Keys, Backends

VARIABLES
    listed,     \* listed[k]: the ready endpoints the API lists for port k
    installed   \* installed[k]: the endpoints the proxy has for port k

vars == <<listed, installed>>

Init ==
    /\ listed = [k \in Keys |-> {}]
    /\ installed = [k \in Keys |-> {}]

\* The API server publishes a change.
List ==
    /\ listed' \in [Keys -> SUBSET Backends]
    /\ UNCHANGED installed

Install(k, b) ==
    /\ b \in listed[k] \ installed[k]
    /\ installed' = [installed EXCEPT ![k] = @ \cup {b}]
    /\ UNCHANGED listed

Uninstall(k, b) ==
    /\ b \in installed[k] \ listed[k]
    /\ installed' = [installed EXCEPT ![k] = @ \ {b}]
    /\ UNCHANGED listed

Next ==
    \/ List
    \/ \E k \in Keys, b \in Backends : Install(k, b) \/ Uninstall(k, b)

Spec ==
    /\ Init /\ [][Next]_vars
    /\ \A k \in Keys, b \in Backends : WF_vars(Install(k, b)) /\ WF_vars(Uninstall(k, b))
=============================================================================
