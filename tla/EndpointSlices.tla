--------------------------- MODULE EndpointSlices ---------------------------
(***************************************************************************)
(* The EndpointSlice handlers of nfproxy (AddEndpointSlice,                *)
(* UpdateEndpointSlice, DeleteEndpointSlice and processEpSlice, the Go     *)
(* file that follows the module text in src/go.mod), composed with the     *)
(* proxy of NfProxy and with the object cache.                             *)
(*                                                                         *)
(* A proxy watches either Endpoints or EndpointSlices: here the            *)
(* EndpointSlice informer thread drives the endpoints thread of NfProxy    *)
(* (addEndpoint, deleteEndpoint, UpdateServiceChain) in place of the       *)
(* Endpoints informer, while the Service thread runs as in NfProxy. The    *)
(* cache is the abstract cache of CacheSpec, which ObjectCache implements; *)
(* a slice value stands for the object the cache keeps a copy of.          *)
(*                                                                         *)
(* Data abstraction: a slice is owned by one service (its service-name     *)
(* label) and has endpoints of one address each, a ready condition per     *)
(* endpoint, and ports. API validation keeps slice ports in 1..65535, so   *)
(* processEpSlice never meets port 0 and its error returns are not taken.  *)
(***************************************************************************)
EXTENDS NfProxy

CONSTANTS
    SliceIds    \* the slices of each service: <<service, id>> names a slice

Slices == Svcs \X SliceIds
SvcOf(sl) == sl[1]

\* discovery.EndpointSlice: endpoint addresses, the ready ones among them,
\* and the ports.
SliceVals == {v \in [eps : SUBSET Addrs, ready : SUBSET Addrs, ports : SUBSET Ports \ {{}}] :
                 v.ready \subseteq v.eps}

VARIABLES
    slObj,      \* Slices -> SliceVals \cup {Absent}: the informer's slices
    slCache     \* the EndpointSlice part of the object cache

sliceVars == <<slObj, slCache>>

Cache == INSTANCE CacheSpec WITH
    Kinds <- {"epsl"}, Names <- Slices, Versions <- SliceVals, Clients <- {},
    NotFound <- Absent, stored <- slCache, got <- [c \in {} |-> Absent]

\* processEpSlice (go.mod 104-149): one tuple <<address, port>> per address
\* of every endpoint and every port; the ready ones are those whose
\* endpoint has Conditions.Ready.
Tuples(v) == v.eps \X v.ports
ReadyT(v) == {t \in Tuples(v) : t[1] \in v.ready}

\* isPortInEndpointSlice (not in this tree): whether the tuple is in the
\* slice, and ready there.
Found(v, t)    == t \in Tuples(v)
OldReady(v, t) == t \in ReadyT(v)

\* The work items for tuples: an add per tuple; a delete per tuple, each
\* with its own read of endpointsMap (the handlers read eps per tuple).
AddItemsOf(T) == {AddItem(t[2], t[1]) : t \in T}
DelItemsOfPort(T) ==
    {DelItem(p, {t[1] : t \in {u \in T : u[2] = p}}) : p \in {t[2] : t \in T}}
DelItemsOf(T) == {DelItem(t[2], {t[1]}) : t \in T}

\* The transition table of UpdateEndpointSlice (go.mod 237-281), over the
\* tuples of new: add when new is ready and the stored slice lacks the
\* tuple or has it not ready; delete when the stored slice has it ready and
\* new has it not ready. Then (282-300) delete the ready tuples of the
\* stored slice that new lacks.
SliceAddsNoFlip(stored, v) == {t \in ReadyT(v) : ~Found(stored, t)}
SliceAdds(stored, v) ==
    {t \in ReadyT(v) : ~Found(stored, t) \/ ~OldReady(stored, t)}
SliceDelsAll(stored, v) == {t \in Tuples(v) : Found(stored, t) /\ OldReady(stored, t)}
SliceDels(stored, v) ==
    {t \in Tuples(v) \ ReadyT(v) : Found(stored, t) /\ OldReady(stored, t)}
SliceGone(stored, v) == {t \in ReadyT(stored) : ~Found(v, t)}

\* A handler call starts: the work of its first loop and of its second
\* loop, whether it returns at the first addEndpoint error, and its
\* trailing step.
Begin(sl, first, second, stop, ret) ==
    /\ ev' = [svc |-> SvcOf(sl), sl |-> sl, byAddr |-> TRUE, stop |-> stop, ret |-> ret]
    /\ todo' = first /\ later' = second
    /\ epc' = "work"
    /\ UNCHANGED <<dport, delAddrs, daddr, snap, idx, cur, usc>>

SliceEvent ==
    /\ epc = "idle" /\ events < MaxEvents
    /\ events' = events + 1
    /\ UNCHANGED <<kernelVars, svcMap, epMap, svcObj, epObj, relistVars, sVars>>

\* AddEndpointSlice (go.mod 151-176): store a copy in the cache, then
\* addEndpoint for every ready tuple, returning at the first error.
AddEndpointSlice(sl, v) ==
    /\ SliceEvent
    /\ slObj[sl] = Absent
    /\ slObj' = [slObj EXCEPT ![sl] = v]
    /\ Cache!Store("epsl", sl, v)
    /\ Begin(sl, AddItemsOf(ReadyT(v)), {}, TRUE, "idle")

\* UpdateEndpointSlice (go.mod 210-302): the cached slice is the old one
\* (the passed old when the cache misses); then the two loops over the
\* tuples, errors only logged; then the cache stores new.
StoredEpSl(sl, passed) ==
    IF slCache["epsl"][sl] # Absent THEN slCache["epsl"][sl] ELSE passed

UpdateEndpointSlice(sl, v) ==
    /\ SliceEvent
    /\ slObj[sl] # Absent
    /\ slObj' = [slObj EXCEPT ![sl] = v]
    /\ LET stored == StoredEpSl(sl, slObj[sl])
       IN Begin(sl, AddItemsOf(SliceAdds(stored, v)) \cup DelItemsOf(SliceDels(stored, v)),
                DelItemsOf(SliceGone(stored, v)), FALSE, "store")
    /\ UNCHANGED slCache

\* DeleteEndpointSlice (go.mod 178-208): deleteEndpoint for every ready
\* tuple of the passed slice, then the cache forgets the slice.
DeleteEndpointSlice(sl) ==
    /\ SliceEvent
    /\ slObj[sl] # Absent
    /\ slObj' = [slObj EXCEPT ![sl] = Absent]
    /\ Begin(sl, DelItemsOf(ReadyT(slObj[sl])), {}, FALSE, "remove")
    /\ UNCHANGED slCache

\* The trailing cache update of UpdateEndpointSlice (go.mod 301) and of
\* DeleteEndpointSlice (go.mod 207).
StoreSlice ==
    /\ epc = "store"
    /\ Cache!Store("epsl", ev.sl, slObj[ev.sl])
    /\ epc' = "idle"
    /\ UNCHANGED <<kernelVars, svcMap, epMap, infVars, sVars, ev, todo, later,
                   dport, delAddrs, daddr, snap, idx, cur, usc, slObj>>

RemoveSlice ==
    /\ epc = "remove"
    /\ Cache!Remove("epsl", ev.sl)
    /\ epc' = "idle"
    /\ UNCHANGED <<kernelVars, svcMap, epMap, infVars, sVars, ev, todo, later,
                   dport, delAddrs, daddr, snap, idx, cur, usc, slObj>>

SliceInit ==
    /\ Init
    /\ slObj = [sl \in Slices |-> Absent]
    /\ slCache = [kd \in {"epsl"} |-> [sl \in Slices |-> Absent]]

\* The endpoints thread of NfProxy, now driven by the slice handlers.
EpThreadStep ==
    \/ EndWork \/ AddEndpointRules \/ AddEndpointToMap \/ DeletePort
    \/ DeleteAddr \/ ScanEndpoints \/ DeleteUpdateChain \/ DeleteStoreChain
    \/ DeleteEndpointRules \/ DeleteFinal

SliceNext ==
    \/ /\ \/ \E s \in Svcs : AddService(s) \/ UpdateService(s) \/ DeleteService(s)
          \/ ServicePortStep
          \/ EpThreadStep
       /\ UNCHANGED sliceVars
    \/ \E sl \in Slices :
          \/ \E v \in SliceVals : AddEndpointSlice(sl, v) \/ UpdateEndpointSlice(sl, v)
          \/ DeleteEndpointSlice(sl)
    \/ StoreSlice
    \/ RemoveSlice
    \/ spc = "idle" /\ epc = "idle" /\ events = MaxEvents /\ UNCHANGED <<vars, sliceVars>>

\* As in NfProxy, each informer thread runs its handler to completion once
\* it has started, the trailing cache update included.
SliceFairness ==
    /\ WF_<<vars, sliceVars>>(ServicePortStep /\ UNCHANGED sliceVars)
    /\ WF_<<vars, sliceVars>>((EpThreadStep /\ UNCHANGED sliceVars) \/ StoreSlice \/ RemoveSlice)

SliceSpec == SliceInit /\ [][SliceNext]_<<vars, sliceVars>> /\ SliceFairness

-----------------------------------------------------------------------------
(* Properties                                                              *)

SliceTypeOK ==
    /\ slObj \in [Slices -> SliceVals \cup {Absent}]
    /\ slCache \in [{"epsl"} -> [Slices -> SliceVals \cup {Absent}]]
    /\ epc \in {"idle", "work", "addMap", "delAddr", "scan", "usc", "uscStore",
                "drules", "dfinal", "store", "remove"}

\* (P5, spec 4.5.3, go.mod 151-302) Once both threads are idle, the
\* endpoints of every service port in endpointsMap are exactly the ready
\* tuples of the service's slices: the transition table, the cached old
\* slice and the per-tuple deleteEndpoint calls add and delete the right
\* endpoints whatever the Service thread does meanwhile.
SliceBackends(k) ==
    UNION {{t \in ReadyT(slObj[sl]) : t[2][1] = k[2]} :
              sl \in {x \in Slices : SvcOf(x) = k[1] /\ slObj[x] # Absent}}
SliceEndpointsInstalled ==
    (spc = "idle" /\ epc = "idle") =>
        \A k \in Keys : BackendsOf(k) = SliceBackends(k)

Reg == INSTANCE EndpointRegistry WITH
    Backends <- Backend,
    listed <- [k \in Keys |-> SliceBackends(k)],
    installed <- [k \in Keys |-> BackendsOf(k)]

\* (P5, spec 4.5.3, go.mod 151-302, proxy.go 281-311, 375-398) The slice
\* handlers implement the registry: every change they make to endpointsMap
\* adds one endpoint the slices list as ready or removes one they no
\* longer list (never a stale cached tuple, never one another tuple still
\* needs), and once the slices stop changing endpointsMap reaches them.
SliceRefinement == Reg!Spec
=============================================================================
