# TLA+ models of nfproxy's service proxy

This directory holds TLA+ models of the nftables service proxy of
Nordix/nfproxy. The models are checked with TLC. The code they model is
`src/pkg/proxy/proxy.go`, with the object cache in `src/unnamed/part_000`
and the EndpointSlice handlers in the Go file that `src/go.mod` carries after
its module text (lines 68-302).

## 1. The system

### Components

| Component | Source | Module | Status |
|---|---|---|---|
| Service handlers: `AddService`, `UpdateService`, `DeleteService`, `addService`, `deleteService` | proxy.go 54-69, 121-209, 226-274 | `NfProxy` | modelled |
| Endpoints handlers: `AddEndpoints`, `UpdateEndpoints`, `DeleteEndpoints`, `addEndpoint`, `addEndpointRule`, `deleteEndpoint`, `deleteEndpointRules` | proxy.go 276-327, 370-498 | `NfProxy` | modelled |
| `UpdateServiceChain`, `getServicePortEndpointChains`, the no-endpoints list | proxy.go 71-119, 211-224, 329-368 | `NfProxy` | partly: one external and one load-balancer IP per service, one IP family |
| nftables driver and kernel ruleset | `pkg/nftables` (not in this tree) | `NfProxy` (modelled from the spec) | partly: batches are all-or-nothing, and up to `MaxFailures` of them fail |
| Object cache (Service / Endpoints / EndpointSlice) | `src/unnamed/part_000` | `ObjectCache`, `CacheSpec` | modelled. proxy.go never calls it |
| Name hashing | `src/pkg/proxy/tools.go` | `NfProxy` (`SepChain`) | partly. `servicePortEndpointChainName` is an injective name: 80 hashed bits make a collision negligible (spec P4). `portProtoHash` has only commented-out callers, and `servicePortSvcID` is not in this tree |
| EndpointSlice handlers: `AddEndpointSlice`, `UpdateEndpointSlice`, `DeleteEndpointSlice`, `processEpSlice` | go.mod 95-302 | `EndpointSlices` (with `NfProxy` and `CacheSpec`) | partly: composed with `proxy.go`'s `deleteEndpoint` (see below) |
| `NewProxy` and a crash of the process | proxy.go 43-52 | `NfProxy` (`Init`, `Restart`) | modelled |
| Logging (`printSvcPortEntry`, klog), `portsMap` | proxy.go 532-545 | none | left out: changes no state |

The EndpointSlice file comes from a newer nfproxy than `proxy.go`: it calls
`p.cache`, which this `proxy` struct lacks. Its handlers call `addEndpoint`
as the Endpoints handlers do, but they call a `deleteEndpoint` that returns
an error (go.mod 264, 295), while the one in `proxy.go` (375) returns
nothing; that newer version is not in this tree. The model composes the
handlers with the endpoints thread of `NfProxy`, using `proxy.go`'s
`deleteEndpoint`, and since the callers only log its error, an error
changes nothing after it. This is an assumption, so the component is
`partly` modelled.

### State

- **Proxy state**, guarded by `p.mu`:
  - `serviceMap`: a ServicePortName maps to a serviceInfo. The serviceInfo holds the chain names, the recorded rule ids per chain (`RuleID`) and `WithEndpoints`.
  - `endpointsMap`: a ServicePortName maps to a slice of endpointsInfo. Each entry holds its endpoint chain name and its rule ids.
- **Kernel state**:
  - the chains that exist;
  - the installed rules, each with a handle, its chain and the chains it jumps to;
  - the "no endpoints" set, which rejects traffic to service IPs that have no backends.

### Interactions

Two informer threads call the handlers of one proxy object concurrently:
- the Service informer calls Add/Update/DeleteService;
- the Endpoints informer calls Add/Update/DeleteEndpoints (or, in the
  EndpointSlice variant, Add/Update/DeleteEndpointSlice).

Each thread delivers its events one at a time.

A handler takes `p.mu` for each map access. It releases the mutex between steps. In particular:
- `UpdateEndpoints` reads `eps` under the lock (478-480).
- It then calls `deleteEndpoint` for each address with that same snapshot.
- `deleteEndpoint` updates the map under the lock (387-390).
- It then unlocks and calls `deleteEndpointRules`.
- `deleteEndpointRules` calls `UpdateServiceChain` **without** the lock (403). That call reads and writes the serviceInfo.

### Behaviours that make it hard

- **Interleaving** of the two threads at every unlock.
- **Go slice aliasing.** `append(eps[:i], eps[i+1:]...)` shifts the snapshot's backing array in place. The range loop over `eps` reads the elements live and does not stop after a match.
- **Partial failure.** Every kernel batch can be refused, or fail with a netlink error. A handler that loops over batches stops at the first error and undoes nothing. Most errors are only logged.
- **Ordering.** A Service can arrive before or after its Endpoints.
- **Crash and restart.** The proxy keeps its maps in memory only, while the
  kernel keeps the ruleset. A process that dies (a panic, the Go runtime's
  abort on the unlocked map read at 332, an OOM kill) restarts with empty
  maps.

## 2. Module `NfProxy`

### Data abstraction

- A key (ServicePortName) is `<<service, port name>>`.
- An endpoint port is `<<name, number>>`.
- A backend (`epKey`) is `<<address, port>>`.
- An Endpoints object is either no subsets, or one subset `[addrs, ports]`.
- Chain names are tuples standing for the hashed names.
- A service entry is `[gen, withEp, ids]`:
  - `ids` maps each chain the service records rules in ("services", "nodeports", "fw", "svc") to its set of rule handles;
  - `gen` is the handle number when the entry was created, which stands for the pointer identity of the `*serviceInfo`. A late store from `UpdateServiceChain` into a replaced entry then lands in a dead object, as in Go.
- The kernel is four things:
  - `chains`;
  - `rules`, a set of `[h, chain, to]`;
  - `nextH`, the next handle;
  - `noEp`, the no-endpoints set. It holds `<<key, vip>>` elements, one per virtual IP of the port. `Vips(k)` lists them in the order `addToNoEndpointsList` visits them: cluster, external, load balancer.

  A batch is all or nothing.

### Driver fault model

`Batch(natOk)` gives the outcomes of one driver batch:
- the kernel's own verdict, `natOk`;
- if the kernel would accept the batch, a netlink error as well. That costs one of `MaxFailures`, counted in `failures`.

The kernel refuses a batch in these cases:
- a rule handle is missing;
- a jump target or a rule's chain is missing;
- a chain to be deleted still has rules or is jumped to;
- a set element to be removed is absent (ENOENT).

Adding an element that is already present succeeds.

`NoEpList(k, add)` models the per-IP loops of `addToNoEndpointsList` and `removeFromNoEndpointsList` (72-119). Each outcome stops before some IP and is ok only if every IP was handled.

Every call site uses these outcomes the way the code does:
- **`addService`**: a chain-creation error is only logged. The first refused rule batch returns, and so does a failed no-endpoints add, both before the service is recorded (`AddServiceReturns`).
- **`deleteService`**: errors are logged.
- **`UpdateServiceChain`**: `WithEndpoints` becomes true only when the removal succeeded, and the dispatch batch runs regardless.
- **`addEndpointRule`**: an error returns.
- **`deleteEndpointRules`**: a rule-deletion error returns, and a `DeleteChain` error is logged.

With `MaxFailures = 0` the model is the failure-free one.

### Actions and the code they model

| Action | Code |
|---|---|
| `AddService(s)`, `UpdateService(s)`, `DeleteService(s)` | the informer delivers the event. The Service thread then loops over the ports. |
| `ServicePortStep` | one iteration of the port loop. It calls `addService` (121-209) or `deleteService` (238-270), each atomic under `p.mu`. |
| `EndpointsEvent(s)` | Add/Update/DeleteEndpoints (276-279, 370-373) entering `UpdateEndpoints` (436-498). It covers the unnamed-object and `DeepEqual` early returns, and computes the work of both loops with `isPortInSubset`: `todo` holds the items of the loop being run, `later` those of the loop after it. An add item `AddItem(p, a)` is one `addEndpoint` call; a delete item `DelItem(p, A)` is one read of `eps` under the lock and a `deleteEndpoint` call per address of `A`. `InOrder` keeps the items of one port (or, for slices, of one address) together, as the loops do. |
| `EndWork` | the end of a loop (466-467 between the add and the delete loops): the next loop starts, or the handler returns to its trailing step `ev.ret`. |
| `AddEndpointRules` | `addEndpoint` up to the driver call (281-302); its helper `addEndpointRule(cn)` is `addEndpointRule` (313-327): the driver creates the endpoint chain and its rule, and the id is recorded. |
| `AddEndpointToMap` | the locked tail of `addEndpoint` (303-311): append to `endpointsMap`, then `UpdateServiceChain`. |
| `DeletePort` | the port loop of the delete half (468-484): the snapshot `eps` read under the lock. |
| `DeleteAddr` | the address loop (485-497). |
| `ScanEndpoints` | the range loop of `deleteEndpoint` (375-398), with the aliasing splice. |
| `DeleteUpdateChain`, `DeleteStoreChain` | the unlocked `UpdateServiceChain` of `deleteEndpointRules` (403), split at the store `svcRules.RuleID = rules` (356). |
| `DeleteEndpointRules` | deleting the endpoint's rules and chain (407-413). |
| `DeleteFinal` | the locked tail (414-434): re-enter the no-endpoints set when the last endpoint is gone. |

| `Restart` | the process dies at any point between two steps and `NewProxy` (43-52) starts over: empty `serviceMap` and `endpointsMap`, both threads idle, the kernel untouched. Any subset of the Services and Endpoints that exist survives the downtime (the others were deleted meanwhile); at most `MaxRestarts` times. |
| `RelistService(s)`, `RelistEndpoints(s)` | the informers' initial list after a restart: an `AddService` / `AddEndpoints` (54-69, 276-279) for every object that still exists, before any watch event. |

`Quiescent` lets a finished behaviour stutter. The model stops only when the event bound is spent and both threads are idle.

### Fairness

`Fairness` (and `SliceFairness` in `EndpointSlices`) is weak fairness on the steps of a handler that has started. A Go call that has begun runs to completion: nothing it does blocks forever, and `p.mu` is never held across a wait. `Fairness` is also weak fairness on `RelistService(s)` and `RelistEndpoints(s)` for each service: after `NewProxy` client-go lists every object before it watches, so the initial list of a restarted proxy is always delivered. Watch events are not fair, because the API server may send nothing more.

Two liveness properties of the `faults` run are about the restart path (spec 4.1, proxy.go 43-69, 276-279, 436-467):
- `RestartRestoresServices`: a Service still pending in the re-list after a restart eventually has all its ports back in `serviceMap`, unless it is deleted or the one driver failure strikes.
- `RestartRestoresEndpoints`: the same for every backend of a pending Endpoints object in `endpointsMap`.

Both take several steps of both threads to break; a re-list that took the resync path of `UpdateService` (which only logs, 272-274) breaks them. The code has no retry, no background reconciliation (spec 9) and no timeout, so a handler that fails half-way is not repaired, which is why the failure is excluded.

## 3. Module `ObjectCache` and its abstract spec `CacheSpec`

`CacheSpec` is what the cache promises (spec 4.2). Per kind, it maps a name to the version stored last under it, or `NotFound`. A get returns that.

`ObjectCache` is the code of `part_000`:
- one mutex;
- three maps from name to pointer;
- twelve methods, each holding the mutex for its whole body, so each is one atomic step. The per-kind methods (`storeSvcInCache`, `getLastKnownEpFromCache`, ...) are one-line instances of `StoreInCache`, `RemoveFromCache`, `GetCachedVersion` and `GetLastKnown`.

Objects live in a `heap` of cells, so pointers and copies are explicit:
- `store*` puts a fresh cell holding a copy (`CopyOf`, the `DeepCopy`) in the map;
- `getLastKnown*` returns the cached pointer itself.

Client threads receive objects from the informer and may keep writing to their own objects after storing them.

`Abs == INSTANCE CacheSpec WITH stored <- ..., got <- ...` maps the detailed state to the abstract one:
- a cached pointer maps to the version in its cell;
- a returned pointer maps to the version it points to.

`CacheRefinement == Abs!Spec` is checked as a PROPERTY. A client's write to its own object must be an abstract stutter. That holds only because the cache stores a copy.

## 4. Module `EndpointSlices`

`EndpointSlices` EXTENDS `NfProxy` and replaces its Endpoints informer by an
EndpointSlice informer. The Service thread and the endpoints thread's
`addEndpoint` / `deleteEndpoint` steps are those of `NfProxy`, each
conjoined with `UNCHANGED sliceVars`.

- A slice is named `<<service, id>>` (its service-name label and its
  object name) and is `[eps, ready, ports]`: endpoint addresses, the ready
  ones, and ports.
- `processEpSlice` (104-149) is `Tuples` / `ReadyT`: one `<<address, port>>`
  per address and port, ready when its endpoint is.
- The slice cache is `Cache == INSTANCE CacheSpec WITH ...`, with the slice
  value as the version. Using the abstract cache is justified by the
  `cache_refinement` run: `ObjectCache` implements `CacheSpec`, so every
  get returns the value stored last.

| Action | Code |
|---|---|
| `AddEndpointSlice(sl, v)` | 151-176: store in the cache, then an `addEndpoint` per ready tuple, returning at the first error (`ev.stop`). |
| `UpdateEndpointSlice(sl, v)` | 210-302: the cached slice is the old one (`StoredEpSl`, 216-229); the first loop follows the transition table (`SliceAdds`: ready in new and not ready or absent in the stored slice; `SliceDels`: ready in the stored slice, not ready in new); the second loop deletes the ready tuples of the stored slice that new lacks (`SliceGone`). Each delete reads `eps` afresh (`DelItemsOf`). |
| `DeleteEndpointSlice(sl)` | 178-208: a `deleteEndpoint` per ready tuple of the passed slice. |
| `StoreSlice`, `RemoveSlice` | the trailing cache update (301, 207). |

`isPortInEndpointSlice` is not in the tree; `Found` and `OldReady` model it
from its use. API validation keeps slice ports non-zero and labelled slices
are the only ones the informer is given here, so the error returns of
`processEpSlice` are not taken.

### The abstract registry `EndpointRegistry`

`EndpointRegistry` is what the slice handlers promise (spec 4.5.3, P5): per service port, a set `listed` of endpoints the slices list as ready and a set `installed` of endpoints the proxy serves. `List` changes `listed` arbitrarily; `Install(k, b)` adds a listed endpoint; `Uninstall(k, b)` removes an unlisted one. Both are weakly fair, so `installed` eventually catches up with `listed` once listing stops.

`Reg == INSTANCE EndpointRegistry WITH listed <- SliceBackends, installed <- BackendsOf` maps `EndpointSlices` onto it, and `SliceRefinement == Reg!Spec` is checked as a PROPERTY. Every change the handlers make to `endpointsMap` must be one `Install` or `Uninstall`, or a stutter: an add of a tuple the slice no longer lists, or a delete of one it still lists, breaks it.

## 5. Runs

The `NfProxy` runs use `MC_NfProxy.tla`. It gives model values for services, addresses and port names, and port numbers 80 and 81. The slice runs use `MC_EndpointSlices.tla`.

| Run | cfg | Expect | Property | What it shows |
|---|---|---|---|---|
| core | `MC_NfProxy.cfg` | pass | `TypeOK`, `NoEndpointsSetSound`, `RecordedRulesInstalled`, `NoEndpointsNoDispatch` | Under every interleaving of the two threads, the no-endpoints set holds only known services without endpoints. The rule ids a service records are installed (outside the open store window of 403). A service without endpoints records no dispatch rule. |
| faults | `MC_Faults.cfg` | pass | `RecordedRulesInstalled`, `RestartRestoresServices`, `RestartRestoresEndpoints` | With one failed driver batch anywhere and one crash and restart anywhere, every recorded rule id is installed: bookkeeping is written only after the driver confirms (spec 7), and a restarted proxy records only what it installed itself. The initial list after the restart eventually brings every surviving Service and Endpoints object back into the maps. |
| slices | `MC_EndpointSlices.cfg` | pass | `SliceEndpointsInstalled`, `EndpointRulesInstalled`, `SliceRefinement` | With one slice per service, the slice handlers keep `endpointsMap` equal to the ready tuples of the slices, and every endpoint listed has its rules, while the Service thread runs concurrently. They implement `EndpointRegistry`: each change installs a listed endpoint or removes an unlisted one, and `endpointsMap` eventually reaches the slices. |
| ghost_endpoint | `MC_GhostEndpoint.cfg` | violation | `EndpointRulesInstalled` | An update that drops two addresses of one port resurrects a deleted endpoint through the aliased snapshot (388-389). |
| race_leak | `MC_RaceLeak.cfg` | violation | `NoLeakedRules` | `deleteService` runs between the unlocked `UpdateServiceChain` batch and its store (403, 356). The new dispatch rule and the service chains leak. |
| svc_after_endpoints | `MC_SvcAfterEndpoints.cfg` | violation | `HasEndpointsAccurate` | A Service added after its Endpoints keeps `WithEndpoints = false` and an empty service chain (199-206). |
| address_update | `MC_AddressUpdate.cfg` | violation | `ObjectEndpointsInstalled` | An update that changes addresses under the same ports adds and deletes nothing (460, 491). |
| delete_endpoints | `MC_DeleteEndpoints.cfg` | violation | `DeletedEndpointsForgotten` | `DeleteEndpoints` passes an unnamed object and is ignored (372, 437). |
| remove_failure | `MC_RemoveFailure.cfg` | violation | `NoEndpointsNoDispatch` | A removal that fails after the cluster IP is only logged (337-338). The dispatch rule is programmed while the LB IP still rejects. |
| restart_leak | `MC_RestartLeak.cfg` | violation | `DeletedServiceClean` | A Service is added, the proxy restarts, the Service is deleted while it is down: nothing ever removes its chains. |
| resync_no_repair | `MC_ResyncNoRepair.cfg` | violation | `ResyncRepairs` | An `AddService` whose chain batch fails returns without recording the service; the resync `UpdateService` that spec 6 relies on only logs (272-274), so the Service stays out of `serviceMap`. |
| cache_refinement | `MC_ObjectCache.cfg` | pass | `TypeOK`, `CacheRefinement` | The cache, used concurrently by two clients, implements `CacheSpec`. |

`NoEndpointsNoDispatch` says that a service whose VIP is in the reject set has no dispatch rule. With the ENOENT semantics, the service-after-endpoints path leaves `WithEndpoints` false for a dispatching service. That path is finding 3; it does not make any IP reject.

### Bounds

- **core** uses one service with node port and load balancer, two addresses, one port name, port numbers {80, 81}, and `MaxEvents = 4`. That is enough for:
  - an Endpoints add, then an update that drops a port with two addresses, which is the aliasing case;
  - a Service add and delete racing any of those steps.

  It explores about 490,000 states in under a minute.
- **faults** uses one service with a load-balancer IP, two addresses, one port number, `MaxEvents = 3`, `MaxFailures = 1` and `MaxRestarts = 1`: about 290,000 states in about 2.5 minutes, most of it the liveness check. The failure can land on any batch of `addService`, of the no-endpoints loops, of `addEndpoint`, of `UpdateServiceChain` and of `deleteEndpointRules`; `deleteService`'s rule and chain batches are refused only by the kernel itself (a stale handle or a non-empty chain), never by an injected failure. The crash can land the crash between any two steps, the re-list included. The core dimensions with a restart take more than 30 minutes.
- **slices** uses one service with a node port and a load-balancer IP, two addresses, port numbers {80, 81}, one slice and `MaxEvents = 3`: about 265,000 states in about 2 minutes, most of it the refinement's liveness. Slices with two ports and two addresses give updates that flip readiness, drop tuples and add them in one call; three events are an add and two updates, or an add, an update and a delete. With four events the refinement check takes more than 20 minutes.
- **resync_no_repair** uses the faults constants with `MaxEvents = 2` and no restart: an add and a resync.
- **cache_refinement** uses one name, two versions, two clients and `MaxObjs = 4` heap cells, which is enough for two stores and two client writes. Names are independent keys of the same maps. Two names take more than 5 minutes and add no new case.
- **The violation runs** use a single port number and no node port or external IP, so TLC finds the shortest trace. Each needs at most four events.
  - The failure run has `MaxFailures = 1` and `restart_leak` has `MaxRestarts = 1`.
  - `remove_failure` gives the service a load-balancer IP, so that a no-endpoints loop has two IPs and can stop between them.

## 6. Findings

These are recorded in `PROJECT.json`.

1. **Ghost endpoint** (code bug, proxy.go 388). The slice that `deleteEndpoint` splices is the caller's snapshot. A later address of the same port rebuilds `endpointsMap` from the shifted copy and brings back an endpoint that was already deleted. `UpdateServiceChain` then fails on its missing chain, and deletes after that leak rules.
2. **Unlocked UpdateServiceChain** (code bug, proxy.go 403). A `DeleteService` in the window deletes the stale rule id. Its batch is refused, so the service chains and the new rule remain, owned by nobody.
3. **Service after endpoints** (divergence from spec 4.5.1). `addService` never calls `UpdateServiceChain` for existing endpoints.
4. **Port-granular diff** (divergence from spec 4.5.2). Address changes within unchanged ports are ignored.
5. **DeleteEndpoints is a no-op** (code bug, proxy.go 372/437).
6. **Dispatch while rejecting** (code bug, proxy.go 337). A failed removal is logged, and the dispatch rule is programmed anyway. After a partial removal, every retry fails with ENOENT on the cluster IP, so the other IPs keep rejecting while endpoints exist.
7. **Chains leaked across a restart** (divergence from spec 4.1 and P1, proxy.go 44). `NewProxy` never reads back the kernel. The informers re-list only objects that still exist, so a Service deleted while the proxy was down keeps its chains, rules and no-endpoints elements forever. Spec 4.1 keeps chain names stable precisely so that a restarted proxy can match them.
8. **A failed AddService is never repaired** (divergence from spec 6, proxy.go 272). Handlers return without rollback, and the spec expects the next resync Update to restore the invariants. `UpdateService` only logs, so a Service whose `addService` returned on a driver error stays out of `serviceMap` (and unprogrammed) until it is deleted and added again.

One more behaviour was shown by earlier runs and is kept as a hazard, the
property staying in `core`: a partial `addToNoEndpointsList` failure makes
`addService` return with the IPs already added orphaned in the set
(proxy.go 200, `NoEndpointsSetSound`).

An address listed in two EndpointSlices of one service gives two equal
`endpointsMap` entries. What happens when one slice drops it depends on the
`deleteEndpoint` the slice handlers call (go.mod 264, 295), which returns an
error and is not in this tree, so it is kept as a hazard without a run.

## 7. Modelled and not modelled

Modelled:
- both informer threads of the proxy, their handlers step by step, and the driver with failures;
- the object cache, with its refinement of `CacheSpec`;
- crash and restart, with the informers' re-list and its liveness;
- the EndpointSlice handlers, composed with the proxy and the cache, with their refinement of `EndpointRegistry`.

Not modelled:
- **IP families.** Every address here is of one family. `UpdateServiceChain` and `getServicePortEndpointChains` (345, 220) index the chains and rules of the endpoint's family; an endpoint of another family than its service finds nil and panics, and the re-list replays the object, so the proxy would crash-loop. Modelling it needs per-family chain maps the spec does not describe; it is listed as a hazard.
- **`isLocal`** (376): every endpoint of an address equals itself. A node-name change would make `deleteEndpoint` miss the entry, the same effect findings 4 and 5 show for other causes.
- **Nil fields of a slice** (go.mod 114, 140): `processEpSlice` dereferences `Port`, `Name`, `Protocol` and `Conditions.Ready` unchecked; the resulting panic is a crash as in `Restart`.
- **The duplicate DNAT rule after a restart** (299): the re-listed `addEndpointRule` adds a second rule to an endpoint chain that survived. `NoLeakedRules` would show it, but it is already violated by findings 2 and 7 under the same bounds.
- **Rule order in the services chain** (`lastSvcRulePosition`, 146-178): positions are abstracted away; rule sets are modelled, not their order.
- **`getIPFamily`, `portProtoHash`** (508-519, tools.go): conversions whose results only name chains; chain names are model values here. `portProtoHash` is unused.
- **`portsMap`**, which is never used.
- **Logging** (`printSvcPortEntry`, 532-546).
