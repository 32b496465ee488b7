------------------------------ MODULE NfProxy ------------------------------
(***************************************************************************)
(* The nfproxy reconciler of src/pkg/proxy/proxy.go: the Service informer  *)
(* thread and the Endpoints informer thread call the handlers of one proxy *)
(* object concurrently; both share serviceMap and endpointsMap under p.mu  *)
(* and program one nftables ruleset through the nftables driver.           *)
(*                                                                         *)
(* Data abstraction: a service has one port per port name; a service port  *)
(* key (ServicePortName) is <<service, port name>>; an Endpoints object is *)
(* one subset, a set of addresses times a set of ports <<name, number>>;   *)
(* a chain is named by a tuple that stands for its hashed name; a rule is  *)
(* a record of its kernel handle, its chain and the chains it jumps to.    *)
(* The driver (pkg/nftables, not part of this source tree) is modelled by  *)
(* what the kernel does with a batch: it is applied as a whole or refused. *)
(***************************************************************************)
EXTENDS Naturals, Sequences, FiniteSets, SequencesExt

CONSTANTS
    Svcs,          \* Service (and Endpoints) object names
    PortNames,     \* port names; every service has one port of each name
    PortNums,      \* endpoint port numbers
    Addrs,         \* endpoint addresses
    NodePortSvcs,  \* services with a node port
    ExtIPSvcs,     \* services with external IPs
    LBSvcs,        \* services with load-balancer IPs
    MaxEvents,     \* bound on the informer events delivered
    MaxFailures,   \* bound on the driver batches that fail (netlink errors)
    MaxRestarts,   \* bound on the times the proxy process dies and restarts
    Absent         \* an Endpoints object that does not exist

ASSUME /\ NodePortSvcs \cup ExtIPSvcs \cup LBSvcs \subseteq Svcs
       /\ MaxEvents \in Nat /\ MaxFailures \in Nat /\ MaxRestarts \in Nat
       /\ PortNums \subseteq Nat \ {0}

Keys    == Svcs \X PortNames            \* ServicePortName
Ports   == PortNames \X PortNums        \* v1.EndpointPort
Backend == Addrs \X Ports               \* epKey: an endpoint of one port

\* An Endpoints object: no subsets, or one subset of addresses and ports.
NoSubsets == [addrs |-> {}, ports |-> {}]
EpVals == {NoSubsets} \cup
          [addrs : SUBSET Addrs \ {{}}, ports : SUBSET Ports \ {{}}]

\* Chain names (nftables.K8sSvcPrefix, K8sFwPrefix, K8sXlbPrefix,
\* K8sSepPrefix followed by the hashed service or endpoint id).
ServicesChain  == <<"services">>
NodeportsChain == <<"nodeports">>
SvcChain(k)    == <<"svc", k>>
FwChain(k)     == <<"fw", k>>
XlbChain(k)    == <<"xlb", k>>
SepChain(k, b) == <<"sep", k, b>>
SvcChainsOf(k) == {SvcChain(k), FwChain(k), XlbChain(k)}

\* The virtual IPs of a service port, in the order addToNoEndpointsList and
\* removeFromNoEndpointsList visit them (proxy.go 72-119): the cluster IP,
\* then the external IP, then the load-balancer IP.
VipTags == {"cluster", "ext", "lb"}
Vips(k) == <<"cluster">>
           \o (IF k[1] \in ExtIPSvcs THEN <<"ext">> ELSE <<>>)
           \o (IF k[1] \in LBSvcs THEN <<"lb">> ELSE <<>>)

\* The chains of a service whose rule ids the service records.
Slots == {"services", "nodeports", "fw", "svc"}
SlotChain(k, slot) ==
    CASE slot = "services"  -> ServicesChain
      [] slot = "nodeports" -> NodeportsChain
      [] slot = "fw"        -> FwChain(k)
      [] slot = "svc"       -> SvcChain(k)

VARIABLES
    \* kernel (nftables) state
    chains,     \* chains that exist
    rules,      \* installed rules [h, chain, to]
    nextH,      \* next rule handle the kernel hands out
    noEp,       \* <<service port, virtual IP>> elements of the "no endpoints" set
    failures,   \* driver batches that failed so far
    \* proxy state, guarded by p.mu
    svcMap,     \* serviceMap: key -> [gen, withEp, ids]
    epMap,      \* endpointsMap: key -> sequence of [b, chain, ids]
    \* informer state: the objects as the API server last delivered them
    svcObj,     \* Svcs -> BOOLEAN, the Service exists
    epObj,      \* Svcs -> EpVals \cup {Absent}
    events,     \* informer events delivered so far
    restarts,   \* process restarts so far
    pendSvc,    \* Services the informer's initial list has still to deliver
    pendEp,     \* Endpoints the informer's initial list has still to deliver
    \* Service informer thread
    spc,        \* "idle", "add" or "del"
    sTodo,      \* service ports not yet handled by the current call
    \* Endpoints informer thread
    epc,        \* program counter of UpdateEndpoints
    ev,         \* the call being handled: [svc, old, new]
    todo,       \* work items of the loop being run
    later,      \* work items of the loop that follows it
    dport,      \* the port being handled
    delAddrs,   \* addresses of dport still to delete
    daddr,      \* the address being deleted
    snap,       \* eps: the endpoint slice read before the address loop
    idx,        \* index of the range loop over eps in deleteEndpoint
    cur,        \* the endpoint entry being added or deleted
    usc         \* UpdateServiceChain results awaiting their store

kernelVars == <<chains, rules, nextH, noEp, failures>>
relistVars == <<restarts, pendSvc, pendEp>>
infVars    == <<svcObj, epObj, events, relistVars>>
sVars      == <<spc, sTodo>>
epVars     == <<epc, ev, todo, later, dport, delAddrs, daddr, snap,
                idx, cur, usc>>
vars == <<kernelVars, svcMap, epMap, infVars, sVars, epVars>>

-----------------------------------------------------------------------------
(* Kernel helpers                                                          *)

HandlesOf(R) == {r.h : r \in R}
WithoutHandles(R, hs) == {r \in R : r.h \notin hs}
\* A chain can be deleted when no rule is in it and no rule jumps to it.
ChainFree(c, R) == \A r \in R : r.chain # c /\ c \notin r.to
\* Rules numbered from nextH for a sequence of <<slot, chain, target>>.
NewRules(specs) ==
    {[h |-> nextH + i - 1, chain |-> specs[i][2], to |-> {specs[i][3]}] :
        i \in 1..Len(specs)}
IdsOf(specs, slot) == {nextH + i - 1 : i \in {j \in 1..Len(specs) : specs[j][1] = slot}}

\* The outcomes of one driver batch the kernel would accept (natOk) or
\* refuse: a batch the kernel accepts may still fail with a netlink error,
\* which costs one of the MaxFailures.
Batch(natOk) ==
    {[ok |-> natOk, inj |-> FALSE]}
    \cup (IF natOk THEN {[ok |-> FALSE, inj |-> TRUE]} ELSE {})
Cost(o) == IF o.inj THEN 1 ELSE 0

\* addToNoEndpointsList (add) and removeFromNoEndpointsList (~add), proxy.go
\* 72-119: one batch per virtual IP, in order, returning at the first error.
\* Adding an element that is in the set succeeds; removing one that is not
\* fails (the kernel answers ENOENT). An outcome stops before the i-th IP.
NoEpList(k, add) ==
    LET V     == Vips(k)
        n     == Len(V)
        first == IF add THEN n + 1
                 ELSE Min({j \in 1..n : <<k, V[j]>> \notin noEp} \cup {n + 1})
        Done(i) == {<<k, V[j]>> : j \in 1..(i - 1)}
    IN {[set |-> IF add THEN noEp \cup Done(i) ELSE noEp \ Done(i),
         ok  |-> i = n + 1,
         inj |-> i < first] : i \in 1..first}

\* Proxy map helpers: endpointsMap[k] is nil (length 0) when k is absent.
EpsOf(k) == IF k \in DOMAIN epMap THEN epMap[k] ELSE <<>>
SetEps(k, s) == [x \in DOMAIN epMap \cup {k} |-> IF x = k THEN s ELSE epMap[x]]
DropKey(f, k) == [x \in DOMAIN f \ {k} |-> f[x]]
\* getServicePortEndpointChains (proxy.go 212-224)
EpChains(s) == {s[i].chain : i \in 1..Len(s)}

-----------------------------------------------------------------------------
(* Service handlers (Service informer thread)                              *)

\* The rules addService programs, in the order it programs them: the
\* cluster-IP rule, the node-port rule, the external-IP rules inserted after
\* the last service rule, the load-balancer FW chain rules and the
\* load-balancer IP rules.
SvcRuleSpecs(k) ==
    <<<<"services", ServicesChain, SvcChain(k)>>>>
    \o (IF k[1] \in NodePortSvcs THEN <<<<"nodeports", NodeportsChain, SvcChain(k)>>>> ELSE <<>>)
    \o (IF k[1] \in ExtIPSvcs THEN <<<<"services", ServicesChain, SvcChain(k)>>>> ELSE <<>>)
    \o (IF k[1] \in LBSvcs
          THEN <<<<"fw", FwChain(k), SvcChain(k)>>, <<"services", ServicesChain, FwChain(k)>>>>
          ELSE <<>>)

\* addService returns when the f-th of n rule batches failed (150-194).
AddServiceReturnsNever(f, n) == FALSE
AddServiceReturns(f, n) == f <= n

\* addService (proxy.go 121-209), all of it under p.mu: reject a known key;
\* create the three service chains (an error is only logged); program the
\* service rules one batch at a time, returning at the first refused batch;
\* put the service's IPs in the no-endpoints set when endpointsMap has no
\* entry for it, returning on an error; record the service with
\* WithEndpoints = FALSE. Nothing done before an early return is undone.
addService(k) ==
    IF k \in DOMAIN svcMap
    THEN UNCHANGED <<kernelVars, svcMap>>
    ELSE LET specs == SvcRuleSpecs(k)
             n     == Len(specs)
             Up(cs, j) == {specs[j][2], specs[j][3]} \subseteq cs
         IN \E cc \in Batch(TRUE) :
            LET cs    == IF cc.ok THEN chains \cup SvcChainsOf(k) ELSE chains
                first == Min({j \in 1..n : ~Up(cs, j)} \cup {n + 1})
            IN \E f \in 1..first :
               LET done == SubSeq(specs, 1, f - 1)
                   fcost == Cost(cc) + IF f < first THEN 1 ELSE 0
               IN /\ chains' = cs
                  /\ rules' = rules \cup NewRules(done)
                  /\ nextH' = nextH + f - 1
                  /\ IF AddServiceReturns(f, n)
                     THEN /\ failures' = failures + fcost
                          /\ UNCHANGED <<noEp, svcMap>>
                     ELSE \E o \in IF Len(EpsOf(k)) = 0 THEN NoEpList(k, TRUE)
                                   ELSE {[set |-> noEp, ok |-> TRUE, inj |-> FALSE]} :
                          /\ noEp' = o.set
                          /\ failures' = failures + fcost + Cost(o)
                          /\ svcMap' = IF ~o.ok THEN svcMap
                                        ELSE [x \in DOMAIN svcMap \cup {k} |->
                                                IF x = k
                                                THEN [gen |-> nextH, withEp |-> FALSE,
                                                      ids |-> [sl \in Slots |-> IdsOf(specs, sl)]]
                                                ELSE svcMap[x]]
                  /\ failures' <= MaxFailures

\* deleteService takes a service without endpoints out of the no-endpoints
\* set (proxy.go 249-254).
Unchanged == {[set |-> noEp, ok |-> TRUE, inj |-> FALSE]}
NoEpOnDeleteKeep(k) == Unchanged
NoEpOnDelete(k) == IF svcMap[k].withEp THEN Unchanged ELSE NoEpList(k, FALSE)

\* deleteService (proxy.go 238-270), under p.mu: take the service out of the
\* no-endpoints set when it has no endpoints, delete the recorded rules of
\* each chain (one batch per chain, a refused batch is only logged), delete
\* the three service chains in one batch and forget the service.
deleteService(k) ==
    IF k \notin DOMAIN svcMap
    THEN UNCHANGED <<kernelVars, svcMap>>
    ELSE LET e    == svcMap[k]
             live == HandlesOf(rules)
             gone == UNION {e.ids[sl] : sl \in {sl \in Slots : e.ids[sl] \subseteq live}}
             left == WithoutHandles(rules, gone)
         IN /\ \E o \in NoEpOnDelete(k) :
                  /\ noEp' = o.set
                  /\ failures' = failures + Cost(o)
                  /\ failures' <= MaxFailures
            /\ rules' = left
            /\ chains' = IF \A c \in SvcChainsOf(k) : ChainFree(c, left)
                         THEN chains \ SvcChainsOf(k)
                         ELSE chains
            /\ svcMap' = DropKey(svcMap, k)
            /\ UNCHANGED nextH

\* The informer delivers AddService, UpdateService or DeleteService for s.
\* AddService and DeleteService then handle the ports one at a time.
AddService(s) ==
    /\ spc = "idle" /\ pendSvc = {} /\ events < MaxEvents /\ ~svcObj[s]
    /\ svcObj' = [svcObj EXCEPT ![s] = TRUE]
    /\ events' = events + 1
    /\ spc' = "add" /\ sTodo' = {s} \X PortNames
    /\ UNCHANGED <<kernelVars, svcMap, epMap, epObj, relistVars, epVars>>

\* UpdateService (proxy.go 272-274) only logs.
UpdateService(s) ==
    /\ spc = "idle" /\ pendSvc = {} /\ events < MaxEvents /\ svcObj[s]
    /\ events' = events + 1
    /\ UNCHANGED <<kernelVars, svcMap, epMap, svcObj, epObj, relistVars, sVars,
                   epVars>>

DeleteService(s) ==
    /\ spc = "idle" /\ pendSvc = {} /\ events < MaxEvents /\ svcObj[s]
    /\ svcObj' = [svcObj EXCEPT ![s] = FALSE]
    /\ events' = events + 1
    /\ spc' = "del" /\ sTodo' = {s} \X PortNames
    /\ UNCHANGED <<kernelVars, svcMap, epMap, epObj, relistVars, epVars>>

\* One iteration of the port loop of AddService / DeleteService.
ServicePortStep ==
    /\ spc \in {"add", "del"}
    /\ \E k \in sTodo :
          /\ IF spc = "add" THEN addService(k) ELSE deleteService(k)
          /\ sTodo' = sTodo \ {k}
          /\ spc' = IF sTodo' = {} THEN "idle" ELSE spc
    /\ UNCHANGED <<epMap, infVars, epVars>>
-----------------------------------------------------------------------------
(* UpdateServiceChain (proxy.go 331-368) for key k, the endpoints of k     *)
(* being es. When the service is known: a service without endpoints until  *)
(* now leaves the no-endpoints set, and gets WithEndpoints = TRUE if that  *)
(* succeeded (an error is only logged); then one                          *)
(* batch replaces the recorded dispatch rule of its svc chain by one that   *)
(* jumps to the chains of es, or deletes it when es is empty. A refused     *)
(* batch returns an error and leaves the recorded rule ids as they were.    *)

UscOk(k, es) ==
    LET old == svcMap[k].ids["svc"]
    IN /\ old \subseteq HandlesOf(rules)
       /\ EpChains(es) \subseteq chains

UscNewIds(k, es) == IF EpChains(es) = {} THEN {} ELSE {nextH}

\* The no-endpoints part: a service without endpoints until now leaves the
\* set; WithEndpoints becomes TRUE only if that succeeded (335-342).
UscNoEp(k) == IF svcMap[k].withEp THEN Unchanged ELSE NoEpList(k, FALSE)

\* The kernel part of UpdateServiceChain for a known k, with o the outcome
\* of the no-endpoints removal and b the outcome of the dispatch batch.
UscProgram(k, es, o, b) ==
    LET old == svcMap[k].ids["svc"]
        tgt == EpChains(es)
    IN /\ noEp' = o.set
       /\ IF ~b.ok THEN UNCHANGED <<rules, nextH>>
          ELSE IF tgt = {}
          THEN rules' = WithoutHandles(rules, old) /\ UNCHANGED nextH
          ELSE /\ rules' = WithoutHandles(rules, old)
                             \cup {[h |-> nextH, chain |-> SvcChain(k), to |-> tgt]}
               /\ nextH' = nextH + 1
       /\ failures' = failures + Cost(o) + Cost(b)
       /\ failures' <= MaxFailures

\* The entry an UpdateServiceChain call holds: its WithEndpoints set when
\* the removal went through, and its dispatch rule ids replaced by ids when
\* the batch went through.
UscEntry(e, o, b, ids) ==
    [e EXCEPT !.withEp = @ \/ o.ok, !.ids["svc"] = IF b.ok THEN ids ELSE @]

\* UpdateServiceChain run as one step, as addEndpoint does under p.mu. Its
\* error is addEndpoint's, at which a handler with ev.stop returns.
ErrorStops(ok) == todo' = IF ~ok /\ ev.stop THEN {} ELSE todo
UpdateServiceChain(k, es) ==
    IF k \notin DOMAIN svcMap
    THEN UNCHANGED <<rules, nextH, noEp, failures, svcMap, todo>>
    ELSE \E o \in UscNoEp(k), b \in Batch(UscOk(k, es)) :
            /\ UscProgram(k, es, o, b)
            /\ svcMap' = [svcMap EXCEPT ![k] = UscEntry(@, o, b, UscNewIds(k, es))]
            /\ ErrorStops(b.ok)

-----------------------------------------------------------------------------
(* Endpoints handlers (Endpoints informer thread)                          *)

\* getSvcPortName (proxy.go 500-506) of an endpoint port: the port's name.
KeyByPort(s, port) == <<s, port>>
Key(s, port) == <<s, port[1]>>

\* The work of an endpoints handler is a set of items, one loop after the
\* other: <<"add", port, addr>> calls addEndpoint, <<"del", port, addrs>>
\* reads eps := endpointsMap[k] once under p.mu and calls deleteEndpoint with
\* that eps for each address of addrs.
AddItem(p, a) == <<"add", p, a>>
DelItem(p, A) == <<"del", p, A>>
ItemAddr(x) == IF x[1] = "add" THEN x[3] ELSE CHOOSE a \in x[3] : TRUE

\* UpdateEndpoints (proxy.go 436-498) entry: a new object without name and
\* namespace is ignored, so are equal subsets; otherwise the endpoints of
\* every port of new that old lacks are added, then the endpoints of every
\* port of old that new lacks are deleted (isPortInSubset, 521-530). Its
\* loops take one port at a time, and an addEndpoint error is only logged.
UpdateEndpoints(s, old, new, named) ==
    IF ~named \/ old = new
    THEN UNCHANGED <<epVars>>
    ELSE /\ ev' = [svc |-> s, byAddr |-> FALSE, stop |-> FALSE, ret |-> "idle"]
         /\ todo' = {AddItem(p, a) : p \in new.ports \ old.ports, a \in new.addrs}
         /\ later' = {DelItem(p, old.addrs) : p \in old.ports \ new.ports}
         /\ epc' = "work"
         /\ UNCHANGED <<dport, delAddrs, daddr, snap, idx, cur, usc>>

\* The informer delivers AddEndpoints (old has no subsets), UpdateEndpoints
\* or DeleteEndpoints (new is an unnamed object with no subsets).
EndpointsEvent(s) ==
    /\ epc = "idle" /\ pendEp = {} /\ events < MaxEvents
    /\ events' = events + 1
    /\ \/ /\ epObj[s] = Absent
          /\ \E v \in EpVals : /\ epObj' = [epObj EXCEPT ![s] = v]
                               /\ UpdateEndpoints(s, NoSubsets, v, TRUE)
       \/ /\ epObj[s] # Absent
          /\ \E v \in EpVals : /\ epObj' = [epObj EXCEPT ![s] = v]
                               /\ UpdateEndpoints(s, epObj[s], v, TRUE)
       \/ /\ epObj[s] # Absent
          /\ epObj' = [epObj EXCEPT ![s] = Absent]
          /\ UpdateEndpoints(s, epObj[s], NoSubsets, FALSE)
    /\ UNCHANGED <<kernelVars, svcMap, epMap, svcObj, relistVars, sVars>>

\* The loops take the items of one port (UpdateEndpoints) or of one endpoint
\* address (the EndpointSlice handlers) before those of the next.
InOrder(x) ==
    IF ev.byAddr THEN ItemAddr(x) = daddr \/ \A y \in todo : ItemAddr(y) # daddr
    ELSE x[2] = dport \/ \A y \in todo : y[2] # dport

\* A loop is done: the next one starts, or the handler returns (to its
\* trailing step ev.ret).
EndWork ==
    /\ epc = "work" /\ todo = {}
    /\ IF later # {} THEN todo' = later /\ later' = {} /\ UNCHANGED epc
       ELSE epc' = ev.ret /\ UNCHANGED <<todo, later>>
    /\ UNCHANGED <<kernelVars, svcMap, epMap, infVars, sVars, ev, dport,
                   delAddrs, daddr, snap, idx, cur, usc>>

\* addEndpointRule (313-327): the driver creates the endpoint chain cn and
\* its DNAT rule, whose id is then recorded.
addEndpointRule(cn) ==
    /\ chains' = chains \cup {cn}
    /\ rules' = rules \cup {[h |-> nextH, chain |-> cn, to |-> {}]}
    /\ nextH' = nextH + 1

\* An add item: addEndpoint (281-302) first has the driver create the
\* endpoint chain and its DNAT rule (addEndpointRule, 313-327). A caller
\* with ev.stop returns at the first addEndpoint error.
AddEndpointRules ==
    /\ epc = "work"
    /\ \E x \in todo, bt \in Batch(TRUE) :
          LET p  == x[2]
              b  == <<x[3], p>>
              cn == SepChain(Key(ev.svc, p), b)
          IN /\ x[1] = "add" /\ InOrder(x)
             /\ todo' = IF ~bt.ok /\ ev.stop THEN {} ELSE todo \ {x}
             /\ dport' = p /\ daddr' = x[3]
             /\ failures' = failures + Cost(bt)
             /\ failures' <= MaxFailures
             /\ IF bt.ok
                THEN /\ addEndpointRule(cn)
                     /\ cur' = [b |-> b, chain |-> cn, ids |-> {nextH}]
                     /\ epc' = "addMap"
                ELSE UNCHANGED <<chains, rules, nextH, cur, epc>>
             /\ UNCHANGED noEp
    /\ UNCHANGED <<svcMap, epMap, infVars, sVars, ev, later, delAddrs, snap,
                   idx, usc>>

\* The rest of addEndpoint, under p.mu: append the endpoint to
\* endpointsMap[k] and rewire the service chain, whose error addEndpoint
\* returns.
AddEndpointToMap ==
    /\ epc = "addMap"
    /\ LET k  == Key(ev.svc, dport)
           es == Append(EpsOf(k), cur)
       IN /\ epMap' = SetEps(k, es)
          /\ UpdateServiceChain(k, es)
    /\ epc' = "work"
    /\ UNCHANGED <<chains, infVars, sVars, ev, later, dport, delAddrs, daddr,
                   snap, idx, cur, usc>>

\* A delete item: eps := endpointsMap[k] read under p.mu; a key with no
\* entry is skipped.
DeletePort ==
    /\ epc = "work"
    /\ \E x \in todo :
          /\ x[1] = "del" /\ InOrder(x)
          /\ todo' = todo \ {x}
          /\ dport' = x[2]
          /\ daddr' = IF ev.byAddr THEN ItemAddr(x) ELSE daddr
          /\ IF Key(ev.svc, x[2]) \in DOMAIN epMap
             THEN /\ snap' = epMap[Key(ev.svc, x[2])]
                  /\ delAddrs' = x[3]
                  /\ epc' = "delAddr"
             ELSE UNCHANGED <<snap, delAddrs, epc>>
    /\ UNCHANGED <<kernelVars, svcMap, epMap, infVars, sVars, ev, later, idx,
                   cur, usc>>

\* The address loop: deleteEndpoint (375-398) for the next address.
DeleteAddr ==
    /\ epc = "delAddr"
    /\ \/ /\ delAddrs = {}
          /\ epc' = "work"
          /\ UNCHANGED <<delAddrs, daddr, idx>>
       \/ \E a \in delAddrs :
            /\ delAddrs' = delAddrs \ {a}
            /\ daddr' = a
            /\ idx' = 1
            /\ epc' = "scan"
    /\ UNCHANGED <<kernelVars, svcMap, epMap, infVars, sVars, ev, todo,
                   later, dport, snap, cur, usc>>

\* The range loop of deleteEndpoint over eps from index idx on: at the next
\* entry equal to the endpoint, under p.mu,
\*    endpointsMap[k] = append(eps[:i], eps[i+1:]...)
\* which shifts the tail of eps one place left in eps's own backing array,
\* so eps keeps its length and ends with its old last element twice.
ScanEndpoints ==
    /\ epc = "scan"
    /\ LET k == Key(ev.svc, dport)
           J == {j \in idx..Len(snap) : snap[j].b = <<daddr, dport>>}
       IN \/ /\ J = {}
             /\ epc' = "delAddr"
             /\ UNCHANGED <<epMap, snap, idx, cur>>
          \/ /\ J # {}
             /\ LET j == Min(J)
                    m == RemoveAt(snap, j)
                IN /\ cur' = snap[j]
                   /\ epMap' = SetEps(k, m)
                   /\ snap' = m \o <<Last(snap)>>
                   /\ idx' = j + 1
                   /\ epc' = "usc"
    /\ UNCHANGED <<kernelVars, svcMap, infVars, sVars, ev, todo, later,
                   dport, delAddrs, daddr, usc>>

\* deleteEndpointRules (400-434) starts with UpdateServiceChain, called
\* without p.mu: the driver batch and the WithEndpoints update happen in
\* this step, the store of the new rule ids into the service entry read
\* here (svcRules.RuleID = rules) in the next one.
DeleteUpdateChain ==
    /\ epc = "usc"
    /\ LET k  == Key(ev.svc, dport)
           es == EpsOf(k)
       IN IF k \notin DOMAIN svcMap
          THEN /\ UNCHANGED <<rules, nextH, noEp, failures, svcMap>>
               /\ usc' = [gen |-> 0, ok |-> TRUE, ids |-> {}]
          ELSE \E o \in UscNoEp(k), b \in Batch(UscOk(k, es)) :
                  /\ UscProgram(k, es, o, b)
                  /\ svcMap' = [svcMap EXCEPT ![k].withEp = @ \/ o.ok]
                  /\ usc' = [gen |-> svcMap[k].gen, ok |-> b.ok,
                             ids |-> UscNewIds(k, es)]
    /\ epc' = "uscStore"
    /\ UNCHANGED <<chains, epMap, infVars, sVars, ev, todo, later, dport,
                   delAddrs, daddr, snap, idx, cur>>

\* The store lands in the entry UpdateServiceChain read, which is the one in
\* serviceMap only if no DeleteService/AddService replaced it meanwhile. An
\* error ends this deleteEndpoint call.
StoreHitsNever(k) == FALSE
StoreHits(k) == usc.ok /\ k \in DOMAIN svcMap /\ svcMap[k].gen = usc.gen

DeleteStoreChain ==
    /\ epc = "uscStore"
    /\ LET k == Key(ev.svc, dport)
       IN svcMap' = IF StoreHits(k)
                    THEN [svcMap EXCEPT ![k].ids["svc"] = usc.ids]
                    ELSE svcMap
    /\ epc' = IF usc.ok THEN "drules" ELSE "delAddr"
    /\ UNCHANGED <<kernelVars, epMap, infVars, sVars, ev, todo, later,
                   dport, delAddrs, daddr, snap, idx, cur, usc>>

\* DeleteEndpointRules: one batch deleting the endpoint's recorded rules (an
\* error ends deleteEndpoint); then DeleteChain, whose failure is logged.
DeleteEndpointRules ==
    /\ epc = "drules"
    /\ \E br \in Batch(cur.ids \subseteq HandlesOf(rules)) :
          IF br.ok
          THEN LET left == WithoutHandles(rules, cur.ids)
               IN \E bc \in Batch(ChainFree(cur.chain, left)) :
                    /\ rules' = left
                    /\ chains' = IF bc.ok THEN chains \ {cur.chain} ELSE chains
                    /\ failures' = failures + Cost(bc)
                    /\ failures' <= MaxFailures
                    /\ epc' = "dfinal"
          ELSE /\ epc' = "delAddr"
               /\ failures' = failures + Cost(br)
               /\ failures' <= MaxFailures
               /\ UNCHANGED <<rules, chains>>
    /\ UNCHANGED <<nextH, noEp, svcMap, epMap, infVars, sVars, ev, todo,
                   later, dport, delAddrs, daddr, snap, idx, cur, usc>>

\* The end of deleteEndpointRules, under p.mu: when endpointsMap[k] is now
\* empty, a known service goes back into the no-endpoints set with
\* WithEndpoints = FALSE, and k leaves endpointsMap. The range loop goes on.
LastEndpointGoneOffByOne(k) == Len(EpsOf(k)) <= 1
LastEndpointGone(k) == Len(EpsOf(k)) = 0

DeleteFinal ==
    /\ epc = "dfinal"
    /\ LET k == Key(ev.svc, dport)
       IN IF LastEndpointGone(k)
          THEN /\ IF k \in DOMAIN svcMap
                  THEN \E o \in NoEpList(k, TRUE) :
                         /\ noEp' = o.set
                         /\ failures' = failures + Cost(o)
                         /\ failures' <= MaxFailures
                         /\ svcMap' = IF o.ok THEN [svcMap EXCEPT ![k].withEp = FALSE]
                                       ELSE svcMap
                  ELSE UNCHANGED <<noEp, failures, svcMap>>
               /\ epMap' = DropKey(epMap, k)
          ELSE UNCHANGED <<noEp, failures, svcMap, epMap>>
    /\ epc' = "scan"
    /\ UNCHANGED <<chains, rules, nextH, infVars, sVars, ev, todo, later,
                   dport, delAddrs, daddr, snap, idx, cur, usc>>

-----------------------------------------------------------------------------

NoEntry == [b |-> <<>>, chain |-> <<>>, ids |-> {}]

NoEv  == [svc |-> CHOOSE s \in Svcs : TRUE, byAddr |-> FALSE, stop |-> FALSE, ret |-> "idle"]
NoUsc == [gen |-> 0, ok |-> TRUE, ids |-> {}]
AnyPort == CHOOSE p \in Ports : TRUE
AnyAddr == CHOOSE a \in Addrs : TRUE

\* NewProxy (proxy.go 43-52): empty serviceMap and endpointsMap.
EmptySvcMap == [k \in {} |-> {}]
EmptyEpMap  == [k \in {} |-> <<>>]

Init ==
    /\ chains = {ServicesChain, NodeportsChain}
    /\ rules = {}
    /\ nextH = 1
    /\ noEp = {}
    /\ failures = 0
    /\ svcMap = EmptySvcMap /\ epMap = EmptyEpMap
    /\ svcObj = [s \in Svcs |-> FALSE]
    /\ epObj = [s \in Svcs |-> Absent]
    /\ events = 0
    /\ restarts = 0 /\ pendSvc = {} /\ pendEp = {}
    /\ spc = "idle" /\ sTodo = {}
    /\ epc = "idle" /\ ev = NoEv
    /\ todo = {} /\ later = {} /\ delAddrs = {}
    /\ dport = AnyPort /\ daddr = AnyAddr
    /\ snap = <<>> /\ idx = 1 /\ cur = NoEntry /\ usc = NoUsc

\* The proxy process dies at any point (a kill, an OOM, a runtime abort such
\* as the concurrent map access of proxy.go 332) and starts again: NewProxy
\* builds empty maps, every call in progress is gone, and the kernel keeps
\* every chain, rule and set element. Objects deleted while the proxy was
\* down are gone; the informers' initial list will deliver an Add for each
\* object that survived, before any watch event.
Restart ==
    /\ restarts < MaxRestarts
    /\ restarts' = restarts + 1
    /\ \E S \in SUBSET {s \in Svcs : svcObj[s]},
         E \in SUBSET {s \in Svcs : epObj[s] # Absent} :
          /\ svcObj' = [s \in Svcs |-> s \in S]
          /\ epObj' = [s \in Svcs |-> IF s \in E THEN epObj[s] ELSE Absent]
          /\ pendSvc' = S
          /\ pendEp' = E
    /\ svcMap' = EmptySvcMap /\ epMap' = EmptyEpMap
    /\ spc' = "idle" /\ sTodo' = {}
    /\ epc' = "idle" /\ ev' = NoEv
    /\ todo' = {} /\ later' = {} /\ delAddrs' = {}
    /\ dport' = AnyPort /\ daddr' = AnyAddr
    /\ snap' = <<>> /\ idx' = 1 /\ cur' = NoEntry /\ usc' = NoUsc
    /\ UNCHANGED <<kernelVars, events>>

\* The Service informer's initial list: AddService for a surviving Service.
RelistServiceAsResync(s) ==
    /\ spc = "idle" /\ s \in pendSvc
    /\ pendSvc' = pendSvc \ {s}
    /\ UNCHANGED <<kernelVars, svcMap, epMap, svcObj, epObj, events, restarts,
                   pendEp, epVars, sVars>>
RelistService(s) ==
    /\ spc = "idle" /\ s \in pendSvc
    /\ pendSvc' = pendSvc \ {s}
    /\ spc' = "add" /\ sTodo' = {s} \X PortNames
    /\ UNCHANGED <<kernelVars, svcMap, epMap, svcObj, epObj, events, restarts,
                   pendEp, epVars>>

\* The Endpoints informer's initial list: AddEndpoints for a survivor.
RelistEndpointsAsResync(s) ==
    /\ epc = "idle" /\ s \in pendEp
    /\ pendEp' = pendEp \ {s}
    /\ UpdateEndpoints(s, epObj[s], epObj[s], TRUE)
    /\ UNCHANGED <<kernelVars, svcMap, epMap, svcObj, epObj, events, restarts,
                   pendSvc, sVars>>
RelistEndpoints(s) ==
    /\ epc = "idle" /\ s \in pendEp
    /\ pendEp' = pendEp \ {s}
    /\ UpdateEndpoints(s, NoSubsets, epObj[s], TRUE)
    /\ UNCHANGED <<kernelVars, svcMap, epMap, svcObj, epObj, events, restarts,
                   pendSvc, sVars>>

\* Both informer threads idle with nothing left to deliver.
Quiescent == spc = "idle" /\ epc = "idle" /\ events = MaxEvents
             /\ pendSvc = {} /\ pendEp = {}

Next ==
    \/ \E s \in Svcs : AddService(s) \/ UpdateService(s) \/ DeleteService(s)
    \/ ServicePortStep
    \/ \E s \in Svcs : EndpointsEvent(s)
    \/ EndWork
    \/ AddEndpointRules
    \/ AddEndpointToMap
    \/ DeletePort
    \/ DeleteAddr
    \/ ScanEndpoints
    \/ DeleteUpdateChain
    \/ DeleteStoreChain
    \/ DeleteEndpointRules
    \/ DeleteFinal
    \/ Restart
    \/ \E s \in Svcs : RelistService(s) \/ RelistEndpoints(s)
    \/ Quiescent /\ UNCHANGED vars

\* Each informer thread runs its handler to completion once it has started,
\* and after NewProxy each informer delivers its initial list (client-go
\* lists every object before it watches).
Fairness ==
    /\ WF_vars(ServicePortStep)
    /\ \A s \in Svcs : WF_vars(RelistService(s)) /\ WF_vars(RelistEndpoints(s))
    /\ WF_vars(EndWork \/ AddEndpointRules \/ AddEndpointToMap \/ DeletePort \/ DeleteAddr
               \/ ScanEndpoints \/ DeleteUpdateChain \/ DeleteStoreChain
               \/ DeleteEndpointRules \/ DeleteFinal)

Spec == Init /\ [][Next]_vars /\ Fairness

-----------------------------------------------------------------------------
(* Properties                                                              *)


Entry == [b : Backend, chain : {SepChain(k, b) : k \in Keys, b \in Backend},
          ids : SUBSET Nat]

AllChains == {ServicesChain, NodeportsChain} \cup UNION {SvcChainsOf(k) : k \in Keys}
             \cup {SepChain(k, b) : k \in Keys, b \in Backend}

TypeOK ==
    /\ chains \subseteq AllChains
    /\ rules \subseteq [h : Nat, chain : AllChains, to : SUBSET AllChains]
    /\ nextH \in Nat /\ noEp \subseteq Keys \X VipTags
    /\ failures \in 0..MaxFailures
    /\ DOMAIN svcMap \subseteq Keys
    /\ \A k \in DOMAIN svcMap :
          svcMap[k] \in [gen : Nat, withEp : BOOLEAN, ids : [Slots -> SUBSET Nat]]
    /\ DOMAIN epMap \subseteq Keys
    /\ \A k \in DOMAIN epMap : epMap[k] \in Seq(Entry)
    /\ svcObj \in [Svcs -> BOOLEAN] /\ epObj \in [Svcs -> EpVals \cup {Absent}]
    /\ events \in 0..MaxEvents
    /\ restarts \in 0..MaxRestarts /\ pendSvc \subseteq Svcs /\ pendEp \subseteq Svcs
    /\ spc \in {"idle", "add", "del"} /\ sTodo \subseteq Keys
    /\ epc \in {"idle", "work", "addMap", "delAddr", "scan", "usc",
                "uscStore", "drules", "dfinal"}
    /\ todo \cup later \subseteq {AddItem(p, a) : p \in Ports, a \in Addrs}
                          \cup {DelItem(p, A) : p \in Ports, A \in SUBSET Addrs}
    /\ snap \in Seq(Entry) /\ idx \in Nat \ {0}

\* (I3, proxy.go 199-204, 335-341, 417-431, 249-254) A virtual IP of a service
\* port is in the no-endpoints set only while the proxy knows the service and
\* records it as having no endpoints: whatever the Service and Endpoints threads interleave,
\* no-endpoints entries never outlive their service and never stay once
\* UpdateServiceChain has wired endpoints.
NoEndpointsSetSound ==
    \A e \in noEp : e[1] \in DOMAIN svcMap /\ ~svcMap[e[1]].withEp

\* (spec 6 error policy, proxy.go 150-206, 272-274) Handlers return
\* without rollback and "the next watcher resync is expected to deliver an
\* authoritative Update that restores the invariants": once the resync
\* Update of an existing Service has been handled, every port of it is in
\* serviceMap, even when its AddService returned half-way on a driver error.
ResyncRepairs ==
    [][\A s \in Svcs :
         UpdateService(s) => \A n \in PortNames : <<s, n>> \in DOMAIN svcMap']_vars

\* (P1, spec 3.3, proxy.go 43-52, 238-270) Once both threads are idle and
\* the informers' initial lists are delivered, a Service that no longer
\* exists has left nothing behind in the kernel: none of its service chains
\* (so no rule in them and no jump to them) and none of its virtual IPs in
\* the no-endpoints set, even when the proxy died and restarted meanwhile.
DeletedServiceClean ==
    (spc = "idle" /\ epc = "idle" /\ pendSvc = {} /\ pendEp = {}) =>
        \A k \in Keys : ~svcObj[k[1]] =>
            /\ chains \cap SvcChainsOf(k) = {}
            /\ \A v \in VipTags : <<k, v>> \notin noEp

\* (I6, proxy.go 155-196, 356-363, 388-395) Rule handles are authoritative:
\* except while the Endpoints thread is between the UpdateServiceChain batch
\* and the store of its result, every rule id a known service records is a
\* rule installed in the kernel, so DeleteService can delete it.
RecordedRulesInstalled ==
    epc # "uscStore" =>
        \A k \in DOMAIN svcMap : \A sl \in Slots :
            svcMap[k].ids[sl] \subseteq HandlesOf(rules)

\* (P3, proxy.go 335-363, 417-431) A service never both rejects and
\* dispatches: while a virtual IP of a known service is in the no-endpoints
\* set, the service records no dispatch rule in its service chain. The rule
\* that jumped to the last endpoint goes before the service re-enters the
\* set, and the service leaves the set before a dispatch rule is programmed.
NoEndpointsNoDispatch ==
    epc # "uscStore" =>
        \A e \in noEp : e[1] \in DOMAIN svcMap => svcMap[e[1]].ids["svc"] = {}

\* (I1, proxy.go 375-398) Every endpoint in endpointsMap has its DNAT rules
\* installed in its endpoint chain: deleting endpoints never leaves an entry
\* whose rules are gone.
EndpointRulesInstalled ==
    \A k \in DOMAIN epMap : \A i \in 1..Len(epMap[k]) :
        /\ epMap[k][i].chain \in chains
        /\ epMap[k][i].ids \subseteq HandlesOf(rules)

\* (I2, proxy.go 199-206) Once both threads are idle, a known service has
\* WithEndpoints exactly when endpointsMap holds endpoints for it.
HasEndpointsAccurate ==
    (spc = "idle" /\ epc = "idle") =>
        \A k \in DOMAIN svcMap : svcMap[k].withEp = (Len(EpsOf(k)) > 0)

\* (I6, proxy.go 331-368, 238-270) Every rule in a chain of the proxy is
\* recorded by the service or endpoint that owns it, so DeleteService and
\* deleteEndpoint can remove it: no rule is leaked.
OwnedHandles ==
    UNION {UNION {svcMap[k].ids[sl] : sl \in Slots} : k \in DOMAIN svcMap}
    \cup UNION {UNION {epMap[k][i].ids : i \in 1..Len(epMap[k])} : k \in DOMAIN epMap}
\* The endpoint an addEndpoint or deleteEndpoint call holds between its steps.
InFlight == (IF epc \in {"addMap", "usc", "uscStore", "drules"} THEN cur.ids ELSE {})
            \cup (IF epc = "uscStore" THEN usc.ids ELSE {})
NoLeakedRules == HandlesOf(rules) \subseteq OwnedHandles \cup InFlight

\* (spec 4.5.2) Once both threads are idle, every endpoint (address, port)
\* of every existing Endpoints object is in endpointsMap: UpdateEndpoints
\* adds each endpoint that new has and old lacks.
BackendsOf(k) == IF k \in DOMAIN epMap THEN {epMap[k][i].b : i \in 1..Len(epMap[k])} ELSE {}
ObjectEndpointsInstalled ==
    (spc = "idle" /\ epc = "idle") =>
        \A s \in Svcs : epObj[s] # Absent =>
            \A n \in PortNames :
                {<<a, p>> \in epObj[s].addrs \X epObj[s].ports : p[1] = n}
                    \subseteq BackendsOf(<<s, n>>)

\* (spec 4.5.2) DeleteEndpoints removes every endpoint of the deleted
\* object: once both threads are idle, no key of a deleted Endpoints object
\* is left in endpointsMap.
DeletedEndpointsForgotten ==
    (spc = "idle" /\ epc = "idle") =>
        \A s \in Svcs : epObj[s] = Absent =>
            \A n \in PortNames : <<s, n>> \notin DOMAIN epMap

\* (spec 4.1, proxy.go 43-52, 54-69, 276-279) Recovery from a crash: a
\* Service that survived a restart is eventually back in serviceMap with all
\* its ports, unless it is deleted or a driver batch fails first (the failure
\* is a separate hazard, proxy.go 150). The empty maps of NewProxy are
\* refilled by the informers' initial list, whatever the Endpoints thread
\* does meanwhile.
RestartRestoresServices ==
    \A s \in Svcs :
        (s \in pendSvc /\ failures < MaxFailures)
            ~> (~svcObj[s] \/ failures = MaxFailures
                \/ \A n \in PortNames : <<s, n>> \in DOMAIN svcMap)

\* (spec 4.1, proxy.go 43-52, 276-279, 436-467) Likewise every endpoint of
\* an Endpoints object that survived a restart is eventually back in
\* endpointsMap: the initial list replays it as an Add against the empty map.
ObjBackends(s) == epObj[s].addrs \X epObj[s].ports
RestartRestoresEndpoints ==
    \A s \in Svcs :
        (s \in pendEp /\ failures < MaxFailures)
            ~> (epObj[s] = Absent \/ failures = MaxFailures
                \/ \A b \in ObjBackends(s) : b \in BackendsOf(<<s, b[2][1]>>))

==============================================================================
