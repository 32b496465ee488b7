---------------------------- MODULE ObjectCache ----------------------------
(***************************************************************************)
(* The object cache of src/unnamed/part_000: one mutex and one map per     *)
(* kind (Service, Endpoints, EndpointSlice) from NamespacedName to a       *)
(* pointer. Every method holds the mutex for its whole body, so each is    *)
(* one step; clients (informer callbacks) call them concurrently.          *)
(*                                                                         *)
(* Objects live in a heap of cells, so that pointers and copies are        *)
(* explicit: the store methods keep a DeepCopy of the caller's object, the *)
(* get methods hand out the cached pointer itself. A client holds the      *)
(* object the informer gave it and may write to it after storing it.      *)
(***************************************************************************)
EXTENDS Naturals, FiniteSets, TLC

CONSTANTS
    Names,      \* NamespacedName of the objects
    Versions,   \* resource versions
    Clients,    \* threads calling the cache
    MaxObjs,    \* bound on the heap cells allocated
    Nil,        \* the nil pointer
    NotFound    \* the "not found in the cache" error

Kinds == {"svc", "ep", "epsl"}
Ptrs  == 1..MaxObjs
Obj   == [name : Names, ver : Versions]

VARIABLES
    heap,    \* allocated cells: Ptr -> Obj
    cache,   \* cache[kd][n]: the cached pointer, or Nil
    holds,   \* holds[c]: the object client c holds, or Nil
    ret      \* ret[c]: what client c's last get returned

vars == <<heap, cache, holds, ret>>

Init ==
    /\ heap = [p \in {} |-> CHOOSE o \in Obj : TRUE]
    /\ cache = [kd \in Kinds |-> [n \in Names |-> Nil]]
    /\ holds = [c \in Clients |-> Nil]
    /\ ret = [c \in Clients |-> [err |-> NotFound]]

NewCell == Cardinality(DOMAIN heap) + 1
Alloc(o) == heap @@ (NewCell :> o)
CanAlloc == NewCell <= MaxObjs

(* The clients' side: the informer hands c an object, and c may later     *)
(* change its own object (e.g. a new resource version).                   *)
Receive(c, n, v) ==
    /\ CanAlloc
    /\ heap' = Alloc([name |-> n, ver |-> v])
    /\ holds' = [holds EXCEPT ![c] = NewCell]
    /\ UNCHANGED <<cache, ret>>

Modify(c, v) ==
    /\ holds[c] # Nil
    /\ heap' = [heap EXCEPT ![holds[c]].ver = v]
    /\ UNCHANGED <<cache, holds, ret>>

(* The cache's methods, generic in the kind.                              *)

\* s.DeepCopy(): a fresh cell with the caller's object in it.
CopyOfAlias(p) == p
CopyOf(p) == NewCell

\* store*InCache: cache[kd][name of obj] = obj.DeepCopy()
StoreInCache(c, kd) ==
    LET p == holds[c]
        q == CopyOf(p)
    IN /\ p # Nil /\ CanAlloc
       /\ heap' = IF q = NewCell THEN Alloc(heap[p]) ELSE heap
       /\ cache' = [cache EXCEPT ![kd][heap[p].name] = q]
       /\ UNCHANGED <<holds, ret>>

\* remove*FromCache: delete the entry, or only log when there is none.
RemoveFromCache(kd, n) ==
    /\ cache' = [cache EXCEPT ![kd][n] = Nil]
    /\ UNCHANGED <<heap, holds, ret>>

\* ObjectMeta.GetResourceVersion() of a cached object.
VersionOfPtr(p) == p
VersionOf(p) == heap[p].ver

\* getCached*Version: the resource version, or NotFound.
GetCachedVersion(c, kd, n) ==
    /\ ret' = [ret EXCEPT ![c] = IF cache[kd][n] = Nil THEN [err |-> NotFound]
                                 ELSE [ver |-> VersionOf(cache[kd][n])]]
    /\ UNCHANGED <<heap, cache, holds>>

\* getLastKnown*FromCache: the cached pointer itself, or NotFound.
GetLastKnown(c, kd, n) ==
    /\ ret' = [ret EXCEPT ![c] = IF cache[kd][n] = Nil THEN [err |-> NotFound]
                                 ELSE [ptr |-> cache[kd][n]]]
    /\ UNCHANGED <<heap, cache, holds>>

(* The twelve methods of part_000, four per kind.                         *)
getCachedSvcVersion(c, n)      == GetCachedVersion(c, "svc", n)
getLastKnownSvcFromCache(c, n) == GetLastKnown(c, "svc", n)
storeSvcInCache(c)             == StoreInCache(c, "svc")
removeSvcFromCache(n)          == RemoveFromCache("svc", n)
getCachedEpVersion(c, n)       == GetCachedVersion(c, "ep", n)
getLastKnownEpFromCache(c, n)  == GetLastKnown(c, "ep", n)
storeEpInCache(c)              == StoreInCache(c, "ep")
removeEpFromCache(n)           == RemoveFromCache("ep", n)
getCachedEpSlVersion(c, n)     == GetCachedVersion(c, "epsl", n)
getLastKnownEpSlFromCache(c,n) == GetLastKnown(c, "epsl", n)
storeEpSlInCache(c)            == StoreInCache(c, "epsl")
removeEpSlFromCache(n)         == RemoveFromCache("epsl", n)

Next ==
    \/ \E c \in Clients, n \in Names, v \in Versions : Receive(c, n, v)
    \/ \E c \in Clients, v \in Versions : Modify(c, v)
    \/ \E c \in Clients :
          storeSvcInCache(c) \/ storeEpInCache(c) \/ storeEpSlInCache(c)
    \/ \E n \in Names :
          removeSvcFromCache(n) \/ removeEpFromCache(n) \/ removeEpSlFromCache(n)
    \/ \E c \in Clients, n \in Names :
          \/ getCachedSvcVersion(c, n) \/ getLastKnownSvcFromCache(c, n)
          \/ getCachedEpVersion(c, n) \/ getLastKnownEpFromCache(c, n)
          \/ getCachedEpSlVersion(c, n) \/ getLastKnownEpSlFromCache(c, n)

Spec == Init /\ [][Next]_vars

-----------------------------------------------------------------------------
(* Properties                                                              *)

TypeOK ==
    /\ DOMAIN heap \subseteq Ptrs /\ \A p \in DOMAIN heap : heap[p] \in Obj
    /\ cache \in [Kinds -> [Names -> DOMAIN heap \cup {Nil}]]
    /\ holds \in [Clients -> DOMAIN heap \cup {Nil}]
    /\ ret \in [Clients -> [err : {NotFound}] \cup [ver : Versions]
                           \cup [ptr : DOMAIN heap]]

\* What a client's last get means as a version: the resource version it
\* returned, or the version of the object behind the pointer it returned.
RetVersion(r) ==
    IF "err" \in DOMAIN r THEN NotFound
    ELSE IF "ver" \in DOMAIN r THEN r.ver ELSE heap[r.ptr].ver

Abs == INSTANCE CacheSpec WITH
    Kinds <- Kinds,
    stored <- [kd \in Kinds |-> [n \in Names |->
                  IF cache[kd][n] = Nil THEN NotFound ELSE heap[cache[kd][n]].ver]],
    got <- [c \in Clients |-> RetVersion(ret[c])]

\* (spec 4.2, part_000 66-70, 110-114, 154-158) The cache implements the
\* abstract cache: whatever the clients do to the objects they stored
\* (store keeps a DeepCopy) and however their calls interleave, the cache
\* only changes by a store or a remove, and every get and version lookup
\* returns the version stored last under that name.
CacheRefinement == Abs!Spec
=============================================================================
