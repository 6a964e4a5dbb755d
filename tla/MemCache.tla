------------------------------ MODULE MemCache -------------------------------
(***************************************************************************)
(* mod_mem_cache of httpd, the cache that the worker threads of a child    *)
(* share: a hash table and a priority queue of cache objects under one     *)
(* lock, reference counts that are changed with and without the lock, and  *)
(* the requests of mod_cache that open, create, fill and remove objects.   *)
(*                                                                         *)
(* Everything between lock and unlock of sconf->lock is one step.  The     *)
(* priority queue is abstracted to the set of its elements and             *)
(* cache_pq_pop to the choice of any of them: which one has the highest    *)
(* priority is up to the algorithm configured and to the history.          *)
(***************************************************************************)
EXTENDS Integers, FiniteSetsExt

CONSTANTS
  Request,     \* requests that are served at the same time
  Url,
  Obj,         \* cache objects; one that was freed is used again
  None,
  MaxEntries,  \* sconf->max_object_cnt
  MaxSize,     \* sconf->max_cache_size
  MaxObject,   \* sconf->max_cache_object_size
  RemoveUrlRaces  \* requests may call remove_url for an object that has
                  \* left the cache since they opened it

ASSUME RequestAssumption == IsFiniteSet(Request)

(* mem_cache_post_config refuses MaxObject >= MaxSize.                     *)
ASSUME ConfigAssumption ==
  /\ MaxEntries \in Nat \ {0} /\ MaxSize \in Nat /\ MaxObject \in 1 .. MaxSize - 1
  /\ None \notin Obj \cup Url

VARIABLES
  ht,            \* cache_hash: the object of each key
  pq,            \* cache_pqueue: its elements
  current_size,
  live,          \* the objects that are allocated
  key, m_len, refcount,   \* the fields of the objects
  complete,      \* the objects whose field complete is set
  pc,            \* what each request is about to do
  url,           \* its key
  stale,         \* its cache->stale_handle, or the one it is about to drop
  handle,        \* its cache->handle
  held,          \* the objects for which it has registered decrement_refcount
  dec            \* the object whose cleanup has looked at complete

cacheVars == <<ht, pq, current_size, live, key, m_len, refcount, complete>>
vars == <<cacheVars, pc, url, stale, handle, held, dec>>

Init ==
  /\ ht = [u \in Url |-> None] /\ pq = {} /\ current_size = 0
  /\ live = {}
  /\ key = [o \in Obj |-> None]
  /\ m_len = [o \in Obj |-> 0]
  /\ refcount = [o \in Obj |-> 0]
  /\ complete = {}
  /\ pc = [r \in Request |-> "idle"]
  /\ url = [r \in Request |-> None]
  /\ stale = [r \in Request |-> None]
  /\ handle = [r \in Request |-> None]
  /\ held = [r \in Request |-> {}]
  /\ dec = [r \in Request |-> None]

Goto(r, p) == pc' = [pc EXCEPT ![r] = p]

SumLen(S) == MapThenSumSet(LAMBDA o : m_len[o], S)

-----------------------------------------------------------------------------
(* cache_cache.c, under the lock. *)

cache_find(u) == ht[u]

(* The loop of cache_insert has ejected enough for n more bytes.           *)
Fits(n, ejected) ==
  /\ Cardinality(pq \ ejected) < MaxEntries
  /\ current_size - SumLen(ejected) + n <= MaxSize

(* The loop may have ejected these objects: it stops as soon as n fits.    *)
Ejects(n, ejected) ==
  /\ Fits(n, ejected)
  /\ ejected # {} => \E o \in ejected : ~ Fits(n, ejected \ {o})

(* Seeded fault: the size of what was ejected is not subtracted.           *)
cache_insertGrows(o, n, ejected) ==
  /\ Ejects(n, ejected)
  /\ pq' = (pq \ ejected) \cup {o}
  /\ current_size' = current_size + n
  /\ ht' = [u \in Url |-> IF u = key'[o] THEN o
                          ELSE IF ht[u] \in ejected THEN None ELSE ht[u]]

(* Seeded fault: ejected objects stay in the hash table.                   *)
cache_insertKeepsHash(o, n, ejected) ==
  /\ Ejects(n, ejected)
  /\ pq' = (pq \ ejected) \cup {o}
  /\ current_size' = current_size - SumLen(ejected) + n
  /\ ht' = [ht EXCEPT ![key'[o]] = o]

cache_insert(o, n, ejected) ==
  /\ Ejects(n, ejected)
  /\ pq' = (pq \ ejected) \cup {o}
  /\ current_size' = current_size - SumLen(ejected) + n
  /\ ht' = [u \in Url |-> IF u = key'[o] THEN o
                          ELSE IF ht[u] \in ejected THEN None ELSE ht[u]]

(***************************************************************************)
(* cache_remove: for an object that is not in the queue any more, pos is   *)
(* stale and another element, if any, is overwritten by the last one; the  *)
(* key and the size are taken off all the same.                            *)
(***************************************************************************)
cache_remove(o) ==
  /\ IF o \in pq THEN pq' = pq \ {o}
     ELSE \E x \in IF pq = {} THEN {None} ELSE pq : pq' = pq \ {x}
  /\ ht' = [ht EXCEPT ![key[o]] = None]
  /\ current_size' = current_size - m_len[o]

(* Reference counts after dropping one from each object of S and adding    *)
(* one to each of T; the objects whose count drops to zero are cleaned up. *)
Recount(S, T) ==
  /\ refcount' = [o \in Obj |-> refcount[o] - (IF o \in S THEN 1 ELSE 0)
                                            + (IF o \in T THEN 1 ELSE 0)]
  /\ live' = (live \cup T) \ {o \in S : refcount'[o] = 0}

-----------------------------------------------------------------------------
(* open_entity and what cache_select makes of it. *)

(* Seeded fault: no reference for the request.                             *)
OpenNoRef(r, u) ==
  LET o == cache_find(u)
  IN  /\ pc[r] = "idle"
      /\ o \in complete
      /\ url' = [url EXCEPT ![r] = u]
      /\ held' = [held EXCEPT ![r] = {o}]
      /\ Goto(r, "serve") /\ handle' = [handle EXCEPT ![r] = o]
      /\ UNCHANGED <<cacheVars, dec, stale>>

(***************************************************************************)
(* A hit: the object is fresh; or stale, and the backend is asked whether  *)
(* it has changed; or stale without a means to ask; or for another Vary.   *)
(***************************************************************************)
Open(r, u) ==
  LET o == cache_find(u)
  IN  /\ pc[r] = "idle"
      /\ o \in complete
      /\ url' = [url EXCEPT ![r] = u]
      /\ Recount({}, {o})
      /\ held' = [held EXCEPT ![r] = {o}]
      /\ \/ Goto(r, "serve") /\ handle' = [handle EXCEPT ![r] = o] /\ UNCHANGED stale
         \/ Goto(r, "backend") /\ stale' = [stale EXCEPT ![r] = o] /\ UNCHANGED handle
         \/ Goto(r, "drop") /\ stale' = [stale EXCEPT ![r] = o] /\ UNCHANGED handle
         \/ Goto(r, "backend") /\ UNCHANGED <<stale, handle>>
      /\ UNCHANGED <<ht, pq, current_size, key, m_len, complete, dec>>

OpenDeclined(r, u) ==
  /\ pc[r] = "idle"
  /\ cache_find(u) \notin complete
  /\ url' = [url EXCEPT ![r] = u]
  /\ Goto(r, "backend")
  /\ UNCHANGED <<cacheVars, stale, handle, held, dec>>

(***************************************************************************)
(* remove_url, without a look whether the object is still in the cache.    *)
(***************************************************************************)
remove_url(o) ==
  /\ RemoveUrlRaces \/ cache_find(key[o]) = o
  /\ cache_remove(o)
  /\ Recount({o}, {})
  /\ UNCHANGED <<key, m_len, complete>>

(* cache_select: the copy is stale and cannot be revalidated.              *)
DropStale(r) ==
  /\ pc[r] = "drop"
  /\ remove_url(stale[r])
  /\ stale' = [stale EXCEPT ![r] = None]
  /\ Goto(r, "backend")
  /\ UNCHANGED <<url, handle, held, dec>>

-----------------------------------------------------------------------------
(* The response of the backend. *)

(***************************************************************************)
(* It may not be cached, and the CACHE_REMOVE_URL filter is still there.   *)
(* If it is a 304, the stale object is sent all the same.                  *)
(***************************************************************************)
Uncacheable(r) ==
  /\ pc[r] = "backend"
  /\ IF stale[r] = None THEN UNCHANGED cacheVars ELSE remove_url(stale[r])
  /\ \/ Goto(r, "end") /\ UNCHANGED handle
     \/ /\ stale[r] # None
        /\ handle' = [handle EXCEPT ![r] = stale[r]]
        /\ Goto(r, "serve")
  /\ UNCHANGED <<url, stale, held, dec>>

(* Another request has the lock of the URL: no filter of mod_cache looks.  *)
PassThrough(r) ==
  /\ pc[r] = "backend"
  /\ Goto(r, "end")
  /\ UNCHANGED <<cacheVars, url, stale, handle, held, dec>>

(* Seeded fault: the body is stored again into the object others may send. *)
NotModifiedStores(r) ==
  /\ pc[r] = "backend"
  /\ stale[r] # None
  /\ handle' = [handle EXCEPT ![r] = stale[r]]
  /\ complete' = complete \ {stale[r]}
  /\ Goto(r, "store")
  /\ UNCHANGED <<ht, pq, current_size, live, key, m_len, refcount,
                 url, stale, held, dec>>

(* 304: the stale object is used, with new headers.                        *)
NotModified(r) ==
  /\ pc[r] = "backend"
  /\ stale[r] # None
  /\ handle' = [handle EXCEPT ![r] = stale[r]]
  /\ Goto(r, "serve")
  /\ UNCHANGED <<cacheVars, url, stale, held, dec>>

(* New content: remove_entity drops the stale object, if it is still there.*)
Replace(r) ==
  /\ pc[r] = "backend"
  /\ LET o == stale[r]
     IN  IF o # None /\ cache_find(url[r]) = o
         THEN cache_remove(o) /\ Recount({o}, {}) /\ UNCHANGED <<key, m_len, complete>>
         ELSE UNCHANGED cacheVars
  /\ stale' = [stale EXCEPT ![r] = None]
  /\ Goto(r, "create")
  /\ UNCHANGED <<url, handle, held, dec>>

(* create_entity: the size is out of bounds, or the key is taken.          *)
CreateDeclined(r) ==
  /\ pc[r] = "create"
  /\ Goto(r, "end")
  /\ UNCHANGED <<cacheVars, url, stale, handle, held, dec>>

Create(r, o, len, ejected) ==
  /\ pc[r] = "create"
  /\ cache_find(url[r]) = None
  /\ o \notin live
  /\ key' = [key EXCEPT ![o] = url[r]]
  /\ m_len' = [m_len EXCEPT ![o] = len]
  /\ complete' = complete \ {o}
  /\ cache_insert(o, len, ejected)
  /\ refcount' = [x \in Obj |-> IF x = o THEN 2
                                ELSE refcount[x] - (IF x \in ejected THEN 1 ELSE 0)]
  /\ live' = (live \cup {o}) \ {x \in ejected : refcount'[x] = 0}
  /\ handle' = [handle EXCEPT ![r] = o]
  /\ held' = [held EXCEPT ![r] = @ \cup {o}]
  /\ Goto(r, "store")
  /\ UNCHANGED <<url, stale, dec>>

-----------------------------------------------------------------------------
(* store_body. *)

(* All m_len bytes have come, or a file handle is cached: complete = 1.    *)
StoreWhole(r) ==
  /\ pc[r] = "store"
  /\ complete' = complete \cup {handle[r]}
  /\ Goto(r, "end")
  /\ UNCHANGED <<ht, pq, current_size, live, key, m_len, refcount,
                 url, stale, handle, held, dec>>

(* Seeded fault: the length is corrected while the object is in the queue. *)
StoreShorterInPlace(r, count, ejected) ==
  LET o == handle[r]
  IN  /\ pc[r] = "store"
      /\ count < m_len[o] /\ ejected = {}
      /\ m_len' = [m_len EXCEPT ![o] = count]
      /\ Goto(r, "open")
      /\ UNCHANGED <<ht, pq, current_size, live, refcount, key, complete,
                     url, stale, handle, held, dec>>

(***************************************************************************)
(* A streamed response was shorter than assumed: the object is taken out   *)
(* and put back with its true size, which may eject others; an object that *)
(* was ejected meanwhile is put back too, unless its key is taken.         *)
(***************************************************************************)
StoreShorter(r, count, ejected) ==
  LET o == handle[r]
  IN  /\ pc[r] = "store"
      /\ count < m_len[o]
      /\ UNCHANGED key
      /\ \/ /\ cache_find(url[r]) = o
            /\ ejected = {}   \* there is room: o itself was larger
            /\ current_size' = current_size - m_len[o] + count
            /\ m_len' = [m_len EXCEPT ![o] = count]
            /\ UNCHANGED <<ht, pq, live, refcount>>
         \/ /\ cache_find(url[r]) \notin {o, None}
            /\ ejected = {}
            /\ UNCHANGED <<ht, pq, current_size, m_len, live, refcount>>
         \/ /\ cache_find(url[r]) = None
            /\ cache_insert(o, count, ejected)
            /\ m_len' = [m_len EXCEPT ![o] = count]
            /\ Recount(ejected, {o})
      /\ Goto(r, "open")
      /\ UNCHANGED <<complete, url, stale, handle, held, dec>>

(* complete = 1, behind the lock.                                          *)
OpenForBusiness(r) ==
  /\ pc[r] = "open"
  /\ complete' = complete \cup {handle[r]}
  /\ Goto(r, "end")
  /\ UNCHANGED <<ht, pq, current_size, live, key, m_len, refcount,
                 url, stale, handle, held, dec>>

(* The response breaks off, is too long, or memory is short.               *)
StoreFails(r) ==
  /\ pc[r] = "store"
  /\ Goto(r, "end")
  /\ UNCHANGED <<cacheVars, url, stale, handle, held, dec>>

-----------------------------------------------------------------------------
(* The end of a request. *)

(* The body is sent from the memory of the object.                         *)
Serve(r) ==
  /\ pc[r] = "serve"
  /\ Goto(r, "end")
  /\ UNCHANGED <<cacheVars, url, stale, handle, held, dec>>

(* Seeded fault: an incomplete object is left in the cache.                *)
CleanupFirstKeeps(r, o) ==
  /\ pc[r] = "end" /\ dec[r] = None
  /\ o \in held[r]
  /\ dec' = [dec EXCEPT ![r] = o]
  /\ UNCHANGED <<cacheVars, pc, url, stale, handle, held>>

(* decrement_refcount: an object that was not completed leaves the cache.  *)
CleanupFirst(r, o) ==
  /\ pc[r] = "end" /\ dec[r] = None
  /\ o \in held[r]
  /\ dec' = [dec EXCEPT ![r] = o]
  /\ IF o \notin complete /\ cache_find(key[o]) = o
     THEN cache_remove(o) /\ Recount({o}, {}) /\ UNCHANGED <<key, m_len, complete>>
     ELSE UNCHANGED cacheVars
  /\ UNCHANGED <<pc, url, stale, handle, held>>

(* Seeded fault: the reference is dropped only from a complete object.     *)
CleanupThenIfComplete(r) ==
  /\ dec[r] # None
  /\ IF dec[r] \in complete THEN Recount({dec[r]}, {}) ELSE UNCHANGED <<live, refcount>>
  /\ held' = [held EXCEPT ![r] = @ \ {dec[r]}]
  /\ dec' = [dec EXCEPT ![r] = None]
  /\ UNCHANGED <<ht, pq, current_size, key, m_len, complete, pc, url, stale, handle>>

(* decrement_refcount: the reference of the request, without the lock.     *)
CleanupThen(r) ==
  /\ dec[r] # None
  /\ Recount({dec[r]}, {})
  /\ held' = [held EXCEPT ![r] = @ \ {dec[r]}]
  /\ dec' = [dec EXCEPT ![r] = None]
  /\ UNCHANGED <<ht, pq, current_size, key, m_len, complete, pc, url, stale, handle>>

RequestEnds(r) ==
  /\ pc[r] = "end" /\ held[r] = {}
  /\ Goto(r, "idle")
  /\ url' = [url EXCEPT ![r] = None]
  /\ stale' = [stale EXCEPT ![r] = None]
  /\ handle' = [handle EXCEPT ![r] = None]
  /\ UNCHANGED <<cacheVars, held, dec>>

(* cleanup_cache_mem: the pool of the configuration is destroyed.          *)
CleanupCache ==
  /\ \A r \in Request : pc[r] = "idle"
  /\ pq # {}
  /\ Recount(pq, {})
  /\ ht' = [u \in Url |-> IF ht[u] \in pq THEN None ELSE ht[u]]
  /\ current_size' = current_size - SumLen(pq)
  /\ pq' = {}
  /\ UNCHANGED <<key, m_len, complete, pc, url, stale, handle, held, dec>>

-----------------------------------------------------------------------------
Step(r) ==
  \/ \E u \in Url : Open(r, u) \/ OpenDeclined(r, u)
  \/ DropStale(r)
  \/ Uncacheable(r) \/ PassThrough(r) \/ NotModified(r) \/ Replace(r)
  \/ CreateDeclined(r)
  \/ \E ejected \in SUBSET pq, n \in 1 .. MaxObject :
       (\E o \in Obj : Create(r, o, n, ejected)) \/ StoreShorter(r, n, ejected)
  \/ StoreWhole(r) \/ OpenForBusiness(r) \/ StoreFails(r)
  \/ Serve(r)
  \/ \E o \in Obj : CleanupFirst(r, o)
  \/ CleanupThen(r) \/ RequestEnds(r)

Next == (\E r \in Request : Step(r)) \/ CleanupCache

Spec == Init /\ [][Next]_vars

-----------------------------------------------------------------------------
TypeOK ==
  /\ ht \in [Url -> Obj \cup {None}]
  /\ pq \subseteq live /\ live \subseteq Obj
  /\ current_size \in 0 .. MaxSize
  /\ key \in [Obj -> Url \cup {None}]
  /\ m_len \in [Obj -> 0 .. MaxObject]
  /\ refcount \in [Obj -> 0 .. 1 + Cardinality(Request)]
  /\ complete \subseteq Obj
  /\ pc \in [Request -> {"idle", "drop", "backend", "create", "store", "open", "serve", "end"}]
  /\ url \in [Request -> Url \cup {None}]
  /\ stale \in [Request -> Obj \cup {None}]
  /\ handle \in [Request -> Obj \cup {None}]
  /\ held \in [Request -> SUBSET Obj]
  /\ dec \in [Request -> Obj \cup {None}]

(* An object that a request holds has not been freed, whoever ejected,     *)
(* replaced or removed it meanwhile: recall_body hands out its memory      *)
(* without a copy.                                                         *)
HeldIsLive == \A r \in Request : held[r] \subseteq live

(* refcount counts the requests that hold an object and the cache; with    *)
(* every dec32 done under the lock or without it, none is lost or doubled. *)
Holders(o) == {r \in Request : o \in held[r]}

RefcountExact ==
  \A o \in live : refcount[o] = Cardinality(Holders(o)) + (IF o \in pq THEN 1 ELSE 0)

(* Nothing is left behind: an object is held by a request that will drop   *)
(* it, or it is in the cache and complete. An incomplete object that no    *)
(* request fills would block its key for good, as open_entity and          *)
(* create_entity both decline while it is there.                           *)
NothingLeftBehind ==
  \A o \in live : (\E r \in Request : o \in held[r]) \/ o \in pq \cap complete

(* current_size is the size of what is cached, and within the limits: what *)
(* cache_insert relies on when it pops until the new object fits.          *)
SizeExact ==
  /\ current_size = SumLen(pq)
  /\ current_size <= MaxSize
  /\ Cardinality(pq) <= MaxEntries

(* The hash table and the queue hold the same objects, each under its key: *)
(* an object in only one of them could not be found, or not be ejected.    *)
TableMatchesQueue ==
  /\ pq = {ht[u] : u \in Url} \ {None}
  /\ \A u \in Url : ht[u] # None => key[ht[u]] = u

(* What other requests may be sending does not change: an object that is   *)
(* complete stays complete, with its length, until it is freed.            *)
CompleteIsFinal ==
  [][\A o \in live \cap live' : o \in complete => o \in complete' /\ m_len'[o] = m_len[o]]_vars
=============================================================================
