--------------------------- MODULE MemCache_proofs ---------------------------
(***************************************************************************)
(* What holds of mod_mem_cache for any number of requests, keys and        *)
(* objects, whatever is ejected, as long as no request calls remove_url    *)
(* for an object that has left the cache (RemoveUrlRaces).                 *)
(***************************************************************************)
EXTENDS MemCache, SumFacts

Pcs == {"idle", "drop", "backend", "create", "store", "open", "serve", "end"}

Types ==
  /\ ht \in [Url -> Obj \cup {None}]
  /\ pq \subseteq Obj /\ live \subseteq Obj /\ complete \subseteq Obj
  /\ key \in [Obj -> Url \cup {None}]
  /\ m_len \in [Obj -> Int]
  /\ refcount \in [Obj -> Int]
  /\ pc \in [Request -> Pcs]
  /\ url \in [Request -> Url \cup {None}]
  /\ stale \in [Request -> Obj \cup {None}]
  /\ handle \in [Request -> Obj \cup {None}]
  /\ held \in [Request -> SUBSET Obj]
  /\ dec \in [Request -> Obj \cup {None}]

(* The table and the queue, element by element.                            *)
TableInv ==
  /\ \A u \in Url : ht[u] # None => ht[u] \in pq /\ key[ht[u]] = u
  /\ \A o \in pq : key[o] \in Url /\ ht[key[o]] = o

LiveInv ==
  /\ pq \subseteq live
  /\ HeldIsLive
  /\ \A o \in live : key[o] \in Url

(* What a request knows of its objects at each point.                      *)
Control(r) ==
  /\ pc[r] = "idle" => held[r] = {} /\ stale[r] = None
  /\ pc[r] # "idle" => url[r] \in Url
  /\ pc[r] = "drop" => stale[r] # None
  /\ pc[r] \in {"drop", "backend"} /\ stale[r] # None => stale[r] \in held[r]
  /\ pc[r] \in {"store", "open"} => handle[r] \in held[r] /\ key[handle[r]] = url[r]
  /\ dec[r] # None => dec[r] \in held[r] /\ pc[r] = "end"

ControlInv == \A r \in Request : Control(r)

(* An object that is filled belongs to the request that fills it, and a    *)
(* cleanup that has looked at complete leaves nothing incomplete behind.   *)
Filling(r) ==
  /\ pc[r] \in {"store", "open"} =>
       /\ handle[r] \notin complete
       /\ \A s \in Request : handle[r] \in held[s] => s = r
  /\ dec[r] # None /\ dec[r] \in pq => dec[r] \in complete

FillInv == \A r \in Request : Filling(r)

Inv == Types /\ TableInv /\ LiveInv /\ RefcountExact /\ ControlInv /\ FillInv /\ NothingLeftBehind

-----------------------------------------------------------------------------
(* Counting the requests that hold an object. *)

(* The requests that hold an object can be counted.                         *)
LEMMA HoldersFinite ==
  \A o : IsFiniteSet(Holders(o)) /\ Cardinality(Holders(o)) \in Nat
BY RequestAssumption, FS_Subset, FS_CardinalityType DEF Holders

(* An object that some request holds has a positive count of holders.       *)
LEMMA HoldersPositive ==
  ASSUME NEW o, NEW r \in Request, o \in held[r]
  PROVE  Cardinality(Holders(o)) >= 1
<1>1. Holders(o) # {}
  BY DEF Holders
<1> QED
  BY <1>1, HoldersFinite, FS_EmptySet

(* An object that no request holds has count zero.                          *)
LEMMA HoldersNone ==
  ASSUME NEW o, \A r \in Request : o \notin held[r]
  PROVE  Cardinality(Holders(o)) = 0
<1>1. Holders(o) = {}
  BY DEF Holders
<1> QED
  BY <1>1, FS_EmptySet

(* A request takes an object that it did not hold.                         *)
LEMMA HoldersTake ==
  ASSUME Types, NEW r \in Request, NEW o \in Obj, o \notin held[r],
         held' = [held EXCEPT ![r] = held[r] \cup {o}]
  PROVE  /\ \A s \in Request, x \in Obj :
              x \in held'[s] <=> x \in held[s] \/ (s = r /\ x = o)
         /\ Cardinality(Holders(o)') = Cardinality(Holders(o)) + 1
         /\ \A x \in Obj \ {o} : Holders(x)' = Holders(x)
<1>1. \A s \in Request, x \in Obj : x \in held'[s] <=> x \in held[s] \/ (s = r /\ x = o)
  BY DEF Types
<1>2. Holders(o)' = Holders(o) \cup {r}
  BY <1>1 DEF Holders
<1>3. r \notin Holders(o)
  BY DEF Holders
<1>4. \A x \in Obj \ {o} : Holders(x)' = Holders(x)
  BY <1>1 DEF Holders
<1> QED
  BY <1>1, <1>2, <1>3, <1>4, HoldersFinite, FS_AddElement

(* A request lets go of an object.                                         *)
LEMMA HoldersDrop ==
  ASSUME Types, NEW r \in Request, NEW o \in Obj, o \in held[r],
         held' = [held EXCEPT ![r] = held[r] \ {o}]
  PROVE  /\ \A s \in Request, x \in Obj :
              x \in held'[s] <=> x \in held[s] /\ ~ (s = r /\ x = o)
         /\ Cardinality(Holders(o)') = Cardinality(Holders(o)) - 1
         /\ \A x \in Obj \ {o} : Holders(x)' = Holders(x)
<1>1. \A s \in Request, x \in Obj : x \in held'[s] <=> x \in held[s] /\ ~ (s = r /\ x = o)
  BY DEF Types
<1>2. Holders(o)' = Holders(o) \ {r}
  BY <1>1 DEF Holders
<1>3. r \in Holders(o)
  BY DEF Holders
<1>4. \A x \in Obj \ {o} : Holders(x)' = Holders(x)
  BY <1>1 DEF Holders
<1> QED
  BY <1>1, <1>2, <1>3, <1>4, HoldersFinite, FS_RemoveElement

-----------------------------------------------------------------------------
(* The operations on the table, the queue and the counts. *)

(* An object leaves the cache, and its count with it.                      *)
LEMMA Uncached ==
  ASSUME Types, TableInv, LiveInv, RefcountExact,
         NEW o \in pq, cache_remove(o), Recount({o}, {}), UNCHANGED <<key, held>>
  PROVE  /\ TableInv' /\ LiveInv' /\ RefcountExact'
         /\ pq' = pq \ {o}
         /\ live' \subseteq live
         /\ \A x \in live : x # o \/ (\E r \in Request : x \in held[r]) => x \in live'
<1>1. pq' = pq \ {o} /\ ht' = [ht EXCEPT ![key[o]] = None]
  BY DEF cache_remove
<1>2. \A x \in Obj : refcount'[x] = IF x = o THEN refcount[x] - 1 ELSE refcount[x]
  BY DEF Recount, Types
<1>3. live' = live \ {x \in {o} : refcount'[x] = 0}
  BY DEF Recount
<1>4. TableInv'
  BY <1>1, ConfigAssumption DEF TableInv, Types
<1>5. \A x \in Obj : Holders(x)' = Holders(x)
  BY DEF Holders
<1>6. refcount'[o] = Cardinality(Holders(o))
  <2>1. refcount[o] = Cardinality(Holders(o)) + 1
    BY DEF RefcountExact, LiveInv, Types
  <2> QED
    BY <1>2, <2>1, HoldersFinite DEF Types
<1>7. \A r \in Request : o \in held[r] => o \in live'
  BY <1>3, <1>6, HoldersPositive, HoldersFinite DEF LiveInv, HeldIsLive
<1>8. \A x \in live : x # o => x \in live'
  BY <1>3
<1>9. LiveInv'
  BY <1>1, <1>3, <1>7, <1>8 DEF LiveInv, HeldIsLive, Types
<1>10. RefcountExact'
  <2> SUFFICES ASSUME NEW x \in live'
               PROVE  refcount'[x] = Cardinality(Holders(x)') + (IF x \in pq' THEN 1 ELSE 0)
    BY DEF RefcountExact
  <2>1. x \in live /\ x \in Obj /\ Holders(x)' = Holders(x)
    BY <1>3, <1>5 DEF Types
  <2>2. CASE x = o
    BY <2>1, <2>2, <1>1, <1>6, HoldersFinite
  <2>3. CASE x # o
    BY <2>1, <2>3, <1>1, <1>2 DEF RefcountExact
  <2> QED
    BY <2>2, <2>3
<1> QED
  BY <1>1, <1>3, <1>4, <1>7, <1>8, <1>9, <1>10

(* A request takes a complete object of the cache.                         *)
LEMMA Referenced ==
  ASSUME Types, TableInv, LiveInv, RefcountExact,
         NEW r \in Request, NEW o \in pq, held[r] = {},
         Recount({}, {o}), held' = [held EXCEPT ![r] = {o}],
         UNCHANGED <<ht, pq, key>>
  PROVE  /\ TableInv' /\ LiveInv' /\ RefcountExact'
         /\ live' = live
<1>1. held' = [held EXCEPT ![r] = held[r] \cup {o}] /\ o \in Obj /\ o \notin held[r]
  BY DEF Types
<1>2. /\ \A s \in Request, x \in Obj : x \in held'[s] <=> x \in held[s] \/ (s = r /\ x = o)
      /\ Cardinality(Holders(o)') = Cardinality(Holders(o)) + 1
      /\ \A x \in Obj \ {o} : Holders(x)' = Holders(x)
  BY <1>1, HoldersTake
<1>3. \A x \in Obj : refcount'[x] = IF x = o THEN refcount[x] + 1 ELSE refcount[x]
  BY DEF Recount, Types
<1>4. live' = live
  BY DEF Recount, LiveInv
<1>5. TableInv'
  BY DEF TableInv
<1>6. LiveInv'
  BY <1>2, <1>4 DEF LiveInv, HeldIsLive, Types
<1>7. RefcountExact'
  <2> SUFFICES ASSUME NEW x \in live'
               PROVE  refcount'[x] = Cardinality(Holders(x)') + (IF x \in pq' THEN 1 ELSE 0)
    BY DEF RefcountExact
  <2>1. x \in Obj /\ refcount[x] = Cardinality(Holders(x)) + (IF x \in pq THEN 1 ELSE 0)
    BY <1>4 DEF Types, RefcountExact
  <2>2. Cardinality(Holders(x)) \in Nat
    BY HoldersFinite
  <2>3. CASE x = o
    BY <2>1, <2>2, <2>3, <1>2, <1>3
  <2>4. CASE x # o
    BY <2>1, <2>4, <1>2, <1>3
  <2> QED
    BY <2>3, <2>4
<1> QED
  BY <1>4, <1>5, <1>6, <1>7

(* A request lets go of an object, which is freed if nobody else has it.   *)
LEMMA Dereferenced ==
  ASSUME Types, TableInv, LiveInv, RefcountExact,
         NEW r \in Request, NEW o \in held[r],
         Recount({o}, {}), held' = [held EXCEPT ![r] = held[r] \ {o}],
         UNCHANGED <<ht, pq, key>>
  PROVE  /\ TableInv' /\ LiveInv' /\ RefcountExact'
         /\ live' \subseteq live
         /\ o \in live' => o \in pq \/ \E s \in Request : o \in held'[s]
<1>1. o \in live /\ o \in Obj
  BY DEF LiveInv, HeldIsLive, Types
<1>2. /\ \A s \in Request, x \in Obj : x \in held'[s] <=> x \in held[s] /\ ~ (s = r /\ x = o)
      /\ Cardinality(Holders(o)') = Cardinality(Holders(o)) - 1
      /\ \A x \in Obj \ {o} : Holders(x)' = Holders(x)
  BY <1>1, HoldersDrop
<1>3. \A x \in Obj : refcount'[x] = IF x = o THEN refcount[x] - 1 ELSE refcount[x]
  BY DEF Recount, Types
<1>4. live' = live \ {x \in {o} : refcount'[x] = 0}
  BY DEF Recount
<1>5. \A x \in live :
        refcount'[x] = Cardinality(Holders(x)') + (IF x \in pq THEN 1 ELSE 0)
  <2> SUFFICES ASSUME NEW x \in live
               PROVE  refcount'[x] = Cardinality(Holders(x)') + (IF x \in pq THEN 1 ELSE 0)
    OBVIOUS
  <2>1. x \in Obj /\ refcount[x] = Cardinality(Holders(x)) + (IF x \in pq THEN 1 ELSE 0)
    BY DEF Types, RefcountExact
  <2>2. Cardinality(Holders(x)) \in Nat
    BY HoldersFinite
  <2>3. CASE x = o
    BY <2>1, <2>2, <2>3, <1>2, <1>3
  <2>4. CASE x # o
    BY <2>1, <2>4, <1>2, <1>3
  <2> QED
    BY <2>3, <2>4
<1>6. IsFiniteSet(Holders(o)') /\ Cardinality(Holders(o)') \in Nat
  <2>1. Holders(o)' \subseteq Request
    BY DEF Holders
  <2> QED
    BY <2>1, RequestAssumption, FS_Subset, FS_CardinalityType
<1>7. \A s \in Request : o \in held'[s] => o \in live'
  <2> SUFFICES ASSUME NEW s \in Request, o \in held'[s] PROVE o \in live'
    OBVIOUS
  <2>1. Cardinality(Holders(o)') # 0
    <3>1. Holders(o)' # {}
      BY DEF Holders
    <3> QED
      BY <3>1, <1>6, FS_EmptySet
  <2> QED
    BY <2>1, <1>1, <1>4, <1>5, <1>6
<1>8. o \in pq => o \in live'
  BY <1>1, <1>4, <1>5, <1>6
<1>9. o \in live' => o \in pq \/ \E s \in Request : o \in held'[s]
  <2>1. ASSUME o \notin pq, \A s \in Request : o \notin held'[s] PROVE o \notin live'
    <3>1. Holders(o)' = {}
      BY <2>1 DEF Holders
    <3>2. Cardinality(Holders(o)') = 0
      BY <3>1, FS_EmptySet
    <3> QED
      BY <2>1, <3>2, <1>1, <1>4, <1>5
  <2> QED
    BY <2>1
<1>10. TableInv'
  BY DEF TableInv
<1>11. LiveInv'
  BY <1>2, <1>4, <1>7, <1>8 DEF LiveInv, HeldIsLive, Types
<1>12. RefcountExact'
  BY <1>4, <1>5 DEF RefcountExact
<1> QED
  BY <1>4, <1>9, <1>10, <1>11, <1>12

(* cache_insert keeps table and queue in step, whatever it ejects.         *)
LEMMA Inserted ==
  ASSUME Types, TableInv, NEW o \in Obj \ pq, NEW u \in Url, ht[u] = None,
         NEW ejected \in SUBSET pq, NEW n,
         key'[o] = u, \A x \in pq : key'[x] = key[x],
         cache_insert(o, n, ejected)
  PROVE  TableInv' /\ pq' = (pq \ ejected) \cup {o}
<1>1. /\ pq' = (pq \ ejected) \cup {o}
      /\ ht' = [v \in Url |-> IF v = u THEN o
                              ELSE IF ht[v] \in ejected THEN None ELSE ht[v]]
  BY DEF cache_insert
<1>2. ASSUME NEW v \in Url, ht'[v] # None
      PROVE  ht'[v] \in pq' /\ key'[ht'[v]] = v
  <2>1. CASE v = u
    BY <1>1, <2>1
  <2>2. CASE v # u
    <3>1. ht'[v] = ht[v] /\ ht[v] \notin ejected /\ ht[v] # None
      BY <1>1, <1>2, <2>2
    <3> QED
      BY <1>1, <3>1 DEF TableInv
  <2> QED
    BY <2>1, <2>2
<1>3. ASSUME NEW x \in pq'
      PROVE  key'[x] \in Url /\ ht'[key'[x]] = x
  <2>1. CASE x = o
    BY <1>1, <2>1
  <2>2. CASE x # o
    <3>1. x \in pq /\ x \notin ejected /\ key'[x] = key[x]
      BY <1>1, <2>2
    <3>2. key[x] \in Url /\ ht[key[x]] = x /\ x # None
      BY <3>1, ConfigAssumption DEF TableInv, Types
    <3>3. key[x] # u
      BY <3>2
    <3> QED
      BY <1>1, <3>1, <3>2, <3>3
  <2> QED
    BY <2>1, <2>2
<1> QED
  BY <1>1, <1>2, <1>3 DEF TableInv

(* A new object, referenced by the cache and by its request.               *)
LEMMA Created ==
  ASSUME Types, TableInv, LiveInv, RefcountExact,
         NEW r \in Request, NEW o \in Obj \ live, NEW u \in Url, ht[u] = None,
         NEW ejected \in SUBSET pq, NEW n,
         key' = [key EXCEPT ![o] = u],
         cache_insert(o, n, ejected),
         refcount' = [x \in Obj |-> IF x = o THEN 2
                                    ELSE refcount[x] - (IF x \in ejected THEN 1 ELSE 0)],
         live' = (live \cup {o}) \ {x \in ejected : refcount'[x] = 0},
         held' = [held EXCEPT ![r] = held[r] \cup {o}]
  PROVE  /\ TableInv' /\ LiveInv' /\ RefcountExact'
         /\ pq' = (pq \ ejected) \cup {o}
         /\ o \in live' /\ live' \subseteq live \cup {o}
         /\ \A s \in Request : o \notin held[s]
         /\ \A s \in Request, x \in Obj : x \in held'[s] <=> x \in held[s] \/ (s = r /\ x = o)
         /\ \A x \in live' \cap ejected : \E s \in Request : x \in held[s]
<1>1. o \notin pq /\ \A s \in Request : o \notin held[s]
  BY DEF LiveInv, HeldIsLive
<1>2. key'[o] = u /\ \A x \in live : key'[x] = key[x]
  BY DEF Types
<1>3. TableInv' /\ pq' = (pq \ ejected) \cup {o}
  BY <1>1, <1>2, Inserted DEF LiveInv
<1>4. /\ \A s \in Request, x \in Obj : x \in held'[s] <=> x \in held[s] \/ (s = r /\ x = o)
      /\ Cardinality(Holders(o)') = Cardinality(Holders(o)) + 1
      /\ \A x \in Obj \ {o} : Holders(x)' = Holders(x)
  BY <1>1, HoldersTake
<1>5. Cardinality(Holders(o)') = 1
  BY <1>1, <1>4, HoldersNone
<1>6. o \notin ejected /\ o \in live'
  BY <1>1
<1>7. \A x \in live \ ejected :
        x \in live' /\ refcount'[x] = refcount[x]
  BY DEF Types
<1>8. \A x \in ejected : x \in live /\ x \in Obj /\ refcount'[x] = Cardinality(Holders(x))
  <2> SUFFICES ASSUME NEW x \in ejected
               PROVE  x \in live /\ x \in Obj /\ refcount'[x] = Cardinality(Holders(x))
    OBVIOUS
  <2>1. x \in pq /\ x \in live /\ x \in Obj /\ x # o
    BY <1>6 DEF LiveInv, Types
  <2>2. refcount[x] = Cardinality(Holders(x)) + 1
    BY <2>1 DEF RefcountExact
  <2>3. refcount'[x] = refcount[x] - 1
    BY <2>1
  <2> QED
    BY <2>1, <2>2, <2>3, HoldersFinite
<1>9. ASSUME NEW s \in Request, NEW x \in held[s] PROVE x \in live'
  <2>1. x \in live
    BY DEF LiveInv, HeldIsLive
  <2>2. CASE x \in ejected
    BY <2>1, <2>2, <1>8, HoldersPositive
  <2>3. CASE x \notin ejected
    BY <2>1, <2>3, <1>7
  <2> QED
    BY <2>2, <2>3
<1>10. \A x \in live' \cap ejected : \E s \in Request : x \in held[s]
  BY <1>8, HoldersNone
<1>11. LiveInv'
  <2>1. pq' \subseteq live'
    BY <1>3, <1>6, <1>7 DEF LiveInv
  <2>2. HeldIsLive'
    <3>1. held' \in [Request -> SUBSET Obj]
      BY DEF Types
    <3>2. ASSUME NEW s \in Request, NEW x \in held'[s] PROVE x \in live'
      <4>1. x \in Obj
        BY <3>1
      <4>2. x \in held[s] \/ x = o
        BY <4>1, <1>4
      <4> QED
        BY <4>2, <1>6, <1>9
    <3> QED
      BY <3>2 DEF HeldIsLive
  <2>3. \A x \in live' : key'[x] \in Url
    BY <1>2 DEF LiveInv
  <2> QED
    BY <2>1, <2>2, <2>3 DEF LiveInv
<1>12. RefcountExact'
  <2> SUFFICES ASSUME NEW x \in live'
               PROVE  refcount'[x] = Cardinality(Holders(x)') + (IF x \in pq' THEN 1 ELSE 0)
    BY DEF RefcountExact
  <2>1. CASE x = o
    BY <2>1, <1>3, <1>5
  <2>2. CASE x # o /\ x \in ejected
    <3>1. Holders(x)' = Holders(x) /\ x \notin pq'
      BY <2>2, <1>3, <1>4, <1>8
    <3> QED
      BY <3>1, <2>2, <1>8, HoldersFinite
  <2>3. CASE x # o /\ x \notin ejected
    <3>1. x \in live /\ x \in Obj
      BY <2>3 DEF Types
    <3>2. Holders(x)' = Holders(x) /\ (x \in pq' <=> x \in pq) /\ refcount'[x] = refcount[x]
      BY <3>1, <2>3, <1>3, <1>4, <1>7
    <3> QED
      BY <3>1, <3>2 DEF RefcountExact
  <2> QED
    BY <2>1, <2>2, <2>3
<1> QED
  BY <1>1, <1>3, <1>4, <1>6, <1>10, <1>11, <1>12

(* An object that was ejected while it was filled is put back.             *)
LEMMA PutBack ==
  ASSUME Types, TableInv, LiveInv, RefcountExact,
         NEW r \in Request, NEW o \in held[r], key[o] \in Url, ht[key[o]] = None,
         NEW ejected \in SUBSET pq, NEW n,
         cache_insert(o, n, ejected),
         Recount(ejected, {o}), UNCHANGED <<key, held>>
  PROVE  /\ TableInv' /\ LiveInv' /\ RefcountExact'
         /\ pq' = (pq \ ejected) \cup {o}
         /\ live' \subseteq live
         /\ \A x \in live' \cap ejected : \E s \in Request : x \in held[s]
<1>1. o \in live /\ o \in Obj
  BY DEF LiveInv, HeldIsLive, Types
<1>2. o \notin pq
  BY <1>1, ConfigAssumption DEF TableInv, Types
<1>3. TableInv' /\ pq' = (pq \ ejected) \cup {o}
  BY <1>1, <1>2, Inserted
<1>4. \A x \in Obj : refcount'[x] = IF x = o THEN refcount[x] + 1
                                    ELSE IF x \in ejected THEN refcount[x] - 1 ELSE refcount[x]
  BY <1>2 DEF Recount, Types
<1>5. live' = live \ {x \in ejected : refcount'[x] = 0}
  BY <1>1 DEF Recount
<1>6. \A x \in Obj : Holders(x)' = Holders(x)
  BY DEF Holders
<1>7. \A x \in ejected : x \in live /\ x \in Obj /\ refcount'[x] = Cardinality(Holders(x))
  <2> SUFFICES ASSUME NEW x \in ejected
               PROVE  x \in live /\ x \in Obj /\ refcount'[x] = Cardinality(Holders(x))
    OBVIOUS
  <2>1. x \in pq /\ x \in live /\ x \in Obj /\ x # o
    BY <1>2 DEF LiveInv, Types
  <2>2. refcount[x] = Cardinality(Holders(x)) + 1
    BY <2>1 DEF RefcountExact
  <2> QED
    BY <2>1, <2>2, <1>4, HoldersFinite
<1>8. ASSUME NEW s \in Request, NEW x \in held[s] PROVE x \in live'
  <2>1. x \in live
    BY DEF LiveInv, HeldIsLive
  <2> QED
    BY <2>1, <1>5, <1>7, HoldersPositive
<1>9. \A x \in live' \cap ejected : \E s \in Request : x \in held[s]
  BY <1>5, <1>7, HoldersNone
<1>10. LiveInv'
  <2>1. pq' \subseteq live'
    BY <1>1, <1>2, <1>3, <1>5 DEF LiveInv
  <2>2. HeldIsLive'
    BY <1>8 DEF HeldIsLive
  <2> QED
    BY <2>1, <2>2, <1>5 DEF LiveInv
<1>11. RefcountExact'
  <2> SUFFICES ASSUME NEW x \in live'
               PROVE  refcount'[x] = Cardinality(Holders(x)') + (IF x \in pq' THEN 1 ELSE 0)
    BY DEF RefcountExact
  <2>1. x \in live /\ x \in Obj /\ Holders(x)' = Holders(x)
        /\ refcount[x] = Cardinality(Holders(x)) + (IF x \in pq THEN 1 ELSE 0)
    BY <1>5, <1>6 DEF Types, RefcountExact
  <2>2. CASE x = o
    BY <2>1, <2>2, <1>2, <1>3, <1>4, HoldersFinite
  <2>3. CASE x # o /\ x \in ejected
    BY <2>1, <2>3, <1>3, <1>7, HoldersFinite
  <2>4. CASE x # o /\ x \notin ejected
    BY <2>1, <2>4, <1>3, <1>4
  <2> QED
    BY <2>2, <2>3, <2>4
<1> QED
  BY <1>3, <1>5, <1>9, <1>10, <1>11

(* The configuration is destroyed: nobody holds anything.                  *)
LEMMA CacheCleaned ==
  ASSUME Types, TableInv, LiveInv, RefcountExact, ControlInv, NothingLeftBehind, CleanupCache
  PROVE  TableInv' /\ LiveInv' /\ RefcountExact' /\ live' = {}
<1>1. \A r \in Request : held[r] = {}
  BY DEF CleanupCache, ControlInv, Control
<1>2. live = pq
  BY <1>1 DEF NothingLeftBehind, LiveInv
<1>3. \A o \in pq : refcount'[o] = 0
  <2> SUFFICES ASSUME NEW o \in pq PROVE refcount'[o] = 0
    OBVIOUS
  <2>1. Cardinality(Holders(o)) = 0
    BY <1>1, HoldersNone
  <2>2. refcount[o] = 1
    BY <1>2, <2>1 DEF RefcountExact
  <2>3. refcount'[o] = refcount[o] - 1
    BY DEF CleanupCache, Recount, Types
  <2> QED
    BY <2>2, <2>3
<1>4. live' = {}
  BY <1>2, <1>3 DEF CleanupCache, Recount
<1>5. pq' = {} /\ \A u \in Url : ht'[u] = None
  BY DEF CleanupCache, TableInv
<1> QED
  BY <1>1, <1>4, <1>5 DEF TableInv, LiveInv, HeldIsLive, RefcountExact, CleanupCache

-----------------------------------------------------------------------------
(* Types. *)

(* A new value of refcount, if it has the type, is all that changes.        *)
LEMMA RecountTypes ==
  ASSUME Types, NEW S, NEW T \in SUBSET Obj, Recount(S, T)
  PROVE  refcount' \in [Obj -> Int] /\ live' \subseteq Obj
BY DEF Recount, Types

(* cache_remove keeps the types.                                            *)
LEMMA RemoveTypes ==
  ASSUME Types, NEW o \in Obj, cache_remove(o)
  PROVE  ht' \in [Url -> Obj \cup {None}] /\ pq' \subseteq Obj
BY DEF cache_remove, Types

(* cache_insert keeps the types.                                            *)
LEMMA InsertTypes ==
  ASSUME Types, NEW o \in Obj, NEW n, NEW ejected, cache_insert(o, n, ejected)
  PROVE  ht' \in [Url -> Obj \cup {None}] /\ pq' \subseteq Obj
BY DEF cache_insert, Types

(* Every step keeps the types.                                              *)
LEMMA TypesNext ==
  ASSUME Types, ControlInv, [Next]_vars
  PROVE  Types'
<1> USE DEF Goto
<1>1. ASSUME NEW r \in Request, NEW u \in Url, Open(r, u) PROVE Types'
  <2>1. ht[u] \in Obj
    BY <1>1 DEF Open, cache_find, Types
  <2>2. refcount' \in [Obj -> Int] /\ live' \subseteq Obj
    BY <1>1, <2>1, RecountTypes DEF Open, cache_find
  <2>3. pc' \in [Request -> Pcs] /\ stale' \in [Request -> Obj \cup {None}]
        /\ handle' \in [Request -> Obj \cup {None}]
    BY <1>1, <2>1 DEF Open, cache_find, Types, Pcs
  <2> QED
    BY <1>1, <2>1, <2>2, <2>3 DEF Open, cache_find, Types
<1>2. ASSUME NEW r \in Request, NEW u \in Url, OpenDeclined(r, u) PROVE Types'
  BY <1>2 DEF OpenDeclined, cacheVars, Types, Pcs
<1>3. ASSUME NEW r \in Request, DropStale(r) PROVE Types'
  <2>1. stale[r] \in Obj
    BY <1>3 DEF DropStale, ControlInv, Control, Types
  <2>2. /\ refcount' \in [Obj -> Int] /\ live' \subseteq Obj
        /\ ht' \in [Url -> Obj \cup {None}] /\ pq' \subseteq Obj
    BY <1>3, <2>1, RecountTypes, RemoveTypes DEF DropStale, remove_url
  <2> QED
    BY <1>3, <2>2 DEF DropStale, remove_url, Types, Pcs
<1>4. ASSUME NEW r \in Request, Uncacheable(r) PROVE Types'
  <2>1. /\ ht' \in [Url -> Obj \cup {None}] /\ pq' \subseteq Obj /\ live' \subseteq Obj
        /\ refcount' \in [Obj -> Int]
        /\ key' \in [Obj -> Url \cup {None}] /\ m_len' \in [Obj -> Int] /\ complete' \subseteq Obj
    <3>1. CASE stale[r] = None
      BY <1>4, <3>1 DEF Uncacheable, cacheVars, Types
    <3>2. CASE stale[r] # None
      <4>1. stale[r] \in Obj
        BY <3>2 DEF Types
      <4> QED
        BY <1>4, <3>2, <4>1, RecountTypes, RemoveTypes DEF Uncacheable, remove_url, Types
    <3> QED
      BY <3>1, <3>2
  <2> QED
    BY <1>4, <2>1 DEF Uncacheable, Types, Pcs
<1>5. ASSUME NEW r \in Request, PassThrough(r) PROVE Types'
  BY <1>5 DEF PassThrough, cacheVars, Types, Pcs
<1>6. ASSUME NEW r \in Request, NotModified(r) PROVE Types'
  BY <1>6 DEF NotModified, cacheVars, Types, Pcs
<1>7. ASSUME NEW r \in Request, Replace(r) PROVE Types'
  <2>1. /\ ht' \in [Url -> Obj \cup {None}] /\ pq' \subseteq Obj /\ live' \subseteq Obj
        /\ refcount' \in [Obj -> Int]
        /\ key' \in [Obj -> Url \cup {None}] /\ m_len' \in [Obj -> Int] /\ complete' \subseteq Obj
    <3>1. CASE stale[r] # None /\ cache_find(url[r]) = stale[r]
      <4>1. stale[r] \in Obj
        BY <3>1 DEF Types
      <4> QED
        BY <1>7, <3>1, <4>1, RecountTypes, RemoveTypes DEF Replace, Types
    <3>2. CASE ~ (stale[r] # None /\ cache_find(url[r]) = stale[r])
      BY <1>7, <3>2 DEF Replace, cacheVars, Types
    <3> QED
      BY <3>1, <3>2
  <2> QED
    BY <1>7, <2>1 DEF Replace, Types, Pcs
<1>8. ASSUME NEW r \in Request, CreateDeclined(r) PROVE Types'
  BY <1>8 DEF CreateDeclined, cacheVars, Types, Pcs
<1>9. ASSUME NEW r \in Request, NEW o \in Obj, NEW n \in 1 .. MaxObject, NEW ejected \in SUBSET pq,
             Create(r, o, n, ejected)
      PROVE  Types'
  <2>1. ht' \in [Url -> Obj \cup {None}] /\ pq' \subseteq Obj
    BY <1>9, InsertTypes DEF Create
  <2>2. n \in Int
    BY ConfigAssumption
  <2> QED
    BY <1>9, <2>1, <2>2 DEF Create, Types, Pcs
<1>10. ASSUME NEW r \in Request, StoreWhole(r) PROVE Types'
  <2>1. handle[r] \in Obj
    BY <1>10 DEF StoreWhole, ControlInv, Control, Types
  <2> QED
    BY <1>10, <2>1 DEF StoreWhole, Types, Pcs
<1>11. ASSUME NEW r \in Request, NEW n \in 1 .. MaxObject, NEW ejected \in SUBSET pq,
              StoreShorter(r, n, ejected)
       PROVE  Types'
  <2>1. handle[r] \in Obj
    BY <1>11 DEF StoreShorter, ControlInv, Control, Types
  <2>2. n \in Int
    BY ConfigAssumption
  <2>3. /\ ht' \in [Url -> Obj \cup {None}] /\ pq' \subseteq Obj /\ live' \subseteq Obj
        /\ refcount' \in [Obj -> Int] /\ m_len' \in [Obj -> Int]
    <3>1. CASE cache_find(url[r]) = handle[r]
      BY <1>11, <2>1, <2>2, <3>1, ConfigAssumption DEF StoreShorter, Types
    <3>2. CASE cache_find(url[r]) \notin {handle[r], None}
      BY <1>11, <3>2 DEF StoreShorter, Types
    <3>3. CASE cache_find(url[r]) = None
      <4>1. /\ cache_insert(handle[r], n, ejected) /\ Recount(ejected, {handle[r]})
            /\ m_len' = [m_len EXCEPT ![handle[r]] = n]
        BY <1>11, <2>1, <3>3, ConfigAssumption DEF StoreShorter
      <4> QED
        BY <2>1, <2>2, <4>1, RecountTypes, InsertTypes DEF Types
    <3> QED
      BY <3>1, <3>2, <3>3
  <2> QED
    BY <1>11, <2>3 DEF StoreShorter, Types, Pcs
<1>12. ASSUME NEW r \in Request, OpenForBusiness(r) PROVE Types'
  <2>1. handle[r] \in Obj
    BY <1>12 DEF OpenForBusiness, ControlInv, Control, Types
  <2> QED
    BY <1>12, <2>1 DEF OpenForBusiness, Types, Pcs
<1>13. ASSUME NEW r \in Request, StoreFails(r) PROVE Types'
  BY <1>13 DEF StoreFails, cacheVars, Types, Pcs
<1>14. ASSUME NEW r \in Request, Serve(r) PROVE Types'
  BY <1>14 DEF Serve, cacheVars, Types, Pcs
<1>15. ASSUME NEW r \in Request, NEW o \in Obj, CleanupFirst(r, o) PROVE Types'
  <2>1. CASE o \notin complete /\ cache_find(key[o]) = o
    <3>1. /\ refcount' \in [Obj -> Int] /\ live' \subseteq Obj
          /\ ht' \in [Url -> Obj \cup {None}] /\ pq' \subseteq Obj
      BY <1>15, <2>1, RecountTypes, RemoveTypes DEF CleanupFirst
    <3> QED
      BY <1>15, <2>1, <3>1 DEF CleanupFirst, Types
  <2>2. CASE ~ (o \notin complete /\ cache_find(key[o]) = o)
    BY <1>15, <2>2 DEF CleanupFirst, cacheVars, Types
  <2> QED
    BY <2>1, <2>2
<1>16. ASSUME NEW r \in Request, CleanupThen(r) PROVE Types'
  <2>1. refcount' \in [Obj -> Int] /\ live' \subseteq Obj
    BY <1>16, RecountTypes DEF CleanupThen
  <2> QED
    BY <1>16, <2>1 DEF CleanupThen, Types
<1>17. ASSUME NEW r \in Request, RequestEnds(r) PROVE Types'
  BY <1>17 DEF RequestEnds, cacheVars, Types, Pcs
<1>18. ASSUME CleanupCache PROVE Types'
  <2>1. refcount' \in [Obj -> Int] /\ live' \subseteq Obj
    BY <1>18, RecountTypes DEF CleanupCache
  <2> QED
    BY <1>18, <2>1 DEF CleanupCache, Types
<1>19. ASSUME UNCHANGED vars PROVE Types'
  BY <1>19 DEF vars, cacheVars, Types
<1> QED
  BY <1>1, <1>2, <1>3, <1>4, <1>5, <1>6, <1>7, <1>8, <1>9, <1>10, <1>11, <1>12, <1>13, <1>14,
     <1>15, <1>16, <1>17, <1>18, <1>19 DEF Next, Step

-----------------------------------------------------------------------------
(* Each action keeps the invariant. *)

Cached == TableInv /\ LiveInv /\ RefcountExact

(* What is said of the cache stays where the cache does not change.         *)
LEMMA SameCache ==
  ASSUME Cached, NothingLeftBehind, UNCHANGED <<cacheVars, held>>
  PROVE  Cached' /\ NothingLeftBehind'
BY DEF Cached, cacheVars, TableInv, LiveInv, HeldIsLive, RefcountExact, Holders, NothingLeftBehind

(* The actions that only move a request on.                                *)
LEMMA OpenDeclinedInv ==
  ASSUME Inv, NEW r \in Request, NEW u \in Url, OpenDeclined(r, u)
  PROVE  Cached' /\ ControlInv' /\ FillInv' /\ NothingLeftBehind'
<1> USE DEF Goto, cacheVars
<1>1. Cached' /\ NothingLeftBehind'
  BY SameCache DEF Inv, Cached, OpenDeclined
<1>2. ControlInv'
  BY DEF Inv, Types, ControlInv, Control, OpenDeclined
<1>3. FillInv'
  BY DEF Inv, Types, FillInv, Filling, OpenDeclined
<1> QED
  BY <1>1, <1>2, <1>3

(* A response that is passed through touches no object.                     *)
LEMMA PassThroughInv ==
  ASSUME Inv, NEW r \in Request, PassThrough(r)
  PROVE  Cached' /\ ControlInv' /\ FillInv' /\ NothingLeftBehind'
<1> USE DEF Goto, cacheVars
<1>1. Cached' /\ NothingLeftBehind'
  BY SameCache DEF Inv, Cached, PassThrough
<1>2. ControlInv'
  BY DEF Inv, Types, ControlInv, Control, PassThrough
<1>3. FillInv'
  BY DEF Inv, Types, FillInv, Filling, PassThrough
<1> QED
  BY <1>1, <1>2, <1>3

(* A stale object that the backend confirms is served.                      *)
LEMMA NotModifiedInv ==
  ASSUME Inv, NEW r \in Request, NotModified(r)
  PROVE  Cached' /\ ControlInv' /\ FillInv' /\ NothingLeftBehind'
<1> USE DEF Goto, cacheVars
<1>1. Cached' /\ NothingLeftBehind'
  BY SameCache DEF Inv, Cached, NotModified
<1>2. ControlInv'
  BY DEF Inv, Types, ControlInv, Control, NotModified
<1>3. FillInv'
  BY DEF Inv, Types, FillInv, Filling, NotModified
<1> QED
  BY <1>1, <1>2, <1>3

(* A request that only goes on to its next place.                           *)
LEMMA MovesOnInv ==
  ASSUME Inv, NEW r \in Request, CreateDeclined(r) \/ StoreFails(r) \/ Serve(r)
  PROVE  Cached' /\ ControlInv' /\ FillInv' /\ NothingLeftBehind'
<1>1. /\ pc[r] \in {"create", "store", "serve"} /\ pc' = [pc EXCEPT ![r] = "end"]
      /\ UNCHANGED <<cacheVars, url, stale, handle, held, dec>>
  BY DEF CreateDeclined, StoreFails, Serve, Goto
<1>2. Cached' /\ NothingLeftBehind'
  BY <1>1, SameCache DEF Inv, Cached
<1>3. ControlInv'
  BY <1>1 DEF Inv, Types, ControlInv, Control, cacheVars
<1>4. FillInv'
  BY <1>1 DEF Inv, Types, FillInv, Filling, cacheVars
<1> QED
  BY <1>2, <1>3, <1>4

(* A request ends when all its cleanups have run.                           *)
LEMMA RequestEndsInv ==
  ASSUME Inv, NEW r \in Request, RequestEnds(r)
  PROVE  Cached' /\ ControlInv' /\ FillInv' /\ NothingLeftBehind'
<1> USE DEF Goto, cacheVars
<1>1. Cached' /\ NothingLeftBehind'
  BY SameCache DEF Inv, Cached, RequestEnds
<1>2. ControlInv'
  BY DEF Inv, Types, ControlInv, Control, RequestEnds
<1>3. FillInv'
  BY DEF Inv, Types, FillInv, Filling, RequestEnds
<1> QED
  BY <1>1, <1>2, <1>3

(* complete is set behind the lock, for an object that is still held.       *)
LEMMA OpenForBusinessInv ==
  ASSUME Inv, NEW r \in Request, StoreWhole(r) \/ OpenForBusiness(r)
  PROVE  Cached' /\ ControlInv' /\ FillInv' /\ NothingLeftBehind'
<1>1. /\ pc[r] \in {"store", "open"} /\ pc' = [pc EXCEPT ![r] = "end"]
      /\ complete' = complete \cup {handle[r]}
      /\ UNCHANGED <<ht, pq, current_size, live, key, m_len, refcount, url, stale, handle, held, dec>>
  BY DEF StoreWhole, OpenForBusiness, Goto
<1>2. Cached'
  <2>1. TableInv'
    BY <1>1 DEF Inv, TableInv
  <2>2. LiveInv'
    BY <1>1 DEF Inv, LiveInv, HeldIsLive
  <2>3. RefcountExact'
    BY <1>1 DEF Inv, RefcountExact, Holders
  <2> QED
    BY <2>1, <2>2, <2>3 DEF Cached
<1>3. NothingLeftBehind'
  BY <1>1 DEF Inv, NothingLeftBehind
<1>4. ControlInv'
  BY <1>1 DEF Inv, Types, ControlInv, Control
<1>5. FillInv'
  <2> SUFFICES ASSUME NEW s \in Request PROVE Filling(s)'
    BY DEF FillInv
  <2>1. CASE s = r
    BY <1>1, <2>1 DEF Inv, Types, FillInv, Filling, ControlInv, Control
  <2>2. CASE s # r
    <3>1. pc[s] \in {"store", "open"} => handle[s] # handle[r]
      BY <1>1, <2>2 DEF Inv, FillInv, Filling, ControlInv, Control
    <3> QED
      BY <1>1, <2>2, <3>1 DEF Inv, Types, FillInv, Filling
  <2> QED
    BY <2>1, <2>2
<1> QED
  BY <1>2, <1>3, <1>4, <1>5

(* open_entity takes a reference to the object that it finds.               *)
LEMMA OpenInv ==
  ASSUME Inv, NEW r \in Request, NEW u \in Url, Open(r, u)
  PROVE  Cached' /\ ControlInv' /\ FillInv' /\ NothingLeftBehind'
<1> DEFINE o == ht[u]
<1>1. o \in complete /\ o \in pq /\ held[r] = {} /\ stale[r] = None /\ dec[r] = None
  BY ConfigAssumption
     DEF Open, cache_find, Inv, Types, TableInv, ControlInv, Control
<1>2. /\ Recount({}, {o}) /\ held' = [held EXCEPT ![r] = {o}]
      /\ url' = [url EXCEPT ![r] = u]
      /\ UNCHANGED <<ht, pq, key, complete, dec>>
  BY DEF Open, cache_find
<1>3. TableInv' /\ LiveInv' /\ RefcountExact' /\ live' = live
  BY <1>1, <1>2, Referenced DEF Inv
<1>4. pc[r] = "idle" /\ pc' = [pc EXCEPT ![r] = pc'[r]] /\ pc'[r] \in {"serve", "backend", "drop"}
  BY DEF Open, Goto, Inv, Types
<1>5. /\ stale' = [stale EXCEPT ![r] = stale'[r]] /\ stale'[r] \in {None, o}
      /\ pc'[r] = "drop" => stale'[r] = o
      /\ \A s \in Request \ {r} : handle'[s] = handle[s]
  BY <1>1 DEF Open, Goto, cache_find, Inv, Types
<1>6. /\ held'[r] = {o}
      /\ \A s \in Request \ {r} : held'[s] = held[s]
  BY <1>2 DEF Inv, Types
<1>7. o # None
  BY <1>1, ConfigAssumption DEF Inv, Types
<1>8. NothingLeftBehind'
  <2> SUFFICES ASSUME NEW x \in live
               PROVE  (\E s \in Request : x \in held'[s]) \/ x \in pq \cap complete
    BY <1>2, <1>3 DEF NothingLeftBehind
  <2> QED
    BY <1>1, <1>6 DEF Inv, NothingLeftBehind
<1>9. ControlInv'
  <2> SUFFICES ASSUME NEW s \in Request PROVE Control(s)'
    BY DEF ControlInv
  <2>1. CASE s = r
    <3>1. url'[r] = u /\ dec'[r] = None
      BY <1>1, <1>2 DEF Inv, Types
    <3> QED
      BY <2>1, <3>1, <1>4, <1>5, <1>6, <1>7 DEF Control
  <2>2. CASE s # r
    BY <2>2, <1>2, <1>4, <1>5, <1>6 DEF Control, ControlInv, Inv, Types
  <2> QED
    BY <2>1, <2>2
<1>10. FillInv'
  <2> SUFFICES ASSUME NEW s \in Request PROVE Filling(s)'
    BY DEF FillInv
  <2>1. CASE s = r
    BY <2>1, <1>1, <1>2, <1>4 DEF Filling, Inv, Types
  <2>2. CASE s # r
    BY <2>2, <1>1, <1>2, <1>4, <1>5, <1>6 DEF Filling, FillInv, Inv, Types
  <2> QED
    BY <2>1, <2>2
<1> QED
  BY <1>3, <1>8, <1>9, <1>10 DEF Cached

(* A request takes an object out of the cache that it holds itself.        *)
LEMMA RemovedInv ==
  ASSUME Inv, NEW r \in Request, NEW o \in held[r], o \in pq,
         cache_remove(o), Recount({o}, {}), UNCHANGED <<key, complete, held>>
  PROVE  /\ Cached' /\ NothingLeftBehind'
         /\ pq' \subseteq pq
<1>1. /\ TableInv' /\ LiveInv' /\ RefcountExact'
      /\ pq' = pq \ {o} /\ live' \subseteq live
  BY Uncached DEF Inv
<1>2. NothingLeftBehind'
  <2> SUFFICES ASSUME NEW x \in live'
               PROVE  (\E s \in Request : x \in held[s]) \/ x \in pq' \cap complete
    BY DEF NothingLeftBehind
  <2>1. CASE x = o
    BY <2>1
  <2>2. CASE x # o
    BY <2>2, <1>1 DEF Inv, NothingLeftBehind
  <2> QED
    BY <2>1, <2>2
<1> QED
  BY <1>1, <1>2 DEF Cached

(* What remove_url does while no other request has interfered.             *)
LEMMA RemoveUrlInv ==
  ASSUME Inv, ~ RemoveUrlRaces, NEW r \in Request, NEW o \in held[r],
         remove_url(o), UNCHANGED held
  PROVE  /\ Cached' /\ NothingLeftBehind'
         /\ pq' \subseteq pq /\ UNCHANGED <<key, complete>>
<1>1. o \in live /\ o \in Obj /\ o # None
  BY ConfigAssumption DEF Inv, Types, LiveInv, HeldIsLive
<1>2. ht[key[o]] = o /\ key[o] \in Url
  BY <1>1 DEF remove_url, cache_find, Inv, LiveInv
<1>3. o \in pq
  BY <1>1, <1>2 DEF Inv, TableInv
<1> QED
  BY <1>3, RemovedInv DEF remove_url

(* A stale object that cannot be used is removed, and stays held.           *)
LEMMA DropStaleInv ==
  ASSUME Inv, ~ RemoveUrlRaces, NEW r \in Request, DropStale(r)
  PROVE  Cached' /\ ControlInv' /\ FillInv' /\ NothingLeftBehind'
<1>1. stale[r] \in held[r] /\ pc[r] = "drop"
  BY DEF DropStale, Inv, ControlInv, Control
<1>2. Cached' /\ NothingLeftBehind' /\ pq' \subseteq pq /\ UNCHANGED <<key, complete>>
  BY <1>1, RemoveUrlInv DEF DropStale
<1>3. ControlInv'
  BY <1>2 DEF DropStale, Goto, Inv, Types, ControlInv, Control
<1>4. FillInv'
  BY <1>2 DEF DropStale, Goto, Inv, Types, FillInv, Filling
<1> QED
  BY <1>2, <1>3, <1>4

(* A response that must not be cached removes the stale object.             *)
LEMMA UncacheableInv ==
  ASSUME Inv, ~ RemoveUrlRaces, NEW r \in Request, Uncacheable(r)
  PROVE  Cached' /\ ControlInv' /\ FillInv' /\ NothingLeftBehind'
<1>1. Cached' /\ NothingLeftBehind' /\ pq' \subseteq pq /\ UNCHANGED <<key, complete>>
  <2>1. CASE stale[r] = None
    BY <2>1, SameCache DEF Uncacheable, Inv, Cached, cacheVars
  <2>2. CASE stale[r] # None
    <3>1. stale[r] \in held[r]
      BY <2>2 DEF Uncacheable, Inv, ControlInv, Control
    <3> QED
      BY <2>2, <3>1, RemoveUrlInv DEF Uncacheable
  <2> QED
    BY <2>1, <2>2
<1>2. ControlInv'
  BY <1>1 DEF Uncacheable, Goto, Inv, Types, ControlInv, Control
<1>3. FillInv'
  BY <1>1 DEF Uncacheable, Goto, Inv, Types, FillInv, Filling
<1> QED
  BY <1>1, <1>2, <1>3

(* A new response replaces the stale object.                                *)
LEMMA ReplaceInv ==
  ASSUME Inv, NEW r \in Request, Replace(r)
  PROVE  Cached' /\ ControlInv' /\ FillInv' /\ NothingLeftBehind'
<1>1. Cached' /\ NothingLeftBehind' /\ pq' \subseteq pq /\ UNCHANGED <<key, complete>>
  <2>1. CASE ~ (stale[r] # None /\ cache_find(url[r]) = stale[r])
    BY <2>1, SameCache DEF Replace, Inv, Cached, cacheVars
  <2>2. CASE stale[r] # None /\ cache_find(url[r]) = stale[r]
    <3>1. stale[r] \in held[r] /\ url[r] \in Url
      BY <2>2 DEF Replace, Inv, ControlInv, Control
    <3>2. stale[r] \in pq
      BY <2>2, <3>1 DEF cache_find, Inv, TableInv
    <3> QED
      BY <2>2, <3>1, <3>2, RemovedInv DEF Replace
  <2> QED
    BY <2>1, <2>2
<1>2. ControlInv'
  BY <1>1 DEF Replace, Goto, Inv, Types, ControlInv, Control
<1>3. FillInv'
  BY <1>1 DEF Replace, Goto, Inv, Types, FillInv, Filling
<1> QED
  BY <1>1, <1>2, <1>3

(* create_entity puts its object in the cache and may eject others.         *)
LEMMA CreateInv ==
  ASSUME Inv, NEW r \in Request, NEW o \in Obj, NEW n, NEW ejected \in SUBSET pq,
         Create(r, o, n, ejected)
  PROVE  Cached' /\ ControlInv' /\ FillInv' /\ NothingLeftBehind'
<1>1. /\ pc[r] = "create" /\ pc' = [pc EXCEPT ![r] = "store"]
      /\ handle' = [handle EXCEPT ![r] = o]
      /\ key' = [key EXCEPT ![o] = url[r]]
      /\ complete' = complete \ {o}
      /\ held' = [held EXCEPT ![r] = held[r] \cup {o}]
      /\ UNCHANGED <<url, stale, dec>>
  BY DEF Create, Goto
<1>2. url[r] \in Url /\ dec[r] = None
  BY <1>1 DEF Inv, ControlInv, Control
<1>3. /\ TableInv' /\ LiveInv' /\ RefcountExact'
      /\ pq' = (pq \ ejected) \cup {o}
      /\ o \in live' /\ live' \subseteq live \cup {o}
      /\ \A s \in Request : o \notin held[s]
      /\ \A s \in Request, x \in Obj : x \in held'[s] <=> x \in held[s] \/ (s = r /\ x = o)
      /\ \A x \in live' \cap ejected : \E s \in Request : x \in held[s]
  <2>1. /\ Types /\ TableInv /\ LiveInv /\ RefcountExact
        /\ o \in Obj \ live /\ ht[url[r]] = None
        /\ cache_insert(o, n, ejected)
        /\ refcount' = [x \in Obj |-> IF x = o THEN 2
                                      ELSE refcount[x] - (IF x \in ejected THEN 1 ELSE 0)]
        /\ live' = (live \cup {o}) \ {x \in ejected : refcount'[x] = 0}
    BY DEF Inv, Create, cache_find
  <2> QED
    BY <1>1, <1>2, <2>1, Created
<1>4. \A s \in Request : \A x \in held[s] : x \in Obj /\ x # o
  BY <1>3 DEF Inv, Types
<1>5. NothingLeftBehind'
  <2> SUFFICES ASSUME NEW x \in live'
               PROVE  (\E s \in Request : x \in held'[s]) \/ x \in pq' \cap complete'
    BY DEF NothingLeftBehind
  <2>1. CASE x = o
    BY <2>1, <1>3
  <2>2. CASE x # o
    <3>1. x \in live /\ x \in Obj
      BY <2>2, <1>3 DEF Inv, Types
    <3>2. (\E s \in Request : x \in held[s]) => \E s \in Request : x \in held'[s]
      BY <3>1, <1>3
    <3>3. x \in pq \cap complete /\ x \notin ejected => x \in pq' \cap complete'
      BY <2>2, <1>1, <1>3
    <3> QED
      BY <3>1, <3>2, <3>3, <1>3 DEF Inv, NothingLeftBehind
  <2> QED
    BY <2>1, <2>2
<1>6. ControlInv'
  <2> SUFFICES ASSUME NEW s \in Request PROVE Control(s)'
    BY DEF ControlInv
  <2>1. CASE s = r
    <3>1. pc'[r] = "store" /\ url'[r] = url[r] /\ handle'[r] = o /\ key'[o] = url[r] /\ dec'[r] = None
      BY <1>1, <1>2 DEF Inv, Types
    <3>2. o \in held'[r]
      BY <1>3
    <3> QED
      BY <2>1, <3>1, <3>2, <1>2 DEF Control
  <2>2. CASE s # r
    <3>1. /\ pc'[s] = pc[s] /\ url'[s] = url[s] /\ stale'[s] = stale[s] /\ handle'[s] = handle[s]
          /\ dec'[s] = dec[s] /\ held'[s] = held[s]
      BY <2>2, <1>1 DEF Inv, Types
    <3>2. handle[s] \in held[s] => key'[handle[s]] = key[handle[s]]
      BY <1>1, <1>4 DEF Inv, Types
    <3> QED
      BY <3>1, <3>2 DEF Inv, ControlInv, Control
  <2> QED
    BY <2>1, <2>2
<1>7. FillInv'
  <2> SUFFICES ASSUME NEW s \in Request PROVE Filling(s)'
    BY DEF FillInv
  <2>1. CASE s = r
    <3>1. pc'[r] = "store" /\ handle'[r] = o /\ dec'[r] = None /\ o \notin complete'
      BY <1>1, <1>2 DEF Inv, Types
    <3>2. \A t \in Request : o \in held'[t] => t = r
      BY <1>3
    <3> QED
      BY <2>1, <3>1, <3>2 DEF Filling
  <2>2. CASE s # r
    <3>1. pc'[s] = pc[s] /\ handle'[s] = handle[s] /\ dec'[s] = dec[s]
      BY <2>2, <1>1 DEF Inv, Types
    <3>2. ASSUME pc[s] \in {"store", "open"}
          PROVE  handle[s] \notin complete' /\ \A t \in Request : handle[s] \in held'[t] => t = s
      <4>1. handle[s] \in held[s] /\ handle[s] \in Obj /\ handle[s] # o
        BY <3>2, <1>4 DEF Inv, ControlInv, Control
      <4> QED
        BY <3>2, <4>1, <1>1, <1>3 DEF Inv, FillInv, Filling
    <3>3. ASSUME dec[s] # None, dec[s] \in pq' PROVE dec[s] \in complete'
      <4>1. dec[s] # o
        BY <3>3, <1>4 DEF Inv, ControlInv, Control
      <4> QED
        BY <3>3, <4>1, <1>1, <1>3 DEF Inv, FillInv, Filling
    <3> QED
      BY <3>1, <3>2, <3>3 DEF Filling
  <2> QED
    BY <2>1, <2>2
<1> QED
  BY <1>3, <1>5, <1>6, <1>7 DEF Cached

(* The request still fills the object that it puts back.                   *)
LEMMA StoreShorterInv ==
  ASSUME Inv, NEW r \in Request, NEW n \in Nat, NEW ejected \in SUBSET pq,
         StoreShorter(r, n, ejected)
  PROVE  Cached' /\ ControlInv' /\ FillInv' /\ NothingLeftBehind'
<1> DEFINE o == handle[r]
<1>1. /\ pc[r] = "store" /\ pc' = [pc EXCEPT ![r] = "open"]
      /\ UNCHANGED <<key, complete, url, stale, handle, held, dec>>
  BY DEF StoreShorter, Goto
<1>2. /\ o \in held[r] /\ o \in Obj /\ key[o] = url[r] /\ url[r] \in Url
      /\ o \notin complete /\ \A s \in Request : o \in held[s] => s = r
  BY <1>1 DEF Inv, Types, ControlInv, Control, FillInv, Filling
<1>3. /\ Cached' /\ pq' \subseteq pq \cup {o} /\ live' \subseteq live
      /\ \A x \in live' : x \in pq => x \in pq' \/ \E s \in Request : x \in held[s]
  <2>1. CASE ht[url[r]] # None
    <3>1. UNCHANGED <<ht, pq, live, refcount>>
      BY <2>1 DEF StoreShorter, cache_find
    <3>2. TableInv' /\ LiveInv'
      BY <3>1, <1>1 DEF Inv, TableInv, LiveInv, HeldIsLive
    <3>3. RefcountExact'
      BY <3>1, <1>1 DEF Inv, RefcountExact, Holders
    <3> QED
      BY <3>1, <3>2, <3>3 DEF Cached
  <2>2. CASE ht[url[r]] = None
    <3>1. /\ Types /\ TableInv /\ LiveInv /\ RefcountExact
          /\ cache_insert(o, n, ejected) /\ Recount(ejected, {o})
      BY <2>2, <1>2, ConfigAssumption DEF StoreShorter, cache_find, Inv, Types
    <3>2. /\ TableInv' /\ LiveInv' /\ RefcountExact'
          /\ pq' = (pq \ ejected) \cup {o}
          /\ live' \subseteq live
          /\ \A x \in live' \cap ejected : \E s \in Request : x \in held[s]
      BY <2>2, <3>1, <1>1, <1>2, PutBack
    <3> QED
      BY <3>2 DEF Cached
  <2> QED
    BY <2>1, <2>2
<1>4. NothingLeftBehind'
  BY <1>1, <1>3 DEF Inv, NothingLeftBehind
<1>5. ControlInv'
  BY <1>1 DEF Inv, Types, ControlInv, Control
<1>6. FillInv'
  <2> SUFFICES ASSUME NEW s \in Request PROVE Filling(s)'
    BY DEF FillInv
  <2>1. pc'[s] \in {"store", "open"} =>
          /\ handle'[s] \notin complete'
          /\ \A t \in Request : handle'[s] \in held'[t] => t = s
    BY <1>1 DEF Inv, Types, FillInv, Filling
  <2>2. ASSUME dec'[s] # None, dec'[s] \in pq' PROVE dec'[s] \in complete'
    <3>1. dec[s] \in held[s] /\ pc[s] = "end"
      BY <2>2, <1>1 DEF Inv, ControlInv, Control
    <3>2. dec[s] # o
      BY <3>1, <1>1, <1>2
    <3> QED
      BY <2>2, <3>2, <1>1, <1>3 DEF Inv, FillInv, Filling
  <2> QED
    BY <2>1, <2>2 DEF Filling
<1> QED
  BY <1>3, <1>4, <1>5, <1>6

(* First half of decrement_refcount: an incomplete object leaves the cache. *)
LEMMA CleanupFirstInv ==
  ASSUME Inv, NEW r \in Request, NEW o \in Obj, CleanupFirst(r, o)
  PROVE  Cached' /\ ControlInv' /\ FillInv' /\ NothingLeftBehind'
<1>1. /\ pc[r] = "end" /\ o \in held[r] /\ dec' = [dec EXCEPT ![r] = o]
      /\ UNCHANGED <<pc, url, stale, handle, held>>
  BY DEF CleanupFirst
<1>2. o \in live /\ key[o] \in Url /\ o # None
  BY <1>1, ConfigAssumption DEF Inv, LiveInv, HeldIsLive, Types
<1>3. /\ Cached' /\ NothingLeftBehind' /\ pq' \subseteq pq /\ UNCHANGED <<key, complete>>
      /\ o \in pq' => o \in complete
  <2>1. CASE o \notin complete /\ cache_find(key[o]) = o
    <3>1. /\ cache_remove(o) /\ Recount({o}, {}) /\ UNCHANGED <<key, complete>>
      BY <2>1 DEF CleanupFirst
    <3>2. o \in pq
      BY <2>1, <1>2 DEF cache_find, Inv, TableInv
    <3>3. pq' = pq \ {o}
      BY <3>1, <3>2 DEF cache_remove
    <3> QED
      BY <3>1, <3>2, <3>3, <1>1, RemovedInv
  <2>2. CASE ~ (o \notin complete /\ cache_find(key[o]) = o)
    <3>1. UNCHANGED cacheVars
      BY <2>2 DEF CleanupFirst
    <3>2. o \in pq => o \in complete
      BY <2>2 DEF cache_find, Inv, TableInv
    <3> QED
      BY <3>1, <3>2, <1>1, SameCache DEF Inv, Cached, cacheVars
  <2> QED
    BY <2>1, <2>2
<1>4. ControlInv'
  BY <1>1, <1>2, <1>3 DEF Inv, Types, ControlInv, Control
<1>5. FillInv'
  BY <1>1, <1>2, <1>3 DEF Inv, Types, FillInv, Filling
<1> QED
  BY <1>3, <1>4, <1>5

(* Second half of decrement_refcount: the reference is dropped.             *)
LEMMA CleanupThenInv ==
  ASSUME Inv, NEW r \in Request, CleanupThen(r)
  PROVE  Cached' /\ ControlInv' /\ FillInv' /\ NothingLeftBehind'
<1> DEFINE o == dec[r]
<1>1. /\ o # None /\ Recount({o}, {})
      /\ held' = [held EXCEPT ![r] = held[r] \ {o}]
      /\ dec' = [dec EXCEPT ![r] = None]
      /\ UNCHANGED <<ht, pq, key, complete, pc, url, stale, handle>>
  BY DEF CleanupThen
<1>2. o \in held[r] /\ pc[r] = "end" /\ (o \in pq => o \in complete)
  BY <1>1 DEF Inv, ControlInv, Control, FillInv, Filling
<1>3. /\ TableInv' /\ LiveInv' /\ RefcountExact' /\ live' \subseteq live
      /\ o \in live' => o \in pq \/ \E s \in Request : o \in held'[s]
  BY <1>1, <1>2, Dereferenced DEF Inv
<1>4. /\ \A s \in Request \ {r} : held'[s] = held[s]
      /\ held'[r] = held[r] \ {o}
  BY <1>1 DEF Inv, Types
<1>5. NothingLeftBehind'
  <2> SUFFICES ASSUME NEW x \in live'
               PROVE  (\E s \in Request : x \in held'[s]) \/ x \in pq \cap complete
    BY <1>1 DEF NothingLeftBehind
  <2>1. CASE x = o
    BY <2>1, <1>2, <1>3
  <2>2. CASE x # o
    BY <2>2, <1>3, <1>4 DEF Inv, NothingLeftBehind
  <2> QED
    BY <2>1, <2>2
<1>6. ControlInv'
  <2> SUFFICES ASSUME NEW s \in Request PROVE Control(s)'
    BY DEF ControlInv
  <2>1. CASE s = r
    BY <2>1, <1>1, <1>2, <1>4 DEF Inv, Types, ControlInv, Control
  <2>2. CASE s # r
    BY <2>2, <1>1, <1>4 DEF Inv, Types, ControlInv, Control
  <2> QED
    BY <2>1, <2>2
<1>7. FillInv'
  <2>1. \A s \in Request : held'[s] \subseteq held[s]
    BY <1>4
  <2>2. \A s \in Request : dec'[s] \in {dec[s], None}
    BY <1>1 DEF Inv, Types
  <2> QED
    BY <2>1, <2>2, <1>1 DEF Inv, FillInv, Filling
<1> QED
  BY <1>3, <1>5, <1>6, <1>7 DEF Cached

(* cleanup_cache_mem empties the cache.                                     *)
LEMMA CleanupCacheInv ==
  ASSUME Inv, CleanupCache
  PROVE  Cached' /\ ControlInv' /\ FillInv' /\ NothingLeftBehind'
<1>1. /\ pq' = {}
      /\ UNCHANGED <<key, complete, pc, url, stale, handle, held, dec>>
  BY DEF CleanupCache
<1>2. TableInv' /\ LiveInv' /\ RefcountExact' /\ live' = {}
  BY CacheCleaned DEF Inv
<1>3. NothingLeftBehind'
  BY <1>2 DEF NothingLeftBehind
<1>4. ControlInv'
  BY <1>1 DEF Inv, ControlInv, Control
<1>5. FillInv'
  BY <1>1 DEF Inv, FillInv, Filling
<1> QED
  BY <1>2, <1>3, <1>4, <1>5 DEF Cached

(* The invariant holds at the start...                                      *)
LEMMA InvInit ==
  Init => Inv
<1> SUFFICES ASSUME Init PROVE Inv
  OBVIOUS
<1>1. Types
  BY DEF Init, Types, Pcs
<1>2. TableInv /\ LiveInv /\ RefcountExact /\ NothingLeftBehind
  BY DEF Init, TableInv, LiveInv, HeldIsLive, RefcountExact, NothingLeftBehind
<1>3. ControlInv /\ FillInv
  BY DEF Init, ControlInv, Control, FillInv, Filling
<1> QED
  BY <1>1, <1>2, <1>3 DEF Inv

(* ... every step keeps it...                                               *)
LEMMA InvNext ==
  ASSUME Inv, ~ RemoveUrlRaces, [Next]_vars
  PROVE  Inv'
<1>1. Types'
  BY TypesNext DEF Inv
<1>2. Cached' /\ ControlInv' /\ FillInv' /\ NothingLeftBehind'
  <2>1. ASSUME NEW r \in Request, Step(r)
        PROVE  Cached' /\ ControlInv' /\ FillInv' /\ NothingLeftBehind'
    <3>1. ASSUME NEW u \in Url, Open(r, u) \/ OpenDeclined(r, u)
          PROVE  Cached' /\ ControlInv' /\ FillInv' /\ NothingLeftBehind'
      BY <3>1, OpenInv, OpenDeclinedInv
    <3>2. ASSUME \/ DropStale(r) \/ Uncacheable(r) \/ PassThrough(r) \/ NotModified(r) \/ Replace(r)
                 \/ CreateDeclined(r) \/ StoreFails(r) \/ Serve(r)
          PROVE  Cached' /\ ControlInv' /\ FillInv' /\ NothingLeftBehind'
      BY <3>2, DropStaleInv, UncacheableInv, PassThroughInv, NotModifiedInv, ReplaceInv, MovesOnInv
    <3>3. ASSUME NEW ejected \in SUBSET pq, NEW n \in 1 .. MaxObject,
                 (\E o \in Obj : Create(r, o, n, ejected)) \/ StoreShorter(r, n, ejected)
          PROVE  Cached' /\ ControlInv' /\ FillInv' /\ NothingLeftBehind'
      <4>1. n \in Nat
        BY ConfigAssumption
      <4> QED
        BY <3>3, <4>1, CreateInv, StoreShorterInv
    <3>4. ASSUME StoreWhole(r) \/ OpenForBusiness(r) \/ CleanupThen(r) \/ RequestEnds(r)
          PROVE  Cached' /\ ControlInv' /\ FillInv' /\ NothingLeftBehind'
      BY <3>4, OpenForBusinessInv, CleanupThenInv, RequestEndsInv
    <3>5. ASSUME NEW o \in Obj, CleanupFirst(r, o)
          PROVE  Cached' /\ ControlInv' /\ FillInv' /\ NothingLeftBehind'
      BY <3>5, CleanupFirstInv
    <3> QED
      BY <2>1, <3>1, <3>2, <3>3, <3>4, <3>5 DEF Step
  <2>2. ASSUME UNCHANGED vars
        PROVE  Cached' /\ ControlInv' /\ FillInv' /\ NothingLeftBehind'
    <3>1. Cached' /\ NothingLeftBehind'
      BY <2>2, SameCache DEF Inv, Cached, vars
    <3>2. ControlInv' /\ FillInv'
      BY <2>2 DEF Inv, vars, cacheVars, ControlInv, Control, FillInv, Filling
    <3> QED
      BY <3>1, <3>2
  <2> QED
    BY <2>1, <2>2, CleanupCacheInv DEF Next
<1> QED
  BY <1>1, <1>2 DEF Inv, Cached

(* ... so it always holds.                                                  *)
LEMMA InvAlways ==
  ASSUME ~ RemoveUrlRaces
  PROVE  Spec => []Inv
BY InvInit, InvNext, PTL DEF Spec

-----------------------------------------------------------------------------
(* recall_body hands out the memory of an object without a copy: as long   *)
(* as a request has decrement_refcount to call, nobody frees the object.   *)
THEOREM HeldStaysLive ==
  ASSUME ~ RemoveUrlRaces
  PROVE  Spec => []HeldIsLive
<1>1. Inv => HeldIsLive
  BY DEF Inv, LiveInv
<1> QED
  BY <1>1, InvAlways, PTL

(* However the increments and decrements of refcount interleave, none is   *)
(* lost or made twice.                                                     *)
THEOREM RefcountStaysExact ==
  ASSUME ~ RemoveUrlRaces
  PROVE  Spec => []RefcountExact
<1>1. Inv => RefcountExact
  BY DEF Inv
<1> QED
  BY <1>1, InvAlways, PTL

(* Whatever fails while an object is filled, decrement_refcount takes it   *)
(* out of the cache: no key is blocked for good and no memory is leaked.   *)
THEOREM NothingStaysBehind ==
  ASSUME ~ RemoveUrlRaces
  PROVE  Spec => []NothingLeftBehind
<1>1. Inv => NothingLeftBehind
  BY DEF Inv
<1> QED
  BY <1>1, InvAlways, PTL

(* cache_insert, cache_remove and cache_pop change the hash table and the  *)
(* priority queue together.                                                *)
THEOREM TableAndQueueAgree ==
  ASSUME ~ RemoveUrlRaces
  PROVE  Spec => []TableMatchesQueue
<1>1. ASSUME Inv PROVE TableMatchesQueue
  <2>1. pq \subseteq {ht[u] : u \in Url} \ {None}
    BY <1>1, ConfigAssumption DEF Inv, Types, TableInv
  <2> QED
    BY <1>1, <2>1 DEF Inv, TableInv, TableMatchesQueue
<1> QED
  BY <1>1, InvAlways, PTL

(* The memory that other requests may be sending is never written again:   *)
(* what a request fills is not complete, and the code that shrinks or      *)
(* reuses an object takes one that is filled, or one that nobody holds.    *)
THEOREM CompleteStays ==
  ASSUME ~ RemoveUrlRaces
  PROVE  Spec => CompleteIsFinal
<1> DEFINE Final == \A o \in live \cap live' :
                      o \in complete => o \in complete' /\ m_len'[o] = m_len[o]
<1>1. ASSUME Inv, Next PROVE Final
  <2>1. CASE \E r \in Request, o \in Obj, n \in 1 .. MaxObject, ejected \in SUBSET pq :
               Create(r, o, n, ejected)
    <3>1. PICK r \in Request, o \in Obj, n \in 1 .. MaxObject, ejected \in SUBSET pq :
                 Create(r, o, n, ejected)
      BY <2>1
    <3>2. o \notin live /\ complete' = complete \ {o} /\ m_len' = [m_len EXCEPT ![o] = n]
      BY <3>1 DEF Create
    <3> QED
      BY <3>2, <1>1 DEF Inv, Types
  <2>2. CASE \E r \in Request, n \in 1 .. MaxObject, ejected \in SUBSET pq :
               StoreShorter(r, n, ejected)
    <3>1. PICK r \in Request, n \in 1 .. MaxObject, ejected \in SUBSET pq :
                 StoreShorter(r, n, ejected)
      BY <2>2
    <3>2. handle[r] \notin complete
      BY <3>1, <1>1 DEF StoreShorter, Inv, FillInv, Filling
    <3>3. complete' = complete /\ \A o \in Obj \ {handle[r]} : m_len'[o] = m_len[o]
      BY <3>1, <1>1 DEF StoreShorter, Inv, Types
    <3> QED
      BY <3>2, <3>3, <1>1 DEF Inv, Types
  <2>3. CASE \E r \in Request : StoreWhole(r) \/ OpenForBusiness(r)
    BY <2>3 DEF StoreWhole, OpenForBusiness
  <2>4. CASE \E r \in Request :
               \/ \E u \in Url : Open(r, u) \/ OpenDeclined(r, u)
               \/ DropStale(r) \/ Uncacheable(r) \/ PassThrough(r) \/ NotModified(r) \/ Replace(r)
               \/ CreateDeclined(r) \/ StoreFails(r) \/ Serve(r)
               \/ \E o \in Obj : CleanupFirst(r, o)
               \/ CleanupThen(r) \/ RequestEnds(r)
    <3>1. UNCHANGED <<complete, m_len>>
      BY <2>4 DEF Open, OpenDeclined, DropStale, Uncacheable, remove_url, PassThrough,
                  NotModified, Replace, CreateDeclined, StoreFails, Serve, CleanupFirst,
                  CleanupThen, RequestEnds, cacheVars
    <3> QED
      BY <3>1
  <2>5. CASE CleanupCache
    BY <2>5 DEF CleanupCache
  <2> QED
    BY <1>1, <2>1, <2>2, <2>3, <2>4, <2>5 DEF Next, Step
<1>2. ASSUME Inv, [Next]_vars PROVE [Final]_vars
  BY <1>1, <1>2
<1> QED
  BY <1>2, InvAlways, PTL DEF Spec, CompleteIsFinal

-----------------------------------------------------------------------------
(* The size of the cache. *)

Lengths == \A o \in Obj : m_len[o] \in 0 .. MaxObject

SizeInv == IsFiniteSet(pq) /\ Lengths /\ SizeExact

(* An object that is not allocated has no references.                      *)
FreeInv == \A o \in Obj \ live : refcount[o] = 0

(* SumLen is the sum of the community modules.                              *)
LEMMA LenIsSum ==
  /\ \A S : SumLen(S) = SumFunctionOnSet(m_len, S)
  /\ SumLen(pq)' = SumFunctionOnSet(m_len', pq')
BY DEF SumLen, MapThenSumSet, SumFunctionOnSet, FoldFunctionOnSet, MapThenFoldSet

(* The objects of a part of the queue and their lengths.                   *)
LEMMA PartOfQueue ==
  ASSUME Types, SizeInv, NEW S \in SUBSET pq
  PROVE  /\ IsFiniteSet(S) /\ IsFiniteSet(pq \ S)
         /\ \A o \in pq : m_len[o] \in Nat
         /\ SumLen(S) \in Nat /\ SumLen(pq) \in Nat
         /\ SumFunctionOnSet(m_len, pq \ S) = SumLen(pq) - SumLen(S)
<1>1. IsFiniteSet(S) /\ IsFiniteSet(pq \ S)
  BY FS_Subset DEF SizeInv
<1>2. \A o \in pq : m_len[o] \in Nat
  BY ConfigAssumption DEF SizeInv, Types, Lengths
<1>3. SumFunctionOnSet(m_len, S) \in Nat
  BY <1>1, <1>2, SumNotNegative
<1>4. SumFunctionOnSet(m_len, pq \ S) \in Nat
  BY <1>1, <1>2, SumNotNegative
<1>5. SumFunctionOnSet(m_len, pq) = SumFunctionOnSet(m_len, S) + SumFunctionOnSet(m_len, pq \ S)
  BY <1>2, SumOfParts DEF SizeInv
<1> QED
  BY <1>1, <1>2, <1>3, <1>4, <1>5, LenIsSum

(* Where neither the queue nor the lengths change.                         *)
LEMMA SizeStays ==
  ASSUME SizeInv, UNCHANGED <<pq, current_size, m_len>>
  PROVE  SizeInv'
<1>1. SumLen(pq)' = SumLen(pq)
  BY LenIsSum
<1> QED
  BY <1>1 DEF SizeInv, Lengths, SizeExact

(* cache_remove takes off the length of what it takes out.                 *)
LEMMA SizeRemove ==
  ASSUME Types, SizeInv, NEW o \in pq, cache_remove(o), UNCHANGED m_len
  PROVE  SizeInv'
<1>1. pq' = pq \ {o} /\ current_size' = current_size - m_len[o]
  BY DEF cache_remove
<1>2. IsFiniteSet(pq') /\ Cardinality(pq') = Cardinality(pq) - 1 /\ Cardinality(pq) \in Nat
  BY <1>1, FS_RemoveElement, FS_CardinalityType DEF SizeInv
<1>3. \A x \in pq : m_len[x] \in Nat
  BY PartOfQueue
<1>4. SumFunctionOnSet(m_len, pq) = m_len[o] + SumFunctionOnSet(m_len, pq \ {o})
  BY <1>3, SumTake DEF SizeInv
<1>5. SumFunctionOnSet(m_len, pq \ {o}) \in Nat
  BY <1>1, <1>2, <1>3, SumNotNegative
<1>6. SumLen(pq)' = current_size'
  BY <1>1, <1>3, <1>4, <1>5, LenIsSum DEF SizeInv, SizeExact
<1> QED
  BY <1>1, <1>2, <1>3, <1>4, <1>5, <1>6, ConfigAssumption, LenIsSum
     DEF SizeInv, Lengths, SizeExact

(* The loop of cache_insert ejects until the new object fits.              *)
LEMMA SizeInsert ==
  ASSUME Types, SizeInv, NEW o \in Obj, o \notin pq, NEW n \in 1 .. MaxObject,
         NEW ejected \in SUBSET pq, cache_insert(o, n, ejected),
         m_len' = [m_len EXCEPT ![o] = n]
  PROVE  SizeInv'
<1>1. /\ pq' = (pq \ ejected) \cup {o}
      /\ current_size' = current_size - SumLen(ejected) + n
      /\ Cardinality(pq \ ejected) < MaxEntries
      /\ current_size - SumLen(ejected) + n <= MaxSize
  BY DEF cache_insert, Ejects, Fits
<1>2. /\ IsFiniteSet(pq \ ejected)
      /\ \A x \in pq : m_len[x] \in Nat
      /\ SumLen(ejected) \in Nat /\ SumLen(pq) \in Nat
      /\ SumFunctionOnSet(m_len, pq \ ejected) = SumLen(pq) - SumLen(ejected)
  BY PartOfQueue
<1>3. IsFiniteSet(pq') /\ Cardinality(pq') <= MaxEntries
  <2>1. o \notin pq \ ejected
    OBVIOUS
  <2>2. /\ IsFiniteSet((pq \ ejected) \cup {o})
        /\ Cardinality((pq \ ejected) \cup {o}) = Cardinality(pq \ ejected) + 1
    BY <1>2, <2>1, FS_AddElement
  <2>3. Cardinality(pq \ ejected) \in Nat
    BY <1>2, FS_CardinalityType
  <2> QED
    BY <1>1, <2>2, <2>3, ConfigAssumption
<1>4. /\ m_len'[o] = n /\ n \in Nat
      /\ \A x \in pq \ ejected : m_len'[x] = m_len[x] /\ m_len[x] \in Int
      /\ Lengths'
  BY <1>2, ConfigAssumption DEF Types, SizeInv, Lengths
<1>5. SumLen(pq)' = n + SumFunctionOnSet(m_len', pq \ ejected)
  <2>1. \A x \in pq' : m_len'[x] \in Int
    BY <1>1, <1>4
  <2>2. o \in pq' /\ pq' \ {o} = pq \ ejected
    BY <1>1
  <2> DEFINE f == m_len'
  <2> DEFINE D == pq'
  <2> HIDE DEF f, D
  <2>3. SumFunctionOnSet(f, D) = f[o] + SumFunctionOnSet(f, D \ {o})
    <3>1. IsFiniteSet(D) /\ (\A x \in D : f[x] \in Int) /\ o \in D
      BY <1>3, <2>1, <2>2 DEF f, D
    <3> QED
      BY <3>1, SumTake
  <2> QED
    BY <1>4, <2>2, <2>3, LenIsSum DEF f, D
<1>6. SumFunctionOnSet(m_len', pq \ ejected) = SumFunctionOnSet(m_len, pq \ ejected)
  BY <1>2, <1>4, SumOfSame
<1>7. SumLen(pq)' = current_size'
  BY <1>1, <1>2, <1>4, <1>5, <1>6 DEF SizeInv, SizeExact
<1> QED
  BY <1>1, <1>3, <1>4, <1>7 DEF SizeInv, SizeExact

(* The length of an object in the queue is corrected downwards.            *)
LEMMA SizeShrink ==
  ASSUME Types, SizeInv, NEW o \in pq, NEW n \in 1 .. MaxObject, n < m_len[o],
         pq' = pq, current_size' = current_size - m_len[o] + n,
         m_len' = [m_len EXCEPT ![o] = n]
  PROVE  SizeInv'
<1>1. \A x \in pq : m_len[x] \in Nat
  BY PartOfQueue
<1>2. /\ m_len'[o] = n /\ n \in Nat
      /\ \A x \in pq \ {o} : m_len'[x] = m_len[x] /\ m_len[x] \in Int
      /\ Lengths'
  BY <1>1, ConfigAssumption DEF Types, SizeInv, Lengths
<1>3. IsFiniteSet(pq \ {o})
  BY FS_Subset DEF SizeInv
<1>4. SumFunctionOnSet(m_len, pq) = m_len[o] + SumFunctionOnSet(m_len, pq \ {o})
  BY <1>1, SumTake DEF SizeInv
<1>5. SumFunctionOnSet(m_len', pq) = m_len'[o] + SumFunctionOnSet(m_len', pq \ {o})
  <2> DEFINE f == m_len'
  <2>1. IsFiniteSet(pq) /\ \A x \in pq : f[x] \in Int
    BY <1>2 DEF SizeInv
  <2> HIDE DEF f
  <2>2. SumFunctionOnSet(f, pq) = f[o] + SumFunctionOnSet(f, pq \ {o})
    BY <2>1, SumTake
  <2> QED
    BY <2>2 DEF f
<1>6. SumFunctionOnSet(m_len', pq \ {o}) = SumFunctionOnSet(m_len, pq \ {o})
  <2> DEFINE f == m_len'
             D == pq \ {o}
  <2>1. IsFiniteSet(D) /\ \A x \in D : m_len[x] \in Int /\ f[x] = m_len[x]
    BY <1>2, <1>3
  <2> HIDE DEF f, D
  <2>2. SumFunctionOnSet(f, D) = SumFunctionOnSet(m_len, D)
    BY <2>1, SumOfSame
  <2> QED
    BY <2>2 DEF f, D
<1>7. SumFunctionOnSet(m_len, pq \ {o}) \in Nat
  BY <1>1, <1>3, SumNotNegative
<1>8. SumLen(pq)' = current_size' /\ current_size' <= current_size
  BY <1>1, <1>2, <1>4, <1>5, <1>6, <1>7, LenIsSum DEF SizeInv, SizeExact
<1>9. current_size \in Nat
  BY <1>1, <1>4, <1>7, LenIsSum DEF SizeInv, SizeExact
<1> QED
  BY <1>1, <1>2, <1>8, <1>9, ConfigAssumption DEF SizeInv, SizeExact

(* An object that remove_url takes out is in the cache.                    *)
LEMMA SizeRemoveUrl ==
  ASSUME Inv, SizeInv, ~ RemoveUrlRaces, NEW o \in Obj \cap live, remove_url(o)
  PROVE  SizeInv'
<1>1. o \in pq
  BY ConfigAssumption DEF Inv, LiveInv, TableInv, remove_url, cache_find, Types
<1> QED
  BY <1>1, SizeRemove DEF Inv, remove_url

(* Every step keeps the account of the size.                                *)
LEMMA SizeNext ==
  ASSUME Inv, SizeInv, Next, ~ RemoveUrlRaces
  PROVE  SizeInv'
<1>1. CASE CleanupCache
  <2>1. pq' = {} /\ current_size' = current_size - SumLen(pq) /\ m_len' = m_len
    BY <1>1 DEF CleanupCache
  <2>2. current_size' = 0
    <3>1. SumLen(pq) \in Nat
      BY PartOfQueue DEF Inv
    <3> QED
      BY <2>1, <3>1 DEF SizeInv, SizeExact
  <2>3. IsFiniteSet(pq') /\ Cardinality(pq') = 0 /\ SumLen(pq)' = 0
    BY <2>1, FS_EmptySet, SumFirst, LenIsSum
  <2> QED
    BY <2>1, <2>2, <2>3, ConfigAssumption DEF SizeInv, Lengths, SizeExact
<1>2. ASSUME NEW r \in Request, Step(r) PROVE SizeInv'
  <2>1. /\ stale[r] \in Obj \cup {None} /\ handle[r] \in Obj \cup {None}
        /\ held[r] \subseteq live /\ live \subseteq Obj
        /\ Control(r)
    BY DEF Inv, Types, LiveInv, HeldIsLive, ControlInv
  <2>2. CASE \/ \E u \in Url : Open(r, u) \/ OpenDeclined(r, u)
             \/ PassThrough(r) \/ NotModified(r) \/ CreateDeclined(r)
             \/ StoreWhole(r) \/ OpenForBusiness(r) \/ StoreFails(r)
             \/ Serve(r) \/ CleanupThen(r) \/ RequestEnds(r)
    <3>1. UNCHANGED <<pq, current_size, m_len>>
      BY <2>2 DEF Open, OpenDeclined, PassThrough, NotModified, CreateDeclined, StoreWhole,
                  OpenForBusiness, StoreFails, Serve, CleanupThen, RequestEnds, cacheVars
    <3> QED
      BY <3>1, SizeStays
  <2>3. CASE DropStale(r)
    <3>1. pc[r] = "drop" /\ remove_url(stale[r])
      BY <2>3 DEF DropStale
    <3>2. stale[r] \in Obj \cap live
      BY <2>1, <3>1 DEF Control
    <3> QED
      BY <3>1, <3>2, SizeRemoveUrl
  <2>4. CASE Uncacheable(r)
    <3>1. CASE stale[r] = None
      <4>1. UNCHANGED <<pq, current_size, m_len>>
        BY <2>4, <3>1 DEF Uncacheable, cacheVars
      <4> QED
        BY <4>1, SizeStays
    <3>2. CASE stale[r] # None
      <4>1. pc[r] = "backend" /\ remove_url(stale[r])
        BY <2>4, <3>2 DEF Uncacheable
      <4>2. stale[r] \in Obj \cap live
        BY <2>1, <3>2, <4>1 DEF Control
      <4> QED
        BY <4>1, <4>2, SizeRemoveUrl
    <3> QED
      BY <3>1, <3>2
  <2>5. CASE Replace(r)
    <3>1. CASE stale[r] # None /\ cache_find(url[r]) = stale[r]
      <4>1. pc[r] = "backend" /\ cache_remove(stale[r]) /\ m_len' = m_len
        BY <2>5, <3>1 DEF Replace
      <4>2. stale[r] \in pq
        BY <2>1, <3>1, <4>1 DEF Control, cache_find, Inv, TableInv
      <4> QED
        BY <4>1, <4>2, SizeRemove DEF Inv
    <3>2. CASE ~ (stale[r] # None /\ cache_find(url[r]) = stale[r])
      <4>1. UNCHANGED <<pq, current_size, m_len>>
        BY <2>5, <3>2 DEF Replace, cacheVars
      <4> QED
        BY <4>1, SizeStays
    <3> QED
      BY <3>1, <3>2
  <2>6. ASSUME NEW ejected \in SUBSET pq, NEW n \in 1 .. MaxObject, NEW o \in Obj,
               Create(r, o, n, ejected)
        PROVE  SizeInv'
    <3>1. o \notin live /\ m_len' = [m_len EXCEPT ![o] = n] /\ cache_insert(o, n, ejected)
      BY <2>6 DEF Create
    <3>2. o \notin pq
      BY <3>1 DEF Inv, LiveInv
    <3> QED
      BY <3>1, <3>2, SizeInsert DEF Inv
  <2>7. ASSUME NEW ejected \in SUBSET pq, NEW n \in 1 .. MaxObject,
               StoreShorter(r, n, ejected)
        PROVE  SizeInv'
    <3> DEFINE o == handle[r]
    <3>1. pc[r] = "store" /\ n < m_len[o]
      BY <2>7 DEF StoreShorter
    <3>2. o \in held[r] /\ o \in Obj /\ key[o] = url[r] /\ url[r] \in Url
      BY <2>1, <3>1 DEF Control
    <3>3. CASE /\ cache_find(url[r]) = o
               /\ current_size' = current_size - m_len[o] + n
               /\ m_len' = [m_len EXCEPT ![o] = n]
               /\ pq' = pq
      <4>1. o \in pq
        BY <3>2, <3>3, ConfigAssumption DEF Inv, TableInv, cache_find
      <4> QED
        BY <3>1, <3>3, <4>1, SizeShrink DEF Inv
    <3>4. CASE UNCHANGED <<pq, current_size, m_len>>
      BY <3>4, SizeStays
    <3>5. CASE /\ cache_find(url[r]) = None
               /\ cache_insert(o, n, ejected)
               /\ m_len' = [m_len EXCEPT ![o] = n]
      <4>1. o \notin pq
        BY <3>2, <3>5, ConfigAssumption DEF Inv, TableInv, cache_find
      <4> QED
        BY <3>2, <3>5, <4>1, SizeInsert DEF Inv
    <3> QED
      BY <2>7, <3>3, <3>4, <3>5 DEF StoreShorter
  <2>8. ASSUME NEW o \in Obj, CleanupFirst(r, o) PROVE SizeInv'
    <3>1. CASE o \notin complete /\ cache_find(key[o]) = o
      <4>1. o \in live /\ cache_remove(o) /\ m_len' = m_len
        BY <2>1, <2>8, <3>1 DEF CleanupFirst
      <4>2. o \in pq
        BY <3>1, <4>1, ConfigAssumption DEF Inv, TableInv, LiveInv, cache_find
      <4> QED
        BY <4>1, <4>2, SizeRemove DEF Inv
    <3>2. CASE ~ (o \notin complete /\ cache_find(key[o]) = o)
      <4>1. UNCHANGED <<pq, current_size, m_len>>
        BY <2>8, <3>2 DEF CleanupFirst, cacheVars
      <4> QED
        BY <4>1, SizeStays
    <3> QED
      BY <3>1, <3>2
  <2> QED
    BY <1>2, <2>2, <2>3, <2>4, <2>5, <2>6, <2>7, <2>8 DEF Step
<1> QED
  BY <1>1, <1>2 DEF Next

(* current_size is always exact and within its limits.                      *)
LEMMA SizeAlways ==
  ASSUME ~ RemoveUrlRaces
  PROVE  Spec => [](Inv /\ SizeInv)
<1>1. Init => SizeInv
  <2> SUFFICES ASSUME Init PROVE SizeInv
    OBVIOUS
  <2>1. SumLen(pq) = 0 /\ IsFiniteSet(pq) /\ Cardinality(pq) = 0
    BY FS_EmptySet, SumFirst, LenIsSum DEF Init
  <2> QED
    BY <2>1, ConfigAssumption DEF Init, SizeInv, Lengths, SizeExact
<1>2. Inv /\ SizeInv /\ [Next]_vars => SizeInv'
  BY SizeNext, SizeStays DEF vars, cacheVars
<1> QED
  BY <1>1, <1>2, InvAlways, PTL DEF Spec

(* cache_insert ejects by current_size and the number of elements: both    *)
(* say what is cached, and the cache never exceeds the limits configured,  *)
(* also when a streamed object is taken out and put back with its size.    *)
THEOREM SizeStaysExact ==
  ASSUME ~ RemoveUrlRaces
  PROVE  Spec => []SizeExact
<1>1. SizeInv => SizeExact
  BY DEF SizeInv
<1> QED
  BY <1>1, SizeAlways, PTL

(* The counts that drop to zero are those of objects that are freed.       *)
LEMMA FreeRecount ==
  ASSUME Types, FreeInv, NEW S \in SUBSET live, NEW T \in SUBSET Obj, Recount(S, T)
  PROVE  FreeInv'
<1>1. /\ \A o \in Obj : refcount'[o] = refcount[o] - (IF o \in S THEN 1 ELSE 0)
                                                    + (IF o \in T THEN 1 ELSE 0)
      /\ live' = (live \cup T) \ {o \in S : refcount'[o] = 0}
  BY DEF Recount
<1>2. ASSUME NEW o \in Obj \ live' PROVE refcount'[o] = 0
  <2>1. CASE o \in S
    BY <1>1, <1>2, <2>1
  <2>2. CASE o \notin S
    BY <1>1, <1>2, <2>2 DEF FreeInv
  <2> QED
    BY <2>1, <2>2
<1> QED
  BY <1>2 DEF FreeInv

(* An object is freed only when nobody refers to it.                        *)
LEMMA FreeNext ==
  ASSUME Inv, FreeInv, Next
  PROVE  FreeInv'
<1>1. CASE CleanupCache
  <2>1. Recount(pq, {})
    BY <1>1 DEF CleanupCache
  <2> QED
    BY <2>1, FreeRecount DEF Inv, LiveInv
<1>2. ASSUME NEW r \in Request, Step(r) PROVE FreeInv'
  <2>1. /\ stale[r] \in Obj \cup {None} /\ handle[r] \in Obj \cup {None}
        /\ held[r] \subseteq live /\ live \subseteq Obj /\ complete \subseteq Obj
        /\ Control(r)
    BY <1>2 DEF Inv, Types, LiveInv, HeldIsLive, ControlInv
  <2>2. CASE UNCHANGED <<live, refcount>>
    BY <2>2 DEF FreeInv
  <2>3. ASSUME NEW u \in Url, Open(r, u) PROVE FreeInv'
    <3>1. ht[u] \in Obj /\ Recount({}, {ht[u]})
      BY <2>1, <2>3 DEF Open, cache_find
    <3> QED
      BY <3>1, FreeRecount DEF Inv
  <2>4. CASE DropStale(r) \/ Uncacheable(r) \/ Replace(r)
    <3>1. CASE UNCHANGED <<live, refcount>>
      BY <3>1, <2>2
    <3>2. CASE ~ UNCHANGED <<live, refcount>>
      <4>1. Recount({stale[r]}, {}) /\ pc[r] \in {"drop", "backend"}
        BY <2>4, <3>2 DEF DropStale, Uncacheable, Replace, remove_url, cacheVars
      <4>2. stale[r] # None
        BY <2>1, <2>4, <3>2, <4>1 DEF DropStale, Uncacheable, Replace, Control, cacheVars
      <4>3. stale[r] \in live
        BY <2>1, <4>1, <4>2 DEF Control
      <4> QED
        BY <4>1, <4>3, FreeRecount DEF Inv
    <3> QED
      BY <3>1, <3>2
  <2>5. ASSUME NEW ejected \in SUBSET pq, NEW n, NEW o \in Obj, Create(r, o, n, ejected)
        PROVE  FreeInv'
    <3>1. /\ refcount' = [x \in Obj |-> IF x = o THEN 2
                                        ELSE refcount[x] - (IF x \in ejected THEN 1 ELSE 0)]
          /\ live' = (live \cup {o}) \ {x \in ejected : refcount'[x] = 0}
      BY <2>5 DEF Create
    <3>2. ejected \subseteq live
      BY DEF Inv, LiveInv
    <3>3. ASSUME NEW x \in Obj \ live' PROVE refcount'[x] = 0
      <4>1. CASE x \in ejected
        BY <3>1, <3>2, <3>3, <4>1
      <4>2. CASE x \notin ejected
        <5>1. x # o /\ x \notin live
          BY <3>1, <3>3, <4>2
        <5>2. refcount[x] = 0
          BY <5>1 DEF FreeInv
        <5> QED
          BY <3>1, <4>2, <5>1, <5>2
      <4> QED
        BY <4>1, <4>2
    <3> QED
      BY <3>3 DEF FreeInv
  <2>6. ASSUME NEW ejected \in SUBSET pq, NEW n, StoreShorter(r, n, ejected)
        PROVE  FreeInv'
    <3>1. CASE UNCHANGED <<live, refcount>>
      BY <3>1, <2>2
    <3>2. CASE Recount(ejected, {handle[r]})
      <4>1. ejected \subseteq live
        BY DEF Inv, LiveInv
      <4>2. handle[r] \in live
        BY <2>1, <2>6 DEF StoreShorter, Control
      <4>3. ejected \in SUBSET live /\ {handle[r]} \in SUBSET Obj
        BY <2>1, <4>1, <4>2
      <4> QED
        BY <3>2, <4>3, FreeRecount DEF Inv
    <3> QED
      BY <2>6, <3>1, <3>2 DEF StoreShorter
  <2>7. ASSUME NEW o \in Obj, CleanupFirst(r, o) PROVE FreeInv'
    <3>1. CASE UNCHANGED <<live, refcount>>
      BY <3>1, <2>2
    <3>2. CASE Recount({o}, {})
      <4>1. o \in live
        BY <2>1, <2>7 DEF CleanupFirst
      <4> QED
        BY <3>2, <4>1, FreeRecount DEF Inv
    <3> QED
      BY <2>7, <3>1, <3>2 DEF CleanupFirst, cacheVars
  <2>8. CASE CleanupThen(r)
    <3>1. Recount({dec[r]}, {}) /\ dec[r] # None
      BY <2>8 DEF CleanupThen
    <3>2. dec[r] \in live
      BY <2>1, <3>1 DEF Control
    <3> QED
      BY <3>1, <3>2, FreeRecount DEF Inv
  <2>9. CASE \/ \E u \in Url : OpenDeclined(r, u)
             \/ PassThrough(r) \/ NotModified(r) \/ CreateDeclined(r)
             \/ StoreWhole(r) \/ OpenForBusiness(r) \/ StoreFails(r)
             \/ Serve(r) \/ RequestEnds(r)
    <3>1. UNCHANGED <<live, refcount>>
      BY <2>9 DEF OpenDeclined, PassThrough, NotModified, CreateDeclined, StoreWhole,
                  OpenForBusiness, StoreFails, Serve, RequestEnds, cacheVars
    <3> QED
      BY <2>2, <3>1
  <2> QED
    BY <1>2, <2>3, <2>4, <2>5, <2>6, <2>7, <2>8, <2>9 DEF Step
<1> QED
  BY <1>1, <1>2 DEF Next

(* No freed object ever has references.                                     *)
LEMMA FreeAlways ==
  ASSUME ~ RemoveUrlRaces
  PROVE  Spec => []FreeInv
<1>1. Init => FreeInv
  BY DEF Init, FreeInv
<1>2. Inv /\ FreeInv /\ [Next]_vars => FreeInv'
  <2>1. ASSUME Inv, FreeInv, UNCHANGED vars PROVE FreeInv'
    BY <2>1 DEF vars, cacheVars, FreeInv
  <2> QED
    BY <2>1, FreeNext
<1> QED
  BY <1>1, <1>2, InvAlways, PTL DEF Spec

(* Type correctness: refcount stays between 0 and one more than the number *)
(* of requests, current_size within the limit, and only allocated objects  *)
(* are in the cache.                                                       *)
THEOREM TypeCorrect ==
  ASSUME ~ RemoveUrlRaces
  PROVE  Spec => []TypeOK
<1>1. ASSUME Inv, SizeInv, FreeInv PROVE TypeOK
  <2>1. current_size \in 0 .. MaxSize
    <3>1. SumLen(pq) \in Nat
      BY <1>1, PartOfQueue DEF Inv
    <3> QED
      BY <1>1, <3>1, ConfigAssumption DEF SizeInv, SizeExact
  <2>2. refcount \in [Obj -> 0 .. 1 + Cardinality(Request)]
    <3>1. ASSUME NEW o \in Obj PROVE refcount[o] \in 0 .. 1 + Cardinality(Request)
      <4>1. /\ Cardinality(Holders(o)) \in Nat /\ Cardinality(Request) \in Nat
            /\ Cardinality(Holders(o)) <= Cardinality(Request)
        <5>1. Holders(o) \in SUBSET Request
          BY DEF Holders
        <5> QED
          BY <5>1, RequestAssumption, FS_Subset, FS_CardinalityType, HoldersFinite
      <4>2. CASE o \in live
        <5>1. refcount[o] = Cardinality(Holders(o)) + (IF o \in pq THEN 1 ELSE 0)
          BY <1>1, <4>2 DEF Inv, RefcountExact
        <5> QED
          BY <4>1, <5>1
      <4>3. CASE o \notin live
        <5>1. refcount[o] = 0
          BY <1>1, <4>3 DEF FreeInv
        <5> QED
          BY <4>1, <5>1
      <4> QED
        BY <4>2, <4>3
    <3> QED
      BY <1>1, <3>1 DEF Inv, Types
  <2>3. m_len \in [Obj -> 0 .. MaxObject]
    BY <1>1 DEF Inv, Types, SizeInv, Lengths
  <2> QED
    BY <1>1, <2>1, <2>2, <2>3 DEF Inv, Types, LiveInv, TypeOK, Pcs
<1> QED
  BY <1>1, SizeAlways, FreeAlways, PTL
=============================================================================
