--------------------------- MODULE InMemoryCache ---------------------------
(***************************************************************************)
(* The process-wide LRU cache of the idempotency middleware (cache.go),    *)
(* driven by any sequence of its three exported methods.  A value is its   *)
(* CreatedAt: an entry loaded back from the table carries the creation     *)
(* time of the row, so times are not stored in increasing order.           *)
(*                                                                         *)
(* A second cache, wide, with a larger limit, is driven by the same calls: *)
(* it exists only to ask whether a larger limit can lose a hit.            *)
(*                                                                         *)
(* The specification's own names carry the word cache, so that one module  *)
(* can extend this one and the middleware's.                               *)
(***************************************************************************)
EXTENDS LruCache

CONSTANTS Keys, Times, MaxSize, WideSize, Absent

ASSUME TimeAssumption == Times \subseteq Int

ASSUME SizeAssumption == /\ MaxSize \in Nat
                         /\ WideSize \in Nat
                         /\ MaxSize <= WideSize

VARIABLES cache, \* InMemoryCache{items, order} with maxSize = MaxSize
          wide,  \* the same with maxSize = WideSize
          seen   \* what the latest Get of cache returned

cacheVars == <<cache, wide, seen>>

CacheInit == /\ cache = LruEmpty
             /\ wide = LruEmpty
             /\ seen = Absent

Get(k) == /\ cache' = LruGet(cache, k)
          /\ wide' = LruGet(wide, k)
          /\ seen' = IF LruHas(cache, k) THEN cache.items[k] ELSE Absent

Set(k, t) == /\ cache' = LruSet(cache, k, t, MaxSize)
             /\ wide' = LruSet(wide, k, t, WideSize)
             /\ UNCHANGED seen

Older(before) == {t \in Times : t < before}

DeleteOld(before) == /\ cache' = LruDeleteOld(cache, Older(before))
                     /\ wide' = LruDeleteOld(wide, Older(before))
                     /\ UNCHANGED seen

CacheNext == \/ \E k \in Keys : Get(k)
             \/ \E k \in Keys, t \in Times : Set(k, t)
             \/ \E before \in Times : DeleteOld(before)

CacheSpec == CacheInit /\ [][CacheNext]_cacheVars

-----------------------------------------------------------------------------
\* The index and the list name the same keys, each key once: evictLRU and
\* DeleteOld delete from both, Set inserts into both.
ListMatchesIndex == /\ ToSet(cache.order) = DOMAIN cache.items
                    /\ IsInjective(cache.order)

\* Raising maxSize never loses a hit: under the same calls, whatever the
\* smaller cache holds, the larger one holds with the same value.
LargerKeepsMore ==
  \A k \in DOMAIN cache.items :
    k \in DOMAIN wide.items /\ wide.items[k] = cache.items[k]

Recency == INSTANCE RecencyMap WITH
  Capacity <- MaxSize,
  None <- Absent,
  stored <- cache.items,
  newer <- {p \in Keys \X Keys : Before(cache.order, p[1], p[2])}

\* The list-and-index implementation is an LRU map: what is evicted is the
\* least recently used key and nothing else.
IsRecencyMap == Recency!Spec

=============================================================================
