------------------------------ MODULE LruCache ------------------------------
(***************************************************************************)
(* The operations of idempotency.InMemoryCache as operators on its state:  *)
(* a record of the recency list (order, most recently used key first) and  *)
(* of the index (items, from a key to the value its list element holds).   *)
(* The mutex makes each exported method one atomic step, so a module that  *)
(* keeps a cache applies one of these operators per step.                  *)
(***************************************************************************)
EXTENDS Naturals, FiniteSets, Sequences, SequencesExt, Functions

LruEmpty == [order |-> << >>, items |-> [k \in {} |-> {}]]

LruHas(c, k) == k \in DOMAIN c.items

\* What remains of a list when only the keys of kept stay on it, in the order
\* they had: place j goes to the entry that is the j-th of those that stay.
Only(order, kept) ==
  LET at == {i \in DOMAIN order : order[i] \in kept}
      Place(i) == Cardinality({h \in at : h <= i})
  IN  [j \in 1..Cardinality(at) |-> order[CHOOSE i \in at : Place(i) = j]]

MoveToFront(order, k) == <<k>> \o Only(order, ToSet(order) \ {k})

\* a stands somewhere in front of b: it was used more recently.
Before(order, a, b) ==
  \E i, j \in DOMAIN order : i < j /\ order[i] = a /\ order[j] = b

\* Get: a hit becomes the most recently used entry, a miss changes nothing.
LruGet(c, k) ==
  IF LruHas(c, k)
  THEN [order |-> MoveToFront(c.order, k), items |-> c.items]
  ELSE c

\* Mutant of EvictLRU: evicts the most recently used entry.
EvictFront(c) ==
  IF c.order = << >>
  THEN c
  ELSE [order |-> Tail(c.order),
        items |-> Restrict(c.items, DOMAIN c.items \ {Head(c.order)})]

\* Mutant of EvictLRU: forgets to delete the key from the index.
EvictListOnly(c) ==
  IF c.order = << >> THEN c ELSE [order |-> Front(c.order), items |-> c.items]

\* evictLRU: the back of the list goes; an empty list has no back.
EvictLRU(c) ==
  IF c.order = << >>
  THEN c
  ELSE [order |-> Front(c.order),
        items |-> Restrict(c.items, DOMAIN c.items \ {Last(c.order)})]

PushFront(c, k, v) ==
  [order |-> <<k>> \o c.order,
   items |-> [x \in DOMAIN c.items \union {k} |->
                IF x = k THEN v ELSE c.items[x]]]

\* Mutant of LruSet: an update in place does not count as a use.
LruSetNoTouch(c, k, v, max) ==
  IF LruHas(c, k)
  THEN [order |-> c.order, items |-> [c.items EXCEPT ![k] = v]]
  ELSE PushFront(IF Len(c.order) >= max THEN EvictLRU(c) ELSE c, k, v)

\* Set: an existing key is updated in place and moved to the front; a new one
\* first makes room for itself when the list holds max entries or more.
LruSet(c, k, v, max) ==
  IF LruHas(c, k)
  THEN [order |-> MoveToFront(c.order, k), items |-> [c.items EXCEPT ![k] = v]]
  ELSE PushFront(IF Len(c.order) >= max THEN EvictLRU(c) ELSE c, k, v)

\* DeleteOld: drops the entries whose value is in old (created before a time).
LruDeleteOld(c, old) ==
  LET kept == {k \in DOMAIN c.items : c.items[k] \notin old}
  IN  [order |-> Only(c.order, kept),
       items |-> Restrict(c.items, kept)]

=============================================================================
