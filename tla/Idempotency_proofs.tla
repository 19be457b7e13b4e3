------------------------- MODULE Idempotency_proofs -------------------------
(***************************************************************************)
(* Proofs about the package idempotency: its list operations (LruCache),   *)
(* its cache (InMemoryCache) for any keys, times and limits, and its       *)
(* middleware (Idempotency) for any requests, keys, locks, instances, pool *)
(* size, memory size and set of faults.                                    *)
(***************************************************************************)
EXTENDS Idempotency, InMemoryCache, FiniteSetTheorems, TLAPS

-----------------------------------------------------------------------------
(* The list operations, on a list where no key is twice: which keys stay,  *)
(* and which of two stands in front.                                       *)

\* Only keeps the keys asked for, each once, in the order they had.  The place
\* of an entry counts the entries kept up to it; it grows along the list, so it
\* is an injection into 1..n, and as both sides have n members every place is
\* taken.
LEMMA OnlyEntries ==
  ASSUME NEW K, NEW order \in Seq(K), IsInjective(order), NEW kept
  PROVE  /\ Only(order, kept) \in Seq(K)
         /\ IsInjective(Only(order, kept))
         /\ ToSet(Only(order, kept)) = ToSet(order) \cap kept
         /\ \A a, b : Before(Only(order, kept), a, b)
                        <=> a \in kept /\ b \in kept /\ Before(order, a, b)
<1> DEFINE at == {i \in DOMAIN order : order[i] \in kept}
           Place(i) == Cardinality({h \in at : h <= i})
           n == Cardinality(at)
           Nth(j) == CHOOSE i \in at : Place(i) = j
<1>1. DOMAIN order = 1..Len(order) /\ Len(order) \in Nat
  OBVIOUS
<1>2. IsFiniteSet(at) /\ n \in Nat
  <2>1. IsFiniteSet(1..Len(order))
    BY <1>1, FS_Interval
  <2>2. at \subseteq 1..Len(order)
    BY <1>1
  <2>3. QED BY <2>1, <2>2, FS_Subset, FS_CardinalityType
<1>3. \A i \in at : Place(i) \in 1..n
  <2> SUFFICES ASSUME NEW i \in at PROVE Place(i) \in 1..n
    OBVIOUS
  <2> DEFINE upto == {h \in at : h <= i}
  <2>1. i \in upto
    BY <1>1
  <2>2. IsFiniteSet(upto) /\ Cardinality(upto) \in Nat /\ Cardinality(upto) <= n
    <3>1. upto \subseteq at
      OBVIOUS
    <3>2. QED BY <1>2, <3>1, FS_Subset, FS_CardinalityType
  <2>3. Cardinality(upto) # 0
    BY <2>1, <2>2, FS_EmptySet
  <2>4. QED BY <1>2, <2>2, <2>3
<1>4. ASSUME NEW g \in at, NEW i \in at, g < i
      PROVE  Place(g) < Place(i)
  <2> DEFINE upto(x) == {h \in at : h <= x}
  <2>1. upto(g) \subseteq upto(i) /\ upto(i) \subseteq at
    BY <1>1, <1>4
  <2>2. i \in upto(i) /\ i \notin upto(g)
    BY <1>1, <1>4
  <2>3. IsFiniteSet(upto(i))
    BY <1>2, <2>1, FS_Subset
  <2> HIDE DEF upto
  <2>4. Cardinality(upto(g)) < Cardinality(upto(i))
    BY <2>1, <2>2, <2>3, FS_Subset, FS_CardinalityType
  <2>5. QED BY <2>4 DEF upto
<1> HIDE DEF Place
<1>5. \A g, i \in at : Place(g) = Place(i) => g = i
  <2> SUFFICES ASSUME NEW g \in at, NEW i \in at, Place(g) = Place(i), g # i
               PROVE  FALSE
    OBVIOUS
  <2>1. g < i \/ i < g
    BY <1>1
  <2>2. QED BY <2>1, <1>2, <1>3, <1>4
<1>6. \A j \in 1..n : \E i \in at : Place(i) = j
  <2> DEFINE f == [i \in at |-> Place(i)]
  <2>1. f \in Injection(at, 1..n)
    BY <1>3, <1>5 DEF Injection, IsInjective
  <2>2. IsFiniteSet(1..n) /\ Cardinality(1..n) = n
    BY <1>2, FS_Interval
  <2>3. f \in Surjection(at, 1..n)
    BY <2>1, <2>2, <1>2, FS_Injection
  <2>4. QED BY <2>3 DEF Surjection
<1>7. \A j \in 1..n : Nth(j) \in at /\ Place(Nth(j)) = j
  BY <1>6
<1> HIDE DEF Nth
<1>8. \A i \in at : Nth(Place(i)) = i
  BY <1>3, <1>5, <1>7
<1>9. ASSUME NEW j \in 1..n, NEW l \in 1..n
      PROVE  j < l <=> Nth(j) < Nth(l)
  <2>1. CASE j < l
    <3>1. ~ Nth(l) < Nth(j) /\ Nth(l) # Nth(j)
      BY <2>1, <1>7, <1>4, <1>2
    <3>2. QED BY <2>1, <3>1, <1>7, <1>1
  <2>2. CASE Nth(j) < Nth(l)
    BY <2>2, <1>7, <1>4, <1>2
  <2>3. QED BY <2>1, <2>2
<1> DEFINE rest == Only(order, kept)
<1>10. rest = [j \in 1..n |-> order[Nth(j)]]
  BY DEF Only, Nth, Place
<1> HIDE DEF n, at
<1>11. \A i \in at : i \in DOMAIN order /\ order[i] \in kept /\ order[i] \in K
  BY <1>1 DEF at
<1>12. rest \in Seq(K) /\ DOMAIN rest = 1..n
  BY <1>2, <1>7, <1>10, <1>11
<1> HIDE DEF rest
<1>13. IsInjective(rest)
  <2> SUFFICES ASSUME NEW j \in 1..n, NEW l \in 1..n, rest[j] = rest[l]
               PROVE  j = l
    BY <1>12 DEF IsInjective
  <2>1. order[Nth(j)] = order[Nth(l)]
    BY <1>10
  <2>2. Nth(j) = Nth(l)
    BY <2>1, <1>7, <1>11 DEF IsInjective
  <2>3. QED BY <2>2, <1>7
<1>14. ToSet(rest) = ToSet(order) \cap kept
  <2>1. ASSUME NEW j \in 1..n
        PROVE  rest[j] \in ToSet(order) \cap kept
    BY <1>7, <1>10, <1>11 DEF ToSet
  <2>2. ASSUME NEW i \in DOMAIN order, order[i] \in kept
        PROVE  order[i] \in ToSet(rest)
    <3>1. i \in at
      BY <2>2 DEF at
    <3>2. Place(i) \in 1..n /\ rest[Place(i)] = order[i]
      BY <3>1, <1>3, <1>8, <1>10
    <3>3. QED BY <3>2, <1>12 DEF ToSet
  <2>3. QED BY <2>1, <2>2, <1>12 DEF ToSet
<1>15. ASSUME NEW a, NEW b
       PROVE  Before(rest, a, b) <=> a \in kept /\ b \in kept /\ Before(order, a, b)
  <2>1. ASSUME NEW j \in 1..n, NEW l \in 1..n, j < l, rest[j] = a, rest[l] = b
        PROVE  a \in kept /\ b \in kept /\ Before(order, a, b)
    <3>1. Nth(j) \in DOMAIN order /\ Nth(l) \in DOMAIN order /\ Nth(j) < Nth(l)
      BY <2>1, <1>7, <1>9, <1>11
    <3>2. order[Nth(j)] = a /\ order[Nth(l)] = b /\ a \in kept /\ b \in kept
      BY <2>1, <1>7, <1>10, <1>11
    <3>3. QED BY <3>1, <3>2 DEF Before
  <2>2. ASSUME NEW g \in DOMAIN order, NEW i \in DOMAIN order, g < i,
               order[g] = a, order[i] = b, a \in kept, b \in kept
        PROVE  Before(rest, a, b)
    <3>1. g \in at /\ i \in at
      BY <2>2 DEF at
    <3>2. /\ Place(g) \in 1..n /\ Place(i) \in 1..n /\ Place(g) < Place(i)
          /\ rest[Place(g)] = a /\ rest[Place(i)] = b
      BY <3>1, <2>2, <1>3, <1>4, <1>8, <1>10
    <3>3. QED BY <3>2, <1>12 DEF Before
  <2>3. QED BY <2>1, <2>2, <1>12 DEF Before
<1>16. QED BY <1>12, <1>13, <1>14, <1>15 DEF rest

\* A list on which no key is twice is as long as the set of its keys is large.
LEMMA DistinctLength ==
  ASSUME NEW K, NEW order \in Seq(K), IsInjective(order)
  PROVE  IsFiniteSet(ToSet(order)) /\ Cardinality(ToSet(order)) = Len(order)
<1>1. order \in Bijection(1..Len(order), ToSet(order))
  BY DEF Bijection, Injection, Surjection, IsInjective, ToSet
<1>2. IsFiniteSet(1..Len(order)) /\ Cardinality(1..Len(order)) = Len(order)
  <2>1. Len(order) \in Nat
    OBVIOUS
  <2>2. QED BY <2>1, FS_Interval
<1>3. QED BY <1>1, <1>2, FS_Bijection DEF ExistsBijection

\* A new first entry stands in front of all the others and moves none of them.
LEMMA NewFirst ==
  ASSUME NEW K, NEW k \in K, NEW order \in Seq(K), IsInjective(order),
         k \notin ToSet(order)
  PROVE  /\ <<k>> \o order \in Seq(K)
         /\ IsInjective(<<k>> \o order)
         /\ ToSet(<<k>> \o order) = ToSet(order) \union {k}
         /\ \A a, b : Before(<<k>> \o order, a, b)
                        <=> \/ a = k /\ b \in ToSet(order)
                            \/ Before(order, a, b)
<1> DEFINE longer == <<k>> \o order
<1>1. /\ longer \in Seq(K)
      /\ Len(order) \in Nat
      /\ DOMAIN order = 1..Len(order)
      /\ DOMAIN longer = 1..(Len(order) + 1)
      /\ longer[1] = k
      /\ \A i \in 1..Len(order) : longer[i + 1] = order[i]
  OBVIOUS
<1> HIDE DEF longer
<1>2. \A j \in DOMAIN longer : j = 1 \/ (j - 1 \in DOMAIN order /\ longer[j] = order[j - 1])
  <2> SUFFICES ASSUME NEW j \in DOMAIN longer, j # 1
               PROVE  j - 1 \in DOMAIN order /\ longer[j] = order[j - 1]
    OBVIOUS
  <2>1. j - 1 \in 1..Len(order) /\ j = (j - 1) + 1
    BY <1>1
  <2>2. QED BY <2>1, <1>1
<1>3. \A i \in DOMAIN order : order[i] # k
  BY DEF ToSet
<1>4. IsInjective(longer)
  BY <1>1, <1>2, <1>3 DEF IsInjective
<1>5. ToSet(longer) = ToSet(order) \union {k}
  <2>1. \A j \in DOMAIN longer : longer[j] \in ToSet(order) \union {k}
    BY <1>1, <1>2 DEF ToSet
  <2>2. \A i \in DOMAIN order : order[i] \in ToSet(longer)
    BY <1>1 DEF ToSet
  <2>3. k \in ToSet(longer)
    BY <1>1 DEF ToSet
  <2>4. QED BY <2>1, <2>2, <2>3 DEF ToSet
<1>6. ASSUME NEW a, NEW b
      PROVE  Before(longer, a, b) <=> \/ a = k /\ b \in ToSet(order)
                                      \/ Before(order, a, b)
  <2>1. ASSUME NEW i \in DOMAIN longer, NEW j \in DOMAIN longer, i < j,
               longer[i] = a, longer[j] = b
        PROVE  \/ a = k /\ b \in ToSet(order)
               \/ Before(order, a, b)
    <3>1. j - 1 \in DOMAIN order /\ order[j - 1] = b
      BY <2>1, <1>1, <1>2
    <3>2. CASE i = 1
      BY <3>1, <3>2, <2>1, <1>1 DEF ToSet
    <3>3. CASE i # 1
      <4>1. i - 1 \in DOMAIN order /\ order[i - 1] = a /\ i - 1 < j - 1
        BY <3>3, <2>1, <1>1, <1>2
      <4>2. QED BY <3>1, <4>1 DEF Before
    <3>4. QED BY <3>2, <3>3
  <2>2. ASSUME a = k, NEW i \in DOMAIN order, order[i] = b
        PROVE  Before(longer, a, b)
    <3>1. 1 \in DOMAIN longer /\ i + 1 \in DOMAIN longer /\ 1 < i + 1
      BY <1>1
    <3>2. longer[1] = a /\ longer[i + 1] = b
      BY <2>2, <1>1
    <3>3. QED BY <3>1, <3>2 DEF Before
  <2>3. ASSUME NEW i \in DOMAIN order, NEW j \in DOMAIN order, i < j,
               order[i] = a, order[j] = b
        PROVE  Before(longer, a, b)
    <3>1. i + 1 \in DOMAIN longer /\ j + 1 \in DOMAIN longer /\ i + 1 < j + 1
      BY <1>1, <2>3
    <3>2. longer[i + 1] = a /\ longer[j + 1] = b
      BY <2>3, <1>1
    <3>3. QED BY <3>1, <3>2 DEF Before
  <2>4. QED BY <2>1, <2>2, <2>3 DEF Before, ToSet
<1>7. QED BY <1>1, <1>4, <1>5, <1>6 DEF longer

\* Taking the last entry away moves none of the others, and every other entry
\* stood in front of it.
LEMMA LastGone ==
  ASSUME NEW K, NEW order \in Seq(K), IsInjective(order), order # << >>
  PROVE  /\ Front(order) \in Seq(K)
         /\ IsInjective(Front(order))
         /\ Last(order) \in ToSet(order)
         /\ ToSet(Front(order)) = ToSet(order) \ {Last(order)}
         /\ \A a, b : Before(Front(order), a, b)
                        <=> /\ a # Last(order) /\ b # Last(order)
                            /\ Before(order, a, b)
         /\ \A a \in ToSet(order) \ {Last(order)} : Before(order, a, Last(order))
         /\ \A b : ~ Before(order, Last(order), b)
<1> DEFINE less == Front(order)
           n == Len(order)
           last == order[n]
<1>1. /\ n \in Nat \ {0}
      /\ DOMAIN order = 1..n
      /\ last \in K
      /\ Last(order) = last
  BY DEF Last
<1>2. /\ less \in Seq(K)
      /\ DOMAIN less = 1..(n - 1)
      /\ \A i \in 1..(n - 1) : less[i] = order[i]
  BY <1>1 DEF Front
<1> HIDE DEF less, n
<1>3. \A i \in DOMAIN order : i \in DOMAIN less <=> order[i] # last
  BY <1>1, <1>2 DEF IsInjective
<1>4. \A i \in DOMAIN less : i \in DOMAIN order /\ less[i] = order[i]
  BY <1>1, <1>2
<1>5. IsInjective(less)
  BY <1>4 DEF IsInjective
<1>6. last \in ToSet(order) /\ ToSet(less) = ToSet(order) \ {last}
  <2>1. last \in ToSet(order)
    BY <1>1 DEF ToSet
  <2>2. QED BY <2>1, <1>3, <1>4 DEF ToSet
<1>7. \A a, b : Before(less, a, b) <=> a # last /\ b # last /\ Before(order, a, b)
  BY <1>3, <1>4 DEF Before
<1>8. \A a \in ToSet(order) \ {last} : Before(order, a, last)
  <2> SUFFICES ASSUME NEW i \in DOMAIN order, order[i] # last
               PROVE  Before(order, order[i], last)
    BY DEF ToSet
  <2>1. i < n /\ n \in DOMAIN order
    BY <1>1, <1>2, <1>3
  <2>2. QED BY <2>1 DEF Before
<1>9. ASSUME NEW b, Before(order, last, b) PROVE FALSE
  <2>1. PICK i \in DOMAIN order, j \in DOMAIN order : i < j /\ order[i] = last
    BY <1>9 DEF Before
  <2>2. i = n
    BY <2>1, <1>1 DEF IsInjective
  <2>3. QED BY <2>1, <2>2, <1>1
<1>10. QED BY <1>1, <1>2, <1>5, <1>6, <1>7, <1>8, <1>9 DEF less

-----------------------------------------------------------------------------
(* What each operation does to a cache.                                    *)

\* What every cache is: keys of K on the list and in the index, each once, and
\* values of V.
WellFormed(c, K, V) ==
  /\ c \in [order : Seq(K), items : UNION {[S -> V] : S \in SUBSET K}]
  /\ ToSet(c.order) = DOMAIN c.items
  /\ IsInjective(c.order)

\* A function given by its domain and values is one of the functions the index
\* may be.
LEMMA IndexType ==
  ASSUME NEW K, NEW V, NEW S \in SUBSET K, NEW f, f = [x \in S |-> f[x]],
         \A x \in S : f[x] \in V
  PROVE  f \in UNION {[D -> V] : D \in SUBSET K} /\ DOMAIN f = S
OBVIOUS

\* What the proofs use of a well-formed cache: its list is as long as its index
\* has keys.
LEMMA WellFormedParts ==
  ASSUME NEW c, NEW K, NEW V, WellFormed(c, K, V)
  PROVE  /\ c = [order |-> c.order, items |-> c.items]
         /\ c.order \in Seq(K)
         /\ Len(c.order) \in Nat
         /\ IsInjective(c.order)
         /\ ToSet(c.order) = DOMAIN c.items
         /\ DOMAIN c.items \subseteq K
         /\ c.items \in [DOMAIN c.items -> V]
         /\ IsFiniteSet(DOMAIN c.items)
         /\ Cardinality(DOMAIN c.items) = Len(c.order)
<1>1. /\ c.order \in Seq(K)
      /\ c.items \in UNION {[D -> V] : D \in SUBSET K}
      /\ c = [order |-> c.order, items |-> c.items]
      /\ ToSet(c.order) = DOMAIN c.items
      /\ IsInjective(c.order)
  BY DEF WellFormed
<1>2. DOMAIN c.items \subseteq K /\ c.items \in [DOMAIN c.items -> V]
  BY <1>1
<1>3. QED BY <1>1, <1>2, DistinctLength

\* Only keys that are on the list stand in front of one another.
LEMMA BeforeOnList ==
  ASSUME NEW order, NEW a, NEW b, Before(order, a, b)
  PROVE  a \in ToSet(order) /\ b \in ToSet(order)
BY DEF Before, ToSet

\* A list without repetitions and an index of the same keys make a cache.
LEMMA WellFormedRecord ==
  ASSUME NEW K, NEW V, NEW l \in Seq(K), IsInjective(l),
         NEW f \in UNION {[S -> V] : S \in SUBSET K}, ToSet(l) = DOMAIN f
  PROVE  WellFormed([order |-> l, items |-> f], K, V)
BY DEF WellFormed

\* NewInMemoryCache.
LEMMA EmptyWellFormed ==
  ASSUME NEW K, NEW V
  PROVE  WellFormed(LruEmpty, K, V)
<1>1. << >> \in Seq(K) /\ ToSet(<< >>) = {} /\ IsInjective(<< >>)
  BY DEF ToSet, IsInjective
<1> DEFINE f == [k \in {} |-> {}]
<1>2. f \in UNION {[S -> V] : S \in SUBSET K} /\ DOMAIN f = {}
  <2>1. f \in [{} -> V] /\ {} \in SUBSET K
    OBVIOUS
  <2>2. QED BY <2>1
<1>3. QED BY <1>1, <1>2, WellFormedRecord DEF LruEmpty

\* MoveToFront puts the key in front of the others and leaves these as they are.
LEMMA MovedToFront ==
  ASSUME NEW K, NEW order \in Seq(K), IsInjective(order), NEW k \in ToSet(order)
  PROVE  /\ MoveToFront(order, k) \in Seq(K)
         /\ IsInjective(MoveToFront(order, k))
         /\ ToSet(MoveToFront(order, k)) = ToSet(order)
         /\ \A a, b : Before(MoveToFront(order, k), a, b)
              <=> \/ a = k /\ b \in ToSet(order) \ {k}
                  \/ a # k /\ b # k /\ Before(order, a, b)
<1> DEFINE others == Only(order, ToSet(order) \ {k})
<1>1. k \in K
  BY DEF ToSet
<1>2. /\ others \in Seq(K) /\ IsInjective(others)
      /\ ToSet(others) = ToSet(order) \ {k}
      /\ \A a, b : Before(others, a, b)
           <=> /\ a \in ToSet(order) \ {k} /\ b \in ToSet(order) \ {k}
               /\ Before(order, a, b)
  BY OnlyEntries
<1> HIDE DEF others
<1>3. \A a, b : Before(others, a, b) <=> a # k /\ b # k /\ Before(order, a, b)
  BY <1>2, BeforeOnList
<1> DEFINE moved == <<k>> \o others
<1>4. /\ moved \in Seq(K)
      /\ IsInjective(moved)
      /\ ToSet(moved) = ToSet(others) \union {k}
      /\ \A a, b : Before(moved, a, b)
           <=> (a = k /\ b \in ToSet(others)) \/ Before(others, a, b)
  BY <1>1, <1>2, NewFirst
<1>5. MoveToFront(order, k) = moved
  BY DEF MoveToFront, others
<1> HIDE DEF moved
<1>6. ToSet(moved) = ToSet(order)
  BY <1>2, <1>4
<1>7. QED BY <1>2, <1>3, <1>4, <1>5, <1>6

\* Get changes no entry, and makes the key it finds the most recent one.
LEMMA GetEffect ==
  ASSUME NEW c, NEW K, NEW V, WellFormed(c, K, V), NEW k
  PROVE  /\ WellFormed(LruGet(c, k), K, V)
         /\ LruGet(c, k).items = c.items
         /\ LruHas(c, k) =>
              \A a, b : Before(LruGet(c, k).order, a, b)
                <=> \/ a = k /\ b \in DOMAIN c.items \ {k}
                    \/ a # k /\ b # k /\ Before(c.order, a, b)
         /\ ~LruHas(c, k) => LruGet(c, k) = c
<1>1. CASE LruHas(c, k)
  <2>1. k \in ToSet(c.order) /\ c.order \in Seq(K) /\ IsInjective(c.order)
    BY <1>1, WellFormedParts DEF LruHas
  <2>2. c.items \in UNION {[S -> V] : S \in SUBSET K} /\ ToSet(c.order) = DOMAIN c.items
    BY DEF WellFormed
  <2>3. LruGet(c, k) = [order |-> MoveToFront(c.order, k), items |-> c.items]
    BY <1>1 DEF LruGet
  <2>4. WellFormed(LruGet(c, k), K, V)
    <3> DEFINE moved == MoveToFront(c.order, k)
    <3>1. moved \in Seq(K) /\ IsInjective(moved) /\ ToSet(moved) = DOMAIN c.items
      BY <2>1, <2>2, MovedToFront
    <3> HIDE DEF moved
    <3>2. WellFormed([order |-> moved, items |-> c.items], K, V)
      BY <3>1, <2>2, WellFormedRecord
    <3>3. QED BY <3>2, <2>3 DEF moved
  <2>5. QED BY <1>1, <2>1, <2>2, <2>3, <2>4, MovedToFront
<1>2. CASE ~LruHas(c, k)
  BY <1>2 DEF LruGet
<1>3. QED BY <1>1, <1>2

\* evictLRU takes the last key of the list away, from the list and the index.
LEMMA EvictEffect ==
  ASSUME NEW c, NEW K, NEW V, WellFormed(c, K, V), c.order # << >>
  PROVE  /\ WellFormed(EvictLRU(c), K, V)
         /\ Last(c.order) \in DOMAIN c.items
         /\ DOMAIN EvictLRU(c).items = DOMAIN c.items \ {Last(c.order)}
         /\ \A x \in DOMAIN EvictLRU(c).items : EvictLRU(c).items[x] = c.items[x]
         /\ \A a, b : Before(EvictLRU(c).order, a, b)
              <=> /\ a # Last(c.order) /\ b # Last(c.order)
                  /\ Before(c.order, a, b)
<1> DEFINE less == Front(c.order)
           stay == DOMAIN c.items \ {Last(c.order)}
           kept == Restrict(c.items, stay)
<1>1. /\ less \in Seq(K) /\ IsInjective(less) /\ ToSet(less) = stay
      /\ Last(c.order) \in DOMAIN c.items
      /\ \A a, b : Before(less, a, b)
           <=> a # Last(c.order) /\ b # Last(c.order) /\ Before(c.order, a, b)
  BY WellFormedParts, LastGone
<1>2. EvictLRU(c) = [order |-> less, items |-> kept]
  BY DEF EvictLRU
<1>3. /\ stay \in SUBSET K
      /\ \A x \in stay : c.items[x] \in V
  BY WellFormedParts
<1>4. kept = [x \in stay |-> c.items[x]]
  BY DEF Restrict
<1> HIDE DEF less, stay, kept
<1>5. kept \in UNION {[S -> V] : S \in SUBSET K} /\ DOMAIN kept = stay
  BY <1>3, <1>4
<1>6. WellFormed(EvictLRU(c), K, V)
  BY <1>1, <1>2, <1>5, WellFormedRecord
<1>7. EvictLRU(c).items = kept /\ EvictLRU(c).order = less
  BY <1>2
<1>8. QED BY <1>1, <1>4, <1>6, <1>7 DEF stay

\* Storing a key that is new to the cache puts it in front of all it holds.
LEMMA PushEffect ==
  ASSUME NEW c, NEW K, NEW V, WellFormed(c, K, V), NEW k \in K, NEW v \in V,
         ~LruHas(c, k)
  PROVE  /\ WellFormed(PushFront(c, k, v), K, V)
         /\ DOMAIN PushFront(c, k, v).items = DOMAIN c.items \union {k}
         /\ \A x \in DOMAIN c.items \union {k} :
              PushFront(c, k, v).items[x] = IF x = k THEN v ELSE c.items[x]
         /\ \A a, b : Before(PushFront(c, k, v).order, a, b)
              <=> (a = k /\ b \in DOMAIN c.items) \/ Before(c.order, a, b)
<1> DEFINE longer == <<k>> \o c.order
           all == DOMAIN c.items \union {k}
           entries == [x \in all |-> IF x = k THEN v ELSE c.items[x]]
<1>1. /\ longer \in Seq(K) /\ IsInjective(longer) /\ ToSet(longer) = all
      /\ \A a, b : Before(longer, a, b)
           <=> (a = k /\ b \in DOMAIN c.items) \/ Before(c.order, a, b)
  BY WellFormedParts, NewFirst DEF LruHas
<1>2. PushFront(c, k, v) = [order |-> longer, items |-> entries]
  BY DEF PushFront
<1>3. all \in SUBSET K /\ \A x \in all : entries[x] \in V
  BY WellFormedParts
<1> HIDE DEF longer
<1>4. entries \in UNION {[S -> V] : S \in SUBSET K} /\ DOMAIN entries = all
  <2>1. entries = [x \in all |-> entries[x]]
    OBVIOUS
  <2> HIDE DEF entries, all
  <2>2. QED BY <1>3, <2>1, IndexType
<1> HIDE DEF entries
<1>5. WellFormed(PushFront(c, k, v), K, V)
  BY <1>1, <1>2, <1>4, WellFormedRecord
<1>6. QED BY <1>1, <1>2, <1>4, <1>5 DEF entries

\* The keys Set displaces: none, or the last one when a new key finds the list
\* at its limit.
Displaced(c, k, max) ==
  IF ~LruHas(c, k) /\ Len(c.order) >= max /\ c.order # << >>
  THEN {Last(c.order)}
  ELSE {}

\* The other keys, those it keeps as they are.
Spared(c, k, max) == DOMAIN c.items \ (Displaced(c, k, max) \union {k})

\* Set keeps every other key it does not displace, with its value, in its order,
\* and puts the key it sets in front of them.
LEMMA SetEffect ==
  ASSUME NEW c, NEW K, NEW V, WellFormed(c, K, V), NEW k \in K, NEW v \in V,
         NEW max
  PROVE  LET others == Spared(c, k, max)
             after == LruSet(c, k, v, max)
         IN  /\ WellFormed(after, K, V)
             /\ DOMAIN after.items = others \union {k}
             /\ \A x \in others \union {k} :
                  after.items[x] = IF x = k THEN v ELSE c.items[x]
             /\ \A a, b : Before(after.order, a, b)
                  <=> \/ a = k /\ b \in others
                      \/ a \in others /\ b \in others /\ Before(c.order, a, b)
<1> DEFINE others == DOMAIN c.items \ (Displaced(c, k, max) \union {k})
           after == LruSet(c, k, v, max)
<1> USE DEF Spared
<1>a. \A a, b : Before(c.order, a, b) => a \in DOMAIN c.items /\ b \in DOMAIN c.items
  BY BeforeOnList, WellFormedParts
<1>1. CASE LruHas(c, k)
  <2> DEFINE moved == MoveToFront(c.order, k)
             entries == [c.items EXCEPT ![k] = v]
  <2>1. /\ k \in DOMAIN c.items
        /\ others = DOMAIN c.items \ {k}
        /\ after = [order |-> moved, items |-> entries]
    BY <1>1 DEF LruHas, Displaced, LruSet
  <2>2. /\ moved \in Seq(K) /\ IsInjective(moved) /\ ToSet(moved) = DOMAIN c.items
        /\ \A a, b : Before(moved, a, b)
             <=> \/ a = k /\ b \in DOMAIN c.items \ {k}
                 \/ a # k /\ b # k /\ Before(c.order, a, b)
    BY <2>1, WellFormedParts, MovedToFront
  <2> HIDE DEF moved
  <2>3. /\ entries \in UNION {[S -> V] : S \in SUBSET K}
        /\ DOMAIN entries = DOMAIN c.items
        /\ \A x \in DOMAIN c.items : entries[x] = IF x = k THEN v ELSE c.items[x]
    BY <2>1, WellFormedParts
  <2> HIDE DEF entries, others, after
  <2>4. WellFormed(after, K, V)
    BY <2>1, <2>2, <2>3, WellFormedRecord
  <2>5. after.order = moved /\ after.items = entries /\ DOMAIN c.items = others \union {k}
    BY <2>1
  <2>6. \A a, b : Before(moved, a, b)
          <=> \/ a = k /\ b \in others
              \/ a \in others /\ b \in others /\ Before(c.order, a, b)
    BY <1>a, <2>1, <2>2
  <2>7. QED BY <2>3, <2>4, <2>5, <2>6 DEF others, after
<1>2. CASE ~LruHas(c, k)
  <2> DEFINE full == Len(c.order) >= max
             room == IF full THEN EvictLRU(c) ELSE c
  <2>1. after = PushFront(room, k, v)
    BY <1>2 DEF LruSet
  <2>2. /\ WellFormed(room, K, V)
        /\ DOMAIN room.items = others
        /\ \A x \in others : room.items[x] = c.items[x]
        /\ \A a, b : Before(room.order, a, b)
             <=> a \in others /\ b \in others /\ Before(c.order, a, b)
    <3> DEFINE P == WellFormed(room, K, V)
    <3>1. k \notin DOMAIN c.items
      BY <1>2 DEF LruHas
    <3>2. CASE full /\ c.order # << >>
      <4>1. room = EvictLRU(c) /\ Displaced(c, k, max) = {Last(c.order)}
        BY <1>2, <3>2 DEF Displaced
      <4>2. others = DOMAIN c.items \ {Last(c.order)}
        BY <3>1, <4>1
      <4> HIDE DEF room, others
      <4>3. QED BY <1>a, <3>2, <4>1, <4>2, EvictEffect
    <3>3. CASE ~(full /\ c.order # << >>)
      <4>1. room = c /\ Displaced(c, k, max) = {}
        BY <3>3 DEF EvictLRU, Displaced
      <4>2. others = DOMAIN c.items
        BY <3>1, <4>1
      <4> HIDE DEF room, others
      <4>3. QED BY <1>a, <4>1, <4>2
    <3>4. QED BY <3>2, <3>3
  <2> HIDE DEF room, after, others
  <2>3. ~LruHas(room, k)
    BY <2>2 DEF LruHas, others
  <2>4. /\ WellFormed(after, K, V)
        /\ DOMAIN after.items = others \union {k}
        /\ \A x \in others \union {k} :
             after.items[x] = IF x = k THEN v ELSE room.items[x]
        /\ \A a, b : Before(after.order, a, b)
             <=> (a = k /\ b \in others) \/ Before(room.order, a, b)
    BY <2>1, <2>2, <2>3, PushEffect
  <2>5. QED BY <2>2, <2>4 DEF others, after
<1>3. QED BY <1>1, <1>2

\* The keys DeleteOld keeps.
Young(c, old) == {k \in DOMAIN c.items : c.items[k] \notin old}

\* DeleteOld drops the entries that are old and nothing else.
LEMMA DeleteOldEffect ==
  ASSUME NEW c, NEW K, NEW V, WellFormed(c, K, V), NEW old
  PROVE  LET young == Young(c, old)
             after == LruDeleteOld(c, old)
         IN  /\ WellFormed(after, K, V)
             /\ after.items = Restrict(c.items, young)
             /\ DOMAIN after.items = young
             /\ \A x \in young : after.items[x] = c.items[x]
             /\ \A a, b : Before(after.order, a, b)
                  <=> a \in young /\ b \in young /\ Before(c.order, a, b)
<1> DEFINE young == Young(c, old)
           after == LruDeleteOld(c, old)
           rest == Only(c.order, young)
           kept == Restrict(c.items, young)
<1>1. after = [order |-> rest, items |-> kept]
  BY DEF LruDeleteOld, Young
<1>2. /\ rest \in Seq(K) /\ IsInjective(rest)
      /\ ToSet(rest) = DOMAIN c.items \cap young
      /\ \A a, b : Before(rest, a, b)
           <=> a \in young /\ b \in young /\ Before(c.order, a, b)
  BY WellFormedParts, OnlyEntries
<1>3. young \in SUBSET K /\ \A x \in young : c.items[x] \in V
  BY WellFormedParts DEF Young
<1>4. kept = [x \in young |-> c.items[x]]
  BY DEF Restrict
<1>5. DOMAIN c.items \cap young = young
  BY DEF Young
<1> HIDE DEF rest, kept, young, after
<1>6. kept \in UNION {[S -> V] : S \in SUBSET K} /\ DOMAIN kept = young
  BY <1>3, <1>4
<1>7. WellFormed(after, K, V)
  BY <1>1, <1>2, <1>5, <1>6, WellFormedRecord
<1>8. after.order = rest /\ after.items = kept
  BY <1>1
<1>9. QED BY <1>2, <1>4, <1>6, <1>7, <1>8 DEF young, after, kept

-----------------------------------------------------------------------------
(* InMemoryCache.  That a larger limit loses no hit is not inductive: a    *)
(* Set could evict from the larger cache what the smaller one keeps.  It   *)
(* does not because the two agree on the order of the keys both hold, and  *)
(* because the larger one is never at its limit before the smaller one is. *)

CachesWellFormed == WellFormed(cache, Keys, Times) /\ WellFormed(wide, Keys, Times)

\* No call breaks the agreement of list and index.
LEMMA CachesWellFormedStep ==
  ASSUME CachesWellFormed, [CacheNext]_cacheVars
  PROVE  CachesWellFormed'
<1> USE DEF CachesWellFormed
<1>1. ASSUME NEW k \in Keys, Get(k) PROVE CachesWellFormed'
  BY <1>1, GetEffect DEF Get
<1>2. ASSUME NEW k \in Keys, NEW t \in Times, Set(k, t) PROVE CachesWellFormed'
  BY <1>2, SetEffect DEF Set
<1>3. ASSUME NEW before \in Times, DeleteOld(before) PROVE CachesWellFormed'
  BY <1>3, DeleteOldEffect DEF DeleteOld
<1>4. CASE UNCHANGED cacheVars
  BY <1>4 DEF cacheVars
<1>5. QED BY <1>1, <1>2, <1>3, <1>4 DEF CacheNext

\* A cache is a list and an index of the same keys, each key once.
THEOREM CacheTypes == CacheSpec => []CachesWellFormed
<1>1. CacheInit => CachesWellFormed
  BY EmptyWellFormed DEF CacheInit, CachesWellFormed
<1>2. QED BY <1>1, CachesWellFormedStep, PTL DEF CacheSpec

\* ListMatchesIndex: after any sequence of calls, and for any limit, the index
\* and the list name the same keys, each key once.
THEOREM CacheListMatchesIndex == CacheSpec => []ListMatchesIndex
<1>1. CachesWellFormed => ListMatchesIndex
  BY DEF CachesWellFormed, WellFormed, ListMatchesIndex
<1>2. QED BY <1>1, CacheTypes, PTL

\* The limit, except that the entry just set stays when the limit is 0.
WithinLimit(c, max) == Len(c.order) <= max \/ Len(c.order) = 1

\* How many keys a Set leaves: it displaces one key when it adds one to a cache
\* at its limit.
LEMMA SetCount ==
  ASSUME NEW c, NEW K, NEW V, WellFormed(c, K, V), NEW k \in K, NEW v \in V,
         NEW max
  PROVE  LET after == LruSet(c, k, v, max)
         IN  /\ Len(c.order) \in Nat
             /\ LruHas(c, k) => Len(after.order) = Len(c.order)
             /\ Displaced(c, k, max) # {} => Len(after.order) = Len(c.order)
             /\ ~LruHas(c, k) /\ Displaced(c, k, max) = {}
                  => Len(after.order) = Len(c.order) + 1
<1> DEFINE gone == Displaced(c, k, max)
           after == LruSet(c, k, v, max)
           held == DOMAIN c.items
<1>1. /\ WellFormed(after, K, V)
      /\ DOMAIN after.items = (held \ (gone \union {k})) \union {k}
  BY SetEffect DEF Spared
<1>2. IsFiniteSet(held) /\ Cardinality(held) = Len(c.order) /\ Len(c.order) \in Nat
  BY WellFormedParts
<1>3. Cardinality(DOMAIN after.items) = Len(after.order)
  BY <1>1, WellFormedParts
<1>4. CASE LruHas(c, k)
  <2>1. gone = {} /\ DOMAIN after.items = held
    BY <1>1, <1>4 DEF LruHas, Displaced
  <2>2. QED BY <2>1, <1>2, <1>3, <1>4
<1>5. CASE gone # {}
  <2>1. /\ gone = {Last(c.order)} /\ Last(c.order) \in held /\ k \notin held
        /\ ~LruHas(c, k)
    BY <1>5, EvictEffect DEF Displaced, LruHas
  <2>2. DOMAIN after.items = (held \ {Last(c.order)}) \union {k}
    BY <1>1, <2>1
  <2>3. Cardinality(DOMAIN after.items) = Cardinality(held)
    <3> DEFINE less == held \ {Last(c.order)}
    <3>1. IsFiniteSet(less) /\ Cardinality(less) = Cardinality(held) - 1
      BY <2>1, <1>2, FS_RemoveElement
    <3>2. k \notin less
      BY <2>1
    <3> HIDE DEF less
    <3>3. Cardinality(less \union {k}) = Cardinality(less) + 1
      BY <3>1, <3>2, FS_AddElement
    <3>4. QED BY <3>1, <3>3, <2>2, <1>2 DEF less
  <2>4. QED BY <2>1, <2>3, <1>2, <1>3, <1>5
<1>6. CASE ~LruHas(c, k) /\ gone = {}
  <2>1. k \notin held /\ DOMAIN after.items = held \union {k}
    BY <1>1, <1>6 DEF LruHas
  <2>2. Cardinality(DOMAIN after.items) = Cardinality(held) + 1
    BY <2>1, <1>2, FS_AddElement
  <2>3. QED BY <2>2, <1>2, <1>3, <1>6
<1>7. QED BY <1>4, <1>5, <1>6

\* Set stays within the limit: it adds a key only below it or after an eviction.
LEMMA SetWithinLimit ==
  ASSUME NEW c, NEW K, NEW V, WellFormed(c, K, V), NEW k \in K, NEW v \in V,
         NEW max \in Nat, WithinLimit(c, max)
  PROVE  WithinLimit(LruSet(c, k, v, max), max)
<1> DEFINE after == LruSet(c, k, v, max)
           m == Len(c.order)
           n == Len(after.order)
<1>1. m \in Nat /\ (m <= max \/ m = 1)
  BY SetCount DEF WithinLimit
<1>2. CASE n = m
  BY <1>1, <1>2 DEF WithinLimit
<1>3. CASE ~LruHas(c, k) /\ Displaced(c, k, max) = {}
  <2>1. n = m + 1
    BY <1>3, SetCount
  <2>2. m < max \/ m = 0
    <3>1. c.order = << >> => m = 0
      OBVIOUS
    <3>2. ~(m >= max) \/ c.order = << >>
      BY <1>3 DEF Displaced
    <3> HIDE DEF m
    <3>3. QED BY <3>1, <3>2, <1>1
  <2> HIDE DEF m, n
  <2>3. n <= max \/ n = 1
    BY <1>1, <2>1, <2>2
  <2>4. QED BY <2>3 DEF n, WithinLimit
<1>4. QED BY <1>2, <1>3, SetCount

\* Entries that stay are no more than there were.
LEMMA FewerWithinLimit ==
  ASSUME NEW c, NEW d, NEW K, NEW V, WellFormed(c, K, V), WellFormed(d, K, V),
         DOMAIN d.items \subseteq DOMAIN c.items,
         NEW max \in Nat, WithinLimit(c, max)
  PROVE  WithinLimit(d, max)
<1>1. /\ IsFiniteSet(DOMAIN c.items)
      /\ Cardinality(DOMAIN c.items) = Len(c.order)
      /\ Len(c.order) \in Nat
      /\ Cardinality(DOMAIN d.items) = Len(d.order)
      /\ Len(d.order) \in Nat
  BY WellFormedParts
<1>2. Cardinality(DOMAIN d.items) <= Cardinality(DOMAIN c.items)
  BY <1>1, FS_Subset
<1>3. Len(d.order) <= Len(c.order)
  BY <1>1, <1>2
<1> DEFINE m == Len(c.order)
           n == Len(d.order)
<1>4. m \in Nat /\ n \in Nat /\ n <= m /\ (m <= max \/ m = 1)
  BY <1>1, <1>3 DEF WithinLimit
<1> HIDE DEF m, n
<1>5. n <= max \/ n = 1
  BY <1>4
<1>6. QED BY <1>5 DEF n, WithinLimit

\* The caches agree on which of two keys of the smaller one is more recent.
SameOrder ==
  \A a, b \in DOMAIN cache.items :
    Before(cache.order, a, b) => Before(wide.order, a, b)

\* What only the larger cache holds fits in what its limit has over the other's:
\* it is never full before the smaller one is.
SpareRoom ==
  Cardinality(DOMAIN wide.items \ DOMAIN cache.items) + MaxSize <= WideSize

CacheInv ==
  /\ CachesWellFormed
  /\ WithinLimit(cache, MaxSize)
  /\ WithinLimit(wide, WideSize)
  /\ LargerKeepsMore
  /\ SameOrder
  /\ SpareRoom

\* In numbers: a cache that holds what another one does holds that and the spare.
LEMMA SpareCount ==
  ASSUME NEW c, NEW d, NEW K, NEW V, WellFormed(c, K, V), WellFormed(d, K, V),
         DOMAIN c.items \subseteq DOMAIN d.items
  PROVE  LET spare == Cardinality(DOMAIN d.items \ DOMAIN c.items)
         IN  /\ spare \in Nat
             /\ Len(c.order) \in Nat
             /\ Len(d.order) \in Nat
             /\ Len(d.order) = Len(c.order) + spare
<1> DEFINE small == DOMAIN c.items
           large == DOMAIN d.items
<1>1. /\ IsFiniteSet(small) /\ Cardinality(small) = Len(c.order)
      /\ IsFiniteSet(large) /\ Cardinality(large) = Len(d.order)
      /\ Len(c.order) \in Nat /\ Len(d.order) \in Nat
  BY WellFormedParts
<1>2. large \cap small = small
  OBVIOUS
<1> HIDE DEF small, large
<1>3. /\ IsFiniteSet(large \ small)
      /\ Cardinality(large \ small) = Cardinality(large) - Cardinality(small)
  <2>1. /\ IsFiniteSet(large \ small)
        /\ Cardinality(large \ small) = Cardinality(large) - Cardinality(large \cap small)
    BY <1>1, FS_Difference
  <2>2. QED BY <2>1, <1>2
<1>4. Cardinality(large \ small) \in Nat
  BY <1>3, FS_CardinalityType
<1>5. QED BY <1>1, <1>3, <1>4 DEF small, large

\* A hit in the larger cache alone moves a key the smaller one does not have.
LEMMA GetKeepsInv ==
  ASSUME CacheInv, NEW k \in Keys, Get(k)
  PROVE  LargerKeepsMore' /\ SameOrder' /\ SpareRoom'
<1>1. /\ WellFormed(cache, Keys, Times) /\ WellFormed(wide, Keys, Times)
      /\ LargerKeepsMore /\ SameOrder /\ SpareRoom
  BY DEF CacheInv, CachesWellFormed
<1>2. /\ cache' = LruGet(cache, k) /\ cache'.items = cache.items
      /\ wide' = LruGet(wide, k) /\ wide'.items = wide.items
  BY <1>1, GetEffect DEF Get
<1>3. LargerKeepsMore' /\ SpareRoom'
  BY <1>1, <1>2 DEF LargerKeepsMore, SpareRoom
<1>4. ASSUME NEW a \in DOMAIN cache.items, NEW b \in DOMAIN cache.items,
             Before(cache'.order, a, b)
      PROVE  Before(wide'.order, a, b)
  <2>1. /\ b \in DOMAIN wide.items
        /\ Before(cache.order, a, b) => Before(wide.order, a, b)
    BY <1>1 DEF LargerKeepsMore, SameOrder
  <2>2. CASE LruHas(cache, k)
    <3>1. LruHas(wide, k)
      BY <2>2, <1>1 DEF LruHas, LargerKeepsMore
    <3>2. \/ a = k /\ b # k
          \/ a # k /\ b # k /\ Before(cache.order, a, b)
      <4>1. \A x, y : Before(LruGet(cache, k).order, x, y)
              <=> \/ x = k /\ y \in DOMAIN cache.items \ {k}
                  \/ x # k /\ y # k /\ Before(cache.order, x, y)
        BY <2>2, <1>1, GetEffect
      <4>2. QED BY <4>1, <1>2, <1>4
    <3>3. \A x, y : Before(LruGet(wide, k).order, x, y)
            <=> \/ x = k /\ y \in DOMAIN wide.items \ {k}
                \/ x # k /\ y # k /\ Before(wide.order, x, y)
      BY <3>1, <1>1, GetEffect
    <3>4. QED BY <2>1, <3>2, <3>3, <1>2
  <2>3. CASE ~LruHas(cache, k)
    <3>1. Before(cache.order, a, b) /\ a # k /\ b # k
      BY <2>3, <1>1, <1>2, <1>4, GetEffect DEF LruHas
    <3>2. QED BY <2>1, <3>1, <1>1, <1>2, GetEffect
  <2>4. QED BY <2>2, <2>3
<1>5. SameOrder'
  BY <1>2, <1>4 DEF SameOrder
<1>6. QED BY <1>3, <1>5

\* A key the larger cache displaces is not one the smaller one keeps: were it,
\* it would be the last of the smaller one too, and that one is full as well.
LEMMA DisplacedByBoth ==
  ASSUME CacheInv, NEW k \in Keys,
         NEW x \in DOMAIN cache.items, x \in Displaced(wide, k, WideSize)
  PROVE  x \in Displaced(cache, k, MaxSize)
<1>1. /\ WellFormed(cache, Keys, Times) /\ WellFormed(wide, Keys, Times)
      /\ LargerKeepsMore /\ SameOrder /\ SpareRoom
  BY DEF CacheInv, CachesWellFormed
<1>2. /\ ~LruHas(wide, k) /\ Len(wide.order) >= WideSize /\ wide.order # << >>
      /\ x = Last(wide.order)
  BY DEF Displaced
<1>3. ~LruHas(cache, k)
  BY <1>1, <1>2 DEF LruHas, LargerKeepsMore
<1>4. Len(cache.order) >= MaxSize
  <2>1. DOMAIN cache.items \subseteq DOMAIN wide.items
    BY <1>1 DEF LargerKeepsMore
  <2> DEFINE spare == Cardinality(DOMAIN wide.items \ DOMAIN cache.items)
             m == Len(cache.order)
             n == Len(wide.order)
  <2>2. spare \in Nat /\ m \in Nat /\ n = m + spare
    BY <2>1, <1>1, SpareCount
  <2>3. spare + MaxSize <= WideSize /\ n >= WideSize
    BY <1>1, <1>2 DEF SpareRoom
  <2> HIDE DEF spare, m, n
  <2>4. m >= MaxSize
    BY <2>2, <2>3, SizeAssumption
  <2>5. QED BY <2>4 DEF m
<1>5. x \in ToSet(cache.order)
  BY <1>1, WellFormedParts
<1>6. cache.order # << >>
  BY <1>5 DEF ToSet
<1>7. x = Last(cache.order)
  <2> SUFFICES ASSUME x # Last(cache.order) PROVE FALSE
    OBVIOUS
  <2>1. Before(cache.order, x, Last(cache.order)) /\ Last(cache.order) \in ToSet(cache.order)
    BY <1>1, <1>5, <1>6, WellFormedParts, LastGone
  <2>2. Before(wide.order, x, Last(cache.order))
    BY <2>1, <1>1, WellFormedParts DEF SameOrder
  <2>3. QED BY <2>2, <1>1, <1>2, WellFormedParts, LastGone
<1>8. QED BY <1>3, <1>4, <1>6, <1>7 DEF Displaced

\* The larger cache still has what the smaller one keeps, and is still not full
\* before it.
LEMMA SetKeepsInv ==
  ASSUME CacheInv, NEW k \in Keys, NEW t \in Times, Set(k, t), CachesWellFormed',
         WithinLimit(wide, WideSize)'
  PROVE  LargerKeepsMore' /\ SameOrder' /\ SpareRoom'
<1> DEFINE small == DOMAIN cache.items
           large == DOMAIN wide.items
           fewer == Spared(cache, k, MaxSize)
           more == Spared(wide, k, WideSize)
<1>1. /\ WellFormed(cache, Keys, Times) /\ WellFormed(wide, Keys, Times)
      /\ LargerKeepsMore /\ SameOrder /\ SpareRoom
  BY DEF CacheInv, CachesWellFormed
<1>2. /\ DOMAIN cache'.items = fewer \union {k}
      /\ \A x \in fewer \union {k} : cache'.items[x] = IF x = k THEN t ELSE cache.items[x]
      /\ \A a, b : Before(cache'.order, a, b)
           <=> \/ a = k /\ b \in fewer
               \/ a \in fewer /\ b \in fewer /\ Before(cache.order, a, b)
  <2>1. cache' = LruSet(cache, k, t, MaxSize)
    BY DEF Set
  <2>2. QED BY <1>1, <2>1, SetEffect
<1>3. /\ DOMAIN wide'.items = more \union {k}
      /\ \A x \in more \union {k} : wide'.items[x] = IF x = k THEN t ELSE wide.items[x]
      /\ \A a, b : Before(wide'.order, a, b)
           <=> \/ a = k /\ b \in more
               \/ a \in more /\ b \in more /\ Before(wide.order, a, b)
  <2>1. wide' = LruSet(wide, k, t, WideSize)
    BY DEF Set
  <2>2. QED BY <1>1, <2>1, SetEffect
<1>4. small \subseteq large /\ \A x \in small : wide.items[x] = cache.items[x]
  BY <1>1 DEF LargerKeepsMore
<1>5. fewer \subseteq more
  BY <1>4, DisplacedByBoth DEF Spared
<1>6. fewer \subseteq small /\ k \notin fewer /\ k \notin more
  BY DEF Spared
<1>7. LargerKeepsMore'
  <2> HIDE DEF fewer, more, small, large
  <2>1. \A x \in fewer \union {k} :
          x \in more \union {k} /\ wide'.items[x] = cache'.items[x]
    BY <1>2, <1>3, <1>4, <1>5, <1>6
  <2>2. QED BY <2>1, <1>2, <1>3 DEF LargerKeepsMore
<1>8. SameOrder'
  <2>1. \A a, b \in small : Before(cache.order, a, b) => Before(wide.order, a, b)
    BY <1>1 DEF SameOrder
  <2> HIDE DEF fewer, more, small, large
  <2>2. \A a, b : Before(cache'.order, a, b) => Before(wide'.order, a, b)
    BY <2>1, <1>2, <1>3, <1>5, <1>6
  <2>3. QED BY <2>2 DEF SameOrder
<1>9. SpareRoom'
  <2> DEFINE spare == Cardinality(large \ small)
             rest == Cardinality(DOMAIN wide'.items \ DOMAIN cache'.items)
  <2>1. /\ spare \in Nat /\ spare + MaxSize <= WideSize
        /\ Len(cache.order) \in Nat
        /\ Len(wide.order) = Len(cache.order) + spare
    BY <1>1, <1>4, SpareCount DEF SpareRoom
  <2>2. /\ rest \in Nat /\ Len(cache'.order) \in Nat /\ Len(wide'.order) \in Nat
        /\ Len(wide'.order) = Len(cache'.order) + rest
    <3>1. WellFormed(cache', Keys, Times) /\ WellFormed(wide', Keys, Times)
      BY DEF CachesWellFormed
    <3>2. DOMAIN cache'.items \subseteq DOMAIN wide'.items
      BY <1>2, <1>3, <1>5
    <3> HIDE DEF small, large, fewer, more
    <3>3. QED BY <3>1, <3>2, SpareCount
  <2> DEFINE m == Len(cache.order)
             n == Len(wide.order)
             after == Len(cache'.order)
             wider == Len(wide'.order)
  <2>3. CASE after >= MaxSize
    <3>1. after # 0
      <4>1. k \in ToSet(cache'.order)
        BY <1>2, WellFormedParts DEF CachesWellFormed
      <4>2. QED BY <4>1 DEF ToSet
    <3>2. wider <= WideSize \/ wider = 1
      BY DEF WithinLimit
    <3> HIDE DEF after, wider, rest
    <3>3. rest + MaxSize <= WideSize
      BY <3>1, <3>2, <2>2, <2>3, SizeAssumption DEF after, wider
    <3>4. QED BY <3>3 DEF SpareRoom, rest
  <2>4. CASE after < MaxSize
    <3>1. m < MaxSize
      <4>1. after = m \/ after = m + 1
        BY <1>1, SetCount DEF Set
      <4>2. QED BY <4>1, <2>1, <2>4, SizeAssumption
    <3>2. Displaced(cache, k, MaxSize) = {}
      BY <3>1, <2>1, SizeAssumption DEF Displaced
    <3>3. k \in large \/ Displaced(wide, k, WideSize) = {}
      <4>1. n < WideSize
        BY <3>1, <2>1, SizeAssumption
      <4>2. QED BY <4>1, <2>1, SizeAssumption DEF Displaced
    <3>4. Displaced(wide, k, WideSize) = {}
      BY <3>3 DEF Displaced, LruHas
    <3>5. DOMAIN wide'.items \ DOMAIN cache'.items \subseteq large \ small
      BY <3>2, <3>4, <1>2, <1>3 DEF Spared
    <3>6. rest <= spare
      <4>1. IsFiniteSet(large)
        BY <1>1, WellFormedParts
      <4>2. IsFiniteSet(large \ small)
        BY <4>1, FS_Subset
      <4>3. QED BY <4>2, <3>5, FS_Subset
    <3> HIDE DEF rest, spare
    <3>7. rest + MaxSize <= WideSize
      BY <3>6, <2>1, <2>2, SizeAssumption
    <3>8. QED BY <3>7 DEF SpareRoom, rest
  <2>5. QED BY <2>2, <2>3, <2>4, SizeAssumption
<1>10. QED BY <1>7, <1>8, <1>9

\* Both caches drop the same old entries.
LEMMA DeleteOldKeepsInv ==
  ASSUME CacheInv, NEW before \in Times, DeleteOld(before)
  PROVE  LargerKeepsMore' /\ SameOrder' /\ SpareRoom'
<1> DEFINE small == DOMAIN cache.items
           large == DOMAIN wide.items
           fewer == Young(cache, Older(before))
           more == Young(wide, Older(before))
<1>1. /\ WellFormed(cache, Keys, Times) /\ WellFormed(wide, Keys, Times)
      /\ LargerKeepsMore /\ SameOrder /\ SpareRoom
  BY DEF CacheInv, CachesWellFormed
<1>2. /\ DOMAIN cache'.items = fewer
      /\ \A x \in fewer : cache'.items[x] = cache.items[x]
      /\ \A a, b : Before(cache'.order, a, b)
           <=> a \in fewer /\ b \in fewer /\ Before(cache.order, a, b)
  <2>1. cache' = LruDeleteOld(cache, Older(before))
    BY DEF DeleteOld
  <2>2. QED BY <1>1, <2>1, DeleteOldEffect
<1>3. /\ DOMAIN wide'.items = more
      /\ \A x \in more : wide'.items[x] = wide.items[x]
      /\ \A a, b : Before(wide'.order, a, b)
           <=> a \in more /\ b \in more /\ Before(wide.order, a, b)
  <2>1. wide' = LruDeleteOld(wide, Older(before))
    BY DEF DeleteOld
  <2>2. QED BY <1>1, <2>1, DeleteOldEffect
<1>4. small \subseteq large /\ \A x \in small : wide.items[x] = cache.items[x]
  BY <1>1 DEF LargerKeepsMore
<1>5. fewer \subseteq more /\ fewer \subseteq small /\ more \ fewer \subseteq large \ small
  BY <1>4 DEF Young
<1>6. \A a, b \in small : Before(cache.order, a, b) => Before(wide.order, a, b)
  BY <1>1 DEF SameOrder
<1>7. IsFiniteSet(large)
  BY <1>1, WellFormedParts
<1> HIDE DEF small, large, fewer, more
<1>8. LargerKeepsMore'
  BY <1>2, <1>3, <1>4, <1>5 DEF LargerKeepsMore
<1>9. SameOrder'
  BY <1>2, <1>3, <1>5, <1>6 DEF SameOrder
<1>10. SpareRoom'
  <2>1. IsFiniteSet(large \ small)
    BY <1>7, FS_Subset
  <2>2. /\ Cardinality(more \ fewer) <= Cardinality(large \ small)
        /\ Cardinality(more \ fewer) \in Nat /\ Cardinality(large \ small) \in Nat
    BY <2>1, <1>5, FS_Subset, FS_CardinalityType
  <2>3. Cardinality(large \ small) + MaxSize <= WideSize
    BY <1>1 DEF SpareRoom, large, small
  <2>4. Cardinality(more \ fewer) + MaxSize <= WideSize
    BY <2>2, <2>3, SizeAssumption
  <2>5. QED BY <2>4, <1>2, <1>3 DEF SpareRoom
<1>11. QED BY <1>8, <1>9, <1>10

\* The invariant is inductive.
LEMMA CacheInvStep ==
  ASSUME CacheInv, [CacheNext]_cacheVars
  PROVE  CacheInv'
<1>1. CachesWellFormed'
  BY CachesWellFormedStep DEF CacheInv
<1>2. WithinLimit(cache, MaxSize) /\ WithinLimit(wide, WideSize)
      /\ WellFormed(cache, Keys, Times) /\ WellFormed(wide, Keys, Times)
  BY DEF CacheInv, CachesWellFormed
<1>3. WellFormed(cache', Keys, Times) /\ WellFormed(wide', Keys, Times)
  BY <1>1 DEF CachesWellFormed
<1>4. ASSUME NEW k \in Keys, Get(k) PROVE CacheInv'
  <2>1. cache'.items = cache.items /\ wide'.items = wide.items
    BY <1>2, <1>4, GetEffect DEF Get
  <2>2. WithinLimit(cache', MaxSize) /\ WithinLimit(wide', WideSize)
    BY <2>1, <1>2, <1>3, FewerWithinLimit, SizeAssumption
  <2>3. QED BY <1>1, <1>4, <2>2, GetKeepsInv DEF CacheInv
<1>5. ASSUME NEW k \in Keys, NEW t \in Times, Set(k, t) PROVE CacheInv'
  <2>1. WithinLimit(cache', MaxSize) /\ WithinLimit(wide', WideSize)
    BY <1>2, <1>5, SetWithinLimit, SizeAssumption DEF Set
  <2>2. QED BY <1>1, <1>5, <2>1, SetKeepsInv DEF CacheInv
<1>6. ASSUME NEW before \in Times, DeleteOld(before) PROVE CacheInv'
  <2>1. /\ DOMAIN cache'.items \subseteq DOMAIN cache.items
        /\ DOMAIN wide'.items \subseteq DOMAIN wide.items
    <3>1. /\ DOMAIN cache'.items = Young(cache, Older(before))
          /\ DOMAIN wide'.items = Young(wide, Older(before))
      BY <1>2, <1>6, DeleteOldEffect DEF DeleteOld
    <3>2. QED BY <3>1 DEF Young
  <2>2. WithinLimit(cache', MaxSize) /\ WithinLimit(wide', WideSize)
    BY <2>1, <1>2, <1>3, FewerWithinLimit, SizeAssumption
  <2>3. QED BY <1>1, <1>6, <2>2, DeleteOldKeepsInv DEF CacheInv
<1>7. CASE UNCHANGED cacheVars
  BY <1>7 DEF cacheVars, CacheInv, CachesWellFormed, LargerKeepsMore, SameOrder,
              SpareRoom
<1>8. QED BY <1>4, <1>5, <1>6, <1>7 DEF CacheNext

\* The inductive invariant of the two caches.
THEOREM CacheInvariant == CacheSpec => []CacheInv
<1>1. CacheInit => CacheInv
  <2> SUFFICES ASSUME CacheInit PROVE CacheInv
    OBVIOUS
  <2>1. cache = LruEmpty /\ wide = LruEmpty
    BY DEF CacheInit
  <2>2. CachesWellFormed
    BY <2>1, EmptyWellFormed DEF CachesWellFormed
  <2>3. /\ LruEmpty.order = << >> /\ Len(LruEmpty.order) = 0
        /\ DOMAIN LruEmpty.items = {}
    BY DEF LruEmpty
  <2>4. WithinLimit(cache, MaxSize) /\ WithinLimit(wide, WideSize)
    BY <2>1, <2>3, SizeAssumption DEF WithinLimit
  <2>5. LargerKeepsMore /\ SameOrder
    BY <2>1, <2>3 DEF LargerKeepsMore, SameOrder
  <2>6. SpareRoom
    <3>1. DOMAIN wide.items \ DOMAIN cache.items = {}
      BY <2>1, <2>3
    <3>2. QED BY <3>1, FS_EmptySet, SizeAssumption DEF SpareRoom
  <2>7. QED BY <2>2, <2>4, <2>5, <2>6 DEF CacheInv
<1>2. QED BY <1>1, CacheInvStep, PTL DEF CacheSpec

\* LargerKeepsMore: for any two limits, raising the limit loses no hit.
THEOREM CacheLargerKeepsMore == CacheSpec => []LargerKeepsMore
BY CacheInvariant, PTL DEF CacheInv

\* The cache never holds more than its limit, except the one entry that stays
\* when the limit is 0.
THEOREM CacheSizeBound ==
  CacheSpec => [](Len(cache.order) <= MaxSize \/ Len(cache.order) = 1)
<1>1. CacheInv => (Len(cache.order) <= MaxSize \/ Len(cache.order) = 1)
  BY DEF CacheInv, WithinLimit
<1>2. QED BY <1>1, CacheInvariant, PTL

-----------------------------------------------------------------------------
(* The list and the index implement an LRU map (RecencyMap).               *)

\* "Used more recently than", read off the list.
NewerPairs == {p \in Keys \X Keys : Before(cache.order, p[1], p[2])}

\* A pair of the relation is a pair on the list.
LEMMA NewerPairsMember ==
  ASSUME CachesWellFormed, NEW a, NEW b
  PROVE  <<a, b>> \in NewerPairs <=> Before(cache.order, a, b)
<1>1. Before(cache.order, a, b) => a \in Keys /\ b \in Keys
  BY BeforeOnList, WellFormedParts DEF CachesWellFormed
<1>2. QED BY <1>1 DEF NewerPairs

\* When k comes to the front of the keys others and these keep their order, the
\* relation is what RecencyMap calls Freshest(k, others).
LEMMA NewerPairsFreshest ==
  ASSUME CachesWellFormed, CachesWellFormed', NEW k \in Keys,
         NEW others \in SUBSET Keys,
         \A a, b : Before(cache'.order, a, b)
           <=> \/ a = k /\ b \in others
               \/ a \in others /\ b \in others /\ Before(cache.order, a, b)
  PROVE  NewerPairs' = Recency!Freshest(k, others)
<1> DEFINE among == {p \in NewerPairs : p[1] \in others /\ p[2] \in others}
<1>1. Recency!Freshest(k, others) = among \union ({k} \X others)
  BY DEF Recency!Freshest, Recency!Among, NewerPairs
<1>2. ASSUME NEW p \in Keys \X Keys
      PROVE  p \in NewerPairs' <=> p \in among \union ({k} \X others)
  <2>1. PICK a \in Keys, b \in Keys : p = <<a, b>>
    OBVIOUS
  <2>2. p \in NewerPairs' <=> Before(cache'.order, a, b)
    BY <2>1 DEF NewerPairs
  <2>3. p \in among <=> a \in others /\ b \in others /\ Before(cache.order, a, b)
    BY <2>1 DEF NewerPairs
  <2>4. p \in {k} \X others <=> a = k /\ b \in others
    BY <2>1
  <2>5. QED BY <2>2, <2>3, <2>4
<1>3. NewerPairs' \subseteq Keys \X Keys /\ among \union ({k} \X others) \subseteq Keys \X Keys
  BY DEF NewerPairs
<1>4. QED BY <1>1, <1>2, <1>3

\* Get is Get of the map.
LEMMA RecencyGet ==
  ASSUME CachesWellFormed, CachesWellFormed', NEW k \in Keys, Get(k)
  PROVE  Recency!Get(k)
<1> DEFINE held == DOMAIN cache.items
<1>1. /\ WellFormed(cache, Keys, Times) /\ cache' = LruGet(cache, k)
      /\ cache'.items = cache.items
  BY GetEffect DEF CachesWellFormed, Get
<1>2. held \subseteq Keys /\ ToSet(cache.order) = held
  BY <1>1, WellFormedParts
<1>3. seen' = IF k \in held THEN cache.items[k] ELSE Absent
  BY DEF Get, LruHas
<1>4. CASE k \in held
  <2>1. \A a, b : Before(cache'.order, a, b)
          <=> \/ a = k /\ b \in held \ {k}
              \/ a # k /\ b # k /\ Before(cache.order, a, b)
    BY <1>1, <1>4, GetEffect DEF LruHas
  <2>2. \A a, b : Before(cache.order, a, b) => a \in held /\ b \in held
    BY <1>2, BeforeOnList
  <2>3. NewerPairs' = Recency!Freshest(k, held \ {k})
    BY <1>2, <2>1, <2>2, NewerPairsFreshest
  <2>4. QED BY <1>1, <1>3, <1>4, <2>3 DEF Recency!Get, NewerPairs
<1>5. CASE k \notin held
  <2>1. cache' = cache
    BY <1>1, <1>5, GetEffect DEF LruHas
  <2>2. QED BY <1>1, <1>3, <1>5, <2>1 DEF Recency!Get
<1>6. QED BY <1>4, <1>5

\* The map's own Cardinality is that of the cache.
LEMMA SameCardinality == ASSUME NEW S PROVE Recency!Cardinality(S) = Cardinality(S)
BY DEF Recency!Cardinality, Cardinality

\* Keep(k, t, gone) of the map, for the key Set displaces.
LEMMA RecencyKeep ==
  ASSUME CachesWellFormed, CachesWellFormed', NEW k \in Keys, NEW t \in Times, Set(k, t)
  PROVE  Recency!Keep(k, t, Displaced(cache, k, MaxSize))
<1> DEFINE others == Spared(cache, k, MaxSize)
           gone == Displaced(cache, k, MaxSize)
<1>1. WellFormed(cache, Keys, Times) /\ WellFormed(cache', Keys, Times)
  BY DEF CachesWellFormed
<1>2. /\ DOMAIN cache'.items = others \union {k}
      /\ \A x \in others \union {k} :
           cache'.items[x] = IF x = k THEN t ELSE cache.items[x]
      /\ \A a, b : Before(cache'.order, a, b)
           <=> \/ a = k /\ b \in others
               \/ a \in others /\ b \in others /\ Before(cache.order, a, b)
  <2> DEFINE after == LruSet(cache, k, t, MaxSize)
  <2>1. cache' = after
    BY DEF Set
  <2>2. /\ DOMAIN after.items = others \union {k}
        /\ \A x \in others \union {k} :
             after.items[x] = IF x = k THEN t ELSE cache.items[x]
        /\ \A a, b : Before(after.order, a, b)
             <=> \/ a = k /\ b \in others
                 \/ a \in others /\ b \in others /\ Before(cache.order, a, b)
    BY <1>1, SetEffect
  <2> HIDE DEF after, others
  <2>3. QED BY <2>1, <2>2
<1>3. others = DOMAIN cache.items \ (gone \union {k}) /\ others \subseteq Keys
  BY <1>1, WellFormedParts DEF Spared
<1>4. NewerPairs' = Recency!Freshest(k, others)
  BY <1>2, <1>3, NewerPairsFreshest
<1>5. cache'.items = [x \in others \union {k} |-> IF x = k THEN t ELSE cache.items[x]]
  <2>1. cache'.items = [x \in DOMAIN cache'.items |-> cache'.items[x]]
    BY <1>1, WellFormedParts
  <2>2. QED BY <2>1, <1>2
<1>6. QED BY <1>3, <1>4, <1>5 DEF Recency!Keep, Set, NewerPairs

\* Set is Put of the map: it displaces nothing, or the oldest key of a full map.
LEMMA RecencyPut ==
  ASSUME CachesWellFormed, CachesWellFormed', NEW k \in Keys, NEW t \in Times, Set(k, t)
  PROVE  Recency!Put(k, t)
<1> DEFINE gone == Displaced(cache, k, MaxSize)
<1>1. WellFormed(cache, Keys, Times)
  BY DEF CachesWellFormed
<1>2. Recency!Keep(k, t, gone)
  BY RecencyKeep
<1>3. /\ Cardinality(DOMAIN cache.items) = Len(cache.order)
      /\ ToSet(cache.order) = DOMAIN cache.items
      /\ cache.order \in Seq(Keys) /\ IsInjective(cache.order)
      /\ Len(cache.order) \in Nat
  BY <1>1, WellFormedParts
<1>4. CASE gone = {}
  <2>1. \/ k \in DOMAIN cache.items
        \/ ~(Len(cache.order) >= MaxSize)
        \/ cache.order = << >>
    BY <1>4 DEF Displaced, LruHas
  <2>2. cache.order = << >> => cache.items = [x \in {} |-> 0]
    <3> SUFFICES ASSUME cache.order = << >> PROVE cache.items = [x \in {} |-> 0]
      OBVIOUS
    <3>1. DOMAIN cache.items = {}
      BY <1>3 DEF ToSet
    <3>2. cache.items \in [DOMAIN cache.items -> Times]
      BY <1>1, WellFormedParts
    <3>3. QED BY <3>1, <3>2
  <2>3. Recency!Full <=> Len(cache.order) >= MaxSize
    BY <1>3, SameCardinality DEF Recency!Full
  <2>4. Recency!Keep(k, t, {})
    BY <1>2, <1>4
  <2>5. QED BY <2>1, <2>2, <2>3, <2>4 DEF Recency!Put
<1>5. CASE gone # {}
  <2> DEFINE last == Last(cache.order)
  <2>1. /\ k \notin DOMAIN cache.items /\ Len(cache.order) >= MaxSize
        /\ cache.order # << >> /\ gone = {last}
    BY <1>5 DEF Displaced, LruHas
  <2>2. /\ last \in DOMAIN cache.items
        /\ \A a \in DOMAIN cache.items \ {last} : Before(cache.order, a, last)
    BY <1>3, <2>1, LastGone
  <2> HIDE DEF last
  <2>3. \A a \in DOMAIN cache.items \ {last} : <<a, last>> \in NewerPairs
    BY <2>2, NewerPairsMember
  <2>4. Recency!Oldest(last)
    BY <2>2, <2>3 DEF Recency!Oldest, NewerPairs
  <2>5. Recency!Full
    BY <2>1, <1>3, SameCardinality DEF Recency!Full
  <2>6. Recency!Keep(k, t, {last})
    BY <1>2, <2>1
  <2>7. QED BY <2>1, <2>2, <2>4, <2>5, <2>6 DEF Recency!Put
<1>6. QED BY <1>4, <1>5

\* DeleteOld is Expire of the map.
LEMMA RecencyExpire ==
  ASSUME CachesWellFormed, CachesWellFormed', NEW before \in Times, DeleteOld(before)
  PROVE  Recency!Expire(before)
<1> DEFINE held == DOMAIN cache.items
           young == Young(cache, Older(before))
<1>1. WellFormed(cache, Keys, Times) /\ cache' = LruDeleteOld(cache, Older(before))
  BY DEF CachesWellFormed, DeleteOld
<1>2. /\ cache'.items = Restrict(cache.items, young)
      /\ \A a, b : Before(cache'.order, a, b)
           <=> a \in young /\ b \in young /\ Before(cache.order, a, b)
  BY <1>1, DeleteOldEffect
<1>3. young = {k \in held : cache.items[k] >= before}
  <2>1. \A k \in held : cache.items[k] \in Times
    BY <1>1, WellFormedParts
  <2>2. \A t \in Times : t \notin Older(before) <=> t >= before
    BY TimeAssumption DEF Older
  <2>3. QED BY <2>1, <2>2 DEF Young
<1>4. NewerPairs' = {p \in NewerPairs : p[1] \in young /\ p[2] \in young}
  <2> HIDE DEF young
  <2>1. \A p \in Keys \X Keys :
          p \in NewerPairs' <=> p \in NewerPairs /\ p[1] \in young /\ p[2] \in young
    BY <1>2 DEF NewerPairs
  <2>2. QED BY <2>1 DEF NewerPairs
<1>5. QED BY <1>2, <1>3, <1>4
        DEF Recency!Expire, Recency!Among, Recency!Restrict, Restrict, NewerPairs,
            DeleteOld

\* IsRecencyMap: every call of the cache is the same call of the LRU map, so what
\* is evicted is the least recently used key and nothing else, for any limit.
THEOREM CacheImplementsRecencyMap == CacheSpec => IsRecencyMap
<1>1. CacheInit => Recency!Init
  <2> SUFFICES ASSUME CacheInit PROVE Recency!Init
    OBVIOUS
  <2>1. cache.order = << >> /\ cache.items = [k \in {} |-> {}] /\ seen = Absent
    BY DEF CacheInit, LruEmpty
  <2>2. cache.items = [k \in {} |-> 0]
    BY <2>1
  <2>3. NewerPairs = {}
    BY <2>1 DEF NewerPairs, Before
  <2>4. QED BY <2>1, <2>2, <2>3 DEF Recency!Init, NewerPairs
<1>2. ASSUME CachesWellFormed, CachesWellFormed', [CacheNext]_cacheVars
      PROVE  [Recency!Next]_(Recency!rvars)
  <2>1. ASSUME NEW k \in Keys, Get(k) PROVE Recency!Next
    BY <1>2, <2>1, RecencyGet DEF Recency!Next
  <2>2. ASSUME NEW k \in Keys, NEW t \in Times, Set(k, t) PROVE Recency!Next
    BY <1>2, <2>2, RecencyPut DEF Recency!Next
  <2>3. ASSUME NEW before \in Times, DeleteOld(before) PROVE Recency!Next
    BY <1>2, <2>3, RecencyExpire DEF Recency!Next
  <2>4. CASE UNCHANGED cacheVars
    BY <2>4 DEF cacheVars, Recency!rvars
  <2>5. QED BY <1>2, <2>1, <2>2, <2>3, <2>4 DEF CacheNext
<1>3. QED
  BY <1>1, <1>2, CacheTypes, PTL DEF CacheSpec, IsRecencyMap, Recency!Spec

-----------------------------------------------------------------------------
(* What the operators of LruCache do to the map a cache holds, whatever    *)
(* the recency list says: no operation invents a value or gives a key the  *)
(* value of another one.                                                   *)

\* Set binds k to v; every other entry it leaves was there before.
LEMMA LruSetItems ==
  ASSUME NEW c, NEW k, NEW v, NEW max,
         NEW x \in DOMAIN LruSet(c, k, v, max).items
  PROVE  \/ x = k /\ LruSet(c, k, v, max).items[x] = v
         \/ x \in DOMAIN c.items /\ LruSet(c, k, v, max).items[x] = c.items[x]
<1>1. CASE LruHas(c, k)
  BY <1>1 DEF LruSet, LruHas
<1>2. CASE ~LruHas(c, k)
  <2> DEFINE d == IF Len(c.order) >= max THEN EvictLRU(c) ELSE c
  <2>1. LruSet(c, k, v, max).items
          = [y \in DOMAIN d.items \union {k} |-> IF y = k THEN v ELSE d.items[y]]
    BY <1>2 DEF LruSet, PushFront
  <2>2. \A y \in DOMAIN d.items : y \in DOMAIN c.items /\ d.items[y] = c.items[y]
    BY DEF EvictLRU, Restrict
  <2> HIDE DEF d
  <2>3. QED BY <2>1, <2>2
<1>3. QED BY <1>1, <1>2

\* Get changes no entry.
LEMMA LruGetItems ==
  ASSUME NEW c, NEW k
  PROVE  LruGet(c, k).items = c.items
BY DEF LruGet

\* DeleteOld only removes entries.
LEMMA LruDeleteOldItems ==
  ASSUME NEW c, NEW old, NEW x \in DOMAIN LruDeleteOld(c, old).items
  PROVE  x \in DOMAIN c.items /\ LruDeleteOld(c, old).items[x] = c.items[x]
BY DEF LruDeleteOld, Restrict

-----------------------------------------------------------------------------
(* Idempotency.  Type correctness.                                         *)

\* A property of entries that MemSet's new entry has and the memory's old ones
\* have, every entry has afterwards.
LEMMA MemSetTyped ==
  ASSUME TypeOK, ReqAssumption, NEW r \in Req, NEW v \in Req, MemSet(r, v)
  PROVE  /\ DOMAIN mem' = Inst
         /\ \A i \in Inst : \A k \in DOMAIN mem'[i].items :
              k \in Key /\ mem'[i].items[k] \in Req
<1>1. InstOf[r] \in Inst /\ KeyOf[r] \in Key
  BY DEF ReqAssumption
<1>2. DOMAIN mem' = Inst
  BY DEF MemSet, TypeOK
<1>3. ASSUME NEW i \in Inst, NEW k \in DOMAIN mem'[i].items
      PROVE  k \in Key /\ mem'[i].items[k] \in Req
  <2>1. CASE i = InstOf[r]
    <3>1. mem'[i] = LruSet(mem[i], KeyOf[r], v, MaxEntries)
      BY <2>1 DEF MemSet, TypeOK
    <3>2. \/ k = KeyOf[r] /\ mem'[i].items[k] = v
          \/ k \in DOMAIN mem[i].items /\ mem'[i].items[k] = mem[i].items[k]
      BY <3>1, <1>3, LruSetItems
    <3>3. QED BY <3>2, <1>1 DEF TypeOK
  <2>2. CASE i # InstOf[r]
    <3>1. mem'[i] = mem[i]
      BY <2>2 DEF MemSet, TypeOK
    <3>2. QED BY <3>1, <1>3 DEF TypeOK
  <2>3. QED BY <2>1, <2>2
<1>4. QED BY <1>2, <1>3

LEMMA TypeInit == ReqAssumption /\ BoundAssumption /\ Init => TypeOK
BY DEF ReqAssumption, BoundAssumption, Init, TypeOK, LruEmpty, PCs

LEMMA TypeNext ==
  ASSUME ReqAssumption, BoundAssumption, TypeOK, [Next]_vars
  PROVE  TypeOK'
<1> USE DEF TypeOK, ReqAssumption, BoundAssumption, PCs
<1>1. ASSUME NEW r \in Req, Arrive(r) PROVE TypeOK'
  BY <1>1 DEF Arrive, Goto
<1>2. ASSUME NEW r \in Req, Begin(r) PROVE TypeOK'
  BY <1>2 DEF Begin
<1>3. ASSUME NEW r \in Req, Lock(r) PROVE TypeOK'
  BY <1>3 DEF Lock
<1>4. ASSUME NEW r \in Req, Refuse(r) PROVE TypeOK'
  BY <1>4 DEF Refuse, Return, EndTxs
<1>5. ASSUME NEW r \in Req, MemHit(r) PROVE TypeOK'
  <2>1. /\ DOMAIN mem' = Inst
        /\ \A i \in Inst : mem'[i].items = mem[i].items
    BY <1>5, LruGetItems DEF MemHit
  <2>2. mem[InstOf[r]].items[KeyOf[r]] \in Req
    BY <1>5 DEF MemHit, LruHas
  <2>3. QED BY <1>5, <2>1, <2>2 DEF MemHit, Return, EndTxs
<1>6. ASSUME NEW r \in Req, MemMiss(r) PROVE TypeOK'
  BY <1>6 DEF MemMiss, Goto
<1>7. ASSUME NEW r \in Req, GetConn(r) PROVE TypeOK'
  BY <1>7 DEF GetConn, Goto, NextOnConn
<1>8. ASSUME NEW r \in Req, RowHit(r) PROVE TypeOK'
  <2>1. row[KeyOf[r]] \in Req
    BY <1>8 DEF RowHit, Readable
  <2>2. MemSet(r, row[KeyOf[r]])
    BY <1>8 DEF RowHit
  <2>3. QED BY <1>8, <2>1, <2>2, MemSetTyped DEF RowHit, Return, EndTxs
<1>9. ASSUME NEW r \in Req, RowMiss(r) \/ BlindMiss(r) PROVE TypeOK'
  BY <1>9 DEF RowMiss, BlindMiss, Goto
<1>10. ASSUME NEW r \in Req, RunOk(r) PROVE TypeOK'
  <2>1. MemSet(r, r)
    BY <1>10 DEF RunOk
  <2>2. QED BY <1>10, <2>1, MemSetTyped DEF RunOk, Goto
<1>11. ASSUME NEW r \in Req, RunFail(r) \/ RunLost(r) PROVE TypeOK'
  <2>1. CASE RunFail(r)
    BY <2>1 DEF RunFail, Return, EndTxs
  <2>2. CASE RunLost(r)
    BY <2>2 DEF RunLost, Return, EndTxs
  <2>3. QED BY <1>11, <2>1, <2>2
<1>12. ASSUME NEW r \in Req, StoreOk(r) \/ StoreFail(r) PROVE TypeOK'
  <2>1. CASE StoreOk(r)
    BY <2>1 DEF StoreOk, Insert, Return, EndTxs
  <2>2. CASE StoreFail(r)
    BY <2>2 DEF StoreFail, Insert, Return, EndTxs
  <2>3. QED BY <1>12, <2>1, <2>2
<1>13. ASSUME NEW r \in Req, Deadline(r) \/ LoseTx(r) \/ Age(r) PROVE TypeOK'
  BY <1>13 DEF Deadline, LoseTx, Age, EndTxs
<1>14. ASSUME NEW i \in Inst, CleanMem(i) PROVE TypeOK'
  <2>1. DOMAIN mem' = Inst
    BY <1>14 DEF CleanMem
  <2>2. \A j \in Inst : \A k \in DOMAIN mem'[j].items :
          k \in DOMAIN mem[j].items /\ mem'[j].items[k] = mem[j].items[k]
    BY <1>14, LruDeleteOldItems DEF CleanMem
  <2>3. QED BY <1>14, <2>1, <2>2 DEF CleanMem
<1>15. ASSUME NEW i \in Inst, CleanRows(i) PROVE TypeOK'
  BY <1>15 DEF CleanRows
<1>16. ASSUME NEW i \in Inst, Crash(i) PROVE TypeOK'
  BY <1>16 DEF Crash, EndTxs, LruEmpty
<1>17. CASE UNCHANGED vars
  BY <1>17 DEF vars
<1>18. QED
  BY <1>1, <1>2, <1>3, <1>4, <1>5, <1>6, <1>7, <1>8, <1>9, <1>10, <1>11,
     <1>12, <1>13, <1>14, <1>15, <1>16, <1>17 DEF Next, Step

\* The type invariant of the middleware holds in every reachable state.
THEOREM TypeCorrect == Spec => []TypeOK
<1>1. Init => TypeOK
  BY TypeInit, ReqAssumption, BoundAssumption
<1>2. TypeOK /\ [Next]_vars => TypeOK'
  BY TypeNext, ReqAssumption, BoundAssumption
<1>3. QED BY <1>1, <1>2, PTL DEF Spec

-----------------------------------------------------------------------------
(* The memory of each instance, under any interleaving of the requests,    *)
(* the cleanups and the crashes, is a cache as InMemoryCache has it.       *)

MemoriesSound ==
  \A i \in Inst : WellFormed(mem[i], Key, Req) /\ WithinLimit(mem[i], MaxEntries)

\* Storing a response in the memory of its instance.
LEMMA MemSetSound ==
  ASSUME TypeOK, MemoriesSound, NEW r \in Req, NEW v \in Req, MemSet(r, v)
  PROVE  MemoriesSound'
<1>1. InstOf[r] \in Inst /\ KeyOf[r] \in Key /\ MaxEntries \in Nat
  BY ReqAssumption, BoundAssumption
<1>2. ASSUME NEW i \in Inst
      PROVE  WellFormed(mem'[i], Key, Req) /\ WithinLimit(mem'[i], MaxEntries)
  <2>1. WellFormed(mem[i], Key, Req) /\ WithinLimit(mem[i], MaxEntries)
    BY DEF MemoriesSound
  <2>2. CASE i = InstOf[r]
    <3> DEFINE after == LruSet(mem[i], KeyOf[r], v, MaxEntries)
    <3>1. mem'[i] = after
      BY <2>2 DEF MemSet, TypeOK
    <3>2. WellFormed(after, Key, Req) /\ WithinLimit(after, MaxEntries)
      BY <1>1, <2>1, SetEffect, SetWithinLimit
    <3> HIDE DEF after
    <3>3. QED BY <3>1, <3>2
  <2>3. CASE i # InstOf[r]
    <3>1. mem'[i] = mem[i]
      BY <2>3 DEF MemSet, TypeOK
    <3>2. QED BY <2>1, <3>1
  <2>4. QED BY <2>2, <2>3
<1>3. QED BY <1>2 DEF MemoriesSound

\* Hits, stores, cleanups and crashes keep every memory a cache.
LEMMA MemoriesStep ==
  ASSUME TypeOK, MemoriesSound, [Next]_vars
  PROVE  MemoriesSound'
<1>1. ASSUME NEW r \in Req, MemHit(r) PROVE MemoriesSound'
  <2>1. ASSUME NEW i \in Inst
        PROVE  WellFormed(mem'[i], Key, Req) /\ WithinLimit(mem'[i], MaxEntries)
    <3>1. WellFormed(mem[i], Key, Req) /\ WithinLimit(mem[i], MaxEntries)
      BY DEF MemoriesSound
    <3> DEFINE after == LruGet(mem[i], KeyOf[r])
    <3>2. mem'[i] = after \/ mem'[i] = mem[i]
      BY <1>1 DEF MemHit, TypeOK
    <3>3. WellFormed(after, Key, Req) /\ DOMAIN after.items = DOMAIN mem[i].items
      BY <3>1, GetEffect
    <3> HIDE DEF after
    <3>4. WithinLimit(after, MaxEntries)
      BY <3>1, <3>3, FewerWithinLimit, BoundAssumption
    <3>5. QED BY <3>1, <3>2, <3>3, <3>4
  <2>2. QED BY <2>1 DEF MemoriesSound
<1>2. ASSUME NEW r \in Req, RowHit(r) PROVE MemoriesSound'
  <2>1. row[KeyOf[r]] \in Req /\ MemSet(r, row[KeyOf[r]])
    BY <1>2, ReqAssumption DEF RowHit, Readable, TypeOK
  <2>2. QED BY <2>1, MemSetSound
<1>3. ASSUME NEW r \in Req, RunOk(r) PROVE MemoriesSound'
  BY <1>3, MemSetSound DEF RunOk
<1>4. ASSUME NEW j \in Inst, CleanMem(j) PROVE MemoriesSound'
  <2>1. ASSUME NEW i \in Inst
        PROVE  WellFormed(mem'[i], Key, Req) /\ WithinLimit(mem'[i], MaxEntries)
    <3>1. WellFormed(mem[i], Key, Req) /\ WithinLimit(mem[i], MaxEntries)
      BY DEF MemoriesSound
    <3> DEFINE after == LruDeleteOld(mem[i], aged)
    <3>2. mem'[i] = after \/ mem'[i] = mem[i]
      BY <1>4 DEF CleanMem, TypeOK
    <3>3. WellFormed(after, Key, Req) /\ DOMAIN after.items = Young(mem[i], aged)
      BY <3>1, DeleteOldEffect
    <3>4. Young(mem[i], aged) \subseteq DOMAIN mem[i].items
      BY DEF Young
    <3> HIDE DEF after
    <3>5. WithinLimit(after, MaxEntries)
      BY <3>1, <3>3, <3>4, FewerWithinLimit, BoundAssumption
    <3>6. QED BY <3>1, <3>2, <3>3, <3>5
  <2>2. QED BY <2>1 DEF MemoriesSound
<1>5. ASSUME NEW j \in Inst, Crash(j) PROVE MemoriesSound'
  <2>1. WellFormed(LruEmpty, Key, Req) /\ WithinLimit(LruEmpty, MaxEntries)
    <3>1. Len(LruEmpty.order) = 0
      BY DEF LruEmpty
    <3>2. QED BY <3>1, EmptyWellFormed, BoundAssumption DEF WithinLimit
  <2>2. \A i \in Inst : mem'[i] = LruEmpty \/ mem'[i] = mem[i]
    BY <1>5 DEF Crash, TypeOK
  <2>3. QED BY <2>1, <2>2 DEF MemoriesSound
<1>6. ASSUME UNCHANGED mem PROVE MemoriesSound'
  BY <1>6 DEF MemoriesSound
<1>7. ASSUME NEW r \in Req,
             \/ Arrive(r) \/ Lock(r) \/ Begin(r) \/ Refuse(r) \/ MemMiss(r) \/ GetConn(r)
             \/ RowMiss(r) \/ BlindMiss(r) \/ RunFail(r) \/ RunLost(r)
             \/ StoreOk(r) \/ StoreFail(r) \/ Deadline(r) \/ LoseTx(r) \/ Age(r)
      PROVE  UNCHANGED mem
  BY <1>7 DEF Arrive, Lock, Begin, Refuse, MemMiss, GetConn, RowMiss, BlindMiss,
              RunFail, RunLost, StoreOk, StoreFail, Deadline, LoseTx, Age
<1>8. ASSUME NEW i \in Inst, CleanRows(i) PROVE UNCHANGED mem
  BY <1>8 DEF CleanRows
<1>9. CASE UNCHANGED vars
  BY <1>6, <1>9 DEF vars
<1>10. QED
  BY <1>1, <1>2, <1>3, <1>4, <1>5, <1>6, <1>7, <1>8, <1>9 DEF Next, Step

\* In every instance the list and the index agree, and the memory never holds
\* more than maxCacheEntries (one response when the limit is 0), however
\* the requests, the cleanup and the crashes interleave.
THEOREM MemoriesAreSound == Spec => []MemoriesSound
<1>1. Init => MemoriesSound
  <2> SUFFICES ASSUME Init, NEW i \in Inst
               PROVE  WellFormed(mem[i], Key, Req) /\ WithinLimit(mem[i], MaxEntries)
    BY DEF MemoriesSound
  <2>1. mem[i] = LruEmpty
    BY DEF Init
  <2>2. Len(LruEmpty.order) = 0
    BY DEF LruEmpty
  <2>3. QED BY <2>1, <2>2, EmptyWellFormed, BoundAssumption DEF WithinLimit
<1>2. QED BY <1>1, MemoriesStep, TypeCorrect, PTL DEF Spec

-----------------------------------------------------------------------------
(* The lock.  What LockProtects says is not inductive: it has to be known  *)
(* that a healthy request between its lookup and its INSERT is the owner   *)
(* the database knows, and that an owner is such a request, in an open     *)
(* transaction.                                                            *)

LockInv ==
  /\ \A l \in LockKey :
       owner[l] # None => /\ tx[owner[l]] = "open"
                          /\ LockNeeded(owner[l]) = l
                          /\ Critical(owner[l])
  /\ \A r \in Req : Critical(r) /\ r \notin slipped => owner[LockNeeded(r)] = r

LEMMA LockNext ==
  ASSUME ReqAssumption, TypeOK, LockInv, [Next]_vars
  PROVE  LockInv'
<1> USE DEF LockInv, TypeOK, ReqAssumption, LockNeeded, Critical
<1>1. ASSUME NEW r \in Req, Arrive(r) PROVE LockInv'
  BY <1>1 DEF Arrive, Goto
<1>2. ASSUME NEW r \in Req, Begin(r) PROVE LockInv'
  BY <1>2 DEF Begin
<1>3. ASSUME NEW r \in Req, Lock(r) PROVE LockInv'
  BY <1>3 DEF Lock
<1>4. ASSUME NEW r \in Req, Refuse(r) PROVE LockInv'
  BY <1>4 DEF Refuse, Return, EndTxs
<1>5. ASSUME NEW r \in Req, MemHit(r) PROVE LockInv'
  BY <1>5 DEF MemHit, Return, EndTxs
<1>6. ASSUME NEW r \in Req, MemMiss(r) PROVE LockInv'
  BY <1>6 DEF MemMiss, Goto
<1>7. ASSUME NEW r \in Req, GetConn(r) PROVE LockInv'
  BY <1>7 DEF GetConn, Goto, NextOnConn
<1>8. ASSUME NEW r \in Req, RowHit(r) PROVE LockInv'
  BY <1>8 DEF RowHit, Return, EndTxs
<1>9. ASSUME NEW r \in Req, RowMiss(r) PROVE LockInv'
  BY <1>9 DEF RowMiss, Goto
<1>10. ASSUME NEW r \in Req, BlindMiss(r) PROVE LockInv'
  BY <1>10 DEF BlindMiss, Goto
<1>11. ASSUME NEW r \in Req, RunOk(r) PROVE LockInv'
  BY <1>11 DEF RunOk, Goto
<1>12. ASSUME NEW r \in Req, RunFail(r) PROVE LockInv'
  BY <1>12 DEF RunFail, Return, EndTxs
<1>13. ASSUME NEW r \in Req, RunLost(r) PROVE LockInv'
  BY <1>13 DEF RunLost, Return, EndTxs
<1>14. ASSUME NEW r \in Req, StoreOk(r) PROVE LockInv'
  BY <1>14 DEF StoreOk, Insert, Return, EndTxs
<1>15. ASSUME NEW r \in Req, StoreFail(r) PROVE LockInv'
  BY <1>15 DEF StoreFail, Insert, Return, EndTxs
<1>16. ASSUME NEW r \in Req, Deadline(r) PROVE LockInv'
  BY <1>16 DEF Deadline
<1>17. ASSUME NEW r \in Req, LoseTx(r) PROVE LockInv'
  BY <1>17 DEF LoseTx, EndTxs
<1>18. ASSUME NEW r \in Req, Age(r) PROVE LockInv'
  BY <1>18 DEF Age
<1>19. ASSUME NEW i \in Inst, CleanMem(i) PROVE LockInv'
  BY <1>19 DEF CleanMem
<1>20. ASSUME NEW i \in Inst, CleanRows(i) PROVE LockInv'
  BY <1>20 DEF CleanRows
<1>21. ASSUME NEW i \in Inst, Crash(i) PROVE LockInv'
  BY <1>21 DEF Crash, EndTxs, InFlight
<1>22. CASE UNCHANGED vars
  BY <1>22 DEF vars
<1>23. QED
  BY <1>1, <1>2, <1>3, <1>4, <1>5, <1>6, <1>7, <1>8, <1>9, <1>10, <1>11,
     <1>12, <1>13, <1>14, <1>15, <1>16, <1>17, <1>18, <1>19, <1>20, <1>21,
     <1>22 DEF Next, Step

\* The reachable states know all of LockInv, not only what LockProtects says.
LEMMA LockInvariant == Spec => []LockInv
<1>1. Init => LockInv
  BY ReqAssumption DEF Init, LockInv, Critical
<1>2. TypeOK /\ LockInv /\ [Next]_vars => LockInv'
  BY LockNext, ReqAssumption
<1>3. QED BY <1>1, <1>2, TypeCorrect, PTL DEF Spec

\* Two healthy requests of one lock are never both between lookup and INSERT.
THEOREM MutualExclusion == Spec => []LockProtects
<1>1. TypeOK /\ LockInv => LockProtects
  BY DEF LockInv, LockProtects, LockNeeded
<1>2. QED BY <1>1, TypeCorrect, LockInvariant, PTL

\* Whatever the locks and the pool sizes, requests only block each other for
\* ever when the open transactions of some instance hold its whole pool.
THEOREM OnlyThePoolWedges == Spec => []WedgeMeansPoolFull
<1>1. ASSUME TypeOK, LockInv, Wedged
      PROVE  \E i \in Inst : Cardinality(OpenTxs(i)) >= MaxConns
  <2>1. ASSUME NEW r \in Req, InFlight(r), pc[r] # "lock"
        PROVE  Cardinality(OpenTxs(InstOf[r])) >= MaxConns
    <3>1. ~ConnFree(InstOf[r])
      BY <1>1, <2>1 DEF Wedged, Waits
    <3>2. OnConn(InstOf[r]) = {}
      BY <1>1 DEF Wedged, Waits, InFlight, OnConn
    <3>3. Cardinality(OnConn(InstOf[r])) = 0
      BY <3>2, FS_EmptySet
    <3>4. IsFiniteSet(OpenTxs(InstOf[r]))
      BY ReqAssumption, FS_Subset DEF ReqAssumption, OpenTxs
    <3>5. Cardinality(OpenTxs(InstOf[r])) \in Nat
      BY <3>4, FS_CardinalityType
    <3>6. QED BY <3>1, <3>3, <3>5, BoundAssumption DEF ConnFree, BoundAssumption
  <2>2. PICK r \in Req : InFlight(r)
    BY <1>1 DEF Wedged
  <2>3. CASE pc[r] # "lock"
    BY <2>1, <2>2, <2>3, ReqAssumption DEF ReqAssumption
  <2>4. CASE pc[r] = "lock"
    <3>1. LockNeeded(r) \in LockKey /\ owner[LockNeeded(r)] # None
      BY <1>1, <2>2, <2>4, ReqAssumption DEF Wedged, Waits, LockNeeded, ReqAssumption
    <3> DEFINE x == owner[LockNeeded(r)]
    <3>2. x \in Req /\ Critical(x)
      BY <1>1, <3>1 DEF TypeOK, LockInv
    <3>3. InFlight(x) /\ pc[x] # "lock"
      BY <3>2 DEF Critical, InFlight
    <3>4. QED BY <2>1, <3>2, <3>3, ReqAssumption DEF ReqAssumption
  <2>5. QED BY <2>3, <2>4
<1>2. TypeOK /\ LockInv => WedgeMeansPoolFull
  BY <1>1 DEF WedgeMeansPoolFull
<1>3. QED BY <1>2, TypeCorrect, LockInvariant, PTL

-----------------------------------------------------------------------------
(* What is stored.  Every value in a memory or in the table is a response  *)
(* of an execution of its own key, and the program counter says which      *)
(* requests have taken effect and which have been answered.                *)

Cached == \A i \in Inst : \A k \in DOMAIN mem[i].items :
            mem[i].items[k] \in ran /\ KeyOf[mem[i].items[k]] = k

DataInv ==
  /\ Cached
  /\ \A k \in Key : row[k] # None => /\ row[k] \in ran
                                     /\ KeyOf[row[k]] = k
                                     /\ pc[row[k]] \in {"done", "dead"}
  /\ \A r \in ran : pc[r] \in {"wantStore", "storing", "done", "lost", "dead"}
  /\ \A r \in Req : pc[r] \in {"wantStore", "storing"} => r \in ran
  /\ \A r \in Req : pc[r] \notin {"done", "lost"} => answer[r] = None
  /\ ReplayFaithful
  /\ ErrorMeansNotDone

LEMMA MemSetCached ==
  ASSUME TypeOK, ReqAssumption, Cached, NEW r \in Req, NEW v \in ran', MemSet(r, v),
         KeyOf[v] = KeyOf[r], ran \subseteq ran'
  PROVE  Cached'
<1> SUFFICES ASSUME NEW i \in Inst, NEW k \in DOMAIN mem'[i].items
             PROVE  mem'[i].items[k] \in ran' /\ KeyOf[mem'[i].items[k]] = k
  BY DEF Cached
<1>1. CASE i = InstOf[r]
  <2>1. mem'[i] = LruSet(mem[i], KeyOf[r], v, MaxEntries)
    BY <1>1 DEF MemSet, TypeOK
  <2>2. \/ k = KeyOf[r] /\ mem'[i].items[k] = v
        \/ k \in DOMAIN mem[i].items /\ mem'[i].items[k] = mem[i].items[k]
    BY <2>1, LruSetItems
  <2>3. QED BY <2>2 DEF Cached
<1>2. CASE i # InstOf[r]
  <2>1. mem'[i] = mem[i]
    BY <1>2 DEF MemSet, TypeOK
  <2>2. QED BY <2>1 DEF Cached
<1>3. QED BY <1>1, <1>2

LEMMA DataNext ==
  ASSUME ReqAssumption, TypeOK, DataInv, [Next]_vars
  PROVE  DataInv'
<1> USE DEF DataInv, TypeOK, ReqAssumption, ReplayFaithful, ErrorMeansNotDone, PCs
<1>1. ASSUME NEW r \in Req, Arrive(r) PROVE DataInv'
  BY <1>1 DEF Arrive, Goto, Cached
<1>2. ASSUME NEW r \in Req, Begin(r) PROVE DataInv'
  BY <1>2 DEF Begin, Cached
<1>3. ASSUME NEW r \in Req, Lock(r) PROVE DataInv'
  BY <1>3 DEF Lock, Cached
<1>4. ASSUME NEW r \in Req, Refuse(r) PROVE DataInv'
  BY <1>4 DEF Refuse, Return, EndTxs, Cached
<1>5. ASSUME NEW r \in Req, MemHit(r) PROVE DataInv'
  <2>1. Cached'
    BY <1>5, LruGetItems DEF MemHit, Cached
  <2>2. /\ mem[InstOf[r]].items[KeyOf[r]] \in ran
        /\ KeyOf[mem[InstOf[r]].items[KeyOf[r]]] = KeyOf[r]
    BY <1>5 DEF MemHit, LruHas, Cached
  <2>3. QED BY <1>5, <2>1, <2>2 DEF MemHit, Return, EndTxs
<1>6. ASSUME NEW r \in Req, MemMiss(r) PROVE DataInv'
  BY <1>6 DEF MemMiss, Goto, Cached
<1>7. ASSUME NEW r \in Req, GetConn(r) PROVE DataInv'
  BY <1>7 DEF GetConn, Goto, NextOnConn, Cached
<1>8. ASSUME NEW r \in Req, RowHit(r) PROVE DataInv'
  <2>1. row[KeyOf[r]] \in ran /\ KeyOf[row[KeyOf[r]]] = KeyOf[r]
    BY <1>8 DEF RowHit, Readable
  <2>2. Cached'
    BY <1>8, <2>1, MemSetCached DEF RowHit
  <2>3. QED BY <1>8, <2>1, <2>2 DEF RowHit, Return, EndTxs
<1>9. ASSUME NEW r \in Req, RowMiss(r) PROVE DataInv'
  BY <1>9 DEF RowMiss, Goto, Cached
<1>10. ASSUME NEW r \in Req, BlindMiss(r) PROVE DataInv'
  BY <1>10 DEF BlindMiss, Goto, Cached
<1>11. ASSUME NEW r \in Req, RunOk(r) PROVE DataInv'
  <2>1. Cached'
    BY <1>11, MemSetCached DEF RunOk
  <2>2. QED BY <1>11, <2>1 DEF RunOk, Goto
<1>12. ASSUME NEW r \in Req, RunFail(r) PROVE DataInv'
  BY <1>12 DEF RunFail, Return, EndTxs, Cached
<1>13. ASSUME NEW r \in Req, RunLost(r) PROVE DataInv'
  BY <1>13 DEF RunLost, Return, EndTxs, Cached
<1>14. ASSUME NEW r \in Req, StoreOk(r) PROVE DataInv'
  BY <1>14 DEF StoreOk, Insert, Return, EndTxs, Cached
<1>15. ASSUME NEW r \in Req, StoreFail(r) PROVE DataInv'
  BY <1>15 DEF StoreFail, Insert, Return, EndTxs, Cached
<1>16. ASSUME NEW r \in Req, Deadline(r) PROVE DataInv'
  BY <1>16 DEF Deadline, Cached
<1>17. ASSUME NEW r \in Req, LoseTx(r) PROVE DataInv'
  BY <1>17 DEF LoseTx, EndTxs, Cached
<1>18. ASSUME NEW r \in Req, Age(r) PROVE DataInv'
  BY <1>18 DEF Age, Cached
<1>19. ASSUME NEW i \in Inst, CleanMem(i) PROVE DataInv'
  <2>1. Cached'
    BY <1>19, LruDeleteOldItems DEF CleanMem, Cached
  <2>2. QED BY <1>19, <2>1 DEF CleanMem
<1>20. ASSUME NEW i \in Inst, CleanRows(i) PROVE DataInv'
  BY <1>20 DEF CleanRows, Cached
<1>21. ASSUME NEW i \in Inst, Crash(i) PROVE DataInv'
  <2>1. Cached'
    BY <1>21 DEF Crash, Cached, LruEmpty
  <2>2. QED BY <1>21, <2>1 DEF Crash, EndTxs, InFlight
<1>22. CASE UNCHANGED vars
  BY <1>22 DEF vars, Cached
<1>23. QED
  BY <1>1, <1>2, <1>3, <1>4, <1>5, <1>6, <1>7, <1>8, <1>9, <1>10, <1>11,
     <1>12, <1>13, <1>14, <1>15, <1>16, <1>17, <1>18, <1>19, <1>20, <1>21,
     <1>22 DEF Next, Step

LEMMA DataInvariant == Spec => []DataInv
<1>1. Init => DataInv
  BY ReqAssumption DEF Init, DataInv, Cached, ReplayFaithful, ErrorMeansNotDone,
     LruEmpty, ReqAssumption
<1>2. TypeOK /\ DataInv /\ [Next]_vars => DataInv'
  BY DataNext, ReqAssumption
<1>3. QED BY <1>1, <1>2, TypeCorrect, PTL DEF Spec

\* A client only ever receives a response that an execution of the same user,
\* path, verb and header value produced.
THEOREM ResponsesDoNotStray == Spec => []ReplayFaithful
<1>1. DataInv => ReplayFaithful
  BY DEF DataInv
<1>2. QED BY <1>1, DataInvariant, PTL

\* A client that receives an error was not served behind its back, unless its
\* handler reported the error itself, after its write.
THEOREM ErrorsAreHonest == Spec => []ErrorMeansNotDone
<1>1. DataInv => ErrorMeansNotDone
  BY DEF DataInv
<1>2. QED BY <1>1, DataInvariant, PTL

-----------------------------------------------------------------------------
(* Once per key.  RepeatIsExcused becomes inductive with two facts that    *)
(* hand the evidence of an execution from the lock to the table: what has  *)
(* taken effect is in the table or its request still owns the lock         *)
(* (EffectIsSaved), and a healthy request that is past its lookup knows    *)
(* that no healthy execution of its key exists (Fresh).                    *)

Fresh ==
  \A r \in Req : pc[r] \in {"wantRun", "running"} /\ r \notin slipped =>
    \A x \in ran : KeyOf[x] = KeyOf[r] => Excused(x)

OnceInv == RepeatIsExcused /\ EffectIsSaved /\ Fresh

LEMMA OnceNext ==
  ASSUME ReqAssumption, TypeOK, LockInv, DataInv, OnceInv, [Next]_vars
  PROVE  OnceInv'
<1> USE DEF OnceInv, RepeatIsExcused, EffectIsSaved, Fresh, Excused, TypeOK,
            ReqAssumption, LockInv, DataInv, LockNeeded, Critical
<1>1. ASSUME NEW r \in Req, Arrive(r) PROVE OnceInv'
  BY <1>1 DEF Arrive, Goto
<1>2. ASSUME NEW r \in Req, Begin(r) PROVE OnceInv'
  BY <1>2 DEF Begin
<1>3. ASSUME NEW r \in Req, Lock(r) PROVE OnceInv'
  BY <1>3 DEF Lock
<1>4. ASSUME NEW r \in Req, Refuse(r) PROVE OnceInv'
  BY <1>4 DEF Refuse, Return, EndTxs
<1>5. ASSUME NEW r \in Req, MemHit(r) PROVE OnceInv'
  BY <1>5 DEF MemHit, Return, EndTxs
<1>6. ASSUME NEW r \in Req, MemMiss(r) PROVE OnceInv'
  BY <1>6 DEF MemMiss, Goto
<1>7. ASSUME NEW r \in Req, GetConn(r) PROVE OnceInv'
  BY <1>7 DEF GetConn, Goto, NextOnConn
<1>8. ASSUME NEW r \in Req, RowHit(r) PROVE OnceInv'
  BY <1>8 DEF RowHit, Return, EndTxs
<1>9. ASSUME NEW r \in Req, RowMiss(r) PROVE OnceInv'
  <2>1. ASSUME r \notin slipped, NEW x \in ran, KeyOf[x] = KeyOf[r]
        PROVE  Excused(x)
    <3>1. row[KeyOf[x]] # x \/ Excused(x)
      BY <1>9, <2>1 DEF RowMiss, Readable
    <3>2. owner[LockNeeded(r)] = r /\ pc[r] = "getting"
      BY <1>9, <2>1 DEF RowMiss
    <3>3. LockNeeded(x) = LockNeeded(r)
      BY <2>1
    <3>4. QED BY <3>1, <3>2, <3>3
  <2>2. Fresh'
    BY <1>9, <2>1 DEF RowMiss, Goto
  <2>3. RepeatIsExcused' /\ EffectIsSaved'
    BY <1>9 DEF RowMiss, Goto
  <2>4. QED BY <2>2, <2>3
<1>10. ASSUME NEW r \in Req, BlindMiss(r) PROVE OnceInv'
  BY <1>10 DEF BlindMiss, Goto
<1>11. ASSUME NEW r \in Req, RunOk(r) PROVE OnceInv'
  BY <1>11 DEF RunOk, Goto
<1>12. ASSUME NEW r \in Req, RunFail(r) PROVE OnceInv'
  BY <1>12 DEF RunFail, Return, EndTxs
<1>13. ASSUME NEW r \in Req, RunLost(r) PROVE OnceInv'
  BY <1>13 DEF RunLost, Return, EndTxs
<1>14. ASSUME NEW r \in Req, StoreOk(r) PROVE OnceInv'
  BY <1>14 DEF StoreOk, Insert, Return, EndTxs
<1>15. ASSUME NEW r \in Req, StoreFail(r) PROVE OnceInv'
  BY <1>15 DEF StoreFail, Insert, Return, EndTxs
<1>16. ASSUME NEW r \in Req, Deadline(r) PROVE OnceInv'
  BY <1>16 DEF Deadline
<1>17. ASSUME NEW r \in Req, LoseTx(r) PROVE OnceInv'
  BY <1>17 DEF LoseTx, EndTxs
<1>18. ASSUME NEW r \in Req, Age(r) PROVE OnceInv'
  BY <1>18 DEF Age
<1>19. ASSUME NEW i \in Inst, CleanMem(i) PROVE OnceInv'
  BY <1>19 DEF CleanMem
<1>20. ASSUME NEW i \in Inst, CleanRows(i) PROVE OnceInv'
  BY <1>20 DEF CleanRows
<1>21. ASSUME NEW i \in Inst, Crash(i) PROVE OnceInv'
  BY <1>21 DEF Crash, EndTxs, InFlight
<1>22. CASE UNCHANGED vars
  BY <1>22 DEF vars
<1>23. QED
  BY <1>1, <1>2, <1>3, <1>4, <1>5, <1>6, <1>7, <1>8, <1>9, <1>10, <1>11,
     <1>12, <1>13, <1>14, <1>15, <1>16, <1>17, <1>18, <1>19, <1>20, <1>21,
     <1>22 DEF Next, Step

LEMMA OnceInvariant == Spec => []OnceInv
<1>1. Init => OnceInv
  BY DEF Init, OnceInv, RepeatIsExcused, EffectIsSaved, Fresh
<1>2. TypeOK /\ LockInv /\ DataInv /\ OnceInv /\ [Next]_vars => OnceInv'
  BY OnceNext, ReqAssumption
<1>3. QED BY <1>1, <1>2, TypeCorrect, LockInvariant, DataInvariant, PTL DEF Spec

\* A key is executed twice only if the bookkeeping of one of the executions
\* failed or its response expired.
THEOREM AtMostOnceUnlessExcused == Spec => []RepeatIsExcused
<1>1. OnceInv => RepeatIsExcused
  BY DEF OnceInv
<1>2. QED BY <1>1, OnceInvariant, PTL

\* An effect whose bookkeeping went well is in the table before the lock of
\* its key is free.
THEOREM EffectsAreSaved == Spec => []EffectIsSaved
<1>1. OnceInv => EffectIsSaved
  BY DEF OnceInv
<1>2. QED BY <1>1, OnceInvariant, PTL

\* No step overwrites a row or deletes one that has not expired.
THEOREM RowsAreKept == Spec => RowsOnlyExpire
<1> DEFINE Kept == \A k \in Key : row[k] # None /\ row'[k] # row[k]
                                => row[k] \in aged /\ row'[k] = None
<1>1. ASSUME TypeOK, [Next]_vars PROVE Kept
  <2> USE <1>1, ReqAssumption DEF TypeOK, ReqAssumption
  <2>1. CASE UNCHANGED row
    BY <2>1
  <2>2. ASSUME NEW r \in Req, Insert(r) PROVE Kept
    BY <2>2 DEF Insert
  <2>3. ASSUME NEW i \in Inst, CleanRows(i) PROVE Kept
    BY <2>3 DEF CleanRows
  <2>4. ASSUME NEW i \in Inst, Crash(i) PROVE Kept
    BY <2>4 DEF Crash
  <2>5. \/ UNCHANGED row
        \/ \E r \in Req : Insert(r)
        \/ \E i \in Inst : CleanRows(i) \/ Crash(i)
    BY DEF Next, Step, vars, Arrive, Begin, Lock, Refuse, MemHit, MemMiss,
       GetConn, RowHit, RowMiss, BlindMiss, RunOk, RunFail, RunLost, StoreOk,
       StoreFail, Deadline, LoseTx, Age, CleanMem
  <2>6. QED BY <2>1, <2>2, <2>3, <2>4, <2>5
<1>2. TypeOK /\ [Next]_vars => [Kept]_vars
  BY <1>1
<1>3. QED BY <1>2, TypeCorrect, PTL DEF Spec, RowsOnlyExpire

-----------------------------------------------------------------------------
(* Without faults the middleware implements OncePerKey.                    *)

\* Nothing goes wrong in a run without faults.  The INSERT of a healthy request
\* finds no row: a row of its key would be the response of another healthy one.
Healthy == late = {} /\ slipped = {} /\ aged = {}

LEMMA HealthyNext ==
  ASSUME ReqAssumption, Faults = {}, TypeOK, DataInv, OnceInv, Healthy, [Next]_vars
  PROVE  Healthy'
<1> USE DEF Healthy, MayFail
<1>1. ASSUME NEW r \in Req, StoreOk(r) PROVE Healthy'
  <2>1. KeyOf[r] \in Key /\ r \in ran /\ pc[r] = "storing"
    BY <1>1 DEF StoreOk, DataInv, ReqAssumption
  <2>2. row[KeyOf[r]] = None
    BY <2>1 DEF DataInv, OnceInv, RepeatIsExcused, Excused
  <2>3. QED BY <1>1, <2>2 DEF StoreOk
<1>2. ASSUME ~ \E r \in Req : StoreOk(r) PROVE Healthy'
  BY <1>2 DEF Next, Step, vars, Arrive, Begin, Lock, Refuse, MemHit, MemMiss,
     GetConn, RowHit, RowMiss, BlindMiss, RunOk, RunFail, RunLost, StoreFail,
     Deadline, LoseTx, Age, CleanMem, CleanRows, Crash
<1>3. QED BY <1>1, <1>2

LEMMA PromiseStep ==
  ASSUME ReqAssumption, Faults = {}, TypeOK, DataInv, OnceInv, Healthy, [Next]_vars
  PROVE  [Promise!Next]_<<ran, answer>>
<1> USE DEF Healthy, MayFail, ReqAssumption, TypeOK
<1>1. ASSUME NEW r \in Req, RunOk(r) PROVE Promise!Execute(r)
  BY <1>1 DEF RunOk, Goto, Promise!Execute, DataInv, OnceInv, Fresh, Excused
<1>2. ASSUME NEW r \in Req, MemHit(r) PROVE Promise!Reply(r)
  <2> DEFINE x == mem[InstOf[r]].items[KeyOf[r]]
  <2>1. x \in ran /\ KeyOf[x] = KeyOf[r]
    BY <1>2 DEF MemHit, LruHas, DataInv, Cached
  <2>2. answer[r] = None /\ answer' = [answer EXCEPT ![r] = x] /\ UNCHANGED ran
    BY <1>2 DEF MemHit, Return, DataInv
  <2> HIDE DEF x
  <2>3. QED BY <2>1, <2>2 DEF Promise!Reply
<1>3. ASSUME NEW r \in Req, RowHit(r) PROVE Promise!Reply(r)
  BY <1>3 DEF RowHit, Readable, Return, Promise!Reply, DataInv
<1>4. ASSUME NEW r \in Req, StoreOk(r) PROVE Promise!Reply(r)
  BY <1>4 DEF StoreOk, Return, Promise!Reply, DataInv
<1>5. ASSUME NEW r \in Req, RunFail(r) \/ Refuse(r) PROVE Promise!Refuse(r)
  BY <1>5 DEF RunFail, Refuse, Return, Promise!Refuse, DataInv
<1>6. ASSUME NEW r \in Req,
             Arrive(r) \/ Begin(r) \/ Lock(r) \/ MemMiss(r) \/ GetConn(r) \/ RowMiss(r)
      PROVE  UNCHANGED <<ran, answer>>
  BY <1>6 DEF Arrive, Begin, Lock, MemMiss, GetConn, RowMiss, Goto
<1>7. ASSUME NEW r \in Req,
             \/ BlindMiss(r) \/ RunLost(r) \/ StoreFail(r)
             \/ Deadline(r) \/ LoseTx(r) \/ Age(r)
      PROVE  FALSE
  BY <1>7 DEF BlindMiss, RunLost, StoreFail, Deadline, LoseTx, Age
<1>8. ASSUME NEW i \in Inst, CleanMem(i) \/ CleanRows(i) \/ Crash(i)
      PROVE  UNCHANGED <<ran, answer>>
  BY <1>8 DEF CleanMem, CleanRows, Crash
<1>9. CASE UNCHANGED vars
  BY <1>9 DEF vars
<1>10. QED
  BY <1>1, <1>2, <1>3, <1>4, <1>5, <1>6, <1>7, <1>8, <1>9
  DEF Next, Step, Promise!Next

\* For any number of requests, keys, locks and instances, any pool and any
\* memory size: without faults, at most one request of a key is executed and
\* all of them are answered with its response or an honest error.
THEOREM ImplementsOncePerKey == ASSUME Faults = {} PROVE Spec => KeepsPromise
<1>1. Init => Promise!Init
  BY DEF Init, Promise!Init
<1>2. Init => Healthy
  BY DEF Init, Healthy
<1>3. TypeOK /\ DataInv /\ OnceInv /\ Healthy /\ [Next]_vars => Healthy'
  BY HealthyNext, ReqAssumption
<1>4. TypeOK /\ DataInv /\ OnceInv /\ Healthy /\ [Next]_vars
        => [Promise!Next]_<<ran, answer>>
  BY PromiseStep, ReqAssumption
<1>5. QED
  BY <1>1, <1>2, <1>3, <1>4, TypeCorrect, DataInvariant, OnceInvariant, PTL
  DEF Spec, KeepsPromise, Promise!Spec

=============================================================================
