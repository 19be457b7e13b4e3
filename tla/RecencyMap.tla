----------------------------- MODULE RecencyMap -----------------------------
(***************************************************************************)
(* What a least-recently-used cache promises, with no list and no index:   *)
(* a partial map, and the relation "was used more recently than" on its    *)
(* keys.  A new key that finds the map full displaces the one key that     *)
(* every other key is more recent than, and no other.                      *)
(***************************************************************************)
EXTENDS Naturals, FiniteSets, Functions

CONSTANTS Keys, Times, Capacity, None

VARIABLES stored,  \* the creation time of the value kept under a key
          newer,   \* <<a, b>>: both are kept and a was used after b
          seen     \* what the latest Get returned

rvars == <<stored, newer, seen>>

Init == /\ stored = [k \in {} |-> 0]
        /\ newer = {}
        /\ seen = None

Among(S) == {p \in newer : p[1] \in S /\ p[2] \in S}
Freshest(k, others) == Among(others) \union ({k} \X others)

Get(k) ==
  /\ seen' = IF k \in DOMAIN stored THEN stored[k] ELSE None
  /\ newer' = IF k \in DOMAIN stored
              THEN Freshest(k, DOMAIN stored \ {k})
              ELSE newer
  /\ UNCHANGED stored

\* Keeps the value of k, displacing the keys in gone.
Keep(k, t, gone) ==
  LET others == DOMAIN stored \ (gone \union {k})
  IN  /\ stored' = [x \in others \union {k} |-> IF x = k THEN t ELSE stored[x]]
      /\ newer' = Freshest(k, others)
      /\ UNCHANGED seen

Full == Cardinality(DOMAIN stored) >= Capacity
Oldest(k) == k \in DOMAIN stored /\ \A x \in DOMAIN stored \ {k} : <<x, k>> \in newer

Put(k, t) ==
  \/ (k \in DOMAIN stored \/ ~Full \/ stored = [x \in {} |-> 0]) /\ Keep(k, t, {})
  \/ /\ k \notin DOMAIN stored
     /\ Full
     /\ \E gone \in DOMAIN stored : Oldest(gone) /\ Keep(k, t, {gone})

Expire(before) ==
  LET young == {k \in DOMAIN stored : stored[k] >= before}
  IN  /\ stored' = Restrict(stored, young)
      /\ newer' = Among(young)
      /\ UNCHANGED seen

Next == \/ \E k \in Keys : Get(k)
        \/ \E k \in Keys, t \in Times : Put(k, t)
        \/ \E before \in Times : Expire(before)

Spec == Init /\ [][Next]_rvars

=============================================================================
