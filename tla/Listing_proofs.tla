---------------------------- MODULE Listing_proofs ----------------------------
(***************************************************************************)
(* Proofs about Listing for any finite set of users and any limits.        *)
(***************************************************************************)
EXTENDS Listing, FiniteSetTheorems, TLAPS

-----------------------------------------------------------------------------
(* What the steps do to the set of live users.                             *)

\* A set of users has a size.
LEMMA UserSets ==
  ASSUME LimitAssumption, NEW S \in SUBSET User
  PROVE  /\ IsFiniteSet(S)
         /\ Cardinality(S) \in Nat
         /\ Cardinality(S) <= Cardinality(User)
BY FS_Subset, FS_CardinalityType DEF LimitAssumption

\* Only Commit and Delete change who is there.
LEMMA LiveSteps ==
  ASSUME TypeOK
  PROVE  /\ \A u \in User : Insert(u) \/ Rollback(u) => Live' = Live
         /\ \A u \in User : Commit(u) => u \notin Live /\ Live' = Live \union {u}
         /\ \A u \in User : Delete(u) => u \in Live /\ Live' = Live \ {u}
BY DEF TypeOK, Insert, Rollback, Commit, Delete, Live

LEMMA LiveCommit ==
  ASSUME LimitAssumption, TypeOK, NEW u \in User, Commit(u)
  PROVE  Cardinality(Live') = Cardinality(Live) + 1
<1>1. IsFiniteSet(Live)
  BY UserSets DEF Live
<1>2. QED BY <1>1, LiveSteps, FS_AddElement

LEMMA LiveDelete ==
  ASSUME LimitAssumption, TypeOK, NEW u \in User, Delete(u)
  PROVE  Cardinality(Live') = Cardinality(Live) - 1
<1>1. IsFiniteSet(Live)
  BY UserSets DEF Live
<1>2. QED BY <1>1, LiveSteps, FS_RemoveElement

-----------------------------------------------------------------------------
(* Type correctness.                                                       *)

\* The controller refuses a limit or hands on one that is in range.
LEMMA LimitInRange ==
  ASSUME LimitAssumption, NEW asked \in 0..MaxLimit + 1, LimitOf(asked) # Refused
  PROVE  LimitOf(asked) \in 1..MaxLimit
BY DEF LimitAssumption, LimitOf

LEMMA TypeNext ==
  ASSUME LimitAssumption, TypeOK, [Next]_vars
  PROVE  TypeOK'
<1> USE DEF TypeOK
<1>1. ASSUME NEW u \in User, Insert(u) PROVE TypeOK'
  <2>1. Live' = Live
    BY <1>1, LiveSteps
  <2>2. QED BY <1>1, <2>1 DEF Insert, walk
<1>2. ASSUME NEW u \in User, Commit(u) PROVE TypeOK'
  <2>1. Live \subseteq Live'
    BY <1>2, LiveSteps
  <2>2. QED BY <1>2, <2>1 DEF Commit, walk, Bump
<1>3. ASSUME NEW u \in User, Rollback(u) PROVE TypeOK'
  <2>1. Live' = Live
    BY <1>3, LiveSteps
  <2>2. QED BY <1>3, <2>1 DEF Rollback, walk
<1>4. ASSUME NEW u \in User, Delete(u) PROVE TypeOK'
  <2>1. Live' = Live \ {u}
    BY <1>4, LiveSteps
  <2>2. QED BY <1>4, <2>1 DEF Delete, walk, Bump
<1>5. ASSUME NEW asked \in 0..MaxLimit + 1, Start(asked) PROVE TypeOK'
  <2>1. Live' = Live /\ limit' \in 1..MaxLimit
    BY <1>5, LimitInRange DEF Start, users, Live
  <2>2. QED BY <1>5, <2>1 DEF Start, users
<1>6. CASE Count
  <2>1. Live' = Live
    BY <1>6 DEF Count, users, Live
  <2>2. total' \in 0..Cardinality(User)
    BY <1>6, UserSets DEF Count, Counted, Live
  <2>3. QED BY <1>6, <2>1, <2>2 DEF Count, users
<1>7. CASE Select
  <2>1. Live' = Live
    BY <1>7 DEF Select, users, Live
  <2>2. PICK page \in SUBSET User : seen' = seen \union page /\ shown' = shown + Cardinality(page)
    BY <1>7 DEF Select, Pages, Live
  <2>3. /\ seen' \subseteq User /\ shown' \in Nat
        /\ offset' \in Nat /\ pc' \in {"done", "ask"}
    BY <1>7, <2>2, UserSets, LimitAssumption DEF Select, LimitAssumption
  <2>4. QED BY <1>7, <2>1, <2>3 DEF Select, users
<1>8. CASE UNCHANGED vars
  BY <1>8 DEF vars, Live
<1>9. QED
  BY <1>1, <1>2, <1>3, <1>4, <1>5, <1>6, <1>7, <1>8 DEF Next

-----------------------------------------------------------------------------
(* The invariant: between the two statements the number of users differs   *)
(* from the total by no more than have come and gone since the COUNT.      *)

DriftInv ==
  pc = "counted" => /\ Cardinality(Live) <= total + drift
                    /\ total <= Cardinality(Live) + drift

LEMMA DriftNext ==
  ASSUME LimitAssumption, TypeOK, DriftInv, [Next]_vars
  PROVE  DriftInv'
<1> DEFINE n == Cardinality(Live)
<1>1. n \in Nat /\ total \in Nat /\ drift \in Nat
  BY UserSets DEF TypeOK, Live
<1>2. ASSUME NEW u \in User, Insert(u) \/ Rollback(u) PROVE DriftInv'
  BY <1>2, LiveSteps DEF Insert, Rollback, walk, DriftInv
<1>3. ASSUME NEW u \in User, Commit(u) PROVE DriftInv'
  <2>1. Cardinality(Live') = n + 1
    BY <1>3, LiveCommit
  <2>2. pc' = pc /\ total' = total /\ (pc = "counted" => drift' = drift + 1)
    BY <1>3 DEF Commit, walk, Bump, Walking
  <2>3. QED BY <1>1, <2>1, <2>2 DEF DriftInv
<1>4. ASSUME NEW u \in User, Delete(u) PROVE DriftInv'
  <2>1. Cardinality(Live') = n - 1
    BY <1>4, LiveDelete
  <2>2. pc' = pc /\ total' = total /\ (pc = "counted" => drift' = drift + 1)
    BY <1>4 DEF Delete, walk, Bump, Walking
  <2>3. QED BY <1>1, <2>1, <2>2 DEF DriftInv
<1>5. ASSUME NEW asked \in 0..MaxLimit + 1, Start(asked) PROVE DriftInv'
  BY <1>5 DEF Start, DriftInv
<1>6. CASE Count
  <2>1. Live' = Live
    BY <1>6 DEF Count, users, Live
  <2>2. QED BY <1>1, <1>6, <2>1 DEF Count, Counted, DriftInv
<1>7. CASE Select
  BY <1>7 DEF Select, DriftInv
<1>8. CASE UNCHANGED vars
  BY <1>8 DEF vars, DriftInv, Live
<1>9. QED
  BY <1>2, <1>3, <1>4, <1>5, <1>6, <1>7, <1>8 DEF Next

-----------------------------------------------------------------------------
(* Where a user is in the list: its rank is the number of newer ones.  A   *)
(* walk has passed what it has not shown and whose rank is below the       *)
(* offset; what it has shown and is not below may come again.              *)

Newer(u) == {v \in Live : born[v] > born[u]}
Rank(u) == Cardinality(Newer(u))
Passed == {u \in stayed \ seen : Rank(u) < offset}
Beyond == {u \in Live \intersect seen : Rank(u) >= offset}

BornInv ==
  /\ now >= 1
  /\ \A u \in User : state[u] = "none" <=> born[u] = 0
  /\ \A u \in seen : state[u] \in {"live", "deleted"}
  /\ pc \in {"new", "refused"} => seen = {} /\ shown = 0 /\ offset = 0

\* No more users are passed than have gone, and those that may come again and
\* those that have are no more than have come.
WalkInv ==
  NoTies => /\ Walking => /\ Cardinality(Passed) <= went
                          /\ shown + Cardinality(Beyond) <= Cardinality(seen) + came
            /\ pc = "done" => /\ Cardinality(stayed \ seen) <= went
                              /\ shown <= Cardinality(seen) + came

LEMMA BornNext ==
  ASSUME LimitAssumption, TypeOK, BornInv, [Next]_vars
  PROVE  BornInv'
<1> USE DEF TypeOK, BornInv
<1>1. ASSUME NEW u \in User, Insert(u) PROVE BornInv'
  BY <1>1 DEF Insert, walk
<1>2. ASSUME NEW u \in User, Commit(u) \/ Rollback(u) \/ Delete(u) PROVE BornInv'
  BY <1>2 DEF Commit, Rollback, Delete, walk
<1>3. ASSUME NEW asked \in 0..MaxLimit + 1, Start(asked) PROVE BornInv'
  BY <1>3 DEF Start, users
<1>4. CASE Count
  BY <1>4 DEF Count, users
<1>5. CASE Select
  <2>1. PICK page \in SUBSET Live : seen' = seen \union page
    BY <1>5 DEF Select, Pages
  <2>2. QED BY <1>5, <2>1 DEF Select, users, Live
<1>6. CASE UNCHANGED vars
  BY <1>6 DEF vars
<1>7. QED
  BY <1>1, <1>2, <1>3, <1>4, <1>5, <1>6 DEF Next

\* Users without ties were without them before.
LEMMA TiesStay ==
  ASSUME TypeOK, BornInv, [Next]_vars, NoTies'
  PROVE  NoTies
<1>1. ASSUME NEW u \in User, Insert(u) PROVE NoTies
  BY <1>1 DEF Insert, NoTies, TypeOK, BornInv
<1>2. CASE UNCHANGED born
  BY <1>2 DEF NoTies
<1>3. QED
  BY <1>1, <1>2 DEF Next, vars, users, Commit, Rollback, Delete, Start, Count, Select

\* Ranks are numbers, and no two users have the same one.
LEMMA Ranks ==
  ASSUME LimitAssumption, TypeOK, NEW u \in Live
  PROVE  Newer(u) \in SUBSET User /\ IsFiniteSet(Newer(u)) /\ Rank(u) \in Nat
<1>1. Newer(u) \in SUBSET User
  BY DEF Newer, Live
<1>2. QED BY <1>1, UserSets DEF Rank

LEMMA OneOfRank ==
  ASSUME LimitAssumption, TypeOK, BornInv, NoTies,
         NEW u \in Live, NEW w \in Live, Rank(u) = Rank(w)
  PROVE  u = w
<1>1. ASSUME NEW x \in Live, NEW y \in Live, born[x] > born[y], Rank(x) = Rank(y)
      PROVE  FALSE
  <2>1. Newer(x) \union {x} \subseteq Newer(y) /\ x \notin Newer(x)
    BY <1>1 DEF Newer, Live, TypeOK
  <2>2. Cardinality(Newer(x) \union {x}) = Rank(x) + 1
    BY <2>1, Ranks, FS_AddElement DEF Rank
  <2>3. Rank(x) + 1 <= Rank(y)
    BY <2>1, <2>2, Ranks, FS_Subset DEF Rank
  <2>4. QED BY <1>1, <2>3, Ranks
<1>2. ASSUME u # w PROVE born[u] > born[w] \/ born[w] > born[u]
  BY <1>2 DEF NoTies, BornInv, TypeOK, Live
<1>3. QED BY <1>1, <1>2

\* One element more makes a set at most by one larger.
LEMMA OneMore ==
  ASSUME NEW S, IsFiniteSet(S), NEW R, NEW T, T \subseteq S \union R,
         \A x, y \in R : x = y
  PROVE  Cardinality(T) <= Cardinality(S) + 1
<1>0. Cardinality(S) \in Nat
  BY FS_CardinalityType
<1>1. CASE R = {}
  <2>1. Cardinality(T) <= Cardinality(S) /\ Cardinality(T) \in Nat
    BY <1>1, FS_Subset, FS_CardinalityType
  <2>2. QED BY <1>0, <2>1
<1>2. CASE R # {}
  <2>1. PICK x : R = {x}
    BY <1>2
  <2>2. IsFiniteSet(S \union {x}) /\ Cardinality(S \union {x}) <= Cardinality(S) + 1
    BY <1>0, FS_AddElement
  <2>3. /\ Cardinality(T) <= Cardinality(S \union {x})
        /\ Cardinality(T) \in Nat /\ Cardinality(S \union {x}) \in Nat
    BY <2>1, <2>2, FS_Subset, FS_CardinalityType
  <2>4. QED BY <1>0, <2>2, <2>3
<1>3. QED BY <1>1, <1>2

\* Where neither the users nor what was shown of them changes, nor do ranks.
LEMMA WalkSame ==
  ASSUME TypeOK, Live' = Live, \A v \in Live : born'[v] = born[v],
         UNCHANGED <<seen, shown, offset, stayed>>
  PROVE  Passed' = Passed /\ Beyond' = Beyond
<1>1. \A u \in Live : Newer(u)' = Newer(u)
  BY DEF Newer
<1>2. \A u \in Live : Rank(u)' = Rank(u)
  BY <1>1 DEF Rank
<1>3. QED BY <1>2 DEF Passed, Beyond, TypeOK

\* An arrival raises ranks by at most one: one shown user may come again.
LEMMA CommitWalk ==
  ASSUME LimitAssumption, TypeOK, BornInv, NoTies, NEW x \in User, Commit(x)
  PROVE  /\ Cardinality(Passed') <= Cardinality(Passed)
         /\ Cardinality(Beyond') <= Cardinality(Beyond) + 1
<1>1. x \notin Live /\ Live' = Live \union {x} /\ x \notin seen
  BY LiveSteps DEF Commit, BornInv
<1>2. UNCHANGED <<born, seen, offset, stayed>> /\ stayed \subseteq Live
  BY DEF Commit, walk, TypeOK
<1>3. ASSUME NEW u \in Live
      PROVE  Rank(u) <= Rank(u)' /\ Rank(u)' <= Rank(u) + 1 /\ Rank(u)' \in Nat
  <2>1. Newer(u) \subseteq Newer(u)' /\ Newer(u)' \subseteq Newer(u) \union {x}
    BY <1>1, <1>2 DEF Newer
  <2>2. IsFiniteSet(Newer(u)) /\ IsFiniteSet(Newer(u)') /\ Newer(u)' \in SUBSET User
    BY <2>1, Ranks, UserSets
  <2>3. Cardinality(Newer(u)) <= Cardinality(Newer(u)')
    BY <2>1, <2>2, FS_Subset
  <2>4. Cardinality(Newer(u)') <= Cardinality(Newer(u)) + 1
    BY <2>1, <2>2, OneMore
  <2>5. QED BY <2>2, <2>3, <2>4, UserSets DEF Rank
<1>4. Passed' \subseteq Passed
  BY <1>1, <1>2, <1>3, Ranks DEF Passed, TypeOK
<1>5. IsFiniteSet(Passed) /\ IsFiniteSet(Beyond)
  BY UserSets DEF Passed, Beyond, TypeOK, Live
<1>6. Cardinality(Passed') <= Cardinality(Passed)
  BY <1>4, <1>5, FS_Subset
<1> DEFINE R == {u \in Live : Rank(u) = offset - 1}
<1>7. Beyond' \subseteq Beyond \union R
  <2>1. ASSUME NEW u \in Beyond' PROVE u \in Beyond \union R
    <3>1. u \in Live /\ u \in seen /\ Rank(u)' >= offset
      BY <1>1, <1>2, <2>1 DEF Beyond
    <3>2. Rank(u) + 1 >= offset /\ Rank(u) \in Nat /\ offset \in Nat
      BY <1>3, <3>1, Ranks DEF TypeOK
    <3>3. QED BY <3>1, <3>2 DEF Beyond
  <2>2. QED BY <2>1
<1>8. \A u, w \in R : u = w
  BY OneOfRank
<1> HIDE DEF R
<1>9. Cardinality(Beyond') <= Cardinality(Beyond) + 1
  BY <1>5, <1>7, <1>8, OneMore
<1>10. QED BY <1>6, <1>9

\* A deletion lowers ranks by at most one: one user more may be passed.
LEMMA DeleteWalk ==
  ASSUME LimitAssumption, TypeOK, BornInv, NoTies, NEW x \in User, Delete(x)
  PROVE  /\ Cardinality(Passed') <= Cardinality(Passed) + 1
         /\ Cardinality(Beyond') <= Cardinality(Beyond)
<1>1. x \in Live /\ Live' = Live \ {x} /\ stayed' = stayed \ {x}
  BY LiveSteps DEF Delete
<1>2. UNCHANGED <<born, seen, offset>> /\ stayed \subseteq Live
  BY DEF Delete, walk, TypeOK
<1>3. ASSUME NEW u \in Live
      PROVE  Rank(u)' <= Rank(u) /\ Rank(u) <= Rank(u)' + 1 /\ Rank(u)' \in Nat
  <2>1. Newer(u)' \subseteq Newer(u) /\ Newer(u) \subseteq Newer(u)' \union {x}
    BY <1>1, <1>2 DEF Newer
  <2>2. IsFiniteSet(Newer(u)) /\ IsFiniteSet(Newer(u)') /\ Newer(u)' \in SUBSET User
    BY <2>1, Ranks, UserSets
  <2>3. Cardinality(Newer(u)') <= Cardinality(Newer(u))
    BY <2>1, <2>2, FS_Subset
  <2>4. Cardinality(Newer(u)) <= Cardinality(Newer(u)') + 1
    BY <2>1, <2>2, OneMore
  <2>5. QED BY <2>2, <2>3, <2>4, UserSets DEF Rank
<1>4. Beyond' \subseteq Beyond
  <2>1. ASSUME NEW u \in Beyond' PROVE u \in Beyond
    <3>1. u \in Live /\ u \in seen /\ Rank(u)' >= offset
      BY <1>1, <1>2, <2>1 DEF Beyond
    <3>2. Rank(u) >= offset
      BY <1>3, <3>1, Ranks DEF TypeOK
    <3>3. QED BY <3>1, <3>2 DEF Beyond
  <2>2. QED BY <2>1
<1>5. IsFiniteSet(Passed) /\ IsFiniteSet(Beyond)
  BY UserSets DEF Passed, Beyond, TypeOK, Live
<1>6. Cardinality(Beyond') <= Cardinality(Beyond)
  BY <1>4, <1>5, FS_Subset
<1> DEFINE R == {u \in Live : Rank(u) = offset}
<1>7. Passed' \subseteq Passed \union R
  <2>1. ASSUME NEW u \in Passed' PROVE u \in Passed \union R
    <3>1. u \in Live /\ u \in stayed \ seen /\ Rank(u)' < offset
      BY <1>1, <1>2, <2>1 DEF Passed
    <3>2. Rank(u) < offset + 1 /\ Rank(u) \in Nat /\ offset \in Nat
      BY <1>3, <3>1, Ranks DEF TypeOK
    <3>3. QED BY <3>1, <3>2 DEF Passed
  <2>2. QED BY <2>1
<1>8. \A u, w \in R : u = w
  BY OneOfRank
<1> HIDE DEF R
<1>9. Cardinality(Passed') <= Cardinality(Passed) + 1
  BY <1>5, <1>7, <1>8, OneMore
<1>10. QED BY <1>6, <1>9

\* The first users of the list are those of the lowest ranks.
LEMMA PrefixRanks ==
  ASSUME LimitAssumption, TypeOK, BornInv, NoTies,
         NEW A \in SUBSET Live, NewerOrSame(A, Live \ A), NEW u \in Live
  PROVE  u \in A <=> Rank(u) < Cardinality(A)
<1>1. IsFiniteSet(A) /\ Cardinality(A) \in Nat /\ Rank(u) \in Nat
  BY UserSets, Ranks DEF Live
<1>2. CASE u \in A
  <2>1. Newer(u) \subseteq A \ {u}
    BY <1>2 DEF Newer, NewerOrSame, TypeOK, Live
  <2>2. IsFiniteSet(A \ {u}) /\ Cardinality(A \ {u}) = Cardinality(A) - 1
    BY <1>1, <1>2, FS_RemoveElement
  <2>3. Rank(u) <= Cardinality(A) - 1
    BY <2>1, <2>2, FS_Subset DEF Rank
  <2>4. QED BY <1>1, <1>2, <2>3
<1>3. CASE u \notin A
  <2>1. A \subseteq Newer(u)
    <3>1. ASSUME NEW a \in A PROVE a \in Newer(u)
      <4>1. a \in Live /\ a # u /\ born[a] >= born[u] /\ born[a] # 0
        BY <1>3 DEF NewerOrSame, BornInv, Live
      <4>2. born[a] # born[u] /\ born[a] \in Nat /\ born[u] \in Nat
        BY <4>1 DEF NoTies, TypeOK, Live
      <4>3. QED BY <4>1, <4>2 DEF Newer
    <3>2. QED BY <3>1
  <2>2. Cardinality(A) <= Rank(u)
    BY <2>1, Ranks, FS_Subset DEF Rank
  <2>3. QED BY <1>1, <1>3, <2>2
<1>4. QED BY <1>2, <1>3

\* What a page shows has no rank below the offset; what it leaves unseen below
\* the next offset, or in the whole list when it is short, was passed before.
LEMMA SelectWalk ==
  ASSUME LimitAssumption, TypeOK, BornInv, NoTies, Select,
         shown + Cardinality(Beyond) <= Cardinality(seen) + came
  PROVE  /\ pc' = "ask" => /\ Cardinality(Passed') <= Cardinality(Passed)
                           /\ shown' + Cardinality(Beyond') <= Cardinality(seen') + came
         /\ pc' = "done" => /\ Cardinality((stayed \ seen)') <= Cardinality(Passed)
                            /\ shown' <= Cardinality(seen') + came
<1> DEFINE n == Cardinality(Live)
<1>1. PICK P \in Pages(limit, offset) :
        /\ seen' = seen \union P
        /\ shown' = shown + Cardinality(P)
        /\ \/ Cardinality(P) < limit /\ pc' = "done" /\ UNCHANGED offset
           \/ Cardinality(P) >= limit /\ pc' = "ask" /\ offset' = offset + limit
  BY DEF Select
<1>2. PICK B \in SUBSET (Live \ P) :
        /\ Cardinality(B) = Smaller(offset, n)
        /\ Cardinality(P) = Smaller(limit, Cardinality(Live \ B))
        /\ NewerOrSame(B, Live \ B)
        /\ NewerOrSame(P, Live \ (B \union P))
  BY DEF Pages
<1> DEFINE Q == B \union P
           b == Cardinality(B)
           p == Cardinality(P)
           q == Cardinality(Q)
           Again == seen \intersect P
<1>3. P \subseteq Live /\ B \subseteq Live /\ Q \subseteq Live /\ B \intersect P = {}
  BY <1>2 DEF Pages
<1>4. /\ IsFiniteSet(Live) /\ IsFiniteSet(B) /\ IsFiniteSet(P) /\ IsFiniteSet(Q)
      /\ n \in Nat /\ b \in Nat /\ p \in Nat
      /\ limit \in Nat /\ limit >= 1 /\ offset \in Nat /\ shown \in Nat /\ came \in Nat
  BY <1>3, UserSets DEF Live, TypeOK, LimitAssumption
<1>5. q = b + p
  <2>1. Cardinality(B \intersect P) = 0
    BY <1>3, FS_EmptySet
  <2>2. q = b + p - Cardinality(B \intersect P)
    BY <1>4, FS_Union
  <2>3. QED BY <1>4, <2>1, <2>2
<1>6. p = Smaller(limit, n - b) /\ b = Smaller(offset, n)
  <2>1. Live \intersect B = B
    BY <1>3
  <2>2. Cardinality(Live \ B) = n - b
    BY <1>4, <2>1, FS_Difference
  <2>3. QED BY <1>2, <2>2
<1>7. NewerOrSame(Q, Live \ Q)
  BY <1>2, <1>3 DEF NewerOrSame
<1>8. \A u \in Live : (u \in B <=> Rank(u) < b) /\ (u \in Q <=> Rank(u) < q) /\ Rank(u) \in Nat
  BY <1>2, <1>3, <1>7, PrefixRanks, Ranks
<1>9. Live' = Live /\ born' = born /\ stayed' = stayed /\ stayed \subseteq Live
  BY DEF Select, users, Live, TypeOK
<1>10. \A u \in Live : Rank(u)' = Rank(u)
  BY <1>9 DEF Rank, Newer
<1>11. Again \subseteq Beyond
  <2>1. ASSUME NEW u \in Again PROVE u \in Beyond
    <3>1. u \in Live /\ u \in seen /\ u \in P /\ u \notin B
      BY <1>3
    <3>2. p # 0
      BY <1>4, <3>1, FS_EmptySet
    <3>3. b = offset
      BY <1>4, <1>6, <3>2 DEF Smaller
    <3>4. Rank(u) >= offset
      BY <1>4, <1>8, <3>1, <3>3
    <3>5. QED BY <3>1, <3>4 DEF Beyond
  <2>2. QED BY <2>1
<1>12. /\ IsFiniteSet(seen) /\ IsFiniteSet(Beyond) /\ IsFiniteSet(Passed) /\ IsFiniteSet(Again)
       /\ Cardinality(seen) \in Nat /\ Cardinality(Beyond) \in Nat /\ Cardinality(Again) \in Nat
  BY UserSets DEF TypeOK, Beyond, Passed, Live
<1>13. Cardinality(seen') = Cardinality(seen) + p - Cardinality(Again)
  BY <1>1, <1>4, <1>12, FS_Union
<1>14. Cardinality(Beyond \ Again) = Cardinality(Beyond) - Cardinality(Again)
  <2>1. Beyond \intersect Again = Again
    BY <1>11
  <2>2. IsFiniteSet(Beyond)
    BY <1>12
  <2> HIDE DEF Again
  <2>3. QED BY <2>1, <2>2, FS_Difference
<1>15. IsFiniteSet(Beyond \ Again) /\ Cardinality(Beyond \ Again) \in Nat
  BY <1>12, FS_Subset, FS_CardinalityType
<1>16. CASE pc' = "ask"
  <2>1. offset' = offset + limit /\ p = limit
    BY <1>1, <1>4, <1>6, <1>16 DEF Smaller
  <2>2. b = offset /\ q = offset'
    BY <1>4, <1>5, <1>6, <2>1 DEF Smaller
  <2>3. Passed' \subseteq Passed
    <3>1. ASSUME NEW u \in Passed' PROVE u \in Passed
      <4>1. u \in Live /\ u \in stayed /\ u \notin seen /\ u \notin P /\ Rank(u) < q
        BY <1>1, <1>9, <1>10, <2>2, <3>1 DEF Passed
      <4>2. u \in B
        BY <1>8, <4>1
      <4>3. Rank(u) < offset
        BY <1>8, <2>2, <4>1, <4>2
      <4>4. QED BY <4>1, <4>3 DEF Passed
    <3>2. QED BY <3>1
  <2>4. Beyond' \subseteq Beyond \ Again
    <3>1. ASSUME NEW u \in Beyond' PROVE u \in Beyond \ Again
      <4>1. u \in Live /\ u \in seen \union P /\ Rank(u) >= q
        BY <1>1, <1>9, <1>10, <2>2, <3>1 DEF Beyond
      <4>2. u \notin Q
        <5>1. q \in Nat /\ Rank(u) \in Nat /\ (u \in Q <=> Rank(u) < q)
          BY <1>4, <1>5, <1>8, <4>1
        <5> HIDE DEF q, Q
        <5>2. QED BY <4>1, <5>1
      <4>3. Rank(u) >= offset
        BY <1>4, <1>8, <2>2, <4>1, <4>2
      <4>4. QED BY <4>1, <4>2, <4>3 DEF Beyond
    <3>2. QED BY <3>1
  <2>5. Cardinality(Passed') <= Cardinality(Passed)
    BY <1>12, <2>3, FS_Subset
  <2>6. Cardinality(Beyond') <= Cardinality(Beyond \ Again) /\ Cardinality(Beyond') \in Nat
    BY <1>15, <2>4, FS_Subset, FS_CardinalityType
  <2> HIDE DEF n, b, p, q, Again
  <2>7. shown' + Cardinality(Beyond') <= Cardinality(seen') + came
    BY <1>1, <1>4, <1>12, <1>13, <1>14, <2>6 DEF p
  <2>8. QED BY <1>16, <2>5, <2>7
<1>17. CASE pc' = "done"
  <2>1. q = n
    BY <1>1, <1>4, <1>5, <1>6, <1>17 DEF Smaller
  <2>2. Q = Live
    BY <1>3, <1>4, <2>1, FS_Subset
  <2>3. (stayed \ seen)' \subseteq Passed
    <3>1. ASSUME NEW u \in (stayed \ seen)' PROVE u \in Passed
      <4>1. u \in stayed \ seen /\ u \in Live /\ u \in B
        BY <1>1, <1>9, <2>2, <3>1
      <4>2. Rank(u) < offset
        BY <1>4, <1>6, <1>8, <4>1 DEF Smaller
      <4>3. QED BY <4>1, <4>2 DEF Passed
    <3>2. QED BY <3>1
  <2>4. Cardinality((stayed \ seen)') <= Cardinality(Passed)
    BY <1>12, <2>3, FS_Subset
  <2>5. Cardinality(Again) <= Cardinality(Beyond)
    BY <1>11, <1>12, FS_Subset
  <2> HIDE DEF n, b, p, q, Again
  <2>6. shown' <= Cardinality(seen') + came
    BY <1>1, <1>4, <1>12, <1>13, <2>5 DEF p
  <2>7. QED BY <1>17, <2>4, <2>6
<1>18. QED BY <1>1, <1>16, <1>17

LEMMA WalkNext ==
  ASSUME LimitAssumption, TypeOK, BornInv, WalkInv, [Next]_vars
  PROVE  WalkInv'
<1> SUFFICES ASSUME NoTies' PROVE WalkInv'
  BY DEF WalkInv
<1>1. NoTies
  BY TiesStay
<1>2. /\ IsFiniteSet(Passed) /\ IsFiniteSet(Beyond) /\ IsFiniteSet(stayed \ seen)
      /\ Cardinality(Passed) \in Nat /\ Cardinality(Beyond) \in Nat
      /\ Cardinality(seen) \in Nat /\ Cardinality(stayed \ seen) \in Nat
      /\ shown \in Nat /\ came \in Nat /\ went \in Nat
  BY UserSets DEF TypeOK, Beyond, Passed, Live
<1>3. ASSUME NEW u \in User, Insert(u) \/ Rollback(u) PROVE WalkInv'
  <2>1. Live' = Live /\ UNCHANGED <<pc, seen, shown, offset, stayed, came, went>>
    BY <1>3, LiveSteps DEF Insert, Rollback, walk
  <2>2. \A v \in Live : born'[v] = born[v]
    BY <1>3 DEF Insert, Rollback, Live, TypeOK
  <2>3. Passed' = Passed /\ Beyond' = Beyond
    BY <2>1, <2>2, WalkSame
  <2>4. QED BY <1>1, <2>1, <2>3 DEF WalkInv, Walking
<1>4. ASSUME NEW u \in User, Commit(u) PROVE WalkInv'
  <2>1. /\ UNCHANGED <<pc, seen, shown, offset, stayed, went>>
        /\ came' = IF Walking THEN came + 1 ELSE came
    BY <1>4 DEF Commit, walk, Bump
  <2>2. /\ Cardinality(Passed') <= Cardinality(Passed)
        /\ Cardinality(Beyond') <= Cardinality(Beyond) + 1
    BY <1>1, <1>4, CommitWalk
  <2>3. /\ Passed' \in SUBSET User /\ Beyond' \in SUBSET User
        /\ Cardinality(Passed') \in Nat /\ Cardinality(Beyond') \in Nat
    <3>1. TypeOK'
      BY TypeNext
    <3>2. Passed' \in SUBSET User /\ Beyond' \in SUBSET User
      BY <3>1 DEF TypeOK, Passed, Beyond, Live
    <3>3. QED BY <3>2, UserSets
  <2>4. CASE Walking
    BY <1>1, <1>2, <2>1, <2>2, <2>3, <2>4 DEF WalkInv, Walking
  <2>5. CASE ~Walking
    BY <1>1, <2>1, <2>5 DEF WalkInv, Walking
  <2>6. QED BY <2>4, <2>5
<1>5. ASSUME NEW u \in User, Delete(u) PROVE WalkInv'
  <2>1. /\ UNCHANGED <<pc, seen, shown, offset, came>>
        /\ stayed' = stayed \ {u}
        /\ went' = IF Walking THEN went + 1 ELSE went
    BY <1>5 DEF Delete, walk, Bump
  <2>2. /\ Cardinality(Passed') <= Cardinality(Passed) + 1
        /\ Cardinality(Beyond') <= Cardinality(Beyond)
    BY <1>1, <1>5, DeleteWalk
  <2>3. /\ Passed' \in SUBSET User /\ Beyond' \in SUBSET User
        /\ Cardinality(Passed') \in Nat /\ Cardinality(Beyond') \in Nat
    <3>1. TypeOK'
      BY TypeNext
    <3>2. Passed' \in SUBSET User /\ Beyond' \in SUBSET User
      BY <3>1 DEF TypeOK, Passed, Beyond, Live
    <3>3. QED BY <3>2, UserSets
  <2>4. CASE Walking
    BY <1>1, <1>2, <2>1, <2>2, <2>3, <2>4 DEF WalkInv, Walking
  <2>5. CASE ~Walking
    <3>1. (stayed \ seen)' \subseteq stayed \ seen
      BY <2>1
    <3>2. /\ Cardinality((stayed \ seen)') <= Cardinality(stayed \ seen)
          /\ Cardinality((stayed \ seen)') \in Nat
      BY <1>2, <3>1, FS_Subset, FS_CardinalityType
    <3>3. QED BY <1>1, <1>2, <2>1, <2>5, <3>2 DEF WalkInv, Walking
  <2>6. QED BY <2>4, <2>5
<1>6. ASSUME NEW asked \in 0..MaxLimit + 1, Start(asked) PROVE WalkInv'
  <2>1. /\ pc' \in {"refused", "ask"} /\ seen' = {} /\ shown' = 0 /\ offset' = 0
        /\ came' \in Nat /\ went' \in Nat
    BY <1>2, <1>6 DEF Start, BornInv
  <2>2. TypeOK'
    BY TypeNext
  <2>3. Passed' = {} /\ Beyond' = {}
    <3>1. Beyond' = {}
      BY <2>1 DEF Beyond
    <3>2. \A u \in Live' : Rank(u)' \in Nat
      <4>1. \A u \in Live' : Newer(u)' \in SUBSET User
        BY <2>2 DEF Newer, Live
      <4>2. QED BY <4>1, UserSets DEF Rank
    <3>3. Passed' = {}
      BY <2>1, <2>2, <3>2 DEF Passed, TypeOK
    <3>4. QED BY <3>1, <3>3
  <2>4. Cardinality({}) = 0
    BY FS_EmptySet
  <2>5. QED BY <2>1, <2>3, <2>4 DEF WalkInv, Walking
<1>7. CASE Count
  <2>1. /\ UNCHANGED <<seen, shown, offset, stayed, came, went, born>> /\ Live' = Live
        /\ Walking /\ Walking' /\ pc' = "counted"
    BY <1>7 DEF Count, users, Live, Walking
  <2>2. Passed' = Passed /\ Beyond' = Beyond
    BY <2>1, WalkSame
  <2>3. QED BY <1>1, <2>1, <2>2 DEF WalkInv
<1>8. CASE Select
  <2>1. pc = "counted" /\ pc' \in {"ask", "done"} /\ UNCHANGED <<came, went>>
    BY <1>8 DEF Select
  <2>2. Cardinality(Passed) <= went /\ shown + Cardinality(Beyond) <= Cardinality(seen) + came
    BY <1>1, <2>1 DEF WalkInv, Walking
  <2>3. TypeOK'
    BY TypeNext
  <2>4. /\ Passed' \in SUBSET User /\ (stayed \ seen)' \in SUBSET User
        /\ Cardinality(Passed') \in Nat /\ Cardinality((stayed \ seen)') \in Nat
    <3>1. Passed' \in SUBSET User /\ (stayed \ seen)' \in SUBSET User
      BY <2>3 DEF TypeOK, Passed, Live
    <3>2. QED BY <3>1, UserSets
  <2>5. CASE pc' = "ask"
    <3>1. /\ Cardinality(Passed') <= Cardinality(Passed)
          /\ shown' + Cardinality(Beyond') <= Cardinality(seen') + came
      BY <1>1, <1>8, <2>2, <2>5, SelectWalk
    <3>2. QED BY <1>2, <2>1, <2>2, <2>4, <2>5, <3>1 DEF WalkInv, Walking
  <2>6. CASE pc' = "done"
    <3>1. /\ Cardinality((stayed \ seen)') <= Cardinality(Passed)
          /\ shown' <= Cardinality(seen') + came
      BY <1>1, <1>8, <2>2, <2>6, SelectWalk
    <3>2. QED BY <1>2, <2>1, <2>2, <2>4, <2>6, <3>1 DEF WalkInv, Walking
  <2>7. QED BY <2>1, <2>5, <2>6
<1>9. CASE UNCHANGED vars
  <2>1. UNCHANGED <<pc, seen, shown, offset, stayed, came, went, born, state>> /\ Live' = Live
    BY <1>9 DEF vars, Live
  <2>2. Passed' = Passed /\ Beyond' = Beyond
    BY <2>1, WalkSame
  <2>3. QED BY <1>1, <2>1, <2>2 DEF WalkInv, Walking
<1>10. QED
  BY <1>3, <1>4, <1>5, <1>6, <1>7, <1>8, <1>9 DEF Next

ListInv == TypeOK /\ DriftInv /\ BornInv /\ WalkInv

LEMMA ListHolds == Spec => []ListInv
<1>1. Init => ListInv
  <2>1. Cardinality(User) \in Nat
    BY LimitAssumption, UserSets
  <2>2. ASSUME Init PROVE TypeOK /\ DriftInv /\ BornInv /\ WalkInv
    BY <2>1, <2>2, LimitAssumption
    DEF LimitAssumption, Init, TypeOK, DriftInv, BornInv, WalkInv, Walking
  <2>3. QED BY <2>2 DEF ListInv
<1>2. ListInv /\ [Next]_vars => ListInv'
  BY TypeNext, DriftNext, BornNext, WalkNext, LimitAssumption DEF ListInv
<1>3. QED BY <1>1, <1>2, PTL DEF Spec

-----------------------------------------------------------------------------
(* The size of a page.                                                     *)

\* What the offset skips and the limit cuts off leaves so many users.
LEMMA PageSize ==
  ASSUME LimitAssumption, TypeOK, NEW page \in Pages(limit, offset)
  PROVE  Cardinality(page)
           = Smaller(limit, Cardinality(Live) - Smaller(offset, Cardinality(Live)))
<1>1. PICK B \in SUBSET (Live \ page) :
        /\ Cardinality(B) = Smaller(offset, Cardinality(Live))
        /\ Cardinality(page) = Smaller(limit, Cardinality(Live \ B))
  BY DEF Pages
<1>2. B \subseteq Live /\ IsFiniteSet(Live) /\ IsFiniteSet(B)
  BY <1>1, UserSets DEF Live
<1>3. Cardinality(Live \ B) = Cardinality(Live) - Cardinality(B)
  <2>1. Live \intersect B = B
    BY <1>2
  <2>2. QED BY <1>2, <2>1, FS_Difference
<1>4. QED BY <1>1, <1>3

LEMMA PageShown ==
  ASSUME LimitAssumption, TypeOK, Select
  PROVE  \E page \in Pages(limit, offset) : shown' - shown = Cardinality(page)
<1>1. PICK page \in Pages(limit, offset) : shown' = shown + Cardinality(page)
  BY DEF Select
<1>2. page \in SUBSET User
  BY DEF Pages, Live
<1>3. Cardinality(page) \in Nat
  BY <1>2, UserSets
<1>4. shown' - shown = Cardinality(page)
  BY <1>1, <1>3 DEF TypeOK
<1>5. QED BY <1>4

LEMMA SelectFits ==
  ASSUME LimitAssumption, TypeOK, DriftInv, Select
  PROVE  /\ shown' - shown <= Expected + drift
         /\ Expected <= shown' - shown + drift
<1> DEFINE n == Cardinality(Live)
<1>1. n \in Nat /\ total \in Nat /\ drift \in Nat /\ offset \in Nat /\ limit \in Nat
  BY UserSets DEF TypeOK, Live, LimitAssumption
<1>2. n <= total + drift /\ total <= n + drift
  BY DEF Select, DriftInv
<1>3. shown' - shown = Smaller(limit, n - Smaller(offset, n))
  BY PageShown, PageSize
<1> HIDE DEF n
<1>4. QED BY <1>1, <1>2, <1>3 DEF Smaller, Expected

-----------------------------------------------------------------------------
\* The type invariant of the listing holds in every reachable state: the limit
\* stays in its range, and the total counts no more users than there are.
THEOREM ListingTypes == Spec => []TypeOK
<1>1. ListInv => TypeOK
  BY DEF ListInv
<1>2. QED BY <1>1, ListHolds, PTL

\* A walk through the list, with any limit and any number of users, misses no
\* more users that stayed than were deleted meanwhile.
THEOREM MissesAreFew == Spec => []MissesAreDeletions
<1>1. ListInv => MissesAreDeletions
  BY DEF ListInv, WalkInv, MissesAreDeletions
<1>2. QED BY <1>1, ListHolds, PTL

\* It shows no more users again than came meanwhile.
THEOREM RepeatsAreFew == Spec => []RepeatsAreArrivals
<1>1. ASSUME ListInv, NoTies PROVE shown - Cardinality(seen) <= came
  <2>1. /\ Cardinality(seen) \in Nat /\ Cardinality(Beyond) \in Nat
        /\ shown \in Nat /\ came \in Nat
    BY <1>1, UserSets, LimitAssumption DEF ListInv, TypeOK, Beyond, Live
  <2>2. CASE Walking
    BY <1>1, <2>1, <2>2 DEF ListInv, WalkInv
  <2>3. CASE pc = "done"
    BY <1>1, <2>1, <2>3 DEF ListInv, WalkInv
  <2>4. CASE pc \in {"new", "refused"}
    BY <1>1, <2>1, <2>4 DEF ListInv, BornInv
  <2>5. QED BY <1>1, <2>2, <2>3, <2>4 DEF ListInv, TypeOK, Walking
<1>2. ListInv => RepeatsAreArrivals
  BY <1>1 DEF RepeatsAreArrivals
<1>3. QED BY <1>2, ListHolds, PTL

\* Page and total of one answer differ by no more than came and went between.
THEOREM PagesFit == Spec => PageFitsTotal
<1>1. ASSUME ListInv, [Next]_vars
      PROVE  [Select => /\ shown' - shown <= Expected + drift
                        /\ Expected <= shown' - shown + drift]_vars
  BY <1>1, SelectFits, LimitAssumption DEF ListInv
<1>2. QED BY <1>1, ListHolds, PTL DEF Spec, PageFitsTotal

=============================================================================
