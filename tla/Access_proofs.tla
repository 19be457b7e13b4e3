----------------------------- MODULE Access_proofs -----------------------------
(***************************************************************************)
(* Proofs about Access for any users, clients and lifetimes.               *)
(***************************************************************************)
EXTENDS Access, TLAPS

LEMMA TypeNext ==
  ASSUME AccessAssumption, TypeOK, [Next]_vars
  PROVE  TypeOK'
<1> USE DEF AccessAssumption, TypeOK, Kind
<1>1. CASE Tick
  <2>1. life' = [s \in Slot |-> [k \in Kind |-> IF life[s][k] > 0 THEN life[s][k] - 1 ELSE 0]]
    BY <1>1 DEF Tick
  <2>2. ASSUME NEW s \in Slot, NEW k \in Kind
        PROVE  life'[s][k] \in 0..TTL[k]
    BY <2>1, <2>2
  <2>3. \A s \in Slot : DOMAIN life'[s] = Kind
    BY <2>1
  <2>4. /\ away' \in [User -> 0..MaxAway] /\ down' \in [User -> 0..MaxAway]
    BY <1>1 DEF Tick, Later
  <2>5. claims' \in [Slot -> BOOLEAN]
    BY <1>1 DEF Tick
  <2>6. QED BY <1>1, <2>1, <2>2, <2>3, <2>4, <2>5 DEF Tick
<1>2. ASSUME NEW s \in Slot, Login(s) PROVE TypeOK'
  BY <1>2 DEF Login, Found
<1>3. ASSUME NEW s \in Slot, Validate(s) PROVE TypeOK'
  BY <1>3 DEF Validate
<1>4. ASSUME NEW s \in Slot, ReadUser(s) PROVE TypeOK'
  BY <1>4 DEF ReadUser, Found
<1>5. ASSUME NEW s \in Slot, ReadGroups(s) PROVE TypeOK'
  BY <1>5 DEF ReadGroups
<1>6. ASSUME NEW s \in Slot, Refused(s) PROVE TypeOK'
  BY <1>6 DEF Refused, Done
<1>7. ASSUME NEW s \in Slot, Sign(s) PROVE TypeOK'
  <2>1. \A q \in Slot : life'[q] = IF q = s THEN TTL ELSE life[q]
    BY <1>7 DEF Sign
  <2>2. \A k \in Kind : TTL[k] \in 0..TTL[k]
    OBVIOUS
  <2>3. DOMAIN TTL = Kind /\ DOMAIN life' = Slot
    BY <1>7 DEF Sign
  <2>4. QED BY <1>7, <2>1, <2>2, <2>3 DEF Sign, Done
<1>8. ASSUME NEW u \in User, Delete(u) PROVE TypeOK'
  BY <1>8 DEF Delete, InFlight
<1>9. ASSUME NEW u \in User, Appoint(u) PROVE TypeOK'
  BY <1>9 DEF Appoint
<1>10. ASSUME NEW u \in User, Dismiss(u) PROVE TypeOK'
  BY <1>10 DEF Dismiss, InFlight
<1>11. CASE UNCHANGED vars
  BY <1>11 DEF vars
<1>12. QED
  BY <1>1, <1>2, <1>3, <1>4, <1>5, <1>6, <1>7, <1>8, <1>9, <1>10, <1>11 DEF Next, Request

LEMMA TypeInit == AccessAssumption /\ Init => TypeOK
BY DEF AccessAssumption, Init, TypeOK, Kind

\* The type invariant of the tokens holds in every reachable state.
THEOREM AccessTypes == Spec => []TypeOK
<1>1. TypeOK /\ [Next]_vars => TypeOK'
  BY TypeNext, AccessAssumption
<1>2. QED BY TypeInit, AccessAssumption, <1>1, PTL DEF Spec

-----------------------------------------------------------------------------
(* The invariant: the counters stand still while nothing is lost, what a   *)
(* request has read is true until something marks the request, and a pair  *)
(* is at least as old as the loss of what it claims.                       *)

LossInv ==
  /\ \A u \in live : away[u] = 0
  /\ \A u \in live \intersect admins : down[u] = 0
  /\ \A s \in Slot : gpc[s] \in {"found", "ready"} /\ s \notin hurry =>
       UserOf[s] \in live /\ (snap[s] => UserOf[s] \in admins)
  /\ DeletionBites
  /\ DismissalBites

\* The steps of a login or a refresh before it signs.
LEMMA RequestNext ==
  ASSUME AccessAssumption, TypeOK, LossInv, NEW s \in Slot,
         Login(s) \/ Validate(s) \/ ReadUser(s) \/ ReadGroups(s) \/ Refused(s)
  PROVE  LossInv'
<1> USE DEF AccessAssumption, TypeOK, LossInv, DeletionBites, DismissalBites, Opens, OpensAdmin
<1>1. CASE Login(s)
  BY <1>1 DEF Login, Found
<1>2. CASE Validate(s)
  BY <1>2 DEF Validate
<1>3. CASE ReadUser(s)
  BY <1>3 DEF ReadUser, Found
<1>4. CASE ReadGroups(s)
  BY <1>4 DEF ReadGroups
<1>5. CASE Refused(s)
  BY <1>5 DEF Refused, Done
<1>6. QED BY <1>1, <1>2, <1>3, <1>4, <1>5

\* What the passing of time does to one token and one counter.
LEMMA TickBound ==
  ASSUME NEW n \in Nat, NEW l \in Nat, NEW t \in Nat, t < MaxAway, MaxAway \in Nat,
         l > 1 => n + l <= t
  PROVE  l - 1 > 0 => Later(n) + (l - 1) <= t
BY DEF Later

LEMMA TickNext ==
  ASSUME AccessAssumption, TypeOK, LossInv, Tick
  PROVE  LossInv'
<1> USE DEF AccessAssumption, TypeOK
<1>1. ASSUME NEW s \in Slot, NEW k \in Kind
      PROVE  life'[s][k] = IF life[s][k] > 0 THEN life[s][k] - 1 ELSE 0
  BY <1>1 DEF Tick
<1>2. ASSUME NEW u \in User
      PROVE  /\ away'[u] = IF u \in live THEN 0 ELSE Later(away[u])
             /\ down'[u] = IF u \in live \intersect admins THEN 0 ELSE Later(down[u])
  BY <1>2 DEF Tick
<1>3. ASSUME NEW s \in Slot, NEW k \in Kind, Opens(s, k)', s \notin raced'
      PROVE  /\ Opens(s, k) /\ s \notin raced
             /\ life[s][k] \in Nat /\ life[s][k] > 1
             /\ life'[s][k] = life[s][k] - 1
  <2>1. life[s][k] \in Nat /\ life[s][k] > 1 /\ life'[s][k] = life[s][k] - 1
    BY <1>1, <1>3 DEF Opens
  <2>2. s \notin raced
    BY <1>3, <2>1 DEF Tick
  <2>3. QED BY <2>1, <2>2 DEF Opens
<1>4. DeletionBites'
  <2> SUFFICES ASSUME NEW s \in Slot, NEW k \in Kind, Opens(s, k)', s \notin raced'
               PROVE  away'[UserOf[s]] + life'[s][k] <= TTL[k]
    BY DEF DeletionBites, Kind
  <2>1. /\ away[UserOf[s]] + life[s][k] <= TTL[k]
        /\ away[UserOf[s]] \in Nat /\ TTL[k] \in Nat /\ TTL[k] < MaxAway
    BY <1>3 DEF LossInv, DeletionBites
  <2>2. Later(away[UserOf[s]]) + (life[s][k] - 1) <= TTL[k]
    BY <1>3, <2>1, TickBound
  <2>3. life[s][k] - 1 <= TTL[k] /\ Later(away[UserOf[s]]) \in Nat
    BY <1>3, <2>1 DEF Later
  <2>4. QED BY <1>2, <1>3, <2>2, <2>3
<1>5. DismissalBites'
  <2> SUFFICES ASSUME NEW s \in Slot, NEW k \in Kind, OpensAdmin(s, k)', s \notin raced'
               PROVE  down'[UserOf[s]] + life'[s][k] <= TTL[k]
    BY DEF DismissalBites, Kind
  <2>1. Opens(s, k)' /\ claims[s]
    BY DEF OpensAdmin, Tick
  <2>2. /\ down[UserOf[s]] + life[s][k] <= TTL[k]
        /\ down[UserOf[s]] \in Nat /\ TTL[k] \in Nat /\ TTL[k] < MaxAway
    BY <1>3, <2>1 DEF LossInv, DismissalBites, OpensAdmin
  <2>3. Later(down[UserOf[s]]) + (life[s][k] - 1) <= TTL[k]
    BY <1>3, <2>1, <2>2, TickBound
  <2>4. life[s][k] - 1 <= TTL[k] /\ Later(down[UserOf[s]]) \in Nat
    BY <1>3, <2>1, <2>2 DEF Later
  <2>5. QED BY <1>2, <1>3, <2>1, <2>3, <2>4
<1>6. QED BY <1>2, <1>4, <1>5 DEF LossInv, Tick

\* A pair is signed from what its request has read.
LEMMA SignNext ==
  ASSUME AccessAssumption, TypeOK, LossInv, NEW s \in Slot, Sign(s)
  PROVE  LossInv'
<1> USE DEF AccessAssumption, TypeOK
<1>1. ASSUME NEW q \in Slot
      PROVE  /\ life'[q] = IF q = s THEN TTL ELSE life[q]
             /\ claims'[q] = IF q = s THEN snap[s] ELSE claims[q]
             /\ gpc'[q] = IF q = s THEN "idle" ELSE gpc[q]
             /\ snap'[q] = IF q = s THEN FALSE ELSE snap[q]
             /\ q # s => (q \in raced' <=> q \in raced) /\ (q \in hurry' <=> q \in hurry)
  BY <1>1 DEF Sign, Done
<1>2. s \notin raced' => /\ UserOf[s] \in live /\ away[UserOf[s]] = 0
                         /\ snap[s] => down[UserOf[s]] = 0
  BY DEF Sign, LossInv
<1>3. \A k \in Kind : TTL[k] \in Nat /\ 0 + TTL[k] <= TTL[k]
  OBVIOUS
<1>4. DeletionBites'
  BY <1>1, <1>2, <1>3 DEF Sign, LossInv, DeletionBites, Opens, Kind
<1>5. DismissalBites'
  BY <1>1, <1>2, <1>3 DEF Sign, LossInv, DismissalBites, OpensAdmin, Opens, Kind
<1>6. QED BY <1>1, <1>4, <1>5 DEF Sign, LossInv

\* Losing and getting a role, and leaving.
LEMMA UserNext ==
  ASSUME AccessAssumption, TypeOK, LossInv, NEW u \in User,
         Delete(u) \/ Appoint(u) \/ Dismiss(u)
  PROVE  LossInv'
<1> USE DEF AccessAssumption, TypeOK, LossInv, DeletionBites, DismissalBites, Opens, OpensAdmin
<1>1. CASE Delete(u)
  BY <1>1 DEF Delete, InFlight
<1>2. CASE Appoint(u)
  <2>1. \A v \in User : down'[v] = IF v = u THEN 0 ELSE down[v]
    BY <1>2 DEF Appoint
  <2>2. ASSUME NEW s \in Slot, NEW k \in Kind
        PROVE  life[s][k] \in Nat /\ 0 + life[s][k] <= TTL[k]
    BY <2>2 DEF Kind
  <2>3. DismissalBites'
    BY <1>2, <2>1, <2>2 DEF Appoint, Kind
  <2>4. QED BY <1>2, <2>1, <2>3 DEF Appoint
<1>3. CASE Dismiss(u)
  BY <1>3 DEF Dismiss, InFlight
<1>4. QED BY <1>1, <1>2, <1>3

LEMMA LossHolds == Spec => []LossInv
<1>1. Init => LossInv
  BY AccessAssumption DEF Init, LossInv, DeletionBites, DismissalBites, Opens, OpensAdmin, AccessAssumption
<1>2. TypeOK /\ LossInv /\ [Next]_vars => LossInv'
  <2> SUFFICES ASSUME TypeOK, LossInv, [Next]_vars PROVE LossInv'
    OBVIOUS
  <2>1. CASE UNCHANGED vars
    BY <2>1 DEF vars, LossInv, DeletionBites, DismissalBites, Opens, OpensAdmin
  <2>2. QED
    BY <2>1, AccessAssumption, TickNext, RequestNext, SignNext, UserNext DEF Next, Request
<1>3. QED BY <1>1, <1>2, AccessTypes, PTL DEF Spec

\* Refreshing buys a deleted user no time: its tokens open nothing once their
\* lifetime has passed since the deletion.
THEOREM DeletionHolds == Spec => []DeletionBites
BY LossHolds, PTL DEF LossInv

\* The same for the routes of admins and users who are admins no more.
THEOREM DismissalHolds == Spec => []DismissalBites
BY LossHolds, PTL DEF LossInv

=============================================================================
