-------------------------------- MODULE Listing --------------------------------
(***************************************************************************)
(* The list of users, page by page, beside the users that come and go.     *)
(* Each page is a request of its own and takes two statements with         *)
(* snapshots of their own: a COUNT, and the rows ORDER BY created_at DESC  *)
(* from an offset on.  created_at is read from the clock of the server     *)
(* before the INSERT, so users may appear in another order than theirs,    *)
(* and two may have the same.                                              *)
(*                                                                         *)
(* The client, which is not in the repository, asks for the next offset    *)
(* until a page is shorter than the limit that the answer names.           *)
(***************************************************************************)
EXTENDS Integers, FiniteSets

CONSTANTS
  User,         \* rows of the table users, once inserted
  DefaultLimit, \* 10 in the code
  MaxLimit,     \* 100 in the code
  Refused

ASSUME LimitAssumption ==
  /\ IsFiniteSet(User)
  /\ MaxLimit \in Nat
  /\ DefaultLimit \in 1..MaxLimit
  /\ Refused \notin Nat

VARIABLES
  state,  \* User -> where it is between its INSERT and its deletion
  born,   \* User -> created_at
  now,
  pc,     \* where the client's walk is
  limit, offset,
  total,  \* the answer to the COUNT
  seen,   \* users that a page has shown
  shown,  \* rows of all the pages together
  stayed, \* history: users that have been there since the walk began
  came, went, \* history: users that appeared and were deleted during the walk
  drift   \* history: the same since the last COUNT, together

vars == <<state, born, now, pc, limit, offset, total, seen, shown, stayed, came, went, drift>>
users == <<state, born, now>>
walk == <<pc, limit, offset, total, seen, shown>>

Live == {u \in User : state[u] = "live"}

Init == /\ state = [u \in User |-> "none"]
        /\ born = [u \in User |-> 0]
        /\ now = 1
        /\ pc = "new"
        /\ limit = DefaultLimit /\ offset = 0 /\ total = 0
        /\ seen = {} /\ shown = 0
        /\ stayed = {} /\ came = 0 /\ went = 0 /\ drift = 0

-----------------------------------------------------------------------------
(* The users.                                                              *)

Walking == pc \in {"ask", "counted"}
Bump(n) == IF Walking THEN n + 1 ELSE n

\* Repository.Create, in the transaction of the service.
Insert(u) == /\ state[u] = "none"
             /\ now' \in {now, now + 1}
             /\ born' = [born EXCEPT ![u] = now']
             /\ state' = [state EXCEPT ![u] = "tx"]
             /\ UNCHANGED <<walk, stayed, came, went, drift>>

Commit(u) == /\ state[u] = "tx"
             /\ state' = [state EXCEPT ![u] = "live"]
             /\ came' = Bump(came) /\ drift' = Bump(drift)
             /\ UNCHANGED <<walk, born, now, stayed, went>>

Rollback(u) == /\ state[u] = "tx"
               /\ state' = [state EXCEPT ![u] = "deleted"]
               /\ UNCHANGED <<walk, born, now, stayed, came, went, drift>>

\* Repository.Delete sets deleted_at.
Delete(u) == /\ state[u] = "live"
             /\ state' = [state EXCEPT ![u] = "deleted"]
             /\ stayed' = stayed \ {u}
             /\ went' = Bump(went) /\ drift' = Bump(drift)
             /\ UNCHANGED <<walk, born, now, came>>

-----------------------------------------------------------------------------
(* One page.                                                               *)

\* Controller.List: no limit means the default; then the range is validated.
LimitOf(asked) ==
  LET l == IF asked = 0 THEN DefaultLimit ELSE asked
  IN  IF l \in 1..MaxLimit THEN l ELSE Refused

Start(asked) ==
  /\ pc = "new"
  /\ limit' = IF LimitOf(asked) = Refused THEN limit ELSE LimitOf(asked)
  /\ pc' = IF LimitOf(asked) = Refused THEN "refused" ELSE "ask"
  /\ stayed' = Live
  /\ UNCHANGED <<users, offset, total, seen, shown, came, went, drift>>

\* Mutant of Counted: WHERE deleted_at IS NULL is missing.
CountedAll == {u \in User : state[u] \in {"live", "deleted"}}

Counted == Live

\* SELECT COUNT(*)
Count == /\ pc = "ask"
         /\ total' = Cardinality(Counted)
         /\ drift' = 0
         /\ pc' = "counted"
         /\ UNCHANGED <<users, limit, offset, seen, shown, stayed, came, went>>

Smaller(a, b) == IF a < b THEN a ELSE b
NewerOrSame(A, B) == \A a \in A, b \in B : born[a] >= born[b]

\* Mutant of Pages: no ORDER BY.
PagesUnordered(n, o) ==
  {P \in SUBSET Live :
     \E B \in SUBSET (Live \ P) :
       /\ Cardinality(B) = Smaller(o, Cardinality(Live))
       /\ Cardinality(P) = Smaller(n, Cardinality(Live \ B))}

\* Mutant of Pages: the arguments of LIMIT and OFFSET are swapped.
PagesSwapped(n, o) ==
  {P \in SUBSET Live :
     \E B \in SUBSET (Live \ P) :
       /\ Cardinality(B) = Smaller(n, Cardinality(Live))
       /\ Cardinality(P) = Smaller(o, Cardinality(Live \ B))
       /\ NewerOrSame(B, Live \ B)
       /\ NewerOrSame(P, Live \ (B \union P))}

\* The sets of rows that ORDER BY created_at DESC LIMIT n OFFSET o may select:
\* B is what the offset skips, in an order that is free among equals.
Pages(n, o) ==
  {P \in SUBSET Live :
     \E B \in SUBSET (Live \ P) :
       /\ Cardinality(B) = Smaller(o, Cardinality(Live))
       /\ Cardinality(P) = Smaller(n, Cardinality(Live \ B))
       /\ NewerOrSame(B, Live \ B)
       /\ NewerOrSame(P, Live \ (B \union P))}

\* The second statement, the answer and what the client makes of it.
Select ==
  /\ pc = "counted"
  /\ \E page \in Pages(limit, offset) :
       /\ seen' = seen \union page
       /\ shown' = shown + Cardinality(page)
       /\ \/ Cardinality(page) < limit /\ pc' = "done" /\ UNCHANGED offset
          \/ Cardinality(page) >= limit /\ pc' = "ask" /\ offset' = offset + limit
  /\ UNCHANGED <<users, limit, total, stayed, came, went, drift>>

Next == \/ \E u \in User : Insert(u) \/ Commit(u) \/ Rollback(u) \/ Delete(u)
        \/ \E asked \in 0..MaxLimit + 1 : Start(asked)
        \/ Count \/ Select

Spec == Init /\ [][Next]_vars

-----------------------------------------------------------------------------
(* Properties.                                                             *)

\* The type invariant of the listing.
TypeOK ==
  /\ state \in [User -> {"none", "tx", "live", "deleted"}]
  /\ born \in [User -> Nat] /\ now \in Nat
  /\ pc \in {"new", "ask", "counted", "done", "refused"}
  /\ limit \in 1..MaxLimit
  /\ offset \in Nat
  /\ total \in 0..Cardinality(User)
  /\ seen \subseteq User /\ shown \in Nat
  /\ stayed \subseteq Live
  /\ came \in Nat /\ went \in Nat /\ drift \in Nat

NoTies == \A u, v \in User : u # v /\ born[u] = born[v] => born[u] = 0

\* A walk past offsets misses at most one user for each that is deleted while
\* it goes on, of those that were there all the time; users with the same
\* created_at are the exception, no order being asked for among them.
MissesAreDeletions ==
  pc = "done" /\ NoTies => Cardinality(stayed \ seen) <= went

\* It shows no more users again than have come meanwhile.
RepeatsAreArrivals == NoTies => shown - Cardinality(seen) <= came

\* Total and page of one answer agree up to what has come and gone between
\* the two statements.
Expected == IF total <= offset THEN 0 ELSE Smaller(limit, total - offset)
PageFitsTotal ==
  [][Select => /\ shown' - shown <= Expected + drift
               /\ Expected <= shown' - shown + drift]_vars
=============================================================================
