--------------------------- MODULE Accounts_proofs ---------------------------
(***************************************************************************)
(* Proofs about Accounts for any calls and emails.                         *)
(***************************************************************************)
EXTENDS Accounts, TLAPS

\* NewEmail is an email.
LEMMA NewEmailType ==
  ASSUME AccountAssumption, NEW d \in Edit PROVE NewEmail(d) \in Email
BY DEF AccountAssumption, NewEmail

LEMMA TypeNext ==
  ASSUME AccountAssumption, TypeOK, [Next]_vars
  PROVE  TypeOK'
<1> USE DEF TypeOK, AccountAssumption, Goto, Calls
<1>1. ASSUME NEW c \in Signup, Insert(c) PROVE TypeOK'
  BY <1>1 DEF Insert
<1>2. ASSUME NEW c \in Signup, AddUserToGroup(c) PROVE TypeOK'
  BY <1>2 DEF AddUserToGroup
<1>3. ASSUME NEW c \in Signup, Abort(c) PROVE TypeOK'
  BY <1>3 DEF Abort
<1>4. ASSUME NEW c \in Signup, Commit(c) PROVE TypeOK'
  BY <1>4 DEF Commit
<1>5. ASSUME NEW c \in Signup, Finish(c) PROVE TypeOK'
  BY <1>5 DEF Finish
<1>6. ASSUME NEW d \in Edit, Update(d) PROVE TypeOK'
  BY <1>6, NewEmailType DEF Update
<1>7. ASSUME NEW d \in Edit, UpdateRefused(d) PROVE TypeOK'
  BY <1>7 DEF UpdateRefused
<1>8. ASSUME NEW d \in Removal, Delete(d) PROVE TypeOK'
  BY <1>8 DEF Delete
<1>9. ASSUME NEW d \in Removal, DeleteRefused(d) PROVE TypeOK'
  BY <1>9 DEF DeleteRefused
<1>10. ASSUME NEW d \in Edit \union Removal, Log(d) PROVE TypeOK'
  BY <1>10 DEF Log
<1>11. CASE UNCHANGED vars
  BY <1>11 DEF vars
<1>12. QED
  BY <1>1, <1>2, <1>3, <1>4, <1>5, <1>6, <1>7, <1>8, <1>9, <1>10, <1>11
  DEF Next, SignupStep

-----------------------------------------------------------------------------
(* The invariant.  A row is in a transaction exactly while its signup is;  *)
(* it has an email from the insert on and its membership from the second   *)
(* statement on; no two rows, committed or not, have the same email.       *)

RowInv ==
  /\ \A c \in Signup : pc[c] \in {"idle", "exists"} => row[c] = "none"
  /\ \A c \in Signup : row[c] = "tx" <=> pc[c] \in {"inserted", "joined"}
  /\ \A c \in Signup : pc[c] \in {"committed", "ok", "unready"} => Committed(c)
  /\ \A c \in Signup : pc[c] = "unready" => c \in Public
  /\ \A c \in Signup : pc[c] = "failed" /\ row[c] # "none" => c \in lost
  /\ \A c \in Signup : row[c] = "none" <=> email[c] = Nobody
  /\ \A c \in Signup : Committed(c) \/ pc[c] = "joined" => c \in group

Unique ==
  \A x, y \in Signup : x # y /\ row[x] # "none" /\ row[y] # "none" => email[x] # email[y]

LowerInv == \A c \in Signup : row[c] # "none" => Lower[email[c]] = email[c]

DeleteInv ==
  /\ \A d \in Removal : pc[d] \in {"done", "ok"} => row[TargetOf[d]] = "deleted"
  /\ OneDeletes
  /\ AuditIsTrue
  /\ \A d \in audit \intersect Removal : pc[d] = "ok"

LEMMA RowNext ==
  ASSUME AccountAssumption, TypeOK, RowInv, [Next]_vars
  PROVE  RowInv'
<1> USE DEF TypeOK, AccountAssumption, Goto, Calls, RowInv, Committed
<1>1. ASSUME NEW c \in Signup, Insert(c) PROVE RowInv'
  BY <1>1 DEF Insert
<1>2. ASSUME NEW c \in Signup, AddUserToGroup(c) PROVE RowInv'
  BY <1>2 DEF AddUserToGroup
<1>3. ASSUME NEW c \in Signup, Abort(c) PROVE RowInv'
  BY <1>3 DEF Abort
<1>4. ASSUME NEW c \in Signup, Commit(c) PROVE RowInv'
  BY <1>4 DEF Commit
<1>5. ASSUME NEW c \in Signup, Finish(c) PROVE RowInv'
  BY <1>5 DEF Finish
<1>6. ASSUME NEW d \in Edit, Update(d) PROVE RowInv'
  BY <1>6, NewEmailType DEF Update
<1>7. ASSUME NEW d \in Edit, UpdateRefused(d) PROVE RowInv'
  BY <1>7 DEF UpdateRefused
<1>8. ASSUME NEW d \in Removal, Delete(d) PROVE RowInv'
  BY <1>8 DEF Delete
<1>9. ASSUME NEW d \in Removal, DeleteRefused(d) PROVE RowInv'
  BY <1>9 DEF DeleteRefused
<1>10. ASSUME NEW d \in Edit \union Removal, Log(d) PROVE RowInv'
  BY <1>10 DEF Log
<1>11. CASE UNCHANGED vars
  BY <1>11 DEF vars
<1>12. QED
  BY <1>1, <1>2, <1>3, <1>4, <1>5, <1>6, <1>7, <1>8, <1>9, <1>10, <1>11
  DEF Next, SignupStep

\* An email that is neither taken nor pending belongs to no other row.
LEMMA FreeEmail ==
  ASSUME TypeOK, NEW x \in Signup, NEW e, Taken(e, x) = {}, Pending(e, x) = {},
         NEW y \in Signup, y # x, row[y] # "none"
  PROVE  email[y] # e
BY DEF TypeOK, Taken, Pending, Committed

LEMMA UniqueNext ==
  ASSUME AccountAssumption, TypeOK, RowInv, Unique, [Next]_vars
  PROVE  Unique'
<1> USE DEF TypeOK, AccountAssumption, Unique
<1>1. ASSUME NEW c \in Signup, Insert(c) PROVE Unique'
  <2>1. CASE UNCHANGED <<row, email>>
    BY <2>1
  <2>2. CASE Taken(Lower[EmailOf[c]], c) = {}
    BY <1>1, <2>2, FreeEmail DEF Insert
  <2>3. QED BY <1>1, <2>1, <2>2 DEF Insert
<1>2. ASSUME NEW c \in Signup, Abort(c) PROVE Unique'
  BY <1>2 DEF Abort
<1>3. ASSUME NEW c \in Signup, Commit(c) PROVE Unique'
  BY <1>3 DEF Commit, RowInv
<1>4. ASSUME NEW d \in Edit, Update(d) PROVE Unique'
  BY <1>4, FreeEmail DEF Update
<1>5. ASSUME NEW d \in Removal, Delete(d) PROVE Unique'
  BY <1>5 DEF Delete
<1>6. CASE UNCHANGED <<row, email>>
  BY <1>6
<1>7. QED
  BY <1>1, <1>2, <1>3, <1>4, <1>5, <1>6
  DEF Next, SignupStep, vars, AddUserToGroup, Finish, UpdateRefused, DeleteRefused, Log

LEMMA LowerNext ==
  ASSUME AccountAssumption, TypeOK, RowInv, LowerInv, [Next]_vars
  PROVE  LowerInv'
<1> USE DEF TypeOK, AccountAssumption, LowerInv
<1>1. ASSUME NEW c \in Signup, Insert(c) PROVE LowerInv'
  <2>1. EmailOf[c] \in Email
    OBVIOUS
  <2>2. QED BY <1>1, <2>1 DEF Insert
<1>2. ASSUME NEW c \in Signup, Abort(c) PROVE LowerInv'
  BY <1>2 DEF Abort
<1>3. ASSUME NEW c \in Signup, Commit(c) PROVE LowerInv'
  BY <1>3 DEF Commit, RowInv
<1>4. ASSUME NEW d \in Edit, Update(d) PROVE LowerInv'
  BY <1>4 DEF Update
<1>5. ASSUME NEW d \in Removal, Delete(d) PROVE LowerInv'
  BY <1>5 DEF Delete
<1>6. CASE UNCHANGED <<row, email>>
  BY <1>6
<1>7. QED
  BY <1>1, <1>2, <1>3, <1>4, <1>5, <1>6
  DEF Next, SignupStep, vars, AddUserToGroup, Finish, UpdateRefused, DeleteRefused, Log

LEMMA DeleteNext ==
  ASSUME AccountAssumption, TypeOK, RowInv, DeleteInv, [Next]_vars
  PROVE  DeleteInv'
<1> USE DEF TypeOK, AccountAssumption, Goto, Calls, DeleteInv, OneDeletes, AuditIsTrue
<1>1. ASSUME NEW c \in Signup, Insert(c) PROVE DeleteInv'
  BY <1>1 DEF Insert, RowInv, Committed
<1>2. ASSUME NEW c \in Signup, AddUserToGroup(c) PROVE DeleteInv'
  BY <1>2 DEF AddUserToGroup, RowInv, Committed
<1>3. ASSUME NEW c \in Signup, Abort(c) PROVE DeleteInv'
  BY <1>3 DEF Abort, RowInv, Committed
<1>4. ASSUME NEW c \in Signup, Commit(c) PROVE DeleteInv'
  BY <1>4 DEF Commit, RowInv, Committed
<1>5. ASSUME NEW c \in Signup, Finish(c) PROVE DeleteInv'
  BY <1>5 DEF Finish, RowInv, Committed
<1>6. ASSUME NEW d \in Edit, Update(d) \/ UpdateRefused(d) PROVE DeleteInv'
  BY <1>6 DEF Update, UpdateRefused, Committed
<1>7. ASSUME NEW d \in Removal, Delete(d) PROVE DeleteInv'
  BY <1>7 DEF Delete, Committed
<1>8. ASSUME NEW d \in Removal, DeleteRefused(d) PROVE DeleteInv'
  BY <1>8 DEF DeleteRefused, Committed
<1>9. ASSUME NEW d \in Edit \union Removal, Log(d) PROVE DeleteInv'
  BY <1>9 DEF Log, Committed
<1>10. CASE UNCHANGED vars
  BY <1>10 DEF vars, Committed
<1>11. QED
  BY <1>1, <1>2, <1>3, <1>4, <1>5, <1>6, <1>7, <1>8, <1>9, <1>10
  DEF Next, SignupStep

AccountInv == TypeOK /\ RowInv /\ Unique /\ LowerInv /\ DeleteInv

LEMMA AccountsHold == Spec => []AccountInv
<1>1. Init => AccountInv
  BY AccountAssumption DEF AccountAssumption, Init, AccountInv, TypeOK, RowInv, Unique,
     LowerInv, DeleteInv, OneDeletes, AuditIsTrue, Committed, Calls
<1>2. AccountInv /\ [Next]_vars => AccountInv'
  BY TypeNext, RowNext, UniqueNext, LowerNext, DeleteNext, AccountAssumption DEF AccountInv
<1>3. QED BY <1>1, <1>2, PTL DEF Spec

-----------------------------------------------------------------------------
\* The type invariant of the accounts holds in every reachable state.
THEOREM AccountTypes == Spec => []TypeOK
<1>1. AccountInv => TypeOK
  BY DEF AccountInv
<1>2. QED BY <1>1, AccountsHold, PTL

\* What signups are told is true.
THEOREM Honesty == Spec => []AnswersAreHonest
<1>1. AccountInv => AnswersAreHonest
  BY DEF AccountInv, RowInv, AnswersAreHonest
<1>2. QED BY <1>1, AccountsHold, PTL

\* No email belongs to two users, in whatever spelling it was given.
THEOREM OneAccountPerSpelling == Spec => []OneSpelling
<1>1. AccountInv => OneSpelling
  BY DEF AccountInv, LowerInv, Unique, OneSpelling, Committed
<1>2. QED BY <1>1, AccountsHold, PTL

\* One call at most is told that it has deleted a user.
THEOREM OneDeleter == Spec => []OneDeletes
<1>1. AccountInv => OneDeletes
  BY DEF AccountInv, DeleteInv
<1>2. QED BY <1>1, AccountsHold, PTL

\* The audit log reports only what has happened.
THEOREM AuditTells == Spec => []AuditIsTrue
<1>1. AccountInv => AuditIsTrue
  BY DEF AccountInv, DeleteInv
<1>2. QED BY <1>1, AccountsHold, PTL

-----------------------------------------------------------------------------
(* The refinement: COMMIT, UPDATE and DELETE are the steps of a Directory, *)
(* everything else leaves what it sees unchanged.                          *)

Addresses == [c \in Signup |-> IF Committed(c) THEN email[c] ELSE Nobody]
Left == {c \in Signup : row[c] = "deleted"}
Members == {c \in group : Committed(c)}

LEMMA CommitJoins ==
  ASSUME TypeOK, RowInv, Unique, NEW c \in Signup, Commit(c), NEW e, e = email[c]
  PROVE  Dir!Join(c, e)
<1> USE DEF TypeOK, RowInv, Committed
<1>1. row[c] = "tx" /\ c \in group
  BY DEF Commit
<1>2. Addresses[c] = Nobody /\ \A v \in Signup \ {c} : Addresses[v] # e
  BY <1>1 DEF Addresses, Unique
<1>3. Addresses' = [Addresses EXCEPT ![c] = e]
  BY <1>1 DEF Commit, Addresses
<1>4. Members' = Members \union {c} /\ Left' = Left
  BY <1>1 DEF Commit, Members, Left
<1>5. QED
  BY <1>1, <1>2, <1>3, <1>4 DEF Dir!Join, Dir!Free, Addresses, Members, Left

LEMMA UpdateRenames ==
  ASSUME AccountAssumption, TypeOK, RowInv, NEW d \in Edit, Update(d)
  PROVE  Dir!Rename(TargetOf[d], NewEmail(d))
<1> DEFINE x == TargetOf[d]
<1>1. x \in Signup /\ row[x] = "live" /\ x \in group
  BY DEF Update, AccountAssumption, RowInv, Committed
<1>2. \A v \in Signup \ {x} : Addresses[v] # NewEmail(d)
  <2>1. ASSUME NEW v \in Signup, v # x, Committed(v) PROVE email[v] # NewEmail(d)
    BY <2>1, <1>1, FreeEmail DEF Update, Committed
  <2>2. Nobody # NewEmail(d)
    BY NewEmailType DEF AccountAssumption
  <2>3. QED BY <2>1, <2>2 DEF Addresses
<1>3. Addresses' = [Addresses EXCEPT ![x] = NewEmail(d)]
  BY <1>1 DEF Update, Addresses, TypeOK, Committed
<1>4. Members' = Members /\ Left' = Left
  BY DEF Update, Members, Left, Committed
<1>5. x \in Members \ Left
  BY <1>1 DEF Members, Left, Committed
<1>6. QED
  BY <1>2, <1>3, <1>4, <1>5 DEF Dir!Rename, Dir!Free, Addresses, Members, Left

LEMMA DeleteLeaves ==
  ASSUME AccountAssumption, TypeOK, RowInv, NEW d \in Removal, Delete(d)
  PROVE  Dir!Leave(TargetOf[d])
<1> DEFINE x == TargetOf[d]
<1>1. x \in Signup /\ row[x] = "live" /\ x \in group
  BY DEF Delete, AccountAssumption, RowInv, Committed
<1>2. Addresses' = Addresses /\ Members' = Members
  BY <1>1 DEF Delete, Addresses, Members, TypeOK, Committed
<1>3. Left' = Left \union {x}
  BY <1>1 DEF Delete, Left, TypeOK
<1>4. x \in Members \ Left
  BY <1>1 DEF Members, Left, Committed
<1>5. QED
  BY <1>2, <1>3, <1>4 DEF Dir!Leave, Addresses, Members, Left

LEMMA DirectoryStep ==
  ASSUME AccountAssumption, AccountInv, [Next]_vars
  PROVE  [Dir!Next]_<<Addresses, Left, Members>>
<1> USE DEF AccountInv
<1> DEFINE Same == UNCHANGED <<Addresses, Left, Members>>
<1>1. ASSUME NEW c \in Signup, Insert(c) PROVE Same
  BY <1>1 DEF Insert, Addresses, Left, Members, Committed, TypeOK, RowInv
<1>2. ASSUME NEW c \in Signup, AddUserToGroup(c) PROVE Same
  <2>1. ~Committed(c)
    BY <1>2 DEF AddUserToGroup, RowInv, Committed
  <2>2. QED
    BY <1>2, <2>1 DEF AddUserToGroup, Addresses, Left, Members, Committed
<1>3. ASSUME NEW c \in Signup, Abort(c) PROVE Same
  <2>1. row[c] \in {"none", "tx"}
    BY <1>3 DEF Abort, RowInv
  <2>2. QED
    BY <1>3, <2>1 DEF Abort, Addresses, Left, Members, Committed, TypeOK
<1>4. ASSUME NEW c \in Signup, Commit(c) PROVE Dir!Next
  <2>1. PICK e \in Email : e = email[c]
    BY <1>4 DEF TypeOK, RowInv, Commit
  <2>2. Dir!Join(c, e)
    BY <1>4, <2>1, CommitJoins
  <2>3. QED
    BY <2>2 DEF Dir!Next
<1>5. ASSUME NEW d \in Edit, Update(d) PROVE Dir!Next
  BY <1>5, UpdateRenames, NewEmailType DEF Dir!Next, AccountAssumption
<1>6. ASSUME NEW d \in Removal, Delete(d) PROVE Dir!Next
  BY <1>6, DeleteLeaves DEF Dir!Next, AccountAssumption
<1>7. CASE UNCHANGED <<row, email, group>>
  BY <1>7 DEF Addresses, Left, Members, Committed
<1>8. QED
  BY <1>1, <1>2, <1>3, <1>4, <1>5, <1>6, <1>7
  DEF Next, SignupStep, vars, Finish, UpdateRefused, DeleteRefused, Log

\* The accounts implement Directory: emails are unique for ever and nobody is
\* seen without the membership, under every interleaving and every failure.
THEOREM ImplementsDirectory == Spec => IsDirectory
<1>1. Init => Dir!Init
  BY DEF Init, Dir!Init, Committed
<1>2. AccountInv /\ [Next]_vars => [Dir!Next]_<<Addresses, Left, Members>>
  BY DirectoryStep, AccountAssumption
<1>3. [Dir!Next]_<<Addresses, Left, Members>> => [Dir!Next]_(Dir!dvars)
  BY DEF Dir!dvars, Addresses, Left, Members
<1>4. QED
  BY <1>1, <1>2, <1>3, AccountsHold, PTL DEF Spec, IsDirectory, Dir!Spec

=============================================================================
